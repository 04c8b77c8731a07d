------------------------------- MODULE Msgchan -------------------------------
(***************************************************************************)
(* Message channels (lib/usr/clib/msgchan): the first mc_create of a name  *)
(* makes a parent with two rings, the following ones attach children that  *)
(* share its rings crosswise.  mc_create and most of mc_destroy run under  *)
(* the list mutex and are one step; mc_send and mc_recv take no lock, and  *)
(* mc_destroy looks at the cookie before it does.                          *)
(*                                                                         *)
(* The rings are the FIFOs that CneRing implements.  Each user has at most *)
(* one handle, all of them to channels of one name; the structure behind   *)
(* the handle of user u is chan[u].                                        *)
(***************************************************************************)
EXTENDS Integers, Sequences, FiniteSets, Functions, FiniteSetsExt

CONSTANTS
  Users,
  Capacity,    \* of each ring
  MaxAttach,   \* bound on the children attached to one parent
  MaxSent,     \* bound on the messages sent by one handle
  MaxTimeouts  \* bound on the receive timeouts counted by one handle

ASSUME ChanAssumption ==
  Capacity \in Nat /\ MaxAttach \in Nat /\ MaxSent \in Nat /\ MaxTimeouts \in Nat

VARIABLES
  orderly,   \* whether users destroy a parent last, see MayDestroy
  chan,      \* the structures: FreeChan, or the fields of msg_chan_t
  ring,      \* the two rings of the parent, as sequences of senders
  has,       \* the users that have a handle
  at,        \* where a user's call is
  attached,  \* history: children attached to the current parent
  lost,      \* history: send_cnt and recv_cnt of children destroyed
  misuse     \* history: a call looked at a structure that was freed

chanVars == <<orderly, chan, ring, has, at, attached, lost, misuse>>

FreeChan == [cookie |-> FALSE, parent |-> FALSE, name |-> -1, child_count |-> 0,
             send |-> 0, recv |-> 0, send_cnt |-> 0, recv_cnt |-> 0, recv_timeouts |-> 0]

(* A structure from calloc, its cookie, kind, name and rings set. *)
NewChan(parent, name, send, recv) ==
  [cookie |-> TRUE, parent |-> parent, name |-> name, child_count |-> 0,
   send |-> send, recv |-> recv, send_cnt |-> 0, recv_cnt |-> 0, recv_timeouts |-> 0]

MC_RECV_RING == 0
MC_SEND_RING == 1

Parents == {u \in Users : chan[u].cookie /\ chan[u].parent}
ChildrenOf == {u \in Users : chan[u].cookie /\ ~chan[u].parent}

ChanInit ==
  /\ orderly \in BOOLEAN
  /\ chan = [u \in Users |-> FreeChan]
  /\ ring = [r \in {MC_RECV_RING, MC_SEND_RING} |-> <<>>]
  /\ has = {} /\ at = [u \in Users |-> "idle"]
  /\ attached = 0
  /\ lost = [send_cnt |-> 0, recv_cnt |-> 0]
  /\ misuse = FALSE

(* Fault: the rings are not swapped. *)
attach_childStraight(u, p) ==
  /\ chan' = [chan EXCEPT
       ![u] = NewChan(FALSE, chan[p].child_count, chan[p].send, chan[p].recv),
       ![p].child_count = @ + 1]
  /\ attached' = attached + 1
  /\ UNCHANGED <<ring, lost>>

(* Fault: child_count is not raised. *)
attach_childUncounted(u, p) ==
  /\ chan' = [chan EXCEPT ![u] = NewChan(FALSE, chan[p].child_count, chan[p].recv, chan[p].send)]
  /\ attached' = attached + 1
  /\ UNCHANGED <<ring, lost>>

(* The child is named after child_count and uses the rings the other way. *)
attach_child(u, p) ==
  /\ chan' = [chan EXCEPT
       ![u] = NewChan(FALSE, chan[p].child_count, chan[p].recv, chan[p].send),
       ![p].child_count = @ + 1]
  /\ attached' = attached + 1
  /\ UNCHANGED <<ring, lost>>

NewParent(u) ==
  /\ chan' = [chan EXCEPT ![u] = NewChan(TRUE, -1, MC_SEND_RING, MC_RECV_RING)]
  /\ ring' = [r \in {MC_RECV_RING, MC_SEND_RING} |-> <<>>]
  /\ attached' = 0
  /\ lost' = [send_cnt |-> 0, recv_cnt |-> 0]

(* With MC_NO_CHILD_CREATE, and an existing name, NULL is returned. *)
mc_create(u) ==
  /\ u \notin has /\ at[u] = "idle"
  /\ orderly => \A v \in Users : at[v] # "destroy"
  /\ \/ Parents = {} /\ NewParent(u)
     \/ \E p \in Parents : attached < MaxAttach /\ attach_child(u, p)
  /\ has' = has \cup {u}
  /\ UNCHANGED <<orderly, at, misuse>>

(***************************************************************************)
(* mc_send and mc_recv, for one object.                                    *)
(***************************************************************************)
(* The cookie of a freed structure is checked: whatever it is, that is     *)
(* memory the library no longer has.                                       *)
Misused(u) ==
  /\ misuse' = TRUE
  /\ has' = has \ {u}
  /\ at' = [at EXCEPT ![u] = "idle"]
  /\ UNCHANGED <<orderly, chan, ring, attached, lost>>

mc_send(u) ==
  /\ u \in has /\ at[u] = "idle"
  /\ \/ ~chan[u].cookie /\ Misused(u)
     \/ LET r == chan[u].send IN
        /\ chan[u].cookie /\ chan[u].send_cnt < MaxSent
        /\ Len(ring[r]) < Capacity
        /\ ring' = [ring EXCEPT ![r] = Append(@, u)]
        /\ at' = [at EXCEPT ![u] = "sent"]
        /\ UNCHANGED <<orderly, chan, has, attached, lost, misuse>>

(* mc_recv: the checks; msec # 0 makes __recv wait *)
mc_recv(u) ==
  /\ u \in has /\ at[u] = "idle"
  /\ \/ ~chan[u].cookie /\ Misused(u)
     \/ /\ chan[u].cookie
        /\ \E l \in {"recv", "recv_wait"} :
             /\ l = "recv_wait" => chan[u].recv_timeouts < MaxTimeouts
             /\ at' = [at EXCEPT ![u] = l]
        /\ UNCHANGED <<orderly, chan, ring, has, attached, lost, misuse>>

(* cne_ring_dequeue_burst finds an object. *)
Received(u) ==
  LET r == chan[u].recv IN
  /\ at[u] \in {"recv", "recv_wait"} /\ chan[u].cookie
  /\ ring[r] # <<>>
  /\ ring' = [ring EXCEPT ![r] = Tail(@)]
  /\ at' = [at EXCEPT ![u] = "received"]
  /\ UNCHANGED <<orderly, chan, has, attached, lost, misuse>>

(* It finds none, and there is no time to wait, or no more: then __recv    *)
(* and mc_recv both count the timeout.                                     *)
NotReceived(u) ==
  /\ at[u] \in {"recv", "recv_wait"} /\ chan[u].cookie
  /\ ring[chan[u].recv] = <<>>
  /\ at' = [at EXCEPT ![u] = "idle"]
  /\ IF at[u] = "recv"
     THEN UNCHANGED chan
     ELSE chan' = [chan EXCEPT ![u].recv_timeouts = @ + 2]
  /\ UNCHANGED <<orderly, ring, has, attached, lost, misuse>>

(* The statistics, after the ring operation. *)
Count(u) ==
  /\ at[u] \in {"sent", "received"} /\ chan[u].cookie
  /\ chan' = [chan EXCEPT
       ![u].send_cnt = IF at[u] = "sent" THEN @ + 1 ELSE @,
       ![u].recv_cnt = IF at[u] = "received" THEN @ + 1 ELSE @]
  /\ at' = [at EXCEPT ![u] = "idle"]
  /\ UNCHANGED <<orderly, ring, has, attached, lost, misuse>>

(* The structure is gone in the middle of a call. *)
CallMisused(u) ==
  at[u] \in {"recv", "recv_wait", "sent", "received"} /\ ~chan[u].cookie /\ Misused(u)

(***************************************************************************)
(* mc_destroy.                                                             *)
(***************************************************************************)
(* What users who take care do: nobody else has a handle, or asks for one, *)
(* when the parent goes.                                                   *)
MayDestroy(u) == orderly /\ chan[u].parent => has = {u}

mc_destroy(u) ==
  /\ u \in has /\ at[u] = "idle" /\ MayDestroy(u)
  /\ \/ ~chan[u].cookie /\ Misused(u)
     \/ /\ chan[u].cookie
        /\ at' = [at EXCEPT ![u] = "destroy"]
        /\ UNCHANGED <<orderly, chan, ring, has, attached, lost, misuse>>

DestroyParent(u) ==
  /\ chan' = [v \in Users |-> FreeChan]
  /\ ring' = [r \in {MC_RECV_RING, MC_SEND_RING} |-> <<>>]
  /\ UNCHANGED lost

(* Fault: a child is destroyed like a parent. *)
DestroyChildAsParent(u) ==
  /\ chan' = [v \in Users |-> FreeChan]
  /\ ring' = [r \in {MC_RECV_RING, MC_SEND_RING} |-> <<>>]
  /\ UNCHANGED lost

DestroyChild(u) ==
  /\ chan' = [chan EXCEPT ![u] = FreeChan]
  /\ lost' = [send_cnt |-> lost.send_cnt + chan[u].send_cnt,
              recv_cnt |-> lost.recv_cnt + chan[u].recv_cnt]
  /\ UNCHANGED ring

(* Under the list mutex, on a structure that may be gone by now. *)
DestroyLocked(u) ==
  /\ at[u] = "destroy"
  /\ \/ ~chan[u].cookie /\ Misused(u)
     \/ /\ chan[u].cookie
        /\ IF chan[u].parent THEN DestroyParent(u) ELSE DestroyChild(u)
        /\ has' = has \ {u}
        /\ at' = [at EXCEPT ![u] = "idle"]
        /\ UNCHANGED <<orderly, attached, misuse>>

ChanNext ==
  \E u \in Users :
    \/ mc_create(u) \/ mc_send(u) \/ mc_recv(u) \/ Received(u) \/ NotReceived(u)
    \/ Count(u) \/ CallMisused(u) \/ mc_destroy(u) \/ DestroyLocked(u)

ChanSpec == ChanInit /\ [][ChanNext]_chanVars

(***************************************************************************)
(* Properties.                                                             *)
(***************************************************************************)
(* The fields of msg_chan_t. *)
msg_chan_t == [cookie : BOOLEAN, parent : BOOLEAN, name : -1 .. MaxAttach,
               child_count : 0 .. MaxAttach, send : {0, 1}, recv : {0, 1},
               send_cnt : 0 .. MaxSent, recv_cnt : Nat, recv_timeouts : 0 .. MaxTimeouts + 1]

Places == {"idle", "recv", "recv_wait", "sent", "received", "destroy"}

(* Every handle leads to a structure of its own kind; rings within bounds. *)
ChanTypeOK ==
  /\ chan \in [Users -> msg_chan_t]
  /\ \A r \in DOMAIN ring : Len(ring[r]) <= Capacity
  /\ has \subseteq Users
  /\ at \in [Users -> Places]

Total(f(_), S) == MapThenSumSet(f, S)

(* Messages cross over: what the parent sends is counted by its children   *)
(* or still on the way, and the other way round, over all the children     *)
(* that ever were attached, whenever no call is about to count.            *)
CountsBalance ==
  orderly /\ (\A u \in Users : at[u] \notin {"sent", "received"}) => \A p \in Parents :
    LET Sent(u) == chan[u].send_cnt
        Recv(u) == chan[u].recv_cnt
    IN /\ chan[p].send_cnt =
            Total(Recv, ChildrenOf) + lost.recv_cnt + Len(ring[MC_SEND_RING])
       /\ Total(Sent, ChildrenOf) + lost.send_cnt =
            chan[p].recv_cnt + Len(ring[MC_RECV_RING])

(* There is one parent of a name and no child without it, and children     *)
(* that live at the same time never have the same name, although others    *)
(* were destroyed in between.                                              *)
OneFamily ==
  /\ ChanTypeOK
  /\ Cardinality(Parents) <= 1 /\ (ChildrenOf # {} => Parents # {})
  /\ \A u, v \in ChildrenOf : u # v => chan[u].name # chan[v].name

(* If users destroy a parent last, no call, not even an mc_destroy that    *)
(* checked the cookie before it had the mutex, looks at freed structures.  *)
NoMisuse == orderly => ~misuse
=============================================================================
