---------------------------- MODULE MsgchanProofs ----------------------------
(***************************************************************************)
(* Proofs about the message channels: OneFamily and NoMisuse hold for any  *)
(* set of users, any ring capacity and any bounds.                         *)
(*                                                                         *)
(* The invariant adds to OneFamily what the next name rests on (the        *)
(* parent's child_count counts the attachments, destroyed children         *)
(* included, and every living child has an earlier name) and to NoMisuse   *)
(* what a handle rests on (with users that destroy a parent last, every    *)
(* handle leads to a living structure, and a parent on its way out is the  *)
(* last of its family).                                                    *)
(***************************************************************************)
EXTENDS Msgchan, FiniteSetTheorems, TLAPS

(* The types of all variables that a step depends on. *)
ChanTypes ==
  /\ chan \in [Users -> msg_chan_t]
  /\ ring \in [{0, 1} -> Seq(Users)]
  /\ \A r \in {0, 1} : Len(ring[r]) <= Capacity
  /\ has \subseteq Users
  /\ at \in [Users -> Places]
  /\ attached \in 0 .. MaxAttach
  /\ orderly \in BOOLEAN /\ misuse \in BOOLEAN

(* A call that is about to count has room to. *)
RoomToCount ==
  \A u \in Users : chan[u].cookie =>
    /\ at[u] = "sent" => chan[u].send_cnt < MaxSent
    /\ at[u] = "recv_wait" => chan[u].recv_timeouts < MaxTimeouts

(* Who has a handle. *)
Handles ==
  /\ \A u \in Users : chan[u].cookie => u \in has
  /\ \A u \in Users : at[u] # "idle" => u \in has

Family ==
  /\ \A u, w \in Users : chan[u].cookie /\ chan[u].parent /\ chan[w].cookie /\ chan[w].parent => u = w
  /\ \A u \in Users : chan[u].cookie /\ ~chan[u].parent => \E p \in Users : chan[p].cookie /\ chan[p].parent
  /\ \A u \in Users : chan[u].cookie /\ chan[u].parent => chan[u].child_count = attached
  /\ \A u \in Users : chan[u].cookie /\ ~chan[u].parent => 0 <= chan[u].name /\ chan[u].name < attached
  /\ \A u, w \in Users :
       chan[u].cookie /\ ~chan[u].parent /\ chan[w].cookie /\ ~chan[w].parent /\ u # w
         => chan[u].name # chan[w].name

Orderly ==
  orderly => /\ ~misuse
             /\ \A u \in has : chan[u].cookie
             /\ \A u \in Users : at[u] = "destroy" /\ chan[u].parent => has = {u}

ChanInv == ChanTypes /\ RoomToCount /\ Handles /\ Family /\ Orderly

-----------------------------------------------------------------------------
(* A structure of malloc, and one with fields set, are structures. *)
LEMMA FreeChanType == FreeChan \in msg_chan_t
  BY ChanAssumption DEF FreeChan, msg_chan_t

LEMMA NewParentType ==
  LET c == NewChan(TRUE, -1, MC_SEND_RING, MC_RECV_RING)
  IN  c \in msg_chan_t /\ c.cookie = TRUE /\ c.parent = TRUE /\ c.child_count = 0
  BY ChanAssumption DEF NewChan, msg_chan_t, MC_SEND_RING, MC_RECV_RING

LEMMA ChanInitInv == ChanInit => ChanInv
<1> SUFFICES ASSUME ChanInit PROVE ChanInv
  OBVIOUS
<1>1. \A u \in Users : ~chan[u].cookie /\ at[u] = "idle"
  BY DEF ChanInit, FreeChan
<1>2. ring = [r \in {0, 1} |-> <<>>] /\ has = {} /\ ~misuse /\ misuse \in BOOLEAN
  BY DEF ChanInit, MC_RECV_RING, MC_SEND_RING
<1>3. ChanTypes
  <2>1. ring \in [{0, 1} -> Seq(Users)] /\ \A r \in {0, 1} : Len(ring[r]) <= Capacity
    BY <1>2, ChanAssumption
  <2>2. chan \in [Users -> msg_chan_t] /\ at \in [Users -> Places] /\ attached \in 0 .. MaxAttach
    BY FreeChanType, ChanAssumption DEF ChanInit, Places
  <2> QED
    BY <1>2, <2>1, <2>2 DEF ChanInit, ChanTypes
<1>4. RoomToCount /\ Handles
  BY <1>1, <1>2, Zenon DEF RoomToCount, Handles
<1>5. Family
  BY <1>1, Zenon DEF Family
<1>6. Orderly
  BY <1>1, <1>2 DEF Orderly
<1> QED
  BY <1>3, <1>4, <1>5, <1>6 DEF ChanInv

(* A step of one call that changes no handle and no structure's place in   *)
(* the family.                                                             *)
LEMMA QuietStep ==
  ASSUME ChanInv, NEW u \in Users, NEW l \in Places, u \in has,
         at' = [at EXCEPT ![u] = l],
         UNCHANGED <<orderly, has, attached, misuse>>,
         \A w \in Users : /\ (chan'[w].cookie <=> chan[w].cookie) /\ (chan'[w].parent <=> chan[w].parent)
                          /\ chan'[w].name = chan[w].name
                          /\ chan'[w].child_count = chan[w].child_count,
         l = "destroy" => MayDestroy(u)
  PROVE  Handles' /\ Family' /\ Orderly'
<1>1. \A w \in Users : at'[w] = IF w = u THEN l ELSE at[w]
  BY DEF ChanInv, ChanTypes
<1>2. Handles'
  BY <1>1 DEF ChanInv, Handles
<1>3. Family'
  BY DEF ChanInv, Family
<1>4. Orderly'
  BY <1>1 DEF ChanInv, ChanTypes, Orderly, MayDestroy
<1> QED
  BY <1>2, <1>3, <1>4

(* One that leaves all structures alone. *)
LEMMA IdleStep ==
  ASSUME ChanInv, NEW u \in Users, NEW l \in Places, u \in has,
         at' = [at EXCEPT ![u] = l],
         UNCHANGED <<orderly, has, attached, misuse, chan>>,
         ring' \in [{0, 1} -> Seq(Users)], \A r \in {0, 1} : Len(ring'[r]) <= Capacity,
         l = "destroy" => MayDestroy(u),
         l = "sent" => chan[u].send_cnt < MaxSent,
         l = "recv_wait" => chan[u].recv_timeouts < MaxTimeouts
  PROVE  ChanInv'
<1>1. \A w \in Users : at'[w] = IF w = u THEN l ELSE at[w]
  BY DEF ChanInv, ChanTypes
<1>2. Handles' /\ Family' /\ Orderly'
  BY QuietStep
<1>3. RoomToCount'
  BY <1>1 DEF ChanInv, RoomToCount
<1>4. ChanTypes'
  BY DEF ChanInv, ChanTypes
<1> QED
  BY <1>2, <1>3, <1>4 DEF ChanInv

(* A freed structure is looked at: not with orderly users. *)
LEMMA MisusedInv ==
  ASSUME ChanInv, NEW u \in Users, u \in has, ~chan[u].cookie, Misused(u)
  PROVE  ChanInv'
<1>1. ~orderly
  BY DEF ChanInv, Orderly
<1>2. /\ \A w \in Users : at'[w] = IF w = u THEN "idle" ELSE at[w]
      /\ has' = has \ {u} /\ misuse' = TRUE /\ UNCHANGED <<orderly, chan, ring, attached>>
      /\ at' \in [Users -> Places]
  BY DEF Misused, ChanInv, ChanTypes, Places
<1>3. ChanTypes'
  BY <1>2 DEF ChanInv, ChanTypes
<1>4. RoomToCount' /\ Handles' /\ Family'
  BY <1>2 DEF ChanInv, RoomToCount, Handles, Family
<1>5. Orderly'
  BY <1>1, <1>2 DEF Orderly
<1> QED
  BY <1>3, <1>4, <1>5 DEF ChanInv

(* mc_create: the first of its name. *)
LEMMA NewParentInv ==
  ASSUME ChanInv, NEW u \in Users, mc_create(u), Parents = {}, NewParent(u)
  PROVE  ChanInv'
<1> DEFINE new == NewChan(TRUE, -1, MC_SEND_RING, MC_RECV_RING)
<1>1. /\ new \in msg_chan_t
      /\ new.cookie = TRUE /\ new.parent = TRUE /\ new.child_count = 0
  BY NewParentType
<1>2. /\ chan' \in [Users -> msg_chan_t]
      /\ \A w \in Users : chan'[w] = IF w = u THEN new ELSE chan[w]
  BY <1>1 DEF NewParent, ChanInv, ChanTypes
<1> HIDE DEF new
<1>3. /\ attached' = 0 /\ has' = has \cup {u} /\ UNCHANGED <<orderly, at, misuse>>
      /\ ring' = [r \in {0, 1} |-> <<>>]
      /\ u \notin has /\ at[u] = "idle"
      /\ orderly => \A w \in Users : at[w] # "destroy"
  BY DEF NewParent, mc_create, MC_RECV_RING, MC_SEND_RING
<1>4. \A w \in Users : ~chan[w].cookie
  BY DEF Parents, ChanInv, Family
<1>5. ChanTypes'
  BY <1>2, <1>3, ChanAssumption DEF ChanInv, ChanTypes
<1>6. RoomToCount' /\ Handles'
  BY <1>1, <1>2, <1>3, <1>4 DEF ChanInv, ChanTypes, RoomToCount, Handles
<1>7. Family'
  <2>1. \A w \in Users : chan'[w].cookie => w = u
    BY <1>2, <1>4
  <2>2. chan'[u].parent /\ chan'[u].child_count = attached'
    BY <1>1, <1>2, <1>3
  <2> QED
    BY <2>1, <2>2, Zenon DEF Family
<1>8. Orderly'
  BY <1>1, <1>2, <1>3 DEF ChanInv, ChanTypes, Orderly
<1> QED
  BY <1>5, <1>6, <1>7, <1>8 DEF ChanInv

(* mc_create: a child gets a name that no child had before it. *)
LEMMA AttachInv ==
  ASSUME ChanInv, NEW u \in Users, mc_create(u), NEW p \in Parents, attached < MaxAttach,
         attach_child(u, p)
  PROVE  ChanInv'
<1> DEFINE new == NewChan(FALSE, chan[p].child_count, chan[p].recv, chan[p].send)
           par == [chan[p] EXCEPT !.child_count = @ + 1]
<1>1. /\ attached' = attached + 1 /\ has' = has \cup {u} /\ UNCHANGED <<orderly, at, misuse, ring>>
      /\ u \notin has /\ at[u] = "idle"
      /\ orderly => \A w \in Users : at[w] # "destroy"
  BY DEF attach_child, mc_create
<1>2. /\ p \in Users /\ chan[p].cookie /\ chan[p].parent /\ p # u /\ chan[p] \in msg_chan_t
      /\ chan[p].child_count = attached /\ attached \in Nat
  BY <1>1 DEF Parents, ChanInv, ChanTypes, Handles, Family
<1>3. /\ new \in msg_chan_t
      /\ new.cookie = TRUE /\ new.parent = FALSE /\ new.name = attached
  <2>2. chan[p].child_count \in -1 .. MaxAttach /\ chan[p].recv \in {0, 1} /\ chan[p].send \in {0, 1}
    BY <1>2, ChanAssumption DEF msg_chan_t
  <2>3. new \in msg_chan_t /\ new.cookie = TRUE /\ new.parent = FALSE /\ new.name = chan[p].child_count
    BY <2>2, ChanAssumption DEF NewChan, msg_chan_t
  <2> QED
    BY <1>2, <2>3
<1>4. /\ par \in msg_chan_t /\ par.cookie /\ par.parent /\ par.child_count = attached + 1
      /\ par.send_cnt = chan[p].send_cnt /\ par.recv_timeouts = chan[p].recv_timeouts
  BY <1>2, ChanAssumption DEF msg_chan_t
<1>5. /\ chan' \in [Users -> msg_chan_t]
      /\ \A w \in Users : chan'[w] = IF w = u THEN new ELSE IF w = p THEN par ELSE chan[w]
  BY <1>2, <1>3, <1>4 DEF attach_child, ChanInv, ChanTypes
<1> HIDE DEF new, par
<1>6. ChanTypes'
  BY <1>1, <1>2, <1>5, ChanAssumption DEF ChanInv, ChanTypes
<1>7. RoomToCount' /\ Handles'
  BY <1>1, <1>2, <1>3, <1>4, <1>5 DEF ChanInv, RoomToCount, Handles
<1>8. Family'
  <2>1. \A w, x \in Users :
           chan'[w].cookie /\ chan'[w].parent /\ chan'[x].cookie /\ chan'[x].parent => w = x
    BY <1>2, <1>3, <1>4, <1>5 DEF ChanInv, Family
  <2>2. chan'[p].cookie /\ chan'[p].parent
    BY <1>2, <1>4, <1>5
  <2>3. \A w \in Users : chan'[w].cookie /\ chan'[w].parent => chan'[w].child_count = attached'
    BY <2>1, <2>2, <1>1, <1>2, <1>4, <1>5
  <2>4. \A w \in Users : chan'[w].cookie /\ ~chan'[w].parent =>
           /\ 0 <= chan'[w].name /\ chan'[w].name < attached'
           /\ w # u => chan[w].cookie /\ ~chan[w].parent /\ chan'[w].name = chan[w].name
                      /\ chan[w].name < attached /\ chan[w].name \in Int
    <3>1. \A w \in Users : chan[w].name \in Int
      BY DEF ChanInv, ChanTypes, msg_chan_t
    <3> QED
      BY <3>1, <1>1, <1>2, <1>3, <1>4, <1>5 DEF ChanInv, Family
  <2>5. \A w, x \in Users :
           chan'[w].cookie /\ ~chan'[w].parent /\ chan'[x].cookie /\ ~chan'[x].parent /\ w # x
             => chan'[w].name # chan'[x].name
    <3>1. chan'[u].name = attached
      BY <1>3, <1>5
    <3> QED
      BY <2>4, <3>1, <1>2 DEF ChanInv, Family
  <2> QED
    BY <1>2, <2>1, <2>2, <2>3, <2>4, <2>5 DEF Family
<1>9. Orderly'
  BY <1>1, <1>3, <1>4, <1>5 DEF ChanInv, ChanTypes, Orderly
<1> QED
  BY <1>6, <1>7, <1>8, <1>9 DEF ChanInv

(* mc_destroy under the mutex: a parent takes its family with it. *)
LEMMA DestroyLockedInv ==
  ASSUME ChanInv, NEW u \in Users, DestroyLocked(u)
  PROVE  ChanInv'
<1>1. u \in has /\ at[u] = "destroy"
  BY DEF ChanInv, Handles, DestroyLocked
<1>2. CASE ~chan[u].cookie /\ Misused(u)
  BY <1>1, <1>2, MisusedInv
<1>3. ASSUME chan[u].cookie, at' = [at EXCEPT ![u] = "idle"], has' = has \ {u},
             UNCHANGED <<orderly, attached, misuse>>,
             IF chan[u].parent THEN DestroyParent(u) ELSE DestroyChild(u)
      PROVE  ChanInv'
  <2>1. at' \in [Users -> Places] /\ \A w \in Users : at'[w] = IF w = u THEN "idle" ELSE at[w]
    BY <1>3 DEF ChanInv, ChanTypes, Places
  <2>2. FreeChan \in msg_chan_t /\ ~FreeChan.cookie /\ ~FreeChan.parent
    BY FreeChanType DEF FreeChan
  <2>3. CASE chan[u].parent
    <3>1. \A w \in Users : chan'[w] = FreeChan
      BY <1>3, <2>3 DEF DestroyParent
    <3>2. chan' \in [Users -> msg_chan_t] /\ ring' = [r \in {0, 1} |-> <<>>]
      BY <1>3, <2>2, <2>3 DEF DestroyParent, MC_RECV_RING, MC_SEND_RING
    <3>3. ChanTypes'
      BY <1>3, <2>1, <3>2, ChanAssumption DEF ChanInv, ChanTypes
    <3>4. RoomToCount' /\ Handles' /\ Family'
      BY <1>3, <2>1, <2>2, <3>1 DEF ChanInv, ChanTypes, RoomToCount, Handles, Family
    <3>5. orderly => has' = {}
      BY <1>1, <1>3, <2>3 DEF ChanInv, Orderly
    <3>6. Orderly'
      BY <1>3, <2>2, <3>1, <3>5 DEF ChanInv, Orderly
    <3> QED
      BY <3>3, <3>4, <3>6 DEF ChanInv
  <2>4. CASE ~chan[u].parent
    <3>1. /\ chan' \in [Users -> msg_chan_t] /\ ring' = ring
          /\ \A w \in Users : chan'[w] = IF w = u THEN FreeChan ELSE chan[w]
      BY <1>3, <2>2, <2>4 DEF DestroyChild, ChanInv, ChanTypes
    <3>2. ChanTypes'
      BY <1>3, <2>1, <3>1 DEF ChanInv, ChanTypes
    <3>3. RoomToCount' /\ Handles'
      BY <1>3, <2>1, <2>2, <3>1 DEF ChanInv, RoomToCount, Handles
    <3>4. Family'
      BY <1>3, <2>2, <2>4, <3>1 DEF ChanInv, Family
    <3>5. Orderly'
      <4>1. \A w \in Users : at'[w] = "destroy" /\ chan'[w].parent => w # u /\ at[w] = "destroy" /\ chan[w].parent
        BY <2>1, <2>2, <3>1
      <4>2. orderly => \A w \in Users : ~(at'[w] = "destroy" /\ chan'[w].parent)
        BY <1>1, <4>1 DEF ChanInv, Orderly
      <4> QED
        BY <1>3, <3>1, <4>2 DEF ChanInv, ChanTypes, Orderly
    <3> QED
      BY <3>2, <3>3, <3>4, <3>5 DEF ChanInv
  <2> QED
    BY <2>3, <2>4
<1> QED
  BY <1>2, <1>3 DEF DestroyLocked

(* The statistics are counted. *)
LEMMA CountInv ==
  ASSUME ChanInv, NEW u \in Users, Count(u) \/ NotReceived(u)
  PROVE  ChanInv'
<1>1. /\ chan[u] \in msg_chan_t /\ chan \in [Users -> msg_chan_t] /\ at[u] # "idle"
      /\ UNCHANGED <<orderly, ring, has, attached, misuse>> /\ at' = [at EXCEPT ![u] = "idle"]
      /\ chan[u].cookie
  BY DEF ChanInv, ChanTypes, Count, NotReceived
<1>2. u \in has /\ "idle" \in Places
  BY <1>1 DEF ChanInv, Handles, Places
<1>3. ASSUME NEW c \in msg_chan_t, chan' = [chan EXCEPT ![u] = c],
             c.cookie, c.parent <=> chan[u].parent,
             c.name = chan[u].name, c.child_count = chan[u].child_count
      PROVE  ChanInv'
  <2>1. /\ chan' \in [Users -> msg_chan_t]
        /\ \A w \in Users : chan'[w] = IF w = u THEN c ELSE chan[w]
    BY <1>1, <1>3
  <2>2. \A w \in Users : at'[w] = IF w = u THEN "idle" ELSE at[w]
    BY <1>1 DEF ChanInv, ChanTypes
  <2>3. Handles' /\ Family' /\ Orderly'
    BY <1>1, <1>2, <1>3, <2>1, QuietStep
  <2>4. RoomToCount'
    BY <2>1, <2>2 DEF ChanInv, RoomToCount
  <2>5. ChanTypes'
    BY <1>1, <1>2, <2>1 DEF ChanInv, ChanTypes
  <2> QED
    BY <2>3, <2>4, <2>5 DEF ChanInv
<1>4. CASE NotReceived(u) /\ at[u] = "recv"
  <2>1. chan' = [chan EXCEPT ![u] = chan[u]]
    BY <1>1, <1>4 DEF NotReceived
  <2> QED
    BY <1>1, <1>3, <2>1
<1>5. CASE NotReceived(u) /\ at[u] # "recv"
  <2>1. at[u] = "recv_wait" /\ chan[u].recv_timeouts < MaxTimeouts
    BY <1>1, <1>5 DEF NotReceived, ChanInv, RoomToCount
  <2> DEFINE c == [chan[u] EXCEPT !.recv_timeouts = @ + 2]
  <2>2. /\ c \in msg_chan_t /\ c.cookie /\ (c.parent <=> chan[u].parent)
        /\ c.name = chan[u].name /\ c.child_count = chan[u].child_count
    BY <1>1, <2>1, ChanAssumption DEF msg_chan_t
  <2>3. chan' = [chan EXCEPT ![u] = c]
    BY <1>1, <1>5, <2>1 DEF NotReceived
  <2> HIDE DEF c
  <2> QED
    BY <1>3, <2>2, <2>3
<1>6. CASE Count(u) /\ at[u] = "sent"
  <2>1. chan[u].send_cnt < MaxSent
    BY <1>1, <1>6 DEF ChanInv, RoomToCount
  <2> DEFINE c == [chan[u] EXCEPT !.send_cnt = @ + 1]
  <2>2. /\ c \in msg_chan_t /\ c.cookie /\ (c.parent <=> chan[u].parent)
        /\ c.name = chan[u].name /\ c.child_count = chan[u].child_count
    BY <1>1, <2>1, ChanAssumption DEF msg_chan_t
  <2>3. chan' = [chan EXCEPT ![u] = c]
    BY <1>1, <1>6 DEF Count, msg_chan_t
  <2> HIDE DEF c
  <2> QED
    BY <1>3, <2>2, <2>3
<1>7. CASE Count(u) /\ at[u] # "sent"
  <2> DEFINE c == [chan[u] EXCEPT !.recv_cnt = @ + 1]
  <2>2. /\ c \in msg_chan_t /\ c.cookie /\ (c.parent <=> chan[u].parent)
        /\ c.name = chan[u].name /\ c.child_count = chan[u].child_count
    BY <1>1, ChanAssumption DEF msg_chan_t
  <2>3. chan' = [chan EXCEPT ![u] = c]
    BY <1>1, <1>7 DEF Count, msg_chan_t
  <2> HIDE DEF c
  <2> QED
    BY <1>3, <2>2, <2>3
<1> QED
  BY <1>4, <1>5, <1>6, <1>7

(* Every call keeps the invariant. *)
LEMMA ChanNextInv ==
  ASSUME ChanInv, [ChanNext]_chanVars
  PROVE  ChanInv'
<1>1. CASE UNCHANGED chanVars
  BY <1>1 DEF chanVars, ChanInv, ChanTypes, RoomToCount, Handles, Family, Orderly
<1>2. ASSUME NEW u \in Users, mc_create(u) PROVE ChanInv'
  <2>1. CASE Parents = {} /\ NewParent(u)
    BY <1>2, <2>1, NewParentInv
  <2>2. ASSUME NEW p \in Parents, attached < MaxAttach, attach_child(u, p) PROVE ChanInv'
    BY <1>2, <2>2, AttachInv
  <2> QED
    BY <1>2, <2>1, <2>2 DEF mc_create
<1>3. ASSUME NEW u \in Users, mc_send(u) PROVE ChanInv'
  <2>1. CASE ~chan[u].cookie /\ Misused(u)
    BY <1>3, <2>1, MisusedInv DEF mc_send
  <2>2. CASE chan[u].cookie
    <3>1. /\ u \in has /\ at' = [at EXCEPT ![u] = "sent"] /\ chan[u].send_cnt < MaxSent
          /\ UNCHANGED <<orderly, has, attached, misuse, chan>>
          /\ ring' = [ring EXCEPT ![chan[u].send] = Append(@, u)] /\ Len(ring[chan[u].send]) < Capacity
      BY <1>3, <2>2 DEF mc_send
    <3>2. chan[u].send \in {0, 1}
      BY DEF ChanInv, ChanTypes, msg_chan_t
    <3>3. ring' \in [{0, 1} -> Seq(Users)] /\ \A r \in {0, 1} : Len(ring'[r]) <= Capacity
      BY <3>1, <3>2, ChanAssumption DEF ChanInv, ChanTypes
    <3> QED
      BY <3>1, <3>3, IdleStep DEF Places
  <2> QED
    BY <1>3, <2>1, <2>2 DEF mc_send
<1>4. ASSUME NEW u \in Users, mc_recv(u) PROVE ChanInv'
  <2>1. CASE ~chan[u].cookie /\ Misused(u)
    BY <1>4, <2>1, MisusedInv DEF mc_recv
  <2>2. CASE chan[u].cookie
    <3>1. PICK l \in {"recv", "recv_wait"} : /\ l = "recv_wait" => chan[u].recv_timeouts < MaxTimeouts
                                             /\ at' = [at EXCEPT ![u] = l]
      BY <1>4, <2>2 DEF mc_recv
    <3>2. u \in has /\ UNCHANGED <<orderly, has, attached, misuse, chan, ring>>
      BY <1>4, <2>2 DEF mc_recv
    <3> QED
      BY <3>1, <3>2, IdleStep DEF Places, ChanInv, ChanTypes
  <2> QED
    BY <1>4, <2>1, <2>2 DEF mc_recv
<1>5. ASSUME NEW u \in Users, Received(u) PROVE ChanInv'
  <2>1. /\ u \in has /\ at' = [at EXCEPT ![u] = "received"]
        /\ UNCHANGED <<orderly, has, attached, misuse, chan>>
        /\ ring' = [ring EXCEPT ![chan[u].recv] = Tail(@)] /\ ring[chan[u].recv] # <<>>
    BY <1>5 DEF Received, ChanInv, Handles
  <2>2. chan[u].recv \in {0, 1}
    BY DEF ChanInv, ChanTypes, msg_chan_t
  <2>3. ring' \in [{0, 1} -> Seq(Users)] /\ \A r \in {0, 1} : Len(ring'[r]) <= Capacity
    BY <2>1, <2>2, ChanAssumption DEF ChanInv, ChanTypes
  <2> QED
    BY <2>1, <2>3, IdleStep DEF Places
<1>6. ASSUME NEW u \in Users, CallMisused(u) PROVE ChanInv'
  BY <1>6, MisusedInv DEF CallMisused, ChanInv, Handles
<1>7. ASSUME NEW u \in Users, mc_destroy(u) PROVE ChanInv'
  <2>1. CASE ~chan[u].cookie /\ Misused(u)
    BY <1>7, <2>1, MisusedInv DEF mc_destroy
  <2>2. CASE chan[u].cookie
    <3>1. /\ u \in has /\ at' = [at EXCEPT ![u] = "destroy"] /\ MayDestroy(u)
          /\ UNCHANGED <<orderly, has, attached, misuse, chan, ring>>
      BY <1>7, <2>2 DEF mc_destroy
    <3> QED
      BY <3>1, IdleStep DEF Places, ChanInv, ChanTypes
  <2> QED
    BY <1>7, <2>1, <2>2 DEF mc_destroy
<1> QED
  BY <1>1, <1>2, <1>3, <1>4, <1>5, <1>6, <1>7, CountInv, DestroyLockedInv DEF ChanNext

-----------------------------------------------------------------------------
(* What the invariant says of the family. *)
LEMMA ChanInvFamily == ChanInv => OneFamily
<1> SUFFICES ASSUME ChanInv PROVE OneFamily
  OBVIOUS
<1>1. ChanTypeOK
  BY DEF ChanInv, ChanTypes, ChanTypeOK
<1>2. Cardinality(Parents) <= 1
  <2>1. CASE Parents = {}
    BY <2>1, FS_EmptySet
  <2>2. ASSUME NEW p \in Parents PROVE Cardinality(Parents) <= 1
    <3>1. \A q \in Parents : q = p
      BY <2>2 DEF Parents, ChanInv, Family
    <3>2. Parents = {p}
      BY <2>2, <3>1
    <3>3. Cardinality({p}) = 1
      BY FS_Singleton, Zenon
    <3> QED
      BY <3>2, <3>3
  <2> QED
    BY <2>1, <2>2
<1>3. ChildrenOf # {} => Parents # {}
  BY DEF Parents, ChildrenOf, ChanInv, Family
<1>4. \A u, v \in ChildrenOf : u # v => chan[u].name # chan[v].name
  BY DEF ChildrenOf, ChanInv, Family
<1> QED
  BY <1>1, <1>2, <1>3, <1>4 DEF OneFamily

(* The invariant of the channels holds of every behaviour, whatever the    *)
(* users do and however their calls interleave.                            *)
THEOREM ChannelsInvariant == ChanSpec => []ChanInv
<1>1. ChanInit => ChanInv
  BY ChanInitInv
<1>2. ChanInv /\ [ChanNext]_chanVars => ChanInv'
  BY ChanNextInv
<1> QED
  BY <1>1, <1>2, PTL DEF ChanSpec

(* mc_create and mc_destroy keep one parent of a name, no child without    *)
(* it, and different names for the children that live at the same time,    *)
(* although child_count never goes down.                                   *)
THEOREM ChannelsOneFamily == ChanSpec => []OneFamily
<1>1. ChanInv => OneFamily
  BY ChanInvFamily
<1> QED
  BY <1>1, ChannelsInvariant, PTL

(* When every parent is destroyed last, no mc_send, mc_recv or mc_destroy, *)
(* at whatever point it is, looks at a structure that was freed.           *)
THEOREM ChannelsNoMisuse == ChanSpec => []NoMisuse
<1>1. ChanInv => NoMisuse
  BY DEF ChanInv, Orderly, NoMisuse
<1> QED
  BY <1>1, ChannelsInvariant, PTL
=============================================================================
