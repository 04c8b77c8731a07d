------------------------------- MODULE CneRing -------------------------------
(***************************************************************************)
(* The lockless multi-producer multi-consumer ring of lib/core/ring.       *)
(*                                                                         *)
(* A producer claims n slots by moving prod.head, copies its objects into  *)
(* them one by one, waits until every earlier producer has published, and  *)
(* publishes by moving prod.tail.  A consumer does the same with cons.head *)
(* and cons.tail.  The four indexes are uint32_t and wrap at IndexMod; a   *)
(* slot is index & mask.                                                   *)
(*                                                                         *)
(* Every shared load, store and compare-exchange is an action of its own.  *)
(* moved[t] is the one history variable: how far others have moved the     *)
(* head since t loaded it.  The compare-exchange cannot tell a head that   *)
(* went once around 2^32 from one that never moved, so the code relies on  *)
(* no thread being stalled for that long: the bound MaxStall.              *)
(***************************************************************************)
EXTENDS Integers, Sequences, FiniteSets

CONSTANTS
  Producers, Consumers,  \* the threads calling enqueue / dequeue
  Size,                  \* r->size, a power of two
  Capacity,              \* r->capacity
  IndexMod,              \* 2^32: the indexes are uint32_t
  MaxStall,              \* bound on moved[t]
  Values,                \* the objects
  EnqueueRequests,       \* the calls made: their behavior and n
  DequeueRequests,
  ProdSingle, ConsSingle \* r->prod.single, r->cons.single

ASSUME SizeAssumption ==
  /\ Size \in Nat /\ Capacity \in Nat /\ IndexMod \in Nat /\ MaxStall \in Nat
  /\ Capacity < Size /\ Size <= IndexMod /\ IndexMod % Size = 0
  /\ Capacity + MaxStall < IndexMod

ASSUME ThreadAssumption ==
  /\ Producers \cap Consumers = {}
  /\ ProdSingle \in BOOLEAN /\ ConsSingle \in BOOLEAN
  /\ ProdSingle => \A p, q \in Producers : p = q
  /\ ConsSingle => \A c, d \in Consumers : c = d

ASSUME RequestAssumption ==
  EnqueueRequests \cup DequeueRequests \subseteq
    [behavior : {"FIXED", "VARIABLE"}, max : Nat]

VARIABLES
  prod_head, prod_tail,  \* r->prod
  cons_head, cons_tail,  \* r->cons
  ring,                  \* the object table behind the ring structure
  pc,                    \* where each thread is in its call
  req,                   \* the call's behavior and requested count (max)
  obj_table,             \* the caller's table, as far as it is filled
  old_head, n,           \* locals of the call
  copied,                \* how many of the n slots are copied
  moved                  \* history: see above

indexes == <<prod_head, prod_tail, cons_head, cons_tail>>
locals == <<old_head, n, copied>>
vars == <<indexes, ring, pc, req, obj_table, locals, moved>>

Threads == Producers \cup Consumers
Index == 0 .. (IndexMod - 1)
NoRequest == [behavior |-> "FIXED", max |-> 0]

(* uint32_t arithmetic, and index & r->mask. *)
Add(a, b) == (a + b) % IndexMod
Sub(a, b) == (a - b) % IndexMod
Slot(i) == i % Size

(* cne_ring_setup, cne_ring_reset: an empty ring over calloc'ed memory. *)
Init ==
  /\ prod_head = 0 /\ prod_tail = 0
  /\ cons_head = 0 /\ cons_tail = 0
  /\ \E null \in Values : ring = [s \in 0 .. Size - 1 |-> null]
  /\ pc = [t \in Threads |-> "idle"]
  /\ req = [t \in Threads |-> NoRequest]
  /\ obj_table = [t \in Threads |-> <<>>]
  /\ old_head = [t \in Threads |-> 0]
  /\ n = [t \in Threads |-> 0]
  /\ copied = [t \in Threads |-> 0]
  /\ moved = [t \in Threads |-> 0]

(***************************************************************************)
(* Steps that the two directions share.                                    *)
(***************************************************************************)
(* The call returns; the locals of the frame are dead. *)
Return(t) ==
  /\ pc' = [pc EXCEPT ![t] = "idle"]
  /\ req' = [req EXCEPT ![t] = NoRequest]
  /\ obj_table' = [obj_table EXCEPT ![t] = <<>>]
  /\ old_head' = [old_head EXCEPT ![t] = 0]
  /\ n' = [n EXCEPT ![t] = 0]
  /\ copied' = [copied EXCEPT ![t] = 0]
  /\ moved' = [moved EXCEPT ![t] = 0]

(* A bulk (FIXED) or burst (VARIABLE) call for request r begins. *)
Call(t, r, objs) ==
  /\ pc[t] = "idle"
  /\ pc' = [pc EXCEPT ![t] = "load"]
  /\ req' = [req EXCEPT ![t] = r]
  /\ obj_table' = [obj_table EXCEPT ![t] = objs]
  /\ UNCHANGED <<indexes, ring, locals, moved>>

(* *old_head = r->prod.head (or cons.head) *)
LoadHead(t, head) ==
  /\ pc[t] = "load"
  /\ pc' = [pc EXCEPT ![t] = "room"]
  /\ old_head' = [old_head EXCEPT ![t] = head]
  /\ moved' = [moved EXCEPT ![t] = 0]
  /\ UNCHANGED <<indexes, ring, req, obj_table, n, copied>>

(* Fault: >= for >, a bulk call that would just fit is refused. *)
GrantedOffByOne(r, avail) ==
  IF r.max >= avail THEN (IF r.behavior = "FIXED" THEN 0 ELSE avail) ELSE r.max

(* n is cut to what the ring has, or to 0 for a bulk call. *)
Granted(r, avail) ==
  IF r.max > avail THEN (IF r.behavior = "FIXED" THEN 0 ELSE avail) ELSE r.max

(* avail is *free_entries (or *entries); n == 0 returns at once. *)
Reserve(t, avail) ==
  /\ pc[t] = "room"
  /\ IF Granted(req[t], avail) = 0
     THEN Return(t)
     ELSE /\ n' = [n EXCEPT ![t] = Granted(req[t], avail)]
          /\ pc' = [pc EXCEPT ![t] = "cas"]
          /\ UNCHANGED <<req, obj_table, old_head, copied, moved>>
  /\ UNCHANGED <<indexes, ring>>

(* The head moves from old_head[t]; rivals still hold an older head. *)
Claim(t, rivals) ==
  LET stalled == {u \in rivals \ {t} : pc[u] \in {"room", "cas"}} IN
  /\ \A u \in stalled : moved[u] + n[t] <= MaxStall
  /\ moved' = [u \in Threads |-> IF u \in stalled THEN moved[u] + n[t] ELSE moved[u]]
  /\ pc' = [pc EXCEPT ![t] = "copy"]
  /\ UNCHANGED <<ring, req, obj_table, locals>>

(* The failed compare-exchange stored the current head in *old_head. *)
Retry(t, head) ==
  /\ pc' = [pc EXCEPT ![t] = "room"]
  /\ old_head' = [old_head EXCEPT ![t] = head]
  /\ n' = [n EXCEPT ![t] = 0]
  /\ moved' = [moved EXCEPT ![t] = 0]
  /\ UNCHANGED <<indexes, ring, req, obj_table, copied>>

(* One slot of ENQUEUE_PTRS / DEQUEUE_PTRS or of their _elems variants. *)
CopiedOne(t) ==
  /\ pc[t] = "copy"
  /\ copied' = [copied EXCEPT ![t] = @ + 1]
  /\ pc' = [pc EXCEPT ![t] = IF copied[t] + 1 = n[t] THEN "publish" ELSE "copy"]
  /\ UNCHANGED <<indexes, req, old_head, n, moved>>

(***************************************************************************)
(* Enqueue.                                                                *)
(***************************************************************************)
cne_ring_enqueue(p) ==
  \E r \in EnqueueRequests : \E objs \in [1 .. r.max -> Values] : Call(p, r, objs)

LoadProdHead(p) == LoadHead(p, prod_head)

(* Fault: size in place of capacity. *)
FreeEntriesOfSize(p) == Sub(Size + cons_tail, old_head[p])

(* Fault: entries that a consumer has claimed but not yet copied are free. *)
FreeEntriesToHead(p) == Sub(Capacity + cons_head, old_head[p])

(* *free_entries = capacity + cons_tail - *old_head *)
FreeEntries(p) == Sub(Capacity + cons_tail, old_head[p])

LoadConsTail(p) == Reserve(p, FreeEntries(p))

(* Fault: the single-producer store on a multi-producer ring. *)
MoveProdHeadNoCas(p) ==
  /\ pc[p] = "cas"
  /\ prod_head' = Add(old_head[p], n[p])
  /\ Claim(p, Producers)
  /\ UNCHANGED <<prod_tail, cons_head, cons_tail>>

MoveProdHead(p) ==
  /\ pc[p] = "cas"
  /\ \/ /\ ProdSingle \/ prod_head = old_head[p]
        /\ prod_head' = Add(old_head[p], n[p])
        /\ Claim(p, Producers)
        /\ UNCHANGED <<prod_tail, cons_head, cons_tail>>
     \/ /\ ~ProdSingle /\ prod_head # old_head[p]
        /\ Retry(p, prod_head)

CopyIn(p) ==
  /\ CopiedOne(p)
  /\ ring' = [ring EXCEPT ![Slot(Add(old_head[p], copied[p]))] = obj_table[p][copied[p] + 1]]
  /\ UNCHANGED obj_table

(* Fault: publishing without waiting for earlier producers. *)
UpdateProdTailNoWait(p) ==
  /\ pc[p] = "publish"
  /\ prod_tail' = Add(old_head[p], n[p])
  /\ Return(p)
  /\ UNCHANGED <<prod_head, cons_head, cons_tail, ring>>

UpdateProdTail(p) ==
  /\ pc[p] = "publish"
  /\ ProdSingle \/ prod_tail = old_head[p]
  /\ prod_tail' = Add(old_head[p], n[p])
  /\ Return(p)
  /\ UNCHANGED <<prod_head, cons_head, cons_tail, ring>>

(***************************************************************************)
(* Dequeue.                                                                *)
(***************************************************************************)
cne_ring_dequeue(c) == \E r \in DequeueRequests : Call(c, r, <<>>)

LoadConsHead(c) == LoadHead(c, cons_head)

(* *entries = prod_tail - *old_head *)
UsedEntries(c) == Sub(prod_tail, old_head[c])

LoadProdTail(c) == Reserve(c, UsedEntries(c))

(* Fault: the single-consumer store on a multi-consumer ring. *)
MoveConsHeadNoCas(c) ==
  /\ pc[c] = "cas"
  /\ cons_head' = Add(old_head[c], n[c])
  /\ Claim(c, Consumers)
  /\ UNCHANGED <<prod_head, prod_tail, cons_tail>>

MoveConsHead(c) ==
  /\ pc[c] = "cas"
  /\ \/ /\ ConsSingle \/ cons_head = old_head[c]
        /\ cons_head' = Add(old_head[c], n[c])
        /\ Claim(c, Consumers)
        /\ UNCHANGED <<prod_head, prod_tail, cons_tail>>
     \/ /\ ~ConsSingle /\ cons_head # old_head[c]
        /\ Retry(c, cons_head)

CopyOut(c) ==
  /\ CopiedOne(c)
  /\ obj_table' = [obj_table EXCEPT ![c] = Append(@, ring[Slot(Add(old_head[c], copied[c]))])]
  /\ UNCHANGED ring

UpdateConsTail(c) ==
  /\ pc[c] = "publish"
  /\ ConsSingle \/ cons_tail = old_head[c]
  /\ cons_tail' = Add(old_head[c], n[c])
  /\ Return(c)
  /\ UNCHANGED <<prod_head, prod_tail, cons_head, ring>>

(***************************************************************************)
(* The specification.                                                      *)
(***************************************************************************)
ProducerStep(p) ==
  LoadProdHead(p) \/ LoadConsTail(p) \/ MoveProdHead(p) \/ CopyIn(p) \/ UpdateProdTail(p)

ConsumerStep(c) ==
  LoadConsHead(c) \/ LoadProdTail(c) \/ MoveConsHead(c) \/ CopyOut(c) \/ UpdateConsTail(c)

Next ==
  \/ \E p \in Producers : cne_ring_enqueue(p) \/ ProducerStep(p)
  \/ \E c \in Consumers : cne_ring_dequeue(c) \/ ConsumerStep(c)

Spec == Init /\ [][Next]_vars

(***************************************************************************)
(* Properties.                                                             *)
(***************************************************************************)
(* Type invariant: the indexes stay uint32_t, and the locals of a call are *)
(* in the range the code gives them.                                       *)
TypeOK ==
  /\ prod_head \in Index /\ prod_tail \in Index
  /\ cons_head \in Index /\ cons_tail \in Index
  /\ ring \in [0 .. Size - 1 -> Values]
  /\ pc \in [Threads -> {"idle", "load", "room", "cas", "copy", "publish"}]
  /\ req \in [Threads -> EnqueueRequests \cup DequeueRequests \cup {NoRequest}]
  /\ obj_table \in [Threads -> Seq(Values)]
  /\ old_head \in [Threads -> Index]
  /\ n \in [Threads -> Index]
  /\ copied \in [Threads -> Index]
  /\ moved \in [Threads -> 0 .. MaxStall]

(* The indexes keep their order cons.tail, cons.head, prod.tail, prod.head *)
(* on the circle of uint32_t values, and prod.head is never more than      *)
(* capacity ahead of cons.tail, whatever heads and tails the threads were  *)
(* holding when they moved them: no live slot is overwritten and no slot   *)
(* is read before it was published.                                        *)
IndexOrder ==
  Sub(cons_head, cons_tail) + Sub(prod_tail, cons_head) + Sub(prod_head, prod_tail)
    <= Capacity

(***************************************************************************)
(* The inductive invariant behind IndexOrder and SlotsExclusive, for one   *)
(* side of the ring: T its threads, head and tail its indexes.             *)
(***************************************************************************)
Held == {"room", "cas"}
Claiming == {"copy", "publish"}

(* A thread that holds a head knows it up to the moves others made since. *)
HeadHeld(T, single, head) ==
  \A t \in T : pc[t] \in Held => head = Add(old_head[t], moved[t]) /\ (single => moved[t] = 0)

(* The claims lie between tail and head, without overlap; on the single    *)
(* side the only claim is all that lies between them.                      *)
ClaimsIn(T, single, head, tail, at, from, len) ==
  /\ \A t \in T : at[t] \in Claiming =>
       /\ len[t] > 0
       /\ Sub(from[t], tail) + len[t] <= Sub(head, tail)
       /\ single => from[t] = tail /\ Sub(head, tail) = len[t]
  /\ \A t, u \in T : t # u /\ at[t] \in Claiming /\ at[u] \in Claiming =>
       \/ Sub(from[t], tail) + len[t] <= Sub(from[u], tail)
       \/ Sub(from[u], tail) + len[u] <= Sub(from[t], tail)
  /\ \A t \in T : single /\ at[t] \notin Claiming => head = tail

Claims(T, single, head, tail) == ClaimsIn(T, single, head, tail, pc, old_head, n)

(* What a thread about to move its head has reserved, if the head it holds *)
(* is the current one, is really there.                                    *)
Reserved ==
  /\ \A t \in Threads : pc[t] = "cas" => n[t] > 0
  /\ \A p \in Producers : pc[p] = "cas" /\ moved[p] = 0 =>
       Sub(prod_head, cons_tail) + n[p] <= Capacity
  /\ \A c \in Consumers : pc[c] = "cas" /\ moved[c] = 0 =>
       n[c] <= Sub(prod_tail, cons_head)

(* The copy loops stay inside the claim and inside the caller's table. *)
Tables ==
  /\ \A t \in Threads : pc[t] = "copy" => copied[t] < n[t]
  /\ \A t \in Threads : pc[t] \notin Claiming => copied[t] = 0
  /\ \A p \in Producers : pc[p] # "idle" =>
       /\ Len(obj_table[p]) = req[p].max
       /\ pc[p] \in {"cas", "copy", "publish"} => n[p] <= req[p].max

(* The inductive invariant: what every thread inside a call may rely on.   *)
RingInv ==
  /\ TypeOK
  /\ IndexOrder
  /\ HeadHeld(Producers, ProdSingle, prod_head)
  /\ HeadHeld(Consumers, ConsSingle, cons_head)
  /\ Claims(Producers, ProdSingle, prod_head, prod_tail)
  /\ Claims(Consumers, ConsSingle, cons_head, cons_tail)
  /\ Reserved
  /\ Tables

(* The slots a thread owns between its head move and its tail update. *)
Owned(t) ==
  IF pc[t] \in {"copy", "publish"}
  THEN {Slot(Add(old_head[t], k)) : k \in 0 .. n[t] - 1}
  ELSE {}

(* No slot is owned by two threads at once, so the unsynchronised copies   *)
(* of ENQUEUE_PTRS and DEQUEUE_PTRS never race.                            *)
SlotsExclusive == \A t, u \in Threads : t # u => Owned(t) \cap Owned(u) = {}

(* Every claim begins at the tail or where another ends, up to the head. *)
ChainedIn(T, head, tail, at, from, len) ==
  /\ tail # head => \E t \in T : at[t] \in Claiming /\ from[t] = tail
  /\ \A t \in T : at[t] \in Claiming /\ Add(from[t], len[t]) # head =>
       \E u \in T : at[u] \in Claiming /\ from[u] = Add(from[t], len[t])

(* The loop of update_tail waits for a tail that will come: as long as     *)
(* tail and head differ there is a thread whose claim begins at the tail,  *)
(* which itself does not wait, and after it one for each claim further on. *)
TailsComing ==
  /\ ChainedIn(Producers, prod_head, prod_tail, pc, old_head, n)
  /\ ChainedIn(Consumers, cons_head, cons_tail, pc, old_head, n)

(* What the current call needs to make progress. *)
Needed(t) == IF req[t].behavior = "FIXED" THEN req[t].max ELSE 1

(* A call that returns 0 is right to: at the moment it read the other      *)
(* side's tail there really was not enough room (or not enough objects),   *)
(* although the head it computed with may be long out of date.             *)
FailureJustified ==
  [][/\ \A p \in Producers :
          LoadConsTail(p) /\ pc'[p] = "idle" /\ req[p].max > 0
            => Sub(prod_head, cons_tail) + Needed(p) > Capacity
     /\ \A c \in Consumers :
          LoadProdTail(c) /\ pc'[c] = "idle" /\ req[c].max > 0
            => Sub(prod_tail, cons_head) < Needed(c)]_vars

(* The objects of the entries from index h on, k of them. *)
Entries(h, k) == [j \in 1 .. k |-> ring[Slot(Add(h, j - 1))]]

(* The ring as the FIFO of its API: enqueues take effect at the update of  *)
(* prod.tail, dequeues at the move of cons.head.                           *)
Queue == Entries(cons_head, Sub(prod_tail, cons_head))

(* A consumer's objects are those it copied followed by those still in its *)
(* claimed slots; a producer's are its table.                              *)
InHand(t) ==
  IF t \in Consumers /\ pc[t] \in Claiming
  THEN obj_table[t] \o Entries(Add(old_head[t], copied[t]), n[t] - copied[t])
  ELSE obj_table[t]

Hand == [t \in Threads |-> InHand(t)]

Fifo == INSTANCE RingFifo WITH queue <- Queue, hand <- Hand

(* Every behaviour of the ring is one of the bounded FIFO: nothing is      *)
(* lost, duplicated, reordered or torn under any interleaving.             *)
RefinesFifo == Fifo!Spec
-----------------------------------------------------------------------------
(***************************************************************************)
(* cne_ring_count and what is computed from it (free_count, full, empty),  *)
(* called while the threads go on: prod.tail is loaded first, then         *)
(* cons.tail, and anything may happen between the two loads.               *)
(***************************************************************************)
CONSTANTS
  Callers  \* the threads that may call: the only producer, the only consumer

ASSUME CallerAssumption ==
  \A t \in Callers : Producers = {t} \/ Consumers = {t}

VARIABLES
  caller,               \* the thread that calls, the same throughout
  opc, prod_tail_seen,  \* the call: where it is, and its local prod_tail
  count                 \* what it returned

observer == <<caller, opc, prod_tail_seen, count>>
allvars == <<vars, observer>>
Real == Sub(prod_tail, cons_tail)

CountInit ==
  /\ Init
  /\ caller \in Callers
  /\ opc = "idle" /\ prod_tail_seen = 0 /\ count = 0

LowerOf(a, b) == IF a < b THEN a ELSE b

(* Fault: entries claimed and not yet published count. *)
LoadProdHeadFirst ==
  /\ opc = "idle" /\ pc[caller] = "idle"
  /\ opc' = "loaded"
  /\ prod_tail_seen' = prod_head
  /\ UNCHANGED <<vars, caller, count>>

LoadProdTailFirst ==
  /\ opc = "idle" /\ pc[caller] = "idle"
  /\ opc' = "loaded"
  /\ prod_tail_seen' = prod_tail
  /\ UNCHANGED <<vars, caller, count>>

(* (prod_tail - cons_tail) & mask, cut to capacity *)
cne_ring_count ==
  /\ opc = "loaded"
  /\ opc' = "done"
  /\ count' = LowerOf(Slot(Sub(prod_tail_seen, cons_tail)), Capacity)
  /\ UNCHANGED <<vars, caller, prod_tail_seen>>

(* The caller looks at the result and may call again. *)
Again ==
  /\ opc = "done" /\ opc' = "idle"
  /\ prod_tail_seen' = 0 /\ count' = 0
  /\ UNCHANGED <<vars, caller>>

(* A step of the ring's threads; a thread that counts does nothing else. *)
RingStep ==
  /\ Next
  /\ opc # "idle" => pc'[caller] = "idle"
  /\ UNCHANGED <<caller, opc, prod_tail_seen, count>>

CountSpec ==
  CountInit /\ [][RingStep \/ LoadProdTailFirst \/ cne_ring_count \/ Again]_allvars

(* The only consumer may rely on cne_ring_count: that many objects can be  *)
(* dequeued now.  The only producer may rely on cne_ring_free_count: no    *)
(* fewer entries than that are free now.  Both whatever the other side did *)
(* between the two loads.                                                  *)
CountSafe ==
  opc = "done" =>
    /\ caller \in Consumers => count <= Real
    /\ caller \in Producers => count >= Real
=============================================================================
