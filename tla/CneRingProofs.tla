---------------------------- MODULE CneRingProofs -----------------------------
(***************************************************************************)
(* The theorems about CneRing: for every number of producers and           *)
(* consumers, every ring size and every index width.                       *)
(***************************************************************************)
EXTENDS CneRingSteps

(***************************************************************************)
(* The theorems.                                                           *)
(***************************************************************************)
LEMMA NextInv == RingInv /\ [Next]_vars => RingInv'
<1> SUFFICES ASSUME RingInv, [Next]_vars PROVE RingInv'
  OBVIOUS
<1>1. ASSUME NEW p \in Producers, cne_ring_enqueue(p) PROVE RingInv'
  <2>1. PICK r \in EnqueueRequests : \E objs \in [1 .. r.max -> Values] : Call(p, r, objs)
    BY Zenon, <1>1 DEF cne_ring_enqueue
  <2>2. PICK objs \in [1 .. r.max -> Values] : Call(p, r, objs)
    BY Zenon, <2>1
  <2>3. r.max \in Nat
    BY Zenon, RequestAssumption
  <2>4. objs \in Seq(Values) /\ Len(objs) = r.max
    BY <2>3
  <2> QED
    BY Zenon, <2>2, <2>4, CallInv DEF Threads
<1>2. ASSUME NEW c \in Consumers, cne_ring_dequeue(c) PROVE RingInv'
  <2>1. c \in Threads /\ c \notin Producers /\ <<>> \in Seq(Values)
    BY ThreadAssumption DEF Threads
  <2>2. PICK r \in DequeueRequests : Call(c, r, <<>>)
    BY Zenon, <1>2 DEF cne_ring_dequeue
  <2> QED
    BY Zenon, <2>1, <2>2, CallInv
<1>3. ASSUME NEW p \in Producers, LoadProdHead(p) PROVE RingInv'
  BY Zenon, <1>3, LoadHeadInv, ThreadAssumption DEF LoadProdHead, Threads
<1>4. ASSUME NEW c \in Consumers, LoadConsHead(c) PROVE RingInv'
  BY Zenon, <1>4, LoadHeadInv, ThreadAssumption DEF LoadConsHead, Threads
<1>5. CASE UNCHANGED vars
  BY Zenon, <1>5 DEF vars, indexes, locals, RingInv, TypeOK, IndexOrder, HeadHeld, Claims, ClaimsIn,
              Reserved, Tables
<1>6. ASSUME NEW p \in Producers, ProducerStep(p) PROVE RingInv'
  BY Zenon, <1>3, <1>6, LoadConsTailInv, MoveProdHeadInv, CopyInInv, UpdateProdTailInv DEF ProducerStep
<1>7. ASSUME NEW c \in Consumers, ConsumerStep(c) PROVE RingInv'
  BY Zenon, <1>4, <1>7, LoadProdTailInv, MoveConsHeadInv, CopyOutInv, UpdateConsTailInv DEF ConsumerStep
<1> QED
  BY Zenon, <1>1, <1>2, <1>5, <1>6, <1>7 DEF Next

(* The inductive invariant of the ring: the indexes, the claims of the     *)
(* threads between their head move and their tail update, and what a       *)
(* thread about to compare-exchange may rely on.                           *)
THEOREM RingInvariant == Spec => []RingInv
  BY InitInv, NextInv, PTL DEF Spec

(* Types: no index leaves the range of uint32_t. *)
THEOREM RingTypes == Spec => []TypeOK
<1>1. RingInv => TypeOK
  BY Zenon DEF RingInv
<1> QED
  BY <1>1, RingInvariant, PTL

(* The indexes stay in order and within capacity of each other, for any    *)
(* number of producers and consumers, any ring size and index width.       *)
THEOREM RingIndexOrder == Spec => []IndexOrder
<1>1. RingInv => IndexOrder
  BY Zenon DEF RingInv
<1> QED
  BY <1>1, RingInvariant, PTL

(* No two threads inside a call ever copy to or from the same slot, for    *)
(* any number of threads, ring size and index width: the plain stores and  *)
(* loads of the copy loops need no further synchronisation.                *)
THEOREM RingSlotsExclusive == Spec => []SlotsExclusive
  BY SlotsExclusiveInv, RingInvariant, PTL


(* A call that returns 0 for want of room or of objects is right to, at    *)
(* the moment it read the other side's tail, however old the head it used. *)
THEOREM RingFailureJustified == Spec => FailureJustified
<1> DEFINE Room == \A p \in Producers :
             LoadConsTail(p) /\ pc'[p] = "idle" /\ req[p].max > 0
               => Sub(prod_head, cons_tail) + Needed(p) > Capacity
           Objects == \A c \in Consumers :
             LoadProdTail(c) /\ pc'[c] = "idle" /\ req[c].max > 0
               => Sub(prod_tail, cons_head) < Needed(c)
<1>0. ASSUME RingInv, NEW t \in Threads, NEW avail \in Int, Reserve(t, avail),
             pc'[t] = "idle", req[t].max > 0
      PROVE  avail < Needed(t) /\ Needed(t) \in Nat
  <2>1. Granted(req[t], avail) = 0
    BY Zenon, <1>0 DEF Reserve, RingInv, TypeOK
  <2>2. req[t].max \in Nat
    <3>1. req[t] \in EnqueueRequests \cup DequeueRequests \cup {NoRequest}
      BY Zenon, <1>0 DEF RingInv, TypeOK
    <3>2. CASE req[t] = NoRequest
      BY <3>2 DEF NoRequest
    <3>3. CASE req[t] \in EnqueueRequests \cup DequeueRequests
      BY Zenon, <3>3, RequestAssumption
    <3> QED
      BY Zenon, <3>1, <3>2, <3>3
  <2> QED
    BY <1>0, <2>1, <2>2 DEF Granted, Needed
<1>1. ASSUME RingInv PROVE Room
  <2> SUFFICES ASSUME NEW p \in Producers, LoadConsTail(p), pc'[p] = "idle", req[p].max > 0
               PROVE  Sub(prod_head, cons_tail) + Needed(p) > Capacity
    OBVIOUS
  <2>1. pc[p] = "room" /\ Reserve(p, FreeEntries(p)) /\ p \in Threads
    BY Zenon DEF LoadConsTail, Reserve, Threads
  <2>2. /\ FreeEntries(p) = Capacity - Sub(prod_head, cons_tail) + moved[p]
        /\ Sub(prod_head, cons_tail) \in Nat /\ moved[p] \in Nat
    BY Zenon, <1>1, <2>1, RoomComputed
  <2>3. FreeEntries(p) \in Int
    BY <2>2, Consts
  <2>4. FreeEntries(p) < Needed(p) /\ Needed(p) \in Nat
    BY Zenon, <1>0, <1>1, <2>1, <2>3
  <2> QED
    BY <2>2, <2>4, Consts
<1>2. ASSUME RingInv PROVE Objects
  <2> SUFFICES ASSUME NEW c \in Consumers, LoadProdTail(c), pc'[c] = "idle", req[c].max > 0
               PROVE  Sub(prod_tail, cons_head) < Needed(c)
    OBVIOUS
  <2>1. pc[c] = "room" /\ Reserve(c, UsedEntries(c)) /\ c \in Threads
    BY Zenon DEF LoadProdTail, Reserve, Threads
  <2>2. /\ UsedEntries(c) = Sub(prod_tail, cons_head) + moved[c]
        /\ Sub(prod_tail, cons_head) \in Nat /\ moved[c] \in Nat
    BY Zenon, <1>2, <2>1, EntriesComputed
  <2>3. UsedEntries(c) \in Int
    BY <2>2
  <2>4. UsedEntries(c) < Needed(c) /\ Needed(c) \in Nat
    BY Zenon, <1>0, <1>2, <2>1, <2>3
  <2> QED
    BY <2>2, <2>4
<1>3. RingInv => [Room /\ Objects]_vars
  BY Zenon, <1>1, <1>2
<1> QED
  BY <1>3, RingInvariant, PTL DEF FailureJustified

-----------------------------------------------------------------------------
(***************************************************************************)
(* The wait of update_tail ends: TailsComing is an invariant of the ring.  *)
(* With RingInv it is inductive: a new claim begins at the head, so it     *)
(* follows the claim that ended there, and publishing the first claim      *)
(* moves the tail to where the next one begins.                            *)
(***************************************************************************)

(***************************************************************************)
(* The claims of one side, whichever it is.                                *)
(***************************************************************************)
(* Steps that neither make nor publish a claim. *)
LEMMA ChainKept ==
  ASSUME NEW T, NEW head, NEW tail,
         NEW at, NEW from, NEW len, NEW at2, NEW from2, NEW len2,
         ChainedIn(T, head, tail, at, from, len),
         \A u \in T : /\ at2[u] \in Claiming <=> at[u] \in Claiming
                      /\ at[u] \in Claiming => from2[u] = from[u] /\ len2[u] = len[u]
  PROVE  ChainedIn(T, head, tail, at2, from2, len2)
  BY Zenon DEF ChainedIn

(* The claim made at the head follows the one that ended there. *)
LEMMA ChainMade ==
  ASSUME NEW T, NEW head, NEW tail, NEW at, NEW from, NEW len, NEW at2,
         ChainedIn(T, head, tail, at, from, len),
         NEW t \in T, at[t] \notin Claiming, at2[t] \in Claiming,
         \A u \in T : u # t => at2[u] = at[u],
         from[t] = head
  PROVE  ChainedIn(T, Add(head, len[t]), tail, at2, from, len)
<1>1. ASSUME tail # Add(head, len[t])
      PROVE  \E u \in T : at2[u] \in Claiming /\ from[u] = tail
  <2>1. CASE tail = head
    BY Zenon, <2>1
  <2>2. CASE tail # head
    BY Zenon, <2>2 DEF ChainedIn
  <2> QED
    BY Zenon, <2>1, <2>2
<1>2. ASSUME NEW v \in T, at2[v] \in Claiming, Add(from[v], len[v]) # Add(head, len[t])
      PROVE  \E u \in T : at2[u] \in Claiming /\ from[u] = Add(from[v], len[v])
  <2>1. v # t /\ at[v] \in Claiming
    BY Zenon, <1>2
  <2>2. CASE Add(from[v], len[v]) = head
    BY Zenon, <2>2
  <2>3. CASE Add(from[v], len[v]) # head
    <3>1. PICK u \in T : at[u] \in Claiming /\ from[u] = Add(from[v], len[v])
      BY Zenon, <2>1, <2>3 DEF ChainedIn
    <3> QED
      BY Zenon, <3>1
  <2> QED
    BY Zenon, <2>2, <2>3
<1> QED
  BY Zenon, <1>1, <1>2 DEF ChainedIn

(* Publishing the first claim moves the tail to where the next begins. *)
LEMMA ChainPublished ==
  ASSUME NEW T, NEW head \in Index, NEW tail \in Index,
         NEW at, NEW from, NEW len, NEW at2,
         \A u \in T : from[u] \in Index /\ len[u] \in Index,
         \A u \in T : at[u] \in Claiming =>
           len[u] > 0 /\ Sub(from[u], tail) + len[u] <= Sub(head, tail),
         ChainedIn(T, head, tail, at, from, len),
         NEW t \in T, at[t] \in Claiming, at2[t] \notin Claiming,
         \A u \in T : u # t => at2[u] = at[u],
         from[t] = tail
  PROVE  ChainedIn(T, head, Add(tail, len[t]), at2, from, len)
<1>1. ASSUME Add(tail, len[t]) # head
      PROVE  \E u \in T : at2[u] \in Claiming /\ from[u] = Add(tail, len[t])
  <2>1. PICK u \in T : at[u] \in Claiming /\ from[u] = Add(tail, len[t])
    BY Zenon, <1>1 DEF ChainedIn
  <2>2. u # t
    BY <2>1, AddFix
  <2> QED
    BY Zenon, <2>1, <2>2
<1>2. ASSUME NEW v \in T, at2[v] \in Claiming, Add(from[v], len[v]) # head
      PROVE  \E u \in T : at2[u] \in Claiming /\ from[u] = Add(from[v], len[v])
  <2>1. v # t /\ at[v] \in Claiming
    BY Zenon, <1>2
  <2>2. PICK u \in T : at[u] \in Claiming /\ from[u] = Add(from[v], len[v])
    BY Zenon, <1>2, <2>1 DEF ChainedIn
  <2>3. Add(from[v], len[v]) # tail
    <3>1. /\ Sub(from[v], tail) + len[v] <= Sub(head, tail) /\ len[v] > 0
          /\ Sub(from[v], tail) \in Nat /\ len[v] \in Nat
          /\ Sub(head, tail) \in Nat /\ Sub(head, tail) < IndexMod
      BY Zenon, <2>1, SubDef, IndexNat
    <3>2. Sub(from[v], tail) + len[v] < IndexMod
      BY <3>1, Consts
    <3>3. Sub(Add(from[v], len[v]), tail) = Sub(from[v], tail) + len[v]
      BY <3>2, SubAddFar
    <3> QED
      BY <3>1, <3>3, SubSelf
  <2>4. u # t
    BY Zenon, <2>2, <2>3
  <2> QED
    BY Zenon, <2>1, <2>2, <2>4
<1> QED
  BY Zenon, <1>1, <1>2 DEF ChainedIn

(***************************************************************************)
(* The steps.                                                              *)
(***************************************************************************)
(* A step that leaves the indexes and the claims alone. *)
QuietStep ==
  /\ UNCHANGED indexes
  /\ \A u \in Threads : /\ pc'[u] \in Claiming <=> pc[u] \in Claiming
                        /\ pc[u] \in Claiming => old_head'[u] = old_head[u] /\ n'[u] = n[u]

LEMMA QuietTails == ASSUME TailsComing, QuietStep PROVE TailsComing'
<1>1. /\ ChainedIn(Producers, prod_head, prod_tail, pc', old_head', n')
      /\ ChainedIn(Consumers, cons_head, cons_tail, pc', old_head', n')
  BY ChainKept DEF TailsComing, QuietStep, Threads
<1> QED
  BY Zenon, <1>1 DEF TailsComing, QuietStep, indexes

LEMMA CallQuiet ==
  ASSUME TypeOK, NEW t \in Threads, NEW r, NEW objs, Call(t, r, objs) PROVE QuietStep
  BY Zenon DEF Call, QuietStep, TypeOK, Claiming, locals

LEMMA LoadHeadQuiet ==
  ASSUME TypeOK, NEW t \in Threads, NEW head, LoadHead(t, head) PROVE QuietStep
  BY Zenon DEF LoadHead, QuietStep, TypeOK, Claiming

LEMMA ReserveQuiet ==
  ASSUME TypeOK, NEW t \in Threads, NEW avail, Reserve(t, avail) PROVE QuietStep
<1>1. pc[t] = "room" /\ UNCHANGED indexes
  BY Zenon DEF Reserve
<1>2. CASE Return(t)
  BY Zenon, <1>1, <1>2 DEF Return, QuietStep, TypeOK, Claiming
<1>3. CASE /\ n' = [n EXCEPT ![t] = Granted(req[t], avail)]
           /\ pc' = [pc EXCEPT ![t] = "cas"]
           /\ UNCHANGED old_head
  BY Zenon, <1>1, <1>3 DEF QuietStep, TypeOK, Claiming
<1> QED
  BY Zenon, <1>2, <1>3 DEF Reserve

LEMMA RetryQuiet ==
  ASSUME TypeOK, NEW t \in Threads, NEW head, pc[t] = "cas", Retry(t, head) PROVE QuietStep
  BY Zenon DEF Retry, QuietStep, TypeOK, Claiming

LEMMA CopiedOneQuiet == ASSUME TypeOK, NEW t \in Threads, CopiedOne(t) PROVE QuietStep
  BY Zenon DEF CopiedOne, QuietStep, TypeOK, Claiming

LEMMA MoveProdHeadTails ==
  ASSUME RingInv, TailsComing, NEW p \in Producers, MoveProdHead(p) PROVE TailsComing'
<1>0. p \in Threads /\ p \notin Consumers /\ pc[p] = "cas" /\ TypeOK
  BY Zenon, ThreadAssumption DEF MoveProdHead, Threads, RingInv
<1>1. CASE Retry(p, prod_head)
  BY Zenon, <1>0, <1>1, RetryQuiet, QuietTails
<1>2. CASE /\ ProdSingle \/ prod_head = old_head[p]
           /\ prod_head' = Add(old_head[p], n[p])
           /\ Claim(p, Producers)
           /\ UNCHANGED <<prod_tail, cons_head, cons_tail>>
  <2>1. old_head[p] = prod_head
    BY <1>0, <1>2, HeadCurrent DEF RingInv, Threads
  <2>2. /\ UNCHANGED <<old_head, n>>
        /\ pc[p] \notin Claiming /\ pc'[p] \in Claiming
        /\ \A u \in Threads : u # p => pc'[u] = pc[u]
    BY Zenon, <1>0, <1>2 DEF Claim, locals, TypeOK, Claiming
  <2>3. ChainedIn(Producers, Add(prod_head, n[p]), prod_tail, pc', old_head, n)
    BY Zenon, <2>1, <2>2, ChainMade DEF TailsComing, Threads
  <2>4. ChainedIn(Consumers, cons_head, cons_tail, pc', old_head, n)
    BY Zenon, <1>0, <2>2, ChainKept DEF TailsComing, Threads
  <2> QED
    BY Zenon, <1>2, <2>1, <2>2, <2>3, <2>4 DEF TailsComing
<1> QED
  BY Zenon, <1>1, <1>2 DEF MoveProdHead

LEMMA MoveConsHeadTails ==
  ASSUME RingInv, TailsComing, NEW c \in Consumers, MoveConsHead(c) PROVE TailsComing'
<1>0. c \in Threads /\ c \notin Producers /\ pc[c] = "cas" /\ TypeOK
  BY Zenon, ThreadAssumption DEF MoveConsHead, Threads, RingInv
<1>1. CASE Retry(c, cons_head)
  BY Zenon, <1>0, <1>1, RetryQuiet, QuietTails
<1>2. CASE /\ ConsSingle \/ cons_head = old_head[c]
           /\ cons_head' = Add(old_head[c], n[c])
           /\ Claim(c, Consumers)
           /\ UNCHANGED <<prod_head, prod_tail, cons_tail>>
  <2>1. old_head[c] = cons_head
    BY <1>0, <1>2, HeadCurrent DEF RingInv, Threads
  <2>2. /\ UNCHANGED <<old_head, n>>
        /\ pc[c] \notin Claiming /\ pc'[c] \in Claiming
        /\ \A u \in Threads : u # c => pc'[u] = pc[u]
    BY Zenon, <1>0, <1>2 DEF Claim, locals, TypeOK, Claiming
  <2>3. ChainedIn(Consumers, Add(cons_head, n[c]), cons_tail, pc', old_head, n)
    BY Zenon, <2>1, <2>2, ChainMade DEF TailsComing, Threads
  <2>4. ChainedIn(Producers, prod_head, prod_tail, pc', old_head, n)
    BY Zenon, <1>0, <2>2, ChainKept DEF TailsComing, Threads
  <2> QED
    BY Zenon, <1>2, <2>1, <2>2, <2>3, <2>4 DEF TailsComing
<1> QED
  BY Zenon, <1>1, <1>2 DEF MoveConsHead

LEMMA UpdateProdTailTails ==
  ASSUME RingInv, TailsComing, NEW p \in Producers, UpdateProdTail(p) PROVE TailsComing'
<1>0. /\ p \in Threads /\ p \notin Consumers /\ pc[p] = "publish" /\ TypeOK
      /\ ProdSingle \/ prod_tail = old_head[p]
      /\ prod_tail' = Add(old_head[p], n[p])
      /\ Return(p)
      /\ UNCHANGED <<prod_head, cons_head, cons_tail>>
  BY Zenon, ThreadAssumption DEF UpdateProdTail, Threads, RingInv
<1>1. ClaimsIn(Producers, ProdSingle, prod_head, prod_tail, pc, old_head, n)
  BY Zenon DEF RingInv, Claims
<1>2. /\ \A u \in Producers : old_head[u] \in Index /\ n[u] \in Index
      /\ pc[p] \in Claiming /\ pc'[p] \notin Claiming
      /\ \A u \in Threads : u # p => pc'[u] = pc[u] /\ old_head'[u] = old_head[u] /\ n'[u] = n[u]
  BY Zenon, <1>0 DEF TypeOK, Return, Claiming, Threads
<1>3. old_head[p] = prod_tail
  BY Zenon, <1>0, <1>1, <1>2 DEF ClaimsIn
<1>4. ChainedIn(Producers, prod_head, Add(prod_tail, n[p]), pc', old_head', n')
  <2>1. ChainedIn(Producers, prod_head, prod_tail, pc, old_head, n)
    BY Zenon DEF TailsComing
  <2>2. \A u \in Producers : u # p => pc'[u] = pc[u] /\ old_head'[u] = old_head[u] /\ n'[u] = n[u]
    BY Zenon, <1>2 DEF Threads
  <2>3. prod_head \in Index /\ prod_tail \in Index
    BY Zenon, Distances
  <2>4. \A u \in Producers : pc[u] \in Claiming =>
          n[u] > 0 /\ Sub(old_head[u], prod_tail) + n[u] <= Sub(prod_head, prod_tail)
    BY Zenon, <1>1 DEF ClaimsIn
  <2>5. ChainedIn(Producers, prod_head, Add(prod_tail, n[p]), pc', old_head, n)
    BY <1>2, <1>3, <2>1, <2>2, <2>3, <2>4, ChainPublished
  <2>6. \A u \in Producers : pc'[u] \in Claiming => old_head'[u] = old_head[u] /\ n'[u] = n[u]
    BY Zenon, <1>2, <2>2
  <2> QED
    BY <2>5, <2>6, ChainKept
<1>5. ChainedIn(Consumers, cons_head, cons_tail, pc', old_head', n')
  <2>1. ChainedIn(Consumers, cons_head, cons_tail, pc, old_head, n)
    BY Zenon DEF TailsComing
  <2>2. \A u \in Consumers : pc'[u] = pc[u] /\ old_head'[u] = old_head[u] /\ n'[u] = n[u]
    BY Zenon, <1>0, <1>2 DEF Threads
  <2> QED
    BY <2>1, <2>2, Zenon DEF ChainedIn
<1> QED
  BY Zenon, <1>0, <1>3, <1>4, <1>5 DEF TailsComing

LEMMA UpdateConsTailTails ==
  ASSUME RingInv, TailsComing, NEW c \in Consumers, UpdateConsTail(c) PROVE TailsComing'
<1>0. /\ c \in Threads /\ c \notin Producers /\ pc[c] = "publish" /\ TypeOK
      /\ ConsSingle \/ cons_tail = old_head[c]
      /\ cons_tail' = Add(old_head[c], n[c])
      /\ Return(c)
      /\ UNCHANGED <<prod_head, prod_tail, cons_head>>
  BY Zenon, ThreadAssumption DEF UpdateConsTail, Threads, RingInv
<1>1. ClaimsIn(Consumers, ConsSingle, cons_head, cons_tail, pc, old_head, n)
  BY Zenon DEF RingInv, Claims
<1>2. /\ \A u \in Consumers : old_head[u] \in Index /\ n[u] \in Index
      /\ pc[c] \in Claiming /\ pc'[c] \notin Claiming
      /\ \A u \in Threads : u # c => pc'[u] = pc[u] /\ old_head'[u] = old_head[u] /\ n'[u] = n[u]
  BY Zenon, <1>0 DEF TypeOK, Return, Claiming, Threads
<1>3. old_head[c] = cons_tail
  BY Zenon, <1>0, <1>1, <1>2 DEF ClaimsIn
<1>4. ChainedIn(Consumers, cons_head, Add(cons_tail, n[c]), pc', old_head', n')
  <2>1. ChainedIn(Consumers, cons_head, cons_tail, pc, old_head, n)
    BY Zenon DEF TailsComing
  <2>2. \A u \in Consumers : u # c => pc'[u] = pc[u] /\ old_head'[u] = old_head[u] /\ n'[u] = n[u]
    BY Zenon, <1>2 DEF Threads
  <2>3. cons_head \in Index /\ cons_tail \in Index
    BY Zenon, Distances
  <2>4. \A u \in Consumers : pc[u] \in Claiming =>
          n[u] > 0 /\ Sub(old_head[u], cons_tail) + n[u] <= Sub(cons_head, cons_tail)
    BY Zenon, <1>1 DEF ClaimsIn
  <2>5. ChainedIn(Consumers, cons_head, Add(cons_tail, n[c]), pc', old_head, n)
    BY <1>2, <1>3, <2>1, <2>2, <2>3, <2>4, ChainPublished
  <2>6. \A u \in Consumers : pc'[u] \in Claiming => old_head'[u] = old_head[u] /\ n'[u] = n[u]
    BY Zenon, <1>2, <2>2
  <2> QED
    BY <2>5, <2>6, ChainKept
<1>5. ChainedIn(Producers, prod_head, prod_tail, pc', old_head', n')
  <2>1. ChainedIn(Producers, prod_head, prod_tail, pc, old_head, n)
    BY Zenon DEF TailsComing
  <2>2. \A u \in Producers : pc'[u] = pc[u] /\ old_head'[u] = old_head[u] /\ n'[u] = n[u]
    BY Zenon, <1>0, <1>2 DEF Threads
  <2> QED
    BY <2>1, <2>2, Zenon DEF ChainedIn
<1> QED
  BY Zenon, <1>0, <1>3, <1>4, <1>5 DEF TailsComing

-----------------------------------------------------------------------------
LEMMA InitTails == Init => TailsComing
  BY Zenon DEF Init, TailsComing, ChainedIn, Claiming, Threads

LEMMA NextTails == RingInv /\ TailsComing /\ [Next]_vars => TailsComing'
<1> SUFFICES ASSUME RingInv, TailsComing, [Next]_vars PROVE TailsComing'
  OBVIOUS
<1>0. TypeOK
  BY Zenon DEF RingInv
<1>1. ASSUME NEW p \in Producers, cne_ring_enqueue(p) PROVE TailsComing'
  BY Zenon, <1>0, <1>1, CallQuiet, QuietTails DEF cne_ring_enqueue, Threads
<1>2. ASSUME NEW c \in Consumers, cne_ring_dequeue(c) PROVE TailsComing'
  BY Zenon, <1>0, <1>2, CallQuiet, QuietTails DEF cne_ring_dequeue, Threads
<1>3. ASSUME NEW p \in Producers, LoadProdHead(p) \/ LoadConsTail(p) \/ CopyIn(p)
      PROVE  TailsComing'
  BY Zenon, <1>0, <1>3, LoadHeadQuiet, ReserveQuiet, CopiedOneQuiet, QuietTails
     DEF LoadProdHead, LoadConsTail, CopyIn, Threads
<1>4. ASSUME NEW c \in Consumers, LoadConsHead(c) \/ LoadProdTail(c) \/ CopyOut(c)
      PROVE  TailsComing'
  BY Zenon, <1>0, <1>4, LoadHeadQuiet, ReserveQuiet, CopiedOneQuiet, QuietTails
     DEF LoadConsHead, LoadProdTail, CopyOut, Threads
<1>5. CASE UNCHANGED vars
  BY Zenon, <1>5 DEF vars, indexes, locals, TailsComing, ChainedIn
<1>6. ASSUME NEW p \in Producers, ProducerStep(p) PROVE TailsComing'
  BY Zenon, <1>3, <1>6, MoveProdHeadTails, UpdateProdTailTails DEF ProducerStep
<1>7. ASSUME NEW c \in Consumers, ConsumerStep(c) PROVE TailsComing'
  BY Zenon, <1>4, <1>7, MoveConsHeadTails, UpdateConsTailTails DEF ConsumerStep
<1> QED
  BY Zenon, <1>1, <1>2, <1>5, <1>6, <1>7 DEF Next

(* As long as a tail and its head differ, some thread's claim begins at    *)
(* the tail, and a claim that does not end at the head is followed by      *)
(* another: however many threads claimed and in whatever order they        *)
(* finish, the one that update_tail waits for is never missing.            *)
THEOREM RingTailsComing == Spec => []TailsComing
  BY InitTails, NextTails, RingInvariant, PTL DEF Spec

-----------------------------------------------------------------------------
(***************************************************************************)
(* cne_ring_count.  A step moves one tail at most, and only for a thread   *)
(* that has copied its objects; the thread that counts is not one of those *)
(* and is alone on its side, so the side it is on stands still.            *)
(***************************************************************************)
LEMMA RealBounds == ASSUME RingInv PROVE Real \in Nat /\ Real <= Capacity /\ Real < Size
  BY Distances, Consts DEF Real, Index

LEMMA ProdTailMoves ==
  ASSUME RingInv, NEW p \in Producers, UpdateProdTail(p)
  PROVE  pc[p] = "publish" /\ cons_tail' = cons_tail /\ Real <= Real'
<1>0. /\ p \in Threads /\ pc[p] = "publish" /\ p \notin Consumers
      /\ ProdSingle \/ prod_tail = old_head[p]
      /\ prod_tail' = Add(old_head[p], n[p])
      /\ Return(p)
      /\ UNCHANGED <<prod_head, cons_head, cons_tail, ring>>
  BY Zenon, ThreadAssumption DEF UpdateProdTail, Threads
<1>1. old_head[p] = prod_tail /\ n[p] <= Sub(prod_head, prod_tail)
  BY Zenon, ProdPublishes
<1>2. n[p] \in Index
  BY Zenon, <1>0 DEF RingInv, TypeOK
<1>3. Real + n[p] < IndexMod /\ Real \in Nat
  BY <1>1, <1>2, Distances, Consts DEF Index, Real
<1>4. Real' = Real + n[p]
  BY <1>0, <1>1, <1>2, <1>3, Distances, SubAddFar DEF Real
<1> QED
  BY <1>0, <1>2, <1>3, <1>4 DEF Index

LEMMA ConsTailMoves ==
  ASSUME RingInv, NEW c \in Consumers, UpdateConsTail(c)
  PROVE  pc[c] = "publish" /\ prod_tail' = prod_tail /\ Real' <= Real
<1>0. /\ c \in Threads /\ pc[c] = "publish" /\ c \notin Producers
      /\ ConsSingle \/ cons_tail = old_head[c]
      /\ cons_tail' = Add(old_head[c], n[c])
      /\ Return(c)
      /\ UNCHANGED <<prod_head, prod_tail, cons_head, ring>>
  BY Zenon, ThreadAssumption DEF UpdateConsTail, Threads
<1>1. old_head[c] = cons_tail /\ n[c] <= Sub(cons_head, cons_tail)
  BY Zenon, ConsPublishes
<1>2. n[c] \in Index
  BY Zenon, <1>0 DEF RingInv, TypeOK
<1>3. n[c] <= Real /\ Real \in Nat
  BY <1>1, <1>2, Distances, Consts DEF Index, Real
<1>4. Real' = Real - n[c]
  BY <1>0, <1>1, <1>2, <1>3, Distances, SubAddNear DEF Real
<1> QED
  BY <1>0, <1>2, <1>3, <1>4 DEF Index

LEMMA TailsMove ==
  ASSUME RingInv, Next
  PROVE  \/ UNCHANGED <<prod_tail, cons_tail>>
         \/ \E p \in Producers : pc[p] = "publish" /\ cons_tail' = cons_tail /\ Real <= Real'
         \/ \E c \in Consumers : pc[c] = "publish" /\ prod_tail' = prod_tail /\ Real' <= Real
<1>1. ASSUME NEW p \in Producers, cne_ring_enqueue(p) PROVE UNCHANGED <<prod_tail, cons_tail>>
  BY Zenon, <1>1 DEF cne_ring_enqueue, Call, indexes
<1>2. ASSUME NEW c \in Consumers, cne_ring_dequeue(c) PROVE UNCHANGED <<prod_tail, cons_tail>>
  BY Zenon, <1>2 DEF cne_ring_dequeue, Call, indexes
<1>3. ASSUME NEW p \in Producers, ProducerStep(p), ~ UpdateProdTail(p)
      PROVE  UNCHANGED <<prod_tail, cons_tail>>
  BY Zenon, <1>3 DEF ProducerStep, LoadProdHead, LoadHead, LoadConsTail, Reserve, Return, MoveProdHead,
              Claim, Retry, CopyIn, CopiedOne, indexes
<1>4. ASSUME NEW c \in Consumers, ConsumerStep(c), ~ UpdateConsTail(c)
      PROVE  UNCHANGED <<prod_tail, cons_tail>>
  BY Zenon, <1>4 DEF ConsumerStep, LoadConsHead, LoadHead, LoadProdTail, Reserve, Return, MoveConsHead,
              Claim, Retry, CopyOut, CopiedOne, indexes
<1> QED
  BY Zenon, <1>1, <1>2, <1>3, <1>4, ProdTailMoves, ConsTailMoves DEF Next

(* What a call of cne_ring_count may rely on between its two loads. *)
CountInv ==
  /\ RingInv
  /\ caller \in Callers /\ opc \in {"idle", "loaded", "done"}
  /\ opc # "idle" => pc[caller] = "idle"
  /\ opc = "loaded" =>
       /\ prod_tail_seen \in Index
       /\ caller \in Producers => prod_tail_seen = prod_tail
       /\ caller \in Consumers => Sub(prod_tail_seen, cons_tail) <= Real
  /\ opc = "done" => count \in Nat
  /\ CountSafe

(* cne_ring_count never tells the only consumer of objects that are not    *)
(* there, nor the only producer of room that is not there, whatever the    *)
(* other side does between the loads of the two tails and afterwards.      *)
THEOREM RingCountSafe == CountSpec => []CountSafe
<1>1. CountInit => CountInv
  BY Zenon, InitInv DEF CountInit, CountInv, CountSafe
<1>2. ASSUME CountInv, [RingStep \/ LoadProdTailFirst \/ cne_ring_count \/ Again]_allvars
      PROVE  CountInv'
  <2>1. RingInv /\ caller \in Callers
    BY Zenon, <1>2 DEF CountInv
  <2>2. (Producers = {caller} \/ Consumers = {caller}) /\ Producers \cap Consumers = {}
    BY Zenon, <2>1, CallerAssumption, ThreadAssumption
  <2>3. Real \in Nat /\ Real <= Capacity /\ Real < Size
    BY Zenon, <2>1, RealBounds
  <2>4. CASE RingStep
    <3>1. /\ Next /\ (opc # "idle" => pc'[caller] = "idle")
          /\ UNCHANGED <<caller, opc, prod_tail_seen, count>>
      BY Zenon, <2>4 DEF RingStep
    <3>2. RingInv'
      BY Zenon, <2>1, <3>1, NextInv
    <3>3. Real' \in Nat
      BY <3>2, SubDef DEF RingInv, TypeOK, Index, Real
    <3>4. ASSUME opc # "idle", caller \in Producers
          PROVE  prod_tail' = prod_tail /\ Real' <= Real
      <4>1. \A p \in Producers : pc[p] # "publish"
        BY Zenon, <1>2, <2>2, <3>4 DEF CountInv
      <4> QED
        BY <2>1, <2>3, <3>1, <4>1, TailsMove DEF Real
    <3>5. ASSUME opc # "idle", caller \in Consumers
          PROVE  cons_tail' = cons_tail /\ Real <= Real'
      <4>1. \A c \in Consumers : pc[c] # "publish"
        BY Zenon, <1>2, <2>2, <3>5 DEF CountInv
      <4> QED
        BY <2>1, <2>3, <3>1, <4>1, TailsMove DEF Real
    <3>6. ASSUME opc = "loaded", caller \in Consumers
          PROVE  Sub(prod_tail_seen, cons_tail)' <= Real'
      <4>1. Sub(prod_tail_seen, cons_tail)' = Sub(prod_tail_seen, cons_tail)
        BY Zenon, <3>1, <3>5, <3>6
      <4>2. prod_tail_seen \in Index /\ cons_tail \in Index
            /\ Sub(prod_tail_seen, cons_tail) <= Real
        BY Zenon, <1>2, <2>1, <3>6, Distances DEF CountInv
      <4>3. Sub(prod_tail_seen, cons_tail) \in Int
        BY <4>2, SubDef DEF Index
      <4> QED
        BY <2>3, <3>3, <3>5, <3>6, <4>1, <4>2, <4>3
    <3>7. ASSUME opc = "done" PROVE CountSafe'
      <4>1. count \in Nat /\ count' = count
        BY Zenon, <1>2, <3>1, <3>7 DEF CountInv
      <4>2. caller \in Consumers => count' <= Real'
        BY <1>2, <2>3, <3>3, <3>5, <3>7, <4>1 DEF CountInv, CountSafe
      <4>3. caller \in Producers => count' >= Real'
        BY <1>2, <2>3, <3>3, <3>4, <3>7, <4>1 DEF CountInv, CountSafe
      <4> QED
        BY Zenon, <3>1, <4>2, <4>3 DEF CountSafe
    <3>8. CountSafe'
      BY Zenon, <3>1, <3>7 DEF CountSafe
    <3> QED
      BY Zenon, <1>2, <3>1, <3>2, <3>4, <3>6, <3>8 DEF CountInv
  <2>5. CASE LoadProdTailFirst
    <3>1. /\ opc = "idle" /\ pc[caller] = "idle" /\ opc' = "loaded" /\ prod_tail_seen' = prod_tail
          /\ UNCHANGED <<vars, caller, count>>
      BY Zenon, <2>5 DEF LoadProdTailFirst
    <3>2. /\ UNCHANGED <<prod_tail, cons_tail, pc>> /\ Real' = Real /\ prod_tail \in Index
      BY Zenon, <2>1, <3>1, Distances DEF vars, indexes, Real
    <3>3. RingInv'
      BY Zenon, <2>1, <3>1, NextInv
    <3>4. Sub(prod_tail_seen, cons_tail)' = Real'
      BY Zenon, <3>1, <3>2 DEF Real
    <3> QED
      BY <1>2, <2>3, <3>1, <3>2, <3>3, <3>4 DEF CountInv, CountSafe
  <2>6. CASE cne_ring_count
    <3>1. /\ opc = "loaded" /\ opc' = "done"
          /\ count' = LowerOf(Slot(Sub(prod_tail_seen, cons_tail)), Capacity)
          /\ UNCHANGED <<vars, caller, prod_tail_seen>>
      BY Zenon, <2>6 DEF cne_ring_count
    <3>2. UNCHANGED <<prod_tail, cons_tail, pc>> /\ Real' = Real /\ cons_tail \in Index
      BY Zenon, <2>1, <3>1, Distances DEF vars, indexes, Real
    <3>3. RingInv'
      BY Zenon, <2>1, <3>1, NextInv
    <3>4. prod_tail_seen \in Index /\ Sub(prod_tail_seen, cons_tail) <= Real
      BY <1>2, <2>2, <2>3, <3>1 DEF CountInv, Real
    <3>5. Sub(prod_tail_seen, cons_tail) \in Nat
      BY <3>2, <3>4, SubDef, Consts DEF Index
    <3>6. Slot(Sub(prod_tail_seen, cons_tail)) = Sub(prod_tail_seen, cons_tail)
      BY <2>3, <3>4, <3>5, ModLow, Consts DEF Slot
    <3>7. count' = Sub(prod_tail_seen, cons_tail)
      BY <2>3, <3>1, <3>4, <3>5, <3>6, Consts DEF LowerOf
    <3>8. caller \in Producers => count' = Real
      BY Zenon, <1>2, <3>1, <3>7 DEF CountInv, Real
    <3>9. CountSafe'
      BY Zenon, <2>3, <3>1, <3>2, <3>4, <3>7, <3>8 DEF CountSafe
    <3> QED
      BY Zenon, <1>2, <3>1, <3>2, <3>3, <3>5, <3>7, <3>9 DEF CountInv
  <2>7. CASE Again
    <3>1. opc' = "idle" /\ UNCHANGED <<vars, caller>>
      BY Zenon, <2>7 DEF Again
    <3>2. RingInv'
      BY Zenon, <2>1, <3>1, NextInv
    <3> QED
      BY Zenon, <1>2, <3>1, <3>2 DEF CountInv, CountSafe
  <2>8. CASE UNCHANGED allvars
    <3>1. UNCHANGED vars /\ UNCHANGED <<caller, opc, prod_tail_seen, count>>
      BY Zenon, <2>8 DEF allvars, observer
    <3>2. RingInv'
      BY Zenon, <2>1, <3>1, NextInv
    <3>3. UNCHANGED <<prod_tail, cons_tail, pc>> /\ Real' = Real
      BY Zenon, <3>1 DEF vars, indexes, Real
    <3>4. Sub(prod_tail_seen, cons_tail)' = Sub(prod_tail_seen, cons_tail)
      BY Zenon, <3>1, <3>3
    <3> QED
      BY Zenon, <1>2, <3>1, <3>2, <3>3, <3>4 DEF CountInv, CountSafe
  <2> QED
    BY Zenon, <1>2, <2>4, <2>5, <2>6, <2>7, <2>8
<1>3. CountInv => CountSafe
  BY Zenon DEF CountInv
<1> QED
  BY <1>1, <1>2, <1>3, PTL DEF CountSpec

===============================================================================
