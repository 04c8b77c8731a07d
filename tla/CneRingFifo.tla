----------------------------- MODULE CneRingFifo ------------------------------
(***************************************************************************)
(* The ring is the FIFO of its API.  RingInv says which slots a thread may *)
(* touch; Contents says what is in them: the slots a producer has filled   *)
(* hold its objects until it publishes them, and a consumer has nothing    *)
(* in hand outside its claim.  Each step is then a step of RingFifo or     *)
(* leaves the queue and the hands as they are.                             *)
(***************************************************************************)
EXTENDS CneRingProofs

ContentsOf(t) ==
  /\ pc[t] = "publish" => copied[t] = n[t]
  /\ t \in Producers /\ pc[t] = "idle" => obj_table[t] = <<>>
  /\ t \in Consumers /\ pc[t] \notin Claiming => obj_table[t] = <<>>
  /\ t \in Producers /\ pc[t] \in Claiming =>
       \A k \in 0 .. copied[t] - 1 : ring[Slot(Add(old_head[t], k))] = obj_table[t][k + 1]

Contents == \A t \in Threads : ContentsOf(t)

(* A step of t that stores nothing in the ring. *)
OwnStep(t) ==
  /\ ring' = ring
  /\ \A u \in Threads : u # t =>
       /\ pc'[u] = pc[u] /\ obj_table'[u] = obj_table[u]
       /\ old_head'[u] = old_head[u] /\ n'[u] = n[u] /\ copied'[u] = copied[u]

LEMMA OwnContents ==
  ASSUME Contents, NEW t \in Threads, OwnStep(t), ContentsOf(t)' PROVE Contents'
<1>1. ASSUME NEW u \in Threads, u # t PROVE ContentsOf(u)'
  <2>1. /\ ContentsOf(u) /\ ring' = ring
        /\ pc'[u] = pc[u] /\ obj_table'[u] = obj_table[u]
        /\ old_head'[u] = old_head[u] /\ n'[u] = n[u] /\ copied'[u] = copied[u]
    BY Zenon, <1>1 DEF Contents, OwnStep
  <2> QED
    BY <2>1 DEF ContentsOf, Slot, Add
<1> QED
  BY Zenon, <1>1 DEF Contents

LEMMA HandOthers ==
  ASSUME NEW t \in Threads, \A u \in Threads : u # t => InHand(u)' = InHand(u)
  PROVE  Hand' = [Hand EXCEPT ![t] = InHand(t)']
  BY Zenon DEF Hand

LEMMA OwnHand ==
  ASSUME NEW t \in Threads, OwnStep(t)
  PROVE  Hand' = [Hand EXCEPT ![t] = InHand(t)']
<1>1. ASSUME NEW u \in Threads, u # t PROVE InHand(u)' = InHand(u)
  BY Zenon, <1>1 DEF InHand, OwnStep, Entries
<1> QED
  BY Zenon, <1>1, HandOthers

(* A step that shows nothing of itself in the queue or in a hand. *)
LEMMA OwnStutter ==
  ASSUME NEW t \in Threads, OwnStep(t), InHand(t)' = InHand(t), UNCHANGED <<cons_head, prod_tail>>
  PROVE  UNCHANGED <<Queue, Hand>>
<1>1. Queue' = Queue
  BY Zenon DEF Queue, Entries, OwnStep
<1>2. Hand' = [Hand EXCEPT ![t] = InHand(t)'] /\ Hand[t] = InHand(t)
  BY Zenon, OwnHand DEF Hand
<1>3. Hand' = Hand
  BY Zenon, <1>2 DEF Hand
<1> QED
  BY Zenon, <1>1, <1>3

(***************************************************************************)
(* Sequences of entries.                                                   *)
(***************************************************************************)
LEMMA EntriesSeq ==
  ASSUME TypeOK, NEW h \in Index, NEW k \in Nat, k <= IndexMod
  PROVE  /\ Entries(h, k) \in Seq(Values) /\ Len(Entries(h, k)) = k
         /\ \A j \in 1 .. k : Entries(h, k)[j] = ring[Slot(Add(h, j - 1))]
<1>1. ASSUME NEW j \in 1 .. k PROVE ring[Slot(Add(h, j - 1))] \in Values
  <2>1. j - 1 \in Index
    BY Consts DEF Index
  <2>2. Slot(Add(h, j - 1)) \in 0 .. Size - 1
    BY Zenon, <2>1, AddDef, SlotType
  <2> QED
    BY Zenon, <2>2 DEF TypeOK
<1>2. Entries(h, k) \in [1 .. k -> Values]
  BY Zenon, <1>1 DEF Entries
<1>3. Entries(h, k) \in Seq(Values) /\ Len(Entries(h, k)) = k
  BY <1>2
<1> QED
  BY Zenon, <1>3 DEF Entries

LEMMA AppendConcat ==
  ASSUME NEW S, NEW s \in Seq(S), NEW x \in S, NEW e \in Seq(S)
  PROVE  Append(s, x) \o e = s \o (<<x>> \o e)
<1> DEFINE t == <<x>>
<1>1. t \in Seq(S) /\ Append(s, x) = s \o t
  OBVIOUS
<1> HIDE DEF t
<1>2. (s \o t) \o e = s \o (t \o e)
  BY <1>1
<1>3. Append(s, x) \o e = s \o (t \o e)
  BY Zenon, <1>1, <1>2
<1> QED
  BY <1>3 DEF t

(* The first k entries, and those that follow them. *)
LEMMA EntriesSplit ==
  ASSUME TypeOK, NEW h \in Index, NEW m \in Nat, m < IndexMod, NEW k \in 0 .. m
  PROVE  /\ SubSeq(Entries(h, m), 1, k) = Entries(h, k)
         /\ SubSeq(Entries(h, m), k + 1, m) = Entries(Add(h, k), m - k)
         /\ Entries(h, m) = Entries(h, k) \o Entries(Add(h, k), m - k)
<1>0. k \in Nat /\ k <= IndexMod /\ k \in Index /\ m - k \in Nat /\ m - k <= IndexMod /\ m <= IndexMod
  BY Consts DEF Index
<1>1. Add(h, k) \in Index
  BY Zenon, <1>0, AddDef
<1>2. /\ Entries(h, m) \in Seq(Values) /\ Len(Entries(h, m)) = m
      /\ \A j \in 1 .. m : Entries(h, m)[j] = ring[Slot(Add(h, j - 1))]
  BY Zenon, <1>0, EntriesSeq
<1>3. /\ Entries(h, k) \in Seq(Values) /\ Len(Entries(h, k)) = k
      /\ \A j \in 1 .. k : Entries(h, k)[j] = ring[Slot(Add(h, j - 1))]
  BY Zenon, <1>0, EntriesSeq
<1>4. /\ Entries(Add(h, k), m - k) \in Seq(Values) /\ Len(Entries(Add(h, k), m - k)) = m - k
      /\ \A j \in 1 .. m - k : Entries(Add(h, k), m - k)[j] = ring[Slot(Add(Add(h, k), j - 1))]
  BY Zenon, <1>0, <1>1, EntriesSeq
<1>5. \A j \in 1 .. m - k : Entries(Add(h, k), m - k)[j] = Entries(h, m)[k + j]
  <2> SUFFICES ASSUME NEW j \in 1 .. m - k
               PROVE  Entries(Add(h, k), m - k)[j] = Entries(h, m)[k + j]
    OBVIOUS
  <2>1. j - 1 \in Index /\ k + (j - 1) < IndexMod /\ k + j \in 1 .. m /\ (k + j) - 1 = k + (j - 1)
    BY <1>0, Consts DEF Index
  <2>2. Add(Add(h, k), j - 1) = Add(h, k + (j - 1))
    BY Zenon, <1>0, <2>1, AddAdd
  <2> QED
    BY Zenon, <1>2, <1>4, <2>1, <2>2
<1>6. SubSeq(Entries(h, m), 1, k) = Entries(h, k)
  <2> DEFINE e == Entries(h, m)
             f == Entries(h, k)
  <2>1. e \in Seq(Values) /\ f \in Seq(Values) /\ Len(e) = m /\ Len(f) = k
        /\ \A j \in 1 .. k : f[j] = e[j]
    <3>1. \A j \in 1 .. k : j \in 1 .. m
      BY <1>0
    <3> QED
      BY Zenon, <1>2, <1>3, <3>1
  <2> HIDE DEF e, f
  <2>2. SubSeq(e, 1, k) = f
    BY <1>0, <2>1
  <2> QED
    BY <2>2 DEF e, f
<1>7. SubSeq(Entries(h, m), k + 1, m) = Entries(Add(h, k), m - k)
  <2> DEFINE e == Entries(h, m)
             f == Entries(Add(h, k), m - k)
  <2>1. e \in Seq(Values) /\ f \in Seq(Values) /\ Len(e) = m /\ Len(f) = m - k
        /\ \A j \in 1 .. m - k : f[j] = e[k + j]
    BY Zenon, <1>2, <1>4, <1>5
  <2> HIDE DEF e, f
  <2>2. SubSeq(e, k + 1, m) = f
    BY <1>0, <2>1
  <2> QED
    BY <2>2 DEF e, f
<1>8. Entries(h, m) = Entries(h, k) \o Entries(Add(h, k), m - k)
  <2>1. Entries(h, m) = SubSeq(Entries(h, m), 1, k) \o SubSeq(Entries(h, m), k + 1, m)
    <3> DEFINE e == Entries(h, m)
    <3> HIDE DEF e
    <3>1. e \in Seq(Values) /\ Len(e) = m
      BY Zenon, <1>2 DEF e
    <3>2. e = SubSeq(e, 1, k) \o SubSeq(e, k + 1, m)
      BY <1>0, <3>1
    <3> QED
      BY Zenon, <3>2 DEF e
  <2> QED
    BY Zenon, <1>6, <1>7, <2>1
<1> QED
  BY Zenon, <1>6, <1>7, <1>8

(***************************************************************************)
(* Steps of one thread that show nothing outside: loading the head, the    *)
(* reservation that goes on, the failed compare-exchange, a producer's     *)
(* move of its head, a consumer's copy.                                    *)
(***************************************************************************)
LEMMA IdleHand ==
  ASSUME Contents, NEW t \in Threads, pc[t] \notin Claiming PROVE Hand[t] = obj_table[t]
  BY Zenon DEF Hand, InHand

(* The call of an enqueue offers its table; a dequeue begins unseen. *)
LEMMA CallFifo ==
  ASSUME RingInv, Contents, NEW t \in Threads, NEW r, NEW objs \in Seq(Values),
         t \in Consumers => objs = <<>>, Call(t, r, objs)
  PROVE  Contents' /\ [Fifo!Next]_<<Queue, Hand>>
<1>0. /\ pc[t] = "idle" /\ pc'[t] = "load" /\ obj_table'[t] = objs /\ OwnStep(t) /\ TypeOK
      /\ UNCHANGED <<cons_head, prod_tail>>
  BY Zenon DEF Call, OwnStep, RingInv, TypeOK, locals, indexes
<1>1. pc[t] \notin Claiming /\ pc'[t] \notin Claiming /\ pc'[t] # "publish" /\ pc'[t] # "idle"
  BY Zenon, <1>0 DEF Claiming
<1>2. Contents'
  <2>1. ContentsOf(t)'
    BY Zenon, <1>0, <1>1 DEF ContentsOf
  <2> QED
    BY Zenon, <1>0, <2>1, OwnContents
<1>3. InHand(t)' = objs /\ InHand(t) = obj_table[t] /\ obj_table[t] = <<>>
  BY Zenon, <1>0, <1>1 DEF InHand, Contents, ContentsOf, Threads
<1>4. CASE t \in Consumers
  BY Zenon, <1>0, <1>2, <1>3, <1>4, OwnStutter
<1>5. CASE t \in Producers
  <2>1. Hand' = [Hand EXCEPT ![t] = objs] /\ Hand[t] = <<>>
    BY Zenon, <1>0, <1>3, OwnHand DEF Hand
  <2>2. Hand'[t] = objs
    BY Zenon, <1>3 DEF Hand
  <2>3. Queue' = Queue
    BY Zenon, <1>0 DEF Queue, Entries, OwnStep
  <2>4. Fifo!Offer(t)
    BY Zenon, <2>1, <2>2, <2>3 DEF Fifo!Offer
  <2> QED
    BY Zenon, <1>2, <1>5, <2>4 DEF Fifo!Next
<1> QED
  BY Zenon, <1>4, <1>5 DEF Threads

(* A step that neither enters nor leaves a claim and keeps the table. *)
LEMMA UnseenFifo ==
  ASSUME Contents, NEW t \in Threads, OwnStep(t), UNCHANGED <<cons_head, prod_tail>>,
         pc[t] \notin Claiming, pc'[t] \notin Claiming, pc[t] # "idle", pc'[t] # "idle",
         obj_table'[t] = obj_table[t]
  PROVE  Contents' /\ UNCHANGED <<Queue, Hand>>
<1>1. pc'[t] # "publish"
  BY Zenon DEF Claiming
<1>2. t \in Consumers => obj_table[t] = <<>>
  BY Zenon DEF Contents, ContentsOf
<1>3. ContentsOf(t)'
  BY Zenon, <1>1, <1>2 DEF ContentsOf
<1>4. InHand(t)' = InHand(t)
  BY Zenon DEF InHand
<1> QED
  BY Zenon, <1>3, <1>4, OwnContents, OwnStutter

LEMMA LoadHeadFifo ==
  ASSUME RingInv, Contents, NEW t \in Threads, NEW head, LoadHead(t, head)
  PROVE  Contents' /\ UNCHANGED <<Queue, Hand>>
<1>1. /\ pc[t] = "load" /\ pc'[t] = "room" /\ obj_table'[t] = obj_table[t] /\ OwnStep(t)
      /\ UNCHANGED <<cons_head, prod_tail>>
  BY Zenon DEF LoadHead, OwnStep, RingInv, TypeOK, indexes
<1> QED
  BY Zenon, <1>1, UnseenFifo DEF Claiming

LEMMA RetryFifo ==
  ASSUME RingInv, Contents, NEW t \in Threads, NEW head, pc[t] = "cas", Retry(t, head)
  PROVE  Contents' /\ UNCHANGED <<Queue, Hand>>
<1>1. /\ pc'[t] = "room" /\ obj_table'[t] = obj_table[t] /\ OwnStep(t)
      /\ UNCHANGED <<cons_head, prod_tail>>
  BY Zenon DEF Retry, OwnStep, RingInv, TypeOK, indexes
<1> QED
  BY Zenon, <1>1, UnseenFifo DEF Claiming

(* A call returns: its thread has nothing in hand any more. *)
LEMMA ReturnHand ==
  ASSUME RingInv, Contents, NEW t \in Threads, Return(t), ring' = ring
  PROVE  /\ Contents' /\ Hand' = [Hand EXCEPT ![t] = <<>>] /\ OwnStep(t)
<1>1. pc'[t] = "idle" /\ obj_table'[t] = <<>> /\ OwnStep(t)
  BY Zenon DEF Return, OwnStep, RingInv, TypeOK
<1>2. ContentsOf(t)'
  BY Zenon, <1>1 DEF ContentsOf, Claiming
<1>3. InHand(t)' = <<>>
  BY Zenon, <1>1 DEF InHand, Claiming
<1> QED
  BY Zenon, <1>1, <1>2, <1>3, OwnContents, OwnHand

(* A call that returns 0 refuses its objects, or delivers none. *)
LEMMA ReserveFifo ==
  ASSUME RingInv, Contents, NEW t \in Threads, NEW avail, Reserve(t, avail)
  PROVE  Contents' /\ [Fifo!Next]_<<Queue, Hand>>
<1>0. pc[t] = "room" /\ ring' = ring /\ UNCHANGED <<cons_head, prod_tail>>
  BY Zenon DEF Reserve, indexes
<1>1. CASE Return(t)
  <2>1. Contents' /\ Hand' = [Hand EXCEPT ![t] = <<>>]
    BY Zenon, <1>0, <1>1, ReturnHand
  <2>2. Queue' = Queue
    BY Zenon, <1>0 DEF Queue, Entries
  <2> QED
    BY Zenon, <2>1, <2>2 DEF Fifo!Next, Fifo!Refuse, Fifo!Deliver, Threads
<1>2. CASE /\ n' = [n EXCEPT ![t] = Granted(req[t], avail)]
           /\ pc' = [pc EXCEPT ![t] = "cas"]
           /\ UNCHANGED <<req, obj_table, old_head, copied, moved>>
  <2>1. pc'[t] = "cas" /\ obj_table'[t] = obj_table[t] /\ OwnStep(t)
    BY Zenon, <1>0, <1>2 DEF OwnStep, RingInv, TypeOK
  <2> QED
    BY Zenon, <1>0, <2>1, UnseenFifo DEF Claiming
<1> QED
  BY Zenon, <1>1, <1>2 DEF Reserve

(***************************************************************************)
(* Claims.                                                                 *)
(***************************************************************************)
(* A new claim is empty: nothing of it has been copied. *)
LEMMA ClaimContents ==
  ASSUME RingInv, Contents, NEW T, NEW t \in Threads, pc[t] = "cas", Claim(t, T)
  PROVE  /\ Contents' /\ OwnStep(t) /\ pc'[t] = "copy" /\ copied[t] = 0
         /\ UNCHANGED <<ring, obj_table, old_head, n, copied>>
<1>1. /\ pc'[t] = "copy" /\ OwnStep(t)
      /\ UNCHANGED <<ring, obj_table, old_head, n, copied>>
  BY Zenon DEF Claim, OwnStep, RingInv, TypeOK, locals
<1>2. copied[t] = 0 /\ copied'[t] = 0
  BY Zenon, <1>1 DEF RingInv, Tables, Claiming
<1>3. \A k \in 0 .. copied'[t] - 1 : FALSE
  BY <1>2
<1>4. ContentsOf(t)'
  BY Zenon, <1>1, <1>3 DEF ContentsOf, Claiming
<1> QED
  BY Zenon, <1>1, <1>2, <1>4, OwnContents

LEMMA MoveProdHeadFifo ==
  ASSUME RingInv, Contents, NEW p \in Producers, MoveProdHead(p)
  PROVE  Contents' /\ UNCHANGED <<Queue, Hand>>
<1>0. p \in Threads /\ p \notin Consumers /\ pc[p] = "cas"
  BY Zenon, ThreadAssumption DEF MoveProdHead, Threads
<1>1. CASE Retry(p, prod_head)
  BY Zenon, <1>0, <1>1, RetryFifo
<1>2. CASE Claim(p, Producers) /\ UNCHANGED <<prod_tail, cons_head, cons_tail>>
  <2>1. Contents' /\ OwnStep(p) /\ obj_table' = obj_table
    BY Zenon, <1>0, <1>2, ClaimContents
  <2>2. InHand(p)' = InHand(p)
    BY Zenon, <1>0, <2>1 DEF InHand
  <2> QED
    BY Zenon, <1>0, <1>2, <2>1, <2>2, OwnStutter
<1> QED
  BY Zenon, <1>1, <1>2 DEF MoveProdHead

(* Moving cons.head takes the oldest objects of the queue. *)
LEMMA MoveConsHeadFifo ==
  ASSUME RingInv, Contents, NEW c \in Consumers, MoveConsHead(c)
  PROVE  Contents' /\ [Fifo!Next]_<<Queue, Hand>>
<1>0. c \in Threads /\ pc[c] = "cas" /\ TypeOK
  BY Zenon DEF MoveConsHead, Threads, RingInv
<1>1. CASE Retry(c, cons_head)
  BY Zenon, <1>0, <1>1, RetryFifo
<1>2. CASE /\ ConsSingle \/ cons_head = old_head[c]
           /\ cons_head' = Add(old_head[c], n[c])
           /\ Claim(c, Consumers)
           /\ UNCHANGED <<prod_head, prod_tail, cons_tail>>
  <2> DEFINE used == Sub(prod_tail, cons_head)
  <2>1. /\ Contents' /\ OwnStep(c) /\ pc'[c] = "copy" /\ copied[c] = 0
        /\ UNCHANGED <<ring, obj_table, old_head, n, copied>>
    BY Zenon, <1>0, <1>2, ClaimContents
  <2>2. Consumers \in SUBSET Threads /\ HeadHeld(Consumers, ConsSingle, cons_head)
    BY Zenon DEF Threads, RingInv
  <2>3. moved[c] = 0 /\ cons_head = old_head[c]
    BY <1>0, <1>2, <2>2, HeadCurrent
  <2>4. n[c] > 0 /\ n[c] <= used
    BY Zenon, <1>0, <2>3 DEF RingInv, Reserved
  <2>5. cons_head \in Index /\ prod_tail \in Index /\ used \in Index /\ n[c] \in Index
    BY Zenon, <1>0, Distances DEF TypeOK
  <2>6. used <= Capacity
    BY Distances, Consts DEF Index
  <2>7. used \in Nat /\ used < IndexMod /\ n[c] \in 0 .. used /\ used <= IndexMod
        /\ n[c] \in 1 .. used /\ n[c] \in 1 .. Capacity /\ n[c] - 0 = n[c]
    BY <2>4, <2>5, <2>6, Consts DEF Index
  <2>8. Sub(prod_tail, Add(cons_head, n[c])) = used - n[c]
    BY Zenon, <2>4, <2>5, SubAddNear
  <2>9. /\ SubSeq(Queue, 1, n[c]) = Entries(cons_head, n[c])
        /\ SubSeq(Queue, n[c] + 1, used) = Entries(Add(cons_head, n[c]), used - n[c])
        /\ Len(Queue) = used /\ Entries(cons_head, n[c]) \in Seq(Values)
    <3>1. n[c] \in Nat /\ n[c] <= IndexMod
      BY <2>7, Consts
    <3> QED
      BY Zenon, <1>0, <2>5, <2>7, <3>1, EntriesSplit, EntriesSeq DEF Queue
  <2>10. Queue' = SubSeq(Queue, n[c] + 1, Len(Queue))
    <3>1. Queue' = Entries(cons_head', Sub(prod_tail', cons_head'))
      BY Zenon, <2>1 DEF Queue, Entries
    <3> QED
      BY Zenon, <1>2, <2>3, <2>8, <2>9, <3>1
  <2>11. obj_table[c] = <<>> /\ Hand[c] = <<>>
    BY Zenon, <1>0 DEF Contents, ContentsOf, Hand, InHand, Claiming
  <2>12. InHand(c)' = SubSeq(Queue, 1, n[c])
    <3>1. InHand(c)' = obj_table[c] \o Entries(Add(old_head[c], copied[c]), n[c] - copied[c])
      BY Zenon, <2>1 DEF InHand, Claiming, Entries
    <3>2. Add(old_head[c], copied[c]) = cons_head /\ n[c] - copied[c] = n[c]
      BY Zenon, <2>1, <2>3, <2>5, <2>7, AddZero
    <3>3. <<>> \o Entries(cons_head, n[c]) = Entries(cons_head, n[c])
      <4> DEFINE e == Entries(cons_head, n[c])
      <4> HIDE DEF e
      <4>1. e \in Seq(Values)
        BY Zenon, <2>9 DEF e
      <4>2. <<>> \o e = e
        BY <4>1
      <4> QED
        BY Zenon, <4>2 DEF e
    <3> QED
      BY Zenon, <2>9, <2>11, <3>1, <3>2, <3>3
  <2>13. Hand' = [Hand EXCEPT ![c] = SubSeq(Queue, 1, n[c])]
    BY Zenon, <1>0, <2>1, <2>12, OwnHand
  <2>14. Fifo!Take(c, n[c])
    BY Zenon, <2>7, <2>9, <2>10, <2>11, <2>13 DEF Fifo!Take
  <2> QED
    BY Zenon, <2>1, <2>7, <2>14 DEF Fifo!Next
<1> QED
  BY Zenon, <1>1, <1>2 DEF MoveConsHead

(* A consumer's copy moves an object from its slots to its table. *)
LEMMA CopyOutFifo ==
  ASSUME RingInv, Contents, NEW c \in Consumers, CopyOut(c)
  PROVE  Contents' /\ UNCHANGED <<Queue, Hand>>
<1> DEFINE x == ring[Slot(Add(old_head[c], copied[c]))]
<1>0. /\ c \in Threads /\ c \notin Producers /\ TypeOK /\ pc[c] = "copy" /\ CopiedOne(c)
      /\ obj_table' = [obj_table EXCEPT ![c] = Append(@, x)] /\ ring' = ring
  BY Zenon, ThreadAssumption DEF CopyOut, CopiedOne, Threads, RingInv
<1>1. /\ pc'[c] = (IF copied[c] + 1 = n[c] THEN "publish" ELSE "copy") /\ OwnStep(c)
      /\ copied'[c] = copied[c] + 1 /\ obj_table'[c] = Append(obj_table[c], x)
      /\ UNCHANGED <<cons_head, prod_tail, old_head, n, ring>>
  BY Zenon, <1>0 DEF CopiedOne, OwnStep, TypeOK, indexes
<1>2. pc'[c] \in Claiming /\ pc[c] \in Claiming
  BY Zenon, <1>0, <1>1 DEF Claiming
<1>3. ContentsOf(c)'
  BY Zenon, <1>0, <1>1, <1>2 DEF ContentsOf
<1>4. /\ old_head[c] \in Index /\ copied[c] \in Index /\ n[c] \in Index /\ copied[c] < n[c]
      /\ obj_table[c] \in Seq(Values)
  BY Zenon, <1>0 DEF RingInv, TypeOK, Tables
<1>5. Add(old_head[c], copied[c]) \in Index
  BY Zenon, <1>4, AddDef
<1>6. /\ 1 \in Index /\ copied[c] + 1 \in Index /\ copied[c] + 1 < IndexMod
      /\ 1 \in Nat /\ 1 <= IndexMod
      /\ n[c] - copied[c] \in Nat /\ n[c] - copied[c] < IndexMod
      /\ 1 \in 0 .. n[c] - copied[c] /\ (n[c] - copied[c]) - 1 = n[c] - (copied[c] + 1)
      /\ n[c] - (copied[c] + 1) \in Nat /\ n[c] - (copied[c] + 1) <= IndexMod
  <2> DEFINE done == copied[c]
             all == n[c]
  <2> HIDE DEF done, all
  <2>1. done \in Nat /\ all \in Nat /\ done < all /\ all < IndexMod /\ IndexMod \in Nat
    BY Zenon, <1>4, IndexNat, Consts DEF done, all
  <2>2. /\ 1 \in Index /\ done + 1 \in Index /\ done + 1 < IndexMod /\ 1 \in Nat /\ 1 <= IndexMod
    BY <2>1 DEF Index
  <2>3. /\ all - done \in Nat /\ all - done < IndexMod
        /\ 1 \in 0 .. all - done /\ (all - done) - 1 = all - (done + 1)
        /\ all - (done + 1) \in Nat /\ all - (done + 1) <= IndexMod
    BY <2>1
  <2> QED
    BY Zenon, <2>2, <2>3 DEF done, all
<1>7. Add(Add(old_head[c], copied[c]), 1) = Add(old_head[c], copied[c] + 1)
  <2> DEFINE from == old_head[c]
             done == copied[c]
  <2> HIDE DEF from, done
  <2>1. from \in Index /\ done \in Index /\ 1 \in Index /\ done + 1 < IndexMod
    BY Zenon, <1>4, <1>6 DEF from, done
  <2>2. Add(Add(from, done), 1) = Add(from, done + 1)
    BY <2>1, AddAdd
  <2> QED
    BY Zenon, <2>2 DEF from, done
<1>8. Entries(Add(old_head[c], copied[c]), 1) = <<x>>
  <2>1. 1 - 1 = 0 /\ 1 \in 1 .. 1
    OBVIOUS
  <2>2. /\ Entries(Add(old_head[c], copied[c]), 1) \in Seq(Values)
        /\ Len(Entries(Add(old_head[c], copied[c]), 1)) = 1
        /\ Entries(Add(old_head[c], copied[c]), 1)[1] = x
    <3> DEFINE h == Add(old_head[c], copied[c])
    <3> HIDE DEF h
    <3>1. h \in Index
      BY Zenon, <1>5 DEF h
    <3>2. /\ Entries(h, 1) \in Seq(Values) /\ Len(Entries(h, 1)) = 1
          /\ \A j \in 1 .. 1 : Entries(h, 1)[j] = ring[Slot(Add(h, j - 1))]
      BY Zenon, <1>0, <1>6, <3>1, EntriesSeq
    <3>3. Entries(h, 1)[1] = ring[Slot(Add(h, 0))]
      BY Zenon, <2>1, <3>2
    <3> QED
      BY Zenon, <3>1, <3>2, <3>3, AddZero DEF h
  <2> HIDE DEF x
  <2> DEFINE e == Entries(Add(old_head[c], copied[c]), 1)
  <2>3. e \in Seq(Values) /\ Len(e) = 1 /\ e[1] = x
    BY Zenon, <2>2
  <2> HIDE DEF e
  <2>4. e = <<x>>
    BY <2>3
  <2> QED
    BY Zenon, <2>4 DEF e
<1>9. Entries(Add(old_head[c], copied[c]), n[c] - copied[c])
        = <<x>> \o Entries(Add(old_head[c], copied[c] + 1), n[c] - (copied[c] + 1))
  <2> DEFINE h == Add(old_head[c], copied[c])
             m == n[c] - copied[c]
  <2> HIDE DEF h, m
  <2>1. h \in Index /\ m \in Nat /\ m < IndexMod /\ 1 \in 0 .. m
    BY Zenon, <1>5, <1>6 DEF h, m
  <2>2. Entries(h, m) = Entries(h, 1) \o Entries(Add(h, 1), m - 1)
    BY Zenon, <1>0, <2>1, EntriesSplit
  <2> QED
    BY Zenon, <1>6, <1>7, <1>8, <2>2 DEF h, m
<1>10. InHand(c)' = Append(obj_table[c], x)
                      \o Entries(Add(old_head[c], copied[c] + 1), n[c] - (copied[c] + 1))
  BY Zenon, <1>1, <1>2 DEF InHand, Entries
<1>11. InHand(c)' = InHand(c)
  <2>1. InHand(c) = obj_table[c] \o Entries(Add(old_head[c], copied[c]), n[c] - copied[c])
    BY Zenon, <1>2 DEF InHand
  <2>2. Add(old_head[c], copied[c] + 1) \in Index
    BY Zenon, <1>4, <1>6, AddDef
  <2>3. Entries(Add(old_head[c], copied[c] + 1), n[c] - (copied[c] + 1)) \in Seq(Values)
    BY Zenon, <1>0, <1>6, <2>2, EntriesSeq
  <2>4. x \in Values
    BY Zenon, <1>0, <1>5, SlotType DEF TypeOK
  <2> HIDE DEF x
  <2>5. \A e \in Seq(Values) : Append(obj_table[c], x) \o e = obj_table[c] \o (<<x>> \o e)
    <3> DEFINE s == obj_table[c]
    <3> HIDE DEF s
    <3>1. s \in Seq(Values)
      BY Zenon, <1>4 DEF s
    <3>2. ASSUME NEW e \in Seq(Values) PROVE Append(s, x) \o e = s \o (<<x>> \o e)
      BY <2>4, <3>1, AppendConcat
    <3> QED
      BY <3>2 DEF s
  <2> QED
    BY Zenon, <1>9, <1>10, <2>1, <2>3, <2>5
<1> QED
  BY Zenon, <1>0, <1>1, <1>3, <1>11, OwnContents, OwnStutter

(***************************************************************************)
(* Publishing.                                                             *)
(***************************************************************************)
(* What a producer is about to publish is the beginning of its table. *)
LEMMA TablePublished ==
  ASSUME RingInv, Contents, NEW p \in Producers, pc[p] = "publish"
  PROVE  /\ n[p] > 0 /\ n[p] \in 1 .. Len(obj_table[p])
         /\ Entries(old_head[p], n[p]) = SubSeq(obj_table[p], 1, n[p])
<1>0. /\ p \in Threads /\ TypeOK /\ pc[p] \in Claiming
      /\ old_head[p] \in Index /\ n[p] \in Index /\ obj_table[p] \in Seq(Values)
  BY Zenon DEF Threads, RingInv, TypeOK, Claiming
<1>1. n[p] > 0 /\ n[p] <= Len(obj_table[p]) /\ copied[p] = n[p]
  BY Zenon, <1>0 DEF RingInv, Claims, ClaimsIn, Tables, Contents, ContentsOf, Claiming
<1>2. \A k \in 0 .. n[p] - 1 : ring[Slot(Add(old_head[p], k))] = obj_table[p][k + 1]
  BY Zenon, <1>0, <1>1 DEF Contents, ContentsOf
<1>3. n[p] \in Nat /\ n[p] <= IndexMod /\ n[p] \in 1 .. Len(obj_table[p])
  BY <1>0, <1>1, Consts DEF Index
<1>4. /\ Entries(old_head[p], n[p]) \in Seq(Values) /\ Len(Entries(old_head[p], n[p])) = n[p]
      /\ \A j \in 1 .. n[p] : Entries(old_head[p], n[p])[j] = ring[Slot(Add(old_head[p], j - 1))]
  BY Zenon, <1>0, <1>3, EntriesSeq
<1>5. \A j \in 1 .. n[p] : Entries(old_head[p], n[p])[j] = obj_table[p][j]
  <2> SUFFICES ASSUME NEW j \in 1 .. n[p]
               PROVE  Entries(old_head[p], n[p])[j] = obj_table[p][j]
    OBVIOUS
  <2>1. j - 1 \in 0 .. n[p] - 1 /\ (j - 1) + 1 = j
    BY <1>3
  <2> QED
    BY Zenon, <1>2, <1>4, <2>1
<1>6. Entries(old_head[p], n[p]) = SubSeq(obj_table[p], 1, n[p])
  <2> DEFINE e == Entries(old_head[p], n[p])
             s == obj_table[p]
  <2>1. e \in Seq(Values) /\ Len(e) = n[p] /\ s \in Seq(Values) /\ n[p] \in 1 .. Len(s)
        /\ \A j \in 1 .. n[p] : e[j] = s[j]
    BY Zenon, <1>0, <1>3, <1>4, <1>5
  <2> HIDE DEF e, s
  <2>2. e = SubSeq(s, 1, n[p])
    BY <1>3, <2>1
  <2> QED
    BY Zenon, <2>2 DEF e, s
<1> QED
  BY Zenon, <1>1, <1>3, <1>6

LEMMA AddSub == ASSUME NEW a \in Index, NEW b \in Index PROVE Add(b, Sub(a, b)) = a
<1>1. /\ Sub(a, b) = IF a >= b THEN a - b ELSE a - b + IndexMod
      /\ Sub(a, b) \in Index
  BY Zenon, SubDef
<1>2. Add(b, Sub(a, b)) = IF b + Sub(a, b) < IndexMod THEN b + Sub(a, b) ELSE b + Sub(a, b) - IndexMod
  BY Zenon, <1>1, AddDef
<1> QED
  BY <1>1, <1>2, Consts DEF Index

(* Moving prod.tail appends the producer's objects to the queue. *)
LEMMA UpdateProdTailFifo ==
  ASSUME RingInv, Contents, NEW p \in Producers, UpdateProdTail(p)
  PROVE  Contents' /\ [Fifo!Next]_<<Queue, Hand>>
<1> DEFINE used == Sub(prod_tail, cons_head)
<1>0. /\ p \in Threads /\ p \notin Consumers /\ pc[p] = "publish" /\ TypeOK /\ Return(p)
      /\ prod_tail' = Add(old_head[p], n[p]) /\ cons_head' = cons_head /\ ring' = ring
  BY Zenon, ThreadAssumption DEF UpdateProdTail, Threads, RingInv
<1>1. old_head[p] = prod_tail /\ n[p] <= Sub(prod_head, prod_tail)
  BY Zenon, ProdPublishes
<1>2. /\ cons_head \in Index /\ prod_tail \in Index /\ used \in Index /\ n[p] \in Index
  BY Zenon, <1>0, Distances DEF TypeOK
<1>3. used + n[p] <= Capacity
  BY <1>1, <1>2, Distances, Consts DEF Index
<1>4. /\ used + n[p] < IndexMod /\ used + n[p] \in Nat /\ used \in 0 .. used + n[p]
      /\ (used + n[p]) - used = n[p] /\ used \in Nat /\ used <= IndexMod
  BY <1>2, <1>3, Consts DEF Index
<1>5. /\ n[p] > 0 /\ n[p] \in 1 .. Len(obj_table[p])
      /\ Entries(prod_tail, n[p]) = SubSeq(obj_table[p], 1, n[p])
  BY Zenon, <1>0, <1>1, TablePublished
<1>6. n[p] \in 1 .. Capacity
  BY <1>2, <1>3, <1>4, <1>5, Consts DEF Index
<1>7. Queue' = Queue \o SubSeq(obj_table[p], 1, n[p])
  <2>1. Queue' = Entries(cons_head, Sub(Add(prod_tail, n[p]), cons_head))
    BY Zenon, <1>0, <1>1 DEF Queue, Entries
  <2>2. Sub(Add(prod_tail, n[p]), cons_head) = used + n[p]
    BY <1>2, <1>4, SubAddFar
  <2>3. Entries(cons_head, used + n[p])
          = Entries(cons_head, used) \o Entries(Add(cons_head, used), n[p])
    <3> DEFINE all == used + n[p]
    <3> HIDE DEF all, used
    <3>1. /\ cons_head \in Index /\ all \in Nat /\ all < IndexMod /\ used \in 0 .. all
          /\ all - used = n[p]
      BY Zenon, <1>2, <1>4 DEF all
    <3>2. Entries(cons_head, all)
            = Entries(cons_head, used) \o Entries(Add(cons_head, used), all - used)
      BY Zenon, <1>0, <3>1, EntriesSplit
    <3> QED
      BY Zenon, <3>1, <3>2 DEF all
  <2>4. Add(cons_head, used) = prod_tail
    BY Zenon, <1>2, AddSub
  <2> QED
    BY Zenon, <1>5, <2>1, <2>2, <2>3, <2>4 DEF Queue
<1>8. Len(Queue) = used
  BY Zenon, <1>0, <1>2, <1>4, EntriesSeq DEF Queue
<1>9. Contents' /\ Hand' = [Hand EXCEPT ![p] = <<>>] /\ Hand[p] = obj_table[p]
  BY Zenon, <1>0, ReturnHand DEF Hand, InHand
<1>10. Fifo!Append_(p, n[p])
  BY Zenon, <1>3, <1>5, <1>7, <1>8, <1>9 DEF Fifo!Append_
<1> QED
  BY Zenon, <1>6, <1>9, <1>10 DEF Fifo!Next

LEMMA UpdateConsTailFifo ==
  ASSUME RingInv, Contents, NEW c \in Consumers, UpdateConsTail(c)
  PROVE  Contents' /\ [Fifo!Next]_<<Queue, Hand>>
<1>0. /\ c \in Threads /\ Return(c) /\ UNCHANGED <<prod_tail, cons_head, ring>>
  BY Zenon DEF UpdateConsTail, Threads
<1>1. Contents' /\ Hand' = [Hand EXCEPT ![c] = <<>>]
  BY Zenon, <1>0, ReturnHand
<1>2. Queue' = Queue
  BY Zenon, <1>0 DEF Queue, Entries
<1> QED
  BY Zenon, <1>1, <1>2 DEF Fifo!Next, Fifo!Deliver

(***************************************************************************)
(* A producer's copy: the slot it fills is its own, so no entry of the     *)
(* queue and nothing that another thread claimed changes.                  *)
(***************************************************************************)
(* The k-th slot of a claim belongs to it. *)
LEMMA ClaimedSlot ==
  ASSUME NEW t \in Threads, pc[t] \in Claiming, NEW k \in 0 .. n[t] - 1
  PROVE  Slot(Add(old_head[t], k)) \in Owned(t)
  BY Zenon DEF Owned, Claiming

LEMMA CopyInSlots ==
  ASSUME RingInv, Contents, NEW p \in Producers, CopyIn(p)
  PROVE  /\ \A u \in Threads : u # p /\ pc[u] \in Claiming => \A k \in 0 .. n[u] - 1 :
              ring'[Slot(Add(old_head[u], k))] = ring[Slot(Add(old_head[u], k))]
         /\ \A k \in 0 .. copied[p] - 1 :
              ring'[Slot(Add(old_head[p], k))] = ring[Slot(Add(old_head[p], k))]
         /\ \A j \in 1 .. Sub(prod_tail, cons_head) :
              ring'[Slot(Add(cons_head, j - 1))] = ring[Slot(Add(cons_head, j - 1))]
         /\ ring'[Slot(Add(old_head[p], copied[p]))] = obj_table[p][copied[p] + 1]
<1> DEFINE here == Add(old_head[p], copied[p])
<1>0. /\ p \in Threads /\ pc[p] = "copy" /\ pc[p] \in Claiming /\ TypeOK
      /\ ring' = [ring EXCEPT ![Slot(here)] = obj_table[p][copied[p] + 1]]
  BY Zenon DEF CopyIn, CopiedOne, Threads, RingInv, Claiming
<1>1. /\ old_head[p] \in Index /\ copied[p] \in Index /\ n[p] \in Index /\ copied[p] < n[p]
      /\ ring \in [0 .. Size - 1 -> Values]
  BY Zenon, <1>0 DEF RingInv, TypeOK, Tables
<1>2. here \in Index /\ Slot(here) \in 0 .. Size - 1
  BY Zenon, <1>1, AddDef, SlotType
<1>3. \A i \in Index : Slot(i) # Slot(here) => ring'[Slot(i)] = ring[Slot(i)]
  BY Zenon, <1>0, <1>1, SlotType
<1>4. ring'[Slot(here)] = obj_table[p][copied[p] + 1]
  BY Zenon, <1>0, <1>1, <1>2
<1>5. copied[p] \in 0 .. n[p] - 1
  BY <1>1, Consts DEF Index
<1>6. ASSUME NEW u \in Threads, u # p, pc[u] \in Claiming, NEW k \in 0 .. n[u] - 1
      PROVE  ring'[Slot(Add(old_head[u], k))] = ring[Slot(Add(old_head[u], k))]
  <2>1. Slot(here) \in Owned(p) /\ Slot(Add(old_head[u], k)) \in Owned(u)
    BY Zenon, <1>0, <1>5, <1>6, ClaimedSlot
  <2>2. SlotsExclusive
    BY Zenon, SlotsExclusiveInv
  <2>3. Slot(Add(old_head[u], k)) # Slot(here)
    BY Zenon, <1>0, <1>6, <2>1, <2>2 DEF SlotsExclusive
  <2>4. old_head[u] \in Index /\ n[u] \in Index
    BY Zenon, <1>0 DEF TypeOK
  <2>5. k \in Index
    BY <2>4, Consts DEF Index
  <2> QED
    BY Zenon, <1>3, <2>3, <2>4, <2>5, AddDef
<1>7. /\ Sub(old_head[p], cons_tail) \in Nat /\ Sub(prod_tail, cons_tail) \in Nat
      /\ Sub(old_head[p], cons_tail) >= Sub(prod_tail, cons_tail)
      /\ Sub(old_head[p], cons_tail) + n[p] <= Capacity
      /\ cons_tail \in Index /\ cons_head \in Index
  <2>1. /\ Sub(old_head[p], cons_tail) = Sub(old_head[p], prod_tail) + Sub(prod_tail, cons_tail)
        /\ Sub(old_head[p], cons_tail) + n[p] <= Sub(prod_head, cons_tail)
    BY Zenon, <1>0, ClaimOffset
  <2>2. Sub(old_head[p], prod_tail) \in Index
    BY Zenon, <1>1, Distances, SubDef
  <2>3. /\ Sub(prod_tail, cons_tail) \in Nat /\ Sub(old_head[p], prod_tail) \in Nat
        /\ Sub(prod_head, prod_tail) \in Nat /\ Sub(prod_tail, cons_head) \in Nat
        /\ Sub(cons_head, cons_tail) \in Nat /\ n[p] \in Nat
        /\ cons_tail \in Index /\ cons_head \in Index
    BY Zenon, <1>1, <2>2, Distances, SubDef, IndexNat
  <2>4. Sub(prod_head, cons_tail) <= Capacity /\ Sub(prod_head, cons_tail) \in Nat
    BY <2>3, Distances, Consts
  <2> QED
    BY <2>1, <2>3, <2>4, Consts
<1>8. Sub(here, cons_tail) = Sub(old_head[p], cons_tail) + copied[p] /\ Sub(here, cons_tail) < Size
  <2>1. Sub(old_head[p], cons_tail) + copied[p] < IndexMod
    BY <1>1, <1>7, Consts DEF Index
  <2>2. Sub(here, cons_tail) = Sub(old_head[p], cons_tail) + copied[p]
    BY <1>1, <1>7, <2>1, SubAddFar
  <2> QED
    BY <1>1, <1>7, <2>2, Consts DEF Index
<1>9. ASSUME NEW i \in Index, Sub(i, cons_tail) < Sub(here, cons_tail)
      PROVE  ring'[Slot(i)] = ring[Slot(i)]
  BY Zenon, <1>2, <1>3, <1>7, <1>8, <1>9, SlotsApart
<1>10. ASSUME NEW k \in 0 .. copied[p] - 1
       PROVE  ring'[Slot(Add(old_head[p], k))] = ring[Slot(Add(old_head[p], k))]
  <2>1. k \in Index /\ k < copied[p] /\ Sub(old_head[p], cons_tail) + k < IndexMod
    BY <1>1, <1>7, Consts DEF Index
  <2>2. /\ Add(old_head[p], k) \in Index
        /\ Sub(Add(old_head[p], k), cons_tail) = Sub(old_head[p], cons_tail) + k
    <3> DEFINE from == old_head[p]
    <3> HIDE DEF from
    <3>1. from \in Index /\ cons_tail \in Index /\ k \in Index /\ Sub(from, cons_tail) + k < IndexMod
      BY Zenon, <1>1, <1>7, <2>1 DEF from
    <3>2. Add(from, k) \in Index /\ Sub(Add(from, k), cons_tail) = Sub(from, cons_tail) + k
      BY <3>1, SubAddFar
    <3> QED
      BY Zenon, <3>2 DEF from
  <2>3. Sub(Add(old_head[p], k), cons_tail) < Sub(here, cons_tail)
    BY <1>1, <1>7, <1>8, <2>1, <2>2 DEF Index
  <2> QED
    BY Zenon, <1>9, <2>2, <2>3
<1>11. ASSUME NEW j \in 1 .. Sub(prod_tail, cons_head)
       PROVE  ring'[Slot(Add(cons_head, j - 1))] = ring[Slot(Add(cons_head, j - 1))]
  <2>1. /\ Sub(cons_head, cons_tail) \in Nat /\ Sub(prod_tail, cons_head) \in Nat
        /\ Sub(prod_tail, cons_tail) = Sub(prod_tail, cons_head) + Sub(cons_head, cons_tail)
        /\ Sub(prod_tail, cons_head) < IndexMod /\ Sub(prod_tail, cons_tail) < IndexMod
    BY Zenon, Distances, IndexNat, SubDef
  <2>2. j - 1 \in Index /\ Sub(cons_head, cons_tail) + (j - 1) < IndexMod
        /\ Sub(cons_head, cons_tail) + (j - 1) < Sub(prod_tail, cons_tail)
    BY <2>1, Consts DEF Index
  <2>3. /\ Add(cons_head, j - 1) \in Index
        /\ Sub(Add(cons_head, j - 1), cons_tail) = Sub(cons_head, cons_tail) + (j - 1)
    BY Zenon, <1>7, <2>2, SubAddFar
  <2>4. Sub(Add(cons_head, j - 1), cons_tail) < Sub(here, cons_tail)
    BY <1>1, <1>7, <1>8, <2>1, <2>2, <2>3 DEF Index
  <2> QED
    BY Zenon, <1>9, <2>3, <2>4
<1> QED
  BY Zenon, <1>4, <1>6, <1>10, <1>11

LEMMA CopyInFifo ==
  ASSUME RingInv, Contents, NEW p \in Producers, CopyIn(p)
  PROVE  Contents' /\ UNCHANGED <<Queue, Hand>>
<1>0. /\ p \in Threads /\ p \notin Consumers /\ pc[p] = "copy" /\ TypeOK
      /\ UNCHANGED <<cons_head, prod_tail, old_head, n, obj_table>>
      /\ \A u \in Threads : u # p => pc'[u] = pc[u] /\ copied'[u] = copied[u]
      /\ copied'[p] = copied[p] + 1
      /\ pc'[p] = (IF copied[p] + 1 = n[p] THEN "publish" ELSE "copy")
  BY Zenon, ThreadAssumption DEF CopyIn, CopiedOne, Threads, RingInv, TypeOK, indexes
<1>1. \A t \in Threads : copied[t] \in Nat /\ n[t] \in Nat /\ n[t] < IndexMod
                         /\ old_head[t] \in Index /\ copied[t] \in Index
  BY Zenon, <1>0, IndexNat DEF TypeOK
<1>2. \A t \in Threads : pc[t] \in Claiming => copied[t] <= n[t]
  <2> SUFFICES ASSUME NEW t \in Threads, pc[t] \in Claiming PROVE copied[t] <= n[t]
    OBVIOUS
  <2>1. pc[t] = "copy" => copied[t] < n[t]
    BY Zenon DEF RingInv, Tables
  <2>2. pc[t] = "publish" => copied[t] = n[t]
    BY Zenon DEF Contents, ContentsOf
  <2> QED
    BY <1>1, <2>1, <2>2 DEF Claiming
<1>3. ASSUME NEW u \in Threads, u # p, pc[u] \in Claiming, NEW k \in 0 .. n[u] - 1
      PROVE  ring'[Slot(Add(old_head[u], k))] = ring[Slot(Add(old_head[u], k))]
  BY Zenon, <1>3, CopyInSlots
<1>4. ASSUME NEW u \in Threads, u # p PROVE ContentsOf(u)'
  <2>1. ASSUME u \in Producers, pc[u] \in Claiming, NEW k \in 0 .. copied[u] - 1
        PROVE  ring'[Slot(Add(old_head[u], k))] = obj_table[u][k + 1]
    <3>1. k \in 0 .. n[u] - 1
      BY <1>1, <1>2, <2>1
    <3>2. ring[Slot(Add(old_head[u], k))] = obj_table[u][k + 1]
      BY Zenon, <2>1 DEF Contents, ContentsOf
    <3> QED
      BY Zenon, <1>3, <1>4, <2>1, <3>1, <3>2
  <2>2. ContentsOf(u)
    BY Zenon DEF Contents
  <2> QED
    BY Zenon, <1>0, <1>4, <2>1, <2>2 DEF ContentsOf
<1>5. ContentsOf(p)'
  <2>1. ASSUME NEW k \in 0 .. copied'[p] - 1
        PROVE  ring'[Slot(Add(old_head[p], k))] = obj_table[p][k + 1]
    <3>1. CASE k = copied[p]
      BY Zenon, <3>1, CopyInSlots
    <3>2. CASE k # copied[p]
      <4>1. k \in 0 .. copied[p] - 1
        BY <1>0, <1>1, <2>1, <3>2
      <4>2. ring[Slot(Add(old_head[p], k))] = obj_table[p][k + 1]
        BY Zenon, <1>0, <4>1 DEF Contents, ContentsOf, Claiming
      <4> QED
        BY Zenon, <4>1, <4>2, CopyInSlots
    <3> QED
      BY Zenon, <3>1, <3>2
  <2>2. pc'[p] # "idle" /\ (pc'[p] = "publish" => copied'[p] = n[p])
    BY Zenon, <1>0
  <2> QED
    BY Zenon, <1>0, <2>1, <2>2 DEF ContentsOf
<1>6. Contents'
  BY Zenon, <1>4, <1>5 DEF Contents
<1>7. Queue' = Queue
  BY Zenon, <1>0, CopyInSlots DEF Queue, Entries
<1>8. ASSUME NEW c \in Threads, c # p PROVE InHand(c)' = InHand(c)
  <2>1. CASE c \in Consumers /\ pc[c] \in Claiming
    <3> DEFINE left == n[c] - copied[c]
    <3>1. ASSUME NEW j \in 1 .. left
          PROVE  LET i == Add(Add(old_head[c], copied[c]), j - 1) IN ring'[Slot(i)] = ring[Slot(i)]
      <4>1. /\ j - 1 \in Index /\ copied[c] + (j - 1) < IndexMod
            /\ copied[c] + (j - 1) \in 0 .. n[c] - 1
        BY <1>1, <3>1, Consts DEF Index
      <4>2. Add(Add(old_head[c], copied[c]), j - 1) = Add(old_head[c], copied[c] + (j - 1))
        BY <1>1, <4>1, AddAdd
      <4> QED
        BY Zenon, <1>3, <1>8, <2>1, <4>1, <4>2
    <3>2. [j \in 1 .. left |-> ring'[Slot(Add(Add(old_head[c], copied[c]), j - 1))]]
            = [j \in 1 .. left |-> ring[Slot(Add(Add(old_head[c], copied[c]), j - 1))]]
      BY Zenon, <3>1
    <3> QED
      BY Zenon, <1>0, <1>8, <2>1, <3>2 DEF InHand, Entries
  <2>2. CASE ~ (c \in Consumers /\ pc[c] \in Claiming)
    BY Zenon, <1>0, <1>8, <2>2 DEF InHand
  <2> QED
    BY Zenon, <2>1, <2>2
<1>9. InHand(p)' = InHand(p)
  BY Zenon, <1>0 DEF InHand
<1>10. Hand' = Hand
  BY Zenon, <1>8, <1>9 DEF Hand
<1> QED
  BY Zenon, <1>6, <1>7, <1>10

-----------------------------------------------------------------------------
LEMMA InitFifo == Init => Contents /\ Fifo!Init
<1> SUFFICES ASSUME Init PROVE Contents /\ Fifo!Init
  OBVIOUS
<1>1. /\ \A t \in Threads : pc[t] = "idle" /\ obj_table[t] = <<>>
      /\ cons_head = 0 /\ prod_tail = 0
  BY Zenon DEF Init
<1>2. Contents
  BY Zenon, <1>1 DEF Contents, ContentsOf, Claiming
<1>3. Sub(0, 0) = 0
  BY Zenon, Consts, SubSelf
<1>4. Entries(0, 0) = <<>>
  BY DEF Entries
<1>5. Queue = <<>>
  BY Zenon, <1>1, <1>3, <1>4 DEF Queue
<1>6. Hand = [t \in Threads |-> <<>>]
  BY Zenon, <1>1 DEF Hand, InHand, Claiming
<1> QED
  BY Zenon, <1>2, <1>5, <1>6 DEF Fifo!Init, Fifo!Threads, Threads

LEMMA NextFifo ==
  ASSUME RingInv, Contents, [Next]_vars
  PROVE  Contents' /\ [Fifo!Next]_<<Queue, Hand>>
<1>1. ASSUME NEW p \in Producers, cne_ring_enqueue(p) PROVE Contents' /\ [Fifo!Next]_<<Queue, Hand>>
  <2>1. PICK r \in EnqueueRequests : \E objs \in [1 .. r.max -> Values] : Call(p, r, objs)
    BY Zenon, <1>1 DEF cne_ring_enqueue
  <2>2. PICK objs \in [1 .. r.max -> Values] : Call(p, r, objs)
    BY Zenon, <2>1
  <2>3. r.max \in Nat
    BY Zenon, RequestAssumption
  <2>4. objs \in Seq(Values)
    BY <2>3
  <2> QED
    BY Zenon, <2>2, <2>4, CallFifo, ThreadAssumption DEF Threads
<1>2. ASSUME NEW c \in Consumers, cne_ring_dequeue(c) PROVE Contents' /\ [Fifo!Next]_<<Queue, Hand>>
  <2>1. c \in Threads /\ <<>> \in Seq(Values)
    BY DEF Threads
  <2>2. PICK r \in DequeueRequests : Call(c, r, <<>>)
    BY Zenon, <1>2 DEF cne_ring_dequeue
  <2> QED
    BY Zenon, <2>1, <2>2, CallFifo
<1>3. ASSUME NEW p \in Producers, ProducerStep(p) PROVE Contents' /\ [Fifo!Next]_<<Queue, Hand>>
  <2>1. p \in Threads
    BY Zenon DEF Threads
  <2> QED
    BY Zenon, <1>3, <2>1, LoadHeadFifo, ReserveFifo, MoveProdHeadFifo, CopyInFifo, UpdateProdTailFifo
       DEF ProducerStep, LoadProdHead, LoadConsTail
<1>4. ASSUME NEW c \in Consumers, ConsumerStep(c) PROVE Contents' /\ [Fifo!Next]_<<Queue, Hand>>
  <2>1. c \in Threads
    BY Zenon DEF Threads
  <2> QED
    BY Zenon, <1>4, <2>1, LoadHeadFifo, ReserveFifo, MoveConsHeadFifo, CopyOutFifo, UpdateConsTailFifo
       DEF ConsumerStep, LoadConsHead, LoadProdTail
<1>5. CASE UNCHANGED vars
  <2>1. Contents'
    BY Zenon, <1>5 DEF vars, locals, Contents, ContentsOf
  <2>2. UNCHANGED <<Queue, Hand>>
    BY Zenon, <1>5 DEF vars, indexes, locals, Queue, Hand, InHand, Entries
  <2> QED
    BY Zenon, <2>1, <2>2
<1> QED
  BY Zenon, <1>1, <1>2, <1>3, <1>4, <1>5 DEF Next

(* The ring is a bounded FIFO to its callers, for any number of producers  *)
(* and consumers, any ring size and index width: an enqueue takes effect   *)
(* at the update of prod.tail, a dequeue at the move of cons.head, and the *)
(* objects handed out are those that were put in, in that order.           *)
THEOREM RingRefinesFifo == Spec => RefinesFifo
<1>1. RingInv /\ Contents /\ [Next]_vars => Contents' /\ [Fifo!Next]_<<Queue, Hand>>
  BY Zenon, NextFifo
<1>2. [Fifo!Next]_<<Queue, Hand>> => [Fifo!Next]_(Fifo!vars)
  BY Zenon DEF Fifo!vars
<1> QED
  BY <1>1, <1>2, InitFifo, RingInvariant, PTL DEF Spec, RefinesFifo, Fifo!Spec
===============================================================================
