---------------------------- MODULE MempoolSteps -----------------------------
(***************************************************************************)
(* The inductive invariant of the memory pool, what its steps have in      *)
(* common, and that the steps of a put preserve it.  Conserved alone is    *)
(* not inductive: a call that has claimed entries of the ring hands over   *)
(* its own table, so the invariant says what the table of a call holds at  *)
(* each of its steps (CallOK), how full its cache is (CacheOK), which the  *)
(* flush threshold bounds, and that the entries taken are those in the     *)
(* ring and those claimed, which is why an enqueue always finds room.      *)
(***************************************************************************)
EXTENDS Mempool, FiniteSetTheorems, SequenceTheorems, TLAPS

(* The parts of Conserved: no object twice in a sequence, and no object in *)
(* two places.                                                             *)
NoRepeats ==
  /\ IsInjective(objring)
  /\ \A t \in Threads : IsInjective(Kept(t)) /\ IsInjective(table[t])

Apart ==
  /\ \A t \in Threads :
       /\ Range(Kept(t)) \cap Range(table[t]) = {}
       /\ (Range(Kept(t)) \cup Range(table[t])) \cap held[t] = {}
       /\ Has(t) \cap Range(objring) = {}
  /\ \A t, u \in Threads : t # u => Has(t) \cap Has(u) = {}
  /\ Range(objring) \cup UNION {Has(t) : t \in Threads} = Objects

Out == UNION {held[t] : t \in Threads}

(* A call that has claimed entries of the ring. *)
Claimed(t) == t \in Range(prods) \/ t \in Range(cons)

(* The objects whose entries a producer must leave alone. *)
Taken ==
  {o \in Objects : \/ o \in Range(objring)
                    \/ \E t \in Threads : Claimed(t) /\ o \in Range(table[t])}

(* What a call is about to do, by where it is. *)
CallOK(t) ==
  /\ t \in Range(prods) => pc[t] \in {"put_flush", "put_ring"}
  /\ t \in Range(cons) => pc[t] \in {"get_fill", "get_ring"}
  /\ pc[t] \notin {"put_flush", "put_ring"} /\ t \notin Range(cons) => table[t] = <<>>
  /\ pc[t] = "get_fill" => Len(cache[t]) < want[t] /\ want[t] < cache_sz
  /\ t \in Range(cons) => Len(table[t]) = Requested(t)

(* How full a cache is, before and after a flush. *)
CacheOK(t) ==
  IF pc[t] = "put_flush"
  THEN cache_sz <= Len(cache[t]) /\ Len(cache[t]) <= CacheRoom
  ELSE Len(cache[t]) < FlushThresh \/ Len(cache[t]) <= cache_sz

PoolInv ==
  /\ TypeOK /\ NoRepeats /\ Apart
  /\ IsInjective(prods) /\ IsInjective(cons)
  /\ \A t \in Threads : CallOK(t) /\ CacheOK(t)
  /\ stats = Cardinality(Out)
  /\ used = Cardinality(Taken)

-----------------------------------------------------------------------------
(***************************************************************************)
(* Stacks and bursts: sequences without repetition and their ranges.       *)
(***************************************************************************)
LEMMA RangeIs ==
  ASSUME NEW S, NEW s \in Seq(S)
  PROVE  /\ \A o : o \in Range(s) <=> \E i \in 1 .. Len(s) : s[i] = o
         /\ Range(s) \subseteq S
  BY DEF Range

LEMMA InjectiveIs ==
  ASSUME NEW S, NEW s \in Seq(S)
  PROVE  IsInjective(s) <=> \A i, j \in 1 .. Len(s) : s[i] = s[j] => i = j
  BY DEF IsInjective

LEMMA EmptyRange ==
  /\ Range(<<>>) = {} /\ IsInjective(<<>>) /\ Len(<<>>) = 0 /\ \A S : <<>> \in Seq(S)
  BY DEF Range, IsInjective

(* cache_objs stacked on cache->objs, or a burst behind the ring's entries *)
LEMMA Stacking ==
  ASSUME NEW S, NEW s \in Seq(S), NEW r \in Seq(S),
         IsInjective(s), IsInjective(r), Range(s) \cap Range(r) = {}
  PROVE  /\ s \o r \in Seq(S) /\ Len(s \o r) = Len(s) + Len(r)
         /\ IsInjective(s \o r) /\ Range(s \o r) = Range(s) \cup Range(r)
<1>1. /\ s \o r \in Seq(S) /\ Len(s \o r) = Len(s) + Len(r)
      /\ \A i \in 1 .. Len(s) + Len(r) : (s \o r)[i] = IF i <= Len(s) THEN s[i] ELSE r[i - Len(s)]
  OBVIOUS
<1>2. Range(s \o r) = Range(s) \cup Range(r)
  BY RangeConcatenation
<1>3. IsInjective(s \o r)
  <2> SUFFICES ASSUME NEW i \in 1 .. Len(s) + Len(r), NEW j \in 1 .. Len(s) + Len(r),
                      (s \o r)[i] = (s \o r)[j]
               PROVE  i = j
    BY Zenon, <1>1, InjectiveIs
  <2>1. CASE i <= Len(s) /\ j <= Len(s)
    BY <1>1, <2>1, InjectiveIs
  <2>2. CASE i > Len(s) /\ j > Len(s)
    <3>1. i - Len(s) \in 1 .. Len(r) /\ j - Len(s) \in 1 .. Len(r) /\ r[i - Len(s)] = r[j - Len(s)]
      BY <1>1, <2>2
    <3> QED
      BY <3>1, InjectiveIs
  <2>3. /\ \A m \in 1 .. Len(s) : s[m] \in Range(s)
        /\ \A m \in Len(s) + 1 .. Len(s) + Len(r) : r[m - Len(s)] \in Range(r)
    BY DEF Range
  <2>4. CASE i <= Len(s) /\ j > Len(s)
    BY <1>1, <2>3, <2>4
  <2>5. CASE i > Len(s) /\ j <= Len(s)
    BY <1>1, <2>3, <2>5
  <2> QED
    BY <2>1, <2>2, <2>4, <2>5
<1> QED
  BY Zenon, <1>1, <1>2, <1>3

(* A stack cut in two: what stays and what is taken off, or what a dequeue *)
(* takes and what it leaves.                                               *)
LEMMA Cutting ==
  ASSUME NEW S, NEW s \in Seq(S), IsInjective(s), NEW n \in 0 .. Len(s)
  PROVE  /\ SubSeq(s, 1, n) \in Seq(S) /\ SubSeq(s, n + 1, Len(s)) \in Seq(S)
         /\ Len(SubSeq(s, 1, n)) = n /\ Len(SubSeq(s, n + 1, Len(s))) = Len(s) - n
         /\ IsInjective(SubSeq(s, 1, n)) /\ IsInjective(SubSeq(s, n + 1, Len(s)))
         /\ Range(SubSeq(s, 1, n)) \cup Range(SubSeq(s, n + 1, Len(s))) = Range(s)
         /\ Range(SubSeq(s, 1, n)) \cap Range(SubSeq(s, n + 1, Len(s))) = {}
<1> DEFINE a == SubSeq(s, 1, n)
           b == SubSeq(s, n + 1, Len(s))
<1>1. a \in Seq(S) /\ Len(a) = n /\ \A i \in 1 .. n : a[i] = s[i]
  OBVIOUS
<1>2. b \in Seq(S) /\ Len(b) = Len(s) - n /\ \A i \in 1 .. Len(s) - n : b[i] = s[i + n]
  OBVIOUS
<1> HIDE DEF a, b
<1>0. \A i, j \in 1 .. Len(s) : s[i] = s[j] => i = j
  BY Zenon, InjectiveIs
<1>3. IsInjective(a) /\ IsInjective(b)
  <2>1. \A i, j \in 1 .. Len(a) : a[i] = a[j] => i = j
    BY <1>0, <1>1
  <2>2. \A i, j \in 1 .. Len(b) : i + n \in 1 .. Len(s) /\ (b[i] = b[j] => i + n = j + n)
    BY <1>0, <1>2
  <2>3. \A i, j \in 1 .. Len(b) : b[i] = b[j] => i = j
    BY <1>2, <2>2
  <2> QED
    BY Zenon, <1>1, <1>2, <2>1, <2>3, InjectiveIs
<1>4. \A o : o \in Range(a) <=> \E i \in 1 .. n : s[i] = o
  BY <1>1, RangeIs
<1>5. \A o : o \in Range(b) <=> \E i \in n + 1 .. Len(s) : s[i] = o
  <2>1. \A i \in n + 1 .. Len(s) : i - n \in 1 .. Len(s) - n /\ b[i - n] = s[i]
    BY <1>2
  <2>2. \A i \in 1 .. Len(s) - n : i + n \in n + 1 .. Len(s) /\ b[i] = s[i + n]
    BY <1>2
  <2>3. \A o : o \in Range(b) <=> \E i \in 1 .. Len(s) - n : b[i] = o
    BY <1>2, RangeIs
  <2> QED
    BY <2>1, <2>2, <2>3
<1>6. Range(a) \cup Range(b) = Range(s)
  BY <1>4, <1>5, RangeIs
<1>7. Range(a) \cap Range(b) = {}
  <2> SUFFICES ASSUME NEW o, o \in Range(a), o \in Range(b) PROVE FALSE
    OBVIOUS
  <2> QED
    BY <1>0, <1>4, <1>5
<1> QED
  BY Zenon, <1>1, <1>2, <1>3, <1>6, <1>7 DEF a, b

(* The objects that FromCache hands out. *)
LEMMA LastOnes ==
  ASSUME NEW S, NEW c \in Seq(S), IsInjective(c), NEW k \in 0 .. Len(c)
  PROVE  {c[i] : i \in Len(c) - k + 1 .. Len(c)} = Range(SubSeq(c, (Len(c) - k) + 1, Len(c)))
<1> DEFINE n == Len(c) - k
           b == SubSeq(c, n + 1, Len(c))
<1>1. n \in 0 .. Len(c) /\ b \in Seq(S) /\ Len(b) = Len(c) - n
  BY Cutting
<1>2. \A i \in 1 .. Len(c) - n : b[i] = c[i + n]
  OBVIOUS
<1>3. \A i \in n + 1 .. Len(c) : i - n \in 1 .. Len(c) - n /\ b[i - n] = c[i]
  BY <1>2
<1> HIDE DEF b, n
<1>4. \A o : o \in Range(b) <=> \E i \in 1 .. Len(c) - n : b[i] = o
  BY Zenon, <1>1, RangeIs
<1>5. Range(b) = {c[i] : i \in n + 1 .. Len(c)}
  <2>1. \A i \in 1 .. Len(c) - n : i + n \in n + 1 .. Len(c)
    BY <1>1
  <2> QED
    BY <1>2, <1>3, <1>4, <2>1
<1> QED
  BY Zenon, <1>5 DEF b, n

LEMMA Counting ==
  ASSUME NEW S, NEW s \in Seq(S), IsInjective(s)
  PROVE  IsFiniteSet(Range(s)) /\ Cardinality(Range(s)) = Len(s)
<1>1. s \in Bijection(1 .. Len(s), Range(s))
  <2>1. s \in [1 .. Len(s) -> Range(s)] /\ \A o \in Range(s) : \E i \in 1 .. Len(s) : s[i] = o
    BY DEF Range
  <2> QED
    BY Zenon, <2>1 DEF Bijection, Injection, Surjection
<1>2. IsFiniteSet(1 .. Len(s)) /\ Cardinality(1 .. Len(s)) = Len(s)
  <2>1. 1 \in Int /\ Len(s) \in Nat
    OBVIOUS
  <2>2. /\ IsFiniteSet(1 .. Len(s))
        /\ Cardinality(1 .. Len(s)) = IF 1 > Len(s) THEN 0 ELSE Len(s) - 1 + 1
    <3>1. Len(s) \in Int
      BY <2>1
    <3> QED
      BY Zenon, <2>1, <3>1, FS_Interval
  <2> QED
    BY <2>1, <2>2
<1>3. ExistsBijection(1 .. Len(s), Range(s))
  BY Zenon, <1>1 DEF ExistsBijection
<1> QED
  BY Zenon, <1>2, <1>3, FS_Bijection

(* The order of the claims: a call joins at the end and leaves at the head. *)
LEMMA Joining ==
  ASSUME NEW S, NEW s \in Seq(S), IsInjective(s), NEW x \in S, x \notin Range(s)
  PROVE  /\ Append(s, x) \in Seq(S) /\ IsInjective(Append(s, x))
         /\ Range(Append(s, x)) = Range(s) \cup {x}
<1>1. /\ Append(s, x) \in Seq(S) /\ Len(Append(s, x)) = Len(s) + 1
      /\ \A i \in 1 .. Len(s) : Append(s, x)[i] = s[i]
      /\ Append(s, x)[Len(s) + 1] = x
  OBVIOUS
<1>2. \A o : o \in Range(s) <=> \E i \in 1 .. Len(s) : s[i] = o
  BY Zenon, RangeIs
<1>3. \A i, j \in 1 .. Len(s) : s[i] = s[j] => i = j
  BY Zenon, InjectiveIs
<1> DEFINE r == Append(s, x)
<1> HIDE DEF r
<1>4. IsInjective(r)
  <2>1. \A i, j \in 1 .. Len(r) : r[i] = r[j] => i = j
    BY <1>1, <1>2, <1>3 DEF r
  <2> QED
    BY Zenon, <1>1, <2>1, InjectiveIs DEF r
<1>5. Range(r) = Range(s) \cup {x}
  <2>1. \A o : o \in Range(r) <=> \E i \in 1 .. Len(s) + 1 : r[i] = o
    BY <1>1, RangeIs DEF r
  <2> QED
    BY <1>1, <1>2, <2>1 DEF r
<1> QED
  BY Zenon, <1>1, <1>4, <1>5 DEF r

LEMMA Leaving ==
  ASSUME NEW S, NEW s \in Seq(S), IsInjective(s), s # <<>>
  PROVE  /\ Head(s) \in Range(s) /\ Head(s) \in S
         /\ Tail(s) \in Seq(S) /\ IsInjective(Tail(s))
         /\ Range(Tail(s)) = Range(s) \ {Head(s)}
<1>1. /\ Tail(s) \in Seq(S) /\ Len(Tail(s)) = Len(s) - 1
      /\ \A i \in 1 .. Len(s) - 1 : Tail(s)[i] = s[i + 1]
      /\ Head(s) = s[1] /\ Len(s) >= 1
  OBVIOUS
<1> DEFINE r == Tail(s)
<1> HIDE DEF r
<1>2. IsInjective(r)
  <2>1. \A i, j \in 1 .. Len(s) : s[i] = s[j] => i = j
    BY Zenon, InjectiveIs
  <2>2. \A i, j \in 1 .. Len(r) : i + 1 \in 1 .. Len(s) /\ (r[i] = r[j] => i + 1 = j + 1)
    BY <1>1, <2>1 DEF r
  <2>3. \A i, j \in 1 .. Len(r) : r[i] = r[j] => i = j
    BY <1>1, <2>2 DEF r
  <2> QED
    BY Zenon, <1>1, <2>3, InjectiveIs DEF r
<1>3. \A i \in 2 .. Len(s) : i - 1 \in 1 .. Len(s) - 1 /\ Tail(s)[i - 1] = s[i]
  BY <1>1
<1>4. Range(Tail(s)) = Range(s) \ {Head(s)}
  <2>0. \A o : o \in Range(r) <=> \E i \in 1 .. Len(s) - 1 : r[i] = o
    <3>1. r \in Seq(S) /\ Len(r) = Len(s) - 1
      BY Zenon, <1>1 DEF r
    <3> QED
      BY Zenon, <3>1, RangeIs
  <2>1. \A o : o \in Range(r) <=> \E i \in 2 .. Len(s) : s[i] = o
    <3>1. \A i \in 1 .. Len(s) - 1 : i + 1 \in 2 .. Len(s) /\ r[i] = s[i + 1]
      BY <1>1 DEF r
    <3> QED
      BY <1>3, <2>0, <3>1 DEF r
  <2>2. \A o : o \in Range(s) <=> \E i \in 1 .. Len(s) : s[i] = o
    BY Zenon, RangeIs
  <2>3. \A i \in 2 .. Len(s) : s[i] # s[1]
    <3>1. \A i, j \in 1 .. Len(s) : s[i] = s[j] => i = j
      BY Zenon, InjectiveIs
    <3> QED
      BY <1>1, <3>1
  <2> QED
    BY <1>1, <2>1, <2>2, <2>3 DEF r
<1>5. Head(s) \in Range(s) /\ Head(s) \in S
  BY <1>1 DEF Range
<1> QED
  BY Zenon, <1>1, <1>2, <1>4, <1>5 DEF r

-----------------------------------------------------------------------------
(***************************************************************************)
(* A step of one thread.                                                   *)
(***************************************************************************)
PCs == {"idle", "put_flush", "put_ring", "get_fill", "get_ring"}

(* The other threads keep what they have. *)
Frame(t) ==
  \A u \in Threads : u # t =>
    /\ pc'[u] = pc[u] /\ cache'[u] = cache[u] /\ table'[u] = table[u]
    /\ held'[u] = held[u] /\ want'[u] = want[u]
    /\ (u \in Range(prods') <=> u \in Range(prods))
    /\ (u \in Range(cons') <=> u \in Range(cons))

StepTypes ==
  /\ cache_sz' = cache_sz
  /\ objring' \in Seq(Objects) /\ prods' \in Seq(Threads) /\ cons' \in Seq(Threads)
  /\ cache' \in [Threads -> Seq(Objects)] /\ held' \in [Threads -> SUBSET Objects]
  /\ pc' \in [Threads -> PCs] /\ table' \in [Threads -> Seq(Objects)]
  /\ want' \in [Threads -> Nat]
  /\ IsInjective(prods') /\ IsInjective(cons')

(* The objects of thread t, and of the ring, are moved among themselves. *)
Moves(t) ==
  /\ IsInjective(objring') /\ IsInjective(Kept(t)') /\ IsInjective(table'[t])
  /\ Range(Kept(t)') \cap Range(table'[t]) = {}
  /\ Range(Kept(t)') \cap held'[t] = {}
  /\ Range(table'[t]) \cap held'[t] = {}
  /\ Has(t)' \cap Range(objring') = {}
  /\ Has(t)' \cup Range(objring') = Has(t) \cup Range(objring)

(* The entries taken by the ring and by the call of t. *)
Mine(t) == Range(objring) \cup (IF Claimed(t) THEN Range(table[t]) ELSE {})

LEMMA KeptType ==
  ASSUME TypeOK, NEW t \in Threads, CacheOK(t)
  PROVE  /\ Kept(t) \in Seq(Objects) /\ Range(Kept(t)) \subseteq Objects
         /\ Range(table[t]) \subseteq Objects /\ held[t] \subseteq Objects
         /\ Range(objring) \subseteq Objects /\ cache_sz \in Nat
<1>1. cache_sz \in Nat /\ cache[t] \in Seq(Objects) /\ table[t] \in Seq(Objects) /\ objring \in Seq(Objects)
  BY PoolAssumption DEF TypeOK
<1>2. Kept(t) \in Seq(Objects)
  BY <1>1 DEF Kept, CacheOK
<1> QED
  BY Zenon, <1>1, <1>2, RangeIs DEF TypeOK

LEMMA ApartStep ==
  ASSUME PoolInv, NEW t \in Threads, Frame(t), Moves(t), cache_sz' = cache_sz
  PROVE  Apart' /\ NoRepeats'
<1>1. \A u \in Threads : u # t => Kept(u)' = Kept(u) /\ Has(u)' = Has(u)
  BY Zenon DEF Frame, Kept, Has
<1>2. NoRepeats'
  BY Zenon, <1>1 DEF PoolInv, NoRepeats, Moves, Frame
<1>3. \A u \in Threads :
        /\ Range(Kept(u)') \cap Range(table'[u]) = {}
        /\ (Range(Kept(u)') \cup Range(table'[u])) \cap held'[u] = {}
  BY Zenon, <1>1 DEF PoolInv, Apart, Moves, Frame
<1>4. \A u \in Threads : u # t => Has(u) \cap (Has(t) \cup Range(objring)) = {}
  BY Zenon DEF PoolInv, Apart
<1>5. \A u \in Threads : u # t => Has(u)' \cap (Has(t)' \cup Range(objring')) = {}
  BY Zenon, <1>1, <1>4 DEF Moves
<1>6. \A u \in Threads : Has(u)' \cap Range(objring') = {}
  BY Zenon, <1>5 DEF Moves
<1>7. \A u, w \in Threads : u # w => Has(u)' \cap Has(w)' = {}
  BY Zenon, <1>1, <1>5 DEF PoolInv, Apart
<1>8. Range(objring') \cup UNION {Has(u)' : u \in Threads} = Objects
  <2>1. \A o : o \in Range(objring) \/ (\E u \in Threads : o \in Has(u)) <=> o \in Objects
    BY Zenon DEF PoolInv, Apart
  <2>2. \A o : o \in Range(objring') \/ (\E u \in Threads : o \in Has(u)') <=> o \in Objects
    BY Zenon, <1>1, <2>1 DEF Moves
  <2> QED
    BY Zenon, <2>2
<1> QED
  BY Zenon, <1>2, <1>3, <1>6, <1>7, <1>8 DEF Apart

LEMMA OthersStep ==
  ASSUME PoolInv, NEW t \in Threads, Frame(t), cache_sz' = cache_sz,
         NEW u \in Threads, u # t
  PROVE  CallOK(u)' /\ CacheOK(u)'
<1>1. CallOK(u) /\ CacheOK(u) /\ FlushThresh' = FlushThresh
  BY Zenon DEF PoolInv, FlushThresh
<1>2. CallOK(u)'
  BY Zenon, <1>1 DEF CallOK, Requested, Frame
<1>3. CacheOK(u)'
  BY Zenon, <1>1 DEF CacheOK, Frame, CacheRoom
<1> QED
  BY Zenon, <1>2, <1>3

(* Two parts of the objects that have nothing in common. *)
LEMMA TwoParts ==
  ASSUME NEW A \in SUBSET Objects, NEW B \in SUBSET Objects, A \cap B = {}
  PROVE  /\ IsFiniteSet(A) /\ Cardinality(A) \in Nat /\ Cardinality(B) \in Nat
         /\ Cardinality(A \cup B) = Cardinality(A) + Cardinality(B)
         /\ Cardinality(A \cup B) \in Nat /\ Cardinality(A \cup B) <= ObjCnt
<1>1. IsFiniteSet(A) /\ IsFiniteSet(B) /\ IsFiniteSet(A \cup B) /\ Cardinality(A \cup B) <= ObjCnt
  <2>1. A \cup B \in SUBSET Objects /\ IsFiniteSet(Objects)
    BY Zenon, PoolAssumption
  <2> QED
    BY Zenon, <2>1, FS_Subset DEF ObjCnt
<1>2. Cardinality(A) \in Nat /\ Cardinality(B) \in Nat /\ Cardinality(A \cup B) \in Nat
  BY Zenon, <1>1, FS_CardinalityType
<1>3. Cardinality(A \cup B) = Cardinality(A) + Cardinality(B) - Cardinality(A \cap B)
  BY Zenon, <1>1, FS_Union
<1>4. Cardinality(A \cap B) = 0
  BY Zenon, FS_EmptySet
<1> QED
  BY <1>1, <1>2, <1>3, <1>4

(* The counts follow what t and the ring gain or lose. *)
LEMMA CountsStep ==
  ASSUME PoolInv, Apart', NEW t \in Threads, Frame(t), StepTypes,
         stats' = stats + Cardinality(held'[t]) - Cardinality(held[t]),
         used' = used + Cardinality(Mine(t)') - Cardinality(Mine(t)),
         Mine(t) \subseteq Objects, Mine(t)' \subseteq Objects
  PROVE  /\ stats' = Cardinality(Out') /\ stats' \in 0 .. ObjCnt
         /\ used' = Cardinality(Taken') /\ used' \in Nat
<1> DEFINE outs == UNION {held[u] : u \in Threads \ {t}}
           claims == {o \in Objects : \E u \in Threads \ {t} : Claimed(u) /\ o \in Range(table[u])}
<1>1. outs \in SUBSET Objects /\ held[t] \in SUBSET Objects /\ held'[t] \in SUBSET Objects
  BY Zenon DEF PoolInv, TypeOK, StepTypes
<1>2. Out = held[t] \cup outs /\ Out' = held'[t] \cup outs
  <2>1. outs = UNION {held'[u] : u \in Threads \ {t}}
    BY DEF Frame
  <2> QED
    BY Zenon, <2>1 DEF Out
<1>3. held[t] \cap outs = {} /\ held'[t] \cap outs = {}
  <2>1. \A u \in Threads \ {t} : held[t] \cap held[u] = {}
    BY Zenon DEF PoolInv, Apart, Has
  <2>2. \A u \in Threads \ {t} : held'[t] \cap held'[u] = {} /\ held'[u] = held[u]
    BY Zenon DEF Apart, Has, Frame
  <2> QED
    BY <2>1, <2>2
<1>4. stats' = Cardinality(Out') /\ stats' \in 0 .. ObjCnt
  <2>1. stats = Cardinality(held[t]) + Cardinality(outs) /\ Cardinality(held[t]) \in Nat
    BY Zenon, <1>1, <1>2, <1>3, TwoParts DEF PoolInv
  <2>2. /\ Cardinality(Out') = Cardinality(held'[t]) + Cardinality(outs)
        /\ Cardinality(Out') \in Nat /\ Cardinality(Out') <= ObjCnt
        /\ Cardinality(held'[t]) \in Nat /\ Cardinality(outs) \in Nat
    BY Zenon, <1>1, <1>2, <1>3, TwoParts
  <2>3. ObjCnt \in Nat
    BY Zenon, PoolAssumption, FS_CardinalityType DEF ObjCnt
  <2> QED
    BY <2>1, <2>2, <2>3
<1>5. Taken = Mine(t) \cup claims /\ Taken' = Mine(t)' \cup claims
  <2>1. \A u \in Threads \ {t} : (Claimed(u)' <=> Claimed(u)) /\ Range(table'[u]) = Range(table[u])
    BY Zenon DEF Frame, Claimed
  <2>2. Taken = Mine(t) \cup claims
    BY Zenon DEF Taken, Mine
  <2>3. Taken' = Mine(t)' \cup claims
    BY Zenon, <2>1 DEF Taken, Mine
  <2> QED
    BY Zenon, <2>2, <2>3
<1>6. Mine(t) \cap claims = {} /\ Mine(t)' \cap claims = {}
  <2>1. \A u \in Threads \ {t} :
          Range(table[u]) \cap Range(objring) = {} /\ Range(table[u]) \cap Range(table[t]) = {}
    BY Zenon DEF PoolInv, Apart, Has
  <2>2. \A u \in Threads \ {t} :
          Range(table[u]) \cap Range(objring') = {} /\ Range(table[u]) \cap Range(table'[t]) = {}
    <3>1. \A u \in Threads \ {t} : table'[u] = table[u]
      BY Zenon DEF Frame
    <3> QED
      BY Zenon, <3>1 DEF Apart, Has
  <2> QED
    BY Zenon, <2>1, <2>2 DEF Mine
<1>7. used' = Cardinality(Taken') /\ used' \in Nat
  <2>1. used = Cardinality(Mine(t)) + Cardinality(claims) /\ Cardinality(Mine(t)) \in Nat
    BY Zenon, <1>5, <1>6, TwoParts DEF PoolInv
  <2>2. /\ Cardinality(Taken') = Cardinality(Mine(t)') + Cardinality(claims)
        /\ Cardinality(Taken') \in Nat
        /\ Cardinality(Mine(t)') \in Nat /\ Cardinality(claims) \in Nat
    BY Zenon, <1>5, <1>6, TwoParts
  <2> QED
    BY <2>1, <2>2
<1> QED
  BY Zenon, <1>4, <1>7

LEMMA StepInv ==
  ASSUME PoolInv, NEW t \in Threads, Frame(t), StepTypes, Moves(t), CallOK(t)', CacheOK(t)',
         stats' = stats + Cardinality(held'[t]) - Cardinality(held[t]),
         used' = used + Cardinality(Mine(t)') - Cardinality(Mine(t))
  PROVE  PoolInv'
<1>1. Apart' /\ NoRepeats'
  BY Zenon, ApartStep DEF StepTypes
<1>2. \A u \in Threads : CallOK(u)' /\ CacheOK(u)'
  BY Zenon, OthersStep DEF StepTypes
<1>3. Mine(t) \subseteq Objects /\ Mine(t)' \subseteq Objects
  <2>1. Mine(t) \subseteq Objects
    BY DEF PoolInv, Apart, Has, Mine
  <2>2. Mine(t)' \subseteq Objects
    BY <1>1 DEF Apart, Has, Mine
  <2> QED
    BY Zenon, <2>1, <2>2
<1>4. /\ stats' = Cardinality(Out') /\ stats' \in 0 .. ObjCnt
      /\ used' = Cardinality(Taken') /\ used' \in Nat
  BY Zenon, <1>1, <1>3, CountsStep
<1>5. TypeOK'
  BY Zenon, <1>4 DEF StepTypes, PoolInv, TypeOK, PCs, ObjCnt
<1> QED
  BY Zenon, <1>1, <1>2, <1>4, <1>5 DEF PoolInv, StepTypes

(* The ring has room for every put that has not claimed its entries. *)
LEMMA Room ==
  ASSUME PoolInv, NEW t \in Threads, ~Claimed(t)
  PROVE  used + Len(table[t]) <= RingCapacity
<1>1. Range(table[t]) \in SUBSET Objects /\ Taken \in SUBSET Objects
  BY Zenon, KeptType DEF PoolInv, Taken
<1>2. Taken \cap Range(table[t]) = {}
  BY DEF PoolInv, Apart, Has, Taken
<1>3. Cardinality(Range(table[t])) = Len(table[t])
  <2>1. table[t] \in Seq(Objects) /\ IsInjective(table[t])
    BY Zenon DEF PoolInv, TypeOK, NoRepeats
  <2> QED
    BY Zenon, <2>1, Counting
<1>4. /\ Cardinality(Taken \cup Range(table[t])) = used + Len(table[t])
      /\ Cardinality(Taken \cup Range(table[t])) <= ObjCnt
      /\ Cardinality(Taken \cup Range(table[t])) \in Nat
  BY Zenon, <1>1, <1>2, <1>3, TwoParts DEF PoolInv
<1>5. ObjCnt \in Nat /\ ObjCnt <= RingCapacity /\ RingCapacity \in Int
  BY PoolAssumption, FS_CardinalityType DEF ObjCnt, RingCapacity
<1> QED
  BY <1>4, <1>5

-----------------------------------------------------------------------------
(***************************************************************************)
(* The actions.                                                            *)
(***************************************************************************)
LEMMA NowTypes ==
  ASSUME PoolInv, NEW t \in Threads
  PROVE  /\ cache[t] \in Seq(Objects) /\ table[t] \in Seq(Objects) /\ objring \in Seq(Objects)
         /\ Len(cache[t]) \in Nat /\ Len(table[t]) \in Nat /\ Len(objring) \in Nat
         /\ held[t] \subseteq Objects /\ want[t] \in Nat /\ pc[t] \in PCs
         /\ cache_sz \in Nat /\ CacheMax \in Nat /\ cache_sz <= CacheMax
<1>1. /\ cache[t] \in Seq(Objects) /\ table[t] \in Seq(Objects) /\ objring \in Seq(Objects)
      /\ held[t] \subseteq Objects /\ want[t] \in Nat /\ pc[t] \in PCs
  BY Zenon DEF PoolInv, TypeOK, PCs
<1>2. cache_sz \in Nat /\ CacheMax \in Nat /\ cache_sz <= CacheMax
  BY PoolAssumption DEF PoolInv, TypeOK
<1> QED
  BY <1>1, <1>2

LEMMA NowApart ==
  ASSUME PoolInv, NEW t \in Threads
  PROVE  /\ IsInjective(Kept(t)) /\ IsInjective(table[t]) /\ IsInjective(objring)
         /\ Range(Kept(t)) \cap Range(table[t]) = {} /\ Range(Kept(t)) \cap held[t] = {}
         /\ Range(table[t]) \cap held[t] = {} /\ Range(Kept(t)) \cap Range(objring) = {}
         /\ Range(table[t]) \cap Range(objring) = {} /\ held[t] \cap Range(objring) = {}
<1>1. IsInjective(Kept(t)) /\ IsInjective(table[t]) /\ IsInjective(objring)
  BY Zenon DEF PoolInv, NoRepeats
<1>2. /\ Range(Kept(t)) \cap Range(table[t]) = {} /\ Range(Kept(t)) \cap held[t] = {}
      /\ Range(table[t]) \cap held[t] = {} /\ Range(Kept(t)) \cap Range(objring) = {}
      /\ Range(table[t]) \cap Range(objring) = {} /\ held[t] \cap Range(objring) = {}
  BY Zenon DEF PoolInv, Apart, Has
<1> QED
  BY Zenon, <1>1, <1>2

LEMMA NowCall ==
  ASSUME PoolInv, NEW t \in Threads
  PROVE  CallOK(t) /\ CacheOK(t) /\ (pc[t] # "put_flush" => Kept(t) = cache[t])
  BY Zenon DEF PoolInv, Kept

LEMMA Threshold ==
  ASSUME cache_sz \in Nat
  PROVE  FlushThresh \in Nat /\ cache_sz <= FlushThresh /\ 2 * FlushThresh <= 3 * cache_sz
  BY DEF FlushThresh

(* Nothing leaves or enters a thread's hands or the entries of the ring. *)
LEMMA SameCounts ==
  ASSUME PoolInv, NEW t \in Threads, Mine(t)' = Mine(t), held'[t] = held[t],
         UNCHANGED <<stats, used>>
  PROVE  /\ stats' = stats + Cardinality(held'[t]) - Cardinality(held[t])
         /\ used' = used + Cardinality(Mine(t)') - Cardinality(Mine(t))
<1>1. Mine(t) \in SUBSET Objects /\ held[t] \in SUBSET Objects /\ {} \in SUBSET Objects
  BY Zenon, KeptType DEF Mine, PoolInv
<1>2. Cardinality(held[t]) \in Nat /\ Cardinality(Mine(t)) \in Nat
  BY Zenon, <1>1, TwoParts
<1>3. stats \in Int /\ used \in Int
  BY PoolAssumption, FS_CardinalityType DEF PoolInv, TypeOK, ObjCnt
<1> QED
  BY <1>2, <1>3

(* mempool_put, up to a flush. *)
LEMMA PutInv ==
  ASSUME PoolInv, NEW t \in Threads, mempool_put(t)
  PROVE  PoolInv'
<1> USE DEF PCs
<1>0. PICK k \in Counts, cached \in {cache_sz > 0, FALSE} : \E objs \in [1 .. k -> held[t]] :
        /\ IsInjective(objs)
        /\ held' = [held EXCEPT ![t] = @ \ Range(objs)]
        /\ stats' = stats - k
        /\ __mempool_generic_put(t, objs, cached)
  BY Zenon DEF mempool_put
<1>1. PICK objs \in [1 .. k -> held[t]] :
        /\ IsInjective(objs)
        /\ held' = [held EXCEPT ![t] = @ \ Range(objs)]
        /\ stats' = stats - k
        /\ __mempool_generic_put(t, objs, cached)
  BY Zenon, <1>0
<1>2. pc[t] = "idle" /\ UNCHANGED <<cache_sz, objring, prods, cons, used, want>>
  BY Zenon DEF mempool_put
<1>3. k \in Nat /\ objs \in Seq(Objects) /\ Len(objs) = k /\ Range(objs) \subseteq held[t]
  <2>1. k \in Nat /\ held[t] \subseteq Objects
    BY Zenon, PoolAssumption DEF PoolInv, TypeOK
  <2> QED
    BY <2>1 DEF Range
<1>4. ~Claimed(t) /\ table[t] = <<>> /\ Kept(t) = cache[t]
  BY Zenon, <1>2, NowCall DEF CallOK, Claimed
<1>5. /\ held' \in [Threads -> SUBSET Objects] /\ held'[t] = held[t] \ Range(objs)
      /\ \A u \in Threads : u # t => held'[u] = held[u]
  BY Zenon, <1>1 DEF PoolInv, TypeOK
<1>6. stats' = stats + Cardinality(held'[t]) - Cardinality(held[t])
  <2>1. held'[t] \in SUBSET Objects /\ Range(objs) \in SUBSET Objects
    BY Zenon, <1>3, <1>5, NowTypes
  <2>2. held'[t] \cap Range(objs) = {} /\ held'[t] \cup Range(objs) = held[t]
    BY Zenon, <1>3, <1>5
  <2>3. /\ Cardinality(held[t]) = Cardinality(held'[t]) + Cardinality(Range(objs))
        /\ Cardinality(held'[t]) \in Nat
    BY Zenon, <2>1, <2>2, TwoParts
  <2>4. Cardinality(Range(objs)) = k
    BY Zenon, <1>1, <1>3, Counting
  <2>5. stats \in Int
    BY PoolAssumption, FS_CardinalityType DEF PoolInv, TypeOK, ObjCnt
  <2> QED
    BY <1>1, <1>3, <2>3, <2>4, <2>5
<1>7. used' = used + Cardinality(Mine(t)') - Cardinality(Mine(t))
  <2>1. Mine(t) = Range(objring) /\ Mine(t)' = Range(objring)
    BY Zenon, <1>2, <1>4 DEF Mine, Claimed
  <2>2. Range(objring) \in SUBSET Objects /\ {} \in SUBSET Objects
    BY Zenon, KeptType DEF PoolInv
  <2>3. Cardinality(Range(objring)) \in Nat
    BY Zenon, <2>2, TwoParts
  <2>4. used \in Nat
    BY Zenon DEF PoolInv, TypeOK
  <2> QED
    BY <1>2, <2>1, <2>3, <2>4
<1>8. CASE cached /\ Len(objs) <= CacheMax
  <2> DEFINE c == cache[t] \o objs
  <2>1. /\ cache' = [cache EXCEPT ![t] = c]
        /\ IF Len(c) >= FlushThresh
           THEN /\ pc' = [pc EXCEPT ![t] = "put_flush"]
                /\ table' = [table EXCEPT ![t] = SubSeq(c, cache_sz + 1, Len(c))]
           ELSE UNCHANGED <<pc, table>>
    BY Zenon, <1>1, <1>8 DEF __mempool_generic_put, Stacked
  <2>2. /\ c \in Seq(Objects) /\ Len(c) = Len(cache[t]) + Len(objs) /\ IsInjective(c)
        /\ Range(c) = Range(cache[t]) \cup Range(objs)
    <3>1. IsInjective(cache[t]) /\ cache[t] \in Seq(Objects) /\ Range(cache[t]) \cap Range(objs) = {}
      BY Zenon, <1>3, <1>4, NowTypes, NowApart
    <3> QED
      BY <1>1, <1>3, <3>1, Stacking
  <2>3. /\ FlushThresh \in Nat /\ cache_sz <= FlushThresh /\ 2 * FlushThresh <= 3 * cache_sz
        /\ cache_sz \in Nat /\ CacheMax \in Nat /\ cache_sz <= CacheMax
    BY Zenon, NowTypes, Threshold
  <2>4. Len(c) <= CacheRoom
    <3>1. Len(cache[t]) < FlushThresh \/ Len(cache[t]) <= cache_sz
      BY Zenon, <1>2, NowCall DEF CacheOK
    <3>2. Len(cache[t]) \in Nat /\ Len(objs) \in Nat
      BY Zenon, <1>3, NowTypes
    <3> QED
      BY <1>8, <2>2, <2>3, <3>1, <3>2 DEF CacheRoom
  <2>5. /\ cache' \in [Threads -> Seq(Objects)] /\ cache'[t] = c
        /\ \A u \in Threads : u # t => cache'[u] = cache[u]
    BY Zenon, <2>1, <2>2 DEF PoolInv, TypeOK
  <2> HIDE DEF c
  <2>6. CASE Len(c) >= FlushThresh
    <3>1. pc' \in [Threads -> PCs] /\ \A u \in Threads : pc'[u] = IF u = t THEN "put_flush" ELSE pc[u]
      BY Zenon, <2>1, <2>6 DEF PoolInv, TypeOK
    <3>2. cache_sz \in 0 .. Len(c)
      BY <2>2, <2>3, <2>6
    <3>3. /\ table' = [table EXCEPT ![t] = SubSeq(c, cache_sz + 1, Len(c))]
          /\ SubSeq(c, cache_sz + 1, Len(c)) \in Seq(Objects)
      BY Zenon, <2>1, <2>2, <2>6, <3>2, Cutting
    <3>4. /\ table' \in [Threads -> Seq(Objects)] /\ table'[t] = SubSeq(c, cache_sz + 1, Len(c))
          /\ \A u \in Threads : u # t => table'[u] = table[u]
      BY Zenon, <3>3 DEF PoolInv, TypeOK
    <3>5. Kept(t)' = SubSeq(c, 1, cache_sz)
      BY Zenon, <1>2, <2>5, <3>1 DEF Kept
    <3>6. /\ IsInjective(Kept(t)') /\ IsInjective(table'[t])
          /\ Range(Kept(t)') \cup Range(table'[t]) = Range(c)
          /\ Range(Kept(t)') \cap Range(table'[t]) = {}
      <4>1. /\ IsInjective(SubSeq(c, 1, cache_sz)) /\ IsInjective(SubSeq(c, cache_sz + 1, Len(c)))
            /\ Range(SubSeq(c, 1, cache_sz)) \cup Range(SubSeq(c, cache_sz + 1, Len(c))) = Range(c)
            /\ Range(SubSeq(c, 1, cache_sz)) \cap Range(SubSeq(c, cache_sz + 1, Len(c))) = {}
        BY Zenon, <2>2, <3>2, Cutting
      <4> QED
        BY <3>4, <3>5, <4>1, Zenon
    <3>7. Moves(t)
      BY Zenon, <1>2, <1>3, <1>4, <1>5, <2>2, <3>6, NowApart, EmptyRange DEF Moves, Has
    <3>8. StepTypes /\ Frame(t)
      BY Zenon, <1>2, <1>5, <2>5, <3>1, <3>4 DEF StepTypes, Frame, PoolInv, TypeOK
    <3>9. CallOK(t)'
      BY Zenon, <1>2, <1>4, <3>1 DEF CallOK, Claimed
    <3>10. CacheOK(t)'
      BY <1>2, <2>4, <2>5, <3>1, <3>2 DEF CacheOK, CacheRoom
    <3> QED
      BY Zenon, <1>6, <1>7, <3>7, <3>8, <3>9, <3>10, StepInv
  <2>7. CASE ~(Len(c) >= FlushThresh)
    <3>1. UNCHANGED <<pc, table>>
      BY Zenon, <2>1, <2>7
    <3>2. Kept(t)' = c
      BY Zenon, <1>2, <2>5, <3>1 DEF Kept
    <3>3. Moves(t)
      BY Zenon, <1>2, <1>3, <1>4, <1>5, <2>2, <3>1, <3>2, NowApart, EmptyRange DEF Moves, Has
    <3>4. StepTypes /\ Frame(t)
      BY Zenon, <1>2, <1>5, <2>5, <3>1 DEF StepTypes, Frame, PoolInv, TypeOK
    <3>5. CallOK(t)'
      BY Zenon, <1>2, <1>4, <3>1 DEF CallOK, Claimed
    <3>6. CacheOK(t)'
      BY <1>2, <2>2, <2>3, <2>5, <2>7, <3>1 DEF CacheOK, FlushThresh
    <3> QED
      BY Zenon, <1>6, <1>7, <3>3, <3>4, <3>5, <3>6, StepInv
  <2> QED
    BY Zenon, <2>6, <2>7
<1>9. CASE ~(cached /\ Len(objs) <= CacheMax)
  <2>1. /\ pc' = [pc EXCEPT ![t] = "put_ring"] /\ table' = [table EXCEPT ![t] = objs] /\ cache' = cache
    BY Zenon, <1>1, <1>9 DEF __mempool_generic_put
  <2>2. /\ pc' \in [Threads -> PCs] /\ \A u \in Threads : pc'[u] = IF u = t THEN "put_ring" ELSE pc[u]
    BY Zenon, <2>1 DEF PoolInv, TypeOK
  <2>3. /\ table' \in [Threads -> Seq(Objects)] /\ table'[t] = objs
        /\ \A u \in Threads : u # t => table'[u] = table[u]
    BY Zenon, <1>3, <2>1 DEF PoolInv, TypeOK
  <2>4. Kept(t)' = cache[t]
    BY Zenon, <2>1, <2>2 DEF Kept
  <2>5. Moves(t)
    BY <1>1, <1>2, <1>3, <1>4, <1>5, <2>3, <2>4, NowApart, EmptyRange DEF Moves, Has
  <2>6. StepTypes /\ Frame(t)
    BY Zenon, <1>2, <1>5, <2>1, <2>2, <2>3 DEF StepTypes, Frame, PoolInv, TypeOK
  <2>7. CallOK(t)'
    BY Zenon, <1>2, <1>4, <2>2 DEF CallOK, Claimed
  <2>8. CacheOK(t)'
    BY Zenon, <1>2, <2>1, <2>2, NowCall DEF CacheOK, FlushThresh
  <2> QED
    BY Zenon, <1>6, <1>7, <2>5, <2>6, <2>7, <2>8, StepInv
<1> QED
  BY Zenon, <1>8, <1>9

(* The end of a put, its objects being in the ring. *)
LEMMA PutDoneTypes ==
  ASSUME PoolInv, NEW t \in Threads, PutDone(t), pc[t] \in {"put_flush", "put_ring"},
         cache_sz' = cache_sz
  PROVE  /\ pc' \in [Threads -> PCs] /\ \A u \in Threads : pc'[u] = IF u = t THEN "idle" ELSE pc[u]
         /\ table' \in [Threads -> Seq(Objects)]
         /\ \A u \in Threads : table'[u] = IF u = t THEN <<>> ELSE table[u]
         /\ want' \in [Threads -> Nat] /\ \A u \in Threads : u # t => want'[u] = want[u]
         /\ cache' \in [Threads -> Seq(Objects)] /\ cache'[t] = Kept(t)
         /\ \A u \in Threads : u # t => cache'[u] = cache[u]
         /\ Kept(t)' = Kept(t) /\ Len(cache'[t]) = Len(Kept(t)) /\ CacheOK(t)'
         /\ UNCHANGED <<held, stats>>
<1>1. /\ pc' \in [Threads -> PCs] /\ \A u \in Threads : pc'[u] = IF u = t THEN "idle" ELSE pc[u]
  BY Zenon DEF PutDone, Return, PoolInv, TypeOK, PCs
<1>2. /\ table' \in [Threads -> Seq(Objects)]
      /\ \A u \in Threads : table'[u] = IF u = t THEN <<>> ELSE table[u]
  <2>1. <<>> \in Seq(Objects) /\ table \in [Threads -> Seq(Objects)] /\ table' = [table EXCEPT ![t] = <<>>]
    BY Zenon, EmptyRange DEF PutDone, Return, PoolInv, TypeOK
  <2> QED
    BY Zenon, <2>1
<1>3. want' \in [Threads -> Nat] /\ \A u \in Threads : u # t => want'[u] = want[u]
  BY Zenon DEF PutDone, Return, PoolInv, TypeOK
<1>4. Kept(t) \in Seq(Objects) /\ cache \in [Threads -> Seq(Objects)]
  BY Zenon, KeptType DEF PoolInv, TypeOK
<1>5. /\ cache' \in [Threads -> Seq(Objects)] /\ cache'[t] = Kept(t)
      /\ \A u \in Threads : u # t => cache'[u] = cache[u]
  BY Zenon, <1>4 DEF PutDone, Kept
<1>6. Kept(t)' = cache'[t]
  BY Zenon, <1>1 DEF Kept
<1>7. CacheOK(t)'
  <2>1. CASE pc[t] = "put_flush"
    <3>0. /\ cache_sz \in 0 .. CacheMax /\ CacheMax \in Nat
          /\ cache[t] \in Seq(Objects) /\ cache_sz <= Len(cache[t])
      BY Zenon, <1>4, <2>1, PoolAssumption, NowCall DEF CacheOK, PoolInv, TypeOK
    <3>1. cache_sz \in 0 .. Len(cache[t]) /\ cache[t] \in Seq(Objects)
      BY <3>0
    <3>2. Len(Kept(t)) = cache_sz
      BY <2>1, <3>1 DEF Kept
    <3> QED
      BY <1>1, <1>5, <3>1, <3>2 DEF CacheOK
  <2>2. CASE pc[t] = "put_ring"
    BY Zenon, <1>1, <1>5, <2>2, NowCall DEF CacheOK, Kept, FlushThresh
  <2> QED
    BY Zenon, <2>1, <2>2
<1> QED
  BY Zenon, <1>1, <1>2, <1>3, <1>5, <1>6, <1>7 DEF PutDone

(* The claim of a put: its return value is never looked at, and need not   *)
(* be.                                                                     *)
LEMMA EnqueueInv ==
  ASSUME PoolInv, NEW t \in Threads, mempool_ring_enqueue(t)
  PROVE  PoolInv'
<1>1. /\ pc[t] \in {"put_flush", "put_ring"} /\ t \notin Range(prods)
      /\ UNCHANGED <<cache_sz, objring, cons>>
  BY Zenon DEF mempool_ring_enqueue
<1>2. ~Claimed(t) /\ t \notin Range(cons)
  BY Zenon, <1>1, NowCall DEF CallOK, Claimed
<1>3. used + Len(table[t]) <= RingCapacity /\ used \in Nat /\ Len(table[t]) \in Nat /\ RingCapacity \in Int
  BY <1>2, Room, NowTypes, PoolAssumption DEF PoolInv, TypeOK, RingCapacity
<1>4. CASE table[t] = <<>>
  <2>1. PutDone(t) /\ UNCHANGED <<prods, used>>
    BY Zenon, <1>4 DEF mempool_ring_enqueue
  <2>2. Moves(t)
    BY Zenon, <1>1, <1>4, <2>1, PutDoneTypes, NowApart, EmptyRange DEF Moves, Has
  <2>3. StepTypes /\ Frame(t)
    BY <1>1, <2>1, PutDoneTypes DEF StepTypes, Frame, PoolInv, TypeOK
  <2>4. CallOK(t)'
    BY Zenon, <1>1, <1>2, <2>1, PutDoneTypes DEF CallOK, Claimed
  <2>5. Mine(t)' = Mine(t) /\ UNCHANGED <<held, stats>>
    BY Zenon, <1>1, <1>2, <2>1 DEF Mine, Claimed, PutDone
  <2> QED
    BY Zenon, <1>1, <2>1, <2>2, <2>3, <2>4, <2>5, PutDoneTypes, SameCounts, StepInv
<1>5. CASE table[t] # <<>>
  <2>1. /\ prods' = Append(prods, t) /\ used' = used + Len(table[t])
        /\ UNCHANGED <<cache, held, stats, pc, table, want>>
    BY <1>3, <1>5 DEF mempool_ring_enqueue
  <2>2. prods' \in Seq(Threads) /\ IsInjective(prods') /\ Range(prods') = Range(prods) \cup {t}
    <3>1. prods \in Seq(Threads) /\ IsInjective(prods)
      BY Zenon DEF PoolInv, TypeOK
    <3> QED
      BY <1>1, <2>1, <3>1, Joining
  <2>3. Moves(t)
    <3>1. Kept(t)' = Kept(t) /\ Has(t)' = Has(t)
      BY Zenon, <1>1, <2>1 DEF Kept, Has
    <3> QED
      BY Zenon, <1>1, <2>1, <3>1, NowApart DEF Moves, Has
  <2>4. StepTypes /\ Frame(t)
    BY Zenon, <1>1, <2>1, <2>2 DEF StepTypes, Frame, PoolInv, TypeOK, PCs
  <2>5. CallOK(t)' /\ CacheOK(t)'
    <3>1. CallOK(t) /\ CacheOK(t)
      BY Zenon, NowCall
    <3>2. CallOK(t)'
      BY Zenon, <1>1, <1>2, <2>1, <2>2, <3>1 DEF CallOK
    <3>3. CacheOK(t)'
      BY Zenon, <1>1, <2>1, <3>1 DEF CacheOK, FlushThresh, CacheRoom
    <3> QED
      BY Zenon, <3>2, <3>3
  <2>6. /\ used' = used + Cardinality(Mine(t)') - Cardinality(Mine(t))
        /\ stats' = stats + Cardinality(held'[t]) - Cardinality(held[t])
    <3>1. Mine(t) = Range(objring) /\ Mine(t)' = Range(objring) \cup Range(table[t])
      BY Zenon, <1>1, <1>2, <2>1, <2>2 DEF Mine, Claimed
    <3>2. /\ Range(objring) \in SUBSET Objects /\ Range(table[t]) \in SUBSET Objects
          /\ held[t] \in SUBSET Objects /\ {} \in SUBSET Objects
      BY Zenon, KeptType DEF PoolInv
    <3>3. Range(objring) \cap Range(table[t]) = {} /\ Cardinality(Range(table[t])) = Len(table[t])
      BY Zenon, NowTypes, NowApart, Counting
    <3>4. /\ Cardinality(Range(objring)) \in Nat
          /\ Cardinality(Mine(t)') = Cardinality(Range(objring)) + Len(table[t])
      <4>1. /\ Cardinality(Range(objring)) \in Nat
            /\ Cardinality(Range(objring) \cup Range(table[t]))
                 = Cardinality(Range(objring)) + Cardinality(Range(table[t]))
        BY Zenon, <3>2, <3>3, TwoParts
      <4> QED
        BY Zenon, <3>1, <3>3, <4>1
    <3>5. Cardinality(held[t]) \in Nat
      BY Zenon, <3>2, TwoParts
    <3>6. stats \in Int
      BY PoolAssumption, FS_CardinalityType DEF PoolInv, TypeOK, ObjCnt
    <3> QED
      BY <1>3, <2>1, <3>1, <3>4, <3>5, <3>6
  <2> QED
    BY Zenon, <2>3, <2>4, <2>5, <2>6, StepInv
<1> QED
  BY Zenon, <1>4, <1>5

(* The objects of a put are published. *)
LEMMA EnqueueDoneInv ==
  ASSUME PoolInv, NEW t \in Threads, EnqueueDone(t)
  PROVE  PoolInv'
<1>1. /\ prods # <<>> /\ Head(prods) = t /\ prods' = Tail(prods) /\ objring' = objring \o table[t]
      /\ PutDone(t) /\ UNCHANGED <<cache_sz, cons, used>>
  BY Zenon DEF EnqueueDone
<1>2. /\ prods' \in Seq(Threads) /\ IsInjective(prods') /\ Range(prods') = Range(prods) \ {t}
      /\ t \in Range(prods)
  <2>1. prods \in Seq(Threads) /\ IsInjective(prods)
    BY Zenon DEF PoolInv, TypeOK
  <2> QED
    BY Zenon, <1>1, <2>1, Leaving
<1>3. pc[t] \in {"put_flush", "put_ring"} /\ t \notin Range(cons) /\ Claimed(t)
  BY Zenon, <1>2, NowCall DEF CallOK, Claimed
<1>4. /\ objring' \in Seq(Objects) /\ IsInjective(objring')
      /\ Range(objring') = Range(objring) \cup Range(table[t])
  <2>1. /\ objring \in Seq(Objects) /\ table[t] \in Seq(Objects) /\ IsInjective(objring)
        /\ IsInjective(table[t]) /\ Range(objring) \cap Range(table[t]) = {}
    BY Zenon, NowTypes, NowApart
  <2> QED
    BY <1>1, <2>1, Stacking
<1>5. Moves(t)
  <2>1. /\ Kept(t)' = Kept(t) /\ table'[t] = <<>> /\ held' = held
    BY Zenon, <1>1, <1>3, PutDoneTypes
  <2> QED
    BY Zenon, <1>4, <2>1, NowApart, EmptyRange DEF Moves, Has
<1>6. StepTypes /\ Frame(t)
  <2>1. /\ pc' \in [Threads -> PCs] /\ table' \in [Threads -> Seq(Objects)]
        /\ want' \in [Threads -> Nat] /\ cache' \in [Threads -> Seq(Objects)] /\ held' = held
        /\ \A u \in Threads : u # t => /\ pc'[u] = pc[u] /\ table'[u] = table[u]
                                       /\ want'[u] = want[u] /\ cache'[u] = cache[u]
    BY Zenon, <1>1, <1>3, PutDoneTypes
  <2>2. StepTypes
    BY Zenon, <1>1, <1>2, <1>4, <2>1 DEF StepTypes, PoolInv, TypeOK
  <2>3. Frame(t)
    BY Zenon, <1>1, <1>2, <2>1 DEF Frame
  <2> QED
    BY Zenon, <2>2, <2>3
<1>7. CallOK(t)'
  BY Zenon, <1>1, <1>2, <1>3, PutDoneTypes DEF CallOK
<1>8. Mine(t)' = Mine(t)
  <2>1. ~Claimed(t)'
    BY Zenon, <1>1, <1>2, <1>3 DEF Claimed
  <2> QED
    BY Zenon, <1>3, <1>4, <2>1 DEF Mine
<1>9. CacheOK(t)' /\ UNCHANGED <<held, stats, used>>
  BY Zenon, <1>1, <1>3, PutDoneTypes
<1> QED
  BY Zenon, <1>5, <1>6, <1>7, <1>8, <1>9, SameCounts, StepInv

==============================================================================
