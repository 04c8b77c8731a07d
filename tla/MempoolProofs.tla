---------------------------- MODULE MempoolProofs ----------------------------
(***************************************************************************)
(* Proofs about the memory pool: the rest of its steps preserve the        *)
(* inductive invariant, and the theorems, for every number of threads and  *)
(* objects and every size of the ring and of the caches.                   *)
(***************************************************************************)
EXTENDS MempoolSteps

(* The last k objects of a stack are handed out. *)
LEMMA HandedOut ==
  ASSUME PoolInv, NEW t \in Threads, NEW c \in Seq(Objects), IsInjective(c),
         NEW k \in 0 .. Len(c), FromCache(t, c, k),
         Range(c) \cap held[t] = {}
  PROVE  /\ held' \in [Threads -> SUBSET Objects] /\ cache' \in [Threads -> Seq(Objects)]
         /\ \A u \in Threads : u # t => held'[u] = held[u] /\ cache'[u] = cache[u]
         /\ Len(cache'[t]) = Len(c) - k /\ IsInjective(cache'[t])
         /\ Range(cache'[t]) \cap held'[t] = {}
         /\ Range(cache'[t]) \cup held'[t] = Range(c) \cup held[t]
         /\ stats' = stats + Cardinality(held'[t]) - Cardinality(held[t])
<1> DEFINE n == Len(c) - k
           out == SubSeq(c, n + 1, Len(c))
           stay == SubSeq(c, 1, n)
<1>1. n \in 0 .. Len(c)
  OBVIOUS
<1>2. /\ stay \in Seq(Objects) /\ out \in Seq(Objects) /\ Len(stay) = n /\ Len(out) = Len(c) - n
      /\ IsInjective(stay) /\ IsInjective(out)
      /\ Range(stay) \cup Range(out) = Range(c) /\ Range(stay) \cap Range(out) = {}
  BY <1>1, Cutting
<1>3. /\ held' = [held EXCEPT ![t] = @ \cup Range(out)] /\ cache' = [cache EXCEPT ![t] = stay]
      /\ stats' = stats + k
  <2>1. {c[i] : i \in Len(c) - k + 1 .. Len(c)} = Range(out)
    BY Zenon, LastOnes
  <2> QED
    BY Zenon, <2>1 DEF FromCache
<1>4. Range(out) \subseteq Objects /\ Range(stay) \subseteq Objects
  BY Zenon, <1>2, RangeIs
<1> HIDE DEF out, stay
<1>5. /\ held' \in [Threads -> SUBSET Objects] /\ cache' \in [Threads -> Seq(Objects)]
      /\ \A u \in Threads : u # t => held'[u] = held[u] /\ cache'[u] = cache[u]
      /\ held'[t] = held[t] \cup Range(out) /\ cache'[t] = stay
  BY Zenon, <1>2, <1>3, <1>4 DEF PoolInv, TypeOK
<1>6. stats' = stats + Cardinality(held'[t]) - Cardinality(held[t])
  <2>1. held[t] \in SUBSET Objects /\ Range(out) \in SUBSET Objects /\ held[t] \cap Range(out) = {}
    BY Zenon, <1>2, <1>4, NowTypes, NowApart
  <2>2. Cardinality(Range(out)) = Len(c) - n
    BY Zenon, <1>2, Counting
  <2>3. /\ Cardinality(held'[t]) = Cardinality(held[t]) + (Len(c) - n)
        /\ Cardinality(held[t]) \in Nat
    BY Zenon, <1>5, <2>1, <2>2, TwoParts
  <2>4. stats \in Int
    BY PoolAssumption, FS_CardinalityType DEF PoolInv, TypeOK, ObjCnt
  <2> QED
    BY <1>1, <1>3, <2>3, <2>4
<1> QED
  BY Zenon, <1>2, <1>5, <1>6

(* mempool_get from the cache, or up to the ring. *)
LEMMA GetInv ==
  ASSUME PoolInv, NEW t \in Threads, mempool_get(t)
  PROVE  PoolInv'
<1>1. PICK k \in Counts, cached \in {cache_sz > 0, FALSE} : __mempool_generic_get(t, k, cached)
  BY Zenon DEF mempool_get
<1>2. pc[t] = "idle" /\ UNCHANGED <<cache_sz, objring, prods, cons, used, table>> /\ k \in Nat
  BY Zenon, PoolAssumption DEF mempool_get
<1>3. ~Claimed(t) /\ t \notin Range(cons) /\ t \notin Range(prods) /\ table[t] = <<>> /\ Kept(t) = cache[t]
  BY Zenon, <1>2, NowCall DEF CallOK, Claimed
<1>4. Mine(t)' = Mine(t)
  BY Zenon, <1>2, <1>3 DEF Mine, Claimed
<1>5. CASE cached /\ k < cache_sz /\ k <= Len(cache[t])
  <2>1. FromCache(t, cache[t], k) /\ UNCHANGED <<pc, want>>
    BY Zenon, <1>1, <1>5 DEF __mempool_generic_get
  <2>2. /\ cache[t] \in Seq(Objects) /\ IsInjective(cache[t]) /\ k \in 0 .. Len(cache[t])
        /\ Range(cache[t]) \cap held[t] = {}
    BY <1>2, <1>3, <1>5, NowTypes, NowApart
  <2>3. /\ held' \in [Threads -> SUBSET Objects] /\ cache' \in [Threads -> Seq(Objects)]
        /\ \A u \in Threads : u # t => held'[u] = held[u] /\ cache'[u] = cache[u]
        /\ Len(cache'[t]) = Len(cache[t]) - k /\ IsInjective(cache'[t])
        /\ Range(cache'[t]) \cap held'[t] = {}
        /\ Range(cache'[t]) \cup held'[t] = Range(cache[t]) \cup held[t]
        /\ stats' = stats + Cardinality(held'[t]) - Cardinality(held[t])
    BY Zenon, <2>1, <2>2, HandedOut
  <2>4. Kept(t)' = cache'[t]
    BY Zenon, <1>2, <2>1 DEF Kept
  <2>5. Moves(t)
    BY Zenon, <1>2, <1>3, <2>3, <2>4, NowApart, EmptyRange DEF Moves, Has
  <2>6. StepTypes /\ Frame(t)
    BY Zenon, <1>2, <2>1, <2>3 DEF StepTypes, Frame, PoolInv, TypeOK, PCs
  <2>7. CallOK(t)'
    BY Zenon, <1>2, <1>3, <2>1 DEF CallOK
  <2>8. CacheOK(t)'
    <3>1. Len(cache'[t]) \in Nat /\ Len(cache[t]) \in Nat /\ cache_sz \in Nat /\ FlushThresh \in Nat
      BY <2>2, <2>3, NowTypes, Threshold
    <3>2. (Len(cache[t]) < FlushThresh \/ Len(cache[t]) <= cache_sz) /\ pc'[t] # "put_flush"
      BY Zenon, <1>2, <2>1, NowCall DEF CacheOK
    <3>3. FlushThresh' = FlushThresh /\ cache_sz' = cache_sz
      BY Zenon, <1>2 DEF FlushThresh
    <3>4. Len(cache'[t]) < FlushThresh \/ Len(cache'[t]) <= cache_sz
      BY <1>2, <2>3, <3>1, <3>2
    <3> QED
      BY Zenon, <3>2, <3>3, <3>4 DEF CacheOK
  <2>9. used' = used + Cardinality(Mine(t)') - Cardinality(Mine(t))
    <3>1. Mine(t) \in SUBSET Objects /\ {} \in SUBSET Objects
      BY Zenon, KeptType DEF Mine, PoolInv
    <3>2. Cardinality(Mine(t)) \in Nat
      BY Zenon, <3>1, TwoParts
    <3> QED
      BY <1>2, <1>4, <3>2 DEF PoolInv, TypeOK
  <2> QED
    BY Zenon, <2>3, <2>5, <2>6, <2>7, <2>8, <2>9, StepInv
<1>6. CASE ~(cached /\ k < cache_sz /\ k <= Len(cache[t]))
  <2> DEFINE l == IF cached /\ k < cache_sz THEN "get_fill" ELSE "get_ring"
  <2>1. pc' = [pc EXCEPT ![t] = l] /\ want' = [want EXCEPT ![t] = k] /\ UNCHANGED <<held, cache, stats>>
    BY Zenon, <1>1, <1>6 DEF __mempool_generic_get
  <2>2. /\ pc' \in [Threads -> PCs] /\ pc'[t] \in {"get_fill", "get_ring"}
        /\ pc'[t] = "get_fill" => Len(cache[t]) < k /\ k < cache_sz
        /\ \A u \in Threads : u # t => pc'[u] = pc[u]
    <3>1. Len(cache[t]) \in Nat
      BY Zenon, NowTypes
    <3> QED
      BY <1>2, <1>6, <2>1, <3>1 DEF PoolInv, TypeOK, PCs
  <2>3. /\ want' \in [Threads -> Nat] /\ want'[t] = k
        /\ \A u \in Threads : u # t => want'[u] = want[u]
    BY Zenon, <1>2, <2>1 DEF PoolInv, TypeOK
  <2>4. Kept(t)' = Kept(t)
    BY Zenon, <1>3, <2>1, <2>2 DEF Kept
  <2>5. Moves(t)
    BY Zenon, <1>2, <2>1, <2>4, NowApart DEF Moves, Has
  <2>6. StepTypes /\ Frame(t)
    BY Zenon, <1>2, <2>1, <2>2, <2>3 DEF StepTypes, Frame, PoolInv, TypeOK
  <2>7. CallOK(t)'
    BY Zenon, <1>2, <1>3, <2>1, <2>2, <2>3 DEF CallOK
  <2>8. CacheOK(t)'
    BY Zenon, <1>2, <2>1, <2>2, NowCall DEF CacheOK, FlushThresh
  <2> QED
    BY Zenon, <1>2, <1>4, <2>1, <2>5, <2>6, <2>7, <2>8, SameCounts, StepInv
<1> QED
  BY Zenon, <1>5, <1>6

(* The claim of a get. *)
LEMMA DequeueInv ==
  ASSUME PoolInv, NEW t \in Threads, mempool_ring_dequeue(t)
  PROVE  PoolInv'
<1>1. /\ pc[t] \in {"get_fill", "get_ring"} /\ t \notin Range(cons)
      /\ UNCHANGED <<cache_sz, prods, used, cache, held, stats>>
  BY Zenon DEF mempool_ring_dequeue
<1>2. ~Claimed(t) /\ t \notin Range(prods) /\ table[t] = <<>> /\ Kept(t) = cache[t]
  BY Zenon, <1>1, NowCall DEF CallOK, Claimed
<1> DEFINE req == Requested(t)
<1>3. /\ req \in Nat
      /\ pc[t] = "get_fill" => req = want[t] + (cache_sz - Len(cache[t])) /\ Len(cache[t]) < cache_sz
      /\ pc[t] = "get_ring" => req = want[t]
  <2>1. Len(cache[t]) \in Nat /\ want[t] \in Nat /\ cache_sz \in Nat
    BY Zenon, NowTypes
  <2>2. pc[t] = "get_fill" => Len(cache[t]) < want[t] /\ want[t] < cache_sz
    BY Zenon, NowCall DEF CallOK
  <2> QED
    BY <1>1, <2>1, <2>2 DEF Requested
<1>4. CASE req > Len(objring)
  <2>1. /\ UNCHANGED <<objring, cons>>
        /\ IF pc[t] = "get_fill"
           THEN pc' = [pc EXCEPT ![t] = "get_ring"] /\ UNCHANGED <<table, want>> ELSE Return(t)
    BY Zenon, <1>4 DEF mempool_ring_dequeue
  <2>2. /\ pc' \in [Threads -> PCs] /\ pc'[t] \in {"idle", "get_ring"}
        /\ \A u \in Threads : u # t => pc'[u] = pc[u]
    BY Zenon, <2>1 DEF Return, PoolInv, TypeOK, PCs
  <2>3. /\ table' \in [Threads -> Seq(Objects)] /\ table'[t] = <<>>
        /\ \A u \in Threads : u # t => table'[u] = table[u]
    <3>1. <<>> \in Seq(Objects) /\ table \in [Threads -> Seq(Objects)]
      BY Zenon, EmptyRange DEF PoolInv, TypeOK
    <3> QED
      BY Zenon, <1>2, <2>1, <3>1 DEF Return
  <2>4. want' \in [Threads -> Nat] /\ \A u \in Threads : u # t => want'[u] = want[u]
    BY <2>1 DEF Return, PoolInv, TypeOK
  <2>5. Kept(t)' = Kept(t)
    BY Zenon, <1>1, <1>2, <2>2 DEF Kept
  <2>6. Moves(t)
    BY Zenon, <1>1, <1>2, <2>1, <2>3, <2>5, NowApart DEF Moves, Has
  <2>7. StepTypes /\ Frame(t)
    BY Zenon, <1>1, <2>1, <2>2, <2>3, <2>4 DEF StepTypes, Frame, PoolInv, TypeOK
  <2>8. CallOK(t)'
    BY Zenon, <1>1, <1>2, <2>1, <2>2, <2>3 DEF CallOK
  <2>9. CacheOK(t)'
    BY Zenon, <1>1, <2>2, NowCall DEF CacheOK, FlushThresh
  <2>10. Mine(t)' = Mine(t)
    BY Zenon, <1>1, <1>2, <2>1 DEF Mine, Claimed
  <2> QED
    BY Zenon, <1>1, <2>6, <2>7, <2>8, <2>9, <2>10, SameCounts, StepInv
<1>5. CASE ~(req > Len(objring))
  <2>1. /\ cons' = Append(cons, t) /\ table' = [table EXCEPT ![t] = SubSeq(objring, 1, req)]
        /\ objring' = SubSeq(objring, req + 1, Len(objring)) /\ UNCHANGED <<pc, want>>
    BY Zenon, <1>5 DEF mempool_ring_dequeue
  <2>2. cons' \in Seq(Threads) /\ IsInjective(cons') /\ Range(cons') = Range(cons) \cup {t}
    <3>1. cons \in Seq(Threads) /\ IsInjective(cons)
      BY Zenon DEF PoolInv, TypeOK
    <3> QED
      BY <1>1, <2>1, <3>1, Joining
  <2>3. objring \in Seq(Objects) /\ IsInjective(objring) /\ req \in 0 .. Len(objring)
    BY <1>3, <1>5, NowTypes, NowApart
  <2> HIDE DEF req
  <2>4. /\ SubSeq(objring, 1, req) \in Seq(Objects) /\ objring' \in Seq(Objects)
        /\ Len(SubSeq(objring, 1, req)) = req
        /\ IsInjective(SubSeq(objring, 1, req)) /\ IsInjective(objring')
        /\ Range(SubSeq(objring, 1, req)) \cup Range(objring') = Range(objring)
        /\ Range(SubSeq(objring, 1, req)) \cap Range(objring') = {}
    BY <2>1, <2>3, Cutting
  <2>5. /\ table' \in [Threads -> Seq(Objects)] /\ table'[t] = SubSeq(objring, 1, req)
        /\ \A u \in Threads : u # t => table'[u] = table[u]
    BY Zenon, <2>1, <2>4 DEF PoolInv, TypeOK
  <2>6. Kept(t)' = Kept(t)
    BY Zenon, <1>1, <2>1 DEF Kept
  <2>7. Moves(t)
    BY Zenon, <1>1, <1>2, <2>4, <2>5, <2>6, NowApart, EmptyRange DEF Moves, Has
  <2>8. StepTypes /\ Frame(t)
    BY Zenon, <1>1, <2>1, <2>2, <2>4, <2>5 DEF StepTypes, Frame, PoolInv, TypeOK, PCs
  <2>9. CallOK(t)'
    <3>1. Requested(t)' = req
      BY Zenon, <1>1, <2>1 DEF Requested, req
    <3>2. CallOK(t)
      BY Zenon, NowCall
    <3> QED
      BY Zenon, <1>1, <1>2, <2>1, <2>2, <2>4, <2>5, <3>1, <3>2 DEF CallOK
  <2>10. CacheOK(t)'
    BY Zenon, <1>1, <2>1, NowCall DEF CacheOK, FlushThresh
  <2>11. Mine(t)' = Mine(t)
    <3>1. Claimed(t)'
      BY Zenon, <2>2 DEF Claimed
    <3> QED
      BY Zenon, <1>2, <2>4, <2>5, <3>1 DEF Mine
  <2> QED
    BY Zenon, <1>1, <2>7, <2>8, <2>9, <2>10, <2>11, SameCounts, StepInv
<1> QED
  BY Zenon, <1>4, <1>5

(* The entries of a get are released, and its objects handed out. *)
LEMMA DequeueDoneInv ==
  ASSUME PoolInv, NEW t \in Threads, DequeueDone(t)
  PROVE  PoolInv'
<1>1. /\ cons # <<>> /\ Head(cons) = t /\ cons' = Tail(cons) /\ used' = used - Len(table[t])
      /\ Return(t) /\ UNCHANGED <<cache_sz, objring, prods>>
  BY Zenon DEF DequeueDone
<1>2. /\ cons' \in Seq(Threads) /\ IsInjective(cons') /\ Range(cons') = Range(cons) \ {t}
      /\ t \in Range(cons)
  <2>1. cons \in Seq(Threads) /\ IsInjective(cons)
    BY Zenon DEF PoolInv, TypeOK
  <2> QED
    BY Zenon, <1>1, <2>1, Leaving
<1>3. /\ pc[t] \in {"get_fill", "get_ring"} /\ t \notin Range(prods) /\ Claimed(t) /\ Kept(t) = cache[t]
      /\ Len(table[t]) = Requested(t)
  BY Zenon, <1>2, NowCall DEF CallOK, Claimed
<1>4. pc' \in [Threads -> PCs] /\ \A u \in Threads : pc'[u] = IF u = t THEN "idle" ELSE pc[u]
  BY Zenon, <1>1 DEF Return, PoolInv, TypeOK, PCs
<1>5. /\ table' \in [Threads -> Seq(Objects)]
      /\ \A u \in Threads : table'[u] = IF u = t THEN <<>> ELSE table[u]
  <2>1. <<>> \in Seq(Objects) /\ table \in [Threads -> Seq(Objects)] /\ table' = [table EXCEPT ![t] = <<>>]
    BY Zenon, <1>1, EmptyRange DEF Return, PoolInv, TypeOK
  <2> QED
    BY Zenon, <2>1
<1>6. want' \in [Threads -> Nat] /\ \A u \in Threads : u # t => want'[u] = want[u]
  BY Zenon, <1>1 DEF Return, PoolInv, TypeOK
<1>7. used' = used + Cardinality(Mine(t)') - Cardinality(Mine(t))
  <2>1. ~Claimed(t)'
    BY Zenon, <1>1, <1>2, <1>3 DEF Claimed
  <2>2. Mine(t) = Range(objring) \cup Range(table[t]) /\ Mine(t)' = Range(objring)
    BY Zenon, <1>1, <1>3, <2>1 DEF Mine
  <2>3. Range(objring) \in SUBSET Objects /\ Range(table[t]) \in SUBSET Objects
    BY Zenon, KeptType DEF PoolInv
  <2>4. Range(objring) \cap Range(table[t]) = {} /\ Cardinality(Range(table[t])) = Len(table[t])
    BY Zenon, NowTypes, NowApart, Counting
  <2>5. /\ Cardinality(Mine(t)') \in Nat /\ Len(table[t]) \in Nat
        /\ Cardinality(Mine(t)) = Cardinality(Mine(t)') + Len(table[t])
    BY Zenon, <2>2, <2>3, <2>4, TwoParts, NowTypes
  <2>6. used \in Nat
    BY Zenon DEF PoolInv, TypeOK
  <2> QED
    BY <1>1, <2>5, <2>6
<1>8. CallOK(t)'
  BY Zenon, <1>1, <1>2, <1>3, <1>4, <1>5 DEF CallOK
<1>9. Kept(t)' = cache'[t]
  BY Zenon, <1>4 DEF Kept
<1>10. CASE pc[t] = "get_fill"
  <2> DEFINE c == cache[t] \o table[t]
  <2>1. FromCache(t, c, want[t])
    BY Zenon, <1>10 DEF DequeueDone
  <2>2. /\ cache[t] \in Seq(Objects) /\ table[t] \in Seq(Objects) /\ IsInjective(cache[t])
        /\ IsInjective(table[t]) /\ Range(cache[t]) \cap Range(table[t]) = {}
        /\ Range(cache[t]) \cap held[t] = {} /\ Range(table[t]) \cap held[t] = {}
        /\ want[t] \in Nat /\ cache_sz \in Nat /\ Len(cache[t]) \in Nat /\ Len(cache[t]) < cache_sz
    <3>1. Len(cache[t]) < want[t] /\ want[t] < cache_sz
      BY Zenon, <1>10, NowCall DEF CallOK
    <3> QED
      BY <1>3, <3>1, NowTypes, NowApart
  <2>3. /\ c \in Seq(Objects) /\ Len(c) = Len(cache[t]) + Len(table[t]) /\ IsInjective(c)
        /\ Range(c) = Range(cache[t]) \cup Range(table[t])
    BY <2>2, Stacking
  <2> HIDE DEF c
  <2>4. Len(c) = want[t] + cache_sz /\ want[t] \in 0 .. Len(c) /\ Range(c) \cap held[t] = {}
    BY <1>3, <1>10, <2>2, <2>3 DEF Requested
  <2>5. /\ held' \in [Threads -> SUBSET Objects] /\ cache' \in [Threads -> Seq(Objects)]
        /\ \A u \in Threads : u # t => held'[u] = held[u] /\ cache'[u] = cache[u]
        /\ Len(cache'[t]) = Len(c) - want[t] /\ IsInjective(cache'[t])
        /\ Range(cache'[t]) \cap held'[t] = {}
        /\ Range(cache'[t]) \cup held'[t] = Range(c) \cup held[t]
        /\ stats' = stats + Cardinality(held'[t]) - Cardinality(held[t])
    BY Zenon, <2>1, <2>3, <2>4, HandedOut
  <2>6. Moves(t)
    BY <1>1, <1>3, <1>5, <1>9, <2>3, <2>5, NowApart, EmptyRange DEF Moves, Has
  <2>7. StepTypes
    BY Zenon, <1>1, <1>2, <1>4, <1>5, <1>6, <2>5 DEF StepTypes, PoolInv, TypeOK
  <2>8. Frame(t)
    BY Zenon, <1>1, <1>2, <1>4, <1>5, <1>6, <2>5 DEF Frame
  <2>9. CacheOK(t)'
    <3>1. Len(cache'[t]) = cache_sz
      BY <2>2, <2>4, <2>5
    <3> QED
      BY <1>1, <1>4, <2>2, <3>1 DEF CacheOK
  <2> QED
    BY Zenon, <1>7, <1>8, <2>5, <2>6, <2>7, <2>8, <2>9, StepInv
<1>11. CASE pc[t] = "get_ring"
  <2>1. held' = [held EXCEPT ![t] = @ \cup Range(table[t])] /\ stats' = stats + want[t] /\ cache' = cache
    BY Zenon, <1>11 DEF DequeueDone
  <2>2. Range(table[t]) \in SUBSET Objects /\ held[t] \in SUBSET Objects /\ held[t] \cap Range(table[t]) = {}
    BY Zenon, KeptType, NowApart DEF PoolInv
  <2>3. /\ held' \in [Threads -> SUBSET Objects] /\ held'[t] = held[t] \cup Range(table[t])
        /\ \A u \in Threads : u # t => held'[u] = held[u]
    BY Zenon, <2>1, <2>2 DEF PoolInv, TypeOK
  <2>4. stats' = stats + Cardinality(held'[t]) - Cardinality(held[t])
    <3>1. Cardinality(Range(table[t])) = want[t] /\ want[t] \in Nat
      BY Zenon, <1>3, <1>11, NowTypes, NowApart, Counting DEF Requested
    <3>2. /\ Cardinality(held'[t]) = Cardinality(held[t]) + Cardinality(Range(table[t]))
          /\ Cardinality(held[t]) \in Nat
      BY Zenon, <2>2, <2>3, TwoParts
    <3>3. stats \in Int
      BY PoolAssumption, FS_CardinalityType DEF PoolInv, TypeOK, ObjCnt
    <3> QED
      BY <2>1, <3>1, <3>2, <3>3
  <2>5. Moves(t)
    BY <1>1, <1>3, <1>5, <1>9, <2>1, <2>3, NowApart, EmptyRange DEF Moves, Has
  <2>6. StepTypes
    BY Zenon, <1>1, <1>2, <1>4, <1>5, <1>6, <2>1, <2>3 DEF StepTypes, PoolInv, TypeOK
  <2>7. Frame(t)
    BY Zenon, <1>1, <1>2, <1>4, <1>5, <1>6, <2>1, <2>3 DEF Frame
  <2>8. CacheOK(t)'
    BY Zenon, <1>1, <1>4, <1>11, <2>1, NowCall DEF CacheOK, FlushThresh
  <2> QED
    BY Zenon, <1>7, <1>8, <2>4, <2>5, <2>6, <2>7, <2>8, StepInv
<1> QED
  BY Zenon, <1>3, <1>10, <1>11

(* The users pass an object on. *)
LEMMA PassInv ==
  ASSUME PoolInv, NEW t \in Threads, NEW u \in Threads, t # u, Pass(t, u)
  PROVE  PoolInv'
<1>1. PICK o \in held[t] : held' = [held EXCEPT ![t] = @ \ {o}, ![u] = @ \cup {o}]
  BY Zenon DEF Pass
<1>2. UNCHANGED <<cache_sz, objring, prods, cons, used, cache, stats, pc, table, want>>
  BY Zenon DEF Pass
<1>3. /\ held' \in [Threads -> SUBSET Objects]
      /\ \A w \in Threads : held'[w] = IF w = t THEN held[t] \ {o}
                                        ELSE IF w = u THEN held[u] \cup {o} ELSE held[w]
  BY Zenon, <1>1, NowTypes DEF PoolInv, TypeOK
<1>4. TypeOK'
  BY Zenon, <1>2, <1>3 DEF PoolInv, TypeOK, ObjCnt
<1>5. \A w \in Threads : Kept(w)' = Kept(w)
  BY Zenon, <1>2 DEF Kept
<1>6. NoRepeats'
  BY Zenon, <1>2, <1>5 DEF PoolInv, NoRepeats
<1>7. Out' = Out
  BY <1>1, <1>3 DEF Out
<1>8. Taken' = Taken
  BY Zenon, <1>2 DEF Taken, Claimed
<1>9. \A w \in Threads : CallOK(w)' /\ CacheOK(w)'
  BY Zenon, <1>2 DEF PoolInv, CallOK, CacheOK, Requested, FlushThresh, CacheRoom
<1>10. Apart'
  <2>1. \A w \in Threads : (o \in Range(Kept(w)) \/ o \in Range(table[w]) \/ o \in Range(objring)) => FALSE
    BY Zenon, <1>1 DEF PoolInv, Apart, Has
  <2>2. \A w \in Threads : o \in held[w] => w = t
    BY Zenon, <1>1 DEF PoolInv, Apart, Has
  <2>3. \A w \in Threads :
          /\ Range(Kept(w)') \cap Range(table'[w]) = {}
          /\ (Range(Kept(w)') \cup Range(table'[w])) \cap held'[w] = {}
          /\ Has(w)' \cap Range(objring') = {}
    BY <1>2, <1>3, <1>5, <2>1 DEF PoolInv, Apart, Has
  <2>4. \A w, x \in Threads : w # x => Has(w)' \cap Has(x)' = {}
    <3> SUFFICES ASSUME NEW w \in Threads, NEW x \in Threads, w # x,
                        NEW q, q \in Has(w)', q \in Has(x)'
                 PROVE  FALSE
      OBVIOUS
    <3>1. \A y \in Threads : q \in Has(y)' => q \in Has(y) \/ (q = o /\ y = u)
      BY Zenon, <1>2, <1>3, <1>5 DEF Has
    <3>2. \A y \in Threads : o \in Has(y)' => y = u
      BY Zenon, <1>2, <1>3, <1>5, <2>1, <2>2 DEF Has
    <3>3. Has(w) \cap Has(x) = {}
      BY Zenon DEF PoolInv, Apart
    <3> QED
      BY Zenon, <3>1, <3>2, <3>3
  <2>5. Range(objring') \cup UNION {Has(w)' : w \in Threads} = Objects
    <3>1. \A q : (\E w \in Threads : q \in Has(w)') <=> (\E w \in Threads : q \in Has(w))
      BY Zenon, <1>1, <1>2, <1>3, <1>5 DEF Has
    <3> QED
      BY <1>2, <3>1 DEF PoolInv, Apart
  <2> QED
    BY Zenon, <2>3, <2>4, <2>5 DEF Apart
<1> QED
  BY Zenon, <1>2, <1>4, <1>6, <1>7, <1>8, <1>9, <1>10 DEF PoolInv

(* mempool_create. *)
LEMMA PoolInitInv == Init => PoolInv
<1> SUFFICES ASSUME Init PROVE PoolInv
  OBVIOUS
<1>1. /\ objring \in Seq(Objects) /\ IsInjective(objring) /\ Len(objring) = ObjCnt /\ ObjCnt \in Nat
      /\ Range(objring) = Objects
  <2>1. ObjCnt \in Nat
    BY Zenon, PoolAssumption, FS_CardinalityType DEF ObjCnt
  <2>2. /\ objring \in [1 .. ObjCnt -> Objects] /\ IsInjective(objring)
        /\ \A o \in Objects : \E i \in 1 .. ObjCnt : objring[i] = o
    BY Zenon DEF Init, Bijection, Injection, Surjection
  <2> QED
    BY <2>1, <2>2 DEF Range
<1>2. /\ cache_sz \in CacheSizes /\ prods = <<>> /\ cons = <<>> /\ used = ObjCnt /\ stats = 0
      /\ cache = [t \in Threads |-> <<>>] /\ held = [t \in Threads |-> {}]
      /\ pc = [t \in Threads |-> "idle"] /\ table = [t \in Threads |-> <<>>]
      /\ want = [t \in Threads |-> 0]
  BY Zenon DEF Init
<1>3. TypeOK
  <2>1. <<>> \in Seq(Objects) /\ <<>> \in Seq(Threads)
    BY Zenon, EmptyRange
  <2> QED
    BY <1>1, <1>2, <2>1 DEF TypeOK
<1>4. \A t \in Threads : Kept(t) = <<>> /\ table[t] = <<>> /\ held[t] = {} /\ Has(t) = {}
  BY Zenon, <1>2, EmptyRange DEF Kept, Has
<1>5. NoRepeats /\ Apart
  BY Zenon, <1>1, <1>4, EmptyRange DEF NoRepeats, Apart
<1>6. IsInjective(prods) /\ IsInjective(cons) /\ \A t : ~Claimed(t) /\ t \notin Range(cons) /\ t \notin Range(prods)
  BY Zenon, <1>2, EmptyRange DEF Claimed
<1>7. \A t \in Threads : CallOK(t) /\ CacheOK(t)
  <2>1. \A t \in Threads : CallOK(t)
    BY Zenon, <1>2, <1>4, <1>6 DEF CallOK
  <2>2. \A t \in Threads : Len(cache[t]) = 0 /\ pc[t] = "idle" /\ cache_sz \in Nat
    BY <1>2, EmptyRange, PoolAssumption
  <2> QED
    BY <2>1, <2>2 DEF CacheOK
<1>8. stats = Cardinality(Out)
  <2>1. Out = {}
    BY Zenon, <1>2 DEF Out
  <2> QED
    BY Zenon, <1>2, <2>1, FS_EmptySet
<1>9. used = Cardinality(Taken)
  <2>1. Taken = Objects
    BY Zenon, <1>1 DEF Taken
  <2> QED
    BY Zenon, <1>2, <2>1 DEF ObjCnt
<1> QED
  BY Zenon, <1>3, <1>5, <1>6, <1>7, <1>8, <1>9 DEF PoolInv

LEMMA PoolNextInv ==
  ASSUME PoolInv, [Next]_vars
  PROVE  PoolInv'
<1>1. CASE UNCHANGED vars
  BY <1>1 DEF vars, PoolInv, TypeOK, NoRepeats, Apart, CallOK, CacheOK, Out, Taken, Claimed, Has, Kept,
              Requested, FlushThresh
<1> QED
  BY Zenon, <1>1, PutInv, GetInv, EnqueueInv, EnqueueDoneInv, DequeueInv, DequeueDoneInv, PassInv
  DEF Next, Step

-----------------------------------------------------------------------------
(***************************************************************************)
(* Theorems.                                                               *)
(***************************************************************************)
(* Puts and gets of any threads, however the moves of the ring's heads and *)
(* tails interleave, keep the invariant of the pool.                       *)
THEOREM PoolInvariant == Spec => []PoolInv
<1>1. Init => PoolInv
  BY Zenon, PoolInitInv
<1>2. PoolInv /\ [Next]_vars => PoolInv'
  BY Zenon, PoolNextInv
<1> QED
  BY <1>1, <1>2, PTL DEF Spec

(* No object of a pool is lost or in two places, although the result of    *)
(* the enqueue in __mempool_generic_put is dropped: the enqueue never      *)
(* fails.  The statistics count the objects that are out.                  *)
THEOREM PoolConserved == Spec => []Conserved
<1>1. PoolInv => Conserved
  BY Zenon DEF PoolInv, Conserved, NoRepeats, Apart, Out
<1> QED
  BY <1>1, PoolInvariant, PTL

(* A cache stays within cache->objs, also between the memcpy of a put and  *)
(* its flush, and below the flush threshold between calls.                 *)
THEOREM PoolCacheBounded == Spec => []CacheBounded
<1>1. PoolInv => CacheBounded
  <2> SUFFICES ASSUME PoolInv, NEW t \in Threads
               PROVE  /\ Len(cache[t]) <= CacheRoom
                      /\ pc[t] = "idle" => Len(cache[t]) < FlushThresh \/ Len(cache[t]) <= cache_sz
    BY Zenon DEF CacheBounded
  <2>1. /\ cache_sz \in Nat /\ CacheMax \in Nat /\ cache_sz <= CacheMax /\ Len(cache[t]) \in Nat
        /\ FlushThresh \in Nat /\ 2 * FlushThresh <= 3 * cache_sz
    BY Zenon, NowTypes, Threshold
  <2>2. CacheOK(t)
    BY Zenon, NowCall
  <2> QED
    BY <2>1, <2>2 DEF CacheOK, CacheRoom
<1> QED
  BY <1>1, PoolInvariant, PTL

(* To its users the pool is an ObjectPool: whatever __mempool_generic_get  *)
(* hands out, from a cache or from the ring, nobody else has got.          *)
THEOREM PoolRefines == Spec => RefinesPool
<1>1. Init => Pool!Init
  BY Zenon DEF Init, Pool!Init
<1>2. ASSUME PoolInv, PoolInv', [Next]_vars
      PROVE  [Pool!Next]_held
  <2>1. ASSUME NEW t \in Threads, NEW gone \in SUBSET held[t], held' = [held EXCEPT ![t] = @ \ gone]
        PROVE  [Pool!Next]_held
    <3>1. CASE gone = {}
      <4>1. held' = held
        BY Zenon, <1>2, <2>1, <3>1 DEF PoolInv, TypeOK
      <4> QED
        BY Zenon, <4>1
    <3>2. CASE gone # {}
      BY Zenon, <2>1, <3>2 DEF Pool!Next, Pool!Put
    <3> QED
      BY Zenon, <3>1, <3>2
  <2>2. ASSUME NEW t \in Threads, NEW objs, held' = [held EXCEPT ![t] = @ \cup objs],
               objs \cap held[t] = {}
        PROVE  [Pool!Next]_held
    <3>1. held \in [Threads -> SUBSET Objects] /\ held' \in [Threads -> SUBSET Objects]
      BY Zenon, <1>2 DEF PoolInv, TypeOK
    <3>2. CASE objs = {}
      BY Zenon, <2>2, <3>1, <3>2
    <3>3. CASE objs # {}
      <4>1. objs \subseteq held'[t]
        BY Zenon, <2>2, <3>1
      <4>2. \A u \in Threads : u # t => held'[u] = held[u] /\ held'[t] \cap held'[u] = {}
        BY Zenon, <1>2, <2>2, <3>1 DEF PoolInv, Apart, Has
      <4>3. objs \in (SUBSET Pool!Free) \ {{}}
        BY <2>2, <3>1, <3>3, <4>1, <4>2 DEF Pool!Free
      <4> QED
        BY Zenon, <2>2, <4>3 DEF Pool!Next, Pool!Get
    <3> QED
      BY Zenon, <3>2, <3>3
  <2>3. ASSUME NEW t \in Threads, mempool_put(t) PROVE [Pool!Next]_held
    <3>1. PICK k \in Counts : \E objs \in [1 .. k -> held[t]] : held' = [held EXCEPT ![t] = @ \ Range(objs)]
      BY Zenon, <2>3 DEF mempool_put
    <3>2. PICK objs \in [1 .. k -> held[t]] : held' = [held EXCEPT ![t] = @ \ Range(objs)]
      BY Zenon, <3>1
    <3>3. Range(objs) \in SUBSET held[t]
      BY Zenon DEF Range
    <3> QED
      BY Zenon, <2>1, <3>2, <3>3
  <2>4. ASSUME NEW t \in Threads, NEW c \in Seq(Objects), NEW k \in 0 .. Len(c),
               FromCache(t, c, k), Range(c) \cap held[t] = {}
        PROVE  [Pool!Next]_held
    <3> DEFINE objs == {c[i] : i \in Len(c) - k + 1 .. Len(c)}
    <3>1. objs \cap held[t] = {}
      BY <2>4 DEF Range
    <3>2. held' = [held EXCEPT ![t] = @ \cup objs]
      BY Zenon, <2>4 DEF FromCache
    <3> HIDE DEF objs
    <3> QED
      BY Zenon, <2>2, <3>1, <3>2
  <2>5. ASSUME NEW t \in Threads, mempool_get(t) PROVE [Pool!Next]_held
    <3>1. PICK k \in Counts : (k <= Len(cache[t]) /\ FromCache(t, cache[t], k)) \/ UNCHANGED held
      BY Zenon, <2>5 DEF mempool_get, __mempool_generic_get
    <3>2. pc[t] = "idle"
      BY Zenon, <2>5 DEF mempool_get
    <3>3. k \in Nat /\ cache[t] \in Seq(Objects) /\ Range(cache[t]) \cap held[t] = {}
      BY Zenon, <1>2, <3>2, NowTypes, NowApart, NowCall, PoolAssumption
    <3> QED
      BY <2>4, <3>1, <3>3
  <2>6. ASSUME NEW t \in Threads, DequeueDone(t) PROVE [Pool!Next]_held
    <3>1. cons # <<>> /\ t = Head(cons)
      BY Zenon, <2>6 DEF DequeueDone
    <3>2. t \in Range(cons)
      BY Zenon, <1>2, <3>1, Leaving DEF PoolInv, TypeOK
    <3>3. /\ pc[t] \in {"get_fill", "get_ring"} /\ Kept(t) = cache[t] /\ Len(table[t]) = Requested(t)
          /\ pc[t] = "get_fill" => Len(cache[t]) < want[t] /\ want[t] < cache_sz
      BY Zenon, <1>2, <3>2, NowCall DEF CallOK
    <3>4. CASE pc[t] = "get_ring"
      <4>1. held' = [held EXCEPT ![t] = @ \cup Range(table[t])] /\ Range(table[t]) \cap held[t] = {}
        BY Zenon, <1>2, <2>6, <3>4, NowApart DEF DequeueDone
      <4> QED
        BY Zenon, <2>2, <4>1
    <3>5. CASE pc[t] = "get_fill"
      <4>1. FromCache(t, cache[t] \o table[t], want[t])
        BY Zenon, <2>6, <3>5 DEF DequeueDone
      <4>2. /\ cache[t] \in Seq(Objects) /\ table[t] \in Seq(Objects) /\ IsInjective(cache[t])
            /\ IsInjective(table[t]) /\ Range(cache[t]) \cap Range(table[t]) = {}
            /\ Range(cache[t]) \cap held[t] = {} /\ Range(table[t]) \cap held[t] = {}
            /\ want[t] \in Nat /\ cache_sz \in Nat /\ Len(cache[t]) \in Nat
        BY Zenon, <1>2, <3>3, NowTypes, NowApart
      <4>3. /\ cache[t] \o table[t] \in Seq(Objects)
            /\ Len(cache[t] \o table[t]) = Len(cache[t]) + Len(table[t])
            /\ Range(cache[t] \o table[t]) = Range(cache[t]) \cup Range(table[t])
        BY <4>2, Stacking
      <4>4. want[t] \in 0 .. Len(cache[t] \o table[t])
        BY <3>3, <3>5, <4>2, <4>3 DEF Requested
      <4>5. Range(cache[t] \o table[t]) \cap held[t] = {}
        BY Zenon, <4>2, <4>3
      <4> QED
        BY Zenon, <2>4, <4>1, <4>3, <4>4, <4>5
    <3> QED
      BY Zenon, <3>3, <3>4, <3>5
  <2>7. ASSUME NEW t \in Threads, NEW u \in Threads, t # u, Pass(t, u) PROVE [Pool!Next]_held
    BY Zenon, <2>7 DEF Pass, Pool!Next, Pool!Pass
  <2>8. ASSUME NEW t \in Threads,
               mempool_ring_enqueue(t) \/ EnqueueDone(t) \/ mempool_ring_dequeue(t)
        PROVE  UNCHANGED held
    BY Zenon, <2>8 DEF mempool_ring_enqueue, EnqueueDone, mempool_ring_dequeue, PutDone
  <2>9. CASE UNCHANGED vars
    BY Zenon, <2>9 DEF vars
  <2> QED
    BY Zenon, <1>2, <2>3, <2>5, <2>6, <2>7, <2>8, <2>9 DEF Next, Step
<1> QED
  BY <1>1, <1>2, PoolInvariant, PTL DEF Spec, RefinesPool, Pool!Spec
=============================================================================
