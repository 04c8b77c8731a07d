------------------------------- MODULE Mempool -------------------------------
(***************************************************************************)
(* The memory pool of lib/core/mempool: a table of objects kept in a ring, *)
(* with a private cache for each thread in front of it.                    *)
(*                                                                         *)
(* The ring is the one of CneRing at the level its callers see: a call     *)
(* claims entries (the move of a head) and completes when its tail moves,  *)
(* in the order of the claims; entries claimed and not yet released still  *)
(* take room.  All calls on it are bulk calls.                             *)
(***************************************************************************)
EXTENDS Integers, Sequences, FiniteSets, Functions

CONSTANTS
  Threads,     \* the registered threads, cne_id() gives each its cache
  Objects,     \* the objects of the pool
  CacheMax,    \* MEMPOOL_CACHE_MAX_SIZE
  CacheSizes,  \* the cache_sz that pools are created with
  RingSize,    \* cne_align32pow2(mp->obj_cnt + 1), the entries of the ring
  Counts       \* the numbers of objects that callers ask for or put back

ASSUME PoolAssumption ==
  /\ IsFiniteSet(Objects) /\ IsFiniteSet(Threads)
  /\ CacheMax \in Nat /\ CacheSizes \subseteq 0 .. CacheMax
  /\ Counts \subseteq Nat
  /\ RingSize \in Nat /\ Cardinality(Objects) + 1 <= RingSize

VARIABLES
  cache_sz,       \* cache->size, the same for the life of the pool
  objring,        \* the objects published in the ring, oldest first
  prods, cons,    \* the calls that have claimed entries, in order
  used,           \* prod.head - cons.tail: the entries a producer must leave alone
  cache,          \* cache[t].objs up to cache[t].len
  held,           \* the objects a thread got and has not put back
  stats,          \* get_success_objs - put_objs, over all threads
  pc, table, want \* where a call is, what it moves, what was asked for

vars == <<cache_sz, objring, prods, cons, used, cache, held, stats, pc, table, want>>

ObjCnt == Cardinality(Objects)

(* r->capacity of the ring: its mask. *)
RingCapacity == RingSize - 1

FlushThresh == (cache_sz * 3) \div 2

(* The length of cache->objs. *)
CacheRoom == CacheMax * 3

(* mempool_create: mempool_ring_populate enqueues the objects one by one. *)
Init ==
  /\ cache_sz \in CacheSizes
  /\ objring \in Bijection(1 .. ObjCnt, Objects)
  /\ prods = <<>> /\ cons = <<>> /\ used = ObjCnt
  /\ cache = [t \in Threads |-> <<>>]
  /\ held = [t \in Threads |-> {}]
  /\ stats = 0
  /\ pc = [t \in Threads |-> "idle"]
  /\ table = [t \in Threads |-> <<>>]
  /\ want = [t \in Threads |-> 0]

Return(t) ==
  /\ pc' = [pc EXCEPT ![t] = "idle"]
  /\ table' = [table EXCEPT ![t] = <<>>]
  /\ want' = [want EXCEPT ![t] = 0]

(***************************************************************************)
(* mempool_put_bulk and mempool_generic_put.                               *)
(***************************************************************************)
(* Fault: a flush one object late. *)
StackedLate(t, objs) ==
  LET c == cache[t] \o objs IN
  /\ cache' = [cache EXCEPT ![t] = c]
  /\ IF Len(c) > FlushThresh
     THEN /\ pc' = [pc EXCEPT ![t] = "put_flush"]
          /\ table' = [table EXCEPT ![t] = SubSeq(c, cache_sz + 1, Len(c))]
     ELSE UNCHANGED <<pc, table>>

(* objs go on the stack; from the threshold on, all above cache->size is flushed. *)
Stacked(t, objs) ==
  LET c == cache[t] \o objs IN
  /\ cache' = [cache EXCEPT ![t] = c]
  /\ IF Len(c) >= FlushThresh
     THEN /\ pc' = [pc EXCEPT ![t] = "put_flush"]
          /\ table' = [table EXCEPT ![t] = SubSeq(c, cache_sz + 1, Len(c))]
     ELSE UNCHANGED <<pc, table>>

__mempool_generic_put(t, objs, cached) ==
  IF cached /\ Len(objs) <= CacheMax
  THEN Stacked(t, objs)
  ELSE /\ pc' = [pc EXCEPT ![t] = "put_ring"]
       /\ table' = [table EXCEPT ![t] = objs]
       /\ UNCHANGED cache

mempool_put(t) ==
  /\ pc[t] = "idle"
  /\ \E k \in Counts, cached \in {cache_sz > 0, FALSE} :
     \E objs \in [1 .. k -> held[t]] :
       /\ IsInjective(objs)
       /\ held' = [held EXCEPT ![t] = @ \ Range(objs)]
       /\ stats' = stats - k
       /\ __mempool_generic_put(t, objs, cached)
  /\ UNCHANGED <<cache_sz, objring, prods, cons, used, want>>

(* cache->len = cache->size after a flush *)
PutDone(t) ==
  /\ Return(t)
  /\ cache' = IF pc[t] = "put_flush"
              THEN [cache EXCEPT ![t] = SubSeq(@, 1, cache_sz)] ELSE cache
  /\ UNCHANGED <<held, stats>>

(* mempool_ring_enqueue, up to the move of prod.head.  The return value is *)
(* not looked at: what does not fit is gone.                               *)
mempool_ring_enqueue(t) ==
  /\ pc[t] \in {"put_flush", "put_ring"} /\ t \notin Range(prods)
  /\ IF table[t] = <<>> \/ used + Len(table[t]) > RingCapacity
     THEN PutDone(t) /\ UNCHANGED <<prods, used>>
     ELSE /\ prods' = Append(prods, t)
          /\ used' = used + Len(table[t])
          /\ UNCHANGED <<cache, held, stats, pc, table, want>>
  /\ UNCHANGED <<cache_sz, objring, cons>>

(* The move of prod.tail. *)
EnqueueDone(t) ==
  /\ prods # <<>> /\ Head(prods) = t
  /\ prods' = Tail(prods)
  /\ objring' = objring \o table[t]
  /\ PutDone(t)
  /\ UNCHANGED <<cache_sz, cons, used>>

(***************************************************************************)
(* mempool_get_bulk and mempool_generic_get.                               *)
(***************************************************************************)
(* Fault: the objects handed out stay on the stack. *)
FromCacheKept(t, c, k) ==
  /\ held' = [held EXCEPT ![t] = @ \cup {c[i] : i \in Len(c) - k + 1 .. Len(c)}]
  /\ cache' = [cache EXCEPT ![t] = c]
  /\ stats' = stats + k

(* The last k objects of the stack c are the caller's. *)
FromCache(t, c, k) ==
  /\ held' = [held EXCEPT ![t] = @ \cup {c[i] : i \in Len(c) - k + 1 .. Len(c)}]
  /\ cache' = [cache EXCEPT ![t] = SubSeq(c, 1, Len(c) - k)]
  /\ stats' = stats + k

__mempool_generic_get(t, k, cached) ==
  IF cached /\ k < cache_sz /\ k <= Len(cache[t])
  THEN FromCache(t, cache[t], k) /\ UNCHANGED <<pc, want>>
  ELSE /\ pc' = [pc EXCEPT ![t] = IF cached /\ k < cache_sz THEN "get_fill" ELSE "get_ring"]
       /\ want' = [want EXCEPT ![t] = k]
       /\ UNCHANGED <<held, cache, stats>>

mempool_get(t) ==
  /\ pc[t] = "idle"
  /\ \E k \in Counts, cached \in {cache_sz > 0, FALSE} : __mempool_generic_get(t, k, cached)
  /\ UNCHANGED <<cache_sz, objring, prods, cons, used, table>>

(* How many objects the ring is asked for: a backfill also refills the cache. *)
Requested(t) ==
  IF pc[t] = "get_fill" THEN want[t] + (cache_sz - Len(cache[t])) ELSE want[t]

(* mempool_ring_dequeue, up to the move of cons.head. *)
mempool_ring_dequeue(t) ==
  /\ pc[t] \in {"get_fill", "get_ring"} /\ t \notin Range(cons)
  /\ LET req == Requested(t) IN
     IF req > Len(objring)
     THEN /\ IF pc[t] = "get_fill"
             THEN pc' = [pc EXCEPT ![t] = "get_ring"] /\ UNCHANGED <<table, want>>
             ELSE Return(t)
          /\ UNCHANGED <<objring, cons>>
     ELSE /\ cons' = Append(cons, t)
          /\ table' = [table EXCEPT ![t] = SubSeq(objring, 1, req)]
          /\ objring' = SubSeq(objring, req + 1, Len(objring))
          /\ UNCHANGED <<pc, want>>
  /\ UNCHANGED <<cache_sz, prods, used, cache, held, stats>>

(* Fault: the objects dequeued are not counted when the cache was refilled. *)
DequeueDoneUncounted(t) ==
  /\ cons # <<>> /\ Head(cons) = t
  /\ cons' = Tail(cons)
  /\ used' = used - Len(table[t])
  /\ IF pc[t] = "get_fill"
     THEN LET c == cache[t] \o table[t] IN
          /\ held' = [held EXCEPT ![t] = @ \cup {c[i] : i \in Len(c) - want[t] + 1 .. Len(c)}]
          /\ cache' = [cache EXCEPT ![t] = SubSeq(c, 1, Len(c) - want[t])]
          /\ UNCHANGED stats
     ELSE /\ held' = [held EXCEPT ![t] = @ \cup Range(table[t])]
          /\ stats' = stats + want[t]
          /\ UNCHANGED cache
  /\ Return(t)
  /\ UNCHANGED <<cache_sz, objring, prods>>

(* The move of cons.tail, and the rest of the call. *)
DequeueDone(t) ==
  /\ cons # <<>> /\ Head(cons) = t
  /\ cons' = Tail(cons)
  /\ used' = used - Len(table[t])
  /\ IF pc[t] = "get_fill"
     THEN FromCache(t, cache[t] \o table[t], want[t])
     ELSE /\ held' = [held EXCEPT ![t] = @ \cup Range(table[t])]
          /\ stats' = stats + want[t]
          /\ UNCHANGED cache
  /\ Return(t)
  /\ UNCHANGED <<cache_sz, objring, prods>>

(***************************************************************************)
(* The specification.                                                      *)
(***************************************************************************)
Step(t) ==
  mempool_ring_enqueue(t) \/ EnqueueDone(t) \/ mempool_ring_dequeue(t) \/ DequeueDone(t)

(* The users' business: an object is passed to another thread (a packet    *)
(* received by one and sent by another).                                   *)
Pass(t, u) ==
  /\ \E o \in held[t] :
       held' = [held EXCEPT ![t] = @ \ {o}, ![u] = @ \cup {o}]
  /\ UNCHANGED <<cache_sz, objring, prods, cons, used, cache, stats, pc, table, want>>

Next ==
  \/ \E t \in Threads : mempool_put(t) \/ mempool_get(t) \/ Step(t)
  \/ \E t, u \in Threads : t # u /\ Pass(t, u)

Spec == Init /\ [][Next]_vars

(***************************************************************************)
(* Properties.                                                             *)
(***************************************************************************)
TypeOK ==
  /\ cache_sz \in CacheSizes
  /\ objring \in Seq(Objects)
  /\ prods \in Seq(Threads) /\ cons \in Seq(Threads) /\ used \in Nat
  /\ cache \in [Threads -> Seq(Objects)]
  /\ held \in [Threads -> SUBSET Objects]
  /\ stats \in 0 .. ObjCnt
  /\ pc \in [Threads -> {"idle", "put_flush", "put_ring", "get_fill", "get_ring"}]
  /\ table \in [Threads -> Seq(Objects)]
  /\ want \in [Threads -> Nat]

(* The cache proper: what a flush is about to give away no longer counts. *)
Kept(t) == IF pc[t] = "put_flush" THEN SubSeq(cache[t], 1, cache_sz) ELSE cache[t]

(* The objects that are a thread's: cached, moved by its call, or held. *)
Has(t) == Range(Kept(t)) \cup Range(table[t]) \cup held[t]

(* Every object is in exactly one place: published in the ring, on the way *)
(* in or out, in one cache, or in the hands of one thread.  In particular  *)
(* no enqueue of __mempool_generic_put ever fails, whose result it drops:  *)
(* the ring has room although claimed entries still take some of it.  The  *)
(* statistics of all threads together say how many objects are out.        *)
Conserved ==
  /\ TypeOK
  /\ stats = Cardinality(UNION {held[t] : t \in Threads})
  /\ IsInjective(objring)
  /\ \A t \in Threads :
       /\ IsInjective(Kept(t)) /\ IsInjective(table[t])
       /\ Range(Kept(t)) \cap Range(table[t]) = {}
       /\ (Range(Kept(t)) \cup Range(table[t])) \cap held[t] = {}
       /\ Has(t) \cap Range(objring) = {}
  /\ \A t, u \in Threads : t # u => Has(t) \cap Has(u) = {}
  /\ Range(objring) \cup UNION {Has(t) : t \in Threads} = Objects

(* A cache never outgrows cache->objs, not even between the memcpy of a    *)
(* put and its flush; and a thread between calls holds back less than the  *)
(* flush threshold (or its size, where the threshold rounds down to it).   *)
CacheBounded ==
  \A t \in Threads :
    /\ Len(cache[t]) <= CacheRoom
    /\ pc[t] = "idle" => Len(cache[t]) < FlushThresh \/ Len(cache[t]) <= cache_sz

(* No object is ever handed out while a thread still holds it. *)
Pool == INSTANCE ObjectPool
RefinesPool == Pool!Spec
=============================================================================
