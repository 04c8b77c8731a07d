----------------------------- MODULE CuckooHash -----------------------------
(***************************************************************************)
(* The cuckoo hash table of lib/core/hash/cne_cuckoo_hash.c: one writer    *)
(* and, in the lock-free mode, one reader that looks keys up while the     *)
(* writer moves entries about.                                             *)
(*                                                                         *)
(* An operation of the writer is the sequence of its stores to memory that *)
(* a reader can see.  Without lock-free readers the stores of an operation *)
(* are one step.  tbl_chng_cnt is counted from the reader's last load of   *)
(* it: `changed' says that it is another value now.  The rings of free key *)
(* slots and of free extendable buckets are sets, of which the lowest is   *)
(* handed out: which one does not matter.                                  *)
(***************************************************************************)
EXTENDS Integers, Sequences, SequencesExt, FiniteSets, Bitwise

CONSTANTS
  Keys,        \* the keys; a key is a number
  Hash,        \* Hash[k]: its hash, as [sig, low]
  Datas,       \* what is stored with a key
  Buckets,     \* num_buckets, a power of two
  BktEntries,  \* CNE_HASH_BUCKET_ENTRIES
  BfsMax,      \* CNE_HASH_BFS_QUEUE_MAX_LEN
  Modes        \* the extra_flags of the table and the keys that are used
               \* with it, as records [entries, ext, lf, nofree, keys, looked,
               \* bulk]: a reader looks up one of looked, or all of bulk

VARIABLES
  mode,        \* the flags the table was created with
  h,           \* the table
  todo,        \* the stores of the writer's operation that are still to come
  rd           \* the reader

ZeroKey == 0             \* the key of the dummy slot: all bytes are zero
EMPTY_SLOT == 0
NULL_SIGNATURE == 0
NoEntry == [sig |-> NULL_SIGNATURE, idx |-> EMPTY_SLOT]
Ids == 1..(2 * Buckets)              \* main buckets, then extendable ones
Main(i) == i + 1
ExtIds == (Buckets + 1)..(2 * Buckets)
Pos == 1..BktEntries
MISS == -2                           \* -ENOENT
ENOSPC == -28
BULK == -3                           \* rd.k: a bulk lookup is on its way

get_short_sig(k) == Hash[k].sig
get_prim_bucket_index(k) == Hash[k].low % Buckets
get_alt_bucket_index(i, sig) == (i ^^ sig) % Buckets
PrimBkt(k) == Main(get_prim_bucket_index(k))
SecBkt(k) == Main(get_alt_bucket_index(get_prim_bucket_index(k), get_short_sig(k)))

(* cne_hash_create with valid parameters, and cne_hash_reset.  dead has the *)
(* slots of deleted keys that are not free yet; content is what the table  *)
(* should hold: a key is in it from the return of its add to the start of  *)
(* its delete.                                                             *)
cne_hash_create ==
  [bkt |-> [b \in Ids |-> [i \in Pos |-> NoEntry]],
   next |-> [b \in Ids |-> 0],
   store |-> [s \in 0..mode.entries |-> [key |-> ZeroKey, pdata |-> 0]],
   slots |-> 1..mode.entries, exts |-> IF mode.ext THEN ExtIds ELSE {}, dead |-> {}, changed |-> FALSE,
   content |-> [k \in Keys |-> 0]]

(* FOR_EACH_BUCKET: the chain of a bucket. *)
RECURSIVE Chain(_, _)
Chain(t, b) == IF b = 0 THEN <<>> ELSE <<b>> \o Chain(t, t.next[b])

cne_hash_get_last_bkt(t, b) == Last(Chain(t, b))

(* The places a lookup of k visits, in order. *)
Visited(t, k) ==
  FlattenSeq([n \in 1..Len(<<PrimBkt(k)>> \o Chain(t, SecBkt(k))) |->
    [i \in Pos |-> [b |-> (<<PrimBkt(k)>> \o Chain(t, SecBkt(k)))[n], i |-> i]]])

At(t, p) == t.bkt[p.b][p.i]
First(s, Test(_)) == LET hit == {n \in DOMAIN s : Test(s[n])} IN
                     IF hit = {} THEN <<>> ELSE <<s[CHOOSE n \in hit : \A m \in hit : n <= m]>>

(* search_one_bucket_l over the buckets of a lookup. *)
Holds(t, k, p) ==
  At(t, p).sig = get_short_sig(k) /\ At(t, p).idx # EMPTY_SLOT /\ t.store[At(t, p).idx].key = k
__cne_hash_lookup_with_hash_l(t, k) ==
  LET f == First(Visited(t, k), LAMBDA p : Holds(t, k, p)) IN
  IF f = <<>> THEN MISS ELSE At(t, f[1]).idx - 1

(* Is k somewhere a lookup would find it? *)
Present(t, k) == __cne_hash_lookup_with_hash_l(t, k) # MISS

(* search_and_update bucket by bucket.  It does not look whether a slot is *)
(* empty: an empty one with the signature zero is compared with the dummy  *)
(* key, and a match there ends the search of this bucket with -1.          *)
search_and_update(t, k) ==
  LET Match(p) == At(t, p).sig = get_short_sig(k) /\ t.store[At(t, p).idx].key = k
      places == Visited(t, k)
      hit(b) == First(SelectSeq(places, LAMBDA p : p.b = b), Match)
      found == First(places, LAMBDA p : Match(p) /\ hit(p.b) = <<p>> /\ At(t, p).idx # EMPTY_SLOT) IN
  IF found = <<>> THEN EMPTY_SLOT ELSE At(t, found[1]).idx

(* Stores: a signature, a key index, a link, the change counter, the data  *)
(* of a key slot, or a whole key slot, which no reader sees yet.           *)
StSig(b, i, v) == [f |-> "sig", b |-> b, i |-> i, v |-> v]
StIdx(b, i, v) == [f |-> "idx", b |-> b, i |-> i, v |-> v]
StNext(b, v) == [f |-> "next", b |-> b, i |-> 0, v |-> v]
StCnt == IF mode.lf THEN <<[f |-> "cnt", b |-> 0, i |-> 0, v |-> 0]>> ELSE <<>>
StData(s, d) == [f |-> "data", b |-> s, i |-> 0, v |-> d]
StSlot(s, k, d) == [f |-> "slot", b |-> s, i |-> k, v |-> d]

Done(k, d) == [f |-> "done", b |-> k, i |-> 0, v |-> d]

Apply(t, st) ==
  CASE st.f = "sig" -> [t EXCEPT !.bkt[st.b][st.i].sig = st.v]
    [] st.f = "idx" -> [t EXCEPT !.bkt[st.b][st.i].idx = st.v]
    [] st.f = "next" -> [t EXCEPT !.next[st.b] = st.v]
    [] st.f = "cnt" -> [t EXCEPT !.changed = TRUE]
    [] st.f = "data" -> [t EXCEPT !.store[st.b].pdata = st.v]
    [] st.f = "done" -> [t EXCEPT !.content[st.b] = st.v]
    [] st.f = "slot" -> [t EXCEPT !.store[st.b] = [key |-> st.i, pdata |-> st.v]]

Put(b, i, sig, slot) == <<StSig(b, i, sig), StIdx(b, i, slot)>>
EmptyIn(t, places) == First(places, LAMBDA p : At(t, p).idx = EMPTY_SLOT)
PlacesOf(b) == [i \in Pos |-> [b |-> b, i |-> i]]

(* The breadth-first search of cne_hash_cuckoo_make_space_mw: the queue of *)
(* nodes [b, path], path the places from the head to this bucket's parent. *)
(* A path of the only writer is never invalidated.                         *)
RECURSIVE Bfs(_, _, _)
Bfs(t, queue, tail) ==
  IF tail > Len(queue) \/ Len(queue) >= BfsMax - BktEntries THEN <<>>
  ELSE LET node == queue[tail]
           e == EmptyIn(t, PlacesOf(node.b)) IN
       IF e # <<>> THEN node.path \o e
       ELSE Bfs(t, queue \o [i \in Pos |->
                  [b |-> Main(get_alt_bucket_index(node.b - 1, t.bkt[node.b][i].sig)),
                   path |-> Append(node.path, [b |-> node.b, i |-> i])]], tail + 1)

(* The head of the path is overwritten before its entry is at its new place. *)
MoveFromTheHead(t, path, sig, slot) ==
  Put(path[1].b, path[1].i, sig, slot) \o
  FlattenSeq([n \in 1..(Len(path) - 1) |->
                StCnt \o Put(path[n + 1].b, path[n + 1].i, At(t, path[n]).sig, At(t, path[n]).idx)])

(* cne_hash_cuckoo_move_insert_mw: from the empty slot at the end of the   *)
(* path back to its head, every entry is copied one place on; the change   *)
(* counter is raised before the place it was copied from is overwritten.   *)
cne_hash_cuckoo_move_insert_mw(t, path, sig, slot) ==
  FlattenSeq([m \in 1..(Len(path) - 1) |->
                LET n == Len(path) - m IN
                StCnt \o Put(path[n + 1].b, path[n + 1].i, At(t, path[n]).sig, At(t, path[n]).idx)])
  \o StCnt \o Put(path[1].b, path[1].i, sig, slot)

cne_hash_cuckoo_make_space_mw(t, b, sig, slot) ==
  LET path == Bfs(t, <<[b |-> b, path |-> <<>>]>>, 1) IN
  IF path = <<>> THEN <<>> ELSE cne_hash_cuckoo_move_insert_mw(t, path, sig, slot)

(* The stores that put a new key into its slot; empty when there is no     *)
(* room.  e is the extendable bucket that is taken when it must be.        *)
Insert(t, k, slot, e) ==
  LET sig == get_short_sig(k)
      prim == EmptyIn(t, PlacesOf(PrimBkt(k)))
      s1 == cne_hash_cuckoo_make_space_mw(t, PrimBkt(k), sig, slot)
      s2 == cne_hash_cuckoo_make_space_mw(t, SecBkt(k), sig, slot)
      sec == EmptyIn(t, SubSeq(Visited(t, k), BktEntries + 1, Len(Visited(t, k)))) IN
  IF prim # <<>> THEN Put(prim[1].b, prim[1].i, sig, slot)
  ELSE IF s1 # <<>> THEN s1
  ELSE IF s2 # <<>> THEN s2
  ELSE IF ~ mode.ext THEN <<>>
  ELSE IF sec # <<>> THEN Put(sec[1].b, sec[1].i, sig, slot)
  ELSE IF e = 0 THEN <<>>
  ELSE Put(e, 1, sig, slot) \o <<StNext(cne_hash_get_last_bkt(t, SecBkt(k)), e)>>

(* What an operation leaves: the table and its stores to come. *)
Outcome(t, sts) == [h |-> t, todo |-> sts]
Nothing == Outcome(h, <<>>)

Lowest(S) == IF S = {} THEN 0 ELSE CHOOSE x \in S : \A y \in S : x <= y

(* __cne_hash_add_key_with_hash.  The slot of a key for which there is no  *)
(* room goes back, unless the search for an extendable bucket failed.      *)
__cne_hash_add_key_with_hash(k, d) ==
  LET at == search_and_update(h, k)
      slot == Lowest(h.slots)
      e == Lowest(h.exts)
      ins == Insert(h, k, slot, e)
      took == ins # <<>> /\ Last(ins).f = "next" IN
  IF at # EMPTY_SLOT THEN Outcome(h, <<StData(at, d), Done(k, d)>>)
  ELSE IF slot = 0 THEN Nothing
  ELSE Outcome([h EXCEPT !.slots = IF ins = <<>> /\ ~ mode.ext THEN @ ELSE @ \ {slot},
                         !.exts = IF took THEN @ \ {e} ELSE @],
               <<StSlot(slot, k, d)>> \o ins \o (IF ins = <<>> THEN <<>> ELSE <<Done(k, d)>>))

(* __cne_hash_compact_ll: the last entry of the chain fills the hole. *)
__cne_hash_compact_ll(t, b, i) ==
  LET last == cne_hash_get_last_bkt(t, b)
      full == {j \in Pos : t.bkt[last][j].idx # EMPTY_SLOT}
      j == CHOOSE x \in full : \A y \in full : y <= x IN
  IF t.next[b] = 0 \/ full = {} THEN <<>>
  ELSE Put(b, i, t.bkt[last][j].sig, t.bkt[last][j].idx) \o StCnt \o Put(last, j, NULL_SIGNATURE, EMPTY_SLOT)

RECURSIVE ApplyAll(_, _)
ApplyAll(t, sts) == IF sts = <<>> THEN t ELSE ApplyAll(Apply(t, Head(sts)), Tail(sts))

(* __cne_hash_del_key_with_hash: remove the entry, compact its chain, and  *)
(* unlink the last bucket of the chain when it is empty.                   *)
__cne_hash_del_key_with_hash(k) ==
  LET f == First(Visited(h, k), LAMBDA p : Holds(h, k, p)) IN
  IF f = <<>> THEN Nothing
  ELSE LET p == f[1]
           root == IF p.b = PrimBkt(k) THEN PrimBkt(k) ELSE SecBkt(k)
           rm == Put(p.b, p.i, NULL_SIGNATURE, EMPTY_SLOT)
           t1 == ApplyAll(h, rm)
           mv == __cne_hash_compact_ll(t1, p.b, p.i)
           t2 == ApplyAll(t1, mv)
           ch == Chain(h, root)
           last == Last(ch)
           empty == Len(ch) > 1 /\ \A j \in Pos : t2.bkt[last][j].idx = EMPTY_SLOT
           slot == At(h, p).idx IN
       Outcome([h EXCEPT !.slots = IF mode.nofree THEN @ ELSE @ \cup {slot},
                         !.dead = IF mode.nofree THEN @ \cup {slot} ELSE @,
                         !.exts = IF empty /\ ~ mode.nofree THEN @ \cup {last} ELSE @,
                         !.content[k] = 0],
               rm \o mv \o (IF empty THEN <<StNext(ch[Len(ch) - 1], 0)>> ELSE <<>>))

Free == rd.k = -1
Ready == todo = <<>>

(* What happens to the reader's keys while the lookup is on its way: those *)
(* that were in the table all the time and those that were ever found in it. *)
Looked == IF rd.k = BULK THEN ToSet(mode.bulk) ELSE {rd.k}
Watch(t) ==
  IF Free THEN rd
  ELSE [rd EXCEPT !.always = {k \in @ : t.content[k] # 0},
                  !.ever = @ \cup {k \in Looked : Present(t, k)}]
Seen(K) == [always |-> {k \in K : h.content[k] # 0}, ever |-> {k \in K : Present(h, k)}]

(* Without lock-free readers an operation is one step. *)
Operation(r) ==
  /\ Ready
  /\ h' = IF mode.lf THEN r.h ELSE ApplyAll(r.h, r.todo)
  /\ todo' = IF mode.lf THEN r.todo ELSE <<>>
  /\ rd' = Watch(r.h)
  /\ UNCHANGED mode

(* One store of the writer, with a lock-free reader on the way. *)
Store ==
  /\ mode.lf /\ ~ Ready
  /\ h' = Apply(h, Head(todo)) /\ todo' = Tail(todo)
  /\ rd' = Watch(h')
  /\ UNCHANGED mode

(* cne_hash_free_key_with_position: with no_free_on_del the application    *)
(* frees the slot of a deleted key once no reader can still use it.        *)
cne_hash_free_key_with_position(s) ==
  /\ Ready /\ s \in h.dead /\ Free
  /\ h' = [h EXCEPT !.dead = @ \ {s}, !.slots = @ \cup {s}]
  /\ UNCHANGED <<mode, todo, rd>>

cne_hash_reset ==
  /\ Ready /\ ~ mode.lf
  /\ h' = cne_hash_create
  /\ UNCHANGED <<mode, todo, rd>>

(* __cne_hash_lookup_with_hash_lf *)
Lookup(k) ==
  /\ mode.lf /\ Free
  /\ rd' = [k |-> k, b |-> PrimBkt(k), i |-> 1, match |-> FALSE, second |-> FALSE,
            res |-> MISS] @@ Seen({k})
  /\ h' = [h EXCEPT !.changed = FALSE]
  /\ UNCHANGED <<mode, todo>>

Single == ~ Free /\ rd.k # BULK

(* On to the next entry, bucket or, when the table changed, round. *)
Onward(r) ==
  IF r.i < BktEntries THEN [r EXCEPT !.i = @ + 1, !.match = FALSE]
  ELSE IF ~ r.second THEN [r EXCEPT !.b = SecBkt(r.k), !.i = 1, !.second = TRUE, !.match = FALSE]
  ELSE IF h.next[r.b] # 0 THEN [r EXCEPT !.b = h.next[r.b], !.i = 1, !.match = FALSE]
  ELSE [r EXCEPT !.i = BktEntries + 1, !.match = FALSE]

search_one_bucket_lf ==
  /\ Single /\ rd.i <= BktEntries
  /\ LET e == h.bkt[rd.b][rd.i] IN
     IF ~ rd.match
     THEN rd' = IF e.sig = get_short_sig(rd.k) THEN [rd EXCEPT !.match = TRUE] ELSE Onward(rd)
     ELSE rd' = IF e.idx # EMPTY_SLOT /\ h.store[e.idx].key = rd.k
                THEN [rd EXCEPT !.res = e.idx - 1, !.i = BktEntries + 2] ELSE Onward(rd)
  /\ UNCHANGED <<mode, h, todo>>

Idle == [k |-> -1, b |-> 0, i |-> 0, match |-> FALSE, second |-> FALSE,
         always |-> {}, ever |-> {}, res |-> MISS]

(* The counter is read again: a change starts the search again. *)
Recheck ==
  /\ Single /\ rd.i = BktEntries + 1
  /\ h' = [h EXCEPT !.changed = FALSE]
  /\ rd' = IF h.changed
           THEN [rd EXCEPT !.b = PrimBkt(rd.k), !.i = 1, !.match = FALSE, !.second = FALSE]
           ELSE [rd EXCEPT !.i = BktEntries + 2]
  /\ UNCHANGED <<mode, todo>>

(* __bulk_lookup_lf, with the bucket indexes of the loop before it.  The   *)
(* signatures of the primary and the secondary bucket of every key (2n - 1 *)
(* and 2n for the nth) are compared before any key index is loaded.        *)
BulkKey(j) == mode.bulk[(j + 1) \div 2]
BulkBkt(j) == IF j % 2 = 1 THEN PrimBkt(BulkKey(j)) ELSE SecBkt(BulkKey(j))
Masks == 1 .. 2 * Len(mode.bulk)
AtStage(s) == rd.k = BULK /\ rd.stage = s

__bulk_lookup_lf ==
  /\ mode.lf /\ mode.bulk # <<>> /\ Free
  /\ rd' = [k |-> BULK, stage |-> "sigs", j |-> 1, mask |-> [j \in Masks |-> {}], b |-> 0,
            i |-> 0, match |-> FALSE, res |-> [n \in DOMAIN mode.bulk |-> MISS]]
           @@ Seen(ToSet(mode.bulk))
  /\ h' = [h EXCEPT !.changed = FALSE]
  /\ UNCHANGED <<mode, todo>>

(* The extendable buckets are searched for the first key after the nth that *)
(* is still missing; then the counter is read again.                       *)
ToMissing(r, n) ==
  LET left == {m \in DOMAIN r.res : m > n /\ r.res[m] = MISS} IN
  IF left = {} \/ ~ mode.ext THEN [r EXCEPT !.stage = "count", !.j = 0]
  ELSE [r EXCEPT !.stage = "link", !.j = 2 * Lowest(left), !.b = BulkBkt(2 * Lowest(left))]

(* When no signature is left to follow: a hit for every key ends it. *)
KeysCompared(r) ==
  IF \E j \in Masks : r.mask[j] # {} THEN r
  ELSE IF MISS \notin ToSet(r.res) THEN [r EXCEPT !.stage = "found"]
  ELSE ToMissing(r, 0)

compare_signatures ==
  /\ AtStage("sigs")
  /\ LET hits == {i \in Pos : h.bkt[BulkBkt(rd.j)][i].sig = get_short_sig(BulkKey(rd.j))}
         r == [rd EXCEPT !.mask[rd.j] = hits, !.j = @ + 1] IN
     rd' = IF rd.j \in Masks \ {2 * Len(mode.bulk)} THEN r
           ELSE KeysCompared([r EXCEPT !.stage = "keys", !.j = 0])
  /\ UNCHANGED <<mode, h, todo>>

CompareKey ==
  /\ AtStage("keys")
  /\ LET j == Lowest({m \in Masks : rd.mask[m] # {}})
         i == Lowest(rd.mask[j])
         e == h.bkt[BulkBkt(j)][i]
         n == (j + 1) \div 2 IN
     rd' = KeysCompared(
       IF e.idx # EMPTY_SLOT /\ h.store[e.idx].key = BulkKey(j)
       THEN [rd EXCEPT !.res[n] = e.idx - 1, !.mask[2 * n - 1] = {}, !.mask[2 * n] = {}]
       ELSE [rd EXCEPT !.mask[j] = @ \ {i}])
  /\ UNCHANGED <<mode, h, todo>>

(* FOR_EACH_BUCKET from secondary_bkt->next on *)
NextBucket ==
  /\ AtStage("link")
  /\ rd' = IF h.next[rd.b] = 0 THEN ToMissing(rd, rd.j \div 2)
           ELSE [rd EXCEPT !.stage = "ext", !.b = h.next[rd.b], !.i = 1, !.match = FALSE]
  /\ UNCHANGED <<mode, h, todo>>

SearchExt ==
  /\ AtStage("ext")
  /\ LET e == h.bkt[rd.b][rd.i]
         k == BulkKey(rd.j)
         on == IF rd.i < BktEntries THEN [rd EXCEPT !.i = @ + 1, !.match = FALSE]
               ELSE [rd EXCEPT !.stage = "link"] IN
     rd' = IF ~ rd.match
           THEN IF e.sig = get_short_sig(k) THEN [rd EXCEPT !.match = TRUE] ELSE on
           ELSE IF e.idx # EMPTY_SLOT /\ h.store[e.idx].key = k
                THEN ToMissing([rd EXCEPT !.res[rd.j \div 2] = e.idx - 1], rd.j \div 2) ELSE on
  /\ UNCHANGED <<mode, h, todo>>

(* Fault: a key that was not found is taken as missing. *)
BulkUnchecked ==
  /\ AtStage("count")
  /\ rd' = [rd EXCEPT !.stage = "found"]
  /\ UNCHANGED <<mode, h, todo>>

(* A change of the table starts the search again; hits are kept. *)
BulkRecheck ==
  /\ AtStage("count")
  /\ h' = [h EXCEPT !.changed = FALSE]
  /\ rd' = IF h.changed THEN [rd EXCEPT !.stage = "sigs", !.j = 1] ELSE [rd EXCEPT !.stage = "found"]
  /\ UNCHANGED <<mode, todo>>

(* The lookup has its results, as pairs of a key and a position. *)
Finished == IF rd.k = BULK THEN rd.stage = "found" ELSE rd.i = BktEntries + 2
Results ==
  IF rd.k = BULK THEN {<<mode.bulk[n], rd.res[n]>> : n \in DOMAIN mode.bulk}
  ELSE {<<rd.k, rd.res>>}

Return ==
  /\ ~ Free /\ Finished
  /\ rd' = Idle
  /\ UNCHANGED <<mode, h, todo>>

Init ==
  /\ mode \in Modes
  /\ h = cne_hash_create
  /\ todo = <<>>
  /\ rd = Idle

Next ==
  \/ \E k \in mode.keys, d \in Datas : Operation(__cne_hash_add_key_with_hash(k, d))
  \/ \E k \in mode.keys : Operation(__cne_hash_del_key_with_hash(k))
  \/ Store
  \/ \E s \in 1..mode.entries : cne_hash_free_key_with_position(s)
  \/ cne_hash_reset
  \/ \E k \in mode.looked : Lookup(k)
  \/ search_one_bucket_lf
  \/ Recheck
  \/ __bulk_lookup_lf
  \/ compare_signatures
  \/ CompareKey
  \/ NextBucket
  \/ SearchExt
  \/ BulkRecheck
  \/ Return
-----------------------------------------------------------------------------
(* __bulk_lookup_l: primary, secondary, and the rest of the chain only     *)
(* when the table has extendable buckets.                                  *)
__bulk_lookup_l(t, k) ==
  LET Hit(b) == First(PlacesOf(b), LAMBDA p : Holds(t, k, p))
      rest == IF mode.ext THEN Tail(Chain(t, SecBkt(k))) ELSE <<>>
      f == First(<<PrimBkt(k), SecBkt(k)>> \o rest, LAMBDA b : Hit(b) # <<>>) IN
  IF f = <<>> THEN MISS ELSE At(t, Hit(f[1])[1]).idx - 1

(* cne_hash_iterate: the positions of the main buckets, then of all the    *)
(* extendable ones.                                                        *)
cne_hash_iterate(t) ==
  SelectSeq(FlattenSeq([b \in 1..(IF mode.ext THEN 2 * Buckets ELSE Buckets) |->
                          [i \in Pos |-> t.bkt[b][i].idx]]), LAMBDA x : x # EMPTY_SLOT)

cne_hash_count(t) == mode.entries - Cardinality(t.slots)

Used == {h.bkt[b][i].idx : b \in Ids, i \in Pos} \ {EMPTY_SLOT}
Linked == {h.next[b] : b \in Ids} \ {0}

(* Between operations, after any sequence of adds, deletes, displacements  *)
(* and compactions: every key that was added and not deleted is found, at  *)
(* a position whose slot has this key and its last data, and no other key; *)
(* single and bulk lookups agree; an iteration meets each key once; and no *)
(* key slot or extendable bucket is lost or handed out twice, so that an   *)
(* add with extendable buckets fails only when every slot holds a key.     *)
(* (With no_free_on_del emptied extendable buckets are never recycled.)    *)
TableExact ==
  Ready =>
    /\ \A k \in Keys :
         LET pos == __cne_hash_lookup_with_hash_l(h, k) IN
         /\ pos = MISS <=> h.content[k] = 0
         /\ pos # MISS => h.store[pos + 1] = [key |-> k, pdata |-> h.content[k]]
         /\ __bulk_lookup_l(h, k) = pos
    /\ LET all == cne_hash_iterate(h) IN
       /\ IsInjective(all)
       /\ {h.store[all[n]].key : n \in DOMAIN all} = {k \in Keys : h.content[k] # 0}
    /\ Used \cap h.slots = {} /\ h.dead \cap (h.slots \cup Used) = {}
    /\ Linked \cap h.exts = {}
    /\ ~ (mode.nofree /\ mode.ext) =>
         /\ Cardinality(Used) = cne_hash_count(h) - Cardinality(h.dead)
         /\ mode.ext => Linked \cup h.exts = ExtIds

(* A lock-free lookup, of one key or of several, that runs while the       *)
(* writer displaces entries, compacts chains or reuses slots never misses  *)
(* a key whose add returned before it and whose delete has not started,    *)
(* and a hit is a slot with that key.                                      *)
LookupExact ==
  Finished =>
    \A r \in Results :
      IF r[2] = MISS THEN r[1] \notin rd.always
      ELSE r[1] \in rd.ever /\ h.store[r[2] + 1].key = r[1]

HashRight == TableExact /\ LookupExact
=============================================================================
