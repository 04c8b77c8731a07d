------------------------------ MODULE Containers ------------------------------
(***************************************************************************)
(* Support libraries that keep books for the rest of CNDP: the hash map    *)
(* (lib/usr/clib/hmap), the DSA copy engine's rings (lib/usr/clib/dsa),    *)
(* the token-bucket meters (lib/usr/clib/meter), huge-page regions         *)
(* (lib/core/mmap), key=value arguments (lib/core/kvargs) and the pools of *)
(* unique ids (lib/core/cne/uid.c).  A behaviour exercises one of them:    *)
(* comode says which, co is its state.                                     *)
(***************************************************************************)
EXTENDS Integers, Sequences, FiniteSets, SequencesExt, Functions

CONSTANTS
    HType,      \* HType[k]: the type of the value stored under key k, a record
                \* [hasp, p, k] (prefix present, its text, the key's text)
    HHash,      \* HHash[k]: the 32-bit hash of the key
    HStart,     \* HMAP_STARTING_CAPACITY
    HDefault,   \* HMAP_DEFAULT_CAPACITY
    HCases,     \* [max, keys, filled, calls]: max_capacity given to hmap_create, the keys used, those
                \* added at first, and how many calls each thread makes (any number: -1)
    HWidth,     \* curr_capacity counts modulo HWidth (2^32 in the code)
    NDesc,      \* DSA_NUM_DESC
    MaxBatches, \* DSA_MAX_BATCHES
    MaxOut,     \* bound: operations enqueued and not yet reported
    MaxBad,     \* bound: operations with a NULL address, and fences, not yet performed
    Portals,    \* {TRUE}: the work queue is mapped, {FALSE}: software fallback
    Profiles,   \* meters: [kind, aware, hz, cir, xir, cbs, xbs]
    PeriodMin,  \* CNE_METER_TB_PERIOD_MIN
    PktLens, MaxTime,
    PageSz,     \* page size of each mmap type
    MaxRegions, \* bound: calls of mmap_alloc
    KvTexts,    \* argument texts: sequences of characters
    KvMax,      \* KVARGS_MAX
    KvValid,    \* valid_keys
    UidThreads, MaxIds,  \* the threads that share a pool of ids, and its size
    CoModes

VARIABLES comode, co

--------------------------------------------------------------------------------
(* hmap.  A slot is [type, key, val]; type "empty" has no key.               *)

NoKey == [hasp |-> FALSE, p |-> <<>>, k |-> <<>>]
EmptySlot == [type |-> "empty", key |-> NoKey, val |-> 0]

HTypes == {"str", "u64"}

\* strdup'ed strings a slot owns
Strings(s) == IF s.type = "empty" THEN 0
              ELSE 1 + (IF s.key.hasp THEN 1 ELSE 0) + (IF s.type = "str" THEN 1 ELSE 0)

_hmap_cmp(key, s) ==
    /\ key.hasp = s.key.hasp
    /\ IsPrefix(key.p, s.key.p)
    /\ IsPrefix(key.k, s.key.k)

hmap_create(max) ==
    [map |-> [i \in 0 .. HStart - 1 |-> EmptySlot], capacity |-> HStart,
     max_capacity |-> IF max = 0 THEN HDefault ELSE IF max < HStart THEN HStart ELSE max, curr |-> 0,
     strings |-> 0]

\* the slots in the order a probe for key visits them
ProbeOrder(h, key) == [i \in 1 .. h.capacity |-> (HHash[key] + i - 1) % h.capacity]

hmap_kvp_lookup(h, key) ==
    LET order == ProbeOrder(h, key)
        hits == {i \in DOMAIN order : /\ h.map[order[i]].type # "empty"
                                      /\ _hmap_cmp(key, h.map[order[i]])}
    IN  IF hits = {} THEN -1 ELSE order[CHOOSE i \in hits : \A j \in hits : i <= j]

__add_value(h, slot) ==
    LET order == ProbeOrder(h, slot.key)
        free == {i \in DOMAIN order : h.map[order[i]].type = "empty"}
    IN  IF free = {} THEN [h |-> h, ret |-> -1]
        ELSE [h |-> [h EXCEPT !.map[order[CHOOSE i \in free : \A j \in free : i <= j]] = slot,
                              !.curr = (@ + 1) % HWidth, !.strings = @ + Strings(slot)],
              ret |-> 0]

\* The old entries are added to the larger map; their strings are duplicated
\* and the old ones are not freed.
Grow(h) ==
    LET bigger == [h EXCEPT !.capacity = @ + HStart, !.curr = 0,
                            !.map = [i \in 0 .. h.capacity + HStart - 1 |-> EmptySlot]]
    IN  FoldLeft(LAMBDA acc, i : IF h.map[i - 1].type = "empty" THEN acc
                                 ELSE __add_value(acc, h.map[i - 1]).h,
                 bigger, [i \in 1 .. h.capacity |-> i])

MakeRoom(h, max) ==
    IF h.curr >= h.capacity - HStart \div 4 /\ h.capacity + HStart <= max THEN Grow(h) ELSE h

\* hmap_add after its unlocked lookup found no such key
hmap_add(h, slot) == __add_value(MakeRoom(h, h.max_capacity), slot)

_hmap_free(h, i) == [h EXCEPT !.map[i] = EmptySlot, !.strings = @ - Strings(h.map[i])]

hmap_kvp_update(h, i, v) == [h EXCEPT !.map[i].val = v]

hmap_lookup(h, key) == LET i == hmap_kvp_lookup(h, key) IN IF i < 0 THEN 0 ELSE h.map[i].val

__get_kvp(h, key, type) ==
    LET i == hmap_kvp_lookup(h, key) IN IF i >= 0 /\ h.map[i].type = type THEN i ELSE -1

\* hmap_get_bool, hmap_get_u64 ... hmap_get_pointer
hmap_get(h, key, type) ==
    LET i == __get_kvp(h, key, type) IN IF i < 0 THEN 0 ELSE h.map[i].val

\* the slots hmap_iterate returns from slot next on
hmap_iterate(h, next) ==
    LET rest == {i \in next .. h.capacity - 1 : h.map[i].type # "empty"}
    IN  IF rest = {} THEN -1 ELSE CHOOSE i \in rest : \A j \in rest : i <= j

hmap_destroy(h) ==
    [h EXCEPT !.map = [i \in DOMAIN h.map |-> EmptySlot], !.capacity = 0,
              !.max_capacity = 0, !.curr = 0,
              !.strings = @ - FoldLeft(LAMBDA n, i : n + Strings(h.map[i - 1]), 0,
                                       [i \in 1 .. h.capacity |-> i])]

\* Calls of several threads.  A call keeps what its lookup returned, a pointer
\* (gen, i) to slot i of the map that was there before any growth since.
\* want: the bag of pairs added and not deleted; lost: strings the growths left
\* behind; missed: deletions of absent keys since the last growth.  History:
\* twice: an add came upon a key that another had added since its own lookup;
\* crossed: the map changed while a deletion or an update of another thread was
\* under way; wrong: one of those took a pair of another key.  wild: freed
\* memory was used, and nothing is known from then on.
NoCall == [op |-> "none"]

One(s) == SetToBag({s})
NewSlot(k) == [type |-> HType[k], key |-> k, val |-> 1]

HmapInit(c) ==
    [h |-> FoldLeft(LAMBDA h, k : hmap_add(h, NewSlot(k)).h, hmap_create(c.max), c.filled),
     want |-> FoldLeft(LAMBDA b, k : b (+) One(NewSlot(k)), EmptyBag, c.filled),
     keys |-> c.keys, left |-> c.calls, call |-> [t \in DOMAIN c.calls |-> NoCall],
     lost |-> 0, missed |-> 0, gen |-> 0,
     twice |-> FALSE, crossed |-> FALSE, wrong |-> FALSE, wild |-> FALSE]

Idle(x, t) == x.call[t] = NoCall
Doing(x, t, op) == x.call[t].op = op
Dying(h) == {i \in DOMAIN h.map : h.map[i].type = "dying"}

\* the slots whose keys a lookup compares
Compared(h, key) ==
    LET order == ProbeOrder(h, key) IN
    {order[i] : i \in {n \in DOMAIN order : \A m \in 1 .. n - 1 : order[m] # hmap_kvp_lookup(h, key)}}

\* A call begins with a lookup under the lock; another thread may be freeing
\* one of the pairs it compares.
HLookup(x, t, key, call) ==
    IF Compared(x.h, key) \cap Dying(x.h) # {} THEN [x EXCEPT !.wild = TRUE]
    ELSE [x EXCEPT !.call[t] = call, !.left[t] = IF @ > 0 THEN @ - 1 ELSE @]

HLookupThenAdd(x, t, slot) ==
    HLookup(x, t, slot.key, IF hmap_kvp_lookup(x.h, slot.key) >= 0 THEN NoCall ELSE [op |-> "add", slot |-> slot])

HLookupThen(x, t, op, key) ==
    HLookup(x, t, key, [op |-> op, key |-> key, i |-> hmap_kvp_lookup(x.h, key), gen |-> x.gen])

\* what a step of t that changes the map does to the calls of the others
Crossing(x, t) == x.crossed \/ \E u \in DOMAIN x.call \ {t} : x.call[u].op \notin {"none", "add"}

HAddLocked(x, t) ==
    LET slot == x.call[t].slot
        grown == MakeRoom(x.h, x.h.max_capacity) # x.h
        r == hmap_add(x.h, slot)
    IN  IF grown /\ Dying(x.h) # {} THEN [x EXCEPT !.wild = TRUE]
        ELSE [x EXCEPT !.h = r.h, !.call[t] = NoCall, !.crossed = Crossing(x, t),
                       !.want = IF r.ret = 0 THEN @ (+) One(slot) ELSE @,
                       !.lost = IF grown THEN x.h.strings ELSE @,
                       !.missed = IF grown THEN 0 ELSE @,
                       !.gen = IF grown THEN @ + 1 ELSE @,
                       !.twice = @ \/ \E s \in BagToSet(x.want) : _hmap_cmp(slot.key, s)]

\* The pair of a pointer into the present map: it may be of another key by now.
Pointed(x, t) == x.h.map[x.call[t].i]
Dangling(x, t) == x.call[t].gen # x.gen \/ Pointed(x, t).type = "dying"
Wrong(x, t) == x.wrong \/ ~_hmap_cmp(x.call[t].key, Pointed(x, t))

\* The lock is not held: first the strings of the pair are freed, then the slot
\* is emptied, then the count is read and written, whether or not there was a pair.
hmap_del(x, t) ==
    LET c == x.call[t] IN
    CASE c.op = "del" /\ c.i < 0 -> [x EXCEPT !.call[t].op = "count", !.missed = @ + 1]
      [] c.op = "del" /\ c.i >= 0 ->
           IF Dangling(x, t) THEN [x EXCEPT !.wild = TRUE]
           ELSE IF Pointed(x, t).type = "empty" THEN [x EXCEPT !.call[t].op = "count"]
           ELSE [x EXCEPT !.h.map[c.i].type = "dying", !.h.strings = @ - Strings(Pointed(x, t)),
                          !.want = @ (-) One(Pointed(x, t)), !.call[t].op = "clear",
                          !.wrong = Wrong(x, t), !.crossed = Crossing(x, t)]
      [] c.op = "clear" -> [x EXCEPT !.h.map[c.i] = EmptySlot, !.call[t].op = "count"]
      [] c.op = "count" -> [x EXCEPT !.call[t] = [op |-> "store", curr |-> x.h.curr]]
      [] c.op = "store" -> [x EXCEPT !.h.curr = (c.curr + HWidth - 1) % HWidth, !.call[t] = NoCall,
                                     !.crossed = Crossing(x, t)]

HUpdate(x, t, v) ==
    LET done == [x EXCEPT !.call[t] = NoCall] IN
    IF x.call[t].i < 0 THEN done
    ELSE IF Dangling(x, t) THEN [x EXCEPT !.wild = TRUE]
    ELSE IF Pointed(x, t).type = "empty" THEN done
    ELSE [done EXCEPT !.h = hmap_kvp_update(@, x.call[t].i, v), !.wrong = Wrong(x, t),
                      !.crossed = Crossing(x, t),
                      !.want = (@ (-) One(Pointed(x, t))) (+) One([Pointed(x, t) EXCEPT !.val = v])]

HmapNext ==
    /\ co.h.capacity > 0 /\ ~co.wild
    /\ \/ \E t \in DOMAIN co.call :
             /\ Idle(co, t) /\ co.left[t] # 0
             /\ \E k \in co.keys :
                  \/ co' = HLookupThenAdd(co, t, NewSlot(k))
                  \/ /\ hmap_kvp_lookup(co.h, k) >= 0 \/ co.missed < 1
                     /\ co' = HLookupThen(co, t, "del", k)
                  \/ /\ \A s \in BagToSet(co.want) : s.val = 1
                     /\ co' = HLookupThen(co, t, "upd", k)
       \/ \E t \in DOMAIN co.call : Doing(co, t, "add") /\ co' = HAddLocked(co, t)
       \/ \E t \in DOMAIN co.call :
             co.call[t].op \in {"del", "clear", "count", "store"} /\ co' = hmap_del(co, t)
       \/ \E t \in DOMAIN co.call : Doing(co, t, "upd") /\ co' = HUpdate(co, t, 2)
       \/ /\ \A t \in DOMAIN co.call : Idle(co, t)
          /\ co' = [co EXCEPT !.h = hmap_destroy(@), !.want = EmptyBag]

RECURSIVE Visited(_, _)
Visited(h, next) ==
    LET i == hmap_iterate(h, next) IN IF i < 0 THEN <<>> ELSE <<h.map[i]>> \o Visited(h, i + 1)

\* Whatever calls of two threads come between each other, until freed memory is
\* used: the map holds the pairs added and not deleted, each as often as it was
\* added, through every growth; an iteration visits each of them once; a lookup
\* finds a key exactly when a pair whose key starts with it is there; no string
\* is lost but those of a growth.  Keys are not stored twice unless two adds of
\* them overlap.  The count is the number of pairs less the deletions that
\* missed, and deletions and updates take pairs of the key asked for, unless
\* the map changed while one was under way (hmap_add, hmap_del, hmap_iterate).
HmapRight ==
    LET h == co.h
        seen == SelectSeq(Visited(h, 0), LAMBDA s : s.type # "dying")
        stored == BagToSet(co.want)
        Matching(k) == {s \in stored : _hmap_cmp(k, s)}
    IN  co.wild \/
        /\ h.capacity <= h.max_capacity
        /\ FoldLeft(LAMBDA b, s : b (+) One(s), EmptyBag, seen) = co.want
        /\ h.strings = co.lost + FoldLeft(LAMBDA n, s : n + Strings(s), 0, seen)
        /\ co.twice \/ Len(seen) = Cardinality({s.key : s \in stored})
        /\ co.wrong => co.crossed
        /\ h.capacity > 0 /\ (\A t \in DOMAIN co.call : co.call[t].op \notin {"clear", "count", "store"}) =>
             /\ co.crossed \/ h.curr = (Len(seen) + HWidth - co.missed) % HWidth
             /\ \A k \in co.keys :
                  /\ (hmap_lookup(h, k) = 0) = (Matching(k) = {})
                  /\ hmap_lookup(h, k) # 0 => hmap_lookup(h, k) \in {s.val : s \in Matching(k)}
                  /\ \A ty \in HTypes : hmap_get(h, k, ty) # 0 =>
                        \E s \in Matching(k) : s.type = ty /\ s.val = hmap_get(h, k, ty)

--------------------------------------------------------------------------------
(* The DSA rings.  desc is the descriptor ring at twice its size (batches do *)
(* not wrap), status and completed the completion records, which lie over    *)
(* the ring's first half, flags and hdl the handle ring.                     *)

Slots == 0 .. NDesc - 1
Wrap(i) == i % NDesc
NoDesc == [op |-> "nop", bad |-> FALSE, fence |-> FALSE, id |-> 0]

alloc_dsa(portal) ==
    [portal |-> portal, desc |-> [i \in 0 .. 2 * NDesc - 1 |-> NoDesc],
     status |-> [i \in Slots |-> 0], completed |-> [i \in Slots |-> 0],
     flags |-> [i \in Slots |-> "normal"], hdl |-> [i \in Slots |-> 0],
     batch_start |-> 0, batch_size |-> 0, hdls_read |-> 0, hdls_avail |-> 0,
     batch_idx_ring |-> [i \in 0 .. MaxBatches |-> 0], batch_idx_read |-> 0,
     batch_idx_write |-> 0]

BatchRingFull(d) ==
    \/ d.batch_idx_read = 0 /\ d.batch_idx_write = MaxBatches
    \/ d.batch_idx_write + 1 = d.batch_idx_read

dsa_burst_capacity(d) ==
    LET w == d.batch_start + d.batch_size
        used == (IF d.hdls_read > w THEN w + NDesc ELSE w) - d.hdls_read
        free == NDesc - 1 - used
    IN  IF BatchRingFull(d) \/ free < 2 THEN 0 ELSE free - 2

\* Writing a descriptor clears the completion status that lies at its place.
__idxd_write_desc(d, desc, has) ==
    LET w == d.batch_start + d.batch_size
    IN  IF \/ BatchRingFull(d)
           \/ Wrap(w + 2) = d.hdls_read
           \/ Wrap(w + 1) = d.hdls_read
        THEN [d |-> d, n |-> 0]
        ELSE [d |-> [d EXCEPT !.desc[w] = desc,
                              !.status = IF w < NDesc THEN [@ EXCEPT ![w] = 0] ELSE @,
                              !.flags[Wrap(w)] = IF has THEN @ ELSE "invalid",
                              !.hdl[Wrap(w)] = IF has THEN desc.id ELSE @,
                              !.batch_size = @ + 1],
              n |-> 1]

\* dsa_enqueue_copy and dsa_enqueue_fill; bad: an address is NULL
dsa_enqueue(d, op, bad, id) ==
    __idxd_write_desc(d, [op |-> op, bad |-> bad, fence |-> FALSE, id |-> id], TRUE)

__idxd_fence(d) ==
    __idxd_write_desc(d, [op |-> "nop", bad |-> FALSE, fence |-> TRUE, id |-> 0], FALSE)

\* What a batch does: [done: ids performed, tried: ids attempted, status:
\* error statuses by slot, completed: descriptors counted, ok].  It stops at
\* the first descriptor at or after a fence once one has failed.  Descriptors
\* performed, handles returned and sizes read are forgotten: nothing reads
\* them again.
RECURSIVE PerformFrom(_, _, _, _)
PerformFrom(d, b, i, r) ==
    IF i = b.size THEN [r EXCEPT !.completed = i]
    ELSE LET e == d.desc[b.start + i]
             bad == e.op # "nop" /\ e.bad
             fence == r.fence \/ e.fence
             s == [r EXCEPT !.fence = fence, !.ok = @ /\ ~bad,
                            !.done = IF e.op # "nop" /\ ~bad THEN @ \cup {e.id} ELSE @,
                            !.failed = IF bad THEN @ \cup {Wrap(b.start + i)} ELSE @]
         IN  IF fence /\ ~s.ok THEN [s EXCEPT !.completed = i] ELSE PerformFrom(d, b, i + 1, s)

dsa_perform_ops_in_software(d, b) ==
    LET r == PerformFrom(d, b, 0, [done |-> {}, failed |-> {}, completed |-> 0, ok |-> TRUE,
                                   fence |-> FALSE])
    IN  [d |-> [d EXCEPT !.status = [i \in Slots |->
                                        IF i = b.comp THEN IF r.ok THEN 1 ELSE 5
                                        ELSE IF i \in r.failed THEN 3 ELSE @[i]],
                         !.completed[b.comp] = r.completed,
                         !.desc = [i \in DOMAIN @ |-> IF i \in b.start .. b.start + b.size - 1
                                                      THEN NoDesc ELSE @[i]]],
         done |-> r.done]

\* [d, batch, ret]: the rings after the doorbell and the batch handed over
dsa_perform_ops(d0) ==
    LET f == IF d0.batch_size = 1 THEN __idxd_fence(d0) ELSE [d |-> d0, n |-> 1]
        d == f.d
        comp == Wrap(d.batch_start + d.batch_size)
        next == d.batch_idx_write + 1
    IN  IF f.n # 1 THEN [d |-> d0, batch |-> <<>>, ret |-> -1]
        ELSE [d |-> [d EXCEPT !.status[comp] = 0, !.completed[comp] = 0,
                              !.flags[comp] = "invalid",
                              !.batch_start = Wrap(@ + d.batch_size + 1), !.batch_size = 0,
                              !.batch_idx_ring[d.batch_idx_write] = comp,
                              !.batch_idx_write = IF next > MaxBatches THEN 0 ELSE next],
              batch |-> <<[start |-> d.batch_start, size |-> d.batch_size, comp |-> comp]>>,
              ret |-> 0]

\* the flags after a batch that ended at idx reported an error
BatchErrors(d, idx) ==
    LET start == d.hdls_avail
        len == (IF start > idx THEN idx + NDesc ELSE idx) - start
        At(i) == (i + NDesc - start) % NDesc
        counted == {i \in Slots : At(i) < d.completed[idx]}
        hit == {i \in counted : d.status[i] # 0 /\ d.flags[i] = "normal"}
        rest == {i \in Slots : At(i) >= d.completed[idx] /\ At(i) < len /\ d.flags[i] = "normal"}
    IN  [d EXCEPT !.flags = [i \in Slots |-> IF i \in hit THEN "failed"
                                             ELSE IF i \in rest THEN "skipped" ELSE @[i]],
                  !.status = [i \in Slots |-> IF i \in hit THEN 0 ELSE @[i]]]

RECURSIVE CheckBatches(_)
CheckBatches(d) ==
    LET idx == d.batch_idx_ring[d.batch_idx_read]
        st == d.status[idx]
        c == [d EXCEPT !.status[idx] = 0]
        e == IF st > 1 THEN BatchErrors(c, idx) ELSE c
        next == d.batch_idx_read + 1
    IN  IF d.batch_idx_read = d.batch_idx_write \/ st = 0 THEN d
        ELSE CheckBatches([e EXCEPT !.hdls_avail = Wrap(idx + 1),
                                    !.completed[idx] = 0, !.batch_idx_ring[d.batch_idx_read] = 0,
                                    !.batch_idx_read = IF next > MaxBatches THEN 0 ELSE next])

\* the handles from h on, at most max of them: [d, h, out]
RECURSIVE ReadHandles(_, _, _, _)
ReadHandles(d, h, max, out) ==
    IF h = d.hdls_avail THEN [d |-> d, h |-> h, out |-> out]
    ELSE LET flag == d.flags[h]
             o == IF flag = "invalid" THEN out ELSE Append(out, [id |-> d.hdl[h], st |-> flag])
             n == [d EXCEPT !.flags[h] = "normal", !.hdl[h] = 0]
         IN  IF Len(o) >= max THEN [d |-> n, h |-> Wrap(h + 1), out |-> o]
             ELSE ReadHandles(n, Wrap(h + 1), max, o)

\* Fault: blank elements after the last handle returned are kept for later
\* although their flags are cleared.
SkipBlankNot(d, h) == [d |-> [d EXCEPT !.flags[h] = "normal"], h |-> h]

RECURSIVE SkipBlank(_, _)
SkipBlank(d, h) ==
    IF d.flags[h] = "invalid" /\ h # d.hdls_avail
    THEN SkipBlank([d EXCEPT !.flags[h] = "normal"], Wrap(h + 1)) ELSE [d |-> d, h |-> h]

dsa_completed_ops(d, max) ==
    LET c == CheckBatches(d)
        r == ReadHandles(c, c.hdls_read, max, <<>>)
        s == SkipBlank(r.d, r.h)
    IN  [d |-> [s.d EXCEPT !.hdls_read = s.h], out |-> r.out]

\* todo: operations enqueued and not yet reported, in order, with what became
\* of each; flight: batches the device has; told: the last report was right;
\* stale: an operation that failed at or after a fence left its status behind.
DsaInit(portal) ==
    [d |-> alloc_dsa(portal), todo |-> <<>>, flight |-> <<>>, told |-> TRUE,
     stale |-> FALSE]

DEnqueue(x, op, bad) ==
    LET used == {x.todo[i].id : i \in DOMAIN x.todo}
        id == CHOOSE i \in 1 .. NDesc : i \notin used /\ \A j \in 1 .. i - 1 : j \in used
        r == dsa_enqueue(x.d, op, bad, id)
    IN  IF r.n = 0 THEN x
        ELSE [x EXCEPT !.d = r.d, !.todo = Append(@, [id |-> id, res |-> "none"])]

Performed(todo, done) ==
    [i \in DOMAIN todo |-> IF todo[i].id \in done THEN [todo[i] EXCEPT !.res = "done"] ELSE todo[i]]

Unreported(d, b) ==
    \E i \in d.completed[b.comp] .. b.size - 1 : d.status[Wrap(b.start + i)] = 3

DExecute(x, b, flight) ==
    LET r == dsa_perform_ops_in_software(x.d, b)
    IN  [x EXCEPT !.d = r.d, !.flight = flight, !.todo = Performed(@, r.done),
                  !.stale = @ \/ Unreported(r.d, b)]

DPerform(x) ==
    LET r == dsa_perform_ops(x.d)
    IN  IF r.ret # 0 THEN x
        ELSE IF x.d.portal THEN [x EXCEPT !.d = r.d, !.flight = @ \o r.batch]
        ELSE DExecute([x EXCEPT !.d = r.d], r.batch[1], <<>>)

\* A report is right when it names the oldest operations in order and calls
\* exactly those successful that were performed.
ReportRight(todo, out) ==
    /\ Len(out) <= Len(todo)
    /\ \A i \in DOMAIN out : /\ out[i].id = todo[i].id
                             /\ (out[i].st = "normal") = (todo[i].res = "done")

DCompleted(x, max) ==
    LET r == dsa_completed_ops(x.d, max)
        right == ReportRight(x.todo, r.out)
    IN  [x EXCEPT !.d = r.d, !.told = right,
                  !.todo = IF right THEN SubSeq(@, Len(r.out) + 1, Len(@)) ELSE @]

DsaNext ==
    /\ co.told /\ ~co.stale
    /\ \/ \E bad \in BOOLEAN :
             /\ Len(co.todo) < MaxOut
             /\ bad => Cardinality({i \in DOMAIN co.d.desc : co.d.desc[i].bad}) < MaxBad
             /\ co' = DEnqueue(co, "move", bad)
       \/ /\ Cardinality({i \in DOMAIN co.d.desc : co.d.desc[i].fence}) < MaxBad
          /\ co' = [co EXCEPT !.d = __idxd_fence(@).d]
       \/ co.d.batch_size > 0 /\ co' = DPerform(co)
       \/ \E i \in DOMAIN co.flight : co' = DExecute(co, co.flight[i], RemoveAt(co.flight, i))
       \/ \E max \in 1 .. 2 : co' = DCompleted(co, max)

RECURSIVE EnqueueN(_, _)
EnqueueN(d, n) ==
    IF n = 0 THEN [d |-> d, n |-> 1]
    ELSE LET r == dsa_enqueue(d, "fill", FALSE, 0) IN IF r.n = 0 THEN r ELSE EnqueueN(r.d, n - 1)

\* Every operation is reported exactly once, in the order of the calls, as
\* successful just when it was performed, whichever order the device finishes
\* its batches in; and the capacity dsa_burst_capacity promises can be
\* enqueued and started (dsa_enqueue_copy, dsa_perform_ops, dsa_completed_ops).
DsaRight ==
    /\ co.stale \/ co.told
    /\ LET c == dsa_burst_capacity(co.d)
           r == EnqueueN(co.d, c)
       IN  c > 0 => r.n = 1 /\ dsa_perform_ops(r.d).ret = 0

--------------------------------------------------------------------------------
(* Meters: the committed bucket tc and the other one, tx (excess or peak),   *)
(* each filled lazily at the next packet.                                    *)

Ceil(a, b) == (a + b - 1) \div b

\* [bytes, period]: cne_meter_get_tb_params; hz / rate is a double in the code
cne_meter_get_tb_params(hz, rate) ==
    IF rate = 0 THEN [bytes |-> 0, period |-> PeriodMin]
    ELSE IF hz >= PeriodMin * rate THEN [bytes |-> 1, period |-> hz \div rate]
    ELSE LET b == Ceil(PeriodMin * rate, hz) IN [bytes |-> b, period |-> (hz * b) \div rate]

\* which parameters the profile_config functions accept
profile_config(p) ==
    CASE p.kind = "srtcm" -> p.cir # 0 /\ (p.cbs # 0 \/ p.xbs # 0)
      [] p.kind = "trtcm" -> p.cir # 0 /\ p.xir # 0 /\ p.xir >= p.cir /\ p.cbs # 0 /\ p.xbs # 0
      [] p.kind = "rfc4115" -> (p.cir # 0 => p.cbs # 0) /\ (p.xir # 0 => p.xbs # 0)

Least(a, b) == IF a < b THEN a ELSE b

\* The bucket update of every check: [m, tc, tx].
BucketUpdate(m, p, time) ==
    LET c == cne_meter_get_tb_params(p.hz, p.cir)
        x == cne_meter_get_tb_params(p.hz, p.xir)
        nc == (time - m.time_tc) \div c.period
        nx == (time - m.time_tx) \div x.period
        tc == m.tc + nc * c.bytes
    IN  IF p.kind = "srtcm"
        THEN [m EXCEPT !.time_tc = @ + nc * c.period, !.tc = Least(tc, p.cbs),
                       !.tx = IF tc > p.cbs THEN Least(@ + tc - p.cbs, p.xbs) ELSE @]
        ELSE [m EXCEPT !.time_tc = @ + nc * c.period, !.time_tx = @ + nx * x.period,
                       !.tc = Least(tc, p.cbs), !.tx = Least(@ + nx * x.bytes, p.xbs)]

\* srTCM and RFC 4115: green from tc, else yellow from the excess bucket
ExcessColor(m, len, color) ==
    IF color = "green" /\ m.tc >= len THEN [m |-> [m EXCEPT !.tc = @ - len], color |-> "green"]
    ELSE IF color # "red" /\ m.tx >= len THEN [m |-> [m EXCEPT !.tx = @ - len], color |-> "yellow"]
    ELSE [m |-> m, color |-> "red"]

\* trTCM: the peak bucket pays for every packet that is not red
PeakColor(m, len, color) ==
    IF color = "red" \/ m.tx < len THEN [m |-> m, color |-> "red"]
    ELSE IF color = "yellow" \/ m.tc < len
    THEN [m |-> [m EXCEPT !.tx = @ - len], color |-> "yellow"]
    ELSE [m |-> [m EXCEPT !.tc = @ - len, !.tx = @ - len], color |-> "green"]

\* a colour-blind check treats every packet as green
color_check(m, p, time, len, color) ==
    LET u == BucketUpdate(m, p, time)
        c == IF p.aware THEN color ELSE "green"
    IN  IF p.kind = "trtcm" THEN PeakColor(u, len, c) ELSE ExcessColor(u, len, c)

\* The meter as its standards describe it: the buckets fill at every tick.
TickBucket(b, period, bytes, cap) ==
    IF b.wait + 1 < period THEN [wait |-> b.wait + 1, n |-> b.n, over |-> 0]
    ELSE [wait |-> 0, n |-> Least(b.n + bytes, cap),
          over |-> IF b.n + bytes > cap THEN b.n + bytes - cap ELSE 0]

Tick(x) ==
    LET c == cne_meter_get_tb_params(x.p.hz, x.p.cir)
        e == cne_meter_get_tb_params(x.p.hz, x.p.xir)
        bc == TickBucket(x.bc, c.period, c.bytes, x.p.cbs)
    IN  [x EXCEPT !.now = @ + 1, !.bc = bc,
                  !.bx = IF x.p.kind = "srtcm" THEN [@ EXCEPT !.n = Least(@ + bc.over, x.p.xbs)]
                         ELSE TickBucket(@, e.period, e.bytes, x.p.xbs)]

MeterInit(p) ==
    [p |-> p, m |-> [time_tc |-> 0, time_tx |-> 0, tc |-> p.cbs, tx |-> p.xbs], now |-> 0,
     bc |-> [wait |-> 0, n |-> p.cbs, over |-> 0], bx |-> [wait |-> 0, n |-> p.xbs, over |-> 0],
     same |-> TRUE]

MeterPacket(x, len, color) ==
    LET r == color_check(x.m, x.p, x.now, len, color)
        ideal == [tc |-> x.bc.n, tx |-> x.bx.n]
        c == IF x.p.aware THEN color ELSE "green"
        w == IF x.p.kind = "trtcm" THEN PeakColor(ideal, len, c) ELSE ExcessColor(ideal, len, c)
    IN  [x EXCEPT !.m = r.m, !.bc.n = w.m.tc, !.bx.n = w.m.tx, !.same = r.color = w.color]

MeterNext ==
    \/ co.now < MaxTime /\ co' = Tick(co)
    \/ \E len \in PktLens, color \in {"green", "yellow", "red"} :
          (co.p.aware \/ color = "green") /\ co' = MeterPacket(co, len, color)

\* A meter that fills its buckets only when a packet comes colours every
\* packet as one that fills them at every tick, and the period it rounds to
\* is neither zero nor slower than the rate (cne_meter_get_tb_params and the
\* six color checks).
MeterRight ==
    /\ co.same
    /\ \A rate \in {co.p.cir, co.p.xir} \ {0} :
         LET t == cne_meter_get_tb_params(co.p.hz, rate)
         IN  /\ t.period >= PeriodMin
             /\ rate * t.period <= co.p.hz * t.bytes
             /\ co.p.hz * t.bytes < rate * (t.period + 1)

--------------------------------------------------------------------------------
(* mmap regions.  Types are 0 (4KB), 1 (2MB), 2 (1GB).                       *)

MTypes == 0 .. 2
AlignUp(n, a) == Ceil(n, a) * a

\* __alloc_mem at typ, falling through to smaller pages where mmap fails: the
\* type mapped, or -1
MapFrom(typ, fails) ==
    LET ok == (0 .. typ) \ fails IN IF ok = {} THEN -1 ELSE CHOOSE t \in ok : \A u \in ok : u <= t

\* After a SIGBUS at the mapped type the next smaller one is asked for; a
\* SIGBUS at 4KB gives up.  [req, typ, maps, lost]: the type asked for last,
\* the one mapped, and the mappings left when munmap fails.
RECURSIVE TouchFrom(_, _, _, _)
TouchFrom(req, fails, bus, stuck) ==
    LET t == MapFrom(req, fails)
    IN  IF t < 0 THEN [req |-> req, typ |-> -1, left |-> 0]
        ELSE IF t \notin bus THEN [req |-> req, typ |-> t, left |-> 0]
        ELSE IF stuck THEN [req |-> req, typ |-> -1, left |-> 1]
        ELSE IF t = 0 THEN [req |-> req, typ |-> -1, left |-> 0]
        ELSE TouchFrom(t - 1, fails, bus, stuck)

\* What is accounted goes to the type asked for, not the one mapped.
mmap_alloc(x, cnt, sz, typ, fails, bus, stuck) ==
    LET req == IF typ \in MTypes THEN typ ELSE 0
        r == TouchFrom(req, fails, bus, stuck)
        len == AlignUp(cnt * sz, PageSz[r.typ])
    IN  IF cnt = 0 \/ sz = 0 THEN x
        ELSE IF r.typ < 0 THEN [x EXCEPT !.leaked = @ + r.left]
        ELSE [x EXCEPT !.allocated[r.req] = @ + len, !.num_allocated[r.req] = @ + 1,
                       !.live = Append(@, [typ |-> r.typ, sz |-> len, need |-> cnt * sz]),
                       !.moved = @ \/ r.req # r.typ]

mmap_free(x, i, stuck) ==
    LET m == x.live[i]
    IN  IF stuck THEN x
        ELSE [x EXCEPT !.freed[m.typ] = @ + m.sz, !.num_freed[m.typ] = @ + 1,
                       !.live = RemoveAt(@, i)]

mmap_addr_at_offset(m, off) == off <= m.sz

MmapInit ==
    [live |-> <<>>, allocated |-> [t \in MTypes |-> 0], num_allocated |-> [t \in MTypes |-> 0],
     freed |-> [t \in MTypes |-> 0], num_freed |-> [t \in MTypes |-> 0], leaked |-> 0,
     moved |-> FALSE, calls |-> 0]

MmapNext ==
    \/ /\ co.calls < MaxRegions
       /\ \E cnt \in 0 .. 2, typ \in 0 .. 3, fails \in SUBSET MTypes, bus \in SUBSET MTypes,
             stuck \in BOOLEAN :
             co' = [mmap_alloc(co, cnt, 3, typ, fails, bus, stuck) EXCEPT !.calls = @ + 1]
    \/ \E i \in DOMAIN co.live, stuck \in BOOLEAN : co' = mmap_free(co, i, stuck)

SumOf(f) == FoldLeft(LAMBDA n, i : n + f[i - 1], 0, [i \in 1 .. 3 |-> i])

\* Every region is a whole number of its own pages and holds its buffers; the
\* totals of what was allocated and freed differ by the regions that live,
\* type by type as long as no request fell back to smaller pages (mmap_alloc,
\* mmap_free).
MmapRight ==
    LET sizes(t) == FoldLeft(LAMBDA n, m : IF m.typ = t THEN n + m.sz ELSE n, 0, co.live)
        count(t) == Len(SelectSeq(co.live, LAMBDA m : m.typ = t))
    IN  /\ \A i \in DOMAIN co.live : LET m == co.live[i] IN
             /\ m.sz % PageSz[m.typ] = 0
             /\ mmap_addr_at_offset(m, m.need)
        /\ SumOf(co.allocated) - SumOf(co.freed) = SumOf([t \in MTypes |-> sizes(t)])
        /\ SumOf(co.num_allocated) - SumOf(co.num_freed) = Len(co.live)
        /\ ~co.moved => \A t \in MTypes :
             /\ co.allocated[t] - co.freed[t] = sizes(t)
             /\ co.num_allocated[t] - co.num_freed[t] = count(t)

--------------------------------------------------------------------------------
(* kvargs.  A text is a sequence of characters; "k" and "w" stand for words.  *)

\* strtok_r with a limit: the maximal runs without a delimiter, at most max
cne_strtok(text, delims, max) ==
    LET cut == FoldLeft(LAMBDA acc, c : IF c \in delims THEN Append(acc, <<>>)
                                        ELSE [acc EXCEPT ![Len(acc)] = Append(@, c)],
                        << <<>> >>, text)
        runs == SelectSeq(cut, LAMBDA r : r # <<>>)
    IN  SubSeq(runs, 1, Least(max, Len(runs)))

PairDelim(text) == IF Range(text) \cap {"[", "]"} # {} THEN ";" ELSE ","

\* [ok, pairs]
Paired(pairs) ==
    IF pairs = <<>> \/ \E i \in DOMAIN pairs : Len(pairs[i]) # 2
    THEN [ok |-> FALSE, pairs |-> <<>>] ELSE [ok |-> TRUE, pairs |-> pairs]

SplitPairs(parts) == Paired([i \in DOMAIN parts |-> cne_strtok(parts[i], {"="}, 3)])

kvargs_tokenize(text) == SplitPairs(cne_strtok(text, {PairDelim(text)}, KvMax))

check_for_valid_keys(pairs) == \A i \in DOMAIN pairs : pairs[i][1] \in KvValid

Checked(t) == IF ~t.ok \/ ~check_for_valid_keys(t.pairs) THEN [ok |-> FALSE, pairs |-> <<>>] ELSE t

kvargs_parse(text) ==
    IF text = <<>> THEN [ok |-> FALSE, pairs |-> <<>>] ELSE Checked(kvargs_tokenize(text))

kvargs_parse_delim(text, ends) ==
    LET stop == {i \in DOMAIN text : text[i] \in ends}
    IN  kvargs_parse(IF stop = {} THEN text
                     ELSE SubSeq(text, 1, (CHOOSE i \in stop : \A j \in stop : i <= j) - 1))

kvargs_count(pairs, key) == Cardinality({i \in DOMAIN pairs : pairs[i][1] = key})

\* the values handed to a handler that refuses the value bad: [seen, ret]
kvargs_process(pairs, key, bad) ==
    FoldLeft(LAMBDA acc, p : IF acc.ret < 0 \/ p[1] # key THEN acc
                             ELSE [seen |-> Append(acc.seen, p[2]),
                                   ret |-> IF p[2] = bad THEN -1 ELSE 0],
             [seen |-> <<>>, ret |-> 0], pairs)

\* The pairs a text denotes, position by position: a delimiter ends a part
\* and only the first KvMax parts count.
Parts(text) ==
    LET d == PairDelim(text)
        starts == {i \in DOMAIN text : text[i] # d /\ (i = 1 \/ text[i - 1] = d)}
        EndOf(i) == CHOOSE j \in i .. Len(text) :
                       /\ \A l \in i .. j : text[l] # d
                       /\ j = Len(text) \/ text[j + 1] = d
    IN  {<<i, EndOf(i)>> : i \in {s \in starts : Cardinality({q \in starts : q < s}) < KvMax}}

TwoWords(text, part) ==
    Cardinality({i \in part[1] .. part[2] : text[i] # "=" /\ (i = part[1] \/ text[i - 1] = "=")}) = 2

KvRightFor(r, parts) ==
    LET keyed(part) == \E w \in KvValid, i \in part[1] .. part[2] :
                          /\ \A j \in part[1] .. i - 1 : co[j] = "="
                          /\ IsPrefix(w \o <<"=">>, SubSeq(co, i, part[2]))
    IN  /\ r.ok => parts # {} /\ Len(r.pairs) = Cardinality(parts)
        /\ r.ok <=> parts # {} /\ \A q \in parts : TwoWords(co, q) /\ keyed(q)
        /\ kvargs_parse_delim(co, {}) = r
        /\ kvargs_parse_delim(co \o <<"|">> \o co, {"|"}) = r
        /\ r.ok => \A k \in KvValid :
             LET all == kvargs_process(r.pairs, k, <<>>)
                 some == kvargs_process(r.pairs, k, <<"w">>)
             IN  /\ all.ret = 0 /\ Len(all.seen) = kvargs_count(r.pairs, k)
                 /\ IsPrefix(some.seen, all.seen)
                 /\ (some.ret < 0) = (<<"w">> \in Range(all.seen))
                 /\ some.ret = 0 => some.seen = all.seen

\* A text is accepted just when each of its parts is one key and one value,
\* the keys being valid, the pairs keep their order, and a handler sees the
\* values of its key up to the first it refuses (kvargs_parse, kvargs_process).
KvRight == KvRightFor(kvargs_parse(co), Parts(co))

--------------------------------------------------------------------------------
(* uid.  bitmap: the ids that are not allocated; pc[t] = "lock": past the    *)
(* first check of uid_alloc, which is made without the mutex; serial: callers *)
(* exclude each other, as those of cne_register do; held: the ids each thread *)
(* has; stray: a bit outside of the bitmap was cleared.                       *)

UidInit(serial) ==
    [serial |-> serial, bitmap |-> 0 .. MaxIds - 1, allocated |-> 0,
     pc |-> [t \in UidThreads |-> "idle"], held |-> [t \in UidThreads |-> {}], stray |-> FALSE]

\* if (e && e->allocated < e->max_ids)
uid_alloc(x, t) == IF x.allocated < MaxIds THEN [x EXCEPT !.pc[t] = "lock"] ELSE x

\* bit_ffs leaves -1 when no bit is set, and bit_clear(-1) is what follows
AllocLocked(x, t) ==
    LET found == {id \in x.bitmap : \A j \in x.bitmap : id <= j}
    IN  [x EXCEPT !.pc[t] = "idle", !.allocated = @ + 1, !.bitmap = @ \ found,
                  !.held[t] = @ \cup found, !.stray = @ \/ found = {}]

\* freeing an id twice, or one out of range, does nothing
uid_free(x, t, uid) ==
    LET out == uid \in 0 .. MaxIds - 1 /\ uid \notin x.bitmap
    IN  [x EXCEPT !.bitmap = IF out THEN @ \cup {uid} ELSE @,
                  !.allocated = IF out THEN @ - 1 ELSE @, !.held[t] = @ \ {uid}]

UidNext ==
    \E t \in UidThreads :
      \/ /\ co.pc[t] = "idle" /\ (co.serial => \A u \in UidThreads : co.pc[u] = "idle")
         /\ \/ co' = uid_alloc(co, t)
            \/ \E uid \in co.held[t] \cup co.bitmap \cup {-1, MaxIds} : co' = uid_free(co, t, uid)
      \/ co.pc[t] = "lock" /\ co' = AllocLocked(co, t)

\* No id is given to two holders, not even when allocations race past the
\* check of the last one; and uid_allocated is the number of ids that are out
\* when they do not, so that no free id is withheld (uid_alloc, uid_free).
UidRight ==
    /\ \A t, u \in UidThreads : t # u => co.held[t] \cap co.held[u] = {}
    /\ \A t \in UidThreads : co.held[t] \cap co.bitmap = {}
    /\ co.serial => co.allocated = MaxIds - Cardinality(co.bitmap) /\ ~co.stray

--------------------------------------------------------------------------------

CoInit ==
    /\ comode \in CoModes
    /\ \/ comode = "hmap" /\ \E c \in HCases : co = HmapInit(c)
       \/ comode = "dsa" /\ \E portal \in Portals : co = DsaInit(portal)
       \/ comode = "meter" /\ \E p \in {q \in Profiles : profile_config(q)} : co = MeterInit(p)
       \/ comode = "mmap" /\ co = MmapInit
       \/ comode = "kvargs" /\ co \in KvTexts
       \/ comode = "uid" /\ \E serial \in BOOLEAN : co = UidInit(serial)

CoNext ==
    /\ UNCHANGED comode
    /\ \/ comode = "hmap" /\ HmapNext
       \/ comode = "dsa" /\ DsaNext
       \/ comode = "meter" /\ MeterNext
       \/ comode = "mmap" /\ MmapNext
       \/ comode = "uid" /\ UidNext

CoSpec == CoInit /\ [][CoNext]_<<comode, co>>

\* Each of the libraries keeps its books right.
ContainersRight ==
    CASE comode = "hmap" -> HmapRight
      [] comode = "dsa" -> DsaRight
      [] comode = "meter" -> MeterRight
      [] comode = "mmap" -> MmapRight
      [] comode = "kvargs" -> KvRight
      [] comode = "uid" -> UidRight
================================================================================
