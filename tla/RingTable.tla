------------------------------ MODULE RingTable ------------------------------
(***************************************************************************)
(* How cne_ring_init lays a ring out in memory, and how the unrolled copy  *)
(* loops of cne_ring_generic.h and cne_ring_elem.h move a caller's table   *)
(* in and out of it.  CneRing takes both for granted: there a ring has     *)
(* more slots than capacity, and a copy moves object i to slot             *)
(* (head + i) & mask.  Integers are uint32_t, with 2^W for 2^32.           *)
(***************************************************************************)
EXTENDS Integers, FiniteSets, FiniteSetsExt

CONSTANTS
  W,          \* the width of unsigned int
  CacheLine,  \* CNE_CACHE_LINE_SIZE
  HdrSize,    \* sizeof(struct cne_ring)
  ESizes,     \* the element sizes asked for
  Counts,     \* the counts asked for
  Areas,      \* the sizes of memory areas that callers supply
  Heads,      \* the values of the index that calls find
  MaxNum      \* bound on the objects of a call

NULL == [size |-> 0, capacity |-> 0, esize |-> 0, room |-> 0]

VARIABLES
  ring,   \* the ring, and the bytes behind its address
  errno,
  call,   \* the last call: the head and number of the objects last moved
  mem,    \* the words written: <<word of the ring, word of the objects>>
  out     \* the words a dequeue read: <<word of its table, word of the objects>>

NoCall == [op |-> "none", head |-> 0, num |-> 0, from |-> 0]

vars == <<ring, errno, call, mem, out>>

U(x) == x % 2^W
POWEROF2(x) == x \in {0} \cup {2^k : k \in 0 .. W - 1}
SizeMask == 2^(W - 1) - 1
DfltElemSize(esize) == IF esize = 0 THEN 8 ELSE esize

(* All bits below the highest one set. *)
cne_combine32ms1b(v) == Min({2^k : k \in 0 .. W} \ 0 .. v) - 1
cne_align32pow2(x) == U(cne_combine32ms1b(U(x - 1)) + 1)

MemSize(esize, count) ==
  CacheLine * ((HdrSize + count * DfltElemSize(esize) + CacheLine - 1) \div CacheLine)

(* For an exact size ring, round up from count to a power of two. *)
Rounded(count, exact) == IF exact THEN cne_align32pow2(U(count + 1)) ELSE count

cne_ring_setup(esize, count, exact, room) ==
  ring' = [size |-> Rounded(count, exact),
           capacity |-> IF exact THEN count ELSE U(Rounded(count, exact) - 1),
           esize |-> DfltElemSize(esize), room |-> room]

(* area is the size of the caller's memory, or 0 for calloc. *)
cne_ring_init(esize, count, exact, area) ==
  LET size == Rounded(count, exact) IN
  /\ ring = NULL
  /\ \/ /\ \/ count = 0 \/ DfltElemSize(esize) % 4 # 0
           \/ ~POWEROF2(size) \/ size > SizeMask
        /\ errno' = "EINVAL" /\ UNCHANGED ring
     \/ /\ count # 0 /\ DfltElemSize(esize) % 4 = 0
        /\ POWEROF2(size) /\ size <= SizeMask
        /\ IF area # 0 /\ MemSize(esize, size) > area
           THEN errno' = "ENOMEM" /\ UNCHANGED ring
           ELSE /\ errno' = "none"
                /\ cne_ring_setup(esize, count, exact,
                     IF area = 0 THEN MemSize(esize, size) ELSE area)
  /\ UNCHANGED <<call, mem, out>>

(***************************************************************************)
(* The copy loops, as the pairs of words they copy: unrolled when the n    *)
(* words end before the end of the ring, in two runs otherwise.            *)
(***************************************************************************)
Unrolled(unroll, idx, n) ==
  LET whole == n - (n % unroll) IN
  {<<idx + i + j, i + j>> : i \in {k \in 0 .. whole - 1 : k % unroll = 0}, j \in 0 .. unroll - 1}
    \cup {<<idx + i, i>> : i \in whole .. n - 1}

(* Fault: the second run does not go back to the beginning. *)
TwoRunsNoWrap(size, idx, n) == {<<idx + i, i>> : i \in 0 .. n - 1}

TwoRuns(size, idx, n) ==
  LET first == Max({0, size - idx}) IN
  {<<idx + i, i>> : i \in 0 .. first - 1} \cup {<<i - first, i>> : i \in first .. n - 1}

Copied(unroll, size, idx, n) ==
  IF U(idx + n) < size THEN Unrolled(unroll, idx, n) ELSE TwoRuns(size, idx, n)

(* head & r->mask *)
Masked(r, head) == IF r.size = 0 THEN head ELSE head % r.size

(* Two words an element for the 8-byte loops, which are copied together. *)
elems_64(r, head, num) ==
  {<<2 * c[1] + w, 2 * c[2] + w>> : c \in Copied(4, r.size, Masked(r, head), num), w \in {0, 1}}

(* Normalized to uint32_t. *)
elems_32(r, head, num) ==
  LET scale == r.esize \div 4 IN
  Copied(8, U(r.size * scale), U(Masked(r, head) * scale), U(num * scale))

Elems(r, head, num) ==
  IF r.esize = 8 THEN elems_64(r, head, num) ELSE elems_32(r, head, num)

Init ==
  /\ ring = NULL /\ errno = "none"
  /\ call = NoCall /\ mem = {} /\ out = {}

Enqueue(head, num) ==
  /\ ring # NULL /\ call = NoCall
  /\ num <= ring.capacity
  /\ call' = [op |-> "enqueue", head |-> head, num |-> num, from |-> 0]
  /\ mem' = Elems(ring, head, num)
  /\ UNCHANGED <<ring, errno, out>>

(* num of the objects are dequeued, from the k-th on. *)
Dequeue(k, num) ==
  /\ call.op = "enqueue"
  /\ k + num <= call.num
  /\ call' = [op |-> "dequeue", head |-> U(call.head + k), num |-> num, from |-> k]
  /\ LET read == Elems(ring, U(call.head + k), num) IN
     out' = {<<x[1][2], x[2][2]>> : x \in {y \in read \X mem : y[1][1] = y[2][1]}}
  /\ UNCHANGED <<ring, errno, mem>>

(* The objects are gone; cne_ring_free ends the life of the ring. *)
cne_ring_free ==
  /\ ring # NULL
  /\ ring' = NULL /\ errno' = "none"
  /\ call' = NoCall /\ mem' = {} /\ out' = {}

Next ==
  \/ \E esize \in ESizes, count \in Counts, exact \in BOOLEAN, area \in Areas \cup {0} :
       cne_ring_init(esize, count, exact, area)
  \/ \E head \in Heads, num \in 1 .. MaxNum : Enqueue(head, num)
  \/ \E k \in 0 .. MaxNum, num \in 1 .. MaxNum : Dequeue(k, num)
  \/ cne_ring_free

Spec == Init /\ [][Next]_vars

(***************************************************************************)
(* Properties.                                                             *)
(***************************************************************************)
(* What cne_ring_init promises CneRing, whatever count, flags and memory   *)
(* it is called with: more slots than capacity, a power of two of them, so *)
(* that the mask works, and all of them inside the memory of the ring.     *)
RoomForCapacity ==
  ring # NULL =>
    /\ ring.capacity < ring.size
    /\ ring.size \in {2^k : k \in 0 .. W - 1}
    /\ HdrSize + ring.size * ring.esize <= ring.room

(* The enqueue loops put element e in the slot (head + e) & mask, for every *)
(* head up to the wrap of the index, and write nowhere else.               *)
Placed ==
  call.op = "enqueue" =>
    LET words == ring.esize \div 4 IN
    mem = {<<((call.head + e) % ring.size) * words + w, e * words + w>> :
             e \in 0 .. call.num - 1, w \in 0 .. words - 1}

(* The dequeue loops give back the objects that were put in, in order,     *)
(* also when the calls that take them out are cut differently.             *)
RoundTrip ==
  call.op = "dequeue" =>
    LET words == ring.esize \div 4 IN
    out = {<<i, call.from * words + i>> : i \in 0 .. call.num * words - 1}
=============================================================================
