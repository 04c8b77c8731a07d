------------------------------- MODULE Pktcpy -------------------------------
(***************************************************************************)
(* cne_pktcpy of cne_pktcpy.h, the copy of a packet's bytes with vector    *)
(* registers, for the three instruction sets it is compiled for.  A copy   *)
(* is a handful of block moves that may overlap each other, the last one   *)
(* reckoned back from the end; dst and src are how far the two pointers    *)
(* have come from where the caller set them.  The buffers do not overlap.  *)
(***************************************************************************)
EXTENDS Integers, TLAPS

CONSTANTS
  Isas,    \* the instruction sets, of "sse", "avx2" and "avx512"
  Sizes,   \* the lengths asked for
  Addrs    \* where a buffer may start: its address modulo 64

VARIABLES
  isa, size, daddr, saddr,  \* the build, and the arguments of the call
  pc,                       \* the label that is next
  dst, src, n,              \* the pointers, and how many bytes are left
  moved,                    \* what the loop that is running has moved
  w                         \* what has been written and read, see Put

call == <<isa, size, daddr, saddr>>
vars == <<call, pc, dst, src, n, moved, w>>

Lesser(a, b) == IF a < b THEN a ELSE b
Greater(a, b) == IF a > b THEN a ELSE b

(* Bytes 0 .. done - 1 are copies of the source's; no byte below lo or     *)
(* from hi on has been written, none below rlo or from rhi on read.        *)
Nothing == [done |-> 0, lo |-> 0, hi |-> 0, rlo |-> 0, rhi |-> 0]

(* k bytes are stored at to, out of the len bytes read at from; they are   *)
(* copies if both are at the same distance from the start.                 *)
Stored(x, to, k, from, len, same) ==
  [done |-> IF same /\ to <= x.done /\ x.done < to + k THEN to + k ELSE x.done,
   lo |-> Lesser(x.lo, to), hi |-> Greater(x.hi, to + k),
   rlo |-> Lesser(x.rlo, from), rhi |-> Greater(x.rhi, from + len)]

(* cne_mov16 .. cne_mov256: so many registers of so many bytes. *)
mov_avx512(k) == IF k < 64 THEN [regs |-> 1, bytes |-> k] ELSE [regs |-> k \div 64, bytes |-> 64]
mov_avx2(k) == IF k < 32 THEN [regs |-> 1, bytes |-> k] ELSE [regs |-> k \div 32, bytes |-> 32]
mov_sse(k) == [regs |-> k \div 16, bytes |-> 16]

Width(k) ==
  LET m == CASE isa = "avx512" -> mov_avx512(k)
             [] isa = "avx2" -> mov_avx2(k)
             [] isa = "sse" -> mov_sse(k)
  IN  m.regs * m.bytes

(* cne_mov<k>(dst + o, src + o) *)
cne_mov(x, o, k) == Stored(x, dst + o, Width(k), src + o, Width(k), dst = src)

(* Less than 16 bytes: one, two, four and eight, as the bits of n say. *)
Bit(b) == b * ((n \div b) % 2)
Scalar(x, o, k) ==
  IF k = 0 THEN x ELSE Stored(x, dst + o, k, src + o, k, dst = src)
Scalars ==
  Scalar(Scalar(Scalar(Scalar(w, 0, Bit(1)), Bit(1), Bit(2)),
                Bit(1) + Bit(2), Bit(4)), Bit(1) + Bit(2) + Bit(4), Bit(8))

-----------------------------------------------------------------------------
Goto(label) == pc' = label /\ UNCHANGED <<call, dst, src, n, moved, w>>

Return(x) == pc' = "return" /\ w' = x /\ UNCHANGED <<call, dst, src, n, moved>>

Advance(by, left) == dst' = dst + by /\ src' = src + by /\ n' = left

(* A block of k bytes, if there is one, on the way to the label. *)
Take(k, label) ==
  /\ pc' = label
  /\ IF n >= k THEN w' = cne_mov(w, 0, k) /\ Advance(k, n - k) ELSE UNCHANGED <<w, dst, src, n>>
  /\ UNCHANGED <<call, moved>>

(* What is left, with the last k bytes reckoned back from the end. *)
Last(k) ==
  Return(IF n > k THEN cne_mov(cne_mov(w, 0, k), n - k, k)
         ELSE IF n > 0 THEN cne_mov(w, n - k, k) ELSE w)

(* Both ends, which meet in the middle. *)
Ends(k) == Return(cne_mov(cne_mov(w, 0, k), n - k, k))

(* Make the stores aligned: k bytes, of which the next block repeats some. *)
Align(k, ofs, by, label) ==
  /\ pc' = label
  /\ IF ofs > 0 THEN w' = cne_mov(w, 0, k) /\ Advance(by, n - by)
     ELSE UNCHANGED <<w, dst, src, n>>
  /\ UNCHANGED <<call, moved>>

(* cne_mov<k>blocks, which moves its own copies of the pointers, and the   *)
(* caller's bits, which are what it moved.                                 *)
Blocks(k, label) ==
  \/ /\ n - moved >= k
     /\ w' = cne_mov(w, moved, k) /\ moved' = moved + k
     /\ UNCHANGED <<call, pc, dst, src, n>>
  \/ /\ n - moved < k
     /\ pc' = label /\ moved' = 0
     /\ Advance(n - (n % k), n % k)
     /\ UNCHANGED <<call, w>>

cne_pktcpy_generic_avx512 ==
  \/ /\ pc = "generic"
     /\ \/ n < 16 /\ Return(Scalars)
        \/ n \in 16 .. 32 /\ Ends(16)
        \/ n \in 33 .. 64 /\ Ends(32)
        \/ n \in 65 .. 512 /\ Goto("256")
        \/ n > 512 /\ Align(64, daddr % 64, 64 - (daddr % 64), "512blocks")
  \/ pc = "256" /\ Take(256, "128")
  \/ pc = "128" /\ Take(128, "back")
  \/ pc = "512blocks" /\ Blocks(512, "128blocks")
  \/ pc = "128blocks" /\ Blocks(128, "back")
  \/ pc = "back" /\ Last(64)

cne_pktcpy_generic_avx2 ==
  \/ /\ pc = "generic"
     /\ \/ n < 16 /\ Return(Scalars)
        \/ n \in 16 .. 32 /\ Ends(16)
        \/ n \in 33 .. 48 /\ Return(cne_mov(cne_mov(cne_mov(w, 0, 16), 16, 16), n - 16, 16))
        \/ n \in 49 .. 64 /\ Ends(32)
        \/ n \in 65 .. 256 /\ Goto("128")
        \/ n > 256 /\ Align(32, daddr % 32, 32 - (daddr % 32), "128blocks")
  \/ pc = "128" /\ Take(128, "64")
  \/ pc = "128blocks" /\ Blocks(128, "64")
  \/ pc = "64" /\ Take(64, "back")
  \/ pc = "back" /\ Last(32)

-----------------------------------------------------------------------------
(* One turn of a loop of MOVEUNALIGNED_LEFT47_IMM: k bytes are stored, out *)
(* of registers loaded from 16-byte boundaries before and behind them.     *)
Unaligned(k, offset) ==
  /\ n >= k + 16 - offset
  /\ w' = Stored(w, dst, k, src - offset, k + 16, dst = src)
  /\ Advance(k, n - k)
  /\ UNCHANGED <<call, pc, moved>>

(* Behind the loop: len = ((len - 16 + offset) & (k - 1)) + 16 - offset *)
LeftUnshifted(k, offset) == (n - 16 + offset) % k  \* fault: rounds len itself
Left(k, offset) == ((n - 16 + offset) % k) + 16 - offset
UnalignedEnd(k, offset, label) ==
  /\ n < k + 16 - offset
  /\ Advance(n - Left(k, offset), Left(k, offset))
  /\ pc' = label
  /\ UNCHANGED <<call, moved, w>>

MOVEUNALIGNED_LEFT47(offset) ==
  \/ /\ pc = "unaligned128"
     /\ \/ Unaligned(128, offset)
        \/ UnalignedEnd(128, offset,
                        IF Left(128, offset) >= 48 - offset THEN "unaligned32" ELSE "32")
  \/ /\ pc = "unaligned32"
     /\ Unaligned(32, offset) \/ UnalignedEnd(32, offset, "32")

cne_pktcpy_generic_sse ==
  \/ /\ pc = "generic"
     /\ \/ n < 16 /\ Return(Scalars)
        \/ n \in 16 .. 32 /\ Ends(16)
        \/ n \in 33 .. 48 /\ Return(cne_mov(cne_mov(w, 0, 32), n - 16, 16))
        \/ n \in 49 .. 64 /\ Return(cne_mov(cne_mov(cne_mov(w, 0, 32), 32, 16), n - 16, 16))
        \/ n \in 65 .. 128 /\ Goto("64")
        \/ n \in 129 .. 512 /\ Goto("256")
        \/ n > 512 /\ Align(32, daddr % 16, 32 - (daddr % 16), "aligned")
  \/ pc = "256" /\ Take(256, "128")
  \/ pc = "128" /\ Take(128, "64")
  \/ pc = "64" /\ Take(64, "32")
  \/ pc = "32" /\ Take(32, "back")
  \/ pc = "back" /\ Last(16)
  \/ pc = "aligned" /\ Goto(IF (saddr + src) % 16 = 0 THEN "256s" ELSE "unaligned128")
  \/ pc = "256s" /\ IF n >= 256 THEN Take(256, "256s") ELSE Goto("128")
  \/ MOVEUNALIGNED_LEFT47((saddr + src) % 16)

cne_pktcpy_aligned ==
  \/ /\ pc = "blocks"
     /\ \/ n < 16 /\ Return(Scalars)
        \/ n \in 16 .. 32 /\ Ends(16)
        \/ n \in 33 .. 64 /\ Ends(32)
        \/ n > 64 /\ Goto("64s")
  \/ /\ pc = "64s"
     /\ IF n >= 64 THEN Take(64, "64s") ELSE Return(cne_mov(w, n - 64, 64))

ALIGNMENT == CASE isa = "avx512" -> 64 [] isa = "avx2" -> 32 [] isa = "sse" -> 16

cne_pktcpy ==
  /\ pc = "call"
  /\ Goto(IF daddr % ALIGNMENT = 0 /\ saddr % ALIGNMENT = 0 THEN "blocks" ELSE "generic")

Init ==
  /\ isa \in Isas /\ size \in Sizes /\ daddr \in Addrs /\ saddr \in Addrs
  /\ pc = "call" /\ dst = 0 /\ src = 0 /\ n = size /\ moved = 0 /\ w = Nothing

Next ==
  \/ cne_pktcpy
  \/ cne_pktcpy_aligned
  \/ isa = "avx512" /\ cne_pktcpy_generic_avx512
  \/ isa = "avx2" /\ cne_pktcpy_generic_avx2
  \/ isa = "sse" /\ cne_pktcpy_generic_sse

Spec == Init /\ [][Next]_vars

-----------------------------------------------------------------------------
(* A call of cne_pktcpy that returns has copied every byte of the packet,  *)
(* and at no time has it written outside the destination or read behind    *)
(* the source's end; it reads before the source's start only inside the    *)
(* 16-byte line that this is in, whatever the length, the addresses and    *)
(* the instruction set.                                                    *)
CopyExact ==
  /\ pc = "return" => w.done = size
  /\ w.lo >= 0 /\ w.hi <= size
  /\ w.rlo >= 0 - (saddr % 16) /\ w.rhi <= size

-----------------------------------------------------------------------------
(***************************************************************************)
(* CopyExact holds for every length, address and instruction set.  The     *)
(* invariant: dst and src are equal and n is what is left behind them; all *)
(* that is before them, or that the running loop has moved, is copied; and *)
(* a label is reached only with few enough bytes left for the moves that   *)
(* follow it, and with enough bytes before them for the moves that reach   *)
(* back.                                                                   *)
(***************************************************************************)
Arguments == Isas \subseteq {"sse", "avx2", "avx512"} /\ Sizes \subseteq Nat /\ Addrs \subseteq Nat

Writes == [done : Int, lo : Int, hi : Int, rlo : Int, rhi : Int]

(* Nothing outside the buffers, and the first d bytes copied. *)
Sound(x, d) ==
  /\ x \in Writes
  /\ x.lo >= 0 /\ x.hi <= size /\ x.rlo >= 0 - (saddr % 16) /\ x.rhi <= size
  /\ d <= x.done /\ x.done <= size

Typed ==
  /\ isa \in {"sse", "avx2", "avx512"} /\ size \in Nat /\ daddr \in Nat /\ saddr \in Nat
  /\ dst \in Nat /\ src = dst /\ n \in Nat /\ dst + n = size
  /\ moved \in Nat /\ moved <= n
  /\ Sound(w, dst + moved)

Start == {"call", "generic", "blocks"}

AtMost(label, k) == pc = label => n <= k

Labels ==
  /\ pc \in Start => dst = 0 /\ moved = 0
  /\ pc \notin Start \cup {"return"} => size > 64
  /\ pc \notin {"512blocks", "128blocks"} => moved = 0
  /\ pc = "512blocks" => isa = "avx512" /\ moved % 512 = 0
  /\ pc = "128blocks" => isa # "sse" /\ moved % 128 = 0
  /\ AtMost("256", 512) /\ AtMost("128", 256) /\ AtMost("64", 128) /\ AtMost("32", 64)
  /\ isa = "avx512" => AtMost("back", 128)
  /\ isa = "avx2" => AtMost("back", 64)
  /\ isa = "sse" => AtMost("back", 32)
  /\ pc \in {"aligned", "unaligned128", "unaligned32"} => dst = 0 \/ dst >= 16
  /\ pc = "aligned" => n >= 16
  /\ pc \in {"unaligned128", "unaligned32"} =>
       (saddr + src) % 16 > 0 /\ n >= 16 - ((saddr + src) % 16)

CopyInv == Typed /\ Labels /\ (pc = "return" => w.done = size)

(* A move that starts in what is copied already, inside the buffers. *)
LEMMA StoringSound ==
  ASSUME size \in Nat, saddr \in Nat, src = dst,
         NEW x, NEW d \in Int, Sound(x, d),
         NEW to \in Int, NEW k \in Nat, NEW from \in Int, NEW len \in Nat, NEW e \in Int,
         to >= 0, to <= d, to + k <= size,
         from >= 0 - (saddr % 16), from + len <= size,
         e <= d \/ e <= to + k
  PROVE  Sound(Stored(x, to, k, from, len, dst = src), e)
<1> DEFINE y == Stored(x, to, k, from, len, dst = src)
<1>1. /\ x.done \in Int /\ x.lo \in Int /\ x.hi \in Int /\ x.rlo \in Int /\ x.rhi \in Int
      /\ x.lo >= 0 /\ x.hi <= size /\ x.rlo >= 0 - (saddr % 16) /\ x.rhi <= size
      /\ d <= x.done /\ x.done <= size
  BY DEF Sound, Writes
<1>2. /\ y.done = IF to <= x.done /\ x.done < to + k THEN to + k ELSE x.done
      /\ y.lo = Lesser(x.lo, to) /\ y.hi = Greater(x.hi, to + k)
      /\ y.rlo = Lesser(x.rlo, from) /\ y.rhi = Greater(x.rhi, from + len)
  BY DEF Stored
<1>3. y.done \in Int /\ y.lo \in Int /\ y.hi \in Int /\ y.rlo \in Int /\ y.rhi \in Int
  BY <1>1, <1>2 DEF Lesser, Greater
<1>4. y \in Writes
  BY <1>2, <1>3 DEF Stored, Writes
<1>5. /\ y.lo >= 0 /\ y.hi <= size /\ y.rlo >= 0 - (saddr % 16) /\ y.rhi <= size
      /\ e <= y.done /\ y.done <= size
  BY <1>1, <1>2, <1>3 DEF Lesser, Greater
<1> QED
  BY <1>4, <1>5 DEF Sound

Blocksizes == {16, 32, 64, 128, 256, 512}

(* cne_mov16 .. cne_mov256 and the block loops move whole registers. *)
LEMMA WidthRight ==
  ASSUME isa \in {"sse", "avx2", "avx512"}, NEW k \in Blocksizes
  PROVE  Width(k) = k
<1>1. CASE isa = "avx512"
  BY <1>1 DEF Width, mov_avx512, Blocksizes
<1>2. CASE isa = "avx2"
  BY <1>2 DEF Width, mov_avx2, Blocksizes
<1>3. CASE isa = "sse"
  BY <1>3 DEF Width, mov_sse, Blocksizes
<1> QED
  BY <1>1, <1>2, <1>3

LEMMA MoveSound ==
  ASSUME Typed, NEW x, NEW d \in Int, Sound(x, d),
         NEW o \in Int, NEW k \in Blocksizes, NEW e \in Int,
         dst + o >= 0, dst + o <= d, dst + o + k <= size,
         e <= d \/ e <= dst + o + k
  PROVE  Sound(cne_mov(x, o, k), e)
<1>1. Width(k) = k
  BY WidthRight DEF Typed
<1>2. cne_mov(x, o, k) = Stored(x, dst + o, k, dst + o, k, dst = src)
  BY <1>1 DEF cne_mov, Typed
<1>3. size \in Nat /\ saddr \in Nat /\ dst \in Nat /\ src = dst /\ k \in Nat
  BY DEF Typed, Blocksizes
<1>4. saddr % 16 >= 0 /\ saddr % 16 \in Int
  BY <1>3
<1>5. dst + o \in Int /\ dst + o >= 0 - (saddr % 16)
  BY <1>3, <1>4
<1> QED
  BY <1>2, <1>3, <1>5, StoringSound

LEMMA ScalarsSound ==
  ASSUME Typed, n < 16, dst = 0, moved = 0
  PROVE  Sound(Scalars, size)
<1> DEFINE b1 == Bit(1)
           b2 == Bit(2)
           b4 == Bit(4)
           b8 == Bit(8)
           x1 == Scalar(w, 0, b1)
           x2 == Scalar(x1, b1, b2)
           x3 == Scalar(x2, b1 + b2, b4)
           x4 == Scalar(x3, b1 + b2 + b4, b8)
<1>1. n \in 0 .. 15 /\ n = size /\ saddr \in Nat /\ src = dst /\ Sound(w, 0)
  BY DEF Typed
<1>2. /\ b1 \in Nat /\ b2 \in Nat /\ b4 \in Nat /\ b8 \in Nat
      /\ b1 + b2 + b4 + b8 = n
  BY <1>1 DEF Bit
<1> HIDE DEF b1, b2, b4, b8
<1>3. saddr % 16 \in Int /\ saddr % 16 >= 0 /\ size \in Nat
  BY <1>1
<1>4. ASSUME NEW x, NEW d \in Nat, NEW k \in Nat, Sound(x, d), d + k <= size
      PROVE  Sound(Scalar(x, d, k), d + k)
  <2>1. CASE k = 0
    BY <1>4, <2>1 DEF Scalar
  <2>2. CASE k # 0
    <3>1. Scalar(x, d, k) = Stored(x, d, k, d, k, dst = src)
      BY <1>1, <2>2 DEF Scalar
    <3> QED
      BY <1>1, <1>3, <1>4, <3>1, StoringSound
  <2> QED
    BY <2>1, <2>2
<1>5. Sound(x1, b1)
  BY <1>1, <1>2, <1>3, <1>4
<1>6. Sound(x2, b1 + b2)
  BY <1>1, <1>2, <1>3, <1>4, <1>5
<1>7. Sound(x3, b1 + b2 + b4)
  BY <1>1, <1>2, <1>3, <1>4, <1>6
<1>8. Sound(x4, b1 + b2 + b4 + b8)
  BY <1>1, <1>2, <1>3, <1>4, <1>7
<1>9. Scalars = x4
  BY DEF Scalars, b1, b2, b4, b8
<1> QED
  BY <1>1, <1>2, <1>8, <1>9

(* What a step has to establish for Typed to hold behind it. *)
LEMMA TypedKept ==
  ASSUME Typed, UNCHANGED call,
         dst' \in Nat, src' = dst', n' \in Nat, dst' + n' = size,
         moved' \in Nat, moved' <= n', Sound(w', dst' + moved')
  PROVE  Typed'
<1>1. isa' = isa /\ size' = size /\ daddr' = daddr /\ saddr' = saddr
  BY DEF call
<1> QED
  BY <1>1 DEF Typed, Sound

LEMMA GotoRight ==
  ASSUME Typed, NEW label, Goto(label)
  PROVE  Typed' /\ pc' = label /\ UNCHANGED <<isa, size, daddr, saddr, dst, src, n, moved, w>>
BY DEF Goto, Typed, Sound, call

LEMMA ReturnRight ==
  ASSUME Typed, moved = 0, NEW x, Sound(x, size), Return(x)
  PROVE  CopyInv'
<1>1. /\ pc' = "return" /\ w' = x /\ dst' = dst /\ src' = src /\ n' = n /\ moved' = moved
      /\ isa' = isa /\ size' = size /\ daddr' = daddr /\ saddr' = saddr
  BY DEF Return, call
<1>2. /\ size \in Nat /\ dst \in Nat /\ n \in Nat /\ dst <= size /\ moved' = 0 /\ dst' + moved' = dst
  BY <1>1 DEF Typed
<1>3. Sound(x, dst) /\ x.done = size
  BY <1>2 DEF Sound, Writes
<1>4. Typed'
  BY <1>1, <1>2, <1>3, TypedKept DEF Typed, Return
<1>5. Labels'
  BY <1>1, <1>2 DEF Labels, AtMost, Start
<1> QED
  BY <1>1, <1>3, <1>4, <1>5 DEF CopyInv

(* Two moves from both ends meet when the packet is no longer than both. *)
LEMMA EndsRight ==
  ASSUME Typed, moved = 0, dst = 0, NEW k \in Blocksizes, k <= n, n <= 2 * k, Ends(k)
  PROVE  CopyInv'
<1>1. size \in Nat /\ n = size /\ k \in Int /\ Sound(w, 0)
  BY DEF Typed, Blocksizes
<1>2. Sound(cne_mov(w, 0, k), k)
  BY <1>1, MoveSound
<1>3. Sound(cne_mov(cne_mov(w, 0, k), n - k, k), size)
  <2>1. n - k \in Int /\ dst + (n - k) >= 0 /\ dst + (n - k) <= k /\ dst + (n - k) + k = size
    BY <1>1
  <2> QED
    BY <1>1, <1>2, <2>1, MoveSound
<1> QED
  BY <1>3, ReturnRight DEF Ends

(* The last move may reach back, for the packet is longer than it. *)
LEMMA LastRight ==
  ASSUME Typed, moved = 0, NEW k \in Blocksizes, k <= size, n <= 2 * k, Last(k)
  PROVE  CopyInv'
<1>1. size \in Nat /\ n \in Nat /\ dst \in Nat /\ dst + n = size /\ k \in Int /\ Sound(w, dst)
  BY DEF Typed, Blocksizes
<1>2. CASE n > k
  <2>1. Sound(cne_mov(w, 0, k), dst + k)
    BY <1>1, <1>2, MoveSound
  <2>2. /\ n - k \in Int /\ dst + (n - k) >= 0 /\ dst + (n - k) <= dst + k
        /\ dst + (n - k) + k = size /\ dst + k \in Int
    BY <1>1, <1>2
  <2>3. Sound(cne_mov(cne_mov(w, 0, k), n - k, k), size)
    BY <1>1, <2>1, <2>2, MoveSound
  <2> QED
    BY <1>2, <2>3, ReturnRight DEF Last
<1>3. CASE n <= k /\ n > 0
  <2>1. /\ n - k \in Int /\ dst + (n - k) >= 0 /\ dst + (n - k) <= dst
        /\ dst + (n - k) + k = size
    BY <1>1, <1>3
  <2>2. Sound(cne_mov(w, n - k, k), size)
    BY <1>1, <2>1, MoveSound
  <2>3. ~ (n > k)
    BY <1>1, <1>3
  <2> QED
    BY <1>3, <2>2, <2>3, ReturnRight DEF Last
<1>4. CASE n = 0
  <2>1. Sound(w, size) /\ ~ (n > k) /\ ~ (n > 0)
    BY <1>1, <1>4 DEF Blocksizes
  <2> QED
    BY <2>1, ReturnRight DEF Last
<1> QED
  BY <1>1, <1>2, <1>3, <1>4

LEMMA TakeRight ==
  ASSUME Typed, moved = 0, NEW k \in Blocksizes, NEW label, Take(k, label)
  PROVE  /\ Typed' /\ pc' = label /\ moved' = 0 /\ UNCHANGED <<isa, size, saddr>>
         /\ IF n >= k THEN n' = n - k ELSE n' = n
<1>1. size \in Nat /\ n \in Nat /\ dst \in Nat /\ dst + n = size /\ k \in Nat /\ Sound(w, dst)
  BY DEF Typed, Blocksizes
<1>2. UNCHANGED call /\ UNCHANGED <<isa, size, saddr>> /\ moved' = 0 /\ pc' = label
  BY DEF Take, call
<1>3. CASE n >= k
  <2>1. w' = cne_mov(w, 0, k) /\ dst' = dst + k /\ src' = src + k /\ n' = n - k
    BY <1>3 DEF Take, Advance
  <2>2. Sound(w', dst + k)
    BY <1>1, <1>3, <2>1, MoveSound
  <2>3. /\ dst' \in Nat /\ src' = dst' /\ n' \in Nat /\ dst' + n' = size /\ moved' \in Nat
        /\ moved' <= n' /\ dst' + moved' = dst + k
    BY <1>1, <1>2, <1>3, <2>1 DEF Typed
  <2> QED
    BY <1>2, <1>3, <2>1, <2>2, <2>3, TypedKept
<1>4. CASE ~ (n >= k)
  <2>1. w' = w /\ dst' = dst /\ src' = src /\ n' = n
    BY <1>4 DEF Take
  <2>2. dst' + moved' = dst /\ 0 <= n'
    BY <1>1, <1>2, <2>1
  <2> QED
    BY <1>1, <1>2, <1>4, <2>1, <2>2, TypedKept DEF Typed
<1> QED
  BY <1>3, <1>4

LEMMA AlignRight ==
  ASSUME Typed, moved = 0, dst = 0, NEW k \in Blocksizes, k <= n, NEW label,
         NEW ofs \in Nat, NEW by \in Nat, by <= k, Align(k, ofs, by, label)
  PROVE  /\ Typed' /\ pc' = label /\ moved' = 0 /\ UNCHANGED <<isa, size, saddr>>
         /\ IF ofs > 0 THEN dst' = by ELSE dst' = 0
<1>1. size \in Nat /\ n = size /\ k \in Nat /\ Sound(w, 0)
  BY DEF Typed, Blocksizes
<1>2. UNCHANGED call /\ UNCHANGED <<isa, size, saddr>> /\ moved' = 0 /\ pc' = label
  BY DEF Align, call
<1>3. CASE ofs > 0
  <2>1. w' = cne_mov(w, 0, k) /\ dst' = by /\ src' = by /\ n' = n - by
    BY <1>3 DEF Align, Advance, Typed
  <2>2. Sound(w', by)
    BY <1>1, <2>1, MoveSound
  <2>3. /\ dst' \in Nat /\ src' = dst' /\ n' \in Nat /\ dst' + n' = size /\ moved' \in Nat
        /\ moved' <= n' /\ dst' + moved' = by
    BY <1>1, <1>2, <2>1
  <2> QED
    BY <1>2, <1>3, <2>1, <2>2, <2>3, TypedKept
<1>4. CASE ~ (ofs > 0)
  <2>1. w' = w /\ dst' = 0 /\ src' = 0 /\ n' = n
    BY <1>4 DEF Align, Typed
  <2>2. dst' + moved' = 0 /\ 0 <= n'
    BY <1>1, <1>2, <2>1
  <2> QED
    BY <1>1, <1>2, <1>4, <2>1, <2>2, TypedKept DEF Typed
<1> QED
  BY <1>3, <1>4

(* Behind the blocks, what they moved is what the caller steps over. *)
LEMMA WholeBlocks ==
  ASSUME NEW a \in Nat, NEW m \in Nat, NEW k \in {128, 512}, m % k = 0, m <= a
  PROVE  /\ a - m < k => a - (a % k) = m /\ a % k = a - m
         /\ (m + k) % k = 0
<1>1. CASE k = 128
  BY <1>1
<1>2. CASE k = 512
  BY <1>2
<1> QED
  BY <1>1, <1>2

LEMMA BlocksRight ==
  ASSUME Typed, NEW k \in {128, 512}, moved % k = 0, NEW label, Blocks(k, label)
  PROVE  /\ Typed' /\ UNCHANGED <<isa, size, saddr>>
         /\ \/ pc' = pc /\ moved' % k = 0
            \/ pc' = label /\ moved' = 0 /\ n' < k
<1>1. /\ size \in Nat /\ n \in Nat /\ dst \in Nat /\ src = dst /\ dst + n = size
      /\ moved \in Nat /\ moved <= n /\ k \in Nat /\ k \in Blocksizes
      /\ Sound(w, dst + moved)
  BY DEF Typed, Blocksizes
<1>2. /\ n - moved < k => n - (n % k) = moved /\ n % k = n - moved
      /\ (moved + k) % k = 0
  BY <1>1, WholeBlocks
<1>3. ASSUME n - moved >= k, w' = cne_mov(w, moved, k), moved' = moved + k,
             UNCHANGED <<call, pc, dst, src, n>>
      PROVE  /\ Typed' /\ UNCHANGED <<isa, size, saddr>>
             /\ pc' = pc /\ moved' % k = 0
  <2>1. dst + moved >= 0 /\ dst + moved + k <= size /\ dst + moved \in Int
        /\ dst + moved + k \in Int
    BY <1>1, <1>3
  <2>2. Sound(w', dst + moved + k)
    BY <1>1, <1>3, <2>1, MoveSound
  <2>3. dst' + moved' = dst + moved + k /\ moved' \in Nat /\ moved' <= n' /\ src' = dst'
    BY <1>1, <1>3
  <2>4. Typed'
    BY <1>1, <1>3, <2>2, <2>3, TypedKept
  <2> QED
    BY <1>2, <1>3, <2>4 DEF call
<1>4. ASSUME n - moved < k, pc' = label, moved' = 0,
             Advance(n - (n % k), n % k), UNCHANGED <<call, w>>
      PROVE  /\ Typed' /\ UNCHANGED <<isa, size, saddr>>
             /\ pc' = label /\ moved' = 0 /\ n' < k
  <2>1. dst' = dst + moved /\ src' = dst' /\ n' = n - moved
    BY <1>1, <1>2, <1>4 DEF Advance
  <2>2. /\ dst' \in Nat /\ n' \in Nat /\ dst' + n' = size /\ moved' \in Nat /\ moved' <= n'
        /\ dst' + moved' = dst + moved /\ n' < k
    BY <1>1, <1>4, <2>1
  <2>3. Typed'
    BY <1>1, <1>4, <2>1, <2>2, TypedKept
  <2> QED
    BY <1>4, <2>2, <2>3 DEF call
<1> QED
  BY <1>3, <1>4 DEF Blocks

Offset == (saddr + src) % 16

LEMMA OffsetKept ==
  ASSUME NEW a \in Nat, NEW k \in {32, 128}
  PROVE  (a + k) % 16 = a % 16
<1>1. CASE k = 32
  BY <1>1
<1>2. CASE k = 128
  BY <1>2
<1> QED
  BY <1>1, <1>2

(* The registers are loaded from at most a line before the source, and     *)
(* never behind its end.                                                   *)
LEMMA UnalignedRight ==
  ASSUME Typed, moved = 0, NEW k \in {32, 128}, Offset > 0, dst = 0 \/ dst >= 16,
         Unaligned(k, Offset)
  PROVE  /\ Typed' /\ pc' = pc /\ moved' = 0 /\ UNCHANGED <<isa, size, saddr>>
         /\ dst' >= 16 /\ Offset' = Offset /\ n' >= 16 - Offset
<1>1. /\ size \in Nat /\ n \in Nat /\ dst \in Nat /\ src = dst /\ dst + n = size /\ saddr \in Nat
      /\ k \in Nat /\ k >= 32 /\ Sound(w, dst)
  BY DEF Typed
<1>2. Offset \in 1 .. 15
  BY <1>1 DEF Offset
<1>3. UNCHANGED call /\ UNCHANGED <<isa, size, saddr>> /\ moved' = 0 /\ pc' = pc
  BY DEF Unaligned, call
<1>4. /\ n >= k + 16 - Offset
      /\ w' = Stored(w, dst, k, src - Offset, k + 16, dst = src)
      /\ dst' = dst + k /\ src' = src + k /\ n' = n - k
  BY DEF Unaligned, Advance
<1>5. src - Offset \in Int /\ src - Offset >= 0 - (saddr % 16)
  <2>1. CASE dst = 0
    BY <1>1, <2>1 DEF Offset
  <2>2. CASE dst >= 16
    BY <1>1, <1>2, <2>2
  <2> QED
    BY <2>1, <2>2
<1>6. Offset' = Offset
  <2>1. saddr + src \in Nat /\ saddr' + src' = (saddr + src) + k
    BY <1>1, <1>3, <1>4
  <2> QED
    BY <2>1, OffsetKept DEF Offset
<1> HIDE DEF Offset
<1>7. /\ (src - Offset) + (k + 16) <= size /\ dst + k <= size /\ k + 16 \in Nat
      /\ dst + k \in Int
  BY <1>1, <1>2, <1>4
<1>8. Sound(w', dst + k)
  BY <1>1, <1>4, <1>5, <1>7, StoringSound
<1>9. /\ dst' \in Nat /\ src' = dst' /\ n' \in Nat /\ dst' + n' = size /\ moved' \in Nat
      /\ moved' <= n' /\ dst' + moved' = dst + k /\ dst' >= 16 /\ n' >= 16 - Offset
  BY <1>1, <1>2, <1>3, <1>4
<1> QED
  BY <1>3, <1>6, <1>8, <1>9, TypedKept

(* Behind the loop len is what it was: the masks undo nothing. *)
LEMMA UnalignedEndRight ==
  ASSUME Typed, moved = 0, NEW k \in {32, 128}, Offset > 0, n >= 16 - Offset, NEW label,
         UnalignedEnd(k, Offset, label)
  PROVE  /\ Typed' /\ pc' = label /\ moved' = 0 /\ UNCHANGED <<isa, size, saddr, dst, n>>
         /\ Offset' = Offset /\ Left(k, Offset) = n /\ n < k + 16 - Offset
<1>1. n \in Nat /\ dst \in Nat /\ src = dst /\ saddr \in Nat /\ dst + n = size /\ Sound(w, dst)
  BY DEF Typed
<1>2. Offset \in 1 .. 15
  BY <1>1 DEF Offset
<1>3. UNCHANGED call /\ UNCHANGED <<isa, size, saddr>> /\ moved' = 0 /\ pc' = label /\ w' = w
  BY DEF UnalignedEnd, call
<1>4. /\ n < k + 16 - Offset
      /\ dst' = dst + (n - Left(k, Offset)) /\ src' = src + (n - Left(k, Offset))
      /\ n' = Left(k, Offset)
  BY DEF UnalignedEnd, Advance
<1>5. Left(k, Offset) = n
  <2>1. n - 16 + Offset \in 0 .. (k - 1)
    BY <1>1, <1>2, <1>4
  <2>2. (n - 16 + Offset) % k = n - 16 + Offset
    <3>1. ASSUME NEW a \in 0 .. (k - 1) PROVE a % k = a
      BY <3>1
    <3> QED
      BY <2>1, <3>1
  <2> QED
    BY <1>1, <1>2, <2>2 DEF Left
<1>6. dst' = dst /\ src' = src /\ n' = n
  BY <1>1, <1>4, <1>5
<1>7. Offset' = Offset
  BY <1>3, <1>6 DEF Offset
<1>8. dst' + moved' = dst /\ 0 <= n' /\ moved' <= n'
  BY <1>1, <1>3, <1>6
<1> QED
  BY <1>1, <1>3, <1>4, <1>5, <1>6, <1>7, <1>8, TypedKept

(* What the head of each function does with a packet of less than a few    *)
(* registers.                                                              *)
LEMMA ScalarsRight ==
  ASSUME Typed, Labels, pc \in Start, n < 16, Return(Scalars)
  PROVE  CopyInv'
<1>1. dst = 0 /\ moved = 0
  BY DEF Labels
<1> QED
  BY <1>1, ScalarsSound, ReturnRight

LEMMA CallKeeps ==
  ASSUME CopyInv, cne_pktcpy
  PROVE  CopyInv'
<1> DEFINE label == IF daddr % ALIGNMENT = 0 /\ saddr % ALIGNMENT = 0 THEN "blocks" ELSE "generic"
<1>1. pc = "call" /\ Goto(label) /\ Typed /\ Labels /\ dst = 0 /\ moved = 0
  BY DEF cne_pktcpy, CopyInv, Labels, Start
<1>2. label \in {"blocks", "generic"}
  OBVIOUS
<1> HIDE DEF label
<1>3. Typed' /\ pc' = label /\ UNCHANGED <<dst, moved>>
  BY <1>1, GotoRight
<1>4. Labels'
  BY <1>1, <1>2, <1>3 DEF Labels, AtMost, Start
<1> QED
  BY <1>2, <1>3, <1>4 DEF CopyInv

LEMMA AlignedKeeps ==
  ASSUME CopyInv, cne_pktcpy_aligned
  PROVE  CopyInv'
<1>1. Typed /\ Labels
  BY DEF CopyInv
<1>2. n \in Nat /\ dst \in Nat /\ dst + n = size /\ size \in Nat
  BY <1>1 DEF Typed
<1>3. pc \in {"blocks", "64s"}
  BY DEF cne_pktcpy_aligned
<1>4. moved = 0
  BY <1>1, <1>3 DEF Labels
<1>5. CASE pc = "blocks"
  <2>1. dst = 0 /\ pc \in Start /\ n = size
    BY <1>1, <1>2, <1>5 DEF Labels, Start
  <2>2. CASE n < 16 /\ Return(Scalars)
    BY <1>1, <2>1, <2>2, ScalarsRight
  <2>3. CASE n \in 16 .. 32 /\ Ends(16)
    BY <1>1, <1>4, <2>1, <2>3, EndsRight DEF Blocksizes
  <2>4. CASE n \in 33 .. 64 /\ Ends(32)
    BY <1>1, <1>4, <2>1, <2>4, EndsRight DEF Blocksizes
  <2>5. CASE n > 64 /\ Goto("64s")
    <3>1. Typed' /\ pc' = "64s" /\ UNCHANGED <<size, n, moved>>
      BY <1>1, <2>5, GotoRight
    <3>2. Labels'
      BY <1>4, <2>1, <2>5, <3>1 DEF Labels, AtMost, Start
    <3> QED
      BY <3>1, <3>2 DEF CopyInv
  <2> QED
    BY <1>5, <2>2, <2>3, <2>4, <2>5 DEF cne_pktcpy_aligned
<1>6. CASE pc = "64s" /\ n >= 64
  <2>1. Take(64, "64s") /\ size > 64
    BY <1>1, <1>6 DEF cne_pktcpy_aligned, Labels, Start
  <2>2. Typed' /\ pc' = "64s" /\ moved' = 0 /\ size' = size
    BY <1>1, <1>4, <2>1, TakeRight DEF Blocksizes
  <2>3. Labels'
    BY <2>1, <2>2 DEF Labels, AtMost, Start
  <2> QED
    BY <2>2, <2>3 DEF CopyInv
<1>7. CASE pc = "64s" /\ ~ (n >= 64)
  <2>1. Return(cne_mov(w, n - 64, 64)) /\ size > 64
    BY <1>1, <1>7 DEF cne_pktcpy_aligned, Labels, Start
  <2>2. /\ n - 64 \in Int /\ dst + (n - 64) >= 0 /\ dst + (n - 64) <= dst /\ size \in Int
        /\ dst + (n - 64) + 64 = size /\ dst \in Int /\ 64 \in Blocksizes
    BY <1>2, <1>7, <2>1 DEF Blocksizes
  <2>3. Sound(w, dst)
    BY <1>1, <1>2, <1>4 DEF Typed
  <2>4. Sound(cne_mov(w, n - 64, 64), size)
    BY <1>1, <2>2, <2>3, MoveSound
  <2> QED
    BY <1>1, <1>4, <2>1, <2>4, ReturnRight
<1> QED
  BY <1>3, <1>5, <1>6, <1>7

LEMMA Avx512Keeps ==
  ASSUME CopyInv, isa = "avx512", cne_pktcpy_generic_avx512
  PROVE  CopyInv'
<1>1. Typed /\ Labels
  BY DEF CopyInv
<1>2. n \in Nat /\ dst \in Nat /\ dst + n = size /\ size \in Nat /\ daddr \in Nat
  BY <1>1 DEF Typed
<1>3. CASE pc = "generic"
  <2>1. dst = 0 /\ moved = 0 /\ pc \in Start /\ n = size
    BY <1>1, <1>2, <1>3 DEF Labels, Start
  <2>2. CASE n < 16 /\ Return(Scalars)
    BY <1>1, <2>1, <2>2, ScalarsRight
  <2>3. CASE n \in 16 .. 32 /\ Ends(16)
    BY <1>1, <2>1, <2>3, EndsRight DEF Blocksizes
  <2>4. CASE n \in 33 .. 64 /\ Ends(32)
    BY <1>1, <2>1, <2>4, EndsRight DEF Blocksizes
  <2>5. CASE n \in 65 .. 512 /\ Goto("256")
    <3>1. Typed' /\ pc' = "256" /\ UNCHANGED <<size, n, moved>>
      BY <1>1, <2>5, GotoRight
    <3>2. Labels'
      BY <2>1, <2>5, <3>1 DEF Labels, AtMost, Start
    <3> QED
      BY <3>1, <3>2 DEF CopyInv
  <2>6. CASE n > 512 /\ Align(64, daddr % 64, 64 - (daddr % 64), "512blocks")
    <3>1. daddr % 64 \in Nat /\ 64 - (daddr % 64) \in Nat /\ 64 - (daddr % 64) <= 64
      BY <1>2
    <3>2. Typed' /\ pc' = "512blocks" /\ moved' = 0 /\ UNCHANGED <<isa, size>>
      BY <1>1, <1>2, <2>1, <2>6, <3>1, AlignRight DEF Blocksizes
    <3>3. size > 64 /\ moved' % 512 = 0
      BY <1>2, <2>1, <2>6, <3>2
    <3>4. Labels'
      BY <3>2, <3>3 DEF Labels, AtMost, Start
    <3> QED
      BY <3>2, <3>4 DEF CopyInv
  <2> QED
    BY <1>3, <2>2, <2>3, <2>4, <2>5, <2>6 DEF cne_pktcpy_generic_avx512
<1>4. ASSUME NEW k \in {256, 128}, NEW label \in {"128", "back"}, Take(k, label),
             moved = 0, size > 64, n <= 2 * k, label = "128" => k = 256, label = "back" => k = 128
      PROVE  CopyInv'
  <2>1. /\ Typed' /\ pc' = label /\ moved' = 0 /\ UNCHANGED <<isa, size>>
        /\ IF n >= k THEN n' = n - k ELSE n' = n
    BY <1>1, <1>4, TakeRight DEF Blocksizes
  <2>2. n' <= k
    BY <1>2, <1>4, <2>1
  <2>3. Labels'
    BY <1>4, <2>1, <2>2 DEF Labels, AtMost, Start
  <2> QED
    BY <1>4, <2>1, <2>3 DEF CopyInv
<1>5. CASE pc = "256" /\ Take(256, "128")
  BY <1>1, <1>4, <1>5 DEF Labels, AtMost, Start
<1>6. CASE pc = "128" /\ Take(128, "back")
  BY <1>1, <1>4, <1>6 DEF Labels, AtMost, Start
<1>7. CASE pc = "512blocks" /\ Blocks(512, "128blocks")
  <2>1. moved % 512 = 0 /\ size > 64
    BY <1>1, <1>7 DEF Labels, Start
  <2>2. /\ Typed' /\ UNCHANGED <<isa, size>>
        /\ \/ pc' = "512blocks" /\ moved' % 512 = 0
           \/ pc' = "128blocks" /\ moved' = 0
    BY <1>1, <1>7, <2>1, BlocksRight
  <2>3. Labels'
    BY <2>1, <2>2 DEF Labels, AtMost, Start
  <2> QED
    BY <2>2, <2>3 DEF CopyInv
<1>8. CASE pc = "128blocks" /\ Blocks(128, "back")
  <2>1. moved % 128 = 0 /\ size > 64
    BY <1>1, <1>8 DEF Labels, Start
  <2>2. /\ Typed' /\ UNCHANGED <<isa, size>>
        /\ \/ pc' = "128blocks" /\ moved' % 128 = 0
           \/ pc' = "back" /\ moved' = 0 /\ n' < 128
    BY <1>1, <1>8, <2>1, BlocksRight
  <2>3. n' \in Nat
    BY <2>2 DEF Typed
  <2>4. Labels'
    BY <2>1, <2>2, <2>3 DEF Labels, AtMost, Start
  <2> QED
    BY <2>2, <2>4 DEF CopyInv
<1>9. CASE pc = "back" /\ Last(64)
  <2>1. moved = 0 /\ size > 64 /\ n <= 2 * 64
    BY <1>1, <1>2, <1>9 DEF Labels, AtMost, Start
  <2> QED
    BY <1>1, <1>2, <1>9, <2>1, LastRight DEF Blocksizes
<1> QED
  BY <1>3, <1>5, <1>6, <1>7, <1>8, <1>9 DEF cne_pktcpy_generic_avx512

LEMMA Avx2Keeps ==
  ASSUME CopyInv, isa = "avx2", cne_pktcpy_generic_avx2
  PROVE  CopyInv'
<1>1. Typed /\ Labels
  BY DEF CopyInv
<1>2. n \in Nat /\ dst \in Nat /\ dst + n = size /\ size \in Nat /\ daddr \in Nat
  BY <1>1 DEF Typed
<1>3. CASE pc = "generic"
  <2>1. dst = 0 /\ moved = 0 /\ pc \in Start /\ n = size
    BY <1>1, <1>2, <1>3 DEF Labels, Start
  <2>2. CASE n < 16 /\ Return(Scalars)
    BY <1>1, <2>1, <2>2, ScalarsRight
  <2>3. CASE n \in 16 .. 32 /\ Ends(16)
    BY <1>1, <2>1, <2>3, EndsRight DEF Blocksizes
  <2>4. CASE n \in 33 .. 48 /\ Return(cne_mov(cne_mov(cne_mov(w, 0, 16), 16, 16), n - 16, 16))
    <3>1. Sound(w, 0) /\ 16 \in Blocksizes
      BY <1>1, <2>1 DEF Typed, Blocksizes
    <3>2. Sound(cne_mov(w, 0, 16), 16)
      BY <1>1, <2>1, <2>4, <3>1, MoveSound
    <3>3. Sound(cne_mov(cne_mov(w, 0, 16), 16, 16), 32)
      BY <1>1, <2>1, <2>4, <3>1, <3>2, MoveSound
    <3>4. Sound(cne_mov(cne_mov(cne_mov(w, 0, 16), 16, 16), n - 16, 16), size)
      BY <1>1, <2>1, <2>4, <3>1, <3>3, MoveSound
    <3> QED
      BY <1>1, <2>1, <2>4, <3>4, ReturnRight
  <2>5. CASE n \in 49 .. 64 /\ Ends(32)
    BY <1>1, <2>1, <2>5, EndsRight DEF Blocksizes
  <2>6. CASE n \in 65 .. 256 /\ Goto("128")
    <3>1. Typed' /\ pc' = "128" /\ UNCHANGED <<size, n, moved>>
      BY <1>1, <2>6, GotoRight
    <3>2. Labels'
      BY <2>1, <2>6, <3>1 DEF Labels, AtMost, Start
    <3> QED
      BY <3>1, <3>2 DEF CopyInv
  <2>7. CASE n > 256 /\ Align(32, daddr % 32, 32 - (daddr % 32), "128blocks")
    <3>1. daddr % 32 \in Nat /\ 32 - (daddr % 32) \in Nat /\ 32 - (daddr % 32) <= 32
      BY <1>2
    <3>2. Typed' /\ pc' = "128blocks" /\ moved' = 0 /\ UNCHANGED <<isa, size>>
      BY <1>1, <1>2, <2>1, <2>7, <3>1, AlignRight DEF Blocksizes
    <3>3. size > 64 /\ moved' % 128 = 0
      BY <1>2, <2>1, <2>7, <3>2
    <3>4. Labels'
      BY <3>2, <3>3 DEF Labels, AtMost, Start
    <3> QED
      BY <3>2, <3>4 DEF CopyInv
  <2> QED
    BY <1>3, <2>2, <2>3, <2>4, <2>5, <2>6, <2>7 DEF cne_pktcpy_generic_avx2
<1>4. ASSUME NEW k \in {128, 64}, NEW label \in {"64", "back"}, Take(k, label),
             moved = 0, size > 64, n <= 2 * k, label = "64" => k = 128, label = "back" => k = 64
      PROVE  CopyInv'
  <2>1. /\ Typed' /\ pc' = label /\ moved' = 0 /\ UNCHANGED <<isa, size>>
        /\ IF n >= k THEN n' = n - k ELSE n' = n
    BY <1>1, <1>4, TakeRight DEF Blocksizes
  <2>2. n' <= k
    BY <1>2, <1>4, <2>1
  <2>3. Labels'
    BY <1>4, <2>1, <2>2 DEF Labels, AtMost, Start
  <2> QED
    BY <1>4, <2>1, <2>3 DEF CopyInv
<1>5. CASE pc = "128" /\ Take(128, "64")
  BY <1>1, <1>4, <1>5 DEF Labels, AtMost, Start
<1>6. CASE pc = "64" /\ Take(64, "back")
  BY <1>1, <1>4, <1>6 DEF Labels, AtMost, Start
<1>7. CASE pc = "128blocks" /\ Blocks(128, "64")
  <2>1. moved % 128 = 0 /\ size > 64
    BY <1>1, <1>7 DEF Labels, Start
  <2>2. /\ Typed' /\ UNCHANGED <<isa, size>>
        /\ \/ pc' = "128blocks" /\ moved' % 128 = 0
           \/ pc' = "64" /\ moved' = 0 /\ n' < 128
    BY <1>1, <1>7, <2>1, BlocksRight
  <2>3. n' \in Nat
    BY <2>2 DEF Typed
  <2>4. Labels'
    BY <2>1, <2>2, <2>3 DEF Labels, AtMost, Start
  <2> QED
    BY <2>2, <2>4 DEF CopyInv
<1>8. CASE pc = "back" /\ Last(32)
  <2>1. moved = 0 /\ size > 64 /\ n <= 2 * 32
    BY <1>1, <1>2, <1>8 DEF Labels, AtMost, Start
  <2> QED
    BY <1>1, <1>2, <1>8, <2>1, LastRight DEF Blocksizes
<1> QED
  BY <1>3, <1>5, <1>6, <1>7, <1>8 DEF cne_pktcpy_generic_avx2

(* The head of the SSE function: up to 64 bytes in moves that overlap, or  *)
(* the label that its length calls for.                                    *)
LEMMA SseHead ==
  ASSUME CopyInv, isa = "sse", pc = "generic", cne_pktcpy_generic_sse
  PROVE  CopyInv'
<1>1. Typed /\ Labels
  BY DEF CopyInv
<1>2. n \in Nat /\ dst \in Nat /\ dst + n = size /\ size \in Nat /\ daddr \in Nat
  BY <1>1 DEF Typed
<1>3. dst = 0 /\ moved = 0 /\ pc \in Start /\ n = size
  BY <1>1, <1>2 DEF Labels, Start
<1>4. Sound(w, 0) /\ 16 \in Blocksizes /\ 32 \in Blocksizes
  BY <1>1, <1>3 DEF Typed, Blocksizes
<1>5. CASE n < 16 /\ Return(Scalars)
  BY <1>1, <1>3, <1>5, ScalarsRight
<1>6. CASE n \in 16 .. 32 /\ Ends(16)
  BY <1>1, <1>3, <1>6, EndsRight DEF Blocksizes
<1>7. ASSUME n > 32 PROVE Sound(cne_mov(w, 0, 32), 32)
  BY <1>1, <1>2, <1>3, <1>4, <1>7, MoveSound
<1>8. CASE n \in 33 .. 48 /\ Return(cne_mov(cne_mov(w, 0, 32), n - 16, 16))
  <2>1. Sound(cne_mov(w, 0, 32), 32)
    BY <1>2, <1>7, <1>8
  <2>2. Sound(cne_mov(cne_mov(w, 0, 32), n - 16, 16), size)
    BY <1>1, <1>3, <1>4, <1>8, <2>1, MoveSound
  <2> QED
    BY <1>1, <1>3, <1>8, <2>2, ReturnRight
<1>9. CASE n \in 49 .. 64 /\ Return(cne_mov(cne_mov(cne_mov(w, 0, 32), 32, 16), n - 16, 16))
  <2>1. Sound(cne_mov(w, 0, 32), 32)
    BY <1>2, <1>7, <1>9
  <2>2. Sound(cne_mov(cne_mov(w, 0, 32), 32, 16), 48)
    BY <1>1, <1>3, <1>4, <1>9, <2>1, MoveSound
  <2>3. Sound(cne_mov(cne_mov(cne_mov(w, 0, 32), 32, 16), n - 16, 16), size)
    BY <1>1, <1>3, <1>4, <1>9, <2>2, MoveSound
  <2> QED
    BY <1>1, <1>3, <1>9, <2>3, ReturnRight
<1>10. ASSUME NEW label \in {"64", "256"}, Goto(label), n > 64,
              label = "64" => n <= 128, label = "256" => n <= 512
       PROVE  CopyInv'
  <2>1. Typed' /\ pc' = label /\ UNCHANGED <<size, n, moved>>
    BY <1>1, <1>10, GotoRight
  <2>2. Labels'
    BY <1>3, <1>10, <2>1 DEF Labels, AtMost, Start
  <2> QED
    BY <1>10, <2>1, <2>2 DEF CopyInv
<1>11. CASE n \in 65 .. 128 /\ Goto("64")
  BY <1>10, <1>11
<1>12. CASE n \in 129 .. 512 /\ Goto("256")
  BY <1>10, <1>12
<1>13. CASE n > 512 /\ Align(32, daddr % 16, 32 - (daddr % 16), "aligned")
  <2>1. /\ daddr % 16 \in Nat /\ 32 - (daddr % 16) \in Nat /\ 32 - (daddr % 16) <= 32
        /\ 32 - (daddr % 16) >= 16
    BY <1>2
  <2>2. /\ Typed' /\ pc' = "aligned" /\ moved' = 0 /\ UNCHANGED <<isa, size>>
        /\ IF daddr % 16 > 0 THEN dst' = 32 - (daddr % 16) ELSE dst' = 0
    BY <1>1, <1>2, <1>3, <1>4, <1>13, <2>1, AlignRight
  <2>3. dst' + n' = size /\ n' \in Nat
    BY <2>2 DEF Typed
  <2>4. size > 64 /\ n' >= 16 /\ (dst' = 0 \/ dst' >= 16)
    BY <1>2, <1>3, <1>13, <2>1, <2>2, <2>3
  <2>5. Labels'
    BY <2>2, <2>4 DEF Labels, AtMost, Start
  <2> QED
    BY <2>2, <2>5 DEF CopyInv
<1> QED
  BY <1>5, <1>6, <1>8, <1>9, <1>11, <1>12, <1>13
  DEF cne_pktcpy_generic_sse, MOVEUNALIGNED_LEFT47

LEMMA UnalignedKeeps ==
  ASSUME CopyInv, isa = "sse", MOVEUNALIGNED_LEFT47(Offset)
  PROVE  CopyInv'
<1>1. Typed /\ Labels
  BY DEF CopyInv
<1>2. pc \in {"unaligned128", "unaligned32"}
  BY DEF MOVEUNALIGNED_LEFT47
<1>3. moved = 0 /\ size > 64 /\ (dst = 0 \/ dst >= 16) /\ Offset > 0 /\ n >= 16 - Offset
  BY <1>1, <1>2 DEF Labels, Start, Offset
<1>4. n \in Nat /\ saddr \in Nat /\ src \in Nat /\ Offset \in 0 .. 15
  BY <1>1 DEF Typed, Offset
<1>5. ASSUME NEW k \in {32, 128}, Unaligned(k, Offset)
      PROVE  CopyInv'
  <2>1. /\ Typed' /\ pc' = pc /\ moved' = 0 /\ UNCHANGED <<isa, size>>
        /\ dst' >= 16 /\ Offset' = Offset /\ n' >= 16 - Offset
    BY <1>1, <1>3, <1>5, UnalignedRight
  <2>2. Offset' > 0 /\ n' >= 16 - Offset'
    BY <1>3, <2>1
  <2>3. Labels'
    BY <1>2, <1>3, <2>1, <2>2 DEF Labels, AtMost, Start, Offset
  <2> QED
    BY <1>2, <2>1, <2>3 DEF CopyInv
<1>6. ASSUME NEW k \in {32, 128}, NEW label \in {"unaligned32", "32"},
             UnalignedEnd(k, Offset, label), label = "32" => k = 32 \/ Left(k, Offset) < 48 - Offset
      PROVE  CopyInv'
  <2>1. /\ Typed' /\ pc' = label /\ moved' = 0 /\ UNCHANGED <<isa, size, dst, n>>
        /\ Offset' = Offset /\ Left(k, Offset) = n /\ n < k + 16 - Offset
    BY <1>1, <1>3, <1>6, UnalignedEndRight
  <2>2. Offset' > 0 /\ n' >= 16 - Offset'
    BY <1>3, <2>1
  <2>3. label = "32" => n' <= 64
    BY <1>4, <1>6, <2>1
  <2>4. Labels'
    BY <1>3, <1>6, <2>1, <2>2, <2>3 DEF Labels, AtMost, Start, Offset
  <2> QED
    BY <1>6, <2>1, <2>4 DEF CopyInv
<1>7. CASE pc = "unaligned128" /\ UnalignedEnd(128, Offset,
               IF Left(128, Offset) >= 48 - Offset THEN "unaligned32" ELSE "32")
  <2>1. CASE Left(128, Offset) >= 48 - Offset
    BY <1>6, <1>7, <2>1
  <2>2. CASE ~ (Left(128, Offset) >= 48 - Offset)
    <3>1. UnalignedEnd(128, Offset, "32")
      BY <1>7, <2>2
    <3>2. Left(128, Offset) \in Int /\ 48 - Offset \in Int
      BY <1>4 DEF Left
    <3>3. Left(128, Offset) < 48 - Offset
      BY <2>2, <3>2
    <3> QED
      BY <1>6, <3>1, <3>3
  <2> QED
    BY <2>1, <2>2
<1>8. CASE UnalignedEnd(32, Offset, "32")
  BY <1>6, <1>8
<1> QED
  BY <1>5, <1>7, <1>8 DEF MOVEUNALIGNED_LEFT47

LEMMA SseKeeps ==
  ASSUME CopyInv, isa = "sse", cne_pktcpy_generic_sse
  PROVE  CopyInv'
<1>1. Typed /\ Labels
  BY DEF CopyInv
<1>2. n \in Nat /\ dst \in Nat /\ dst + n = size /\ size \in Nat
  BY <1>1 DEF Typed
<1>3. CASE pc = "generic"
  BY <1>3, SseHead
<1>4. ASSUME NEW k \in {256, 128, 64, 32}, NEW label \in {"128", "64", "32", "back"},
             Take(k, label), moved = 0, size > 64, n <= 2 * k,
             label = "128" => k = 256, label = "64" => k = 128, label = "32" => k = 64,
             label = "back" => k = 32
      PROVE  CopyInv'
  <2>1. /\ Typed' /\ pc' = label /\ moved' = 0 /\ UNCHANGED <<isa, size>>
        /\ IF n >= k THEN n' = n - k ELSE n' = n
    BY <1>1, <1>4, TakeRight DEF Blocksizes
  <2>2. n' <= k
    BY <1>2, <1>4, <2>1
  <2>3. Labels'
    BY <1>4, <2>1, <2>2 DEF Labels, AtMost, Start
  <2> QED
    BY <1>4, <2>1, <2>3 DEF CopyInv
<1>5. CASE pc = "256" /\ Take(256, "128")
  BY <1>1, <1>4, <1>5 DEF Labels, AtMost, Start
<1>6. CASE pc = "128" /\ Take(128, "64")
  BY <1>1, <1>4, <1>6 DEF Labels, AtMost, Start
<1>7. CASE pc = "64" /\ Take(64, "32")
  BY <1>1, <1>4, <1>7 DEF Labels, AtMost, Start
<1>8. CASE pc = "32" /\ Take(32, "back")
  BY <1>1, <1>4, <1>8 DEF Labels, AtMost, Start
<1>9. CASE pc = "back" /\ Last(16)
  <2>1. moved = 0 /\ size > 64 /\ n <= 2 * 16
    BY <1>1, <1>2, <1>9 DEF Labels, AtMost, Start
  <2> QED
    BY <1>1, <1>2, <1>9, <2>1, LastRight DEF Blocksizes
<1>10. CASE pc = "aligned" /\ Goto(IF (saddr + src) % 16 = 0 THEN "256s" ELSE "unaligned128")
  <2> DEFINE label == IF (saddr + src) % 16 = 0 THEN "256s" ELSE "unaligned128"
  <2>1. moved = 0 /\ size > 64 /\ (dst = 0 \/ dst >= 16) /\ n >= 16
    BY <1>1, <1>10 DEF Labels, Start
  <2>2. saddr \in Nat /\ src \in Nat
    BY <1>1 DEF Typed
  <2>3. /\ label \in {"256s", "unaligned128"}
        /\ label = "unaligned128" => (saddr + src) % 16 > 0 /\ n >= 16 - ((saddr + src) % 16)
    BY <1>2, <2>1, <2>2
  <2>4. Goto(label)
    BY <1>10
  <2> HIDE DEF label
  <2>5. Typed' /\ pc' = label /\ UNCHANGED <<isa, size, saddr, dst, src, n, moved>>
    BY <1>1, <2>4, GotoRight
  <2>6. Labels'
    BY <2>1, <2>3, <2>5 DEF Labels, AtMost, Start
  <2> QED
    BY <2>3, <2>5, <2>6 DEF CopyInv
<1>11. CASE pc = "256s" /\ n >= 256 /\ Take(256, "256s")
  <2>1. moved = 0 /\ size > 64
    BY <1>1, <1>11 DEF Labels, Start
  <2>2. Typed' /\ pc' = "256s" /\ moved' = 0 /\ UNCHANGED <<isa, size>>
    BY <1>1, <1>11, <2>1, TakeRight DEF Blocksizes
  <2>3. Labels'
    BY <2>1, <2>2 DEF Labels, AtMost, Start
  <2> QED
    BY <2>2, <2>3 DEF CopyInv
<1>12. CASE pc = "256s" /\ ~ (n >= 256) /\ Goto("128")
  <2>1. moved = 0 /\ size > 64 /\ n <= 256
    BY <1>1, <1>2, <1>12 DEF Labels, Start
  <2>2. Typed' /\ pc' = "128" /\ UNCHANGED <<isa, size, n, moved>>
    BY <1>1, <1>12, GotoRight
  <2>3. Labels'
    BY <2>1, <2>2 DEF Labels, AtMost, Start
  <2> QED
    BY <2>2, <2>3 DEF CopyInv
<1>13. CASE MOVEUNALIGNED_LEFT47((saddr + src) % 16)
  BY <1>13, UnalignedKeeps DEF Offset
<1> QED
  BY <1>3, <1>5, <1>6, <1>7, <1>8, <1>9, <1>10, <1>11, <1>12, <1>13 DEF cne_pktcpy_generic_sse

(* Every step of a copy keeps CopyInv, for all arguments of cne_pktcpy and *)
(* all three instruction sets.                                             *)
THEOREM CopyInvariant ==
  ASSUME Arguments
  PROVE  Spec => []CopyInv
<1>1. Init => CopyInv
  <2> SUFFICES ASSUME Init PROVE CopyInv
    OBVIOUS
  <2>1. /\ isa \in {"sse", "avx2", "avx512"} /\ size \in Nat /\ daddr \in Nat /\ saddr \in Nat
        /\ pc = "call" /\ dst = 0 /\ src = 0 /\ n = size /\ moved = 0 /\ w = Nothing
    BY DEF Init, Arguments
  <2>2. saddr % 16 \in Int /\ saddr % 16 >= 0
    BY <2>1
  <2>3. Nothing \in Writes
    BY DEF Nothing, Writes
  <2>4. Sound(w, dst + moved)
    BY <2>1, <2>2, <2>3 DEF Sound, Nothing
  <2>5. Typed
    BY <2>1, <2>4 DEF Typed
  <2>6. Labels
    BY <2>1 DEF Labels, AtMost, Start
  <2> QED
    BY <2>1, <2>5, <2>6 DEF CopyInv
<1>2. CopyInv /\ [Next]_vars => CopyInv'
  <2> SUFFICES ASSUME CopyInv, [Next]_vars PROVE CopyInv'
    OBVIOUS
  <2>1. CASE UNCHANGED vars
    BY <2>1 DEF CopyInv, Typed, Labels, AtMost, Start, Sound, vars, call
  <2> QED
    BY <2>1, CallKeeps, AlignedKeeps, Avx512Keeps, Avx2Keeps, SseKeeps DEF Next
<1> QED
  BY <1>1, <1>2, PTL DEF Spec

(* cne_pktcpy copies exactly the packet: CopyExact holds for every length, *)
(* every pair of addresses and every instruction set.                      *)
THEOREM PacketsCopied ==
  ASSUME Arguments
  PROVE  Spec => []CopyExact
<1>1. CopyInv => CopyExact
  BY DEF CopyInv, CopyExact, Typed, Sound
<1> QED
  BY <1>1, CopyInvariant, PTL
=============================================================================
