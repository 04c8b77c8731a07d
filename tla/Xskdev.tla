------------------------------- MODULE Xskdev -------------------------------
(***************************************************************************)
(* AF_XDP sockets (xskdev.c).  The frames of the shared memory (UMEM) move *)
(* between the buffer pool, the application, the four rings shared with    *)
(* the kernel and the kernel.  One thread receives, the Senders transmit   *)
(* under the lock of the socket, and the kernel runs at any time.  The     *)
(* rings are libxdp's: a producer and a consumer index, each side keeping  *)
(* a cached copy of the other side's.  A descriptor is an address: the     *)
(* frame's number times FrameSz plus an offset (aligned buffers).          *)
(*                                                                         *)
(* In mode "socket" the module models the creation and the destruction of  *)
(* a socket, any step of which may fail.                                   *)
(***************************************************************************)
EXTENDS Integers, Sequences, FiniteSets, FiniteSetsExt, SequencesExt

CONSTANTS Frames,      \* the frames of the UMEM, 0 .. n-1
          FrameSz,     \* frame_size
          Hdr,         \* buf_headroom: the size of the mbuf header
          Offsets,     \* where in a frame the kernel may put a packet
          FqSize, RxSize, TxSize, CqSize,
          Burst,       \* FQ_ADD_BURST_COUNT
          TxBatch,     \* LPORT_TX_BATCH_SIZE
          NbPkts,      \* the burst sizes the application asks for
          Senders,     \* the threads that call xskdev_tx_burst
          XModes

VARIABLES xmode, x, xpc

Size(q) == CASE q = "fq" -> FqSize [] q = "rx" -> RxSize [] q = "tx" -> TxSize [] OTHER -> CqSize

\* The indexes wrap at 2^32 in the code: any multiple of twice the size will do.
Sub(q, a, b) == (a - b + 2 * Size(q)) % (2 * Size(q))

Add(q, a, n) == (a + n) % (2 * Size(q))

Ring(q) == [prod |-> 0, cons |-> 0, cprod |-> 0, slot |-> [i \in 0 .. Size(q) - 1 |-> 0],
            ccons |-> IF q \in {"fq", "tx"} THEN Size(q) ELSE 0]

\* The entries between two indexes of ring q.
Entries(q, from, to) == [i \in 1 .. Sub(q, to, from) |-> x[q].slot[Add(q, from, i - 1) % Size(q)]]

\* libxdp: reserve n slots or none.
Reserve(q, r, n) ==
    LET k == IF Sub(q, r.ccons, r.cprod) >= n THEN r ELSE [r EXCEPT !.ccons = Add(q, r.cons, Size(q))]
    IN  IF Sub(q, k.ccons, k.cprod) < n THEN [n |-> 0, pos |-> 0, r |-> k]
        ELSE [n |-> n, pos |-> k.cprod, r |-> [k EXCEPT !.cprod = Add(q, k.cprod, n)]]

\* libxdp: how many entries, at most n, may be read.
Peek(q, r, n) ==
    LET k == IF r.cprod = r.ccons THEN [r EXCEPT !.cprod = r.prod] ELSE r
        m == Min({n, Sub(q, k.cprod, k.ccons)})
    IN  [n |-> m, pos |-> k.ccons, r |-> [k EXCEPT !.ccons = Add(q, k.ccons, m)]]

\* A slot that was read is not read again before it is written: forget it.
Taken(q, v) ==
    [v.r EXCEPT !.slot = [i \in DOMAIN @ |-> IF \E k \in 0 .. v.n - 1 : Add(q, v.pos, k) % Size(q) = i THEN 0 ELSE @[i]]]

\* Write addresses s into the slots from pos on and submit them.
Submit(q, r, pos, s) ==
    [r EXCEPT !.slot = [i \in DOMAIN r.slot |->
                            IF \E k \in 1 .. Len(s) : Add(q, pos, k - 1) % Size(q) = i
                            THEN s[CHOOSE k \in 1 .. Len(s) : Add(q, pos, k - 1) % Size(q) = i]
                            ELSE r.slot[i]],
              !.prod = Add(q, r.prod, Len(s))]

(***************************************************************************)
(* Addresses                                                               *)
(***************************************************************************)
__get_mbuf_rx_aligned(a) == [f |-> a \div FrameSz, off |-> (a % FrameSz) - Hdr]

__get_mbuf_addr_tx_aligned(f) == f * FrameSz + Hdr + x.doff[f]

__pull_cq_addr_aligned(a) == a \div FrameSz

(***************************************************************************)
(* The receiving thread                                                    *)
(***************************************************************************)
\* One turn of the loop of fq_add.  When the pool cannot give a burst,
\* nb_bufs is 0 and the cancel gives back none of the reserved slots.
fq_add(s, times) ==
    LET v == Reserve("fq", s.fq, Burst)
    IN  IF v.n = 0 THEN [x |-> [s EXCEPT !.fq = v.r], again |-> FALSE]
        ELSE IF Cardinality(s.free) < Burst
             THEN [x |-> [s EXCEPT !.fq = v.r, !.short = TRUE], again |-> FALSE]
        ELSE LET fs == SubSeq(SetToSortSeq(s.free, <), 1, Burst)
             IN  [x |-> [s EXCEPT !.free = @ \ ToSet(fs),
                                  !.fq = Submit("fq", v.r, v.pos, [i \in 1 .. Burst |-> fs[i] * FrameSz])],
                  again |-> times > 1]

Goto(t, pc) == xpc' = [xpc EXCEPT ![t] = pc]

\* xskdev_rx_burst_default up to the release: with nothing to receive it
\* only wakes the kernel.
RxPeek ==
    /\ xpc.rx = "idle"
    /\ \E nb \in NbPkts :
         LET v  == Peek("rx", x.rx, nb)
             es == Entries("rx", v.pos, Add("rx", v.pos, v.n))
             ms == [i \in 1 .. v.n |-> __get_mbuf_rx_aligned(es[i])]
         IN  /\ x' = [x EXCEPT !.rx = Taken("rx", v), !.bufs.rx = [i \in 1 .. v.n |-> ms[i].f],
                               !.doff = [f \in Frames |->
                                            IF \E i \in 1 .. v.n : ms[i].f = f
                                            THEN ms[CHOOSE i \in 1 .. v.n : ms[i].f = f].off
                                            ELSE @[f]]]
             /\ Goto("rx", IF v.n = 0 THEN "idle" ELSE "release")

RxRelease ==
    /\ xpc.rx = "release"
    /\ x' = [x EXCEPT !.rx.cons = Add("rx", @, Len(x.bufs.rx)), !.times = 2]
    /\ Goto("rx", "fq")

RxRefill ==
    /\ xpc.rx = "fq"
    /\ LET r == fq_add(x, x.times)
       IN  IF r.again
           THEN x' = [r.x EXCEPT !.times = @ - 1] /\ Goto("rx", "fq")
           ELSE /\ x' = [r.x EXCEPT !.app = @ \cup ToSet(x.bufs.rx), !.bufs.rx = <<>>, !.times = 0]
                /\ Goto("rx", "idle")

(***************************************************************************)
(* A sending thread                                                        *)
(***************************************************************************)
TxCall(t) ==
    /\ xpc[t] = "idle"
    /\ \E nb \in NbPkts \cap 1 .. Cardinality(x.app) :
         LET fs == SubSeq(SetToSortSeq(x.app, <), 1, nb)
         IN  x' = [x EXCEPT !.bufs[t] = fs, !.app = @ \ ToSet(fs)]
    /\ Goto(t, "lock")

TxLockIgnored(t) ==
    /\ xpc[t] = "lock"
    /\ LET v == Reserve("tx", x.tx, Len(x.bufs[t]))
       IN  x' = [x EXCEPT !.tx = v.r, !.resv = [n |-> v.n, pos |-> v.pos]]
    /\ Goto(t, "fill")

\* xskdev_tx_burst_default takes the lock; the reservation follows.
TxLock(t) ==
    /\ xpc[t] = "lock" /\ \A u \in Senders : xpc[u] \in {"idle", "lock"}
    /\ LET v == Reserve("tx", x.tx, Len(x.bufs[t]))
       IN  x' = [x EXCEPT !.tx = v.r, !.resv = [n |-> v.n, pos |-> v.pos]]
    /\ Goto(t, "fill")

\* The rest of xskdev_tx_burst_locked up to pull_umem_cq.  The buffers that
\* found no room stay with the caller.
TxFill(t) ==
    /\ xpc[t] = "fill"
    /\ LET v    == x.resv
           sent == SubSeq(x.bufs[t], 1, v.n)
       IN  x' = [x EXCEPT !.tx = Submit("tx", @, v.pos, [i \in 1 .. v.n |-> __get_mbuf_addr_tx_aligned(sent[i])]),
                          !.app = @ \cup (ToSet(x.bufs[t]) \ ToSet(sent)),
                          !.bufs[t] = <<>>, !.resv = [n |-> 0, pos |-> 0]]
    /\ Goto(t, "pull")

\* pull_umem_cq: read the completed addresses, release their slots, and give
\* the frames back to the pool.
PullPeek(t) ==
    /\ xpc[t] = "pull"
    /\ LET v == Peek("cq", x.cq, TxBatch)
           es == Entries("cq", v.pos, Add("cq", v.pos, v.n))
       IN  /\ x' = [x EXCEPT !.cq = Taken("cq", v), !.bufs[t] = [i \in 1 .. v.n |-> __pull_cq_addr_aligned(es[i])]]
           /\ Goto(t, IF v.n = 0 THEN "idle" ELSE "cqrelease")

PullRelease(t) ==
    /\ xpc[t] = "cqrelease"
    /\ x' = [x EXCEPT !.cq.cons = Add("cq", @, Len(x.bufs[t]))]
    /\ Goto(t, "free")

PullFree(t) ==
    /\ xpc[t] = "free"
    /\ x' = [x EXCEPT !.free = @ \cup ToSet(x.bufs[t]), !.bufs[t] = <<>>,
                      !.doff = [f \in Frames |-> IF f \in ToSet(x.bufs[t]) THEN 0 ELSE @[f]]]
    /\ Goto(t, "idle")

(***************************************************************************)
(* The application and the kernel                                          *)
(***************************************************************************)
\* pmd_pkt_alloc and pktmbuf_free.
AppAlloc == /\ x.free # {}
            /\ \E f \in {Min(x.free)} : x' = [x EXCEPT !.free = @ \ {f}, !.app = @ \cup {f}, !.doff[f] = 0]
            /\ UNCHANGED xpc

AppFree == /\ \E f \in x.app : x' = [x EXCEPT !.app = @ \ {f}, !.free = @ \cup {f}, !.doff[f] = 0]
           /\ UNCHANGED xpc

\* The kernel receives a packet into the next frame of the fill ring.
KernelRx ==
    /\ x.fq.cons # x.fq.prod /\ Sub("rx", x.rx.prod, x.rx.cons) < RxSize
    /\ \E o \in Offsets :
         LET a == x.fq.slot[x.fq.cons % FqSize]
         IN  x' = [x EXCEPT !.fq.cons = Add("fq", @, 1), !.fq.slot[x.fq.cons % FqSize] = 0,
                            !.rx = Submit("rx", x.rx, x.rx.prod, <<(a \div FrameSz) * FrameSz + o>>)]
    /\ UNCHANGED xpc

\* The kernel sends the next packet and completes its address.
KernelTx ==
    /\ x.tx.cons # x.tx.prod /\ Sub("cq", x.cq.prod, x.cq.cons) < CqSize
    /\ x' = [x EXCEPT !.tx.cons = Add("tx", @, 1), !.tx.slot[x.tx.cons % TxSize] = 0,
                      !.cq = Submit("cq", x.cq, x.cq.prod, <<x.tx.slot[x.tx.cons % TxSize]>>)]
    /\ UNCHANGED xpc

(***************************************************************************)
(* Creating and destroying a socket                                        *)
(***************************************************************************)
\* prog is the XDP program of the interface, id the one xi->prog_id names; left
\* is history: the program of a socket had no chance to go with it.
NoSocket == [have |-> {}, busy |-> FALSE, opts |-> {}, stuck |-> FALSE,
             unprivileged |-> FALSE, id |-> "none", prog |-> "none", left |-> FALSE]

\* configure_busy_poll of a privileged socket; fails are the setsockopt calls
\* that fail, by number.
configure_busy_poll(s, fails) ==
    CASE 1 \in fails -> [s EXCEPT !.busy = FALSE]
      [] 1 \notin fails /\ 2 \in fails ->
            IF 5 \in fails THEN [s EXCEPT !.opts = {"prefer"}, !.stuck = TRUE]
            ELSE [s EXCEPT !.busy = FALSE]
      [] fails \cap {1, 2} = {} /\ 3 \in fails ->
            IF 4 \in fails THEN [s EXCEPT !.opts = {"prefer", "timeout"}, !.stuck = TRUE]
            ELSE IF 5 \in fails THEN [s EXCEPT !.opts = {"prefer"}, !.stuck = TRUE]
            ELSE [s EXCEPT !.busy = FALSE]
      [] OTHER -> [s EXCEPT !.opts = {"prefer", "timeout", "budget"}]

\* The UMEM structure allocated by umem_create is not freed; q: the kernel
\* answers the query for the program, asked once if_index is set ("lock").
xskdev_socket_destroy(s, q) ==
    LET prog == IF "lock" \in s.have /\ ~s.unprivileged /\ q /\ s.id = s.prog THEN "none" ELSE s.prog
    IN  [s EXCEPT !.have = @ \cap {"ux"}, !.opts = {}, !.unprivileged = FALSE, !.id = "none", !.prog = prog,
                  !.left = prog # "none" /\ (@ \/ ~q \/ ("xsk" \in s.have /\ s.id = "none"))]

\* What each step of xskdev_socket_create adds; a step that fails leads to
\* the destruction of what was made so far.
Made(k) == {"info"} \cup (IF k > 1 THEN {"lock"} ELSE {}) \cup (IF k > 2 THEN {"ux", "umem"} ELSE {})
                    \cup (IF k > 3 THEN {"xsk"} ELSE {})

\* A privileged socket loads a program unless the interface has one, and takes
\* its number once the socket is made.
xskdev_socket_create(s, k, unprivileged, busy, fails, q) ==
    LET c == [s EXCEPT !.have = @ \cup Made(k), !.unprivileged = unprivileged /\ k > 2,
                       !.prog = IF k > 3 /\ ~unprivileged /\ @ = "none" THEN "ours" ELSE @]
        d == [c EXCEPT !.have = @ \cup {"listed"}, !.busy = busy, !.stuck = FALSE,
                       !.id = IF unprivileged THEN "none" ELSE c.prog]
    IN  IF k <= 4 THEN xskdev_socket_destroy(c, q)
        ELSE IF busy THEN configure_busy_poll(d, fails) ELSE d

SocketNext ==
    /\ xmode = "socket"
    /\ \/ /\ "info" \notin x.have
          /\ \E k \in 1 .. 5, unprivileged, busy, q \in BOOLEAN, fails \in SUBSET (1 .. 5) :
               x' = xskdev_socket_create(x, k, unprivileged, busy, fails, q)
       \/ "info" \in x.have /\ \E q \in BOOLEAN : x' = xskdev_socket_destroy(x, q)
       \/ \E p \in {"none", "other"} : x' = [x EXCEPT !.prog = p, !.left = FALSE]  \* somebody else's change
    /\ UNCHANGED xpc

(***************************************************************************)
(* The whole                                                               *)
(***************************************************************************)
Threads == {"rx"} \cup Senders

Start == [free |-> Frames, app |-> {}, bufs |-> [t \in Threads |-> <<>>], doff |-> [f \in Frames |-> 0],
          fq |-> Ring("fq"), rx |-> Ring("rx"), tx |-> Ring("tx"), cq |-> Ring("cq"),
          resv |-> [n |-> 0, pos |-> 0], times |-> 0, short |-> FALSE]

\* xskdev_socket_create fills the fill ring before it returns.
Init ==
    /\ xmode \in XModes
    /\ x = IF xmode = "socket" THEN NoSocket
           ELSE FoldLeft(LAMBDA s, i : fq_add(s, 2).x, Start, [i \in 1 .. FqSize \div Burst |-> i])
    /\ xpc = [t \in Threads |-> "idle"]

Next ==
    /\ UNCHANGED xmode
    /\ \/ SocketNext
       \/ /\ xmode = "rings" /\ ~x.short
          /\ \/ RxPeek \/ RxRelease \/ RxRefill
             \/ \E t \in Senders : TxCall(t) \/ TxLock(t) \/ TxFill(t) \/ PullPeek(t) \/ PullRelease(t) \/ PullFree(t)
             \/ AppAlloc \/ AppFree \/ KernelRx \/ KernelTx

(***************************************************************************)
(* Properties                                                              *)
(***************************************************************************)
\* Where each frame is: the frames of a ring are those the other side has
\* not yet taken over.
Held(f) ==
    LET In(s) == Cardinality({i \in DOMAIN s : s[i] = f})
        OfRing(q, from) == LET s == Entries(q, from, x[q].prod)
                           IN  Cardinality({i \in DOMAIN s : s[i] \div FrameSz = f})
    IN  Cardinality({f} \cap x.free) + Cardinality({f} \cap x.app)
        + FoldSet(LAMBDA t, n : n + In(x.bufs[t]), 0, Threads)
        + OfRing("fq", x.fq.cons) + OfRing("tx", x.tx.cons)
        + OfRing("rx", x.rx.ccons) + OfRing("cq", x.cq.ccons)

\* Until the pool fails to fill a burst, every frame of the UMEM is in exactly
\* one place, whatever the order in which the threads and the kernel run
\* (xskdev_rx_burst_default, xskdev_tx_burst_default, pull_umem_cq); what the
\* kernel is asked to send starts where the mbuf says its data starts; and a
\* socket that could not be created, or was destroyed, leaves nothing but the
\* structure of its UMEM behind, with busy polling either wholly set up or off
\* unless undoing it failed too.  The XDP program a socket loaded goes with it,
\* unless the kernel does not tell which one is there, or the creation failed
\* between the socket and its program's number.
FramesRight ==
    IF xmode = "socket"
    THEN /\ "info" \notin x.have => x.have \subseteq {"ux"} /\ (x.prog = "ours" => x.left)
         /\ "info" \in x.have /\ ~x.stuck => x.opts = IF x.busy THEN {"prefer", "timeout", "budget"} ELSE {}
    ELSE ~x.short =>
           /\ \A f \in Frames : Held(f) = 1
           /\ \A a \in ToSet(Entries("tx", x.tx.cons, x.tx.prod)) : a % FrameSz = Hdr + x.doff[a \div FrameSz]

=============================================================================
