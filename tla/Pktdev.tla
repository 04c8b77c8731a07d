------------------------------- MODULE Pktdev -------------------------------
(***************************************************************************)
(* The table of logical ports (pktdev.c, pktdev_api.c) and the poll-mode   *)
(* drivers for AF_PACKET, TUN/TAP, null and ring devices.                  *)
(*                                                                         *)
(* In mode "ports" the application sets up and closes ports; every probe   *)
(* may fail at any of its steps.  In the other modes, named after the      *)
(* drivers, one port exchanges packets with the kernel: a packet is its    *)
(* number, a buffer of the pool a member of Bufs.                          *)
(***************************************************************************)
EXTENDS Integers, Sequences, FiniteSets, FiniteSetsExt, SequencesExt

CONSTANTS NumPorts,    \* CNE_MAX_ETHPORTS
          PortNames, Bufs,
          RingFrames,  \* FRAME_CNT of an AF_PACKET ring, capacity of the others
          TapBatch,    \* TAP_RX_MBUF_COUNT
          MaxPkts,     \* packets that arrive and packets that are sent
          PdModes

VARIABLES pdmode, pd

(***************************************************************************)
(* The table                                                               *)
(***************************************************************************)
Ids == 0 .. NumPorts - 1

Kinds == {"af_xdp", "af_packet", "tap", "null", "ring"}

\* name is 0 when the port has no data; live says that dev_private is allocated.
NoDev == [active |-> FALSE, name |-> 0, ops |-> FALSE, admin |-> FALSE, live |-> FALSE]

pktdev_allocated(p, n) == \E i \in Ids : p.dev[i].active /\ p.dev[i].name = n

AllocateAnyName(p, n) == LET free == {i \in Ids : ~p.dev[i].active} IN IF free = {} THEN NumPorts ELSE Min(free)

\* The port pktdev_allocate takes, NumPorts when it fails.
pktdev_allocate(p, n) ==
    LET free == {i \in Ids : ~p.dev[i].active}
    IN  IF pktdev_allocated(p, n) \/ free = {} THEN NumPorts ELSE Min(free)

\* A port whose probe succeeded: pktdev_port_setup makes it active.
Probed(n) == [NoDev EXCEPT !.name = n, !.ops = TRUE, !.live = TRUE]

\* tun_free keeps everything when the interface cannot be taken down, which
\* only an interface with a control socket needs.
tun_free(held, downOk) == IF "sock" \in held /\ ~downOk THEN held ELSE {}

\* What tun_alloc holds when it returns; its step j fails, or none when j = 4.
tun_alloc(j, downOk) ==
    LET held == {"info"} \cup (IF j > 1 THEN {"fd"} ELSE {}) \cup (IF j > 2 THEN {"sock"} ELSE {})
    IN  IF j = 4 THEN held ELSE tun_free(held, downOk)

\* The probes: i is the port pktdev_allocate took; k = 1 when it took none or
\* a call before it failed, k = 2 when a later call failed.  The result is the
\* table and the value returned.
Ok(p, i, n) == [dev |-> [p.dev EXCEPT ![i] = Probed(n)], r |-> i]

\* pmd_af_xdp keeps a pointer to the private data that it frees.
pmd_af_xdp_probe(p, i, n, k) ==
    CASE k = 1 -> [dev |-> p.dev, r |-> -1]
      [] k = 2 -> [dev |-> [p.dev EXCEPT ![i] = [Probed(n) EXCEPT !.live = FALSE]], r |-> -1]
      [] OTHER -> Ok(p, i, n)

\* The failing call may leave a negative value in ret (neg); otherwise ret is 0.
pmd_af_packet_probe(p, i, n, k, neg) ==
    CASE k = 1 -> [dev |-> p.dev, r |-> 0]
      [] k = 2 -> [dev |-> [p.dev EXCEPT ![i] = NoDev], r |-> IF neg THEN -1 ELSE 0]
      [] OTHER -> Ok(p, i, n)

_tap_probe(p, i, n, k) ==
    CASE k = 1 -> [dev |-> p.dev, r |-> 0]
      [] k = 2 -> [dev |-> [p.dev EXCEPT ![i] = NoDev], r |-> 0]
      [] OTHER -> Ok(p, i, n)

pmd_null_probe(p, i, n, k) ==
    CASE k = 1 -> [dev |-> p.dev, r |-> -1]
      [] k = 2 -> [dev |-> [p.dev EXCEPT ![i].name = n], r |-> -1]
      [] OTHER -> Ok(p, i, n)

pmd_ring_probe(p, i, n, k) == IF k < 3 THEN [dev |-> p.dev, r |-> -1] ELSE Ok(p, i, n)

\* A TUN/TAP probe whose later call failed keeps what tun_free could not free.
Left(kind, k, j, downOk) ==
    IF kind # "tap" \/ k # 2 THEN {}
    ELSE IF j = 4 THEN tun_free(tun_alloc(4, downOk), downOk) ELSE tun_alloc(j, downOk)

\* pktdev_port_setup: probe, make the port active, start it.
pktdev_port_setup(p, kind, n, step, neg, j, downOk) ==
    LET i == pktdev_allocate(p, n)
        k == IF i = NumPorts THEN 1 ELSE step
        v == CASE kind = "af_xdp" -> pmd_af_xdp_probe(p, i, n, k)
               [] kind = "af_packet" -> pmd_af_packet_probe(p, i, n, k, neg)
               [] kind = "tap" -> _tap_probe(p, i, n, k)
               [] kind = "null" -> pmd_null_probe(p, i, n, k)
               [] OTHER -> pmd_ring_probe(p, i, n, k)
        q == [p EXCEPT !.left = @ \cup Left(kind, k, j, downOk), !.down = @ /\ downOk]
    IN  IF v.r < 0 THEN [q EXCEPT !.dev = v.dev]
        ELSE LET d == [v.dev EXCEPT ![v.r].active = TRUE]
             IN  IF d[v.r].name = 0 \/ ~d[v.r].ops THEN [q EXCEPT !.dev = d, !.zero = TRUE]
                 ELSE [q EXCEPT !.dev = [d EXCEPT ![v.r].admin = TRUE], !.zero = @ \/ k < 3,
                                !.mine = @ \cup {[name |-> n, id |-> v.r]}]

\* pktdev_close: nothing unless the port has data and operations.
pktdev_close(p, i) ==
    IF p.dev[i].name = 0 \/ ~p.dev[i].ops THEN [p EXCEPT !.err = TRUE]
    ELSE [p EXCEPT !.dev[i] = NoDev, !.twice = @ \/ ~p.dev[i].live, !.err = FALSE,
                   !.mine = {m \in @ : m.id # i}]

\* pktdev_close_all stops at the first port that cannot be closed.
pktdev_close_all(p) ==
    FoldLeft(LAMBDA q, i : IF q.err THEN q ELSE pktdev_close(q, i), [p EXCEPT !.err = FALSE],
             [i \in 1 .. NumPorts |-> i - 1])

\* pktdev_get_port_by_name; NumPorts when there is no such port.
pktdev_get_port_by_name(p, n) ==
    LET at == {i \in Ids : p.dev[i].active /\ p.dev[i].name = n} IN IF at = {} THEN NumPorts ELSE Min(at)

pktdev_stop(p, i) == [p EXCEPT !.dev[i].admin = FALSE]

pktdev_start(p, i) == [p EXCEPT !.dev[i].admin = TRUE]

Ports ==
    \/ \E kind \in Kinds, n \in PortNames, k \in 1 .. 3, neg \in BOOLEAN, j \in 1 .. 4, downOk \in BOOLEAN :
         pd' = pktdev_port_setup(pd, kind, n, k, neg, j, downOk)
    \/ \E m \in pd.mine : \/ pd' = pktdev_close(pd, m.id)
                          \/ pd' = pktdev_stop(pd, m.id)
                          \/ pd' = pktdev_start(pd, m.id)
    \/ pd' = pktdev_close_all(pd)

(***************************************************************************)
(* Packets: free buffers, app the buffers the application holds and their  *)
(* contents, arrived and sent what came from and went to the wire          *)
(***************************************************************************)
Frame == [status |-> "kernel", pkt |-> 0]

NoPort == [free |-> Bufs, app |-> <<>>, cache |-> <<>>, idx |-> 0, fd |-> <<>>,
           rx |-> [i \in 0 .. RingFrames - 1 |-> Frame], rxu |-> 0, rxk |-> 0,
           tx |-> [i \in 0 .. RingFrames - 1 |-> Frame], txu |-> 0, txk |-> 0,
           arrived |-> 0, made |-> 0, got |-> <<>>, sent |-> <<>>, told |-> <<>>, failed |-> FALSE]

Nxt(i) == (i + 1) % RingFrames

\* Hand packet k in buffer b to the application.
Give(p, b, k) == [p EXCEPT !.app = Append(@, <<b, k>>), !.got = Append(@, k)]

\* The turn of pmd_af_packet_rx for one packet: an empty frame or an empty
\* pool ends the burst.
AfPacketRx1(p) ==
    LET f == p.rx[p.rxu]
    IN  IF f.status # "user" \/ p.free = {} THEN p
        ELSE LET b == Min(p.free)
             IN  [Give(p, b, f.pkt) EXCEPT !.free = @ \ {b}, !.rx[p.rxu] = Frame, !.rxu = Nxt(@)]

pmd_af_packet_rx(p, nb) == FoldLeft(LAMBDA q, i : AfPacketRx1(q), p, [i \in 1 .. nb |-> i])

\* pmd_af_packet_tx copies each packet into a frame that is free and frees its
\* buffer; sendto failing makes it report that nothing was sent.
AfPacketTx1(p) ==
    IF p.tx[p.txu].status # "kernel" \/ p.app = <<>> THEN p
    ELSE [p EXCEPT !.tx[p.txu] = [status |-> "send", pkt |-> Head(p.app)[2]], !.txu = Nxt(@),
                   !.free = @ \cup {Head(p.app)[1]}, !.told = Append(@, Head(p.app)[2]), !.app = Tail(@)]

pmd_af_packet_tx(p, nb, fails) ==
    LET q == FoldLeft(LAMBDA r, i : AfPacketTx1(r), p, [i \in 1 .. nb |-> i])
    IN  IF fails /\ q # p THEN [q EXCEPT !.app = p.app, !.told = p.told, !.failed = TRUE] ELSE q

\* pmd_alloc_rx_mbuf: the buffers are taken from the pool a batch at a time.
pmd_alloc_rx_mbuf(p) ==
    IF p.idx < Len(p.cache) THEN [p EXCEPT !.idx = @ + 1]
    ELSE IF Cardinality(p.free) < TapBatch THEN [p EXCEPT !.idx = 0, !.cache = <<>>]
    ELSE LET c == SubSeq(SetToSortSeq(p.free, <), 1, TapBatch)
         IN  [p EXCEPT !.cache = c, !.idx = 1, !.free = @ \ ToSet(c)]

pmd_free_rx_mbuf(p) == [p EXCEPT !.idx = @ - 1]

\* One turn of pmd_tuntap_rx; strip says that the kernel cut the packet short.
TapRx1(p, strip) ==
    LET q == pmd_alloc_rx_mbuf(p)
    IN  IF q.idx = 0 THEN q
        ELSE IF p.fd = <<>> THEN pmd_free_rx_mbuf(q)
        ELSE IF strip THEN [pmd_free_rx_mbuf(q) EXCEPT !.fd = Tail(@), !.got = Append(@, 0)]
        ELSE [Give(q, q.cache[q.idx], Head(p.fd)) EXCEPT !.fd = Tail(@)]

pmd_tuntap_rx(p, nb, strip) == FoldLeft(LAMBDA q, i : TapRx1(q, strip), p, [i \in 1 .. nb |-> i])

\* pmd_tuntap_tx writes until a write fails, frees the whole burst and
\* returns how many were written.
pmd_tuntap_tx(p, nb, written) ==
    LET pkts == [i \in 1 .. written |-> p.app[i][2]]
    IN  [p EXCEPT !.sent = @ \o pkts, !.told = @ \o pkts, !.failed = @ \/ written < nb,
                  !.free = @ \cup {p.app[i][1] : i \in 1 .. nb},
                  !.app = SubSeq(@, written + 1, Len(@))]

\* pmd_null: receives as many buffers as asked or none, frees what it sends.
pmd_null_rx_burst(p, nb) ==
    IF Cardinality(p.free) < nb THEN p
    ELSE LET c == SubSeq(SetToSortSeq(p.free, <), 1, nb)
         IN  [p EXCEPT !.free = @ \ ToSet(c), !.app = @ \o [i \in 1 .. nb |-> <<c[i], 0>>]]

pmd_null_tx_burst(p, nb) ==
    LET pkts == [i \in 1 .. nb |-> p.app[i][2]]
    IN  [p EXCEPT !.free = @ \cup {p.app[i][1] : i \in 1 .. nb}, !.app = SubSeq(@, nb + 1, Len(@)),
                  !.sent = @ \o pkts, !.told = @ \o pkts]

\* pmd_ring: the buffers themselves go through the ring, here fd.
pmd_ring_rx(p, nb) ==
    LET n == Min({nb, Len(p.fd)})
    IN  [p EXCEPT !.app = @ \o SubSeq(p.fd, 1, n), !.fd = SubSeq(@, n + 1, Len(@)),
                  !.got = @ \o [i \in 1 .. n |-> p.fd[i][2]]]

pmd_ring_tx(p, nb) ==
    LET n == Min({nb, RingFrames - Len(p.fd)})
        pkts == [i \in 1 .. n |-> p.app[i][2]]
    IN  [p EXCEPT !.fd = @ \o SubSeq(p.app, 1, n), !.app = SubSeq(@, n + 1, Len(@)),
                  !.sent = @ \o pkts, !.told = @ \o pkts]

\* The kernel receives a packet, or drops it.
Arrive ==
    /\ pd.arrived < MaxPkts
    /\ \/ /\ pdmode = "af_packet" /\ pd.rx[pd.rxk].status = "kernel"
          /\ pd' = [pd EXCEPT !.arrived = @ + 1, !.rxk = Nxt(@),
                              !.rx[pd.rxk] = [status |-> "user", pkt |-> pd.arrived + 1]]
       \/ /\ pdmode = "tap" /\ Len(pd.fd) < RingFrames
          /\ pd' = [pd EXCEPT !.arrived = @ + 1, !.fd = Append(@, pd.arrived + 1)]

\* The kernel sends the next frame of the transmit ring.
KernelSend ==
    /\ pdmode = "af_packet" /\ pd.tx[pd.txk].status = "send"
    /\ pd' = [pd EXCEPT !.tx[pd.txk] = Frame, !.txk = Nxt(@), !.sent = Append(@, pd.tx[pd.txk].pkt)]

\* The application makes a packet of its own, or drops the first it holds.
AppAlloc ==
    /\ pd.free # {} /\ pd.made < MaxPkts
    /\ pd' = [pd EXCEPT !.free = @ \ {Min(pd.free)}, !.made = @ + 1,
                        !.app = Append(@, <<Min(pd.free), MaxPkts + pd.made + 1>>)]

AppFree == pd.app # <<>> /\ pd' = [pd EXCEPT !.free = @ \cup {Head(pd.app)[1]}, !.app = Tail(@)]

Receive(nb) ==
    \/ pdmode = "af_packet" /\ pd' = pmd_af_packet_rx(pd, nb)
    \/ pdmode = "tap" /\ \E strip \in BOOLEAN : pd' = pmd_tuntap_rx(pd, nb, strip)
    \/ pdmode = "null" /\ pd' = pmd_null_rx_burst(pd, nb)
    \/ pdmode = "ring" /\ pd' = pmd_ring_rx(pd, nb)

Send(nb) ==
    \/ pdmode = "af_packet" /\ \E fails \in BOOLEAN : pd' = pmd_af_packet_tx(pd, nb, fails)
    \/ pdmode = "tap" /\ \E w \in 0 .. nb : pd' = pmd_tuntap_tx(pd, nb, w)
    \/ pdmode = "null" /\ Len(pd.sent) < MaxPkts /\ pd' = pmd_null_tx_burst(pd, nb)
    \/ pdmode = "ring" /\ Len(pd.sent) < MaxPkts /\ pd' = pmd_ring_tx(pd, nb)

(***************************************************************************)
(* The whole                                                               *)
(***************************************************************************)
Init ==
    /\ pdmode \in PdModes
    /\ pd = IF pdmode = "ports"
            THEN [dev |-> [i \in Ids |-> NoDev], mine |-> {}, zero |-> FALSE, left |-> {}, down |-> TRUE, twice |-> FALSE, err |-> FALSE]
            ELSE NoPort

Next ==
    /\ UNCHANGED pdmode
    /\ \/ pdmode = "ports" /\ ~pd.zero /\ ~pd.twice /\ Ports
       \/ /\ pdmode # "ports" /\ ~pd.failed
          /\ \/ Arrive \/ KernelSend \/ AppAlloc \/ AppFree
             \/ \E nb \in 1 .. 2 : Receive(nb) \/ (nb <= Len(pd.app) /\ Send(nb))

\* The ports the application was given and has not closed are active, hold the
\* name they were set up with and live private data, and are found by that
\* name (pktdev_allocate, pktdev_port_setup, pktdev_close) -- until a TUN/TAP
\* or AF_PACKET probe that failed reports port 0, or pktdev_close_all meets a
\* port an AF_XDP probe left behind; a TUN/TAP device that was not set up
\* keeps nothing unless it could not be taken down (tun_free).  No buffer is in two places or lost, the
\* packets arrive in their order and none twice, and those a driver says it
\* sent are exactly those on their way to the wire, in order -- until a system
\* call fails in the middle of a burst.
PortsRight ==
    IF pdmode = "ports"
    THEN /\ pd.down => pd.left = {}
         /\ ~pd.zero /\ ~pd.twice =>
           \A m \in pd.mine : /\ pd.dev[m.id] = [Probed(m.name) EXCEPT !.active = TRUE, !.admin = pd.dev[m.id].admin]
                              /\ pktdev_get_port_by_name(pd, m.name) = m.id
    ELSE ~pd.failed =>
           LET held == {pd.app[i][1] : i \in DOMAIN pd.app}
               kept == {pd.cache[i] : i \in pd.idx + 1 .. Len(pd.cache)}
               inside == IF pdmode = "ring" THEN {pd.fd[i][1] : i \in DOMAIN pd.fd} ELSE {}
               out == {i \in 0 .. RingFrames - 1 : pd.tx[i].status = "send"}
               way == [i \in 1 .. Cardinality(out) |-> pd.tx[(pd.txk + i - 1) % RingFrames].pkt]
           IN  /\ pd.free \cup held \cup kept \cup inside = Bufs
               /\ Cardinality(pd.free) + Len(pd.app) + Cardinality(kept) + Cardinality(inside) = Cardinality(Bufs)
               /\ pd.sent \o way = pd.told
               /\ pdmode \in {"af_packet", "tap"} =>
                    \A i \in DOMAIN pd.got : pd.got[i] \in {i, 0}

=============================================================================
