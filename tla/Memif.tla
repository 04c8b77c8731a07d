------------------------------- MODULE Memif -------------------------------
(***************************************************************************)
(* The shared-memory packet interface (pmds/net/memif): one server process *)
(* and the client processes that connect to its socket.                    *)
(*                                                                         *)
(* The control channel is a sequenced-packet socket: every handler reads   *)
(* one message and sends at most one from its queue.  The data plane is a  *)
(* pair of rings in memory the client creates and the server maps.  A      *)
(* packet is a sequence of units <<sender, number, k>>, a descriptor holds *)
(* up to BufSz of them.  Handlers and bursts of one process are atomic.    *)
(***************************************************************************)
EXTENDS Integers, Sequences, SequencesExt, FiniteSets

CONSTANTS Clients,
          HelloRings,  \* CNE_ETH_MEMIF_MAX_NUM_Q_PAIRS
          CfgRings,    \* cfg.num_c2s_rings = cfg.num_s2c_rings
          RingSz,      \* 1 << log2_ring_size
          BufSz,       \* pkt_buffer_size
          PktLens,     \* data_len of the packets sent
          Talkers,     \* the clients whose packets are followed
          MaxSent, MaxFaults

VARIABLE mif

Wrap == 2 * RingSz  \* stands for 2^16: the indexes only ever are subtracted and masked

Minus(a, b) == (a - b + Wrap) % Wrap

Inc(a) == (a + 1) % Wrap

Least(a, b) == IF a < b THEN a ELSE b

(***************************************************************************)
(* The rings and the burst functions                                       *)
(***************************************************************************)
InitDesc == [len |-> BufSz, next |-> FALSE, data |-> <<>>]

InitRing == [head |-> 0, tail |-> 0, desc |-> [i \in 0 .. RingSz - 1 |-> InitDesc]]

\* The memory: every ring starts empty.
Shm == [r \in 0 .. 2 * CfgRings - 1 |-> InitRing]

\* The queue of a device: the ring it uses, its last head and tail, and
\* whether it has an event descriptor.
NoQueue == [ring |-> 0, head |-> 0, tail |-> 0, fd |-> FALSE]

cne_memif_get_ring(type, num, c2s) == num + (IF type = "S2C" THEN c2s ELSE 0)

\* Copying one packet into slots; t.over records that a slot that is not free
\* was used.
RECURSIVE TxCopy(_, _, _)
TxCopy(t, data, type) ==
    LET s == t.slot % RingSz
        n == Least(t.room, Len(data))
    IN  CASE data = <<>> -> t
          [] data # <<>> /\ t.room = 0 /\ t.free = 0 -> [t EXCEPT !.full = TRUE]
          [] data # <<>> /\ t.room = 0 /\ t.free > 0 ->
               LET s2 == Inc(t.slot) % RingSz
               IN  TxCopy([t EXCEPT !.slot = Inc(@), !.free = @ - 1, !.over = @ \/ t.free = 1, !.off = 0,
                                    !.room = IF type = "C2S" THEN BufSz ELSE t.desc[s2].len,
                                    !.desc = [@ EXCEPT ![s].next = TRUE, ![s2].next = FALSE]], data, type)
          [] OTHER ->
               TxCopy([t EXCEPT !.off = @ + n, !.room = @ - n,
                                !.desc[s] = [@ EXCEPT !.len = t.off + n,
                                                      !.data = SubSeq(@, 1, t.off) \o SubSeq(data, 1, n)]],
                      SubSeq(data, n + 1, Len(data)), type)

\* One packet of a burst: nothing is published when the slots run out.
Tx1(t, pkt, type) ==
    LET s == t.slot % RingSz
        u == TxCopy([t EXCEPT !.off = 0, !.room = IF type = "C2S" THEN BufSz ELSE t.desc[s].len,
                              !.over = @ \/ t.desc[s].next], pkt, type)
    IN  IF t.free = 0 \/ t.full THEN t
        ELSE IF u.full THEN [u EXCEPT !.slot = t.slot]
        ELSE [u EXCEPT !.slot = Inc(@), !.free = @ - 1, !.n = @ + 1]

cne_pmd_memif_socket_tx(ring, type, pkts) ==
    LET free == IF type = "C2S" THEN RingSz - Minus(ring.head, ring.tail) ELSE Minus(ring.head, ring.tail)
        t0 == [slot |-> IF type = "C2S" THEN ring.head ELSE ring.tail, free |-> free, desc |-> ring.desc,
               off |-> 0, room |-> 0, over |-> FALSE, full |-> FALSE, n |-> 0]
        t == FoldLeft(LAMBDA a, p : Tx1(a, p, type), t0, pkts)
    IN  [ring |-> IF type = "C2S" THEN [ring EXCEPT !.desc = t.desc, !.head = t.slot]
                                  ELSE [ring EXCEPT !.desc = t.desc, !.tail = t.slot],
         n |-> t.n, over |-> t.over]

\* Up to nb packets of the slots from cur on, slots of one packet being chained.
RECURSIVE Rx1(_, _)
Rx1(t, desc) ==
    LET d == desc[t.cur % RingSz]
        u == [t EXCEPT !.cur = Inc(@), !.slots = @ - 1, !.part = @ \o SubSeq(d.data, 1, d.len)]
    IN  IF d.next THEN Rx1(u, desc) ELSE [u EXCEPT !.part = <<>>, !.pkts = Append(@, u.part)]

RECURSIVE RxLoop(_, _, _)
RxLoop(t, desc, nb) == IF t.slots = 0 \/ Len(t.pkts) = nb THEN t ELSE RxLoop(Rx1(t, desc), desc, nb)

\* The receiver of a server-to-client ring hands all free slots back.
Refill(ring, last) ==
    LET given == {(ring.head + i) % RingSz : i \in 0 .. RingSz - Minus(ring.head, last) - 1}
    IN  [ring EXCEPT !.head = (last + RingSz) % Wrap,
                     !.desc = [i \in DOMAIN @ |-> IF i \in given THEN [@[i] EXCEPT !.len = BufSz] ELSE @[i]]]

\* nb is what the caller asked for, or fewer when buffers ran out.
cne_pmd_memif_socket_rx(ring, type, q, nb) ==
    LET cur == IF type = "C2S" THEN q.head ELSE q.tail
        last == IF type = "C2S" THEN ring.head ELSE ring.tail
        t == RxLoop([cur |-> cur, slots |-> Minus(last, cur), part |-> <<>>, pkts |-> <<>>], ring.desc, nb)
    IN  IF type = "C2S"
          THEN [ring |-> IF cur = last THEN ring ELSE [ring EXCEPT !.tail = t.cur],
                q |-> [q EXCEPT !.head = t.cur], pkts |-> t.pkts]
          ELSE [ring |-> Refill(ring, t.cur), q |-> [q EXCEPT !.tail = t.cur], pkts |-> t.pkts]

(***************************************************************************)
(* Devices and channels                                                    *)
(***************************************************************************)
NoRun == [c2s |-> 0, s2c |-> 0]

\* cc is the channel of the device: its client, 0 when there is none;
\* region is the client whose memory is attached, 0 when there is none.
NoDevice == [up |-> FALSE, cc |-> 0, connecting |-> FALSE, connected |-> FALSE, run |-> NoRun,
             region |-> 0, mapped |-> FALSE, rx |-> NoQueue, tx |-> NoQueue]

\* The ends of a client's socket, what is on its way, and the queues of the two
\* control channels; dev says that the server assigned its device.
NoChannel == [cend |-> FALSE, send |-> "none", toS |-> <<>>, toC |-> <<>>, qS |-> <<>>, qC |-> <<>>, dev |-> FALSE]

\* strange: the clients with another mode or secret
Init == \E strange \in SUBSET (Clients \ Talkers) :
        mif = [srv |-> NoDevice, cl |-> [c \in Clients |-> NoDevice], ch |-> [c \in Clients |-> NoChannel],
               shm |-> [c \in Clients |-> Shm],
               sentC |-> [c \in Clients |-> <<>>], gotS |-> [c \in Clients |-> <<>>],
               sentS |-> [c \in Clients |-> <<>>], gotC |-> [c \in Clients |-> <<>>],
               over |-> FALSE, faults |-> 0, strange |-> strange]

Msg(t) == [t |-> t, type |-> "none", idx |-> 0, ring |-> 0, fd |-> FALSE]

Device(m, x) == IF x = 0 THEN m.srv ELSE m.cl[x]

\* x is 0 for the server; c is the client whose channel it is about.
SetDevice(m, x, d) == IF x = 0 THEN [m EXCEPT !.srv = d] ELSE [m EXCEPT !.cl[x] = d]

Queue(m, x, c) == IF x = 0 THEN m.ch[c].qS ELSE m.ch[c].qC

cne_memif_msg_enq(m, x, c, msgs) ==
    IF x = 0 THEN [m EXCEPT !.ch[c].qS = @ \o msgs] ELSE [m EXCEPT !.ch[c].qC = @ \o msgs]

cne_memif_msg_enq_disconnect(m, x, c) == cne_memif_msg_enq(m, x, c, <<Msg("disc")>>)

\* The first message leaves the queue whether or not it can be sent.
cne_memif_msg_send_from_queue(m, x, c) ==
    LET q == Queue(m, x, c)
        open == IF x = 0 THEN m.ch[c].cend ELSE m.ch[c].send \in {"pending", "open"}
    IN  IF q = <<>> THEN [m |-> m, ok |-> TRUE]
        ELSE [ok |-> open,
              m |-> IF x = 0
                      THEN [m EXCEPT !.ch[c] = [@ EXCEPT !.qS = Tail(q), !.toC = IF open THEN Append(@, q[1]) ELSE @]]
                      ELSE [m EXCEPT !.ch[c] = [@ EXCEPT !.qC = Tail(q), !.toS = IF open THEN Append(@, q[1]) ELSE @]]]

\* cne_memif_ev_unregister_handler, which runs once the handler has returned.
cne_memif_ev_unregister_handler(m, x, c) ==
    IF x = 0 THEN [m EXCEPT !.ch[c] = [@ EXCEPT !.send = "closed", !.qS = <<>>, !.dev = FALSE, !.toS = <<>>]]
             ELSE [m EXCEPT !.ch[c] = [@ EXCEPT !.cend = FALSE, !.qC = <<>>, !.toC = <<>>]]

cne_memif_free_regions(d) == [d EXCEPT !.region = 0, !.mapped = FALSE]

\* Everything but a disconnect message is dropped from the queue first.
cne_memif_disconnect(m, x) ==
    LET d == Device(m, x)
        c == d.cc
        e == [cne_memif_free_regions(d) EXCEPT !.connecting = FALSE, !.connected = FALSE, !.run = NoRun,
                                               !.cc = 0, !.rx.fd = FALSE, !.tx.fd = FALSE]
        Disc(q) == SelectSeq(q, LAMBDA a : a.t = "disc")
        cleared == IF x = 0 THEN [m EXCEPT !.ch[c].qS = Disc(@)] ELSE [m EXCEPT !.ch[c].qC = Disc(@)]
    IN  IF c = 0 THEN SetDevice(m, x, e)
        ELSE SetDevice(cne_memif_ev_unregister_handler(cne_memif_msg_send_from_queue(cleared, x, c).m, x, c), x, e)

(***************************************************************************)
(* The messages                                                            *)
(***************************************************************************)
\* receive_hello, and init_regions_and_queues with the memory it creates:
\* every ring of a direction uses the one queue there is, so the last one
\* counts.  k is the step that fails: "shm", "fd" or none.
cne_memif_init_queues(d, fd) ==
    [d EXCEPT !.tx = [ring |-> cne_memif_get_ring("C2S", d.run.c2s - 1, d.run.c2s), head |-> 0, tail |-> 0, fd |-> fd],
              !.rx = [ring |-> cne_memif_get_ring("S2C", d.run.s2c - 1, d.run.c2s), head |-> 0, tail |-> 0, fd |-> fd]]

RingMsg(d, type, i) ==
    LET q == IF type = "C2S" THEN d.tx ELSE d.rx
    IN  [t |-> "ring", type |-> type, idx |-> i, ring |-> q.ring, fd |-> q.fd]

cne_memif_msg_receive_hello(m, c, k) ==
    LET run == [c2s |-> Least(HelloRings + 1, CfgRings), s2c |-> Least(HelloRings + 1, CfgRings)]
        d0 == [m.cl[c] EXCEPT !.run = run]
        d == cne_memif_init_queues([d0 EXCEPT !.region = c, !.mapped = TRUE], k # "fd")
        Rings(type, n) == [i \in 1 .. n |-> RingMsg(d, type, i - 1)]
        msgs == <<Msg("init"), [Msg("region") EXCEPT !.fd = TRUE]>> \o Rings("C2S", run.c2s) \o Rings("S2C", run.s2c)
                  \o <<Msg("connect")>>
    IN  IF k = "shm" THEN [m |-> [m EXCEPT !.cl[c] = d0], ok |-> FALSE]
        ELSE [m |-> cne_memif_msg_enq([m EXCEPT !.cl[c] = d, !.shm[c] = Shm], c, c, msgs),
              ok |-> TRUE]

InitAnyway(m, c) ==
    [m |-> cne_memif_msg_enq([m EXCEPT !.srv.cc = c, !.srv.connecting = TRUE, !.ch[c].dev = TRUE],
                             0, c, <<Msg("ack")>>), ok |-> TRUE]

\* The server's device takes a channel only when it has none; a client with
\* another mode or secret has the device's channel when it is turned away.
cne_memif_msg_receive_init(m, c) ==
    LET taken == [m EXCEPT !.srv.cc = c, !.ch[c].dev = TRUE]
    IN  CASE ~m.srv.up \/ m.srv.connecting \/ m.srv.connected ->
               [m |-> cne_memif_msg_enq_disconnect(m, 0, c), ok |-> FALSE]
          [] m.srv.up /\ ~m.srv.connecting /\ ~m.srv.connected /\ c \in m.strange ->
               [m |-> cne_memif_msg_enq_disconnect(taken, 0, c), ok |-> FALSE]
          [] OTHER -> [m |-> cne_memif_msg_enq([taken EXCEPT !.srv.connecting = TRUE], 0, c, <<Msg("ack")>>), ok |-> TRUE]

cne_memif_msg_receive_add_region(m, c, a) ==
    IF ~a.fd \/ m.srv.region # 0
      THEN [m |-> cne_memif_msg_enq_disconnect(m, 0, c), ok |-> FALSE]
      ELSE [m |-> cne_memif_msg_enq([m EXCEPT !.srv.region = c], 0, c, <<Msg("ack")>>), ok |-> TRUE]

cne_memif_msg_receive_add_ring(m, c, a) ==
    LET d == IF a.type = "C2S"
               THEN [m.srv EXCEPT !.run.c2s = @ + 1, !.rx = [@ EXCEPT !.ring = a.ring, !.fd = TRUE]]
               ELSE [m.srv EXCEPT !.run.s2c = @ + 1, !.tx = [@ EXCEPT !.ring = a.ring, !.fd = TRUE]]
    IN  IF ~a.fd \/ a.idx >= CfgRings
          THEN [m |-> cne_memif_msg_enq_disconnect(m, 0, c), ok |-> FALSE]
          ELSE [m |-> cne_memif_msg_enq([m EXCEPT !.srv = d], 0, c, <<Msg("ack")>>), ok |-> TRUE]

\* Mapping the memory and starting the rings of both directions from 0.
cne_memif_connect(m, x, mapOk) ==
    LET d == Device(m, x)
        used == (IF d.run.c2s > 0 THEN {IF x = 0 THEN d.rx.ring ELSE d.tx.ring} ELSE {})
                  \cup (IF d.run.s2c > 0 THEN {IF x = 0 THEN d.tx.ring ELSE d.rx.ring} ELSE {})
        Zero(q) == [q EXCEPT !.head = 0, !.tail = 0]
        e == [d EXCEPT !.mapped = TRUE, !.connecting = FALSE, !.connected = TRUE, !.rx = Zero(@), !.tx = Zero(@)]
    IN  IF d.region = 0 \/ (~d.mapped /\ ~mapOk) THEN [m |-> m, ok |-> FALSE]
        ELSE [m |-> SetDevice([m EXCEPT !.shm[d.region] =
                                  [r \in DOMAIN @ |-> IF r \in used THEN [@[r] EXCEPT !.head = 0, !.tail = 0] ELSE @[r]]],
                              x, e), ok |-> TRUE]

\* One message at the server; the reading end already took it.
ServerReceive(m, c, a, k) ==
    CASE ~m.ch[c].dev /\ a.t # "init" -> [m |-> cne_memif_msg_enq_disconnect(m, 0, c), ok |-> FALSE]
      [] a.t = "init" -> cne_memif_msg_receive_init(m, c)
      [] a.t = "region" /\ m.ch[c].dev -> cne_memif_msg_receive_add_region(m, c, a)
      [] a.t = "ring" /\ m.ch[c].dev -> cne_memif_msg_receive_add_ring(m, c, a)
      [] a.t = "connect" /\ m.ch[c].dev ->
           LET r == cne_memif_connect(m, 0, k # "map")
           IN  IF r.ok THEN [m |-> cne_memif_msg_enq(r.m, 0, c, <<Msg("connected")>>), ok |-> TRUE] ELSE r
      [] a.t = "disc" /\ m.ch[c].dev -> [m |-> cne_memif_disconnect(m, 0), ok |-> TRUE]

ClientReceive(m, c, a, k) ==
    CASE a.t = "hello" -> cne_memif_msg_receive_hello(m, c, k)
      [] a.t = "ack" -> [m |-> m, ok |-> TRUE]
      [] a.t = "connected" -> cne_memif_connect(m, c, TRUE)
      [] a.t = "disc" -> [m |-> cne_memif_disconnect(m, c), ok |-> TRUE]

\* cne_memif_ev_handler after the message (or the end of the channel, whose
\* result is r = [m, FALSE]).
Handled(r, x, c) ==
    LET sent == cne_memif_msg_send_from_queue(r.m, x, c)
    IN  IF x = 0 /\ ~r.m.ch[c].dev /\ r.m.ch[c].send = "open" THEN cne_memif_ev_unregister_handler(sent.m, 0, c)
        ELSE IF Device(r.m, x).cc # c THEN r.m
        ELSE IF ~r.ok THEN cne_memif_disconnect(r.m, x)
        ELSE IF ~sent.ok THEN cne_memif_disconnect(sent.m, x)
        ELSE sent.m

(***************************************************************************)
(* Steps of the processes                                                  *)
(***************************************************************************)
ServerFaults == IF mif.faults < MaxFaults THEN {"none", "map"} ELSE {"none"}

ClientFaults == IF mif.faults < MaxFaults THEN {"none", "shm", "fd"} ELSE {"none"}

Counted(m, k) == IF k = "none" THEN m ELSE [m EXCEPT !.faults = @ + 1]

\* A message, or an error once the other end is closed.
cne_memif_ev_handler(x, c) ==
    LET h == mif.ch[c]
        wire == IF x = 0 THEN h.toS ELSE h.toC
        open == IF x = 0 THEN h.send = "open" ELSE h.cend
        gone == IF x = 0 THEN ~h.cend ELSE h.send = "closed"
        taken == IF x = 0 THEN [mif EXCEPT !.ch[c].toS = Tail(@)] ELSE [mif EXCEPT !.ch[c].toC = Tail(@)]
    IN  /\ open
        /\ \/ /\ wire # <<>>
              /\ \E k \in IF x = 0 THEN ServerFaults ELSE ClientFaults :
                    /\ k = "map" => wire[1].t = "connect"
                    /\ k \in {"shm", "fd"} => wire[1].t = "hello"
                    /\ LET r == IF x = 0 THEN ServerReceive(taken, c, wire[1], k) ELSE ClientReceive(taken, c, wire[1], k)
                       IN  mif' = Counted(Handled(r, x, c), k)
           \/ /\ gone
              /\ mif' = Handled([m |-> mif, ok |-> FALSE], x, c)

\* A port that is set up.
Probe(m, x) == SetDevice(m, x, [NoDevice EXCEPT !.up = TRUE])

\* The probe of the server's port opens the listening socket.
cne_memif_connect_server == /\ ~mif.srv.up /\ mif.srv = NoDevice
                            /\ mif' = Probe(mif, 0)

\* The probe of a client's port; a failing connect is not tried again.
cne_memif_connect_client(c) ==
    /\ mif.cl[c] = NoDevice /\ mif.ch[c] = NoChannel
    /\ mif' = IF mif.srv.up THEN [Probe(mif, c) EXCEPT !.cl[c].cc = c, !.ch[c].cend = TRUE, !.ch[c].send = "pending"]
                            ELSE Probe(mif, c)

\* The new channel is dropped when the greeting cannot be sent.
cne_memif_listener_handler(c) ==
    LET m == [mif EXCEPT !.ch[c].send = "open"]
        r == cne_memif_msg_send_from_queue(cne_memif_msg_enq(m, 0, c, <<Msg("hello")>>), 0, c)
    IN  /\ mif.ch[c].send = "pending"
        /\ mif' = IF r.ok THEN r.m ELSE cne_memif_ev_unregister_handler(r.m, 0, c)

pmd_dev_close(x) ==
    LET d == Device(mif, x)
        m == IF d.cc # 0 THEN cne_memif_msg_enq_disconnect(mif, x, d.cc) ELSE mif
    IN  /\ d.up
        /\ mif' = SetDevice(cne_memif_disconnect(m, x), x, [NoDevice EXCEPT !.region = -1])

\* A client process dies: the kernel closes its end.
Crash(c) == /\ mif.cl[c].up
            /\ mif' = [mif EXCEPT !.cl[c] = [NoDevice EXCEPT !.region = -1],
                                  !.ch[c] = [@ EXCEPT !.cend = FALSE, !.qC = <<>>, !.toC = <<>>]]

Packets(x, from, lens) == [i \in 1 .. Len(lens) |-> [k \in 1 .. lens[i] |-> <<x, from + i, k>>]]

ClientTx(c) ==
    \E lens \in {<<a>> : a \in PktLens} \cup {<<a, b>> : a \in PktLens, b \in PktLens} :
        LET d == mif.cl[c]
            pkts == Packets(c, Len(mif.sentC[c]), lens)
            r == cne_pmd_memif_socket_tx(mif.shm[c][d.tx.ring], "C2S", pkts)
        IN  /\ d.connected /\ c \in Talkers /\ Len(mif.sentC[c]) + Len(lens) <= MaxSent
            /\ mif' = [mif EXCEPT !.shm[c][d.tx.ring] = r.ring, !.over = r.over,
                                  !.sentC[c] = @ \o SubSeq(pkts, 1, r.n)]

ServerTx ==
    \E lens \in {<<a>> : a \in PktLens} \cup {<<a, b>> : a \in PktLens, b \in PktLens} :
        LET d == mif.srv
            c == d.region
            pkts == Packets(0, Len(mif.sentS[c]), lens)
            r == cne_pmd_memif_socket_tx(mif.shm[c][d.tx.ring], "S2C", pkts)
        IN  /\ d.connected /\ c \in Talkers /\ Len(mif.sentS[c]) + Len(lens) <= MaxSent
            /\ mif' = [mif EXCEPT !.shm[c][d.tx.ring] = r.ring, !.over = r.over,
                                  !.sentS[c] = @ \o SubSeq(pkts, 1, r.n)]

ClientRx(c) ==
    \E nb \in 1 .. 2 :
        LET d == mif.cl[c]
            r == cne_pmd_memif_socket_rx(mif.shm[c][d.rx.ring], "S2C", d.rx, nb)
        IN  /\ d.connected /\ c \in Talkers
            /\ mif' = [mif EXCEPT !.shm[c][d.rx.ring] = r.ring, !.cl[c].rx = r.q, !.gotC[c] = @ \o r.pkts]

ServerRx ==
    \E nb \in 1 .. 2 :
        LET d == mif.srv
            c == d.region
            r == cne_pmd_memif_socket_rx(mif.shm[c][d.rx.ring], "C2S", d.rx, nb)
        IN  /\ d.connected /\ c \in Talkers
            /\ mif' = [mif EXCEPT !.shm[c][d.rx.ring] = r.ring, !.srv.rx = r.q, !.gotS[c] = @ \o r.pkts]

Next == /\ ~mif.over
        /\ \/ cne_memif_connect_server \/ ServerTx \/ ServerRx
           \/ \E x \in Clients \cup {0} : pmd_dev_close(x)
           \/ \E c \in Clients :
                 \/ cne_memif_connect_client(c) \/ cne_memif_listener_handler(c) \/ Crash(c)
                 \/ cne_memif_ev_handler(0, c) \/ cne_memif_ev_handler(c, c)
                 \/ ClientTx(c) \/ ClientRx(c)

Spec == Init /\ [][Next]_mif

(***************************************************************************)
(* What the interface promises                                             *)
(***************************************************************************)
\* The packets between the indexes of a ring, in order.
InFlight(ring, from, to) ==
    RxLoop([cur |-> from, slots |-> Minus(to, from), part |-> <<>>, pkts |-> <<>>], ring.desc, MaxSent + 1).pkts

Linked(c) == mif.srv.connected /\ mif.srv.cc = c /\ mif.cl[c].connected

\* A client that believes it is connected is the one the server is connected
\* to, unless the server has closed the channel; both then use the same ring
\* of the same memory in each direction, and its mode and secret are the
\* server's.  A server without a channel holds nothing of an earlier connection.
OnePeer ==
    /\ \A c \in Clients :
         /\ mif.cl[c].connected => c \notin mif.strange /\ (mif.ch[c].send = "closed" \/ Linked(c))
         /\ mif.ch[c].dev <=> mif.srv.cc = c
         /\ Linked(c) => /\ mif.srv.region = c /\ mif.cl[c].region = c
                         /\ mif.srv.rx.ring = mif.cl[c].tx.ring /\ mif.srv.tx.ring = mif.cl[c].rx.ring
                         /\ mif.srv.run = mif.cl[c].run
    /\ mif.srv.cc = 0 => /\ mif.srv.run = NoRun /\ mif.srv.region <= 0
                         /\ ~mif.srv.connected /\ ~mif.srv.connecting

\* Whatever was sent is received once, whole and in the order of sending, or is
\* still in the ring while both sides are connected; restarting the indexes at
\* the end of the handshake loses nothing.
InOrder ==
    \A c \in Clients :
        /\ IsPrefix(mif.gotS[c], mif.sentC[c])
        /\ IsPrefix(mif.gotC[c], mif.sentS[c])
        /\ Linked(c) =>
             LET up == mif.shm[c][mif.cl[c].tx.ring]
                 down == mif.shm[c][mif.cl[c].rx.ring]
             IN  /\ mif.gotS[c] \o InFlight(up, mif.srv.rx.head, up.head) = mif.sentC[c]
                 /\ mif.gotC[c] \o InFlight(down, mif.cl[c].rx.tail, down.tail) = mif.sentS[c]

\* A handshake never waits on itself: while a channel is open at both ends and
\* not both sides are connected, a message is on its way.
Moving ==
    \A c \in Clients :
        mif.ch[c].cend /\ mif.ch[c].send = "open" /\ ~Linked(c) => mif.ch[c].toS # <<>> \/ mif.ch[c].toC # <<>>

\* The memif interface: peers agree, packets arrive in order, handshakes move.
MemifRight == OnePeer /\ Moving /\ (~mif.over => InOrder)
=============================================================================
