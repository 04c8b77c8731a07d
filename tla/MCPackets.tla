------------------------------ MODULE MCPackets ------------------------------
(***************************************************************************)
(* What becomes of packets: a behaviour is one of PacketNodes with batches *)
(* that mix two kinds of packets, one of Tcp, where A's sequence numbers   *)
(* wrap while it sends, or one of Pktcpy, a call that copies a packet.     *)
(***************************************************************************)
EXTENDS Pktcpy, FiniteSets, Sequences

CONSTANTS
  Subjects,              \* the modules that a run looks at
  Burst, Arrivals, Apps, \* of PacketNodes
  Settings               \* of Tcp

VARIABLES
  subject,
  graph, head, app, cfg, kind, rxq, at, ctx, ch_rcv, out,
  ep, net, wrote, dlv, got, budget

P == INSTANCE PacketNodes

K(type, ok, route, proto, pcb, l4, port) ==
  [type |-> type, ok |-> ok, route |-> route, proto |-> proto, pcb |-> pcb, l4 |-> l4, port |-> port, back |-> TRUE]

Forward(port) == K("ip4_udp", TRUE, "forward", "udp", 0, TRUE, port)
Local(pcb, l4, port) == K("ip4_udp", TRUE, "proto", "udp", pcb, l4, port)

Kinds == {
  Forward(1), Forward(2), Forward(0),
  Local(1, TRUE, 1), Local(2, TRUE, 2), Local(2, TRUE, 0), Local(1, FALSE, 1), Local(0, TRUE, 1),
  K("ip4_tcp", TRUE, "proto", "tcp", 3, TRUE, 1),
  K("ip4_tcp", TRUE, "proto", "sctp", 0, TRUE, 1),
  K("ip4_gtpu", TRUE, "forward", "udp", 0, TRUE, 1),
  K("ip4_icmp", TRUE, "forward", "icmp", 0, TRUE, 1),
  [Local(1, TRUE, 1) EXCEPT !.back = FALSE],
  K("ip4_udp", FALSE, "forward", "udp", 0, TRUE, 1),
  K("ip4_udp", TRUE, "none", "udp", 0, TRUE, 1),
  K("arp", FALSE, "none", "other", 0, FALSE, 0)}

Fours == {<<1, 1, 1, 1>>, <<1, 1, 2, 2>>, <<2, 1, 2, 1>>}
Batches == {f \o h : f \in Fours, h \in {<<2>>, <<1, 2, 1>>, <<2, 1, 2, 1>>}}
Others2 == {<<>>, <<2, 1, 1, 2, 1>>}

Of(pair, s) == [i \in DOMAIN s |-> pair[s[i]]]

MixedArrivals == {<<Of(pair, s), Of(pair, t)>> : pair \in Kinds \X Kinds, s \in Batches, t \in Others2}

Setting(l, c, y, o, close, buffer) ==
  [dial |-> 1, loss |-> l, copy |-> c, early |-> y, over |-> o, close |-> close,
   size |-> buffer, prompt |-> TRUE]

SafeSettings ==
  {Setting(2, 0, 0, 0, "never", 6), Setting(0, 1, 0, 0, "never", 6), Setting(0, 0, 1, 0, "never", 6),
   Setting(0, 0, 0, 0, "orderly", 6), Setting(1, 0, 0, 0, "never", 4)}

OldAckSettings == {Setting(0, 0, 0, 1, "never", 6)}

T == INSTANCE Tcp WITH
  SeqBits <- 5, Iss <- [e \in {"A", "B"} |-> IF e = "A" THEN 29 ELSE 2],
  MaxMss <- 3, OptLen <- 1, MaxWin <- 8, MaxRxtShift <- 3, NBytes <- 5, WriteLens <- {2, 3}

(* The lengths around every choice of cne_pktcpy. *)
CopySizes ==
  (0 .. 70) \cup (126 .. 130) \cup (190 .. 194) \cup (254 .. 258) \cup (382 .. 386)
    \cup (510 .. 545) \cup {640, 672, 700, 768, 1055}

nodeVars == <<graph, head, app, cfg, kind, rxq, at, ctx, ch_rcv, out>>
tcpVars == <<ep, net, wrote, dlv, got, budget>>
all == <<subject, vars, nodeVars, tcpVars>>

(* What is not looked at is not there, and a copy not asked for is none. *)
NoNodes ==
  /\ graph = 0 /\ head = 0 /\ app = 0 /\ cfg = 0 /\ kind = 0 /\ rxq = 0 /\ at = 0
  /\ ctx = 0 /\ ch_rcv = 0 /\ out = 0
NoTcp == ep = 0 /\ net = 0 /\ wrote = 0 /\ dlv = 0 /\ got = 0 /\ budget = 0
NoCopy ==
  /\ isa = "none" /\ size = 0 /\ daddr = 0 /\ saddr = 0
  /\ pc = "call" /\ dst = 0 /\ src = 0 /\ n = 0 /\ moved = 0 /\ w = Nothing

PacketInit ==
  /\ subject \in Subjects
  /\ \/ subject = "packets" /\ P!Init /\ NoTcp /\ NoCopy
     \/ subject = "tcp" /\ T!Init /\ NoNodes /\ NoCopy
     \/ subject = "copy" /\ Init /\ NoNodes /\ NoTcp

(* Connections come to rest and copies end; walks of the graph do not stop *)
(* halfway.                                                                *)
PacketNext ==
  \/ subject = "packets" /\ P!Next /\ UNCHANGED <<subject, vars, tcpVars>>
  \/ subject = "tcp" /\ T!Next /\ UNCHANGED <<subject, vars, nodeVars>>
  \/ subject = "copy" /\ Next /\ UNCHANGED <<subject, nodeVars, tcpVars>>
  \/ subject = "tcp" /\ UNCHANGED all
  \/ subject = "copy" /\ pc = "return" /\ UNCHANGED all

PacketSpec == PacketInit /\ [][PacketNext]_all

(* The pending list and the streams of the nodes agree at every step, and  *)
(* when cne_graph_walk returns every packet has left, once and in order,   *)
(* where it had to or where a packet had to that ip4_forward or ptype      *)
(* confuses it with.                                                       *)
PacketsRight == subject = "packets" => P!GraphRight /\ P!Routed

(* What B's TCP has accepted is what A's application wrote (tcp_input,     *)
(* tcp_output), an ACK releases nothing that was not accepted, and una,    *)
(* nxt and max stay in order.                                              *)
StreamExact == subject = "tcp" => T!StreamExact

(* The stream is exact, and an endpoint with something left to do has a    *)
(* timer on or a segment under way (tcp_slow_timo, tcp_output).            *)
TcpRight == StreamExact /\ (subject = "tcp" => T!NothingForgotten)
=============================================================================
