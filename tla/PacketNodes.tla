------------------------------ MODULE PacketNodes ------------------------------
(***************************************************************************)
(* The packet graph of lib/usr/clib/graph as one worker walks it, with the *)
(* nodes of two applications: the CNET stack (lib/cnet: eth_rx to eth_tx,  *)
(* the channels and back) and the layer 3 forwarder of lib/usr/clib/nodes  *)
(* (pktdev_rx to pktdev_tx).  Every node is an action that runs its        *)
(* process function on the whole stream.                                   *)
(*                                                                         *)
(* A stream is the array objs with its first idx entries in use and room   *)
(* for size.  An entry of objs past idx is memory that was written and not *)
(* yet put.  The fast-path calls with which a node hands packets to the    *)
(* next one (cne_graph_worker.h) are operators from a graph to a graph.    *)
(*                                                                         *)
(* A packet is a number.  What the nodes look at is its kind:              *)
(*   type    its packet type   ok    total length and IP checksum right    *)
(*   route   what the route table has for it: "none", "forward", "proto"   *)
(*   proto   its IP protocol   pcb   the PCB it matches, 0 if none         *)
(*   l4      UDP/TCP checksum right                                        *)
(*   port    the port of the ARP entry of its next hop (of its sender,     *)
(*           when it is answered), 0 if there is none                      *)
(*   back    an answer has room for its headers, its metadata and a route  *)
(* and `at', the header its data offset points to.                         *)
(***************************************************************************)
EXTENDS Integers, FiniteSets, SequencesExt

CONSTANTS
  Burst,      \* CNE_GRAPH_BURST_SIZE
  Arrivals,   \* sets of <<kinds received on port 1, kinds received on port 2>>
  Apps        \* the applications: a subset of {"cnet", "l3fwd"}

VARIABLES
  graph,      \* [objs, idx, size : per node; cir, tail, cir_mask : the circular
              \*  buffer of pending nodes; head : minus the number of sources]
  head,       \* where cne_graph_walk is, or Idle between two walks
  app,        \* the application
  cfg,        \* [echo : the channel callback answers, punt : CNET_PUNT_ENABLED,
              \*  first : how many packets port 1 receives]
  kind,       \* kind[p], the packets in the order of arrival, port 1 first
  rxq,        \* rxq[port], what the port has received
  at,         \* at[p], the header that the packet's data starts with
  ctx,        \* per node, the guess kept in node->ctx
  ch_rcv,     \* per PCB, the receive buffer of its channel
  out         \* the packets that left, in order, and the node they left by

vars == <<graph, head, app, cfg, kind, rxq, at, ctx, ch_rcv, out>>
setup == <<app, cfg, kind>>

(***************************************************************************)
(* The graph.                                                              *)
(***************************************************************************)
Idle == 2^16   \* no index of the buffer

(* graph_fp_mem_populate, for a list of source nodes: they stay below the  *)
(* buffer, which has the next power of two of slots.                       *)
graph_fp_mem_populate(nodes, sources) ==
  LET slots == CHOOSE s \in {2^k : k \in 0..6} :
                 s >= Cardinality(nodes) /\ s < 2 * Cardinality(nodes) IN
  [objs |-> [n \in nodes |-> <<>>],
   idx |-> [n \in nodes |-> 0],
   size |-> [n \in nodes |-> IF n \in ToSet(sources) THEN 2 * Burst ELSE Burst],
   cir |-> [i \in (-Len(sources))..(slots - 1) |-> IF i < 0 THEN sources[-i] ELSE sources[1]],
   tail |-> 0, head |-> -Len(sources), cir_mask |-> slots - 1]

(* FoldLeft with the accumulator evaluated once at each element. *)
FoldEager(op(_, _), base, seq) ==
  FoldLeft(LAMBDA acc, x : CHOOSE r \in {op(a, x) : a \in {acc}} : TRUE, base, seq)

Slots(g) == g.cir_mask + 1
Nodes == DOMAIN graph.idx
Sources == {graph.cir[i] : i \in graph.head..(-1)}

(* Writing packets into the array objs from index i (from zero) on. *)
Written(objs, i, pkts) ==
  SubSeq(objs, 1, i) \o pkts \o SubSeq(objs, i + Len(pkts) + 1, Len(objs))

__cne_node_stream_alloc_size(g, n, req) == [g EXCEPT !.size[n] = Max({Burst, 2 * req})]

__cne_node_enqueue_tail_update(g, n) ==
  [g EXCEPT !.cir[g.tail] = n, !.tail = (g.tail + 1) % Slots(g)]

(* A prologue that pends a node at every enqueue. *)
ProloguePendsAlways(g, n, space) ==
  LET p == __cne_node_enqueue_tail_update(g, n) IN
  IF g.size[n] < g.idx[n] + space THEN __cne_node_stream_alloc_size(p, n, g.size[n] + space) ELSE p

__cne_node_enqueue_prologue(g, n, space) ==
  LET p == IF g.idx[n] = 0 THEN __cne_node_enqueue_tail_update(g, n) ELSE g IN
  IF g.size[n] < g.idx[n] + space THEN __cne_node_stream_alloc_size(p, n, g.size[n] + space) ELSE p

(* cne_node_enqueue, its x1, x2 and x4 forms and add_objects_to_input. *)
cne_node_enqueue(g, n, pkts) ==
  LET p == __cne_node_enqueue_prologue(g, n, Len(pkts)) IN
  [p EXCEPT !.objs[n] = Written(@, g.idx[n], pkts), !.idx[n] = @ + Len(pkts)]

cne_node_next_stream_get(g, n, nb) ==
  IF g.size[n] - g.idx[n] < nb THEN __cne_node_stream_alloc_size(g, n, g.size[n] + nb) ELSE g

cne_node_next_stream_put(g, n, held) ==
  IF held = 0 THEN g
  ELSE [(IF g.idx[n] = 0 THEN __cne_node_enqueue_tail_update(g, n) ELSE g)
          EXCEPT !.idx[n] = @ + held]

cne_node_next_stream_move(g, src, dst) ==
  IF g.idx[dst] = 0
  THEN __cne_node_enqueue_tail_update(
         [g EXCEPT !.objs[dst] = g.objs[src], !.objs[src] = <<>>,
                   !.size[dst] = g.size[src], !.size[src] = g.size[dst],
                   !.idx[dst] = g.idx[src]], dst)
  ELSE cne_node_enqueue(g, dst, SubSeq(g.objs[src], 1, g.idx[src]))

-----------------------------------------------------------------------------
(* The loop that the process functions share.  A node guesses the next     *)
(* node of all its packets, takes that node's stream, and only counts      *)
(* packets (spec) as long as the guess is right; packets are copied (held) *)
(* once it was wrong, and a batch that was guessed right as a whole moves  *)
(* by swapping the two streams.                                            *)
(*                                                                         *)
(*   next  the guessed node     type  the packet type behind the guess     *)
(*   from  packets dealt with   to    index of to_next in the stream       *)

(* memcpy(to_next, from, last_spec) and the pointer updates after it. *)
CopySpec(s, pkts) ==
  [s EXCEPT !.g.objs[s.next] = Written(@, s.to, SubSeq(pkts, s.from + 1, s.from + s.spec)),
            !.from = @ + s.spec, !.to = @ + s.spec, !.held = @ + s.spec, !.spec = 0]

(* One packet of a batch whose guess failed. *)
PlaceOne(s, pkt, edge, hit) ==
  IF hit THEN [s EXCEPT !.g.objs[s.next] = Written(@, s.to, <<pkt>>),
                        !.from = @ + 1, !.to = @ + 1, !.held = @ + 1]
  ELSE [s EXCEPT !.g = cne_node_enqueue(@, edge, <<pkt>>), !.from = @ + 1]

(* A new guess that forgets the packets already written for the old one. *)
RespeculateUnput(s, edge, nb) ==
  LET g == cne_node_next_stream_get(s.g, edge, nb) IN
  [s EXCEPT !.g = g, !.next = edge, !.to = g.idx[edge], !.held = 0]

(* Guess again: put what is held of the old stream and take the new one. *)
Respeculate(s, edge, nb) ==
  LET p == cne_node_next_stream_put(s.g, s.next, s.held)
      g == cne_node_next_stream_get(p, edge, nb) IN
  [s EXCEPT !.g = g, !.next = edge, !.to = g.idx[edge], !.held = 0]

(* Groups of four while at least `least' packets are left, then one by one. *)
Chunks(pkts, least) ==
  LET fours == IF Len(pkts) < least THEN 0 ELSE (Len(pkts) - least) \div 4 + 1 IN
  [c \in 1..(fours + Len(pkts) - 4 * fours) |->
     IF c <= fours THEN SubSeq(pkts, 4 * c - 3, 4 * c) ELSE <<pkts[c + 3 * fours]>>]

(* The body of a process function: Edge(p) is the next node of a packet,   *)
(* Fix(s, c) says that chunk c does not all go where it was guessed,       *)
(* Hit(s, p) that a packet of such a chunk goes there all the same, and    *)
(* Again(s, c) is what becomes of the guess after such a group of four.    *)
Speculate(g, n, first, least, Edge(_), Fix(_, _), Hit(_, _), Again(_, _)) ==
  LET pkts == SubSeq(g.objs[n], 1, g.idx[n])
      got == cne_node_next_stream_get(g, first.next, Len(pkts))
      start == [g |-> got, next |-> first.next, type |-> first.type,
                from |-> 0, to |-> got.idx[first.next], held |-> 0, spec |-> 0]
      Chunk(s, c) ==
        IF ~ Fix(s, c) THEN [s EXCEPT !.spec = @ + Len(c)]
        ELSE LET t == FoldEager(LAMBDA u, p : PlaceOne(u, p, Edge(p), Len(c) = 4 /\ Hit(u, p)),
                                CopySpec(s, pkts), c) IN
             IF Len(c) = 4 THEN Again(t, c) ELSE t
      end == FoldEager(Chunk, start, Chunks(pkts, least))
      last == CopySpec(end, pkts) IN
  IF end.spec = Len(pkts)
  THEN [g |-> cne_node_next_stream_move(end.g, n, end.next), ctx |-> first]
  ELSE [g |-> cne_node_next_stream_put(last.g, last.next, last.held),
        ctx |-> [next |-> last.next, type |-> last.type]]

-----------------------------------------------------------------------------
(* cne_graph_walk: the sources, then the pending nodes in order.           *)

Current == graph.cir[head]

WalkStart ==
  /\ head = Idle
  /\ head' = graph.head
  /\ UNCHANGED graph

(* A node's process function returned the graph g. *)
Processed(g, n) ==
  /\ graph' = [g EXCEPT !.idx[n] = 0, !.objs[n] = <<>>]
  /\ head' = IF head + 1 > 0 THEN (head + 1) % Slots(graph) ELSE head + 1

WalkEnd ==
  /\ head # Idle /\ head = graph.tail
  /\ head' = Idle
  /\ graph' = [graph EXCEPT !.tail = 0]

AtNode(n) == head # Idle /\ head # graph.tail /\ Current = n

Pending ==
  LET from == IF head = Idle \/ head < 0 THEN 0 ELSE head IN
  [i \in 1..((graph.tail - from) % Slots(graph)) |-> graph.cir[(from + i - 1) % Slots(graph)]]

(* The pending nodes are those that hold packets, each of them once, so    *)
(* that no packet is left behind by a walk and no node is run twice; a     *)
(* stream has its packets within its room, and room for a burst whatever   *)
(* streams were swapped; and a walk leaves no stream with packets.         *)
StreamsRight ==
  /\ ToSet(Pending) = {n \in Nodes \ Sources : graph.idx[n] > 0}
  /\ IsInjective(Pending)
  /\ \A n \in Nodes : /\ Len(graph.objs[n]) = graph.idx[n]
                      /\ graph.idx[n] <= graph.size[n]
                      /\ Burst <= graph.size[n]
  /\ \A s \in Sources : graph.idx[s] = 0

(***************************************************************************)
(* The nodes.                                                              *)
(***************************************************************************)
Ports == {1, 2}
Pcbs == {1, 2, 3}
eth_rx(p) == <<"eth_rx", p>>
eth_tx(p) == <<"eth_tx", p>>
N(name) == <<name, 0>>

(* The nodes of an application; pkt_ctrl.c and pktdev_ctrl.c clone the     *)
(* receive and transmit nodes, called eth_rx and eth_tx here, for a port.  *)
NodesOf(a) ==
  {eth_rx(p) : p \in Ports} \cup {eth_tx(p) : p \in Ports} \cup
  {N(name) : name \in
     IF a = "l3fwd" THEN {"pkt_drop", "pkt_cls", "ip4_lookup", "ip4_rewrite"}
     ELSE {"pkt_drop", "ptype", "gtpu_input", "ip4_input", "ip4_forward", "ip4_proto",
           "udp_input", "tcp_input", "chnl_recv", "chnl_callback", "udp_output",
           "ip4_output", "arp_request", "punt_kernel"}}

Init ==
  /\ app \in Apps
  /\ graph = graph_fp_mem_populate(NodesOf(app), <<eth_rx(1), eth_rx(2)>>)
  /\ head = Idle
  /\ \E a \in Arrivals :
       /\ cfg \in [echo : BOOLEAN, punt : BOOLEAN, first : {Len(a[1])}]
       /\ app = "l3fwd" => ~ cfg.echo /\ ~ cfg.punt
       /\ kind = a[1] \o a[2]
       /\ rxq = [p \in Ports |-> [i \in 1..Len(a[p]) |-> IF p = 1 THEN i ELSE Len(a[1]) + i]]
       /\ at = [i \in 1..(Len(a[1]) + Len(a[2])) |-> "l2"]
  /\ ctx = [n \in Nodes |-> [next |-> N("pkt_drop"), type |-> "unknown"]]
  /\ ch_rcv = [b \in Pcbs |-> <<>>]
  /\ out = <<>>

(* The data offset of the packets in a stream moves. *)
Moved(n, To(_)) ==
  at' = [p \in DOMAIN at |-> IF p \in ToSet(graph.objs[n]) THEN To(p) ELSE at[p]]

(* A node that classifies its packets. *)
Classify(n, r) ==
  /\ Processed(r.g, n)
  /\ ctx' = [ctx EXCEPT ![n] = r.ctx]
  /\ UNCHANGED <<setup, rxq, ch_rcv, out>>

EdgeHit(Edge(_), s, p) == Edge(p) = s.next
AnyMiss(Edge(_), s, c) == \E i \in DOMAIN c : Edge(c[i]) # s.next
AllMiss(Edge(_), s, c) == \A i \in DOMAIN c : Edge(c[i]) # s.next

(* Nodes with one guess for good: a batch is fixed when one edge differs. *)
SpeculateOn(n, next, least, Edge(_)) ==
  Classify(n, Speculate(graph, n, [next |-> next, type |-> "unknown"], least, Edge,
                        LAMBDA s, c : AnyMiss(Edge, s, c), LAMBDA s, p : EdgeHit(Edge, s, p),
                        LAMBDA s, c : s))

(* Nodes that guess the edge of the last two of a group. *)
LastTwo(Edge(_), s, c, nb) ==
  IF s.next # Edge(c[4]) /\ Edge(c[3]) = Edge(c[4]) THEN Respeculate(s, Edge(c[4]), nb) ELSE s

(* Nodes that guess by packet type, where Nxt is their table p_nxt. *)
LastType(Type(_), Nxt(_), s, c, nb) ==
  LET l2 == Type(c[3])
      l3 == Type(c[4]) IN
  IF s.type # l3 /\ l2 = l3 /\ s.next # Nxt(l3)
  THEN [Respeculate(s, Nxt(l3), nb) EXCEPT !.type = l3]
  ELSE IF s.next = Nxt(l3) THEN [s EXCEPT !.type = l3] ELSE s

TypeMiss(Type(_), Nxt(_), s, c, Same(_, _)) ==
  IF Len(c) = 4 THEN \E i \in DOMAIN c : ~ Same(Type(c[i]), s.type)
  ELSE Type(c[1]) # s.type /\ Nxt(Type(c[1])) # s.next

-----------------------------------------------------------------------------
(* The ends of the graph.                                                  *)

(* What the port has is read into the stream, which goes to node `to' as   *)
(* a whole with the packets' data at the header `start'.                   *)
ReceiveBurst(p, to, start) ==
  LET n == eth_rx(p)
      nb == Min({Len(rxq[p]), Burst, graph.size[n]})
      g == [graph EXCEPT !.objs[n] = SubSeq(rxq[p], 1, nb), !.idx[n] = nb] IN
  /\ AtNode(n)
  /\ Processed(IF nb = 0 THEN graph ELSE cne_node_next_stream_move(g, n, N(to)), n)
  /\ at' = [q \in DOMAIN at |-> IF q \in ToSet(g.objs[n]) THEN start ELSE at[q]]
  /\ rxq' = [rxq EXCEPT ![p] = SubSeq(@, nb + 1, Len(@))]
  /\ UNCHANGED <<setup, ctx, ch_rcv, out>>

eth_rx_node_process(p) == app = "cnet" /\ ReceiveBurst(p, "ptype", "l3")

pktdev_rx_node_process(p) == app = "l3fwd" /\ ReceiveBurst(p, "pkt_cls", "l2")

(* The packets of a stream leave by node n. *)
Left(n) == out' = out \o [i \in DOMAIN graph.objs[n] |-> [pkt |-> graph.objs[n][i], by |-> n]]

(* Sent until the port has taken all of them. *)
TransmitBurst(p) ==
  /\ AtNode(eth_tx(p))
  /\ Left(eth_tx(p))
  /\ Processed(graph, eth_tx(p))
  /\ UNCHANGED <<setup, rxq, at, ctx, ch_rcv>>

eth_tx_node_process(p) == app = "cnet" /\ TransmitBurst(p)

pktdev_tx_node_process(p) == app = "l3fwd" /\ TransmitBurst(p)

pkt_drop_process ==
  /\ AtNode(N("pkt_drop"))
  /\ Left(N("pkt_drop"))
  /\ Processed(graph, N("pkt_drop"))
  /\ UNCHANGED <<setup, rxq, at, ctx, ch_rcv>>

(* Nodes that give the packets to a socket of the kernel and drop them. *)
ToKernel(n) ==
  /\ AtNode(n)
  /\ Left(n)
  /\ Processed(cne_node_next_stream_move(graph, n, N("pkt_drop")), n)
  /\ UNCHANGED <<setup, rxq, at, ctx, ch_rcv>>

arp_request_node_process == ToKernel(N("arp_request"))
punt_kernel_node_process == ToKernel(N("punt_kernel"))

-----------------------------------------------------------------------------
(* The CNET nodes.                                                         *)

p_nxt(t) ==
  CASE t \in {"ip4_udp", "ip4_tcp"} -> N("ip4_input")
    [] t = "ip4_gtpu" -> N("gtpu_input")
    [] OTHER -> N("pkt_drop")

(* The low byte of a packet type, its layer 2 and 3 bits. *)
L2L3(t) == IF t \in {"ip4_udp", "ip4_tcp", "ip4_gtpu", "ip4_icmp"} THEN "ip4" ELSE t

(* fix_spec is a uint8_t: it is zero when only the bits above it differ. *)
ptype_node_process ==
  LET n == N("ptype")
      Type(p) == kind[p].type
      Edge(p) == p_nxt(Type(p)) IN
  /\ AtNode(n)
  /\ Classify(n, Speculate(graph, n, [next |-> p_nxt(ctx[n].type), type |-> ctx[n].type], 4, Edge,
                   LAMBDA s, c : TypeMiss(Type, p_nxt, s, c, LAMBDA t, u : L2L3(t) = L2L3(u)),
                   LAMBDA s, p : EdgeHit(Edge, s, p),
                   LAMBDA s, c : LastType(Type, p_nxt, s, c, graph.idx[n])))
  /\ UNCHANGED at

gtpu_nxt(t) == IF t = "ip4_gtpu" THEN N("ip4_input") ELSE N("pkt_drop")

(* A packet of a group that was guessed wrong is held when its type, as a  *)
(* number, is the guessed edge: only type 0 and edge 0, the drop node.     *)
gtpu_node_process ==
  LET n == N("gtpu_input")
      Type(p) == IF kind[p].type = "ip4_gtpu" THEN "ip4_gtpu" ELSE "unknown"
      Edge(p) == gtpu_nxt(Type(p)) IN
  /\ AtNode(n)
  /\ Classify(n, Speculate(graph, n, [next |-> gtpu_nxt(ctx[n].type), type |-> ctx[n].type], 4, Edge,
                   LAMBDA s, c : TypeMiss(Type, gtpu_nxt, s, c, LAMBDA t, u : t = u),
                   LAMBDA s, p : Type(p) = "unknown" /\ s.next = N("pkt_drop"),
                   LAMBDA s, c : LastType(Type, gtpu_nxt, s, c, graph.idx[n])))
  /\ UNCHANGED at

(* A packet of wrong length or checksum is looked up as address 0. *)
ip4_input_lookup(p) ==
  IF ~ kind[p].ok \/ kind[p].route = "none" THEN N("pkt_drop")
  ELSE IF kind[p].route = "forward" THEN N("ip4_forward") ELSE N("ip4_proto")

ip4_input_node_process ==
  /\ AtNode(N("ip4_input"))
  /\ SpeculateOn(N("ip4_input"), N("ip4_forward"), 4, ip4_input_lookup)
  /\ UNCHANGED at

(* The port of the ARP entry of the next hop. *)
ip4_forward_hop(p) == IF kind[p].port = 0 THEN N("arp_request") ELSE eth_tx(kind[p].port)

ip4_forward_node_process ==
  LET n == N("ip4_forward") IN
  /\ AtNode(n)
  /\ Classify(n, Speculate(graph, n, ctx[n], 4, ip4_forward_hop,
                   LAMBDA s, c : AllMiss(ip4_forward_hop, s, c),
                   LAMBDA s, p : EdgeHit(ip4_forward_hop, s, p),
                   LAMBDA s, c : LastTwo(ip4_forward_hop, s, c, graph.idx[n])))
  /\ Moved(n, LAMBDA p : "l2")

ip4_proto_node_process ==
  LET n == N("ip4_proto")
      Edge(p) == IF kind[p].proto = "udp" THEN N("udp_input")
                 ELSE IF kind[p].proto = "tcp" THEN N("tcp_input") ELSE N("pkt_drop") IN
  /\ AtNode(n)
  /\ SpeculateOn(n, N("pkt_drop"), 4, Edge)
  /\ UNCHANGED at

(* udp_input_lookup, and tcp_input_lookup of a segment whose data          *)
(* cnet_tcp_input accepts.                                                 *)
input_lookup(p) ==
  IF kind[p].pcb = 0 THEN IF cfg.punt THEN N("punt_kernel") ELSE N("pkt_drop")
  ELSE IF kind[p].l4 THEN N("chnl_recv") ELSE N("pkt_drop")

L4Input(name) ==
  /\ AtNode(N(name))
  /\ SpeculateOn(N(name), N("chnl_recv"), 4, input_lookup)
  /\ Moved(N(name), LAMBDA p : IF input_lookup(p) = N("chnl_recv") THEN "data" ELSE at[p])

udp_input_node_process == L4Input("udp_input")
tcp_input_node_process == L4Input("tcp_input")

chnl_recv_node_process ==
  /\ AtNode(N("chnl_recv"))
  /\ SpeculateOn(N("chnl_recv"), N("chnl_callback"), 5,
                 LAMBDA p : IF kind[p].pcb # 0 THEN N("chnl_callback") ELSE N("pkt_drop"))
  /\ UNCHANGED at

(* The packets go to their channels; a channel's callback is called when   *)
(* the PCB changes and at the end.  One that answers takes what its UDP    *)
(* channel has (udp_chnl_recv) and sends it back (udp_chnl_send).          *)
__callback(s, pcb) ==
  IF ~ cfg.echo \/ \E i \in DOMAIN s.rcv[pcb] : kind[s.rcv[pcb][i]].proto = "tcp" THEN s
  ELSE [s EXCEPT !.g = cne_node_enqueue(@, N("udp_output"), s.rcv[pcb]), !.rcv[pcb] = <<>>]

chnl_callback_node_process ==
  LET n == N("chnl_callback")
      Add(s, p) ==
        LET pcb == kind[p].pcb
            t == IF s.ppcb \in {0, pcb} THEN s ELSE __callback(s, s.ppcb) IN
        [t EXCEPT !.rcv[pcb] = Append(@, p), !.ppcb = pcb]
      s == FoldEager(Add, [g |-> graph, rcv |-> ch_rcv, ppcb |-> 0], graph.objs[n])
      t == __callback(s, s.ppcb) IN
  /\ AtNode(n)
  /\ Processed(t.g, n)
  /\ ch_rcv' = t.rcv
  /\ UNCHANGED <<setup, rxq, at, ctx, out>>

udp_output_node_do ==
  /\ AtNode(N("udp_output"))
  /\ SpeculateOn(N("udp_output"), N("ip4_output"), 4, LAMBDA p : N("ip4_output"))
  /\ Moved(N("udp_output"), LAMBDA p : "l4")

(* The IP and Ethernet headers of an answer, if its next hop is known; it  *)
(* is dropped without metadata, room for a header, or a route.             *)
ip4_output_header(p) ==
  CASE ~ kind[p].back -> N("pkt_drop")
    [] kind[p].back /\ kind[p].port = 0 -> N("arp_request")
    [] OTHER -> eth_tx(kind[p].port)

ip4_output_node_process ==
  LET n == N("ip4_output") IN
  /\ AtNode(n)
  /\ SpeculateOn(n, ctx[n].next, 4, ip4_output_header)
  /\ Moved(n, LAMBDA p : IF kind[p].back THEN "l2" ELSE "l4")

-----------------------------------------------------------------------------
(* The nodes of the layer 3 forwarder.                                     *)

pkt_cls_nxt(t) == IF t = "ip4" THEN N("ip4_lookup") ELSE N("pkt_drop")

pkt_cls_node_process ==
  LET n == N("pkt_cls")
      Type(p) == L2L3(kind[p].type)
      Edge(p) == pkt_cls_nxt(Type(p)) IN
  /\ AtNode(n)
  /\ Classify(n, Speculate(graph, n, [next |-> pkt_cls_nxt(ctx[n].type), type |-> ctx[n].type], 4, Edge,
                   LAMBDA s, c : TypeMiss(Type, pkt_cls_nxt, s, c, LAMBDA t, u : t = u),
                   LAMBDA s, p : EdgeHit(Edge, s, p),
                   LAMBDA s, c : LastType(Type, pkt_cls_nxt, s, c, graph.idx[n])))
  /\ UNCHANGED at

ip4_lookup_next(p) == IF kind[p].route = "none" THEN N("pkt_drop") ELSE N("ip4_rewrite")

ip4_lookup_node_process_vec ==
  /\ AtNode(N("ip4_lookup"))
  /\ SpeculateOn(N("ip4_lookup"), N("ip4_rewrite"), 4, ip4_lookup_next)
  /\ UNCHANGED at

ip4_rewrite_next(p) == IF kind[p].port = 0 THEN N("pkt_drop") ELSE eth_tx(kind[p].port)

ip4_rewrite_node_process ==
  LET n == N("ip4_rewrite") IN
  /\ AtNode(n)
  /\ Classify(n, Speculate(graph, n, ctx[n], 4, ip4_rewrite_next,
                   LAMBDA s, c : AnyMiss(ip4_rewrite_next, s, c),
                   LAMBDA s, p : EdgeHit(ip4_rewrite_next, s, p),
                   LAMBDA s, c : LastTwo(ip4_rewrite_next, s, c, graph.idx[n])))
  /\ UNCHANGED at

-----------------------------------------------------------------------------
Others == <<setup, rxq, at, ctx, ch_rcv, out>>

Next ==
  \/ WalkStart /\ UNCHANGED Others
  \/ WalkEnd /\ UNCHANGED Others
  \/ \E p \in Ports : \/ eth_rx_node_process(p) \/ eth_tx_node_process(p)
                     \/ pktdev_rx_node_process(p) \/ pktdev_tx_node_process(p)
  \/ pkt_drop_process \/ arp_request_node_process \/ punt_kernel_node_process
  \/ ptype_node_process \/ gtpu_node_process \/ ip4_input_node_process
  \/ ip4_forward_node_process \/ ip4_proto_node_process
  \/ udp_input_node_process \/ tcp_input_node_process
  \/ chnl_recv_node_process \/ chnl_callback_node_process
  \/ udp_output_node_do \/ ip4_output_node_process
  \/ pkt_cls_node_process \/ ip4_lookup_node_process_vec \/ ip4_rewrite_node_process

Spec == Init /\ [][Next]_vars

-----------------------------------------------------------------------------
(* The header that a node expects its packets to start with. *)
Reads(n) ==
  CASE app = "l3fwd" \/ n[1] \in {"eth_tx", "arp_request"} -> {"l2"}
    [] n[1] \in {"ip4_input", "ip4_forward", "ip4_proto", "udp_input", "tcp_input",
                 "punt_kernel"} -> {"l3"}
    [] n[1] = "ip4_output" -> {"l4"}
    [] n[1] \in {"chnl_recv", "chnl_callback", "udp_output"} -> {"data"}
    [] OTHER -> {"l2", "l3", "l4", "data"}

(* The pending list and the streams agree at every step of a walk (see     *)
(* StreamsRight), and a packet waits at a node with its data offset at the *)
(* header which that node reads: the nodes move the offset by the lengths  *)
(* kept in the packet, in either direction, and nothing checks it.         *)
GraphRight ==
  /\ StreamsRight
  /\ \A n \in Nodes : \A p \in ToSet(graph.objs[n]) : at[p] \in Reads(n)
  /\ \A b \in Pcbs : \A p \in ToSet(ch_rcv[b]) : at[p] = "data" /\ kind[p].pcb = b

(* Where a packet has to leave the graph, from what it is; <<>> when its   *)
(* channel keeps it.                                                       *)
Answered(k) == cfg.echo /\ k.proto = "udp"
ToPort(k) == IF k.port = 0 THEN <<N("arp_request"), N("pkt_drop")>> ELSE <<eth_tx(k.port)>>
Way(k) ==
  CASE app = "l3fwd" ->
         IF L2L3(k.type) # "ip4" \/ k.route = "none" \/ k.port = 0 THEN <<N("pkt_drop")>>
         ELSE <<eth_tx(k.port)>>
    [] p_nxt(k.type) = N("pkt_drop") \/ ~ k.ok \/ k.route = "none" -> <<N("pkt_drop")>>
    [] k.route = "forward" -> ToPort(k)
    [] k.proto \notin {"udp", "tcp"} -> <<N("pkt_drop")>>
    [] k.pcb = 0 -> IF cfg.punt THEN <<N("punt_kernel"), N("pkt_drop")>> ELSE <<N("pkt_drop")>>
    [] OTHER -> IF ~ k.l4 THEN <<N("pkt_drop")>> ELSE IF ~ Answered(k) THEN <<>>
                ELSE IF k.back THEN ToPort(k) ELSE <<N("pkt_drop")>>

(* The ways that guesses confuse with that of a packet: ip4_forward keeps  *)
(* a group of four together when one of them has the guessed next hop, and *)
(* ptype when their types have the same low byte; what then reaches        *)
(* gtpu_input without being of its type is dropped there.                  *)
Received == ToSet(kind)
Hops(k) == {k.port} \cup IF k.ok /\ k.route = "forward" THEN {j.port : j \in {i \in Received : i.ok /\ i.route = "forward"}} ELSE {}
Types(k) == {j.type : j \in {i \in Received : L2L3(i.type) = L2L3(k.type)}}
Ways(k) ==
  IF app = "l3fwd" THEN {Way(k)}
  ELSE {Way([k EXCEPT !.type = t, !.port = h]) : t \in Types(k), h \in Hops(k)}
         \cup IF "ip4_gtpu" \in Types(k) \ {k.type} THEN {<<N("pkt_drop")>>} ELSE {}
Sure(k) == app = "l3fwd" \/ (Hops(k) = {k.port} /\ \A t \in Types(k) : p_nxt(t) = p_nxt(k.type))

Exits(p) ==
  LET mine == SelectSeq(out, LAMBDA e : e.pkt = p) IN [i \in DOMAIN mine |-> mine[i].by]

Kept(p) == {<<b, i>> \in Pcbs \X (1..Len(kind)) : i \in DOMAIN ch_rcv[b] /\ ch_rcv[b][i] = p}

(* Packets of one kind and port stay in the order in which they arrived,   *)
(* if guesses cannot send them different ways.                             *)
InOrder(s) ==
  \A i, j \in DOMAIN s :
    i < j /\ kind[s[i]] = kind[s[j]] /\ Sure(kind[s[i]]) /\ (s[i] <= cfg.first <=> s[j] <= cfg.first) => s[i] < s[j]

OrderKept ==
  /\ \A b \in Pcbs : InOrder(ch_rcv[b])
  /\ \A n \in Nodes : LET s == SelectSeq(out, LAMBDA e : e.by = n) IN
                      InOrder([i \in DOMAIN s |-> s[i].pkt])

(* When a walk has ended, every packet that was received has left by the   *)
(* nodes of its way and by no other, or is once in the buffer of its       *)
(* channel, and none was overtaken by a later one of its kind.  However a  *)
(* batch mixes packets and whatever a node guessed before, no packet is    *)
(* lost or doubled; the guesses of ip4_forward and ptype do send a packet  *)
(* elsewhere, but only on the way of one it is confused with (Ways), and   *)
(* only those may overtake each other.                                     *)
Routed ==
  head = Idle =>
    /\ \A p \in DOMAIN kind :
         IF \E port \in Ports : p \in ToSet(rxq[port])
         THEN Exits(p) = <<>> /\ Kept(p) = {}
         ELSE Exits(p) \in Ways(kind[p]) /\ Cardinality(Kept(p)) = IF Exits(p) = <<>> THEN 1 ELSE 0
    /\ OrderKept
=============================================================================
