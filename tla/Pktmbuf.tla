------------------------------- MODULE Pktmbuf -------------------------------
(***************************************************************************)
(* Packet buffers (lib/core/pktmbuf) and transmit buffers                  *)
(* (lib/core/txbuff).  Threads take buffers from two pools, share them by  *)
(* reference counts, move the data within them, queue them in a txbuff and *)
(* give them back, one by one or in bulk.                                  *)
(*                                                                         *)
(* A buffer is a number and also the memory behind its pktmbuf_t; its      *)
(* address is Base(b).  The contents of a buffer are left out, but for     *)
(* cne_get_ptype (pktmbuf_ptype.c), which finds the packet type and the    *)
(* header lengths of a frame, with every layer asked for: there a frame is *)
(* a sequence of headers.  The protocol field of a header says the kind of *)
(* the next one, so that the parser's offset is an index; a packet type is *)
(* the set of its layers.                                                  *)
(***************************************************************************)
EXTENDS Integers, FiniteSets, SequencesExt

CONSTANTS
  Threads,
  PoolOf,        \* PoolOf[b], the pool a buffer was made in; the buffers are 1..n
  BufLen,        \* bufsz - sizeof(pktmbuf_t)
  Headroom,      \* CNE_PKTMBUF_HEADROOM
  PendingSz,     \* PKTMBUF_PENDING_SZ
  TxSize,        \* the size of the txbuff
  MaxRefs,       \* references to one buffer
  MaxErr,        \* counted packets
  MaxLost,       \* lost references to one buffer
  Lens,          \* the lengths that calls ask for
  Frames,        \* the frames whose type is asked for
  MaxExtHdrs     \* MAX_EXT_HDRS

VARIABLES
  focus,    \* what a behaviour is about, "counts", "tx", "data" or "ptype": a bound
  mb,       \* mb[b], the fields of pktmbuf_t
  freed,    \* freed[p][b], how often pool p holds b
  refs,     \* refs[t][b], the references that thread t has to b
  pc,       \* pc[t], a call on reference counts that is not finished
  tx,       \* the txbuff: [pkts, err]
  clones,   \* buffers that pktmbuf_clone has pointed elsewhere
  lost,     \* lost[b], references to b that no one will release
  hist,     \* history: the buffers whose releases crossed, and the stray ones
  frame,    \* the headers of a packet
  parsed    \* what cne_get_ptype says: [type, lens], or Unparsed

bufVars == <<mb, freed, refs, pc, tx, clones, lost, hist>>
vars == <<focus, bufVars, frame, parsed>>

Layers == {"l2", "l3", "l4", "tunnel", "inner_l2", "inner_l3", "inner_l4"}
NoLens == [l \in Layers |-> 0]
Unparsed == [type |-> {}, lens |-> NoLens]

Bufs == DOMAIN PoolOf
Pools == {PoolOf[b] : b \in Bufs}
Base(b) == b * (BufLen + 1)
Done == [call |-> "none"]
Unread == -1
W == 2^16

(* __mbuf_init, called for every buffer of a pool by pktmbuf_iterate. *)
__mbuf_init(b) ==
  [addr |-> b, len |-> BufLen, off |-> IF Headroom < BufLen THEN Headroom ELSE BufLen,
   data |-> 0, refcnt |-> 1]

Init ==
  /\ focus \in {"counts", "tx", "data", "ptype"}
  /\ IF focus = "ptype" THEN frame \in Frames ELSE frame = <<>>
  /\ parsed = Unparsed
  /\ mb = [b \in Bufs |-> __mbuf_init(b)]
  /\ freed = [p \in Pools |-> [b \in Bufs |-> IF PoolOf[b] = p THEN 1 ELSE 0]]
  /\ refs = [t \in Threads |-> [b \in Bufs |-> 0]]
  /\ pc = [t \in Threads |-> Done]
  /\ tx = [pkts |-> <<>>, err |-> 0]
  /\ clones = {}
  /\ lost = [b \in Bufs |-> 0]
  /\ hist = [crossed |-> {}, stray |-> {}]

pktmbuf_headroom(m) == m.off
pktmbuf_tailroom(m) == (m.len - m.off - m.data) % W
pktmbuf_mtod(m) == Base(m.addr) + m.off
pktmbuf_mtod_last(m) == pktmbuf_mtod(m) + m.data
pktmbuf_mtod_end(b) == Base(b) + mb[b].len

pktmbuf_reset(m) == [m EXCEPT !.off = IF Headroom < m.len THEN Headroom ELSE m.len, !.data = 0]

(* The pool takes and gives buffers in any order (see Mempool). *)
(* Bound: where buffers are shared, one of each pool. *)
Used(b) == focus \in {"counts", "tx"} => \A a \in 1..(b - 1) : PoolOf[a] # PoolOf[b]
Available(p) == {b \in Bufs : freed[p][b] > 0 /\ Used(b)}

Holds(t, b) == refs[t][b] > 0
Idle(t) == pc[t] = Done

(* _default_mbuf_alloc for one buffer: it comes reset, with its count at 1. *)
Taken(p, b) ==
  /\ freed' = [freed EXCEPT ![p][b] = @ - 1]
  /\ hist' = [crossed |-> hist.crossed \ {b}, stray |-> hist.stray \ {b}]

pktmbuf_alloc(t, p) ==
  /\ Idle(t)
  /\ \E b \in Available(p) :
       /\ Taken(p, b)
       /\ mb' = [mb EXCEPT ![b] = pktmbuf_reset(@)]
       /\ refs' = [refs EXCEPT ![t][b] = @ + 1]
  /\ UNCHANGED <<pc, tx, clones, lost>>

-----------------------------------------------------------------------------
(* Reference counts.  A thread adds a reference for a thread that will     *)
(* release it.  The read of a count and its update are two steps, between  *)
(* which the other holders of the buffer read and update it too.           *)

InTx(b) == Cardinality({i \in DOMAIN tx.pkts : tx.pkts[i] = b})
Total(b) == InTx(b) + lost[b] + MapThenSumSet(LAMBDA t : refs[t][b], Threads)

(* t has read the count of b, in order to release it, and not updated it. *)
Releasing(t, b) == pc[t].call \in {"free", "bulk"} /\ pc[t].read # Unread /\ pc[t].b = b

(* The buffers of S that are released while a thread of T is midway. *)
Crossed(T, S) == hist.crossed \cup {b \in S : \E u \in T : Releasing(u, b)}

ShareBegin(t, b) ==
  /\ Idle(t) /\ Holds(t, b)
  /\ pc' = [pc EXCEPT ![t] = [call |-> "share", b |-> b, read |-> mb[b].refcnt]]
  /\ UNCHANGED <<mb, freed, refs, tx, clones, lost, hist>>

pktmbuf_refcnt_update(t, u) ==
  /\ pc[t].call = "share"
  /\ LET b == pc[t].b IN
     /\ Total(b) < MaxRefs
     /\ mb' = [mb EXCEPT ![b].refcnt = IF pc[t].read = 1 THEN 2 ELSE (@ + 1) % W]
     /\ refs' = [refs EXCEPT ![u][b] = @ + 1]
  /\ pc' = [pc EXCEPT ![t] = Done]
  /\ UNCHANGED <<freed, tx, clones, lost, hist>>

(* The buffer is given back without any look at its count. *)
RefcntFreeAlways(m, read) == [m |-> m, last |-> TRUE]

(* pktmbuf_refcnt_free for a count that was read before: the buffer is     *)
(* given back (last) if it was 1, or if it was 0 when decremented.         *)
RefcntFree(m, read) ==
  IF read = 1 THEN [m |-> m, last |-> TRUE]
  ELSE IF m.refcnt = 0 THEN [m |-> [m EXCEPT !.refcnt = 1], last |-> TRUE]
  ELSE [m |-> [m EXCEPT !.refcnt = @ - 1], last |-> FALSE]

(* __pktmbuf_flush_pending *)
Flush(s) ==
  [s EXCEPT !.freed[s.pool] = [b \in Bufs |-> @[b] + Cardinality({i \in DOMAIN s.pend : s.pend[i] = b})],
            !.pend = <<>>]

(* A flush only when the array is full: buffers of two pools are mixed. *)
BulkIgnoresPool(s, b) ==
  LET v == IF Len(s.pend) = PendingSz THEN [Flush(s) EXCEPT !.pool = PoolOf[b]] ELSE s IN
  [v EXCEPT !.pend = Append(@, b)]

(* A buffer that was given back is put into the array of pending ones,     *)
(* which is flushed when it is full or when the buffer is of another pool  *)
(* than those in it.                                                       *)
__pktmbuf_free_bulk(s, b) ==
  LET v == IF Len(s.pend) = PendingSz \/ (s.pend # <<>> /\ PoolOf[b] # s.pool)
           THEN [Flush(s) EXCEPT !.pool = PoolOf[b]] ELSE s IN
  [v EXCEPT !.pend = Append(@, b)]

(* One buffer of a bulk, whose count was read before.  The pool of an      *)
(* empty array is that of the first buffer of the bulk also when this one  *)
(* stays shared (kept): then a buffer of another pool goes stray.          *)
BulkOne(s, b, read) ==
  LET r == RefcntFree(s.mb[b], read)
      u == [s EXCEPT !.mb[b] = r.m, !.bs = Tail(@), !.read = Unread,
                     !.kept = @ \/ (b = s.first /\ ~ r.last)] IN
  IF ~ r.last THEN u
  ELSE [__pktmbuf_free_bulk(u, b) EXCEPT
          !.stray = IF u.kept /\ PoolOf[b] # PoolOf[u.first] THEN @ \cup {b} ELSE @]

BulkBegin(bs) ==
  [call |-> "bulk", b |-> bs[1], read |-> Unread, bs |-> bs, first |-> bs[1], kept |-> FALSE,
   pend |-> <<>>, pool |-> PoolOf[bs[1]]]

(* What a bulk free works on, besides its own array. *)
Books(c) == c @@ [mb |-> mb, freed |-> freed, stray |-> hist.stray]

BulkEnd(s) == IF s.pend = <<>> THEN s ELSE Flush(s)

(* pktmbuf_free_bulk of a txbuff and of a device, in one step. *)
FreeBulk(s, bs) ==
  IF bs = <<>> THEN s
  ELSE BulkEnd(FoldLeft(LAMBDA a, b : BulkOne(a, b, a.mb[b].refcnt), BulkBegin(bs) @@ s, bs))

FreeBegin(t, b) ==
  /\ Idle(t) /\ Holds(t, b)
  /\ pc' = [pc EXCEPT ![t] = [call |-> "free", b |-> b, read |-> mb[b].refcnt]]
  /\ UNCHANGED <<mb, freed, refs, tx, clones, lost, hist>>

pktmbuf_free(t) ==
  /\ pc[t].call = "free"
  /\ LET b == pc[t].b
         r == RefcntFree(mb[b], pc[t].read) IN
     /\ mb' = [mb EXCEPT ![b] = r.m]
     /\ freed' = IF r.last THEN [freed EXCEPT ![PoolOf[b]][b] = @ + 1] ELSE freed
     /\ refs' = [refs EXCEPT ![t][b] = @ - 1]
     /\ hist' = [hist EXCEPT !.crossed = Crossed(Threads \ {t}, {b})]
  /\ pc' = [pc EXCEPT ![t] = Done]
  /\ UNCHANGED <<tx, clones, lost>>

pktmbuf_free_bulk(t) ==
  /\ Idle(t)
  /\ \E bs \in {<<a, b>> : a, b \in Bufs} \cup {<<a, b, a>> : a, b \in Bufs} :
       /\ \A b \in Bufs : Cardinality({i \in DOMAIN bs : bs[i] = b}) <= refs[t][b]
       /\ pc' = [pc EXCEPT ![t] = BulkBegin(bs)]
  /\ UNCHANGED <<mb, freed, refs, tx, clones, lost, hist>>

BulkRead(t) ==
  /\ pc[t].call = "bulk" /\ pc[t].read = Unread
  /\ LET b == Head(pc[t].bs) IN
     pc' = [pc EXCEPT ![t].b = b, ![t].read = mb[b].refcnt]
  /\ UNCHANGED <<mb, freed, refs, tx, clones, lost, hist>>

(* The buffer is released, and after the last one the array is flushed. *)
BulkRelease(t) ==
  /\ pc[t].call = "bulk" /\ pc[t].read # Unread
  /\ LET b == pc[t].b
         s == BulkOne(Books(pc[t]), b, pc[t].read)
         e == IF s.bs = <<>> THEN BulkEnd(s) ELSE s IN
     /\ mb' = e.mb /\ freed' = e.freed
     /\ refs' = [refs EXCEPT ![t][b] = @ - 1]
     /\ hist' = [crossed |-> Crossed(Threads \ {t}, {b}), stray |-> e.stray]
     /\ pc' = [pc EXCEPT ![t] = IF e.bs = <<>> THEN Done ELSE [f \in DOMAIN @ |-> e[f]]]
  /\ UNCHANGED <<tx, clones, lost>>

-----------------------------------------------------------------------------
(* The data of a buffer.  Each call leaves the buffer alone when it fails. *)

pktmbuf_prepend(m, len) ==
  IF len > pktmbuf_headroom(m) THEN m ELSE [m EXCEPT !.off = @ - len, !.data = @ + len]

pktmbuf_adj_offset(m, len) ==
  IF len >= 0
  THEN IF len > m.data \/ len + m.off > m.len THEN m
       ELSE [m EXCEPT !.off = @ + len, !.data = @ - len]
  ELSE IF -len > m.off THEN m ELSE [m EXCEPT !.off = @ + len, !.data = @ - len]

(* No look at the room behind the data. *)
pktmbuf_append(m, len) ==
  IF len > pktmbuf_tailroom(m) THEN m ELSE [m EXCEPT !.data = (@ + len) % W]

pktmbuf_trim(m, len) == IF len > m.data THEN m ELSE [m EXCEPT !.data = @ - len]

(* The end of the buffer is taken from the pktmbuf_t, the start of the     *)
(* data from buf_addr: of a clone they belong to two buffers.              *)
pktmbuf_write(b, len, off) ==
  LET m == mb[b]
      first == pktmbuf_mtod(m) + off
      end == first + len IN
  IF len + off > pktmbuf_tailroom(m) \/ off > m.data \/ len = 0 \/ end >= pktmbuf_mtod_end(b)
     \/ end <= pktmbuf_mtod_last(m)
  THEN m ELSE pktmbuf_append(m, end - pktmbuf_mtod_last(m))

Resize(t, b) ==
  /\ Idle(t) /\ Holds(t, b)
  /\ \E len \in Lens :
       \E m \in {pktmbuf_prepend(mb[b], len), pktmbuf_adj_offset(mb[b], len),
                 pktmbuf_adj_offset(mb[b], -len), pktmbuf_append(mb[b], len),
                 pktmbuf_trim(mb[b], len), pktmbuf_reset(mb[b])}
            \cup {pktmbuf_write(b, len, off) : off \in Lens} : mb' = [mb EXCEPT ![b] = m]
  /\ UNCHANGED <<freed, refs, pc, tx, clones, lost, hist>>

(* pktmbuf_copy, for an offset within the data.  The length is cut to the  *)
(* room behind the data of the source; a source without any leaves the new *)
(* buffer to no one.                                                       *)
pktmbuf_copy(t, b, p) ==
  /\ Idle(t) /\ Holds(t, b)
  /\ \E off \in Lens \cup {0}, len \in Lens, c \in Available(p) :
       /\ off <= mb[b].data /\ off < mb[b].len
       /\ Taken(p, c)
       /\ LET n == Min({mb[b].data - off, len, mb[b].len - off, pktmbuf_tailroom(mb[b])})
              full == pktmbuf_tailroom(mb[b]) = 0 IN
          /\ mb' = [mb EXCEPT ![c] = [pktmbuf_reset(@) EXCEPT !.data = IF full THEN 0 ELSE n]]
          /\ refs' = IF full THEN refs ELSE [refs EXCEPT ![t][c] = @ + 1]
          /\ lost' = IF full THEN [lost EXCEPT ![c] = @ + 1] ELSE lost
  /\ UNCHANGED <<pc, tx, clones>>

(* pktmbuf_clone: the new pktmbuf_t points into the memory of the other. *)
pktmbuf_clone(t, b, p) ==
  /\ Idle(t) /\ Holds(t, b)
  /\ \E c \in Available(p) :
       /\ Taken(p, c)
       /\ mb' = [mb EXCEPT ![c] = [pktmbuf_reset(@) EXCEPT
                   !.addr = mb[b].addr, !.len = mb[b].len, !.off = mb[b].off, !.data = mb[b].data]]
       /\ refs' = [refs EXCEPT ![t][c] = @ + 1]
       /\ clones' = clones \cup {c}
  /\ UNCHANGED <<pc, tx, lost>>

-----------------------------------------------------------------------------
(* The txbuff.                                                             *)

(* txbuff_count_callback for the packets after the first n. *)
txbuff_count_callback(x, n) ==
  [e |-> FreeBulk(Books(<<>>), SubSeq(x.pkts, n + 1, Len(x.pkts))), err |-> x.err + Len(x.pkts) - n]

Freed(e, pkts) ==
  /\ mb' = e.mb /\ freed' = e.freed
  /\ hist' = [crossed |-> Crossed(Threads, ToSet(pkts)), stray |-> e.stray]

(* The device takes the first n packets, and frees them when they are      *)
(* sent, or is down; then no one frees them.                               *)
txbuff_flush(x) ==
  \/ \E n \in 0..Len(x.pkts) :
       LET r == txbuff_count_callback(x, n) IN
       /\ tx' = [pkts |-> <<>>, err |-> r.err]
       /\ Freed(FreeBulk(r.e, SubSeq(x.pkts, 1, n)), x.pkts)
       /\ UNCHANGED lost
  \/ /\ \A b \in Bufs : lost[b] < MaxLost
     /\ tx' = [x EXCEPT !.pkts = <<>>]
     /\ lost' = [b \in Bufs |-> lost[b] + Cardinality({i \in DOMAIN x.pkts : x.pkts[i] = b})]
     /\ UNCHANGED <<freed, mb, hist>>

txbuff_add(t, b) ==
  /\ Idle(t) /\ Holds(t, b) /\ tx.err < MaxErr
  /\ refs' = [refs EXCEPT ![t][b] = @ - 1]
  /\ LET x == [tx EXCEPT !.pkts = Append(@, b)] IN
     IF Len(x.pkts) < TxSize THEN tx' = x /\ UNCHANGED <<freed, mb, lost, hist>>
     ELSE txbuff_flush(x)
  /\ UNCHANGED <<pc, clones>>

FlushAll ==
  /\ tx.pkts # <<>> /\ tx.err < MaxErr
  /\ txbuff_flush(tx)
  /\ UNCHANGED <<refs, pc, clones>>

(* txbuff_free, and a new one is created. *)
txbuff_free ==
  /\ Freed(FreeBulk(Books(<<>>), tx.pkts), tx.pkts)
  /\ tx' = [pkts |-> <<>>, err |-> 0]
  /\ UNCHANGED <<refs, pc, clones, lost>>

-----------------------------------------------------------------------------
(* The packet type.                                                        *)
Payload == [kind |-> "data", len |-> 0, more |-> FALSE]

Hdr(f, i) == IF i <= Len(f) THEN f[i] ELSE Payload
Kind(f, i) == Hdr(f, i).kind

(* The parser at header i with what it has found; it returns when `end'. *)
Advance(s, n, types, layer, len) ==
  [s EXCEPT !.i = @ + n, !.type = @ \cup types, !.lens[layer] = @ + len]
Return(s, types) == [s EXCEPT !.type = @ \cup types, !.end = TRUE]

Exts == {"hop", "routing", "dst", "frag"}

(* skip_ip6_ext: the index behind the extension headers, -1 when there are *)
(* too many, and whether the last one was a fragment header.               *)
skip_ip6_ext(f, i) ==
  LET n == CHOOSE n \in 0..MaxExtHdrs :
             /\ \A j \in 0..(n - 1) : Kind(f, i + j) \in Exts /\ (j < n - 1 => Kind(f, i + j) # "frag")
             /\ \/ n = MaxExtHdrs
                \/ Kind(f, i + n) \notin Exts
                \/ n > 0 /\ Kind(f, i + n - 1) = "frag"
      frag == n > 0 /\ Kind(f, i + n - 1) = "frag" IN
  [i |-> IF n = MaxExtHdrs /\ ~ frag THEN -1 ELSE i + n, frag |-> frag]

(* The lengths of headers i to j - 1. *)
Span(f, i, j) == FoldLeft(LAMBDA a, h : a + h.len, 0, SubSeq(f, i, j - 1))

(* The extension headers are skipped but not counted. *)
Ip6ExtUncounted(f, s, l3, l4, types) ==
  LET x == skip_ip6_ext(f, s.i + 1)
      t == Advance(s, 1, types, l3, Hdr(f, s.i).len) IN
  IF Kind(f, s.i + 1) \notin Exts THEN t
  ELSE IF x.i = -1 THEN Return(t, {})
  ELSE LET u == [t EXCEPT !.i = x.i] IN
       IF x.frag THEN Return(u, {l4 \o "_frag"}) ELSE u

(* An IPv6 header with its extension headers. *)
Ip6(f, s, l3, l4, types) ==
  LET x == skip_ip6_ext(f, s.i + 1)
      t == Advance(s, 1, types, l3, Hdr(f, s.i).len) IN
  IF Kind(f, s.i + 1) \notin Exts THEN t
  ELSE IF x.i = -1 THEN Return(t, {})
  ELSE LET u == Advance(t, x.i - t.i, {}, l3, Span(f, t.i, x.i)) IN
       IF x.frag THEN Return(u, {l4 \o "_frag"}) ELSE u

Ip4(f, s, l3, l4, types) ==
  LET h == Hdr(f, s.i)
      t == Advance(s, 1, types, l3, h.len) IN
  IF h.more THEN Return(t, {l4 \o "_frag"}) ELSE t

ptype_l3_ip(f, s, l3) == {l3 \o (IF Hdr(f, s.i).len > 20 THEN "_ipv4_ext" ELSE "_ipv4")}
ptype_l3_ip6(f, s, l3) == {l3 \o (IF Kind(f, s.i + 1) \in Exts THEN "_ipv6_ext" ELSE "_ipv6")}

L3(f, s, l3, l4) ==
  CASE Kind(f, s.i) = "ip4" -> Ip4(f, s, l3, l4, ptype_l3_ip(f, s, l3))
    [] Kind(f, s.i) = "ip6" -> Ip6(f, s, l3, l4, ptype_l3_ip6(f, s, l3))
    [] OTHER -> s

(* The two tags of a QinQ frame are one header here. *)
Tags(f, s, l2) ==
  IF Kind(f, s.i) \in {"vlan", "qinq"}
  THEN Advance([s EXCEPT !.type = @ \ {l2 \o "_ether"}], 1, {l2 \o "_" \o Kind(f, s.i)}, l2, Hdr(f, s.i).len)
  ELSE s

(* The loop over MPLS labels always runs to its maximum: the type is plain *)
(* Ethernet.                                                               *)
OuterL2(f) ==
  LET s == Advance([i |-> 1, type |-> {}, lens |-> NoLens, end |-> FALSE], 1, {"l2_ether"}, "l2", f[1].len) IN
  CASE Kind(f, 2) = "arp" -> [s EXCEPT !.type = {"l2_arp"}, !.end = TRUE]
    [] Kind(f, 2) = "mpls" -> Return(s, {})
    [] OTHER -> Tags(f, s, "l2")

(* UDP, TCP and SCTP end the parse of the outer headers.  The port of a    *)
(* UDP header is in its kind: udp, gtpu or gtpc.                           *)
OuterL4(f, s) ==
  LET k == Kind(f, s.i) IN
  CASE s.end -> s
    [] k \in {"udp", "gtpu", "gtpc"} ->
         [Advance(s, 1, {"l4_udp"} \cup (IF k = "udp" THEN {} ELSE {"tunnel_" \o k}), "l4", Hdr(f, s.i).len)
            EXCEPT !.end = TRUE]
    [] k \in {"tcp", "sctp"} -> [Advance(s, 1, {"l4_" \o k}, "l4", Hdr(f, s.i).len) EXCEPT !.end = TRUE]
    [] OTHER -> s

ptype_tunnel(f, s) ==
  CASE s.end -> s
    [] Kind(f, s.i) = "gre" ->
         Advance(s, 1, {IF Kind(f, s.i + 1) = "eth" THEN "tunnel_nvgre" ELSE "tunnel_gre"},
              "tunnel", Hdr(f, s.i).len)
    [] Kind(f, s.i) \in {"ip4", "ip6"} -> Advance(s, 0, {"tunnel_ip"}, "tunnel", 0)
    [] OTHER -> s

InnerL2(f, s) ==
  IF s.end THEN s
  ELSE Tags(f, IF Kind(f, s.i) = "eth" THEN Advance(s, 1, {"inner_l2_ether"}, "inner_l2", Hdr(f, s.i).len) ELSE s,
            "inner_l2")

InnerL4(f, s) ==
  IF ~ s.end /\ Kind(f, s.i) \in {"udp", "tcp", "sctp"}
  THEN Advance(s, 1, {"inner_l4_" \o Kind(f, s.i)}, "inner_l4", Hdr(f, s.i).len) ELSE s

cne_get_ptype(f) ==
  LET outer == OuterL2(f)
      l3 == IF outer.end THEN outer ELSE L3(f, outer, "l3", "l4")
      in2 == InnerL2(f, ptype_tunnel(f, OuterL4(f, l3)))
      in3 == IF in2.end THEN in2 ELSE L3(f, in2, "inner_l3", "inner_l4")
      s == InnerL4(f, in3) IN
  [type |-> s.type, lens |-> s.lens]

ParseStep ==
  /\ parsed = Unparsed /\ parsed' = cne_get_ptype(frame)
  /\ UNCHANGED <<frame, bufVars>>

First == CHOOSE t \in Threads : TRUE

(* One thread takes the buffers and shares them; all of them release. *)
CountsStep ==
  \/ \E p \in Pools : pktmbuf_alloc(First, p)
  \/ \E t \in Threads :
       \/ \E b \in Bufs : ShareBegin(t, b) \/ FreeBegin(t, b)
       \/ \E u \in Threads : pktmbuf_refcnt_update(t, u)
       \/ pktmbuf_free(t) \/ pktmbuf_free_bulk(t) \/ BulkRead(t) \/ BulkRelease(t)

(* One thread fills the txbuff, with buffers that others may have too. *)
TxStep ==
  \/ \E p \in Pools : pktmbuf_alloc(First, p)
  \/ \E b \in Bufs : ShareBegin(First, b) \/ txbuff_add(First, b)
  \/ \E u \in Threads : pktmbuf_refcnt_update(First, u)
  \/ \E t \in Threads \ {First} : (\E b \in Bufs : FreeBegin(t, b)) \/ pktmbuf_free(t)
  \/ FlushAll \/ txbuff_free

(* One thread and one pool, whose buffers are not shared. *)
DataStep ==
  \E t \in {First}, p \in {PoolOf[1]} :
    \/ pktmbuf_free(t) \/ pktmbuf_alloc(t, p)
    \/ \E b \in Bufs : \/ FreeBegin(t, b) \/ Resize(t, b)
                       \/ pktmbuf_copy(t, b, p) \/ pktmbuf_clone(t, b, p)

Next ==
  /\ \/ focus = "counts" /\ CountsStep /\ UNCHANGED <<frame, parsed>>
     \/ focus = "tx" /\ TxStep /\ UNCHANGED <<frame, parsed>>
     \/ focus = "data" /\ DataStep /\ UNCHANGED <<frame, parsed>>
     \/ focus = "ptype" /\ ParseStep
  /\ UNCHANGED focus

-----------------------------------------------------------------------------
Pending(b) ==
  MapThenSumSet(LAMBDA t : IF pc[t].call = "bulk" THEN Cardinality({i \in DOMAIN pc[t].pend : pc[t].pend[i] = b}) ELSE 0,
                Threads)
Held(b) == Pending(b) + MapThenSumSet(LAMBDA p : freed[p][b], Pools)

(* However the calls of the threads interleave, a buffer that someone has  *)
(* a reference to has as many as its count says and is in no pool; one     *)
(* that no one has is held once, by the pool it was made in, with its      *)
(* count at 1 for the next alloc, whether it was freed alone, in bulk or   *)
(* by the callback of a txbuff.  There are two exceptions: releases that   *)
(* cross may leave a buffer to no one, with its count at 0, and a bulk     *)
(* whose first buffer stays shared may give buffers to the first one's     *)
(* pool.                                                                   *)
CountsRight ==
  \A b \in Bufs :
    /\ Total(b) > 0 => mb[b].refcnt = Total(b) /\ Held(b) = 0
    /\ Total(b) = 0 => \/ mb[b].refcnt = 1 /\ Held(b) = 1
                       \/ mb[b].refcnt = 0 /\ Held(b) = 0 /\ b \in hist.crossed
    /\ \A p \in Pools : freed[p][b] > 0 => PoolOf[b] = p \/ b \in hist.stray

(* "It decreases the reference counter, and if it reaches 0 it is freed"   *)
(* (pktmbuf_refcnt_free, pktmbuf.h): a buffer that no one refers to is in  *)
(* a pool, or on its way there.                                            *)
LastFrees == \A b \in Bufs : Total(b) = 0 => Held(b) = 1

(* The data of a buffer stays inside its memory whatever was prepended,    *)
(* cut, appended, written or copied, and only a clone has its data in the  *)
(* memory of another buffer.                                               *)
DataInside ==
  \A b \in Bufs : /\ mb[b].off + mb[b].data <= mb[b].len
                  /\ mb[b].addr = b \/ b \in clones

(* Where the headers of a well-formed frame belong.  l(i) is the layer of  *)
(* header i: a tunnel header ends the outer ones.                          *)
ProtocolLayer(k) ==
  CASE k \in {"eth", "vlan", "qinq"} -> "l2"
    [] k \in {"ip4", "ip6"} \cup Exts -> "l3"
    [] k \in {"udp", "gtpu", "gtpc", "tcp", "sctp"} -> "l4"
    [] OTHER -> k

IsTunnel(f, i) ==
  \/ Kind(f, i) = "gre"
  \/ Kind(f, i) \in {"ip4", "ip6"} /\ \E j \in 1..(i - 1) : ProtocolLayer(Kind(f, j)) = "l3"

Inner(f, i) == \E j \in 1..i : IsTunnel(f, j) /\ (j < i \/ Kind(f, j) # "gre")

LayerOf(f, i) ==
  IF Kind(f, i) = "gre" THEN "tunnel"
  ELSE IF Inner(f, i) THEN "inner_" \o ProtocolLayer(Kind(f, i)) ELSE ProtocolLayer(Kind(f, i))

(* The headers up to a fragment, and without what UDP carries. *)
Ends(f, i) == f[i].more \/ Kind(f, i) \in {"frag", "arp", "mpls"}
Visible(f) == {i \in DOMAIN f : \A j \in 1..(i - 1) : ~ Ends(f, j) /\ ProtocolLayer(Kind(f, j)) # "l4"}

(* An IPv6 header with more extension headers than skip_ip6_ext follows. *)
TooLong(f) ==
  \E i \in Visible(f) : \A j \in 0..(MaxExtHdrs - 1) : Kind(f, i + j) \in Exts \ {"frag"}

LensOf(f) ==
  [l \in Layers |-> FoldLeft(LAMBDA a, i : IF i \in Visible(f) /\ LayerOf(f, i) = l THEN a + f[i].len ELSE a,
                             0, [i \in DOMAIN f |-> i])]

(* However tags, options, extension headers and tunnels are stacked, the   *)
(* lengths that cne_get_ptype reports add up to the headers of each layer, *)
(* so that a node that moves the data offset by them lands on a header.    *)
(* (With too many extension headers the rest of the frame is not parsed.)  *)
(* The type names the layers whose lengths are there.                      *)
PtypeRight ==
  parsed # Unparsed =>
    /\ TooLong(frame) \/ parsed.lens = LensOf(frame)
    /\ \A l \in {"l3", "inner_l3"} :
         parsed.lens[l] > 0 <=> \E v \in {"_ipv4", "_ipv4_ext", "_ipv6", "_ipv6_ext"} : (l \o v) \in parsed.type
    /\ \A l \in {"l4", "inner_l4"} :
         parsed.lens[l] > 0 <=> \E v \in {"_udp", "_tcp", "_sctp"} : (l \o v) \in parsed.type

BuffersRight == CountsRight /\ DataInside /\ PtypeRight
=============================================================================
