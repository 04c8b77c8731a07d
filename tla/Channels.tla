------------------------------ MODULE Channels ------------------------------
(***************************************************************************)
(* The channel layer of cnet (lib/cnet/chnl), its protocol control blocks  *)
(* (lib/cnet/pcb) and the UDP protocol behind it (lib/cnet/udp): channels  *)
(* are opened, bound, connected, configured, read and shut down by the     *)
(* application, while bursts of datagrams arrive from the graph and call   *)
(* the application back.  The stack lock makes each of these atomic, and   *)
(* the callback runs inside the burst that raised it.                      *)
(*                                                                         *)
(* An address is a number, 0 is INADDR_ANY; ports count modulo Ports.      *)
(* hd->vec is kept as the first occurrences of its entries: a PCB that is  *)
(* freed stays in it and is added again when it is reused, and a lookup    *)
(* cannot tell a second occurrence from the first.                         *)
(***************************************************************************)
EXTENDS Integers, Sequences, FiniteSets, SequencesExt, FiniteSetsExt

CONSTANTS Chnls,      \* the objects of stk->chnl_objs
          Pcbs,       \* the objects of stk->pcb_objs
          NumCds,     \* the identifiers of the descriptor pool
          Ports,      \* the number of port numbers (2^16)
          Reserved,   \* _IPPORT_RESERVED
          NetifOf,    \* the interface of each address's subnet, 0: none
          Names,      \* the <<address, port>> pairs the application names
          Uses,       \* how the application makes its channels: "open" by chnl_open, "calls" step by step
          Dgrams,     \* the datagrams that arrive
          MaxBurst,   \* the datagrams of one burst
          MaxQueue    \* bound: datagrams waiting in a channel

VARIABLE chan

None == 0
Zero == <<0, 0>>
FreeChnl == [st |-> "free", cant |-> {}, cd |-> -1, pcb |-> None, opts |-> {}, rcv |-> <<>>, cc |-> 0]
FreePcb == [closed |-> TRUE, l |-> Zero, f |-> Zero, netif |-> 0, ch |-> None]

Init == \E u \in Uses :
        chan = [use |-> u, known |-> {}, ch |-> [c \in Chnls |-> FreeChnl], pcb |-> [p \in Pcbs |-> FreePcb],
                inUse |-> {}, vec |-> <<>>, port |-> Reserved, desc |-> [d \in 0 .. NumCds - 1 |-> None],
                missed |-> FALSE, crash |-> ""]

Ret(s, r) == [s |-> s, r |-> r]

(* ch_get: the channel of a descriptor *)
ch_get(s, cd) == IF cd \in DOMAIN s.desc THEN s.desc[cd] ELSE None

-----------------------------------------------------------------------------
(* Control blocks *)

cnet_pcb_alloc(s, p, c) ==
  [s EXCEPT !.pcb[p] = [FreePcb EXCEPT !.closed = FALSE, !.ch = c], !.ch[c].pcb = p,
            !.vec = IF p \in ToSet(s.vec) THEN s.vec ELSE Append(s.vec, p)]

(* cnet_pcb_free zeroes the block: it stays in the vector, without key or channel *)
cnet_pcb_delete(s, p) == IF p \in ToSet(s.vec) THEN [s EXCEPT !.pcb[p] = FreePcb] ELSE s

(* how many of the two addresses match only by a wildcard; 3: no match *)
Wildcards(e, l, f) ==
  IF \/ e.l[2] # l[2]
     \/ e.l[1] # 0 /\ l[1] # 0 /\ e.l[1] # l[1]
     \/ e.f[1] # 0 /\ f[1] # 0 /\ e.f # f
  THEN 3
  ELSE (IF (e.l[1] = 0) # (l[1] = 0) THEN 1 ELSE 0) + (IF (e.f[1] = 0) # (f[1] = 0) THEN 1 ELSE 0)

(* Fault: the search takes the first match instead of the best one. *)
FirstMatch(s, l, f, exact) ==
  LET hits == {i \in DOMAIN s.vec : Wildcards(s.pcb[s.vec[i]], l, f) < IF exact THEN 1 ELSE 3}
  IN  IF hits = {} THEN None ELSE s.vec[Min(hits)]

pcb_v4_lookup(s, l, f, exact) ==
  LET W(i) == Wildcards(s.pcb[s.vec[i]], l, f)
      hits == {i \in DOMAIN s.vec : W(i) < IF exact THEN 1 ELSE 3}
  IN  IF hits = {} THEN None
      ELSE s.vec[CHOOSE i \in hits : \A j \in hits : W(i) < W(j) \/ (W(i) = W(j) /\ i <= j)]

-----------------------------------------------------------------------------
(* Opening and closing *)

(* free_chnl: descriptor and object go back to their pools *)
free_chnl(s, c) ==
  [s EXCEPT !.ch[c] = FreeChnl, !.inUse = @ \ {c}, !.known = @ \ {s.ch[c].cd},
            !.desc = IF s.ch[c].cd >= 0 THEN [@ EXCEPT ![s.ch[c].cd] = None] ELSE @]

(* chnl_cleanup: what waits is flushed, the control block is deleted *)
chnl_cleanup(s, c) == free_chnl(cnet_pcb_delete([s EXCEPT !.ch[c].pcb = None], s.ch[c].pcb), c)

(* alloc_chnl with alloc_cd: an object, then a descriptor; without the second the first goes back *)
alloc_chnl(s, c) ==
  LET got  == [s EXCEPT !.inUse = @ \cup {c}]
      free == {d \in DOMAIN s.desc : s.desc[d] = None}
  IN  IF free = {} THEN Ret(free_chnl(got, c), -1)
      ELSE Ret([got EXCEPT !.ch[c] = [FreeChnl EXCEPT !.cd = Min(free), !.st = "none"], !.desc[Min(free)] = c], Min(free))

(* __chnl_create: without a control block the channel is cleaned up again *)
__chnl_create(s, c) ==
  LET a    == alloc_chnl(s, c)
      free == {p \in Pcbs : s.pcb[p].closed}
  IN  CASE a.r < 0    -> a
        [] free = {}  -> Ret(chnl_cleanup(a.s, c), -1)
        [] OTHER      -> Ret(cnet_pcb_alloc(a.s, Min(free), c), a.r)

(* channel: the pools hand out their objects in some order, here the lowest first *)
NewChnl == Min(Chnls \ chan.inUse)

channel == /\ chan.use = "calls" /\ chan.inUse # Chnls
           /\ LET r == __chnl_create(chan, NewChnl)
              IN  chan' = [r.s EXCEPT !.known = IF r.r >= 0 THEN @ \cup {r.r} ELSE @]

(* chnl_shutdown: the channel is cleaned up once it can neither send nor receive *)
ShutDown(s, c, how) ==
  LET cant == s.ch[c].cant \cup how
  IN  IF cant = {"snd", "rcv"} THEN chnl_cleanup(s, c) ELSE [s EXCEPT !.ch[c].cant = cant]

chnl_shutdown == \E d \in chan.known, how \in IF chan.use = "open" THEN {{"rcv"}, {"snd"}} ELSE {{"snd", "rcv"}} :
                   chan' = ShutDown(chan, ch_get(chan, d), how)

-----------------------------------------------------------------------------
(* Binding and connecting *)

(* the ephemeral port after p *)
NextPort(p) == IF (p + 1) % Ports < Reserved THEN Reserved ELSE (p + 1) % Ports

(* the search for a free ephemeral port: None when it is back where it began *)
RECURSIVE Ephemeral(_, _, _)
Ephemeral(s, a, p) ==
  LET q == NextPort(p)
  IN  IF q = s.port THEN None
      ELSE IF pcb_v4_lookup(s, <<a, q>>, Zero, FALSE) = None THEN q
      ELSE Ephemeral(s, a, q)

(* may channel c take this address and port next to the ones that hold it? *)
InUse(s, c, l) ==
  LET exact == pcb_v4_lookup(s, l, Zero, TRUE)
  IN  IF "REUSEPORT" \in s.ch[c].opts
      THEN exact # None /\ "REUSEPORT" \notin s.ch[s.pcb[exact].ch].opts
      ELSE IF "REUSEADDR" \in s.ch[c].opts THEN exact # None
      ELSE pcb_v4_lookup(s, l, Zero, FALSE) # None

chnl_bind_common(s, c, l) ==
  LET p  == s.ch[c].pcb
      s1 == IF l[1] # 0 THEN [s EXCEPT !.pcb[p].netif = NetifOf[l[1]]] ELSE s
      e  == Ephemeral(s1, l[1], s1.port)
      Take(t, k) == Ret([t EXCEPT !.pcb[p].l = k], 0)
  IN  CASE l[1] # 0 /\ NetifOf[l[1]] = 0 -> Ret(s, -1)
        [] l[2] = 0 /\ e = None          -> Ret(s1, -1)
        [] l[2] = 0 /\ e # None          -> Take([s1 EXCEPT !.port = e], <<l[1], e>>)
        [] OTHER -> IF InUse(s1, c, l) THEN Ret(s1, -1) ELSE Take(s1, l)

udp_chnl_bind(s, c, l) ==
  LET b == chnl_bind_common(s, c, l)
  IN  IF b.r = 0 THEN Ret([b.s EXCEPT !.ch[c].st = "connected"], 0) ELSE b

chnl_bind == chan.use = "calls" /\ \E d \in chan.known, l \in Names : chan' = udp_chnl_bind(chan, ch_get(chan, d), l).s

(* chnl_connect refuses descriptor 0; an unbound channel is bound to its peer's port first *)
Connect(s, cd, f) ==
  LET c == ch_get(s, cd)
      p == s.ch[c].pcb
      b == IF s.pcb[p].l[2] = 0 THEN udp_chnl_bind(s, c, <<0, f[2]>>) ELSE Ret(s, 0)
  IN  CASE cd = 0 \/ f[1] = 0 -> Ret(s, -1)
        [] OTHER -> IF b.r # 0 THEN Ret(b.s, -1)
                    ELSE Ret([b.s EXCEPT !.pcb[p].f = f, !.pcb[p].netif = NetifOf[f[1]],
                                         !.ch[c].st = "connected"], 0)

chnl_connect == \E d \in chan.known, f \in Names : chan' = Connect(chan, d, f).s

-----------------------------------------------------------------------------
(* Options *)

(* chnl_set_opt: the reuse options, set before the channel is bound: a later change binds nobody *)
SetOpt(s, c, o) == [s EXCEPT !.ch[c].opts = @ \cup {o}]

chnl_set_opt == /\ chan.use = "calls"
                /\ \E d \in chan.known, o \in {"REUSEADDR", "REUSEPORT"} :
                     LET c == ch_get(chan, d)
                     IN  /\ chan.pcb[chan.ch[c].pcb].l[2] = 0
                         /\ chan' = SetOpt(chan, c, o)

(* create_chnl: a channel with SO_REUSEADDR, bound or connected; when that fails the channel    *)
(* stays behind with a descriptor the caller never learns                                       *)
Opened(b, cd) == Ret(b.s, IF b.r # 0 THEN -1 ELSE cd)

SetUp(r, c, kind, name) ==
  LET t == SetOpt(r.s, c, "REUSEADDR")
  IN  IF r.r < 0 THEN r
      ELSE Opened(IF kind = "listen" THEN udp_chnl_bind(t, c, name) ELSE Connect(t, r.r, name), r.r)

create_chnl(s, c, kind, name) == SetUp(__chnl_create(s, c), c, kind, name)

chnl_open == /\ chan.use = "open" /\ chan.inUse # Chnls
             /\ \E kind \in {"listen", "connect"}, name \in Names :
                  \E r \in {create_chnl(chan, NewChnl, kind, name)} :
                     chan' = [r.s EXCEPT !.known = IF r.r >= 0 THEN @ \cup {r.r} ELSE @]

-----------------------------------------------------------------------------
(* Receiving *)

BytesOf(q) == FoldLeft(LAMBDA n, g : n + g.len, 0, q)

(* udp_chnl_recv: up to n datagrams from the front *)
Take(s, c, n) ==
  LET k == Min({n, Len(s.ch[c].rcv)})
      rest == SubSeq(s.ch[c].rcv, k + 1, Len(s.ch[c].rcv))
  IN  [s EXCEPT !.ch[c].rcv = rest, !.ch[c].cc = @ - BytesOf(SubSeq(s.ch[c].rcv, 1, k))]

chnl_recv == \E d \in chan.known, n \in 1 .. MaxQueue :
               /\ chan.ch[ch_get(chan, d)].st = "connected"
               /\ chan' = Take(chan, ch_get(chan, d), n)

(* The application is called back about a channel: it may read it, close it, or close another.  *)
(* crash is the kind of callback in use when a channel is needed and the block has none.        *)
Crash(s, what) == [s EXCEPT !.crash = what.k]

__callback(s, p, what) ==
  LET c == s.pcb[p].ch
      o == ch_get(s, what.d)
  IN  CASE c = None -> Crash(s, what)
        [] c # None /\ what.k = "read" /\ s.ch[c].st = "connected" -> Take(s, c, MaxQueue)
        [] c # None /\ what.k = "close" -> chnl_cleanup(s, c)
        [] c # None /\ what.k = "other" /\ o # None -> chnl_cleanup(s, o)
        [] OTHER -> s

udp_input_lookup(s, g) == pcb_v4_lookup(s, g.dst, g.src, FALSE)

(* chnl_callback_node_process: the datagrams of a burst with the block each was given; the     *)
(* application is called back when the block changes and once at the end.                      *)
chnl_callback_node_process(s, burst, owner, what) ==
  LET One(a, i) ==
        LET p == owner[i]
            t == IF a.prev \in {None, p} THEN a.s ELSE __callback(a.s, a.prev, what)
            c == t.pcb[p].ch
        IN  CASE a.s.crash # "" \/ p = None -> a
              [] a.s.crash = "" /\ p # None /\ a.s.pcb[p].ch = None -> a
              [] OTHER -> [s |-> IF c = None THEN Crash(t, what)
                                 ELSE [t EXCEPT !.ch[c].rcv = Append(@, burst[i]), !.ch[c].cc = @ + burst[i].len],
                           prev |-> p]
      all == FoldLeft(One, [s |-> s, prev |-> None], [i \in DOMAIN burst |-> i])
  IN  IF all.s.crash # "" \/ all.prev = None THEN all.s ELSE __callback(all.s, all.prev, what)

(* Does the block name everything the datagram says, and no open block more of it? *)
Fits(e, g) == /\ ~e.closed /\ e.l[2] = g.dst[2]
              /\ e.l[1] \in {0, g.dst[1]}
              /\ e.f[1] # 0 => e.f = g.src
Specific(e) == Cardinality({i \in {"l", "f"} : e[i][1] # 0})
Best(s, p, g) == IF p = None THEN \A q \in Pcbs : ~Fits(s.pcb[q], g)
                 ELSE /\ Fits(s.pcb[p], g)
                      /\ \A q \in Pcbs : Fits(s.pcb[q], g) => Specific(s.pcb[q]) <= Specific(s.pcb[p])

(* missed is history: a datagram was dropped though an open block names it *)
Burst == \E n \in 1 .. MaxBurst : \E burst \in [1 .. n -> Dgrams],
                                    what \in {[k |-> x, d |-> -1] : x \in {"nothing", "read", "close"}} \cup {[k |-> "other", d |-> d] : d \in chan.known} :
           LET owner == [i \in 1 .. n |-> udp_input_lookup(chan, burst[i])]
           IN  /\ chan.use = "open"
               /\ \A c \in Chnls : Len(chan.ch[c].rcv) + n <= MaxQueue
               /\ LET given == [i \in 1 .. n |-> [len |-> burst[i].len, best |-> Best(chan, owner[i], burst[i])]]
                      s == chnl_callback_node_process(chan, given, owner, what)
                  IN  chan' = [s EXCEPT !.missed = \E i \in 1 .. n : owner[i] = None /\ ~given[i].best]

Calls == channel \/ chnl_open \/ chnl_shutdown \/ chnl_bind \/ chnl_connect \/ chnl_set_opt \/ chnl_recv \/ Burst

Next == chan.crash = "" /\ Calls

-----------------------------------------------------------------------------
Live == {c \in Chnls : chan.ch[c].st # "free"}

(* Descriptors, channels and control blocks stay in step: every live       *)
(* channel has one descriptor and one block that name it, and no other     *)
(* descriptor, block or pool object is in use (free_chnl, cnet_pcb_delete  *)
(* and the error paths of __chnl_create).                                  *)
InStep ==
  /\ chan.inUse = Live
  /\ \A c \in Live : chan.desc[chan.ch[c].cd] = c /\ chan.pcb[chan.ch[c].pcb].ch = c /\ chan.ch[c].pcb \in ToSet(chan.vec)
  /\ \A d \in DOMAIN chan.desc : chan.desc[d] # None => chan.desc[d] \in Live /\ chan.ch[chan.desc[d]].cd = d
  /\ \A p \in Pcbs : IF chan.pcb[p].closed THEN chan.pcb[p] = FreePcb
                     ELSE chan.pcb[p].ch \in Live /\ chan.ch[chan.pcb[p].ch].pcb = p

(* Two unconnected channels hold the same address and port only if both    *)
(* asked for SO_REUSEPORT (the comments of chnl_bind_common).              *)
Exclusive ==
  \A c, d \in Live :
    LET p == chan.pcb[chan.ch[c].pcb]
        q == chan.pcb[chan.ch[d].pcb]
    IN  c # d /\ p.l = q.l /\ p.l[2] # 0 /\ p.f[1] = 0 /\ q.f[1] = 0
        => "REUSEPORT" \in chan.ch[c].opts \cap chan.ch[d].opts

(* What waits in a channel was sent to it, to its port and address and by  *)
(* its peer if it has one, and no open channel whose name says more of it  *)
(* was passed over (udp_input_lookup, pcb_v4_lookup: BEST_MATCH); a        *)
(* datagram is dropped by the lookup only if no open channel's name fits;  *)
(* the byte count is that of the datagrams that wait.                      *)
Delivered ==
  /\ ~chan.missed
  /\ \A c \in Live : /\ chan.ch[c].cc = BytesOf(chan.ch[c].rcv)
                     /\ \A i \in DOMAIN chan.ch[c].rcv : chan.ch[c].rcv[i].best

(* A burst follows the pointer to a channel that a callback closed under   *)
(* it only when the callback closes another channel than its own: the      *)
(* check at the head of chnl_callback_node_process's loop is before the    *)
(* callback, the use after it.                                             *)
ClosedUnder == chan.crash \in {"", "other"}

(* The channel layer is right. *)
ChannelsRight == InStep /\ Exclusive /\ Delivered /\ ClosedUnder
=============================================================================
