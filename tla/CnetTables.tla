----------------------------- MODULE CnetTables -----------------------------
(***************************************************************************)
(* The tables of cnet that mirror the kernel's: interfaces and their       *)
(* addresses (lib/cnet/netif), the ARP table (lib/cnet/arp) and the IPv4   *)
(* routes (lib/cnet/route), each of the last two an index table            *)
(* (cnet_fib_info.h) behind a FIB, kept up to date by the handlers of the  *)
(* netlink thread (lib/cnet/netlink); and the start of the stack instances *)
(* (lib/cnet/stk, lib/cnet/reg).                                           *)
(*                                                                         *)
(* The FIBs are maps from prefixes to next hops that answer with the       *)
(* longest match: module Fib is about how they do it.  A prefix is         *)
(* <<network, length>>, an address has Width bits.  The kernel is the      *)
(* environment: it changes its tables and queues a message for each        *)
(* change, and the handlers work the queue off.                            *)
(***************************************************************************)
EXTENDS Integers, Sequences, FiniteSets, SequencesExt, FiniteSetsExt, Functions, TLC

CONSTANTS Width,       \* the bits of an address
          Ifs,         \* interfaces both sides know
          Locals,      \* the addresses an interface may be given
          Nets,        \* the prefixes the kernel may route
          Neighbours,  \* the addresses of neighbours
          Macs,        \* hardware addresses; 0 stands for an unresolved one
          NumAddrs,    \* NUM_IP_ADDRS
          NumRules,    \* the slots of the route table
          NumArps,     \* the slots of the ARP table
          MaxPending,  \* bound: messages in the netlink socket
          MaxMsgs,     \* bound: changes after the start
          Stks,        \* the threads that start a stack instance
          Inits,       \* the registered instances, in the order their constructors ran: priorities
          Modes        \* which half a behaviour is about: "tables", "stacks"

VARIABLES cnmode, net, stks

cnvars == <<cnmode, net, stks>>

None == 0
Ip4(p, ip) == LET w == 2 ^ (Width - p[2]) IN ip \div w = p[1] \div w
Host(ip) == <<ip, Width>>
Without(f, x) == Restrict(f, DOMAIN f \ {x})
With(f, x, v) == [y \in DOMAIN f \cup {x} |-> IF y = x THEN v ELSE f[y]]
Nothing == [x \in {} |-> 0]
Null == [if |-> 0]

-----------------------------------------------------------------------------
(* fib_info: objects behind the indexes a FIB stores.  A table has the FIB, *)
(* the objects, the index last given out, the objects left in its pool, and *)
(* whether an object was ever refused.                                      *)

fib_info_create(n) == [fib |-> Nothing, obj |-> [i \in 0 .. n - 1 |-> Null], index |-> 0, pool |-> n, full |-> FALSE]

(* The search starts at the last index and never takes the slot before it. *)
fib_info_alloc(t) ==
  LET n    == Cardinality(DOMAIN t.obj)
      free == {d \in 0 .. n - 2 : t.obj[(t.index + d) % n] = Null}
  IN  IF free = {} THEN -1 ELSE (t.index + Min(free)) % n

(* the longest prefix of the FIB that covers an address; -1: none *)
fib_info_lookup_index(t, ip) ==
  LET hit == {p \in DOMAIN t.fib : Ip4(p, ip)}
  IN  IF hit = {} THEN -1 ELSE t.fib[CHOOSE p \in hit : \A q \in hit : q[2] <= p[2]]

(* the default next hop lies beyond the table *)
fib_info_object_get(t, i) == IF i \in DOMAIN t.obj THEN t.obj[i] ELSE Null
fib_info_lookup(t, ip) == fib_info_object_get(t, fib_info_lookup_index(t, ip))

fib_info_free(t, i) == IF i \in DOMAIN t.obj THEN [t EXCEPT !.obj[i] = Null] ELSE t

-----------------------------------------------------------------------------
(* ARP *)

cnet_arp_add(t, if, ip, mac) ==
  LET i == fib_info_alloc(t)
  IN  CASE fib_info_lookup(t, ip) # Null -> [t EXCEPT !.obj[fib_info_lookup_index(t, ip)].mac = mac]
        [] fib_info_lookup(t, ip) = Null /\ (t.pool = 0 \/ i < 0) -> [t EXCEPT !.full = TRUE]
        [] OTHER -> [t EXCEPT !.obj[i] = [ip |-> ip, if |-> if, mac |-> mac], !.index = i, !.pool = @ - 1,
                              !.fib = With(@, Host(ip), i)]

cnet_arp_delete(t, ip) ==
  LET i == fib_info_lookup_index(t, ip)
  IN  IF fib_info_object_get(t, i) = Null THEN t
      ELSE [fib_info_free(t, i) EXCEPT !.fib = Without(@, Host(t.obj[i].ip)), !.pool = @ + 1]

-----------------------------------------------------------------------------
(* Routes: without a slot the FIB refuses the index, and the object is not given back.  The     *)
(* depth of the default route is what the count of trailing zeros makes of 0: 32 - 32.          *)

cnet_route4_insert(t, if, p) ==
  LET i == fib_info_alloc(t)
  IN  CASE t.pool = 0           -> [t EXCEPT !.full = TRUE]
        [] t.pool > 0 /\ i < 0  -> [t EXCEPT !.full = TRUE, !.pool = @ - 1]
        [] OTHER -> [t EXCEPT !.obj[i] = [net |-> p, if |-> if], !.index = i, !.pool = @ - 1, !.fib = With(@, p, i)]

(* Fault: the entry stays in the FIB. *)
DeleteSlotOnly(t, ip) ==
  LET i == fib_info_lookup_index(t, ip) IN [fib_info_free(t, i) EXCEPT !.pool = @ + 1]

(* The route that the address itself takes is deleted, whatever its length; without one the     *)
(* code follows a null pointer: pool -1 is the end of the process.                              *)
cnet_route4_delete(t, ip) ==
  LET i == fib_info_lookup_index(t, ip)
  IN  IF fib_info_object_get(t, i) = Null THEN [t EXCEPT !.pool = -1]
      ELSE [fib_info_free(t, i) EXCEPT !.fib = Without(@, t.obj[i].net), !.pool = @ + 1]

-----------------------------------------------------------------------------
(* Interfaces *)

cnet_netif_alloc == [known |-> FALSE, up |-> FALSE, started |-> FALSE, failed |-> FALSE, addrs |-> [i \in 1 .. NumAddrs |-> None]]

cnet_ipv4_ipaddr_find(nif, ip) == {i \in 1 .. NumAddrs : nif.addrs[i] = ip}

cnet_ipv4_ipaddr_add(nif, ip) ==
  LET free == cnet_ipv4_ipaddr_find(nif, None)
  IN  IF cnet_ipv4_ipaddr_find(nif, ip) # {} \/ free = {} THEN nif ELSE [nif EXCEPT !.addrs[Min(free)] = ip]

cnet_ipv4_ipaddr_delete(nif, ip) == [nif EXCEPT !.addrs = [i \in 1 .. NumAddrs |-> IF @[i] = ip THEN None ELSE @[i]]]

(* cnet_netif_set_flags: a port starts and stops with the flag; ok: whether the driver's start works *)
cnet_netif_set_flags(nif, up, ok) ==
  [nif EXCEPT !.up = up, !.started = up /\ (nif.started \/ (~nif.up /\ ok)), !.failed = up /\ (nif.failed \/ (~nif.up /\ ~ok))]

-----------------------------------------------------------------------------
(* The netlink handlers *)

__nl_link(s, m, ok) == [s EXCEPT !.ifs[m.if] = cnet_netif_set_flags([@ EXCEPT !.known = TRUE], m.up, ok)]

(* History: the route the address takes is not the one to delete. *)
Stray(t, p) == p \notin DOMAIN t.fib \/ \E q \in DOMAIN t.fib : Ip4(q, p[1]) /\ q[2] > p[2]

__nl_addr(s, m) ==
  IF ~s.ifs[m.if].known THEN s
  ELSE CASE m.act = "NEW" -> [s EXCEPT !.ifs[m.if] = cnet_ipv4_ipaddr_add(@, m.ip), !.arp = cnet_arp_add(@, m.if, m.ip, m.mac),
                                       !.rt = cnet_route4_insert(@, m.if, Host(m.ip))]
         [] m.act = "DEL" -> [s EXCEPT !.ifs[m.if] = cnet_ipv4_ipaddr_delete(@, m.ip), !.arp = cnet_arp_delete(@, m.ip),
                                       !.rt = cnet_route4_delete(@, m.ip), !.stray = @ \/ Stray(s.rt, Host(m.ip))]

__nl_route(s, m) ==
  IF ~s.ifs[m.if].known THEN s
  ELSE IF m.act = "NEW" THEN [s EXCEPT !.rt = cnet_route4_insert(@, m.if, m.net)]
  ELSE [s EXCEPT !.rt = cnet_route4_delete(@, m.net[1]), !.stray = @ \/ Stray(s.rt, m.net)]

__nl_neigh(s, m) ==
  IF ~s.ifs[m.if].known THEN s
  ELSE IF m.act = "DEL" THEN [s EXCEPT !.arp = cnet_arp_delete(@, m.ip)]
  ELSE [s EXCEPT !.arp = cnet_arp_add(@, m.if, m.ip, m.mac)]

netlink_callback(s, m, ok) ==
  CASE m.of = "link"  -> __nl_link(s, m, ok)
    [] m.of = "addr"  -> __nl_addr(s, m)
    [] m.of = "route" -> __nl_route(s, m)
    [] m.of = "neigh" -> __nl_neigh(s, m)

-----------------------------------------------------------------------------
(* The kernel: which interfaces are up, and maps from addresses, prefixes and neighbours to what they have *)

MacOf(if) == 10 + if
LinkMsg(if, up) == [of |-> "link", if |-> if, up |-> up]
AddrMsg(act, ip, if) == [of |-> "addr", act |-> act, if |-> if, ip |-> ip, mac |-> MacOf(if)]
RouteMsg(act, p, if) == [of |-> "route", act |-> act, if |-> if, net |-> p]
NeighMsg(act, ip, n) == [of |-> "neigh", act |-> act, if |-> n[1], ip |-> ip, mac |-> n[2]]

(* what a dump of the kernel's tables says, in the order cnet_netlink_create asks *)
Dump(k) ==
  SetToSeq({LinkMsg(i, i \in k.up) : i \in Ifs}) \o SetToSeq({AddrMsg("NEW", a, k.addr[a]) : a \in DOMAIN k.addr})
  \o SetToSeq({RouteMsg("NEW", p, k.route[p]) : p \in DOMAIN k.route})
  \o SetToSeq({NeighMsg("NEW", a, k.neigh[a]) : a \in DOMAIN k.neigh})

(* the kernel's table [of] gets or loses an entry *)
Changes(k) ==
  {<<[k EXCEPT !.up = @ \cup {i}], LinkMsg(i, TRUE)>> : i \in Ifs \ k.up}
  \cup {<<[k EXCEPT !.up = @ \ {i}], LinkMsg(i, FALSE)>> : i \in k.up}
  \cup {<<[k EXCEPT !.addr = With(@, x[1], x[2])], AddrMsg("NEW", x[1], x[2])>> : x \in (Locals \ DOMAIN k.addr) \X Ifs}
  \cup {<<[k EXCEPT !.addr = Without(@, a)], AddrMsg("DEL", a, k.addr[a])>> : a \in DOMAIN k.addr}
  \cup {<<[k EXCEPT !.route = With(@, x[1], x[2])], RouteMsg("NEW", x[1], x[2])>> : x \in (Nets \ DOMAIN k.route) \X Ifs}
  \cup {<<[k EXCEPT !.route = Without(@, p)], RouteMsg("DEL", p, k.route[p])>> : p \in DOMAIN k.route}
  \cup {<<[k EXCEPT !.neigh = With(@, a, <<1, m>>)], NeighMsg(IF a \in DOMAIN k.neigh THEN "CHANGE" ELSE "NEW", a, <<1, m>>)>>
          : a \in Neighbours, m \in Macs \cup {0}}
  \cup {<<[k EXCEPT !.neigh = Without(@, a)], NeighMsg("DEL", a, k.neigh[a])>> : a \in DOMAIN k.neigh}

(* before cnet starts the kernel has an address, and no routes and neighbours or all of them *)
InitTables == \E all \in BOOLEAN :
  net = [k |-> [up |-> {1}, addr |-> [a \in {Min(Locals)} |-> 1],
                route |-> IF all THEN [p \in Nets |-> 1] ELSE Nothing,
                neigh |-> IF all THEN [a \in Neighbours |-> <<1, Min(Macs)>>] ELSE Nothing],
         q |-> <<>>, on |-> FALSE, msgs |-> 0, stray |-> FALSE, ifs |-> [i \in Ifs |-> cnet_netif_alloc],
         arp |-> fib_info_create(NumArps), rt |-> fib_info_create(NumRules)]

Kernel == \E c \in Changes(net.k) :
            /\ Len(net.q) < MaxPending /\ net.msgs < MaxMsgs /\ c[1] # net.k
            /\ net' = [net EXCEPT !.k = c[1], !.q = Append(@, c[2]), !.msgs = @ + 1]

(* cnet_netlink_create: the caches were filled when the manager was set up, later changes wait *)
cnet_netlink_create ==
  /\ ~net.on /\ net.q = <<>>
  /\ \E ok \in BOOLEAN :
       net' = [FoldLeft(LAMBDA s, m : netlink_callback(s, m, ok), net, Dump(net.k)) EXCEPT !.on = TRUE]

netlink_thread == /\ net.on /\ net.q # <<>>
                  /\ \E ok \in BOOLEAN : net' = [netlink_callback(net, Head(net.q), ok) EXCEPT !.q = Tail(@)]

-----------------------------------------------------------------------------
(* The start of the stack instances *)

InitStacks == stks = [list |-> Inits, vec |-> <<>>, order |-> 0,
                      pc |-> [t \in Stks |-> "new"], made |-> [t \in Stks |-> <<>>]]

(* _stk_create: the place in the vector is the stack's number *)
_stk_create == \E t \in Stks : /\ stks.pc[t] = "new"
                               /\ stks' = [stks EXCEPT !.vec = Append(@, t), !.pc[t] = "wait"]

Index(t) == SelectInSeq(stks.vec, LAMBDA x : x = t) - 1

(* cnet_stk_initialize waits for its turn; __do_calls sorts the shared list, then creates one by one *)
TakeTurn == \E t \in Stks : /\ stks.pc[t] = "wait" /\ stks.order = Index(t)
                            /\ stks' = [stks EXCEPT !.list = SortSeq(@, <), !.pc[t] = "calls"]

(* one create function, which may fail: then the turn is never passed on *)
__do_calls == \E t \in Stks :
  /\ stks.pc[t] = "calls" /\ Len(stks.made[t]) < Len(stks.list)
  /\ \/ stks' = [stks EXCEPT !.made[t] = Append(@, stks.list[Len(@) + 1])]
     \/ stks' = [stks EXCEPT !.pc[t] = "failed"]

PassTurn == \E t \in Stks : /\ stks.pc[t] = "calls" /\ Len(stks.made[t]) = Len(stks.list)
                            /\ stks' = [stks EXCEPT !.order = @ + 1, !.pc[t] = "up"]

-----------------------------------------------------------------------------
Init == cnmode \in Modes /\ \/ cnmode = "tables" /\ InitTables /\ stks = 0
                            \/ cnmode = "stacks" /\ InitStacks /\ net = 0

Next == \/ cnmode = "tables" /\ net.rt.pool >= 0 /\ (Kernel \/ cnet_netlink_create \/ netlink_thread) /\ UNCHANGED <<cnmode, stks>>
        \/ cnmode = "stacks" /\ (_stk_create \/ TakeTurn \/ __do_calls \/ PassTurn) /\ UNCHANGED <<cnmode, net>>

-----------------------------------------------------------------------------
(* the answer of the kernel's own tables: host routes of its addresses and its routes *)
KernelRoute(k, ip) ==
  LET all == [p \in {Host(a) : a \in DOMAIN k.addr} |-> k.addr[p[1]]] @@ k.route
      hit == {p \in DOMAIN all : Ip4(p, ip)}
  IN  IF hit = {} THEN None ELSE all[CHOOSE p \in hit : \A q \in hit : q[2] <= p[2]]

(* Every entry of a FIB has an object of its own. *)
Linked(t) ==
  /\ {t.fib[p] : p \in DOMAIN t.fib} \subseteq {i \in DOMAIN t.obj : t.obj[i] # Null}
  /\ Cardinality({t.fib[p] : p \in DOMAIN t.fib}) = Cardinality(DOMAIN t.fib)

(* Every object has its entry as well, and pool and slots add up. *)
Sound(t) ==
  /\ Linked(t)
  /\ {i \in DOMAIN t.obj : t.obj[i] # Null} \subseteq {t.fib[p] : p \in DOMAIN t.fib}
  /\ Cardinality(DOMAIN t.fib) + t.pool = Cardinality(DOMAIN t.obj)

(* The routes are no longer the kernel's: the table refused one when it    *)
(* was full, or a deletion took the route of its network address and that  *)
(* was another one, longer than the kernel's (cnet_route4_delete).         *)
RoutesLost == net.rt.full \/ net.stray

(* Once the queue is worked off, cnet answers as the kernel would: every   *)
(* hardware address is the kernel's latest one (an entry may be missing    *)
(* when the ARP table was full), a port runs while its link is up unless   *)
(* its start failed, and every address takes the kernel's route, unless    *)
(* RoutesLost.  At all times an entry of either FIB has an object of its   *)
(* own; the ARP table, and the routes until RoutesLost, leak no object,    *)
(* and only then does a handler delete what is not there.                  *)
Mirrors ==
  /\ Sound(net.arp) /\ Linked(net.rt)
  /\ ~RoutesLost => Sound(net.rt) /\ net.rt.pool >= 0
  /\ net.on /\ net.q = <<>> =>
       /\ ~RoutesLost => \A ip \in 0 .. 2 ^ Width - 1 :
            LET r == fib_info_lookup(net.rt, ip) IN IF r = Null THEN KernelRoute(net.k, ip) = None ELSE r.if = KernelRoute(net.k, ip)
       /\ \A ip \in 0 .. 2 ^ Width - 1 :
            LET e == fib_info_lookup(net.arp, ip)
            IN  IF e = Null THEN ip \notin DOMAIN net.k.addr \cup DOMAIN net.k.neigh \/ net.arp.full
                ELSE e.mac = IF ip \in DOMAIN net.k.addr THEN MacOf(net.k.addr[ip]) ELSE net.k.neigh[ip][2]
       /\ \A i \in Ifs : /\ net.ifs[i].up = (i \in net.k.up)
                         /\ net.ifs[i].started => net.ifs[i].up
                         /\ net.ifs[i].up => net.ifs[i].started # net.ifs[i].failed

(* One stack at a time creates its instances, in the order of their        *)
(* priorities, each after the stacks before it are up (stk_order).         *)
InOrder ==
  /\ Cardinality({t \in Stks : stks.pc[t] = "calls"}) <= 1
  /\ \A t \in Stks : \A i, j \in DOMAIN stks.made[t] : i < j => stks.made[t][i] <= stks.made[t][j]
  /\ \A t \in Stks : stks.made[t] # <<>> => \A i \in 1 .. Index(t) : stks.pc[stks.vec[i]] = "up"

(* The tables mirror the kernel's and the stacks start in order. *)
TablesRight == (cnmode = "tables" => Mirrors) /\ (cnmode = "stacks" => InOrder)
=============================================================================
