-------------------------------- MODULE Jcfg --------------------------------
(***************************************************************************)
(* The JSON configuration library (lib/usr/app/jcfg): the registry of      *)
(* section decoders, the decoding of a parsed document section by section, *)
(* the resolution of names at its end, the lport groups that spread the    *)
(* queues of network devices over threads, the walk of the result by       *)
(* jcfg_process, its destruction, and the thread that takes a document     *)
(* from a local socket.                                                    *)
(*                                                                         *)
(* The text is abstracted to what json-c hands over: a document is a       *)
(* sequence of sections [sec, items] in document order, an item has its    *)
(* key k and its fields.  An lport's name "eth0:3" is <<"eth0", 3>>.  A    *)
(* pointer is the position of its target in the list that owns it, 0 is    *)
(* NULL.  `live' holds the heap objects as <<list, position>>.             *)
(***************************************************************************)
EXTENDS Integers, Sequences, FiniteSets, SequencesExt

CONSTANTS Docs,       \* the documents
          Channels,   \* what netdev_get_channels answers, by device (< 0: error)
          Nprocs,     \* get_nprocs()
          Kilo,       \* the 1024 by which sizes are given
          U16,        \* 2^16
          MaxRegions, \* UMEM_MAX_REGIONS
          DfltDesc,   \* LPORT_DFLT_RX_NUM_DESCS and LPORT_DFLT_TX_NUM_DESCS
          DfltBufsz,  \* DEFAULT_MBUF_SIZE
          Spellings,  \* section names an application may use
          Fold,       \* the lower-case form of each (strcasecmp)
          Funcs,      \* an application's own decoders
          MaxRegs,    \* bound on its calls of the registry
          MaxTries,   \* bound on the connections of the socket
          JModes      \* the parts explored

VARIABLES jmode, jdoc, jc
jvars == <<jmode, jdoc, jc>>

Common == "lport-group"                   \* LPORT_GROUP_UMEM_NAME
Tags == <<"application", "defaults", "options", "umems", "lports",
          "lcore-groups", "threads", "lport-groups">>
Empty == [s \in Range(Tags) |-> <<>>]

(***************************************************************************)
(* The registry of decoders.                                               *)
(***************************************************************************)
jcfg_get_decoder(head, s) ==
    LET hits == SelectSeq(head, LAMBDA e : Fold[e[1]] = Fold[s])
    IN  IF hits = <<>> THEN "none" ELSE hits[1][2]

jcfg_add_decoder(head, s, f) ==
    IF jcfg_get_decoder(head, s) # "none" THEN head ELSE Append(head, <<s, f>>)

jcfg_del_decoder(head, s) ==
    LET at == {i \in DOMAIN head : Fold[head[i][1]] = Fold[s]}
    IN  IF at = {} THEN head
        ELSE RemoveAt(head, CHOOSE i \in at : \A j \in at : i <= j)

jcfg_initialize == FoldLeft(LAMBDA h, t : jcfg_add_decoder(h, t, t), <<>>, Tags)

(***************************************************************************)
(* Options, defaults and application entries.                              *)
(***************************************************************************)
\* TRUE when the value can be kept: the elements of an array share a type.
__decode_object(it) ==
    \/ it.t \in {"string", "int", "bool", "object"}
    \/ it.t = "array" /\ \A i \in DOMAIN it.v : it.v[i] = it.v[1]

__decoder_val_get(o) == IF o.t \in {"bool", "string", "int"} THEN <<o.v>> ELSE <<>>

jcfg_default_get(d, name) ==
    LET hits == SelectSeq(d["defaults"], LAMBDA o : o.k = name)
    IN  IF hits = <<>> THEN <<>> ELSE __decoder_val_get(hits[1])

\* jcfg_object_lookup(): the position of the first entry of that name, 0 if none.
jcfg_object_lookup(d, sec, name) ==
    LET at == {i \in DOMAIN d[sec] : d[sec][i].k = name}
    IN  IF at = {} THEN 0 ELSE CHOOSE i \in at : \A j \in at : i <= j

\* A decoder's answer: the object it made, and how it went.
Made(o) == [r |-> "ok", o |-> o]
Refuse == [r |-> "error", o |-> 0]
Crash == [r |-> "crash", o |-> 0]

__default_objs(it) == IF __decode_object(it) THEN Made(it) ELSE Refuse
_app_obj(it) == IF __decode_object(it) THEN Made(it) ELSE Refuse
__opt_objs(it) == IF __decode_object(it) THEN Made(it) ELSE Refuse

(***************************************************************************)
(* UMEMs.                                                                  *)
(***************************************************************************)
_umem(u, f) ==
    CASE u.r # "ok" -> u
      [] f[1] = "bufcnt" -> [u EXCEPT !.o.bufcnt = f[2] * Kilo]
      [] f[1] = "bufsz" -> [u EXCEPT !.o.bufsz = f[2] * Kilo]
      [] f[1] = "rxdesc" -> [u EXCEPT !.o.rxdesc = (f[2] * Kilo) % U16]
      [] f[1] = "txdesc" -> [u EXCEPT !.o.txdesc = (f[2] * Kilo) % U16]
      [] f[1] = "regions" -> IF Len(f[2]) > MaxRegions THEN Refuse
                             ELSE [u EXCEPT !.o.rinfo = [i \in DOMAIN f[2] |-> f[2][i] * Kilo]]
      [] OTHER -> u

Dflt(d, name, else) ==
    LET v == jcfg_default_get(d, name) IN IF v = <<>> THEN else ELSE v[1]

\* The defaults known so far, the fields, and the one region of a UMEM that
\* names none: umem->rinfo is not allocated there, and the store crashes.
_umem_obj(d, it) ==
    LET new == [k |-> it.k, idx |-> Len(d["umems"]), rinfo |-> <<>>,
                rxdesc |-> Dflt(d, "rxdesc", 0), txdesc |-> Dflt(d, "txdesc", 0),
                bufcnt |-> Dflt(d, "bufcnt", 0), bufsz |-> Dflt(d, "bufsz", 0)]
        u == FoldLeft(_umem, Made(new), it.f)
    IN  IF u.r = "ok" /\ u.o.rinfo = <<>> THEN Crash ELSE u

(***************************************************************************)
(* Logical ports.                                                          *)
(***************************************************************************)
Short(v) == v \in 0..U16 - 1

_lport(p, f) ==
    CASE p.r # "ok" -> p
      [] f[1] = "umem" -> [p EXCEPT !.o.umem_name = <<f[2]>>]
      [] f[1] = "qid" -> [p EXCEPT !.o.qid = f[2] % U16]
      [] f[1] = "region" -> [p EXCEPT !.o.region = f[2] % U16]
      [] f[1] \in {"busy_timeout", "busy_budget"} ->
            IF Short(f[2]) THEN [p EXCEPT !.o.busy = f[2]] ELSE Refuse
      [] OTHER -> p

_lport_obj(d, it) ==
    FoldLeft(_lport,
             Made([k |-> it.k, netdev |-> it.k[1], lpid |-> Len(d["lports"]), qid |-> 0,
                   region |-> 0, umem_name |-> <<>>, umem |-> 0, busy |-> 0]), it.f)

\* jcfg_lport_region(): the buffers of the lport's region, 0 for no such region.
jcfg_lport_region(d, p) ==
    IF p.umem = 0 \/ p.region >= Len(d["umems"][p.umem].rinfo) THEN 0
    ELSE d["umems"][p.umem].rinfo[p.region + 1]

(***************************************************************************)
(* Groups of lcores.                                                       *)
(***************************************************************************)
validate_cpu(c) == c \in 0..Nprocs - 1
validate_cpu_range(s, l) == validate_cpu(s) /\ validate_cpu(l)

_lgroup(g, e) ==
    CASE g.r # "ok" -> g
      [] e.t = "int" \/ e.t = "num" ->
            IF validate_cpu(e.lo) THEN [g EXCEPT !.o.bitmap = @ \cup {e.lo}, !.o.cnt = @ + 1]
            ELSE Refuse
      [] e.t = "range" ->
            IF validate_cpu_range(e.lo, e.hi)
            THEN [g EXCEPT !.o.bitmap = @ \cup (e.lo..e.hi),
                           !.o.cnt = @ + Cardinality(e.lo..e.hi)]
            ELSE Refuse
      [] OTHER -> g

\* The visit of the array reaches the elements of an array inside it, and the
\* inner array is then visited once more for itself.
_lgroup_array(v) ==
    LET inner(e) == IF e.t = "array" THEN e.v ELSE <<>>
    IN  FlattenSeq([i \in DOMAIN v |-> IF v[i].t = "array" THEN v[i].v ELSE <<v[i]>>])
          \o FlattenSeq([i \in DOMAIN v |-> inner(v[i])])

_lgroup_obj(it) ==
    FoldLeft(_lgroup, Made([k |-> it.k, bitmap |-> {}, cnt |-> 0]), _lgroup_array(it.v))

(***************************************************************************)
(* Threads.                                                                *)
(***************************************************************************)
\* The array of names grows by one for each name; the array of pointers is
\* then allocated with the same size.
AddName(t, n) == [t EXCEPT !.names = Append(@, n),
                           !.sz = IF Len(t.names) + 1 >= @ THEN @ + 1 ELSE @]

_thd(t, f) ==
    CASE t.r # "ok" -> t
      [] f[1] \in {"idle_timeout", "intr_timeout"} -> IF f[2] < 0 THEN Refuse ELSE t
      [] f[1] = "group" -> [t EXCEPT !.o.group_name = f[2]]
      [] f[1] = "lports" -> [t EXCEPT !.o = FoldLeft(AddName, t.o, f[2])]
      [] f[1] = "bool" -> Refuse
      [] OTHER -> t

_thd_obj(d, it) ==
    FoldLeft(_thd, Made([k |-> it.k, idx |-> Len(d["threads"]), group_name |-> "default",
                         group |-> 0, names |-> <<>>, lports |-> <<>>, sz |-> 0]), it.f)

(***************************************************************************)
(* Groups of lports: the queues asked for.                                 *)
(***************************************************************************)
\* <<low, high>>, or <<>> for a text that is no range of 16-bit numbers.
parse_range(e) ==
    CASE e.t = "num" /\ Short(e.lo) -> <<e.lo, e.lo>>
      [] e.t = "range" /\ Short(e.lo) /\ Short(e.hi) /\ e.lo <= e.hi -> <<e.lo, e.hi>>
      [] OTHER -> <<>>

\* Ascending, without duplicates; min and max save the walk at the two ends.
add_to_queue_list(ql, v) ==
    CASE ql.q = <<>> -> [q |-> <<v>>, min |-> v, max |-> v]
      [] v < ql.min -> [ql EXCEPT !.q = <<v>> \o @, !.min = v]
      [] v > ql.max -> [ql EXCEPT !.q = Append(@, v), !.max = v]
      [] OTHER -> LET i == SelectInSeq(ql.q, LAMBDA w : v <= w)
                  IN  IF ql.q[i] = v THEN ql ELSE [ql EXCEPT !.q = InsertAt(@, i, v)]

construct_queue_list == [q |-> <<>>, min |-> 0, max |-> 0]
QlError == [q |-> <<>>, min |-> -1, max |-> -1]
QlStuck == [q |-> <<>>, min |-> -2, max |-> -2]
Failed(ql) == ql \in {QlError, QlStuck}

\* for (; low <= high; low++) on 16-bit numbers: a range that ends at the
\* greatest one never ends.
AddRange(ql, r) ==
    CASE r = <<>> -> QlError
      [] r # <<>> /\ r[2] = U16 - 1 -> QlStuck
      [] OTHER -> FoldLeft(add_to_queue_list, ql, [i \in 1..r[2] - r[1] + 1 |-> r[1] + i - 1])

AddElement(ql, e) ==
    CASE Failed(ql) -> ql
      [] e.t = "int" -> IF Short(e.lo) THEN add_to_queue_list(ql, e.lo) ELSE QlError
      [] OTHER -> AddRange(ql, parse_range(e))

decode_lport_group_queues_array(ql, v) == FoldLeft(AddElement, ql, v)

decode_lport_group_queues(v) ==
    IF v.t = "array" THEN decode_lport_group_queues_array(construct_queue_list, v.v)
    ELSE AddElement(construct_queue_list, v)

SetQueues(g, v) ==
    IF v.t = "all" THEN g
    ELSE LET ql == decode_lport_group_queues(v)
         IN  CASE ql = QlError -> Refuse
               [] ql = QlStuck -> [r |-> "stuck", o |-> 0]
               [] OTHER -> [g EXCEPT !.o.qlist = <<ql>>]

_lport_group(g, f) ==
    LET new == CASE f[1] = "umem" -> [g EXCEPT !.o.umem_name = <<f[2]>>]
                 [] f[1] = "netdevs" -> [g EXCEPT !.o.netdevs = f[2]]
                 [] f[1] = "threads" -> [g EXCEPT !.o.threads = f[2]]
                 [] f[1] = "queues" -> SetQueues(g, f[2])
                 [] f[1] \in {"busy_timeout", "busy_budget"} ->
                       IF Short(f[2]) THEN [g EXCEPT !.o.busy = f[2]] ELSE Refuse
                 [] OTHER -> g
    IN  IF g.r # "ok" THEN g
        ELSE IF new.r = "ok" /\ new.o.umem_name = <<>>
             THEN [new EXCEPT !.o.umem_name = <<Common>>] ELSE new

_lport_group_obj(it) ==
    FoldLeft(_lport_group,
             Made([k |-> it.k, netdevs |-> <<>>, threads |-> <<>>, qlist |-> <<>>,
                   umem_name |-> <<>>, umem |-> 0, busy |-> 0]), it.f)

(***************************************************************************)
(* jcfg_decode(): one item of the section at hand.                         *)
(***************************************************************************)
Decode(d, f, it) ==
    CASE f = "application" -> _app_obj(it)
      [] f = "defaults" -> __default_objs(it)
      [] f = "options" -> __opt_objs(it)
      [] f = "umems" -> _umem_obj(d, it)
      [] f = "lports" -> _lport_obj(d, it)
      [] f = "lcore-groups" -> _lgroup_obj(it)
      [] f = "threads" -> _thd_obj(d, it)
      [] f = "lport-groups" -> _lport_group_obj(it)

\* An object-valued option is visited: its members become options as well.
Members(f, it) == IF f \in {"application", "defaults", "options"} /\ it.t = "object"
                  THEN it.v ELSE <<>>

\* jcfg_list_add(): the UMEM, lport or thread stands in its list before its
\* fields are read, and stays there when they are refused.
Listed == {"umems", "lports", "threads"}
jcfg_list_add(lists, f, k) == IF f \in Listed THEN [lists EXCEPT ![f] = Append(@, k)] ELSE lists

\* _decode_sections_start(): an object whose key has a decoder is given to it.
StartSection ==
    /\ jc.rc = "decode" /\ jc.items = <<>> /\ jc.todo # <<>>
    /\ LET s == Head(jc.todo) IN
       jc' = [jc EXCEPT !.todo = Tail(@), !.sec = jcfg_get_decoder(jc.head, s.sec),
                        !.items = IF jcfg_get_decoder(jc.head, s.sec) \in Range(Tags)
                                  THEN s.items ELSE <<>>]
    /\ UNCHANGED <<jmode, jdoc>>

_decode_sections_start ==
    /\ jc.rc = "decode" /\ jc.items # <<>>
    /\ \E it \in {Head(jc.items)}, f \in {jc.sec} : \E m \in {Decode(jc.d, f, it)} :
           jc' = IF m.r = "ok"
                 THEN [jc EXCEPT !.items = Members(f, it) \o Tail(@),
                                 !.d[f] = Append(@, m.o), !.live = @ \cup {<<f, Len(jc.d[f]) + 1>>},
                                 !.lists = jcfg_list_add(@, f, it.k)]
                 ELSE [jc EXCEPT !.rc = m.r, !.lists = jcfg_list_add(@, f, it.k)]
    /\ UNCHANGED <<jmode, jdoc>>

(***************************************************************************)
(* _decode_sections_end(): the names are resolved.                         *)
(***************************************************************************)
ResolveLports(d) ==
    LET hit(p) == jcfg_object_lookup(d, "umems", p.umem_name[1])
        ps == d["lports"]
        null == {i \in DOMAIN ps : ps[i].umem_name = <<>>}
        miss == {i \in DOMAIN ps : i \notin null /\ hit(ps[i]) = 0}
        first == CHOOSE i \in null \cup miss : \A j \in null \cup miss : i <= j
    IN  CASE null \cup miss = {} ->
               [r |-> "ok", d |-> [d EXCEPT !["lports"] =
                                     [i \in DOMAIN ps |-> [ps[i] EXCEPT !.umem = hit(ps[i])]]]]
          [] null \cup miss # {} /\ first \in null /\ d["umems"] # <<>> -> [r |-> "crash", d |-> d]
          [] OTHER -> [r |-> "error", d |-> d]

ResolveThreads(d) ==
    LET ts == d["threads"]
        group(t) == jcfg_object_lookup(d, "lcore-groups", t.group_name)
        ports(t) == [i \in DOMAIN t.names |-> jcfg_object_lookup(d, "lports", t.names[i])]
    IN  IF \E i \in DOMAIN ts : group(ts[i]) = 0 \/ 0 \in Range(ports(ts[i]))
        THEN [r |-> "error", d |-> d]
        ELSE [r |-> "ok", d |-> [d EXCEPT !["threads"] =
                [i \in DOMAIN ts |-> [ts[i] EXCEPT !.group = group(ts[i]), !.lports = ports(ts[i])]]]]

_decode_sections_end ==
    /\ jc.rc = "decode" /\ jc.items = <<>> /\ jc.todo = <<>>
    /\ LET p == ResolveLports(jc.d)
           t == IF p.r = "ok" THEN ResolveThreads(p.d) ELSE p
       IN  jc' = [jc EXCEPT !.d = t.d, !.rc = IF t.r = "ok" THEN "groups" ELSE t.r]
    /\ UNCHANGED <<jmode, jdoc>>

(***************************************************************************)
(* One lport group: an lport for each queue of each device, the threads    *)
(* taking them in turn.                                                    *)
(***************************************************************************)
total_queues_all(g) ==
    IF \E i \in DOMAIN g.netdevs : Channels[g.netdevs[i]] < 0 THEN 0
    ELSE FoldLeft(LAMBDA n, dev : (n + Channels[dev]) % U16, 0, g.netdevs)

Queues(g, dev) == IF g.qlist # <<>> THEN g.qlist[1].q
                  ELSE [i \in 1..Channels[dev] |-> i - 1]

\* The thread writes behind the end of its arrays when they are full.
setup_lport(s, g, dev, qid, t) ==
    LET clash == \E i \in DOMAIN s.d["lports"] :
                    LET p == s.d["lports"][i] IN p.k = <<dev, qid>> \/ (p.netdev = dev /\ p.qid = qid)
        n == Len(s.d["lports"]) + 1
    IN  IF clash THEN [s EXCEPT !.r = "error"]
        ELSE [s EXCEPT
               !.d["lports"] = Append(@, [k |-> <<dev, qid>>, netdev |-> dev, lpid |-> n - 1,
                                          qid |-> qid, region |-> 0, umem_name |-> g.umem_name,
                                          umem |-> g.umem, busy |-> g.busy]),
               !.lists["lports"] = Append(@, <<dev, qid>>),
               !.d["threads"][t].names = Append(@, <<dev, qid>>),
               !.d["threads"][t].lports = Append(@, n),
               !.live = @ \cup {<<"lports", n>>},
               !.bad = @ \/ Len(s.d["threads"][t].names) >= s.d["threads"][t].sz]

\* The fault: the turn starts afresh with each device.
TurnPerDevice(s, g) ==
    FoldLeft(LAMBDA a, dev : FoldLeft(LAMBDA b, i :
                IF b.r # "ok" THEN b
                ELSE setup_lport(b, g, dev, Queues(g, dev)[i],
                        jcfg_object_lookup(b.d, "threads", g.threads[((i - 1) % Len(g.threads)) + 1])),
                a, [i \in DOMAIN Queues(g, dev) |-> i]),
             s, g.netdevs)

setup_lports(s, g) ==
    LET all == FlattenSeq([i \in DOMAIN g.netdevs |->
                  [j \in DOMAIN Queues(g, g.netdevs[i]) |-> <<g.netdevs[i], Queues(g, g.netdevs[i])[j]>>]])
    IN  FoldLeft(LAMBDA b, c :
                    IF b.r # "ok" THEN b
                    ELSE setup_lport(b, g, all[c][1], all[c][2],
                            jcfg_object_lookup(b.d, "threads", g.threads[((c - 1) % Len(g.threads)) + 1])),
                 s, [c \in DOMAIN all |-> c])

\* Room for the worst case in each thread of the group.
GrowThreads(d, g, qs) ==
    FoldLeft(LAMBDA e, n : LET t == jcfg_object_lookup(e, "threads", n)
                           IN  IF e["threads"][t].sz - Len(e["threads"][t].names) < qs
                               THEN [e EXCEPT !["threads"][t].sz = @ + qs] ELSE e,
             d, g.threads)

jcfg_decode_one_lport_group_end(s, at) ==
    LET g0 == s.d["lport-groups"][at]
        total == IF g0.qlist = <<>> THEN total_queues_all(g0)
                 ELSE (Len(g0.qlist[1].q) * Len(g0.netdevs)) % U16
        umem == jcfg_object_lookup(s.d, "umems", g0.umem_name[1])
        g == [g0 EXCEPT !.umem = umem]
        qs == (total \div Len(g.threads)) + (total % Len(g.threads))
        known == [s EXCEPT !.d["lport-groups"][at] = g]
    IN  IF \/ g0.netdevs = <<>> \/ g0.threads = <<>>
           \/ \E i \in DOMAIN g0.threads : jcfg_object_lookup(s.d, "threads", g0.threads[i]) = 0
           \/ total = 0
           \/ umem = 0 /\ g0.umem_name[1] # Common
        THEN [s EXCEPT !.r = "error"]
        ELSE setup_lports([known EXCEPT !.d = GrowThreads(@, g, qs)], g)

\* The UMEM shared by the groups that name none, made after all of them.
setup_common_umem(s) ==
    LET uses == {i \in DOMAIN s.d["lports"] : s.d["lports"][i].umem_name = <<Common>>}
        rx == LET v == jcfg_default_get(s.d, "rxdesc")
              IN  IF v = <<>> THEN DfltDesc ELSE (v[1] * Kilo) % U16
        tx == LET v == jcfg_default_get(s.d, "txdesc")
              IN  IF v = <<>> THEN DfltDesc ELSE (v[1] * Kilo) % U16
        cnt == LET v == jcfg_default_get(s.d, "bufcnt")
               IN  IF v = <<>> THEN (rx * 3 + tx * 3) * Cardinality(uses) ELSE v[1] * Kilo
        sz == LET v == jcfg_default_get(s.d, "bufsz")
              IN  IF v = <<>> THEN DfltBufsz ELSE v[1] * Kilo
        n == Len(s.d["umems"]) + 1
        point(x) == IF x.umem_name = <<Common>> THEN [x EXCEPT !.umem = n] ELSE x
    IN  IF jcfg_object_lookup(s.d, "umems", Common) # 0 \/ uses = {} THEN s
        ELSE [s EXCEPT
               !.d["umems"] = Append(@, [k |-> Common, idx |-> n - 1, rinfo |-> <<cnt>>, rxdesc |-> rx,
                                         txdesc |-> tx, bufcnt |-> cnt, bufsz |-> sz]),
               !.d["lports"] = [i \in DOMAIN @ |-> point(@[i])],
               !.d["lport-groups"] = [i \in DOMAIN @ |-> point(@[i])],
               !.lists["umems"] = Append(@, Common),
               !.live = @ \cup {<<"umems", n>>}]

Sub == [r |-> "ok", d |-> jc.d, lists |-> jc.lists, live |-> jc.live, bad |-> jc.bad]

\* One group a step; a refused one frees all the groups.
jcfg_decode_lport_groups_end ==
    /\ jc.rc = "groups"
    /\ LET last == jc.at = Len(jc.d["lport-groups"])
           s == IF last THEN setup_common_umem(Sub)
                ELSE jcfg_decode_one_lport_group_end(Sub, jc.at + 1)
       IN  jc' = [jc EXCEPT !.d = s.d, !.lists = s.lists, !.bad = s.bad, !.at = @ + 1,
                            !.live = IF s.r = "ok" THEN s.live
                                     ELSE {x \in s.live : x[1] # "lport-groups"},
                            !.rc = IF s.r # "ok" THEN s.r ELSE IF last THEN "parsed" ELSE @]
    /\ UNCHANGED <<jmode, jdoc>>

(***************************************************************************)
(* jcfg_process() and jcfg_destroy().                                      *)
(***************************************************************************)
Objects(d) == FlattenSeq([s \in DOMAIN Tags |-> [i \in DOMAIN d[Tags[s]] |-> <<Tags[s], i>>]])

\* The callback sees the next object; when it fails the walk ends.
jcfg_process ==
    /\ jc.rc = "parsed" /\ Len(jc.seen) < Len(Objects(jc.d))
    /\ \E r \in {"parsed", "stopped"} :
          jc' = [jc EXCEPT !.seen = Append(@, Objects(jc.d)[Len(@) + 1]), !.rc = r]
    /\ UNCHANGED <<jmode, jdoc>>

\* The lists in turn, but for the lport groups.
jcfg_destroy ==
    /\ jc.rc \in {"error", "stopped"} \/ (jc.rc = "parsed" /\ Len(jc.seen) = Len(Objects(jc.d)))
    /\ LET freed == {x \in Range(Objects(jc.d)) : x[1] # "lport-groups"} IN
       jc' = [jc EXCEPT !.bad = @ \/ ~(freed \subseteq jc.live), !.live = @ \ freed,
                        !.rc = IF @ = "error" THEN "refused" ELSE "gone"]
    /\ UNCHANGED <<jmode, jdoc>>

\* The application's own decoders, before it parses.
Register ==
    /\ jc.rc = "idle" /\ jmode = "decoders" /\ jc.regs < MaxRegs
    /\ \E s \in Spellings :
          \/ \E f \in Funcs :
                jc' = [jc EXCEPT !.head = jcfg_add_decoder(@, s, f), !.regs = @ + 1,
                                 !.want[Fold[s]] = IF @ = "none" THEN f ELSE @]
          \/ jc' = [jc EXCEPT !.head = jcfg_del_decoder(@, s), !.regs = @ + 1,
                              !.want[Fold[s]] = "none"]
    /\ UNCHANGED <<jmode, jdoc>>

(***************************************************************************)
(* jcfg_parser() for a document at hand, and for one from the socket: the  *)
(* caller waits at a barrier for the listener, which leaves its loop with  *)
(* a document, or when poll() fails.                                       *)
(***************************************************************************)
Parse == [jc EXCEPT !.todo = IF jc.str = "doc" THEN jdoc ELSE <<>>,
                    !.rc = IF jc.str = "doc" THEN "decode" ELSE "error"]

jcfg_parser ==
    /\ jc.rc = "idle" /\ jmode # "socket"
    /\ jc' = [Parse EXCEPT !.todo = jdoc, !.rc = "decode"]
    /\ UNCHANGED <<jmode, jdoc>>

jcfg_socket_create ==
    /\ jc.rc = "idle" /\ jmode = "socket"
    /\ jc' \in {[jc EXCEPT !.rc = "error"],
                [jc EXCEPT !.rc = "barrier", !.open = TRUE, !.lpc = "start"]}
    /\ UNCHANGED <<jmode, jdoc>>

\* The two meet; the caller frees the client record and closes the socket.
BarrierPassed ==
    /\ jc.rc = "barrier" /\ jc.lpc = "barrier"
    /\ jc' = [Parse EXCEPT !.open = FALSE, !.lpc = "closing", !.bad = @ \/ jc.running > 0]
    /\ UNCHANGED <<jmode, jdoc>>

socket_listener ==
    /\ \/ jc.lpc = "start" /\ jc' = [jc EXCEPT !.lpc = "poll", !.running = 1]
       \/ jc.lpc = "poll" /\ jc.tries < MaxTries          \* nothing yet, or no accept
          /\ jc' = [jc EXCEPT !.tries = @ + 1]
       \/ jc.lpc = "poll" /\ jc' = [jc EXCEPT !.lpc = "client", !.tries = @ + 1]
       \/ jc.lpc = "poll" /\ jc' = [jc EXCEPT !.lpc = "leave"]
       \/ jc.lpc = "leave" /\ jc' = [jc EXCEPT !.lpc = "barrier", !.running = -1]
       \/ jc.lpc = "closing" /\ jc' = [jc EXCEPT !.lpc = "over"]
    /\ UNCHANGED <<jmode, jdoc>>

\* client_handler(): the text up to the end of the connection, or no memory.
client_handler ==
    /\ jc.lpc = "client"
    /\ jc' \in {[jc EXCEPT !.str = "doc", !.lpc = "leave"]}
               \cup (IF jc.tries < MaxTries THEN {[jc EXCEPT !.lpc = "poll"]} ELSE {})
    /\ UNCHANGED <<jmode, jdoc>>

jcfg_create(m) ==
    [rc |-> "idle", head |-> jcfg_initialize, todo |-> <<>>, items |-> <<>>, sec |-> "none",
     d |-> Empty, lists |-> [s \in Listed |-> <<>>], live |-> {}, bad |-> FALSE, at |-> 0,
     seen |-> <<>>, regs |-> 0, want |-> [s \in {Fold[x] : x \in Spellings} |->
                                             IF s \in Range(Tags) THEN s ELSE "none"],
     str |-> "none", open |-> FALSE, lpc |-> "none", running |-> -1, tries |-> 0]

Init == /\ jmode \in JModes
        /\ jdoc \in Docs[jmode]
        /\ jc = jcfg_create(jmode)

Next == \/ Register \/ jcfg_parser \/ StartSection \/ _decode_sections_start
        \/ _decode_sections_end \/ jcfg_decode_lport_groups_end \/ jcfg_process \/ jcfg_destroy
        \/ jcfg_socket_create \/ BarrierPassed \/ socket_listener \/ client_handler

Spec == Init /\ [][Next]_jvars

(***************************************************************************)
(* What a document means, said without the decoders.                       *)
(***************************************************************************)
Items(s) == FlattenSeq([i \in DOMAIN jdoc |->
                           IF jc.want[Fold[jdoc[i].sec]] = s THEN jdoc[i].items ELSE <<>>])
Names(s) == {Items(s)[i].k : i \in DOMAIN Items(s)}
Get(it, k, else) == IF \E i \in DOMAIN it.f : it.f[i][1] = k
                    THEN (CHOOSE f \in Range(it.f) : f[1] = k)[2] ELSE else
InText(e) == IF e.t = "range" THEN e.lo..e.hi ELSE {e.lo}
Numbers(v) == IF v.t = "array" THEN UNION {InText(e) : e \in Range(v.v)} ELSE InText(v)
TextRight(e) == /\ e.t # "junk" /\ Short(e.lo)
                /\ e.t = "range" => Short(e.hi) /\ e.lo <= e.hi
Asked(g, dev) == LET v == Get(g, "queues", [t |-> "all"])
                 IN  IF v.t = "all" THEN 0..Channels[dev] - 1 ELSE Numbers(v)
Ports(g) == {<<dev, q>> : dev \in Range(Get(g, "netdevs", <<>>)),
                          q \in UNION {Asked(g, x) : x \in Range(Get(g, "netdevs", <<>>))}}
PortsOf(g) == {p \in Ports(g) : p[2] \in Asked(g, p[1])}
Given(it) == <<it.k[1], Get(it, "qid", 0) % U16>>

OptRight(it) == it.t # "null" /\ (it.t = "array" => Cardinality(Range(it.v)) <= 1)
OptsRight(its) == \A i \in DOMAIN its :
    /\ OptRight(its[i])
    /\ its[i].t = "object" => \A j \in DOMAIN its[i].v : OptRight(its[i].v[j])

GroupRight(g) ==
    LET devs == Get(g, "netdevs", <<>>)
        v == Get(g, "queues", [t |-> "all"])
    IN  /\ devs # <<>> /\ Get(g, "threads", <<>>) # <<>>
        /\ Range(Get(g, "threads", <<>>)) \subseteq Names("threads")
        /\ Get(g, "umem", Common) \in Names("umems") \cup {Common}
        /\ v.t = "array" => \A e \in Range(v.v) : TextRight(e)
        /\ v.t \notin {"array", "all"} => TextRight(v)
        /\ v.t = "all" => \A i \in DOMAIN devs : Channels[devs[i]] >= 0
        /\ PortsOf(g) # {}
        /\ IsInjective(devs)
        /\ \A p \in PortsOf(g) : \A q \in Range(Items("lports")) : p # q.k /\ p # Given(q)

Valid ==
    /\ \A s \in {"application", "defaults", "options"} : OptsRight(Items(s))
    /\ \A u \in Range(Items("umems")) : Len(Get(u, "regions", <<>>)) <= MaxRegions
    /\ \A p \in Range(Items("lports")) : /\ Short(Get(p, "busy_timeout", 0))
                                         /\ Get(p, "umem", "none") \in Names("umems")
    /\ \A g \in Range(Items("lcore-groups")) : \A e \in Range(_lgroup_array(g.v)) :
          e.t \in {"int", "num", "range"} => /\ e.lo >= 0 /\ e.lo < Nprocs
                                             /\ e.t = "range" => e.hi >= 0 /\ e.hi < Nprocs
    /\ \A t \in Range(Items("threads")) : /\ Get(t, "idle_timeout", 0) >= 0
                                          /\ Get(t, "bool", FALSE) = FALSE
                                          /\ Get(t, "group", "default") \in Names("lcore-groups")
                                          /\ Range(Get(t, "lports", <<>>)) \subseteq Names("lports")
    /\ \A g \in Range(Items("lport-groups")) : GroupRight(g)
    /\ \A i, j \in DOMAIN Items("lport-groups") :
          i # j => PortsOf(Items("lport-groups")[i]) \cap PortsOf(Items("lport-groups")[j]) = {}

\* Two things a document may say that the decoders do not survive: a UMEM without
\* regions, or an lport without a UMEM, and a range of queues up to the greatest number.
Crashing == \/ \E u \in Range(Items("umems")) : Get(u, "regions", <<>>) = <<>>
            \/ \E p \in Range(Items("lports")) : Get(p, "umem", "none") = "none"
Endless == \E g \in Range(Items("lport-groups")) :
    LET v == Get(g, "queues", [t |-> "all"])
    IN  \E e \in (IF v.t = "array" THEN Range(v.v) ELSE {v}) : e.t = "range" /\ TextRight(e) /\ e.hi = U16 - 1

(***************************************************************************)
(* Properties.                                                             *)
(***************************************************************************)
\* Every pointer leads to the object of the name given, and the list of an
\* index leads back to the object that carries it.
Resolved(d) ==
    /\ \A i \in DOMAIN d["lports"] : LET p == d["lports"][i] IN
          /\ d["umems"][p.umem].k = p.umem_name[1]
          /\ jc.lists["lports"][p.lpid + 1] = p.k
          /\ p.region = 0 => jcfg_lport_region(d, p) = d["umems"][p.umem].rinfo[1]
    /\ \A i \in DOMAIN d["threads"] : LET t == d["threads"][i] IN
          /\ d["lcore-groups"][t.group].k = t.group_name
          /\ Len(t.lports) = Len(t.names) /\ Len(t.names) <= t.sz
          /\ \A j \in DOMAIN t.names : d["lports"][t.lports[j]].k = t.names[j]
          /\ jc.lists["threads"][t.idx + 1] = t.k
    /\ \A s \in Listed : Len(jc.lists[s]) = Len(d[s])
    /\ \A i \in DOMAIN d["umems"] : jc.lists["umems"][d["umems"][i].idx + 1] = d["umems"][i].k

\* The queues of a group: each served by one lport of one thread, the lports of
\* a device in ascending order, the threads' shares within one of each other.
Spread(d, g) ==
    LET mine(n) == {p \in PortsOf(g) : \E t \in Range(d["threads"]) : t.k = n /\ p \in Range(t.names)}
        who == Range(Get(g, "threads", <<>>))
    IN  /\ \A p \in PortsOf(g) :
              /\ Cardinality({i \in DOMAIN d["lports"] : <<d["lports"][i].netdev, d["lports"][i].qid>> = p}) = 1
              /\ Cardinality({n \in who : p \in mine(n)}) = 1
        /\ \A n, m \in who : Cardinality(mine(n)) <= Cardinality(mine(m)) + 1
        /\ \A i, j \in DOMAIN d["lports"] :
              (i < j /\ d["lports"][i].k \in PortsOf(g) /\ d["lports"][j].k \in PortsOf(g)
                     /\ d["lports"][i].netdev = d["lports"][j].netdev)
                 => d["lports"][i].qid < d["lports"][j].qid

\* A document is refused only for a name, number or type that is wrong in it; the
\* library crashes on a valid one only for a UMEM without regions (on any, also
\* for an lport without a UMEM) and hangs only for a range of queues that ends at
\* the greatest number.  What is taken is valid, holds neither, has every name
\* resolved, every queue of the lport groups served once and evenly, and no
\* other lports.  No array is written past its end and no object freed twice;
\* the walk shows an lport after its UMEM and a thread after its lports and its
\* lcores; destruction leaves nothing of a refused document and only the lport
\* groups of one that was taken.  The registry answers the decoder added last
\* to a name that had none, whatever the case of its letters; a document from
\* the socket is parsed only after the listener left the shared record alone.
JcfgRight ==
    /\ ~jc.bad
    /\ \A s \in Spellings : jcfg_get_decoder(jc.head, s) = jc.want[Fold[s]]
    /\ jc.rc = "error" /\ jmode # "socket" => ~Valid
    /\ jc.rc = "crash" => Crashing
    /\ jc.rc = "stuck" => Endless
    /\ jc.rc \in {"parsed", "stopped", "gone"} =>
         /\ Valid /\ ~Crashing /\ ~Endless
         /\ Resolved(jc.d)
         /\ \A g \in Range(Items("lport-groups")) : Spread(jc.d, g)
         /\ Len(jc.d["lports"]) = Len(Items("lports"))
               + Cardinality(UNION {PortsOf(g) : g \in Range(Items("lport-groups"))})
    /\ \A i \in DOMAIN jc.seen : LET x == jc.seen[i] IN
         LET before == {jc.seen[j] : j \in 1..i - 1} IN
         /\ x[1] = "lports" => <<"umems", jc.d["lports"][x[2]].umem>> \in before
         /\ x[1] = "threads" => /\ <<"lcore-groups", jc.d["threads"][x[2]].group>> \in before
                                /\ \A p \in Range(jc.d["threads"][x[2]].lports) : <<"lports", p>> \in before
    /\ jc.rc = "gone" => \A x \in jc.live : x[1] = "lport-groups"
    /\ jc.rc = "refused" /\ jc.at > 0 => jc.live = {}
    /\ jc.rc \notin {"idle", "barrier"} => jc.running <= 0 /\ ~jc.open
=============================================================================
