--------------------------- MODULE GraphRegistry ---------------------------
(***************************************************************************)
(* Registering nodes and making graphs of them (clib/graph: node.c,        *)
(* graph.c, graph_ops.c, graph_populate.c, graph_stats.c).                 *)
(*                                                                         *)
(* A name is a sequence, so that the name of a clone is the name of its    *)
(* node followed by the one given to it; a shell pattern is the set of the *)
(* names it matches.  Every operation holds graph_lock, so it is one step. *)
(***************************************************************************)
EXTENDS Integers, Sequences, SequencesExt, FiniteSets, FiniteSetsExt

CONSTANTS Regs,        \* what the application registers: [name, src, input, edges]
          CloneNames, EdgeLists, GraphNames,
          PatternLists,  \* arguments of cne_graph_create
          StatsLists,  \* those of the two graphs statistics are taken of
          MaxNodes, MaxGraphs, MaxEdits, MaxCalls, Burst,
          HdrSz, OffSz, FenceSz, NodeSz, PtrSz, Line,  \* sizes of the structures
          RegModes

VARIABLES gmode, reg

NoId == -1

Ids(seq) == {seq[i].id : i \in 1 .. Len(seq)}

Names(seq) == {seq[i].name : i \in 1 .. Len(seq)}

(***************************************************************************)
(* node.c                                                                  *)
(***************************************************************************)
\* The first node with a name; an id is looked up only below node_id.
node_from_name(r, name) == SelectInSeq(r.nodes, LAMBDA n : n.name = name)

NodeById(r, id) == IF id < r.nid THEN SelectInSeq(r.nodes, LAMBDA n : n.id = id) ELSE 0

\* __cne_node_register: the new registry and the id, NoId for a name in use.
__cne_node_register(r, d, parent) ==
    IF node_from_name(r, d.name) # 0 THEN [r |-> r, id |-> NoId]
    ELSE [r |-> [r EXCEPT !.nid = @ + 1,
                          !.nodes = Append(@, [name |-> d.name, src |-> d.src, input |-> d.input, id |-> r.nid,
                                               parent |-> parent, nb |-> Len(d.edges), edges |-> d.edges])],
          id |-> r.nid]

\* A clone cannot be cloned; the name asked for must be free by itself too.
node_clone(r, id, name) ==
    LET i == NodeById(r, id)
        n == r.nodes[i]
    IN  IF i = 0 THEN [r |-> r, id |-> NoId]
        ELSE IF n.parent # NoId \/ node_from_name(r, name) # 0 THEN [r |-> r, id |-> NoId]
        ELSE __cne_node_register(r, [name |-> n.name \o name, src |-> n.src, input |-> n.input,
                                     edges |-> SubSeq(n.edges, 1, n.nb)], id)

\* Edges from..from+k-1 are overwritten or appended without a hole; a node that
\* grows is allocated anew, and the graphs that hold it point to the old place.
edge_update(r, i, from0, names) ==
    LET n == r.nodes[i]
        from == IF from0 = NoId THEN n.nb ELSE from0
        top == from + Len(names)
        kept == [k \in 1 .. (IF top > Len(n.edges) THEN top ELSE Len(n.edges)) |->
                     IF k > from /\ k <= top THEN names[k - from] ELSE n.edges[k]]
    IN  IF from > n.nb THEN [r |-> r, n |-> 0]
        ELSE [r |-> [r EXCEPT !.nodes[i] = [@ EXCEPT !.edges = kept, !.nb = IF top > @ THEN top ELSE @],
                              !.graphs = [g \in DOMAIN @ |-> IF top > n.nb /\ n.id \in Ids(@[g].fp.nodes)
                                                             THEN [@[g] EXCEPT !.stale = TRUE] ELSE @[g]]],
              n |-> Len(names)]

cne_node_edge_shrink(r, id, size) ==
    LET i == NodeById(r, id)
    IN  IF i = 0 THEN r ELSE IF r.nodes[i].nb < size THEN r ELSE [r EXCEPT !.nodes[i].nb = size]

(***************************************************************************)
(* graph.c, graph_ops.c: which nodes a graph has, and whether it is valid  *)
(***************************************************************************)
\* l is the node list of a graph, as positions of r.nodes.
graph_node_add(r, l, i) == IF \E k \in 1 .. Len(l) : r.nodes[l[k]].name = r.nodes[i].name THEN l ELSE Append(l, i)

\* All matches of the pattern; the empty list when there is none.
expand_pattern_to_node(r, l, p) ==
    LET m == SelectSeq([i \in 1 .. Len(r.nodes) |-> i], LAMBDA i : r.nodes[i].name \in p)
    IN  IF m = <<>> THEN [l |-> l, ok |-> FALSE] ELSE [l |-> FoldLeft(LAMBDA a, i : graph_node_add(r, a, i), l, m), ok |-> TRUE]

\* The names of the next nodes (cne_node_edge_get).
Edges(r, i) == SubSeq(r.nodes[i].edges, 1, r.nodes[i].nb)

\* The list grows at its tail while it is walked.
RECURSIVE graph_node_edges_add(_, _, _)
graph_node_edges_add(r, l, k) ==
    IF k > Len(l) THEN [l |-> l, ok |-> TRUE]
    ELSE LET next == [e \in 1 .. r.nodes[l[k]].nb |-> node_from_name(r, Edges(r, l[k])[e])]
         IN  IF \E e \in DOMAIN next : next[e] = 0 THEN [l |-> l, ok |-> FALSE]
             ELSE graph_node_edges_add(r, FoldLeft(LAMBDA a, i : graph_node_add(r, a, i), l, next), k + 1)

Adjacent(r, i) == {node_from_name(r, Edges(r, i)[e]) : e \in 1 .. r.nodes[i].nb}

graph_src_nodes_count(r, l) == Cardinality({k \in 1 .. Len(l) : r.nodes[l[k]].src})

Mask(n) == n.src \/ n.input

graph_node_has_edge_to_src_node(r, l) == \E k \in 1 .. Len(l) : \E j \in Adjacent(r, l[k]) : Mask(r.nodes[j])

graph_node_has_loop_edge(r, l) == \E k \in 1 .. Len(l) : r.nodes[l[k]].name \in ToSet(Edges(r, l[k]))

\* Breadth-first search: queue of nodes still to expand, all nodes seen.
RECURSIVE graph_bfs(_, _, _)
graph_bfs(r, queue, visited) ==
    IF queue = <<>> THEN visited
    ELSE LET new == SelectSeq(SetToSeq(Adjacent(r, queue[1])), LAMBDA j : j \notin visited)
         IN  graph_bfs(r, Tail(queue) \o new, visited \cup ToSet(new))

SourcesHaveEdges(r, l) == \E k \in 1 .. Len(l) : Mask(r.nodes[l[k]]) /\ r.nodes[l[k]].nb = 0

\* A source or input node without an edge, or a node none of them leads to.
graph_has_isolated_node(r, l) ==
    LET s == SelectSeq(l, LAMBDA i : Mask(r.nodes[i]))
        seen == FoldLeft(LAMBDA v, i : graph_bfs(r, <<i>>, v \cup {i}), {}, s)
    IN  \/ \E k \in 1 .. Len(s) : r.nodes[s[k]].nb = 0
        \/ \E k \in 1 .. Len(l) : l[k] \notin seen /\ ~r.nodes[l[k]].input

(***************************************************************************)
(* graph_populate.c: the memory of the fast path                           *)
(***************************************************************************)
Align(x, a) == ((x + a - 1) \div a) * a

Pow2(x) == CHOOSE p \in {2 ^ k : k \in 0 .. 10} : p >= x /\ \A k \in 0 .. 10 : 2 ^ k >= x => 2 ^ k >= p

\* Where the circular buffer and the nodes start, and the size of it all.
graph_fp_mem_calc_size(r, l, srcs) ==
    LET val == Pow2(Len(l) * OffSz)
        cir == Align(HdrSz + OffSz * srcs, val)
        nodes == Align(cir + val + FenceSz, Line)
    IN  [cir |-> cir, mask |-> Pow2(Len(l)) - 1, nodes |-> nodes,
         size |-> FoldLeft(LAMBDA sz, i : Align(sz, Line) + NodeSz + PtrSz * r.nodes[i].nb, nodes, l)]

\* The offsets at which the nodes are laid out one after the other.
graph_nodes_populate(r, l, start) ==
    FoldLeft(LAMBDA a, i : [off |-> Align(a.off + NodeSz + PtrSz * r.nodes[i].nb, Line), offs |-> Append(a.offs, a.off)],
             [off |-> start, offs |-> <<>>], l).offs

\* The node with this name in the graph: a position of l.
graph_node_name_to_ptr(r, l, name) == SelectInSeq(l, LAMBDA i : r.nodes[i].name = name)

\* __cne_node_stream_alloc, twice for a source node.
__cne_node_stream_alloc(size) == IF 2 * size > Burst THEN 2 * size ELSE Burst

\* The fast-path graph: nodes in order, their next nodes by position, the
\* entries below the circular buffer that name the source nodes.
graph_fp_mem_create(r, l) ==
    LET srcs == SelectSeq([k \in 1 .. Len(l) |-> k], LAMBDA k : r.nodes[l[k]].src)
        mem == graph_fp_mem_calc_size(r, l, Len(srcs))
        offs == graph_nodes_populate(r, l, mem.nodes)
    IN  [mem |-> mem, head |-> -Len(srcs),
         nodes |-> [k \in 1 .. Len(l) |->
                       [id |-> r.nodes[l[k]].id, name |-> r.nodes[l[k]].name, off |-> offs[k], calls |-> 0,
                        next |-> [e \in 1 .. r.nodes[l[k]].nb |-> graph_node_name_to_ptr(r, l, Edges(r, l[k])[e])],
                        size |-> IF r.nodes[l[k]].src THEN __cne_node_stream_alloc(__cne_node_stream_alloc(0))
                                                      ELSE __cne_node_stream_alloc(0)]],
         cir |-> [h \in -Len(srcs) .. -1 |-> offs[srcs[-h]]]]

\* cne_graph_create; initOk is the result of the nodes' init functions.  A graph
\* remembers, as history, its patterns and what was registered at the time.
cne_graph_create(r, name, pats, initOk) ==
    LET e1 == FoldLeft(LAMBDA a, p : IF a.ok THEN expand_pattern_to_node(r, a.l, p) ELSE a, [l |-> <<>>, ok |-> TRUE], pats)
        e2 == graph_node_edges_add(r, e1.l, 1)
        valid == /\ name \notin Names(r.graphs) /\ e1.ok
                 /\ e2.ok
                 /\ graph_src_nodes_count(r, e2.l) # 0
                 /\ ~graph_node_has_edge_to_src_node(r, e2.l)
                 /\ ~graph_node_has_loop_edge(r, e2.l)
                 /\ ~graph_has_isolated_node(r, e2.l)
                 /\ initOk
    IN  IF ~valid THEN [r |-> r, id |-> NoId]
        ELSE [r |-> [r EXCEPT !.gid = @ + 1,
                              !.graphs = Append(@, [name |-> name, id |-> r.gid, stale |-> FALSE,
                                                    fp |-> graph_fp_mem_create(r, e2.l), pats |-> pats, was |-> r.nodes])],
              id |-> r.gid]

\* The first graph with the id; the next id goes down by one.  gap is history: a
\* graph older than one that is left went.
cne_graph_destroy(r, id) ==
    LET i == SelectInSeq(r.graphs, LAMBDA g : g.id = id)
    IN  IF i = 0 THEN r
        ELSE [r EXCEPT !.graphs = RemoveAt(@, i), !.gid = @ - 1, !.gap = Len(r.graphs) > 1 /\ (@ \/ i # Len(r.graphs))]

cne_graph_id_to_name(r, id) ==
    LET i == SelectInSeq(r.graphs, LAMBDA g : g.id = id)
    IN  IF id >= r.gid \/ i = 0 THEN 0 ELSE r.graphs[i].name

(***************************************************************************)
(* graph_stats.c                                                           *)
(***************************************************************************)
\* One entry per node id; where lists the <<graph, node>> positions it sums over.
stats_mem_populate(st, g, k, id) ==
    LET i == SelectInSeq(st, LAMBDA s : s.id = id)
    IN  IF i = 0 THEN Append(st, [id |-> id, calls |-> 0, prev |-> 0, where |-> <<<<g, k>>>>])
        ELSE [st EXCEPT ![i].where = Append(@, <<g, k>>)]

expand_pattern_to_cluster(r, cluster, p) ==
    cluster \o SelectSeq([g \in 1 .. Len(r.graphs) |-> g],
                         LAMBDA g : r.graphs[g].name \in p /\ ~\E i \in 1 .. Len(cluster) : cluster[i] = g)

cne_graph_cluster_stats_create(r, pats) ==
    LET cluster == FoldLeft(LAMBDA c, p : expand_pattern_to_cluster(r, c, p), <<>>, pats)
        found == \A i \in 1 .. Len(pats) : \E g \in 1 .. Len(r.graphs) : r.graphs[g].name \in pats[i]
        Add(st, g) == FoldLeft(LAMBDA a, k : stats_mem_populate(a, g, k, r.graphs[g].fp.nodes[k].id), st,
                               [k \in 1 .. Len(r.graphs[g].fp.nodes) |-> k])
    IN  IF found THEN FoldLeft(Add, <<>>, cluster) ELSE <<>>

cluster_node_arregate_stats(r, s) ==
    [s EXCEPT !.calls = FoldLeft(LAMBDA n, w : n + r.graphs[w[1]].fp.nodes[w[2]].calls, 0, s.where)]

\* The callback of entry stop ends the loop; 0 when none does.
cne_graph_cluster_stats_get(r, st, stop) ==
    [i \in 1 .. Len(st) |-> IF stop # 0 /\ i > stop THEN st[i]
                            ELSE LET s == cluster_node_arregate_stats(r, st[i]) IN [s EXCEPT !.prev = s.calls]]

cne_graph_cluster_stats_reset(st) == [i \in 1 .. Len(st) |-> [st[i] EXCEPT !.calls = 0, !.prev = 0]]

(***************************************************************************)
(* Steps                                                                   *)
(***************************************************************************)
Empty == [nodes |-> <<>>, nid |-> 0, graphs |-> <<>>, gid |-> 0, gap |-> FALSE, wild |-> FALSE, stats |-> <<>>, edits |-> 0]

\* Everything registered, and one graph for each of two names.
TwoGraphs ==
    LET r1 == FoldLeft(LAMBDA r, d : __cne_node_register(r, d, NoId).r, Empty,
                       SetToSortSeq({d \in Regs : Len(d.edges) = 1 \/ ~d.src}, LAMBDA a, b : a.ord < b.ord))
        g == SetToSortSeq(GraphNames, LAMBDA a, b : a < b)
        r2 == cne_graph_create(r1, g[1], StatsLists[1], TRUE).r
    IN  cne_graph_create(r2, g[2], StatsLists[2], TRUE).r

Init == /\ gmode \in RegModes
        /\ reg = IF gmode = "stats" THEN TwoGraphs ELSE Empty

Building ==
    /\ gmode = "build"
    /\ \/ /\ Len(reg.nodes) < MaxNodes
          /\ \/ \E d \in Regs : reg' = __cne_node_register(reg, d, NoId).r
             \/ \E id \in 0 .. reg.nid, name \in CloneNames : reg' = node_clone(reg, id, name).r
       \/ \E id \in 0 .. reg.nid - 1, from \in NoId .. 1, names \in EdgeLists :
             /\ reg.edits < MaxEdits /\ NodeById(reg, id) # 0
             /\ reg' = [edge_update(reg, NodeById(reg, id), from, names).r EXCEPT !.edits = @ + 1]
       \/ \E id \in 0 .. reg.nid, size \in 0 .. 1 :
             /\ reg.edits < MaxEdits
             /\ reg' = [cne_node_edge_shrink(reg, id, size) EXCEPT !.edits = @ + 1]

\* The fini functions of a graph with a node that grew are read from freed
\* memory, which may do no harm; otherwise wild ends the behaviour.
Graphs ==
    /\ gmode = "build"
    /\ \/ /\ Len(reg.graphs) < MaxGraphs
          /\ \E name \in GraphNames, pats \in PatternLists, initOk \in BOOLEAN :
                reg' = cne_graph_create(reg, name, pats, initOk).r
       \/ \E id \in Ids(reg.graphs) :
             \/ reg' = cne_graph_destroy(reg, id)
             \/ /\ reg.graphs[SelectInSeq(reg.graphs, LAMBDA a : a.id = id)].stale
                /\ reg' = [reg EXCEPT !.wild = TRUE]

Stats ==
    /\ gmode = "stats"
    /\ \/ \E g \in 1 .. Len(reg.graphs) : \E k \in 1 .. Len(reg.graphs[g].fp.nodes) :
             /\ reg.graphs[g].fp.nodes[k].calls < MaxCalls
             /\ reg' = [reg EXCEPT !.graphs[g].fp.nodes[k].calls = @ + 1]
       \/ /\ reg.stats = <<>>
          /\ \E p \in SUBSET GraphNames, q \in SUBSET GraphNames :
                reg' = [reg EXCEPT !.stats = cne_graph_cluster_stats_create(reg, <<p, q>>)]
       \/ \E stop \in 0 .. 1 : reg' = [reg EXCEPT !.stats = cne_graph_cluster_stats_get(reg, reg.stats, stop)]
       \/ reg' = [reg EXCEPT !.stats = cne_graph_cluster_stats_reset(reg.stats)]

Next == /\ ~reg.wild
        /\ Building \/ Graphs \/ Stats
        /\ UNCHANGED gmode

(***************************************************************************)
(* What the registry promises                                              *)
(***************************************************************************)
\* Names and ids of nodes are unique and ids count the registrations; a clone
\* is no clone's clone.
NodesRight ==
    /\ Cardinality(Names(reg.nodes)) = Len(reg.nodes)
    /\ \A i \in 1 .. Len(reg.nodes) :
          /\ reg.nodes[i].id = i - 1 /\ reg.nodes[i].nb <= Len(reg.nodes[i].edges)
          /\ reg.nodes[i].parent # NoId => reg.nodes[reg.nodes[i].parent + 1].parent = NoId

\* A graph holds once each node that its patterns matched when it was made and
\* each that these lead to over edges, and nothing else; each pattern matched.
\* A node's next nodes are those its edges named then, none of them a source or
\* input node or the node itself, and every node is reached from those (stated
\* as: a set with all of them that is closed under edges has all nodes).
Complete(g) ==
    LET nodes == g.fp.nodes
        P == 1 .. Len(nodes)
        Was(k) == g.was[SelectInSeq(g.was, LAMBDA n : n.name = nodes[k].name)]
        Roots == {k \in P : Was(k).src \/ Was(k).input}
        Named == {k \in P : \E i \in DOMAIN g.pats : nodes[k].name \in g.pats[i]}
        Reach(From) == \A S \in SUBSET P : From \subseteq S /\ (\A k \in S : ToSet(nodes[k].next) \subseteq S) => S = P
    IN  /\ Cardinality(Names(nodes)) = Len(nodes)
        /\ \A i \in DOMAIN g.pats : Names(g.was) \cap g.pats[i] # {} /\ Names(g.was) \cap g.pats[i] \subseteq Names(nodes)
        /\ Reach(Named) /\ Reach(Roots)
        /\ \E k \in Roots : Was(k).src
        /\ \A k \in P : /\ ToSet(nodes[k].next) \subseteq P \ (Roots \cup {k})
                         /\ nodes[k].id = Was(k).id
                         /\ [e \in DOMAIN nodes[k].next |-> nodes[nodes[k].next[e]].name] = SubSeq(Was(k).edges, 1, Was(k).nb)

\* The pieces of its memory lie one after the other and inside it: the header,
\* the source entries, the circular buffer with a place for every node, the
\* nodes with their edges.
LaidOut(fp) ==
    LET n == Len(fp.nodes)
        End(k) == fp.nodes[k].off + NodeSz + PtrSz * Len(fp.nodes[k].next)
    IN  /\ HdrSz <= fp.mem.cir + OffSz * fp.head
        /\ fp.mem.mask + 1 >= n /\ fp.mem.cir + OffSz * (fp.mem.mask + 1) + FenceSz <= fp.nodes[1].off
        /\ \A k \in 1 .. n - 1 : End(k) <= fp.nodes[k + 1].off
        /\ End(n) <= fp.mem.size
        /\ \A h \in fp.head .. -1 : \E k \in 1 .. n : fp.nodes[k].off = fp.cir[h] /\ \A j \in fp.head .. -1 :
              fp.cir[j] = fp.cir[h] => j = h

\* Graphs are as they were made, whatever the registry does later.  Their ids
\* are their places in the list, so that a new graph gets one of its own, until
\* a graph older than another is destroyed (graph_id--).
GraphsRight ==
    /\ \A i \in 1 .. Len(reg.graphs) : Complete(reg.graphs[i]) /\ LaidOut(reg.graphs[i].fp)
    /\ Cardinality(Names(reg.graphs)) = Len(reg.graphs)
    /\ reg.gid = Len(reg.graphs)
    /\ ~reg.gap => \A i \in 1 .. Len(reg.graphs) : /\ reg.graphs[i].id = i - 1
                                                   /\ cne_graph_id_to_name(reg, i - 1) = reg.graphs[i].name

\* Every node id of the cluster has one entry that sums over each graph at most
\* once, and never counts back.
StatsRight ==
    LET st == reg.stats
        used == {w[1] : w \in UNION {ToSet(st[i].where) : i \in 1 .. Len(st)}}
    IN  /\ Cardinality(Ids(st)) = Len(st)
        /\ \A g \in used : \A k \in 1 .. Len(reg.graphs[g].fp.nodes) :
              \E i \in 1 .. Len(st) : /\ st[i].id = reg.graphs[g].fp.nodes[k].id
                                     /\ Cardinality({j \in 1 .. Len(st[i].where) : st[i].where[j] = <<g, k>>}) = 1
        /\ \A i \in 1 .. Len(st) : st[i].prev <= st[i].calls /\ st[i].calls <= cluster_node_arregate_stats(reg, st[i]).calls

\* The registry of nodes and graphs.
RegistryRight == NodesRight /\ GraphsRight /\ StatsRight
=============================================================================
