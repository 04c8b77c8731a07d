-------------------------------- MODULE Acl --------------------------------
(***************************************************************************)
(* The access control lists of lib/usr/clib/acl.  A context collects       *)
(* rules; cne_acl_build merges them, rule by rule and field by field, into *)
(* multibit tries that share nodes by reference counts (acl_bld.c), lays   *)
(* the tries out as one table of transitions (acl_gen.c), and the          *)
(* classifiers walk that table for many packets at once: the scalar, SSE   *)
(* and AVX2 engines refill a slot with the next trie or packet when its    *)
(* walk ends (acl_run.h), the AVX512 engine walks one trie after another   *)
(* with masks of running lanes (acl_run_avx512_common.h).                  *)
(*                                                                         *)
(* A byte has Byte values in four groups, an input load takes LoadSz       *)
(* bytes, a range node has QuadSize boundaries.  A bitset is the set of    *)
(* its members, and the free lists of the build phase are the allocator:   *)
(* a node that is freed leaves the heap.  The duplicate links next and     *)
(* prev decide nothing: acl_merge_trie compares a node it has just         *)
(* allocated with an older one.  Sizes count transitions.                  *)
(***************************************************************************)
EXTENDS Integers, Sequences, FiniteSets, FiniteSetsExt, SequencesExt

CONSTANTS Byte, LoadSz, QuadSize, MatchSz,
          MaxTries, NodeMin, NodeMax, MaxRules, MaxPrio,
          Multiplier,  \* CNE_ACL_RESULTS_MULTIPLIER
          Lanes,       \* 32-bit lanes of an SSE register
          MaxIter,     \* packets the AVX512 classifiers take at a time
          Rules,       \* the rules a caller has: a sequence
          Groups,      \* sequences of their indexes, each added by one call
          Cfgs,        \* build configurations
          Batches,     \* sequences of packets
          Algs

VARIABLE acl

\* forces the evaluation of v before Op uses it
At(v, Op(_)) == CHOOSE r \in {Op(x) : x \in {v}} : TRUE

First(S) == CHOOSE x \in S : \A y \in S : x <= y

Last1(S) == CHOOSE x \in S : \A y \in S : x >= y

RECURSIVE Pow(_)
Pow(n) == IF n = 0 THEN 1 ELSE Byte * Pow(n - 1)

\* byte n of a field value, the least significant one first
ByteOf(v, n) == (v \div Pow(n)) % Byte

Bit(v, i) == (v \div 2^i) % 2

Bits == CHOOSE b \in 1..8 : 2^b = Byte

---------------------------------------------------------------------------
(* Build phase: nodes *)

Blank == [ptrs |-> <<>>, vals |-> {}, refs |-> 0, min |-> 0, mrt |-> <<>>]

\* the new node is h.next
acl_alloc_node(h) ==
  [next |-> h.next + 1,
   nodes |-> [i \in DOMAIN h.nodes \cup {h.next} |-> IF i = h.next THEN Blank ELSE h.nodes[i]]]

RECURSIVE acl_free_node(_, _)
acl_deref_ptr(h, p) ==
  IF p = 0 THEN h
  ELSE IF h.nodes[p].refs = 1 THEN acl_free_node([h EXCEPT !.nodes[p].refs = 0], p)
  ELSE [h EXCEPT !.nodes[p].refs = @ - 1]
acl_free_node(h, a) ==
  At(FoldLeft(LAMBDA g, q : acl_deref_ptr(g, q.to), h, h.nodes[a].ptrs),
     LAMBDA g : [g EXCEPT !.nodes = [i \in DOMAIN g.nodes \ {a} |-> g.nodes[i]]])

acl_add_ptr(h, a, p, bits) ==
  LET ps == h.nodes[a].ptrs
      same == {i \in DOMAIN ps : ps[i].to = p}
      n == First({i \in (h.nodes[a].min + 1)..(Len(ps) + 1) : i > Len(ps) \/ ps[i].to = 0})
      new == [to |-> p, vals |-> bits]
      put == IF same # {} THEN [ps EXCEPT ![First(same)].vals = @ \cup bits]
             ELSE IF n > Len(ps) THEN Append(ps, new) ELSE [ps EXCEPT ![n] = new]
  IN [h EXCEPT !.nodes[a].ptrs = put, !.nodes[a].vals = @ \cup bits,
               !.nodes[p].refs = IF same # {} THEN @ ELSE @ + 1]

acl_add_ptr_range(h, root, node, low, high) == acl_add_ptr(h, root, node, low..high)

acl_gen_mask(value, mask) ==
  {b \in 0..(Byte - 1) : \A i \in 0..(Bits - 1) : Bit(b, i) * Bit(mask, i) = Bit(value, i)}

acl_dup_node(h, a) ==
  LET src == h.nodes[a]
      g == acl_alloc_node(h)
      ref(k, q) == IF q.to = 0 THEN k ELSE [k EXCEPT !.nodes[q.to].refs = @ + 1]
  IN FoldLeft(ref, [g EXCEPT !.nodes[h.next] = [src EXCEPT !.refs = 0, !.min = 0]], src.ptrs)

RECURSIVE acl_compact_node_ptrs(_)
acl_compact_node_ptrs(ps) ==
  LET n == IF \E i \in DOMAIN ps : ps[i].to # 0
           THEN Last1({i \in DOMAIN ps : ps[i].to # 0}) ELSE 0
      holes == {i \in 1..n : ps[i].to = 0}
  IN IF holes = {} THEN SubSeq(ps, 1, n)
     ELSE acl_compact_node_ptrs(SubSeq([ps EXCEPT ![First(holes)] = ps[n]], 1, n - 1))

\* acl_copy_ptr for every pointer of b
acl_copy_ptr(h, c, b, inter) ==
  LET copy(g, q) == IF q.to = 0 \/ q.vals \subseteq inter THEN g
                    ELSE acl_add_ptr(g, c, q.to, q.vals \ inter)
  IN FoldLeft(copy, h, h.nodes[b].ptrs)

\* Fault: the better result of the first category decides for all of them.
LeafByFirstCategory(h, a, b) ==
  [h |-> h, c |-> IF h.nodes[a].mrt[1].prio >= h.nodes[b].mrt[1].prio THEN a ELSE b]

acl_resolve_leaf(h, a, b) ==
  LET ma == h.nodes[a].mrt
      mb == h.nodes[b].mrt
      A == \E n \in DOMAIN ma : ma[n].prio > mb[n].prio
      B == \E n \in DOMAIN ma : ma[n].prio < mb[n].prio
      best == [n \in DOMAIN ma |-> IF ma[n].prio < mb[n].prio THEN mb[n] ELSE ma[n]]
  IN IF ~B THEN [h |-> h, c |-> a]
     ELSE IF ~A THEN [h |-> h, c |-> b]
     ELSE [h |-> [acl_dup_node(h, a) EXCEPT !.nodes[h.next].mrt = best], c |-> h.next]

RECURSIVE acl_merge_trie(_, _, _, _)

\* one intersection of pointer n of c with pointer m of b; ar and br count
\* the pointers of c that lead into the a side and into the b side
MergeChild(st, b, c, level, n, m) ==
  LET cp == st.h.nodes[c].ptrs[n]
      bp == st.h.nodes[b].ptrs[m]
      inter == cp.vals \cap bp.vals
      moved(r) ==
        LET g == acl_add_ptr(r.h, c, r.c, inter)
            rest == g.nodes[c].ptrs[n].vals \ inter
            cut == [g EXCEPT !.nodes[c].ptrs[n].vals = rest]
        IN [h |-> IF rest # {} THEN cut
                  ELSE [acl_deref_ptr(cut, cp.to) EXCEPT !.nodes[c].ptrs[n].to = 0],
            ar |-> st.ar + (IF r.c # bp.to THEN 1 ELSE 0) - (IF rest = {} THEN 1 ELSE 0),
            br |-> st.br + 1]
  IN IF cp.to = 0 \/ bp.to = 0 \/ cp.to = bp.to \/ inter = {} THEN st
     ELSE At(acl_merge_trie(st.h, cp.to, bp.to, level + 1),
             LAMBDA r : IF r.c = cp.to THEN [st EXCEPT !.h = r.h] ELSE moved(r))

MergeChildren(h, b, c, level) ==
  LET nc == Len(h.nodes[c].ptrs)
      nb == Len(h.nodes[b].ptrs)
      gone == Cardinality({n \in 1..nc : h.nodes[c].ptrs[n].to = 0})
      row(s, n) == At(s, LAMBDA s1 : FoldLeft(LAMBDA st, m : MergeChild(st, b, c, level, n, m), s1,
                                              [m \in 1..nb |-> m]))
  IN At(FoldLeft(row, [h |-> [h EXCEPT !.nodes[c].min = nc], ar |-> nc - gone, br |-> 0],
                 [n \in 1..nc |-> n]),
        LAMBDA st : [st EXCEPT !.h.nodes[c].min = 0,
                               !.h.nodes[c].ptrs = acl_compact_node_ptrs(@),
                               !.h.nodes[b].ptrs = acl_compact_node_ptrs(@)])

acl_merge_trie(h, a, b, level) ==
  LET c == IF level > 0 THEN h.next ELSE a
      top(h1) ==
        LET inter == h1.nodes[c].vals \cap h1.nodes[b].vals
            out == h1.nodes[b].vals # inter
            rest(m) ==
              LET h2 == IF out THEN acl_copy_ptr(m.h, c, b, inter) ELSE m.h
                  r == IF c = a THEN c
                       ELSE IF m.br = 0 /\ ~out THEN a ELSE IF m.ar = 0 THEN b ELSE c
                  h3 == IF r = c THEN h2 ELSE acl_free_node(h2, c)
              IN [h |-> IF level = 0 THEN acl_free_node(h3, b) ELSE h3, c |-> r]
        IN At(IF inter = {} THEN [h |-> h1, ar |-> Len(h1.nodes[a].ptrs), br |-> 0]
              ELSE MergeChildren(h1, b, c, level), rest)
  IN IF h.nodes[a].mrt # <<>> THEN acl_resolve_leaf(h, a, b)
     ELSE At(IF level > 0 THEN acl_dup_node(h, a) ELSE h, top)

---------------------------------------------------------------------------
(* Build phase: one field, one rule, one trie *)

RECURSIVE acl_gen_full_range(_, _, _, _)
acl_gen_full_range(h, root, end, size) ==
  IF size = 1 THEN acl_add_ptr_range(h, root, end, 0, Byte - 1)
  ELSE acl_gen_full_range(acl_add_ptr_range(acl_alloc_node(h), root, h.next, 0, Byte - 1),
                          h.next, end, size - 1)

acl_gen_range_mdl(h, root, end, lo, hi, size) ==
  acl_gen_full_range(acl_add_ptr_range(acl_alloc_node(h), root, h.next, lo, hi),
                     h.next, end, size - 1)

RECURSIVE acl_gen_range_low(_, _, _, _, _)
acl_gen_range_low(h, root, end, lo, size) ==
  LET n == size - 1
      g == acl_add_ptr_range(acl_alloc_node(h), root, h.next, ByteOf(lo, n), ByteOf(lo, n))
      k == acl_gen_range_low(g, h.next, end, lo, n)
      l == ByteOf(lo, n - 1)
  IN IF n = 0 THEN acl_add_ptr_range(h, root, end, ByteOf(lo, 0), Byte - 1)
     ELSE IF n > 1 /\ l # Byte - 1
          THEN acl_gen_range_mdl(k, h.next, end, l + 1, Byte - 1, n)
          ELSE k

RECURSIVE acl_gen_range_high(_, _, _, _, _)
acl_gen_range_high(h, root, end, hi, size) ==
  LET n == size - 1
      g == acl_add_ptr_range(acl_alloc_node(h), root, h.next, ByteOf(hi, n), ByteOf(hi, n))
      k == acl_gen_range_high(g, h.next, end, hi, n)
      u == ByteOf(hi, n - 1)
  IN IF n = 0 THEN acl_add_ptr_range(h, root, end, 0, ByteOf(hi, 0))
     ELSE IF n > 1 /\ u # 0 THEN acl_gen_range_mdl(k, h.next, end, 0, u - 1, n) ELSE k

\* the bytes of lo and hi from n down to 1 that are equal form one path
RECURSIVE CommonPath(_, _, _, _, _)
CommonPath(h, prev, lo, hi, n) ==
  IF n = 0 \/ ByteOf(lo, n) # ByteOf(hi, n) THEN [h |-> h, prev |-> prev, n |-> n]
  ELSE CommonPath(acl_add_ptr_range(acl_alloc_node(h), prev, h.next, ByteOf(lo, n), ByteOf(hi, n)),
                  h.next, lo, hi, n - 1)

acl_gen_range_trie(h, lo, hi, size) ==
  LET end == h.next
      root == h.next + 1
      branch(c) ==
        LET l == ByteOf(lo, c.n)
            u == ByteOf(hi, c.n)
            lo00 == \A k \in 0..(c.n - 1) : ByteOf(lo, k) = 0
            hiff == \A k \in 0..(c.n - 1) : ByteOf(hi, k) = Byte - 1
            h1 == IF lo00 THEN c.h ELSE acl_gen_range_low(c.h, c.prev, end, lo, c.n + 1)
            h2 == IF hiff THEN h1 ELSE acl_gen_range_high(h1, c.prev, end, hi, c.n + 1)
        IN IF c.n = 0 THEN acl_add_ptr_range(c.h, c.prev, end, l, u)
           ELSE IF l + 1 # u \/ lo00 \/ hiff
           THEN acl_gen_range_mdl(h2, c.prev, end, IF lo00 THEN l ELSE l + 1,
                                  IF hiff THEN u ELSE u - 1, c.n + 1)
           ELSE h2
  IN [h |-> At(CommonPath(acl_alloc_node(acl_alloc_node(h)), root, lo, hi, size - 1), branch),
      root |-> root, end |-> end]

acl_gen_mask_trie(h, value, mask, size) ==
  LET byte(st, n) ==
        LET k == size - n
            m == ByteOf(mask, k)
            v == {i \in 0..(Bits - 1) : Bit(ByteOf(value, k), i) = 1 /\ Bit(m, i) = 1}
            bits == acl_gen_mask(MapThenSumSet(LAMBDA i : 2^i, v), m)
        IN At(acl_add_ptr(acl_alloc_node(st.h), st.end, st.h.next, bits),
              LAMBDA g : [st EXCEPT !.h = g, !.end = st.h.next])
  IN FoldLeft(byte, [h |-> acl_alloc_node(h), root |-> h.next, end |-> h.next],
              [i \in 1..size |-> i])

\* CNE_ACL_MASKLEN_TO_BITMASK
Masklen(v, size) == Pow(size) - 2^(Bits * size - v)

FieldTrie(h, def, rule) ==
  LET v == rule.val[def.fi]
      m == rule.rng[def.fi]
  IN CASE def.type = "bitmask" -> acl_gen_mask_trie(h, v, m, def.size)
       [] def.type = "mask" -> acl_gen_mask_trie(h, v, Masklen(m, def.size), def.size)
       [] def.type = "range" -> acl_gen_range_trie(h, v, m, def.size)

\* the chain of a rule's fields, with its results in the last node
RuleTrie(h, rule, defs, cats) ==
  LET field(st, def) ==
        At(FieldTrie(st.h, def, rule),
           LAMBDA f : [h |-> acl_merge_trie(f.h, st.end, f.root, 0).h, root |-> st.root,
                       end |-> f.end])
      mrt == [m \in 1..cats |-> IF m \in rule.cats THEN [prio |-> rule.prio, res |-> rule.user]
                                ELSE [prio |-> 0, res |-> 0]]
  IN At(FoldLeft(field, [h |-> [acl_alloc_node(h) EXCEPT !.nodes[h.next].refs = 1],
                         root |-> h.next, end |-> h.next], defs),
        LAMBDA st : [h |-> [st.h EXCEPT !.nodes[st.end].mrt = mrt], root |-> st.root])

NumNodes(h) == Cardinality(DOMAIN h.nodes)

\* kept: how many of the rules the trie is for when it grew too fast at one
RECURSIVE BuildFrom(_, _, _, _, _, _, _)
BuildFrom(h, trie, rules, i, defs, cats, max) ==
  IF i > Len(rules) THEN [h |-> h, trie |-> trie, kept |-> Len(rules)]
  ELSE At(RuleTrie(h, rules[i], defs, cats),
          LAMBDA r : At(acl_merge_trie(r.h, trie, r.root, 0).h,
             LAMBDA g : IF NumNodes(g) - NumNodes(r.h) > max
                        THEN [h |-> g, trie |-> trie, kept |-> IF i = 1 THEN 1 ELSE i - 1]
                        ELSE BuildFrom(g, trie, rules, i + 1, defs, cats, max)))

build_trie(h, rules, defs, cats, max) ==
  BuildFrom(acl_alloc_node(h), h.next, rules, 1, defs, cats, max)

---------------------------------------------------------------------------
(* Build phase: the rule sets *)

BitCount(v, size) == Cardinality({i \in 0..(Bits * size - 1) : Bit(v, i) = 1})

acl_calc_wildness(rule, def) ==
  LET n == Bits * def.size
      v == rule.val[def.fi]
      m == rule.rng[def.fi]
  IN CASE def.type = "bitmask" -> ((n - BitCount(m, def.size)) * 100) \div n
       [] def.type = "mask" -> ((n - m) * 100) \div n
       [] def.type = "range" -> ((m - v) * 100) \div (Pow(def.size) - 1)

\* the fields left: an input load all of whose fields are wild in every rule
\* is dropped, the first one never is
acl_rule_stats(rules, defs) ==
  LET wild(d) == \A i \in DOMAIN rules : acl_calc_wildness(rules[i], d) = 100
      drop(d) == /\ d.ii # defs[1].ii
                 /\ \A k \in DOMAIN defs : defs[k].ii = d.ii => wild(defs[k])
  IN SelectSeq(defs, LAMBDA d : ~drop(d))

\* >= 0: r1 goes before r2
rule_cmp_wildness(r1, r2, defs) ==
  LET diff == {n \in 2..Len(defs) : acl_calc_wildness(r1, defs[n]) # acl_calc_wildness(r2, defs[n])}
  IN IF diff = {} THEN 0
     ELSE acl_calc_wildness(r1, defs[First(diff)]) - acl_calc_wildness(r2, defs[First(diff)])

\* the merge sort is stable: the wildest rules first
sort_rules(rules, defs) ==
  LET insert(s, r) ==
        LET k == Len(SelectSeq(s, LAMBDA x : rule_cmp_wildness(x, r, defs) >= 0))
        IN SubSeq(s, 1, k) \o <<r>> \o SubSeq(s, k + 1, Len(s))
  IN FoldLeft(insert, <<>>, rules)

\* the offset of each input load
acl_build_index(defs) ==
  LET heads == SelectSeq([n \in DOMAIN defs |-> n],
                         LAMBDA n : n = 1 \/ defs[n].ii # defs[n - 1].ii)
  IN [i \in DOMAIN heads |-> defs[heads[i]].off]

BuiltTrie(t, rs, ds) ==
  [h |-> t.h, trie |-> t.trie, rules |-> rs, kept |-> t.kept, defs |-> ds,
   idx |-> acl_build_index(ds)]

SortedTrie(h, rs, ds, cats, max) == BuiltTrie(build_trie(h, rs, ds, cats, max), rs, ds)

TrieOfFields(h, rules, ds, cats, max) == SortedTrie(h, sort_rules(rules, ds), ds, cats, max)

build_one_trie(h, rules, defs, cats, max) ==
  TrieOfFields(h, rules, acl_rule_stats(rules, defs), cats, max)

NoLimit == 1000000

\* a trie that grows too fast is rebuilt for the rules before the one that
\* made it grow, and the others start the next trie
RECURSIVE acl_build_tries(_, _, _, _, _, _)
acl_build_tries(h, tries, rules, defs, cats, max) ==
  At(build_one_trie(h, rules, defs, cats, max), LAMBDA t :
    IF t.kept = Len(rules) THEN [rc |-> "ok", h |-> t.h, tries |-> Append(tries, t)]
    ELSE IF Len(tries) + 1 = MaxTries THEN [rc |-> "ENOMEM", h |-> t.h, tries |-> tries]
    ELSE At(build_one_trie(acl_free_node(t.h, t.trie), SubSeq(t.rules, 1, t.kept), t.defs,
                           cats, NoLimit), LAMBDA u :
           acl_build_tries(u.h, Append(tries, u), SubSeq(t.rules, t.kept + 1, Len(rules)),
                           t.defs, cats, max)))

\* the rules with a category of the build, the last one first
acl_build_rules(rules, cats) ==
  Reverse(SelectSeq(rules, LAMBDA r : r.cats \cap (1..cats) # {}))

acl_bld(rules, cfg, max) ==
  LET rs == acl_build_rules(rules, cfg.cats)
  IN IF rs = <<>> THEN [rc |-> "EINVAL"]
     ELSE acl_build_tries([next |-> 1, nodes |-> <<>>], <<>>, rs, cfg.defs, cfg.cats, max)

---------------------------------------------------------------------------
(* Generation of the run-time table *)

Half == Byte \div 2

Gr64 == Byte \div 4

\* the values in the order of a signed byte
Signed == [i \in 1..Byte |-> (i - 1 + Half) % Byte]

NoMatch == [t |-> "match", a |-> 0, r |-> [i \in 1..QuadSize |-> 0]]

Idle == [t |-> "single", a |-> Byte, r |-> [i \in 1..QuadSize |-> 0]]

\* the runs of values of S, or of its complement
acl_count_sequential_groups(S) ==
  Cardinality({i \in 1..Byte : Signed[i] \in S /\ (i = 1 \/ Signed[i - 1] \notin S)})

acl_count_fanout(nd) ==
  acl_count_sequential_groups((0..(Byte - 1)) \ nd.vals)
  + FoldLeft(LAMBDA s, q : s + IF q.to = 0 THEN 0 ELSE acl_count_sequential_groups(q.vals),
             0, nd.ptrs)

\* which pointer each value takes, 0 for none
acl_node_fill_dfa(nd) ==
  [b \in 0..(Byte - 1) |->
     LET S == {x \in DOMAIN nd.ptrs : nd.ptrs[x].to # 0 /\ b \in nd.ptrs[x].vals}
     IN IF S = {} THEN 0 ELSE Last1(S)]

\* the place of each of the four groups, equal groups sharing one
acl_dfa_count_gr64(dfa) ==
  LET grp(i) == [j \in 0..(Gr64 - 1) |-> dfa[i * Gr64 + j]]
      add(g, i) == LET S == {j \in 0..(i - 1) : grp(j) = grp(i)}
                   IN [k |-> IF S = {} THEN g.k + 1 ELSE g.k,
                       at |-> Append(g.at, IF S = {} THEN g.k ELSE g.at[First(S) + 1])]
  IN FoldLeft(add, [k |-> 0, at |-> <<>>], <<0, 1, 2, 3>>)

NodeType(nd, force) ==
  IF nd.mrt # <<>> \/ nd.ptrs = <<>> THEN [t |-> "match", n |-> 1]
  ELSE IF force THEN [t |-> "dfa", n |-> 4, at |-> <<0, 1, 2, 3>>]
  ELSE LET f == acl_count_fanout(nd)
           g == acl_dfa_count_gr64(acl_node_fill_dfa(nd))
       IN IF f = 1 THEN [t |-> "single", n |-> 1]
          ELSE IF f <= QuadSize + 1 THEN [t |-> "qrange", n |-> f]
          ELSE [t |-> "dfa", n |-> g.k, at |-> g.at]

RECURSIVE Reach(_, _)
Reach(h, S) ==
  LET T == S \cup UNION {{h.nodes[a].ptrs[i].to : i \in DOMAIN h.nodes[a].ptrs} : a \in S}
  IN IF T \ {0} = S THEN S ELSE Reach(h, T \ {0})

\* roots are forced to be DFA nodes
acl_count_trie_types(h, roots) ==
  [a \in Reach(h, roots) |-> NodeType(h.nodes[a], a \in roots)]

CountOf(types, t) ==
  MapThenSumSet(LAMBDA a : types[a].n, {a \in DOMAIN types : types[a].t = t})

\* where the nodes of each kind begin in the table
acl_calc_counts_indices(types) ==
  LET quad == Byte + 1 + CountOf(types, "dfa") * Gr64
      single == quad + CountOf(types, "qrange")
  IN [dfa |-> Byte + 1, quad |-> quad, single |-> single,
      start |-> single + CountOf(types, "single") + 1]

\* the runs of a range node: the pointer of each and the last value of each
Runs(dfa) ==
  LET at == SelectSeq([i \in 1..Byte |-> i], LAMBDA i : i = 1 \/ dfa[Signed[i]] # dfa[Signed[i - 1]])
  IN [to |-> [k \in DOMAIN at |-> dfa[Signed[at[k]]]],
      last |-> [k \in 1..(Len(at) - 1) |-> Signed[at[k + 1] - 1]]]

Transition(nd, ty, g) ==
  CASE ty.t = "dfa" -> [t |-> "dfa", a |-> g.dfa, r |-> [i \in 1..4 |-> (i - 1 - ty.at[i]) * Gr64]]
    [] ty.t = "single" -> [t |-> "single", a |-> g.single, r |-> [i \in 1..QuadSize |-> Half - 1]]
    [] ty.t = "qrange" ->
         LET last == Runs(acl_node_fill_dfa(nd)).last
         IN [t |-> "qrange", a |-> g.quad,
             r |-> [i \in 1..QuadSize |-> IF i <= Len(last) THEN last[i] ELSE Half - 1]]
    [] ty.t = "match" -> [NoMatch EXCEPT !.a = Len(g.match)]

\* the entries of a node once the transitions of its children are known
acl_add_ptrs(nd, ty, tr, index) ==
  LET dfa == acl_node_fill_dfa(nd)
      go(x) == IF x = 0 THEN NoMatch ELSE index[nd.ptrs[x].to]
  IN CASE ty.t = "dfa" ->
            [p \in tr.a..(tr.a + ty.n * Gr64 - 1) |->
               LET i == CHOOSE i \in 0..3 : ty.at[i + 1] = (p - tr.a) \div Gr64
               IN go(dfa[i * Gr64 + ((p - tr.a) % Gr64)])]
       [] ty.t = "single" ->
            [p \in {tr.a} |-> go(Last1({x \in DOMAIN nd.ptrs : nd.ptrs[x].to # 0}))]
       [] ty.t = "qrange" -> [p \in tr.a..(tr.a + ty.n - 1) |-> go(Runs(dfa).to[p - tr.a + 1])]
       [] ty.t = "match" -> <<>>

Merged(f, g) == [x \in DOMAIN f \cup DOMAIN g |-> IF x \in DOMAIN g THEN g[x] ELSE f[x]]

\* a node takes its place, then its children do, then its entries are filled
RECURSIVE acl_gen_node(_, _, _, _)
acl_gen_node(g, h, types, a) ==
  LET nd == h.nodes[a]
      ty == types[a]
      child(k, q) == IF q.to = 0 THEN k ELSE acl_gen_node(k, h, types, q.to)
  IN IF a \in DOMAIN g.index THEN g
     ELSE At(Transition(nd, ty, g), LAMBDA tr :
            At([g EXCEPT !.index = Merged(@, [x \in {a} |-> tr]),
                         !.dfa = IF ty.t = "dfa" THEN @ + ty.n * Gr64 ELSE @,
                         !.quad = IF ty.t = "qrange" THEN @ + ty.n ELSE @,
                         !.single = IF ty.t = "single" THEN @ + 1 ELSE @,
                         !.match = IF ty.t = "match" THEN Append(@, nd.mrt) ELSE @], LAMBDA k :
              At(FoldLeft(child, k, nd.ptrs), LAMBDA m :
                [m EXCEPT !.tab = Merged(@, acl_add_ptrs(nd, ty, tr, m.index))])))

\* match[1] is the result of no match; match holds one entry per match node
cne_acl_gen(h, tries, cats, max_size) ==
  LET roots == {tries[n].trie : n \in DOMAIN tries}
      types == acl_count_trie_types(h, roots)
      ix == acl_calc_counts_indices(types)
      none == [m \in 1..cats |-> [prio |-> 0, res |-> 0]]
      g0 == [tab |-> [p \in 0..Byte |-> IF p = Byte THEN Idle ELSE NoMatch], index |-> <<>>,
             match |-> <<none>>, dfa |-> ix.dfa, quad |-> ix.quad, single |-> ix.single]
  IN IF ix.start + (CountOf(types, "match") + 1) * MatchSz > max_size THEN [rc |-> "ERANGE"]
     ELSE At(FoldLeft(LAMBDA g, t : acl_gen_node(g, h, types, t.trie), g0, tries), LAMBDA g :
            [rc |-> "ok", tab |-> g.tab, match |-> g.match, cats |-> cats, start |-> ix.start,
             tries |-> [n \in DOMAIN tries |-> [root |-> g.index[tries[n].trie].a,
                                                idx |-> tries[n].idx]]])

---------------------------------------------------------------------------
(* Classification *)

Sign(b) == IF b >= Half THEN b - Byte ELSE b

DfaOffset(tr, in) == in - tr.r[in \div Gr64 + 1]

\* the first boundary that is not below the input, found by its lane's top bit
scalar_transition(tr, in) ==
  LET hit(i) == IF (tr.r[i] >= Half) = (in >= Half) THEN tr.r[i] % Half >= in % Half
                ELSE in >= Half
      S == {i \in 1..QuadSize : hit(i)}
  IN tr.a + (IF tr.t = "dfa" THEN DfaOffset(tr, in)
             ELSE IF S = {} THEN QuadSize ELSE First(S) - 1)

\* the number of boundaries below the input (SSE and AVX2)
ACL_TR_CALC_ADDR(tr, in) ==
  tr.a + (IF tr.t = "dfa" THEN DfaOffset(tr, in)
          ELSE Cardinality({i \in 1..QuadSize : Sign(in) > Sign(tr.r[i])}))

\* the last boundary below the input (AVX512)
calc_addr(tr, in) ==
  LET S == {i \in 1..QuadSize : Sign(in) > Sign(tr.r[i])}
  IN tr.a + (IF tr.t = "dfa" THEN DfaOffset(tr, in) ELSE IF S = {} THEN 0 ELSE Last1(S))

\* the result of match entry a for category c
ResultOf(rt, a, c) == IF c <= rt.cats THEN rt.match[a + 1][c] ELSE [prio |-> 0, res |-> 0]

\* a free completion, 0 when there is none
alloc_completion(cm) ==
  LET free == {n \in DOMAIN cm : cm[n].count = 0} IN IF free = {} THEN 0 ELSE First(free)

acl_start_next_trie(rt, data, e, s) ==
  LET n == IF e.trie = 1 THEN alloc_completion(e.cm) ELSE e.last
      t == rt.tries[e.trie]
      wrap == e.trie = Len(rt.tries)
      begun == [tr |-> rt.tab[t.root + data[e.pkt][t.idx[1] + 1]], pkt |-> e.pkt, trie |-> e.trie,
                di |-> 2, cm |-> n]
  IN IF e.pkt > Len(data) THEN [e EXCEPT !.slot[s] = [tr |-> Idle, pkt |-> 0, trie |-> 0, di |-> 0, cm |-> 0]]
     ELSE [e EXCEPT !.slot[s] = begun, !.last = n, !.started = @ + 1,
                    !.trie = IF wrap THEN 1 ELSE @ + 1, !.pkt = IF wrap THEN @ + 1 ELSE @,
                    !.cm = IF e.trie = 1 /\ n # 0 THEN [@ EXCEPT ![n].count = Len(rt.tries)] ELSE @,
                    !.lost = @ \/ n = 0]

\* the first trie of a packet sets its results, another one replaces those
\* whose priority is not higher
resolve_priority(rt, e, s, cats) ==
  LET sl == e.slot[s]
      cm == e.cm[sl.cm]
      new(c) == ResultOf(rt, sl.tr.a, c)
      take(c) == cm.count = Len(rt.tries) \/ cm.prio[c] <= new(c).prio
  IN [e EXCEPT !.cm[sl.cm].prio = [c \in 1..cats |-> IF take(c) THEN new(c).prio ELSE cm.prio[c]],
               !.out[sl.pkt] = [c \in 1..cats |-> IF take(c) THEN new(c).res ELSE @[c]]]

acl_match_check(rt, data, cats, e, s) ==
  IF e.slot[s].tr.t # "match" THEN e
  ELSE At(resolve_priority(rt, e, s, cats), LAMBDA f :
         acl_start_next_trie(rt, data, [f EXCEPT !.started = @ - 1, !.cm[e.slot[s].cm].count = @ - 1], s))

\* until no slot of the group g is at a match
RECURSIVE acl_match_check_x4(_, _, _, _, _)
acl_match_check_x4(rt, data, cats, e, g) ==
  IF \A i \in DOMAIN g : e.slot[g[i]].tr.t # "match" THEN e
  ELSE acl_match_check_x4(rt, data, cats,
         FoldLeft(LAMBDA f, s : acl_match_check(rt, data, cats, f, s), e, g), g)

\* LoadSz bytes of input for one slot
Load(rt, data, sl, Addr(_, _)) ==
  LET byte(k) == IF sl.pkt = 0 THEN 0 ELSE data[sl.pkt][rt.tries[sl.trie].idx[sl.di] + k]
  IN [sl EXCEPT !.tr = FoldLeft(LAMBDA tr, k : rt.tab[Addr(tr, byte(k))], sl.tr,
                                [k \in 1..LoadSz |-> k]),
                !.di = IF sl.pkt = 0 THEN 0 ELSE @ + 1]

RECURSIVE Search(_, _, _, _, _, _)
Search(rt, data, cats, e, groups, simd) ==
  IF e.started = 0 THEN e
  ELSE At([e EXCEPT !.slot = [s \in DOMAIN @ |->
             IF simd THEN Load(rt, data, @[s], ACL_TR_CALC_ADDR)
             ELSE Load(rt, data, @[s], scalar_transition)]], LAMBDA f :
         Search(rt, data, cats,
                FoldLeft(LAMBDA k, g : acl_match_check_x4(rt, data, cats, k, g), f, groups),
                groups, simd))

Flow(data, cats, n) ==
  [pkt |-> 1, trie |-> 1, started |-> 0, last |-> 0, lost |-> FALSE,
   cm |-> [i \in 1..n |-> [count |-> 0, prio |-> [c \in 1..cats |-> 0]]],
   slot |-> [i \in 1..n |-> [tr |-> Idle, pkt |-> 0, trie |-> 0, di |-> 0, cm |-> 0]],
   out |-> [p \in DOMAIN data |-> [c \in 1..cats |-> 0]]]

\* groups: the slots in the order in which their matches are processed
Engine(rt, data, cats, groups, simd) ==
  LET order == FoldLeft(LAMBDA s, g : s \o g, <<>>, groups)
      n == Len(order)
  IN At(FoldLeft(LAMBDA e, s : acl_start_next_trie(rt, data, e, s), Flow(data, cats, n),
                 [i \in 1..n |-> i]), LAMBDA e :
        Search(rt, data, cats,
               FoldLeft(LAMBDA k, g : acl_match_check_x4(rt, data, cats, k, g), e, groups),
               groups, simd))

Slots(from, n) == [i \in 1..n |-> from + i - 1]

cne_acl_classify_scalar(rt, data, cats) == Engine(rt, data, cats, <<Slots(1, 2)>>, FALSE)

search_sse_4(rt, data, cats) == Engine(rt, data, cats, <<Slots(1, Lanes)>>, TRUE)

search_sse_8(rt, data, cats) ==
  Engine(rt, data, cats, <<Slots(1, Lanes), Slots(Lanes + 1, Lanes)>>, TRUE)

\* each half takes its slots i and i + Lanes in turn
search_avx2x16(rt, data, cats) ==
  LET half(from) == [i \in 1..(2 * Lanes) |-> from + (i - 1) \div 2 + ((i - 1) % 2) * Lanes]
  IN Engine(rt, data, cats, <<half(1), half(2 * Lanes + 1)>>, TRUE)

cne_acl_classify_sse(rt, data, cats) ==
  IF Len(data) >= 2 * Lanes THEN search_sse_8(rt, data, cats)
  ELSE IF Len(data) >= Lanes THEN search_sse_4(rt, data, cats)
  ELSE cne_acl_classify_scalar(rt, data, cats)

cne_acl_classify_avx2(rt, data, cats) ==
  IF Len(data) >= 4 * Lanes THEN search_avx2x16(rt, data, cats)
  ELSE cne_acl_classify_sse(rt, data, cats)

(* AVX512: two groups of lanes walk one trie; a lane is on while it has a  *)
(* packet, pos being that packet and the place of its match                *)

OffLane == [tr |-> Idle, pkt |-> 0, trie |-> 0, di |-> 0, on |-> FALSE]

\* a packet for each lane of ls, in order, and its first transition
start_flow(rt, data, f, g, ls) ==
  LET t == rt.tries[f.trie]
      begin(k, i) ==
        LET p == f.pkt + i
        IN [k EXCEPT !.lane[g][ls[i + 1]] =
              [tr |-> rt.tab[t.root + data[p][t.idx[1] + 1]], pkt |-> p, trie |-> f.trie,
               di |-> 2, on |-> TRUE]]
  IN [FoldLeft(begin, f, [i \in 1..Len(ls) |-> i - 1]) EXCEPT !.pkt = @ + Len(ls)]

\* the lanes at a match that get another packet: the highest ones go without
update_flow_mask(f, ls, total) ==
  LET n == total - f.pkt + 1 IN SubSeq(ls, 1, IF n < Len(ls) THEN n ELSE Len(ls))

match_process(rt, data, f, g) ==
  LET ls == SelectSeq(Slots(1, Len(f.lane[g])), LAMBDA l : f.lane[g][l].tr.t = "match")
      save(k, l) == [k EXCEPT !.match[f.lane[g][l].pkt] = f.lane[g][l].tr.a, !.lane[g][l] = OffLane]
  IN start_flow(rt, data, FoldLeft(save, f, ls), g, update_flow_mask(f, ls, Len(data)))

RECURSIVE match_check_process(_, _, _)
match_check_process(rt, data, f) ==
  IF \A g \in 1..2 : \A l \in DOMAIN f.lane[g] : f.lane[g][l].tr.t # "match" THEN f
  ELSE At(match_process(rt, data, f, 1), LAMBDA k :
         match_check_process(rt, data, match_process(rt, data, k, 2)))

RECURSIVE SearchTrie(_, _, _)
SearchTrie(rt, data, f) ==
  IF \A g \in 1..2 : \A l \in DOMAIN f.lane[g] : ~f.lane[g][l].on THEN f.match
  ELSE At([f EXCEPT !.lane = [g \in 1..2 |-> [l \in DOMAIN @[g] |-> Load(rt, data, @[g][l], calc_addr)]]],
          LAMBDA k : SearchTrie(rt, data, match_check_process(rt, data, k)))

search_trie(rt, data, t, n) ==
  LET f0 == [pkt |-> 1, trie |-> t, lane |-> [g \in 1..2 |-> [l \in 1..n |-> OffLane]],
             match |-> [p \in DOMAIN data |-> 0]]
      f1 == start_flow(rt, data, f0, 1, Slots(1, n))
  IN SearchTrie(rt, data, match_check_process(rt, data, start_flow(rt, data, f1, 2, Slots(1, n))))

\* the match of each trie, the last one of the highest priority wins
resolve_pri(rt, match, p, c) ==
  LET best(b, t) == LET r == ResultOf(rt, match[t][p], c) IN IF b.prio > r.prio THEN b ELSE r
  IN FoldLeft(best, ResultOf(rt, match[1][p], c), [t \in 1..(Len(rt.tries) - 1) |-> t + 1]).res

search_avx512(rt, data, cats, n) ==
  At([t \in DOMAIN rt.tries |-> search_trie(rt, data, t, n)], LAMBDA match :
     [out |-> [p \in DOMAIN data |-> [c \in 1..cats |-> resolve_pri(rt, match, p, c)]],
      lost |-> FALSE])

search_avx512x8x2(rt, data, cats) == search_avx512(rt, data, cats, 2 * Lanes)

search_avx512x16x2(rt, data, cats) == search_avx512(rt, data, cats, 4 * Lanes)

Both(a, b) == [out |-> a.out \o b.out, lost |-> a.lost \/ b.lost]

RECURSIVE cne_acl_classify_avx512x16(_, _, _)
cne_acl_classify_avx512x16(rt, data, cats) ==
  IF Len(data) > MaxIter
  THEN Both(search_avx512x8x2(rt, SubSeq(data, 1, MaxIter), cats),
            cne_acl_classify_avx512x16(rt, SubSeq(data, MaxIter + 1, Len(data)), cats))
  ELSE IF Len(data) >= 4 * Lanes THEN search_avx512x8x2(rt, data, cats)
  ELSE cne_acl_classify_sse(rt, data, cats)

RECURSIVE cne_acl_classify_avx512x32(_, _, _)
cne_acl_classify_avx512x32(rt, data, cats) ==
  IF Len(data) > MaxIter
  THEN Both(search_avx512x16x2(rt, SubSeq(data, 1, MaxIter), cats),
            cne_acl_classify_avx512x32(rt, SubSeq(data, MaxIter + 1, Len(data)), cats))
  ELSE IF Len(data) >= 8 * Lanes THEN search_avx512x16x2(rt, data, cats)
  ELSE cne_acl_classify_avx512x16(rt, data, cats)

classify_fns(alg, rt, data, cats) ==
  CASE alg = "scalar" -> cne_acl_classify_scalar(rt, data, cats)
    [] alg = "sse" -> cne_acl_classify_sse(rt, data, cats)
    [] alg = "avx2" -> cne_acl_classify_avx2(rt, data, cats)
    [] alg = "avx512x16" -> cne_acl_classify_avx512x16(rt, data, cats)
    [] alg = "avx512x32" -> cne_acl_classify_avx512x32(rt, data, cats)

---------------------------------------------------------------------------
(* The calls of a user *)

NoRt == [rc |-> "none"]

NoOut == [batch |-> 0, cats |-> 0, res |-> <<>>]

\* the context keeps the rules of its last build only here: what the table
\* in use stands for
cne_acl_create(alg) ==
  [rules |-> <<>>, rt |-> NoRt, from |-> <<>>, cfg |-> 0, alg |-> alg, sound |-> TRUE,
   lost |-> FALSE, out |-> NoOut]

acl_check_rule(r) == r.cats # {} /\ r.prio \in 1..MaxPrio

cne_acl_add_rules(g) ==
  LET rs == [i \in DOMAIN g |-> Rules[g[i]]]
  IN /\ acl.out = NoOut
     /\ \A i \in DOMAIN rs : acl_check_rule(rs[i])
     /\ Len(acl.rules) + Len(rs) <= MaxRules
     /\ acl' = [acl EXCEPT !.rules = @ \o g]

\* the run-time table is not affected
cne_acl_reset_rules ==
  /\ acl.out = NoOut
  /\ acl' = [acl EXCEPT !.rules = <<>>]

\* every node of the tries is alive and counts the pointers to it, and no
\* other node is left
Sound(h, tries) ==
  LET roots == {tries[n].trie : n \in DOMAIN tries}
      to(a) == {<<b, i>> \in (DOMAIN h.nodes) \X (1..20) :
                  i <= Len(h.nodes[b].ptrs) /\ h.nodes[b].ptrs[i].to = a}
  IN /\ \A a \in DOMAIN h.nodes : \A i \in DOMAIN h.nodes[a].ptrs :
          h.nodes[a].ptrs[i].to \in DOMAIN h.nodes
     /\ Reach(h, roots) = DOMAIN h.nodes
     /\ \A a \in DOMAIN h.nodes \ roots : h.nodes[a].refs = Cardinality(to(a))

\* smaller limits on the growth of a trie are tried while the table is too big
RECURSIVE Build(_, _, _)
Build(rules, cfg, n) ==
  At(acl_bld(rules, cfg, n), LAMBDA b :
    IF b.rc # "ok" THEN [rt |-> NoRt, sound |-> TRUE]
    ELSE At(cne_acl_gen(b.h, b.tries, cfg.cats, IF cfg.max = 0 THEN NoLimit ELSE cfg.max), LAMBDA g :
           IF g.rc = "ok" THEN [rt |-> g, sound |-> Sound(b.h, b.tries)]
           ELSE IF n \div 2 >= NodeMin THEN Build(rules, cfg, n \div 2)
           ELSE [rt |-> NoRt, sound |-> Sound(b.h, b.tries)]))

\* the old table is dropped before the new one is built
cne_acl_build(c) ==
  LET cfg == Cfgs[c]
  IN /\ acl.out = NoOut
     /\ \E b \in {Build([i \in DOMAIN acl.rules |-> Rules[acl.rules[i]]], cfg,
                        IF cfg.max = 0 THEN NodeMin ELSE NodeMax)} :
          acl' = [acl EXCEPT !.rt = b.rt, !.sound = b.sound, !.from = acl.rules, !.cfg = c]

cne_acl_reset ==
  /\ acl.out = NoOut
  /\ acl' = [acl EXCEPT !.rules = <<>>, !.rt = NoRt, !.from = <<>>, !.cfg = 0]

cne_acl_set_ctx_classify(alg) ==
  /\ acl.out = NoOut
  /\ acl' = [acl EXCEPT !.alg = alg]

cne_acl_classify(b, cats) ==
  /\ acl.out = NoOut /\ acl.rt.rc = "ok"
  /\ cats = 1 \/ cats % Multiplier = 0
  /\ \E r \in {classify_fns(acl.alg, acl.rt, Batches[b], cats)} :
       acl' = [acl EXCEPT !.out = [batch |-> b, cats |-> cats, res |-> r.out], !.lost = r.lost]

\* the caller has read the results
Used ==
  /\ acl.out # NoOut
  /\ acl' = [acl EXCEPT !.out = NoOut]

Init == \E alg \in Algs : acl = cne_acl_create(alg)

Next ==
  \/ \E i \in DOMAIN Groups : cne_acl_add_rules(Groups[i])
  \/ cne_acl_reset_rules \/ cne_acl_reset \/ Used
  \/ \E c \in DOMAIN Cfgs : cne_acl_build(c)
  \/ \E alg \in Algs : cne_acl_set_ctx_classify(alg)
  \/ \E b \in DOMAIN Batches : \E cats \in 1..Multiplier : cne_acl_classify(b, cats)

---------------------------------------------------------------------------
(* What a rule says of a packet, without tries *)

FieldOf(pkt, def) == FoldLeft(LAMBDA v, k : v * Byte + pkt[def.off + k], 0, [k \in 1..def.size |-> k])

Matches(rule, defs, pkt) ==
  \A n \in DOMAIN defs :
    LET d == defs[n]
        x == FieldOf(pkt, d)
        v == rule.val[d.fi]
        m == rule.rng[d.fi]
    IN CASE d.type = "range" -> v <= x /\ x <= m
         [] d.type = "mask" -> x \div 2^(Bits * d.size - m) = v \div 2^(Bits * d.size - m)
         [] d.type = "bitmask" -> \A i \in 0..(Bits * d.size - 1) : Bit(m, i) = 1 => Bit(x, i) = Bit(v, i)

\* the user data a packet may be given in category c
Allowed(rules, cfg, pkt, c) ==
  LET S == {i \in DOMAIN rules : c \in rules[i].cats /\ c <= cfg.cats /\ Matches(rules[i], cfg.defs, pkt)}
  IN IF S = {} THEN {0}
     ELSE {rules[i].user : i \in {j \in S : \A k \in S : rules[k].prio <= rules[j].prio}}

\* Whatever classifier runs, and however the rules were spread over tries,
\* every packet of a batch gets in every category the user data of a matching
\* rule of the highest priority, or none when no rule of the last build
\* matches; no completion is missing while packets are in flight; and the
\* build leaves a trie whose nodes are alive, reachable and exactly counted.
AclRight ==
  /\ acl.sound /\ ~acl.lost
  /\ acl.out # NoOut =>
       LET rules == [i \in DOMAIN acl.from |-> Rules[acl.from[i]]]
           pkts == Batches[acl.out.batch]
       IN \A p \in DOMAIN pkts : \A c \in 1..acl.out.cats :
            acl.out.res[p][c] \in Allowed(rules, Cfgs[acl.cfg], pkts[p], c)

===========================================================================
