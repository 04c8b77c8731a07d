-------------------------------- MODULE Fib --------------------------------
(***************************************************************************)
(* The routing libraries: the RIB (lib/usr/clib/rib, a compressed binary   *)
(* tree of prefixes) and the FIB built from it (lib/usr/clib/fib), with    *)
(* its three data planes: "dummy" (lookups walk the RIB), "dir24_8" (IPv4: *)
(* a first table and groups of second-level entries) and "trie" (IPv6: the *)
(* same with as many levels as the address has bytes).                     *)
(*                                                                         *)
(* An address has W bits; a byte has B of them, so that a tbl8 group has   *)
(* 2^B entries; the first table of dir24_8 takes all but the last byte,    *)
(* that of the trie the first byte.  A prefix is <<ip, depth>> and is also *)
(* the identity of its tree node, whose ip and depth never change.  Table  *)
(* entries are encoded as in the code: 2 * value, plus 1 when the value is *)
(* the index of a tbl8 group.                                              *)
(***************************************************************************)
EXTENDS Integers, Sequences, FiniteSets, SequencesExt

CONSTANTS W,          \* address bits (32, 128)
          B,          \* bits of a byte (8); B divides W
          MaxNodes,   \* conf->max_routes * 2
          VecLen,     \* addresses of one vector lookup
          DefNh,      \* conf->default_nh
          Configs     \* [type, num_tbl8, nhs]: nhs gives each route its next hops

VARIABLES fib, want

vars == <<fib, want>>

Nil == <<>>
U == 2 ^ W            \* the number of addresses, and the unsigned modulus
G == 2 ^ B            \* DIR24_8_TBL8_GRP_NUM_ENT, TRIE_TBL8_GRP_NUM_ENT
Addrs == 0 .. U - 1
Bytes == W \div B
Mod(x) == x % U
ENOSPC == -28
ENOENT == -2

---------------------------------------------------------------------------
(* cne_rib.c *)

depth_to_mask(ip, depth) == ip - (ip % 2 ^ (W - depth))
is_covered(ip1, ip2, depth) == depth_to_mask(ip1, depth) = depth_to_mask(ip2, depth)
get_dir(ip, depth) == (ip \div 2 ^ (W - 1 - depth)) % 2

\* A node of full depth has no children, whatever bit the code tests there.
get_nxt_node(rib, n, ip) ==
    IF n[2] < W /\ get_dir(ip, n[2]) = 1 THEN rib.node[n].right ELSE rib.node[n].left

is_valid_node(rib, n) == rib.node[n].valid
is_right_node(rib, n) == rib.node[rib.node[n].parent].right = n

RECURSIVE Walk(_, _, _, _)
Walk(rib, cur, prev, ip) ==
    IF cur = Nil \/ ~is_covered(ip, cur[1], cur[2]) THEN prev
    ELSE Walk(rib, get_nxt_node(rib, cur, ip), IF is_valid_node(rib, cur) THEN cur ELSE prev, ip)

cne_rib_lookup(rib, ip) == Walk(rib, rib.tree, Nil, ip)

RECURSIVE ValidFrom(_, _)
ValidFrom(rib, n) == IF n = Nil \/ is_valid_node(rib, n) THEN n ELSE ValidFrom(rib, rib.node[n].parent)

cne_rib_lookup_parent(rib, n) == ValidFrom(rib, rib.node[n].parent)

RECURSIVE ExactFrom(_, _, _)
ExactFrom(rib, cur, p) ==
    CASE cur = Nil -> Nil
      [] cur # Nil /\ cur = p /\ is_valid_node(rib, cur) -> cur
      [] OTHER -> IF ~is_covered(p[1], cur[1], cur[2]) \/ cur[2] >= p[2] THEN Nil
                  ELSE ExactFrom(rib, get_nxt_node(rib, cur, p[1]), p)

cne_rib_lookup_exact(rib, ip, depth) ==
    ExactFrom(rib, rib.tree, <<depth_to_mask(ip, depth), depth>>)

\* The traversal of the routes below ip/depth: down to the first node of that
\* depth, or up from the last one returned to the next unvisited branch.
Below(rib, n, ip, depth) == is_valid_node(rib, n) /\ is_covered(n[1], ip, depth) /\ n[2] > depth

RECURSIVE Reach(_, _, _, _)
Reach(rib, n, ip, depth) ==
    IF n = Nil \/ n[2] >= depth THEN n ELSE Reach(rib, get_nxt_node(rib, n, ip), ip, depth)

RECURSIVE Down(_, _, _, _)
Down(rib, n, ip, depth) ==
    IF n = Nil \/ Below(rib, n, ip, depth) THEN n
    ELSE Down(rib, IF rib.node[n].left # Nil THEN rib.node[n].left ELSE rib.node[n].right, ip, depth)

RECURSIVE Up(_, _, _, _)
Up(rib, n, ip, depth) ==
    LET par == rib.node[n].parent
    IN  CASE par = Nil -> Nil
          [] par # Nil /\ (is_right_node(rib, n) \/ rib.node[par].right = Nil) ->
                IF Below(rib, par, ip, depth) THEN par ELSE Up(rib, par, ip, depth)
          [] OTHER -> Down(rib, rib.node[par].right, ip, depth)

cne_rib_get_nxt(rib, ip, depth, last) ==
    IF last = Nil THEN Down(rib, Reach(rib, rib.tree, ip, depth), ip, depth)
    ELSE Up(rib, last, ip, depth)

node_alloc(rib) == rib.cur_nodes < MaxNodes

SetLink(rib, prev, ip, n) ==
    IF prev = Nil THEN [rib EXCEPT !.tree = n]
    ELSE IF get_dir(ip, prev[2]) = 1 THEN [rib EXCEPT !.node[prev].right = n]
    ELSE [rib EXCEPT !.node[prev].left = n]

\* The link `*tmp' where the insertion stops, as <<prev, *tmp>>.
RECURSIVE Place(_, _, _, _)
Place(rib, prev, tmp, p) ==
    IF tmp = Nil \/ tmp = p \/ tmp[2] >= p[2] \/ ~is_covered(p[1], tmp[1], tmp[2])
    THEN <<prev, tmp>>
    ELSE Place(rib, tmp, get_nxt_node(rib, tmp, p[1]), p)

\* The number of leading bits two addresses share.
CommonBits(a, b) == CHOOSE d \in 0 .. W : /\ is_covered(a, b, d)
                                          /\ d = W \/ ~is_covered(a, b, d + 1)
Lesser(a, b) == IF a < b THEN a ELSE b
Greater(a, b) == IF a > b THEN a ELSE b

NewNode(valid, parent, left, right) ==
    [valid |-> valid, nh |-> 0, parent |-> parent, left |-> left, right |-> right]
AddNode(rib, n, r) == [rib EXCEPT !.node = [m \in DOMAIN rib.node \cup {n} |->
                                             IF m = n THEN r ELSE rib.node[m]],
                                  !.cur_nodes = @ + 1]

\* p becomes a node: at the end of the path, of an inner node there, above
\* the node tmp where the paths part, or beside it under a new inner node.
InsertUnder(rib, p, prev, tmp) ==
    LET common == Lesser(CommonBits(p[1], tmp[1]), Lesser(p[2], tmp[2]))
        c == <<depth_to_mask(p[1], common), common>>
        par == rib.node[tmp].parent
        done(r) == [rib |-> [r EXCEPT !.cur_routes = @ + 1], node |-> p]
    IN  CASE tmp = Nil ->
                done(SetLink(AddNode(rib, p, NewNode(TRUE, prev, Nil, Nil)), prev, p[1], p))
          [] tmp = p -> done([rib EXCEPT !.node[p].valid = TRUE])
          [] OTHER ->
                IF c = p
                THEN done(SetLink([AddNode(rib, p, IF get_dir(tmp[1], p[2]) = 1
                                                   THEN NewNode(TRUE, par, Nil, tmp)
                                                   ELSE NewNode(TRUE, par, tmp, Nil))
                                   EXCEPT !.node[tmp].parent = p], prev, p[1], p))
                ELSE IF rib.cur_nodes + 1 < MaxNodes
                THEN done(SetLink([AddNode(AddNode(rib, p, NewNode(TRUE, c, Nil, Nil)), c,
                                           IF get_dir(p[1], common) = 0
                                           THEN NewNode(FALSE, par, p, tmp)
                                           ELSE NewNode(FALSE, par, tmp, p))
                                   EXCEPT !.node[tmp].parent = c], prev, p[1], c))
                ELSE [rib |-> rib, node |-> Nil]

\* Returns the tree and the node, Nil when there is a route or no node for it.
cne_rib_insert(rib, ip, depth) ==
    LET p == <<depth_to_mask(ip, depth), depth>>
        at == Place(rib, Nil, rib.tree, p)
    IN  IF cne_rib_lookup_exact(rib, ip, depth) # Nil \/ ~node_alloc(rib)
        THEN [rib |-> rib, node |-> Nil]
        ELSE InsertUnder(rib, p, at[1], at[2])

RECURSIVE Prune(_, _)
Prune(rib, cur) ==
    LET n == rib.node[cur]
        child == IF n.left = Nil THEN n.right ELSE n.left
        moved == IF child = Nil THEN rib ELSE [rib EXCEPT !.node[child].parent = n.parent]
        freed(r) == [r EXCEPT !.node = [m \in DOMAIN r.node \ {cur} |-> r.node[m]],
                              !.cur_nodes = @ - 1]
    IN  CASE n.valid \/ (n.left # Nil /\ n.right # Nil) -> rib
          [] OTHER -> CASE n.parent = Nil -> freed([moved EXCEPT !.tree = child])
                        [] rib.node[n.parent].left = cur ->
                              Prune(freed([moved EXCEPT !.node[n.parent].left = child]), n.parent)
                        [] OTHER ->
                              Prune(freed([moved EXCEPT !.node[n.parent].right = child]), n.parent)

cne_rib_remove(rib, ip, depth) ==
    LET cur == cne_rib_lookup_exact(rib, ip, depth)
    IN  IF cur = Nil THEN rib
        ELSE Prune([rib EXCEPT !.cur_routes = @ - 1, !.node[cur].valid = FALSE], cur)

cne_rib_get_nh(rib, n) == rib.node[n].nh
cne_rib_set_nh(rib, n, nh) == [rib EXCEPT !.node[n].nh = nh]

cne_rib_create == [tree |-> Nil, node |-> [n \in {} |-> 0], cur_nodes |-> 0, cur_routes |-> 0]

---------------------------------------------------------------------------
(* cne_rib6.c: the same tree; an address is an array of bytes there, and   *)
(* masks, directions and common prefixes are computed byte by byte.        *)

cne_rib6_lookup(rib, ip) == cne_rib_lookup(rib, ip)
cne_rib6_lookup_parent(rib, n) == cne_rib_lookup_parent(rib, n)
cne_rib6_lookup_exact(rib, ip, depth) == cne_rib_lookup_exact(rib, ip, depth)
cne_rib6_get_nxt(rib, ip, depth, last) == cne_rib_get_nxt(rib, ip, depth, last)
cne_rib6_remove(rib, ip, depth) == cne_rib_remove(rib, ip, depth)
cne_rib6_insert(rib, ip, depth) == cne_rib_insert(rib, ip, depth)
cne_rib6_get_nh(rib, n) == cne_rib_get_nh(rib, n)
cne_rib6_create == cne_rib_create

---------------------------------------------------------------------------
(* dir24_8.c; cur_tbl8s, which nothing reads, is left out. *)

Tbl24Idx(ip) == ip \div G
Low(ip) == ip % G
ROUNDUP(x) == Mod(((x + G - 1) \div G) * G)
Extended(e) == e % 2 = 1
OrExt(e) == IF Extended(e) THEN e ELSE e + 1
Signed(n) == IF n < U \div 2 THEN n ELSE n - U

\* write_to_fib: n entries from position i; a negative count writes nothing.
write_to_fib(t, i, val, n) == [k \in DOMAIN t |-> IF k >= i /\ k < i + n THEN val ELSE t[k]]

tbl8_get_idx(dp) ==
    IF dp.idxes = DOMAIN dp.tbl8 THEN ENOSPC
    ELSE CHOOSE i \in DOMAIN dp.tbl8 \ dp.idxes : \A j \in DOMAIN dp.tbl8 \ dp.idxes : i <= j

\* Returns the tables and the index, negative when there is no free group.
tbl8_alloc(dp, nh) ==
    LET i == tbl8_get_idx(dp)
    IN  IF i < 0 THEN [dp |-> dp, idx |-> i]
        ELSE [dp |-> [dp EXCEPT !.idxes = @ \cup {i},
                                !.tbl8[i] = [k \in 0 .. G - 1 |-> OrExt(nh)]], idx |-> i]

\* The group is recycled without looking at its entries.
RecycleUnconditionally(dp, ip, i) ==
    [dp EXCEPT !.tbl24[Tbl24Idx(ip)] = dp.tbl8[i][0] - 1, !.tbl8[i] = [k \in 0 .. G - 1 |-> 0],
               !.idxes = @ \ {i}]

\* A group with equal entries goes back to its single tbl24 entry.
tbl8_recycle(dp, ip, i) ==
    IF \E k \in 0 .. G - 1 : dp.tbl8[i][k] # dp.tbl8[i][0] THEN dp
    ELSE [dp EXCEPT !.tbl24[Tbl24Idx(ip)] = dp.tbl8[i][0] - 1, !.tbl8[i] = [k \in 0 .. G - 1 |-> 0],
                    !.idxes = @ \ {i}]

\* The group of ip's tbl24 entry, allocated when there is none; `two' asks
\* for room for another one, and a refusal then frees the index only.
GroupFor(dp, ip, two) ==
    LET e == dp.tbl24[Tbl24Idx(ip)]
        a == tbl8_alloc(dp, e)
    IN  CASE Extended(e) -> [dp |-> dp, idx |-> e \div 2]
          [] ~Extended(e) /\ a.idx < 0 -> [dp |-> a.dp, idx |-> ENOSPC]
          [] ~Extended(e) /\ a.idx >= 0 /\ two /\ tbl8_get_idx(a.dp) < 0 ->
                [dp |-> [a.dp EXCEPT !.idxes = @ \ {a.idx}], idx |-> ENOSPC]
          [] OTHER -> [dp |-> [a.dp EXCEPT !.tbl24[Tbl24Idx(ip)] = 2 * a.idx + 1], idx |-> a.idx]

\* Entries i .. i + n - 1 of the group of ip get the next hop.
WriteIn(g, ip, i, n, next_hop) ==
    IF g.idx < 0 THEN [dp |-> g.dp, ret |-> ENOSPC]
    ELSE [dp |-> tbl8_recycle([g.dp EXCEPT !.tbl8[g.idx] =
                                  write_to_fib(@, i, 2 * next_hop + 1, n)], ip, g.idx),
          ret |-> 0]

WriteGroup(dp, ip, i, n, next_hop, two) ==
    WriteIn(GroupFor(dp, ip, two), ip, i, n, next_hop)

\* The whole entries from the left edge on, and the group of the right edge.
FromWhole(l, ledge, redge, len, next_hop) ==
    LET m == [l.dp EXCEPT !.tbl24 = write_to_fib(@, Tbl24Idx(ROUNDUP(ledge)), 2 * next_hop, len)]
    IN  IF l.ret # 0 THEN l
        ELSE IF Low(redge) = 0 THEN [dp |-> m, ret |-> 0]
        ELSE WriteGroup(m, redge, 0, Low(redge), next_hop, FALSE)

install_to_fib(dp, ledge, redge, next_hop) ==
    LET full == ledge = 0 /\ redge = 0
        len == IF full THEN U \div G ELSE Mod(redge - Low(redge) - ROUNDUP(ledge)) \div G
        head == Mod(ROUNDUP(ledge) - ledge)
    IN  IF Tbl24Idx(ledge) # Tbl24Idx(redge) \/ len = U \div G
        THEN FromWhole(IF head = 0 THEN [dp |-> dp, ret |-> 0]
                       ELSE WriteGroup(dp, ledge, Low(ledge), head, next_hop, TRUE),
                       ledge, redge, len, next_hop)
        ELSE IF redge # ledge
        THEN WriteGroup(dp, ledge, Low(ledge), Signed(Mod(redge - ledge)), next_hop, FALSE)
        ELSE [dp |-> dp, ret |-> 0]

NextNet(p) == Mod(p[1] + 2 ^ (W - p[2]))

\* The loop over the routes below p: the gaps between them are installed.
RECURSIVE ModifyFrom(_, _, _, _, _, _)
Onward(i, rib, p, next_hop, tmp) ==
    IF tmp = Nil \/ i.ret # 0 THEN i ELSE ModifyFrom(i.dp, rib, p, next_hop, NextNet(tmp), tmp)

UpToNext(dp, rib, p, next_hop, ledge, tmp) ==
    LET redge == IF tmp # Nil THEN tmp[1] ELSE NextNet(p)
    IN  Onward(IF ledge = redge THEN [dp |-> dp, ret |-> 0]
               ELSE install_to_fib(dp, ledge, redge, next_hop), rib, p, next_hop, tmp)

ModifyFrom(dp, rib, p, next_hop, ledge, last) ==
    UpToNext(dp, rib, p, next_hop, ledge, cne_rib_get_nxt(rib, p[1], p[2], last))

modify_fib(dp, rib, p, next_hop) == ModifyFrom(dp, rib, p, next_hop, p[1], Nil)

\* The four lookups of one address: by the entry's type, by shifting it out
\* of an eight-byte word, with the table's own entry size, and in a vector.
dir24_8_lookup(dp, ip) ==
    LET e == dp.tbl24[Tbl24Idx(ip)]
    IN  (IF Extended(e) THEN dp.tbl8[e \div 2][Low(ip)] ELSE e) \div 2

\* The vector form: the extended lanes are gathered again and blended in.
dir24_8_vec_lookup_x16(dp, ips) ==
    LET res == [k \in DOMAIN ips |-> dp.tbl24[Tbl24Idx(ips[k])]]
        msk_ext == {k \in DOMAIN ips : Extended(res[k])}
        gathered == [k \in msk_ext |-> dp.tbl8[res[k] \div 2][Low(ips[k])]]
        blended == [k \in DOMAIN ips |-> IF k \in msk_ext THEN gathered[k] ELSE res[k]]
    IN  [k \in DOMAIN ips |-> blended[k] \div 2]

dir24_8_create(num_tbl8) ==
    [tbl24 |-> [i \in 0 .. (U \div G) - 1 |-> 2 * DefNh],
     tbl8 |-> [i \in 0 .. num_tbl8 - 1 |-> [k \in 0 .. G - 1 |-> 0]],
     idxes |-> {}, rsvd_tbl8s |-> 0]

\* Depths beyond the first table (24).
Deep4(depth) == depth > W - B

\* The next hop of a route that is there; a failure leaves part of the
\* tables changed, and 0 is returned all the same.
Changed(f, node, next_hop, m) ==
    [fib |-> [f EXCEPT !.dp = m.dp, !.rib = IF m.ret = 0 THEN cne_rib_set_nh(@, node, next_hop) ELSE @],
     ret |-> 0]

\* The new route is in the RIB and written to the tables, or removed again.
Written(f, p, rib, m, more) ==
    IF m.ret # 0
    THEN [fib |-> [f EXCEPT !.rib = cne_rib_remove(rib, p[1], p[2]), !.dp = m.dp], ret |-> m.ret]
    ELSE [fib |-> [f EXCEPT !.rib = rib, !.dp = [m.dp EXCEPT !.rsvd_tbl8s = Mod(@ + more)]],
          ret |-> 0]

\* Nothing is written when the route above has the same next hop.
SameAbove(rib, node, next_hop) ==
    LET parent == cne_rib_lookup_parent(rib, node)
    IN  parent # Nil /\ cne_rib_get_nh(rib, parent) = next_hop

NewRoute4(f, p, next_hop, rib, node, more) ==
    CASE node = Nil -> [fib |-> f, ret |-> -1]
      [] OTHER -> IF SameAbove(rib, node, next_hop) THEN [fib |-> [f EXCEPT !.rib = rib], ret |-> 0]
                  ELSE Written(f, p, rib, modify_fib(f.dp, rib, p, next_hop), more)

InsertedNh(ins, next_hop) ==
    IF ins.node = Nil THEN ins ELSE [ins EXCEPT !.rib = cne_rib_set_nh(@, ins.node, next_hop)]

AddRoute4(f, p, next_hop) ==
    LET node == cne_rib_lookup_exact(f.rib, p[1], p[2])
        alone == Deep4(p[2]) /\ cne_rib_get_nxt(f.rib, p[1], W - B, Nil) = Nil
        ins == InsertedNh(cne_rib_insert(f.rib, p[1], p[2]), next_hop)
    IN  CASE node # Nil ->
                IF cne_rib_get_nh(f.rib, node) = next_hop THEN [fib |-> f, ret |-> 0]
                ELSE Changed(f, node, next_hop, modify_fib(f.dp, f.rib, p, next_hop))
          [] node = Nil /\ alone /\ f.dp.rsvd_tbl8s >= Cardinality(DOMAIN f.dp.tbl8) ->
                [fib |-> f, ret |-> ENOSPC]
          [] OTHER -> NewRoute4(f, p, next_hop, ins.rib, ins.node, IF alone THEN 1 ELSE 0)

\* What a deleted route leaves to its addresses: the route above, or the default.
Inherited(rib, node) ==
    LET parent == cne_rib_lookup_parent(rib, node)
    IN  IF parent = Nil THEN DefNh ELSE cne_rib_get_nh(rib, parent)

Unchanged(rib, node) == SameAbove(rib, node, cne_rib_get_nh(rib, node))

\* The route is out of the tables, and then of the RIB.
Removed(f, m, rib, less) ==
    IF m.ret # 0 THEN [fib |-> [f EXCEPT !.dp = m.dp], ret |-> m.ret]
    ELSE [fib |-> [f EXCEPT !.rib = rib, !.dp = [m.dp EXCEPT !.rsvd_tbl8s = Mod(@ - less)]], ret |-> 0]

DelRoute4(f, p) ==
    LET node == cne_rib_lookup_exact(f.rib, p[1], p[2])
        rib == cne_rib_remove(f.rib, p[1], p[2])
        last == Deep4(p[2]) /\ cne_rib_get_nxt(rib, p[1], W - B, Nil) = Nil
    IN  IF node = Nil THEN [fib |-> f, ret |-> ENOENT]
        ELSE Removed(f, IF Unchanged(f.rib, node) THEN [dp |-> f.dp, ret |-> 0]
                        ELSE modify_fib(f.dp, f.rib, p, Inherited(f.rib, node)),
                     rib, IF last THEN 1 ELSE 0)

---------------------------------------------------------------------------
(* trie.c: tables are addressed by <<table, position>>, table -1 is tbl24. *)

Byte(ip, i) == (ip \div 2 ^ (W - B * (i + 1))) % G
Top == -1

get_val_by_p(dp, loc) == IF loc[1] = Top THEN dp.tbl24[loc[2]] ELSE dp.tbl8[loc[1]][loc[2]]

write_to_dp(dp, loc, val, n) ==
    IF loc[1] = Top THEN [dp EXCEPT !.tbl24 = write_to_fib(@, loc[2], val, n)]
    ELSE [dp EXCEPT !.tbl8[loc[1]] = write_to_fib(@, loc[2], val, n)]

trie_tbl8_alloc(dp, nh) ==
    IF dp.tbl8_pool_pos = Len(dp.tbl8_pool) THEN [dp |-> dp, idx |-> ENOSPC]
    ELSE LET i == dp.tbl8_pool[dp.tbl8_pool_pos + 1]
         IN  [dp |-> [dp EXCEPT !.tbl8_pool_pos = @ + 1, !.tbl8[i] = [k \in 0 .. G - 1 |-> nh]],
              idx |-> i]

tbl8_put(dp, i) == [dp EXCEPT !.tbl8_pool_pos = @ - 1, !.tbl8_pool[dp.tbl8_pool_pos] = i]

\* Returns the tables and, when the group is given back, the entry to put in
\* the place that referred to it, else `val'.
trie_tbl8_recycle(dp, val, i) ==
    LET nh == dp.tbl8[i][0]
    IN  IF Extended(nh) \/ \E k \in 1 .. G - 1 : dp.tbl8[i][k] # nh THEN [dp |-> dp, val |-> val]
        ELSE [dp |-> tbl8_put([dp EXCEPT !.tbl8[i] = [k \in 0 .. G - 1 |-> 0]], i), val |-> nh]

RECURSIVE recycle_root_path(_, _, _, _, _)
recycle_root_path(dp, ip, byte, common_tbl8, prev) ==
    LET val == get_val_by_p(dp, prev)
        g == val \div 2
        below == IF common_tbl8 = 0 THEN dp
                 ELSE recycle_root_path(dp, ip, byte + 1, common_tbl8 - 1, <<g, Byte(ip, byte)>>)
        r == trie_tbl8_recycle(below, val, g)
    IN  IF ~Extended(val) THEN dp ELSE write_to_dp(r.dp, prev, r.val, 1)

\* The groups of the bytes both edges share; returns the table of the first
\* byte that differs.
RECURSIVE build_common_root(_, _, _, _, _)
build_common_root(dp, ip, common_bytes, i, t) ==
    LET loc == <<t, Byte(ip, i - 1)>>
        val == get_val_by_p(dp, loc)
        a == trie_tbl8_alloc(dp, val)
    IN  CASE i > common_bytes -> [dp |-> dp, tbl |-> t, ret |-> 0]
          [] i <= common_bytes /\ Extended(val) ->
                build_common_root(dp, ip, common_bytes, i + 1, val \div 2)
          [] OTHER -> IF a.idx < 0 THEN [dp |-> a.dp, tbl |-> t, ret |-> ENOSPC]
                      ELSE build_common_root(write_to_dp(a.dp, loc, 2 * a.idx + 1, 1), ip,
                                             common_bytes, i + 1, a.idx)

\* One edge of the range: the entries right (left) of the path of ip's bytes
\* get the next hop, level by level.
\* The level below is written: the rest of this one, and what refers to it.
EdgeAbove(below, g, at, next_hop, edge, ent) ==
    LET filled == IF edge = "LEDGE"
                  THEN write_to_dp(below.dp, <<g, at + 1>>, 2 * next_hop, G - 1 - at)
                  ELSE write_to_dp(below.dp, <<g, 0>>, 2 * next_hop, at)
        r == trie_tbl8_recycle(filled, 2 * g + 1, g)
    IN  IF below.ret < 0 THEN below ELSE [dp |-> write_to_dp(r.dp, ent, r.val, 1), ret |-> 0]

RECURSIVE write_edge(_, _, _, _, _, _, _)
EdgeBelow(a, ip, byte, next_hop, len, edge, ent) ==
    IF a.idx < 0 THEN [dp |-> a.dp, ret |-> ENOSPC]
    ELSE EdgeAbove(write_edge(a.dp, ip, byte + 1, next_hop, len - 1, edge, <<a.idx, Byte(ip, byte)>>),
                   a.idx, Byte(ip, byte), next_hop, edge, ent)

write_edge(dp, ip, byte, next_hop, len, edge, ent) ==
    LET old == get_val_by_p(dp, ent)
    IN  IF len = 0 THEN [dp |-> write_to_dp(dp, ent, 2 * next_hop, 1), ret |-> 0]
        ELSE EdgeBelow(IF Extended(old) THEN [dp |-> dp, idx |-> old \div 2]
                       ELSE trie_tbl8_alloc(dp, old), ip, byte, next_hop, len, edge, ent)

\* The last byte of the address, from the given one on, that is not `fill'.
LastByte(ip, first, fill) ==
    CHOOSE i \in first .. Bytes - 1 : /\ i = first \/ Byte(ip, i) # fill
                                      /\ \A k \in i + 1 .. Bytes - 1 : Byte(ip, k) = fill

\* The right edge, after the left one and what lies between them.
RightEdge(l, tbl, ledge, redge, common, byte, rlen, next_hop) ==
    LET li == Byte(ledge, common)
        ri == Byte(redge, common)
        m == IF ri > li + 1 THEN write_to_dp(l.dp, <<tbl, li + 1>>, 2 * next_hop, ri - (li + 1))
             ELSE l.dp
    IN  IF l.ret < 0 THEN l ELSE write_edge(m, redge, byte, next_hop, rlen, "REDGE", <<tbl, ri>>)

RecycleRoot(e, ledge, common) ==
    IF e.ret < 0 THEN e
    ELSE [dp |-> recycle_root_path(e.dp, ledge, 1, common, <<Top, Byte(ledge, 0)>>), ret |-> 0]

BothEdges(root, ledge, redge, common, next_hop) ==
    LET first == Greater(common, 1)
        up == IF common < 1 THEN 1 ELSE 0
        llen == LastByte(ledge, first, 0) - first + up
        rlen == LastByte(redge, first, G - 1) - first + up
    IN  IF root.ret # 0 THEN [dp |-> root.dp, ret |-> root.ret]
        ELSE RecycleRoot(RightEdge(write_edge(root.dp, ledge, first + (1 - up), next_hop, llen, "LEDGE",
                                              <<root.tbl, Byte(ledge, common)>>),
                                   root.tbl, ledge, redge, common, first + (1 - up), rlen, next_hop),
                         ledge, common)

install_to_dp(dp, ledge, r, next_hop) ==
    LET redge == Mod(r - 1)
        common == CHOOSE c \in 0 .. Bytes - 1 :
                      /\ \A k \in 0 .. c - 1 : Byte(ledge, k) = Byte(redge, k)
                      /\ c = Bytes - 1 \/ Byte(ledge, c) # Byte(redge, c)
    IN  BothEdges(build_common_root(dp, ledge, common, 1, Top), ledge, redge, common, next_hop)

RECURSIVE ModifyDpFrom(_, _, _, _, _, _)
OnwardDp(i, rib, p, next_hop, tmp) ==
    IF tmp = Nil \/ i.ret # 0 THEN i ELSE ModifyDpFrom(i.dp, rib, p, next_hop, NextNet(tmp), tmp)

UpToNextDp(dp, rib, p, next_hop, ledge, tmp) ==
    LET redge == IF tmp # Nil THEN tmp[1] ELSE NextNet(p)
    IN  OnwardDp(IF ledge = redge THEN [dp |-> dp, ret |-> 0]
                 ELSE install_to_dp(dp, ledge, redge, next_hop), rib, p, next_hop, tmp)

ModifyDpFrom(dp, rib, p, next_hop, ledge, last) ==
    UpToNextDp(dp, rib, p, next_hop, ledge, cne_rib6_get_nxt(rib, p[1], p[2], last))

modify_dp(dp, rib, p, next_hop) == ModifyDpFrom(dp, rib, p, next_hop, p[1], Nil)

\* The groups the route is taken to need: one for each byte it reaches beyond
\* the route above it, none when there are routes below it.
depth_diff(rib, p) ==
    LET ceil(d) == ((d + B - 1) \div B)
        above == cne_rib6_lookup(rib, p[1])
        parent_depth == IF above = Nil THEN B ELSE Greater(above[2], B)
    IN  IF p[2] > B /\ cne_rib6_get_nxt(rib, p[1], (p[2] \div B) * B, Nil) = Nil
        THEN ceil(p[2]) - ceil(parent_depth) ELSE 0

NewRoute6(f, p, next_hop, rib, node, more) ==
    CASE node = Nil -> [fib |-> f, ret |-> -1]
      [] OTHER -> IF SameAbove(rib, node, next_hop) THEN [fib |-> [f EXCEPT !.rib = rib], ret |-> 0]
                  ELSE Written(f, p, rib, modify_dp(f.dp, rib, p, next_hop), more)

AddRoute6(f, p, next_hop) ==
    LET node == cne_rib6_lookup_exact(f.rib, p[1], p[2])
        diff == depth_diff(f.rib, p)
        ins == InsertedNh(cne_rib6_insert(f.rib, p[1], p[2]), next_hop)
    IN  CASE node # Nil ->
                IF cne_rib6_get_nh(f.rib, node) = next_hop THEN [fib |-> f, ret |-> 0]
                ELSE Changed(f, node, next_hop, modify_dp(f.dp, f.rib, p, next_hop))
          [] node = Nil /\ p[2] > B /\ f.dp.rsvd_tbl8s >= Mod(Len(f.dp.tbl8_pool) - diff) ->
                [fib |-> f, ret |-> ENOSPC]
          [] OTHER -> NewRoute6(f, p, next_hop, ins.rib, ins.node, diff)

DelRoute6(f, p) ==
    LET node == cne_rib6_lookup_exact(f.rib, p[1], p[2])
    IN  IF node = Nil THEN [fib |-> f, ret |-> ENOENT]
        ELSE Removed(f, IF Unchanged(f.rib, node) THEN [dp |-> f.dp, ret |-> 0]
                        ELSE modify_dp(f.dp, f.rib, p, Inherited(f.rib, node)),
                     cne_rib6_remove(f.rib, p[1], p[2]), depth_diff(f.rib, p))

RECURSIVE Follow(_, _, _, _)
Follow(dp, ip, j, e) == IF Extended(e) THEN Follow(dp, ip, j + 1, dp.tbl8[e \div 2][Byte(ip, j)]) ELSE e

cne_trie_lookup(dp, ip) == Follow(dp, ip, 1, dp.tbl24[Byte(ip, 0)]) \div 2

\* The vector form goes down level by level while some lane is extended; a
\* lane's result is blended in at the level where it stops being extended.
RECURSIVE Descend(_, _, _, _, _, _)
Descend(dp, ips, i, msk_ext, tmp, res) ==
    LET t == [k \in DOMAIN ips |-> IF k \in msk_ext THEN dp.tbl8[tmp[k]][Byte(ips[k], i)] ELSE 0]
        new_msk == {k \in DOMAIN ips : Extended(t[k])}
        xor == (msk_ext \ new_msk) \cup (new_msk \ msk_ext)
    IN  IF msk_ext = {} THEN res
        ELSE Descend(dp, ips, i + 1, new_msk, [k \in DOMAIN ips |-> t[k] \div 2],
                     [k \in DOMAIN ips |-> IF k \in xor THEN t[k] ELSE res[k]])

trie_vec_lookup(dp, ips) ==
    LET res == [k \in DOMAIN ips |-> dp.tbl24[Byte(ips[k], 0)]]
        found == Descend(dp, ips, 1, {k \in DOMAIN ips : Extended(res[k])},
                         [k \in DOMAIN ips |-> res[k] \div 2], res)
    IN  [k \in DOMAIN ips |-> found[k] \div 2]

trie_create(num_tbl8) ==
    [tbl24 |-> [i \in 0 .. G - 1 |-> 2 * DefNh],
     tbl8 |-> [i \in 0 .. num_tbl8 - 1 |-> [k \in 0 .. G - 1 |-> 0]],
     tbl8_pool |-> [i \in 1 .. num_tbl8 |-> i - 1], tbl8_pool_pos |-> 0, rsvd_tbl8s |-> 0]

---------------------------------------------------------------------------
(* cne_fib.c, cne_fib6.c *)

dummy_lookup(f, ip) ==
    LET n == cne_rib_lookup(f.rib, ip) IN IF n = Nil THEN DefNh ELSE cne_rib_get_nh(f.rib, n)

dummy_add(f, p, next_hop) ==
    LET node == cne_rib_lookup_exact(f.rib, p[1], p[2])
        ins == IF node = Nil THEN cne_rib_insert(f.rib, p[1], p[2]) ELSE [rib |-> f.rib, node |-> node]
    IN  IF ins.node = Nil THEN [fib |-> f, ret |-> -1]
        ELSE [fib |-> [f EXCEPT !.rib = cne_rib_set_nh(ins.rib, ins.node, next_hop)], ret |-> 0]

dummy_del(f, p) ==
    IF cne_rib_lookup_exact(f.rib, p[1], p[2]) = Nil THEN [fib |-> f, ret |-> ENOENT]
    ELSE [fib |-> [f EXCEPT !.rib = cne_rib_remove(@, p[1], p[2])], ret |-> 0]

init_dataplane(type, num_tbl8) ==
    CASE type = "DUMMY" -> 0
      [] type = "DIR24_8" -> dir24_8_create(num_tbl8)
      [] type = "TRIE" -> trie_create(num_tbl8)

cne_fib_create(c) == [type |-> c.type, rib |-> cne_rib_create,
                      dp |-> init_dataplane(c.type, c.num_tbl8), nhs |-> c.nhs]

cne_fib_add(f, p, nh) == CASE f.type = "DUMMY" -> dummy_add(f, p, nh)
                           [] f.type = "DIR24_8" -> AddRoute4(f, p, nh)
                           [] f.type = "TRIE" -> AddRoute6(f, p, nh)

cne_fib_delete(f, p) == CASE f.type = "DUMMY" -> dummy_del(f, p)
                          [] f.type = "DIR24_8" -> DelRoute4(f, p)
                          [] f.type = "TRIE" -> DelRoute6(f, p)

\* The lookups of a list of addresses, one by one and in vectors.
Scalar(f, ips) ==
    [k \in DOMAIN ips |-> CASE f.type = "DUMMY" -> dummy_lookup(f, ips[k])
                            [] f.type = "DIR24_8" -> dir24_8_lookup(f.dp, ips[k])
                            [] f.type = "TRIE" -> cne_trie_lookup(f.dp, ips[k])]

RECURSIVE Vector(_, _)
Vector(f, ips) ==
    IF f.type = "DUMMY" \/ Len(ips) < VecLen THEN Scalar(f, ips)
    ELSE LET block == SubSeq(ips, 1, VecLen)
         IN  (IF f.type = "DIR24_8" THEN dir24_8_vec_lookup_x16(f.dp, block)
              ELSE trie_vec_lookup(f.dp, block)) \o Vector(f, SubSeq(ips, VecLen + 1, Len(ips)))

---------------------------------------------------------------------------
Init == /\ \E c \in Configs : fib = cne_fib_create(c)
        /\ want = [p \in {} |-> 0]

\* One result of the operation, so that it is computed once.
Add == \E p \in DOMAIN fib.nhs : \E nh \in fib.nhs[p] : \E r \in {cne_fib_add(fib, p, nh)} :
    /\ fib' = r.fib
    /\ want' = IF r.ret # 0 THEN want
               ELSE [q \in DOMAIN want \cup {p} |-> IF q = p THEN nh ELSE want[q]]

Delete == \E p \in DOMAIN fib.nhs : \E r \in {cne_fib_delete(fib, p)} :
    /\ fib' = r.fib
    /\ want' = IF r.ret # 0 THEN want ELSE [q \in DOMAIN want \ {p} |-> want[q]]

Next == Add \/ Delete

---------------------------------------------------------------------------
(* Longest-prefix match over the routes added and not deleted.             *)
Best(ip) ==
    LET m == {p \in DOMAIN want : is_covered(ip, p[1], p[2])}
    IN  IF m = {} THEN DefNh ELSE want[CHOOSE p \in m : \A q \in m : q[2] <= p[2]]

AllIps == [i \in 1 .. U - 1 |-> i - 1]

\* The groups the tables refer to.
Refs(dp) == {dp.tbl24[i] \div 2 : i \in {j \in DOMAIN dp.tbl24 : Extended(dp.tbl24[j])}}
Refs6(dp, free) ==
    Refs(dp) \cup UNION {{dp.tbl8[g][k] \div 2 : k \in {j \in 0 .. G - 1 : Extended(dp.tbl8[g][j])}} :
                         g \in DOMAIN dp.tbl8 \ free}

\* The tree holds exactly the wanted routes, and no more intermediate nodes
\* than forks.
TreeRight ==
    LET rib == fib.rib
        v == {n \in DOMAIN rib.node : rib.node[n].valid}
    IN  /\ v = DOMAIN want /\ rib.cur_routes = Cardinality(v)
        /\ rib.cur_nodes = Cardinality(DOMAIN rib.node)
        /\ \A n \in v : rib.node[n].nh = want[n]
        /\ \A n \in DOMAIN rib.node \ v : rib.node[n].left # Nil /\ rib.node[n].right # Nil

\* No tbl8 group is lost or shared: those in use are those referred to.
GroupsRight ==
    CASE fib.type = "DIR24_8" -> fib.dp.idxes = Refs(fib.dp)
      [] fib.type = "TRIE" ->
            LET free == {fib.dp.tbl8_pool[i] : i \in fib.dp.tbl8_pool_pos + 1 .. Len(fib.dp.tbl8_pool)}
            IN  /\ Refs6(fib.dp, free) = DOMAIN fib.dp.tbl8 \ free
                /\ Cardinality(free) = Len(fib.dp.tbl8_pool) - fib.dp.tbl8_pool_pos
      [] OTHER -> TRUE

\* After any calls of cne_fib_add and cne_fib_delete, whatever of them was
\* refused, every lookup function gives every address the next hop of the
\* longest matching route (cne_fib.h:150), the tree holds these routes and
\* the tbl8 groups in use are the ones the tables refer to.
FibRight ==
    /\ \E s \in {Scalar(fib, AllIps)} : \A i \in DOMAIN AllIps : s[i] = Best(AllIps[i])
    /\ \E v \in {Vector(fib, AllIps)} : \A i \in DOMAIN AllIps : v[i] = Best(AllIps[i])
    /\ TreeRight
    /\ GroupsRight
====
