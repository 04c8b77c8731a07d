---------------------------- MODULE CneRingSteps ----------------------------
(***************************************************************************)
(* Every step of CneRing preserves its inductive invariant.  First what    *)
(* needs no step: uint32_t arithmetic without the modulus, which indexes   *)
(* share a slot, the claims between a tail and a head as they are made and *)
(* published, and what the invariant implies; then the moves of the        *)
(* indexes and the steps that leave the four indexes alone.                *)
(***************************************************************************)
EXTENDS CneRing, TLAPS

(***************************************************************************)
(* uint32_t arithmetic without the modulus.                                *)
(***************************************************************************)
(* The remainder of a number less than one modulus away from its range. *)
LEMMA ModLow == ASSUME NEW a \in Int, NEW m \in Nat, 0 <= a, a < m PROVE a % m = a
  OBVIOUS

LEMMA ModHigh == ASSUME NEW a \in Int, NEW m \in Nat, m <= a, a < 2 * m PROVE a % m = a - m
  OBVIOUS

(* Adding to an index wraps at most once. *)
LEMMA AddDef ==
  ASSUME NEW a \in Index, NEW b \in Index
  PROVE  /\ Add(a, b) = IF a + b < IndexMod THEN a + b ELSE a + b - IndexMod
         /\ Add(a, b) \in Index
  BY SizeAssumption DEF Add, Index

(* The distance between two indexes. *)
LEMMA SubDef ==
  ASSUME NEW a \in Index, NEW b \in Index
  PROVE  /\ Sub(a, b) = IF a >= b THEN a - b ELSE a - b + IndexMod
         /\ Sub(a, b) \in Index
  BY SizeAssumption DEF Sub, Index

(* The free room computed from a head h and the other side's tail. *)
LEMMA FreeDef ==
  ASSUME NEW h \in Index, NEW tl \in Index
  PROVE  /\ Sub(Capacity + tl, h) \in Index
         /\ Sub(h, tl) <= Capacity => Sub(Capacity + tl, h) = Capacity - Sub(h, tl)
<1>1. /\ Capacity \in Nat /\ IndexMod \in Nat /\ Capacity < IndexMod
      /\ h \in 0 .. IndexMod - 1 /\ tl \in 0 .. IndexMod - 1
  BY SizeAssumption DEF Index
<1>2. (Capacity + tl - h) % IndexMod \in Index
  BY <1>1 DEF Index
<1>3. ASSUME Sub(h, tl) <= Capacity
      PROVE  (Capacity + tl - h) % IndexMod = Capacity - Sub(h, tl)
  <2>1. CASE h >= tl
    <3>1. Sub(h, tl) = h - tl
      BY Zenon, <2>1, SubDef, <1>1 DEF Index
    <3>2. /\ Capacity + tl - h \in Int
          /\ 0 <= Capacity + tl - h
          /\ Capacity + tl - h < IndexMod
          /\ Capacity + tl - h = Capacity - Sub(h, tl)
      BY <3>1, <2>1, <1>1, <1>3
    <3> QED
      BY Zenon, <3>2, <1>1, ModLow
  <2>2. CASE h < tl
    <3>1. Sub(h, tl) = h - tl + IndexMod
      BY <2>2, SubDef, <1>1 DEF Index
    <3>2. /\ Capacity + tl - h \in Int
          /\ IndexMod <= Capacity + tl - h
          /\ Capacity + tl - h < 2 * IndexMod
          /\ (Capacity + tl - h) - IndexMod = Capacity - Sub(h, tl)
      BY <3>1, <2>2, <1>1, <1>3
    <3> QED
      BY Zenon, <3>2, <1>1, ModHigh
  <2> QED
    BY <2>1, <2>2, <1>1
<1>4. Sub(Capacity + tl, h) = (Capacity + tl - h) % IndexMod
  BY <1>1 DEF Sub
<1>5. CASE Sub(h, tl) <= Capacity
  BY <1>2, <1>3, <1>4, <1>5, Zenon
<1>6. CASE ~(Sub(h, tl) <= Capacity)
  BY <1>2, <1>4, <1>6, Zenon
<1> QED
  BY Zenon, <1>5, <1>6

LEMMA SlotType == ASSUME NEW a \in Index PROVE Slot(a) \in 0 .. Size - 1
  BY SizeAssumption DEF Slot, Index

(* The assumptions on the constants, without the divisibility. *)
LEMMA Consts ==
  /\ Size \in Nat /\ Capacity \in Nat /\ IndexMod \in Nat /\ MaxStall \in Nat
  /\ Capacity < Size /\ Size <= IndexMod /\ Capacity + MaxStall < IndexMod
  /\ 0 \in Index /\ MaxStall \in Index /\ 0 \in 0 .. MaxStall
  BY SizeAssumption DEF Index

LEMMA IndexNat == \A i \in Index : i \in Nat /\ i < IndexMod
  BY Consts DEF Index

LEMMA AddZero == ASSUME NEW a \in Index PROVE Add(a, 0) = a
  BY AddDef, Consts DEF Index

LEMMA SubSelf == ASSUME NEW a \in Index PROVE Sub(a, a) = 0
  BY SubDef DEF Index

(* Distances add up as long as they do not go around. *)
LEMMA SubTrans ==
  ASSUME NEW a \in Index, NEW b \in Index, NEW c \in Index,
         Sub(a, b) + Sub(b, c) < IndexMod
  PROVE  Sub(a, c) = Sub(a, b) + Sub(b, c)
<1>1. /\ Sub(a, b) = IF a >= b THEN a - b ELSE a - b + IndexMod
      /\ Sub(b, c) = IF b >= c THEN b - c ELSE b - c + IndexMod
      /\ Sub(a, c) = IF a >= c THEN a - c ELSE a - c + IndexMod
  BY Zenon, SubDef
<1> QED
  BY <1>1, Consts DEF Index

(* Moving the far end of a distance, and its near end. *)
LEMMA SubAddFar ==
  ASSUME NEW a \in Index, NEW b \in Index, NEW k \in Index, Sub(a, b) + k < IndexMod
  PROVE  Add(a, k) \in Index /\ Sub(Add(a, k), b) = Sub(a, b) + k
<1>1. /\ Add(a, k) \in Index
      /\ Add(a, k) = IF a + k < IndexMod THEN a + k ELSE a + k - IndexMod
  BY Zenon, AddDef
<1>2. Sub(a, b) = IF a >= b THEN a - b ELSE a - b + IndexMod
  BY Zenon, SubDef
<1>3. Sub(Add(a, k), b) = IF Add(a, k) >= b THEN Add(a, k) - b ELSE Add(a, k) - b + IndexMod
  BY Zenon, <1>1, SubDef
<1> QED
  BY <1>1, <1>2, <1>3, Consts DEF Index

LEMMA SubAddNear ==
  ASSUME NEW a \in Index, NEW b \in Index, NEW k \in Index, k <= Sub(a, b)
  PROVE  Add(b, k) \in Index /\ Sub(a, Add(b, k)) = Sub(a, b) - k
<1>1. /\ Add(b, k) \in Index
      /\ Add(b, k) = IF b + k < IndexMod THEN b + k ELSE b + k - IndexMod
  BY Zenon, AddDef
<1>2. Sub(a, b) = IF a >= b THEN a - b ELSE a - b + IndexMod
  BY Zenon, SubDef
<1>3. Sub(a, Add(b, k)) = IF a >= Add(b, k) THEN a - Add(b, k) ELSE a - Add(b, k) + IndexMod
  BY Zenon, <1>1, SubDef
<1> QED
  BY <1>1, <1>2, <1>3, Consts DEF Index

LEMMA AddAdd ==
  ASSUME NEW a \in Index, NEW k \in Index, NEW l \in Index, k + l < IndexMod
  PROVE  k + l \in Index /\ Add(Add(a, k), l) = Add(a, k + l)
<1>1. /\ Add(a, k) \in Index
      /\ Add(a, k) = IF a + k < IndexMod THEN a + k ELSE a + k - IndexMod
  BY Zenon, AddDef
<1>2. k + l \in Index
  BY Consts DEF Index
<1>3. Add(a, k + l) = IF a + (k + l) < IndexMod THEN a + (k + l) ELSE a + (k + l) - IndexMod
  BY Zenon, <1>2, AddDef
<1>4. Add(Add(a, k), l) = IF Add(a, k) + l < IndexMod THEN Add(a, k) + l ELSE Add(a, k) + l - IndexMod
  BY Zenon, <1>1, AddDef
<1> QED
  BY <1>1, <1>2, <1>3, <1>4, Consts DEF Index

(* An index that moved by less than 2^32 did move. *)
LEMMA AddFix == ASSUME NEW a \in Index, NEW k \in Index, Add(a, k) = a PROVE k = 0
<1>1. Add(a, k) = IF a + k < IndexMod THEN a + k ELSE a + k - IndexMod
  BY Zenon, AddDef
<1> QED
  BY <1>1, Consts DEF Index

(* Two indexes at distance 0 are the same. *)
LEMMA SubZero == ASSUME NEW a \in Index, NEW b \in Index, Sub(a, b) = 0 PROVE a = b
<1>1. Sub(a, b) = IF a >= b THEN a - b ELSE a - b + IndexMod
  BY Zenon, SubDef
<1> QED
  BY <1>1, Consts DEF Index

(* No request asks for more than it is granted from. *)
LEMMA GrantedType ==
  ASSUME NEW r \in EnqueueRequests \cup DequeueRequests \cup {NoRequest}, NEW a \in Index
  PROVE  /\ Granted(r, a) \in Index
         /\ Granted(r, a) <= a
         /\ Granted(r, a) <= r.max
         /\ r.max \in Nat
  BY RequestAssumption, SizeAssumption DEF Granted, NoRequest, Index

LEMMA ModNegative == ASSUME NEW a \in Int, NEW m \in Nat, -m <= a, a < 0 PROVE a % m = a + m
  OBVIOUS

LEMMA RoomBehind ==
  ASSUME NEW h \in Index, NEW tl \in Index, NEW k \in Nat, k <= MaxStall,
         Sub(Add(h, k), tl) <= Capacity
  PROVE  Sub(Capacity + tl, h) = Capacity - Sub(Add(h, k), tl) + k
<1>1. /\ Capacity \in Nat /\ IndexMod \in Nat /\ MaxStall \in Nat
      /\ Capacity + MaxStall < IndexMod
      /\ h \in 0 .. IndexMod - 1 /\ tl \in 0 .. IndexMod - 1 /\ k \in Index
  BY Consts DEF Index
<1>2. PICK hd \in Int, d \in Int :
        /\ hd = Add(h, k) /\ d = Sub(hd, tl) /\ 0 <= d /\ d <= Capacity
        /\ hd = h + k \/ hd = h + k - IndexMod
        /\ d = hd - tl \/ d = hd - tl + IndexMod
  <2>1. Add(h, k) \in Index /\ Add(h, k) = IF h + k < IndexMod THEN h + k ELSE h + k - IndexMod
    BY Zenon, <1>1, AddDef
  <2>2. /\ Sub(Add(h, k), tl) \in Index
        /\ Sub(Add(h, k), tl) = IF Add(h, k) >= tl THEN Add(h, k) - tl
                                                  ELSE Add(h, k) - tl + IndexMod
    BY Zenon, <2>1, SubDef
  <2> QED
    BY <2>1, <2>2, <1>1, IndexNat
<1>3. PICK f \in Int : f = Capacity - d + k /\ 0 <= f /\ f < IndexMod
  BY <1>1, <1>2
<1>4. PICK x \in Int : x = Capacity + tl - h
  BY <1>1
<1>5. x = f \/ x = f + IndexMod \/ x = f - IndexMod
  BY <1>1, <1>2, <1>3, <1>4
<1>6. x % IndexMod = f
  <2>1. CASE x = f
    BY Zenon, <2>1, <1>1, <1>3, ModLow
  <2>2. CASE x = f + IndexMod
    <3>1. IndexMod <= x /\ x < 2 * IndexMod /\ x - IndexMod = f
      BY <2>2, <1>1, <1>3
    <3> QED
      BY Zenon, <3>1, <1>1, ModHigh
  <2>3. CASE x = f - IndexMod
    <3>1. -IndexMod <= x /\ x < 0 /\ x + IndexMod = f
      BY <2>3, <1>1, <1>3
    <3> QED
      BY Zenon, <3>1, <1>1, ModNegative
  <2> QED
    BY Zenon, <1>5, <2>1, <2>2, <2>3
<1>7. Sub(Capacity + tl, h) = (Capacity + tl - h) % IndexMod
  BY <1>1 DEF Sub
<1> QED
  BY Zenon, <1>2, <1>3, <1>4, <1>6, <1>7

LEMMA Multiple ==
  ASSUME NEW m \in Nat, m > 0, NEW q \in Int, 0 < m * q
  PROVE  m <= m * q
<1>1. CASE q <= 0
  BY <1>1
<1>2. CASE q >= 1
  BY <1>2
<1> QED
  BY <1>1, <1>2

LEMMA Quotient ==
  ASSUME NEW a \in Nat, NEW m \in Nat, m > 0
  PROVE  \E q \in Int : a - (a % m) = m * q
<1>1. a \div m \in Int
  OBVIOUS
<1>2. a - (a % m) = m * (a \div m)
  BY SMTT(30)
<1> QED
  BY Zenon, <1>1, <1>2

LEMMA Distribute ==
  ASSUME NEW m \in Int, NEW x \in Int, NEW y \in Int
  PROVE  /\ m * (x - y) = m * x - m * y
         /\ m * (x + y) = m * x + m * y
  OBVIOUS

LEMMA SlotInjective ==
  ASSUME NEW a \in Index, NEW b \in Index, 0 < Sub(a, b), Sub(a, b) < Size
  PROVE  Slot(a) # Slot(b)
<1>0. Size \in Nat /\ Size > 0 /\ IndexMod \in Nat /\ a \in Nat /\ b \in Nat
  BY Consts, IndexNat
<1>1. SUFFICES ASSUME a % Size = b % Size PROVE FALSE
  BY Zenon DEF Slot
<1>2. PICK qa \in Int : a - (a % Size) = Size * qa
  BY Zenon, <1>0, Quotient
<1>3. PICK qb \in Int : b - (b % Size) = Size * qb
  BY Zenon, <1>0, Quotient
<1>4. PICK qm \in Int : IndexMod - (IndexMod % Size) = Size * qm
  BY Zenon, <1>0, Quotient
<1>5. PICK r \in Int : r = a % Size /\ r = b % Size
  <2>1. a % Size \in Int
    BY <1>0
  <2> QED
    BY Zenon, <1>1, <2>1
<1>6. IndexMod % Size = 0
  BY Zenon, SizeAssumption
<1>7. a - r = Size * qa /\ b - r = Size * qb /\ IndexMod = Size * qm
  <2>1. IndexMod - 0 = Size * qm
    BY Zenon, <1>4, <1>6
  <2> QED
    BY <1>0, <1>2, <1>3, <1>5, <2>1
<1>8. PICK x \in Int, y \in Int, z \in Int :
        x = Size * qa /\ y = Size * qb /\ z = Size * qm
  BY <1>0
<1>9. Size * (qa - qb) = x - y /\ Size * (qa - qb + qm) = x - y + z
  <2>1. qa - qb \in Int
    OBVIOUS
  <2>2. Size * (qa - qb) = Size * qa - Size * qb
    BY <1>0, Distribute
  <2>3. Size * ((qa - qb) + qm) = Size * (qa - qb) + Size * qm
    BY <1>0, <2>1, Distribute
  <2> QED
    BY Zenon, <1>8, <2>2, <2>3
<1>10. a - b = Size * (qa - qb) /\ a - b + IndexMod = Size * (qa - qb + qm)
  <2>1. a - r = x /\ b - r = y /\ IndexMod = z
    BY Zenon, <1>7, <1>8
  <2>2. a - b = x - y /\ a - b + IndexMod = x - y + z
    BY <2>1, <1>0
  <2> QED
    BY Zenon, <2>2, <1>9
<1>11. Sub(a, b) = a - b \/ Sub(a, b) = a - b + IndexMod
  BY Zenon, SubDef, <1>0
<1>12. CASE Sub(a, b) = a - b
  <2>1. qa - qb \in Int /\ 0 < Size * (qa - qb) /\ Size * (qa - qb) < Size
    BY <1>10, <1>12
  <2>2. Size <= Size * (qa - qb)
    BY Zenon, <1>0, <2>1, Multiple
  <2> QED
    BY <1>0, <1>12, <1>10, <2>2
<1>13. CASE Sub(a, b) = a - b + IndexMod
  <2>1. qa - qb + qm \in Int /\ 0 < Size * (qa - qb + qm)
    BY <1>10, <1>13
  <2>2. Size <= Size * (qa - qb + qm)
    BY Zenon, <1>0, <2>1, Multiple
  <2> QED
    BY <1>0, <1>13, <1>10, <2>2
<1> QED
  BY Zenon, <1>11, <1>12, <1>13

LEMMA SlotsApart ==
  ASSUME NEW i \in Index, NEW j \in Index, NEW c \in Index,
         Sub(i, c) < Sub(j, c), Sub(j, c) < Size
  PROVE  Slot(i) # Slot(j)
<1>1. /\ Sub(i, c) = IF i >= c THEN i - c ELSE i - c + IndexMod
      /\ Sub(j, c) = IF j >= c THEN j - c ELSE j - c + IndexMod
      /\ Sub(j, i) = IF j >= i THEN j - i ELSE j - i + IndexMod
  BY Zenon, SubDef
<1>2. 0 < Sub(j, i) /\ Sub(j, i) < Size
  BY <1>1, Consts, IndexNat
<1> QED
  BY Zenon, <1>2, SlotInjective

-----------------------------------------------------------------------------
(***************************************************************************)
(* The claims of one side, whichever it is.                                *)
(***************************************************************************)
(* Moving the head makes a new claim behind all the others. *)
LEMMA ClaimMade ==
  ASSUME NEW T, NEW single \in BOOLEAN, NEW head \in Index, NEW tail \in Index,
         NEW at, NEW from, NEW len, NEW at2,
         \A u \in T : from[u] \in Index /\ len[u] \in Index,
         single => \A u, v \in T : u = v,
         ClaimsIn(T, single, head, tail, at, from, len),
         NEW t \in T, at[t] \notin Claiming, at2[t] \in Claiming,
         \A u \in T : u # t => at2[u] = at[u],
         from[t] = head, len[t] > 0, Sub(head, tail) + len[t] < IndexMod
  PROVE  ClaimsIn(T, single, Add(head, len[t]), tail, at2, from, len)
<1> DEFINE off(u) == Sub(from[u], tail)
<1>1. /\ len[t] \in Int /\ Sub(head, tail) \in Int
      /\ Sub(Add(head, len[t]), tail) = Sub(head, tail) + len[t]
  BY SubAddFar, SubDef, IndexNat
<1>2. \A u \in T : off(u) \in Int /\ len[u] \in Int
  BY SubDef, IndexNat
<1>3. off(t) = Sub(head, tail)
  OBVIOUS
<1> HIDE DEF off
<1>4. ASSUME NEW u \in T, at2[u] \in Claiming
      PROVE  /\ len[u] > 0
             /\ off(u) + len[u] <= Sub(Add(head, len[t]), tail)
             /\ u # t => off(u) + len[u] <= off(t)
             /\ single => from[u] = tail /\ Sub(Add(head, len[t]), tail) = len[u]
  <2>1. CASE u = t
    <3>1. single => head = tail
      BY Zenon DEF ClaimsIn
    <3>2. single => Sub(head, tail) = 0
      BY Zenon, <3>1, SubSelf
    <3> QED
      BY <1>1, <1>3, <2>1, <3>1, <3>2
  <2>2. CASE u # t
    <3>1. at[u] \in Claiming /\ ~single
      BY Zenon, <1>4, <2>2
    <3>2. len[u] > 0 /\ off(u) + len[u] <= Sub(head, tail)
      BY Zenon, <3>1 DEF ClaimsIn, off
    <3> QED
      BY <1>1, <1>2, <1>3, <2>2, <3>1, <3>2
  <2> QED
    BY Zenon, <2>1, <2>2
<1>5. ASSUME NEW u \in T, NEW v \in T, u # v, at2[u] \in Claiming, at2[v] \in Claiming
      PROVE  off(u) + len[u] <= off(v) \/ off(v) + len[v] <= off(u)
  <2>1. CASE u = t \/ v = t
    BY Zenon, <1>4, <1>5, <2>1
  <2>2. CASE u # t /\ v # t
    BY Zenon, <1>5, <2>2 DEF ClaimsIn, off
  <2> QED
    BY Zenon, <2>1, <2>2
<1>6. ASSUME NEW u \in T, single, at2[u] \notin Claiming
      PROVE  Add(head, len[t]) = tail
  BY Zenon, <1>6
<1> QED
  BY Zenon, <1>4, <1>5, <1>6 DEF ClaimsIn, off

(* Publishing the first claim leaves the others where they are. *)
LEMMA ClaimPublished ==
  ASSUME NEW T, NEW single \in BOOLEAN, NEW head \in Index, NEW tail \in Index,
         NEW at, NEW from, NEW len, NEW at2, NEW from2, NEW len2,
         \A u \in T : from[u] \in Index /\ len[u] \in Index,
         single => \A u, v \in T : u = v,
         ClaimsIn(T, single, head, tail, at, from, len),
         NEW t \in T, at[t] \in Claiming, at2[t] \notin Claiming,
         \A u \in T : u # t => at2[u] = at[u] /\ from2[u] = from[u] /\ len2[u] = len[u],
         single \/ tail = from[t]
  PROVE  /\ from[t] = tail
         /\ len[t] <= Sub(head, tail)
         /\ ClaimsIn(T, single, head, Add(tail, len[t]), at2, from2, len2)
<1> DEFINE off(u) == Sub(from[u], tail)
           tail2 == Add(tail, len[t])
<1>1. from[t] = tail /\ off(t) = 0
  BY Zenon, SubSelf DEF ClaimsIn
<1>2. \A u \in T : off(u) \in Int /\ len[u] \in Int /\ off(u) >= 0
  BY SubDef, IndexNat
<1>3. Sub(head, tail) \in Int /\ len[t] > 0 /\ len[t] <= Sub(head, tail)
  <2>1. len[t] > 0 /\ off(t) + len[t] <= Sub(head, tail)
    BY Zenon DEF ClaimsIn
  <2>2. Sub(head, tail) \in Int
    BY SubDef, Consts DEF Index
  <2> QED
    BY <1>1, <1>2, <2>1, <2>2
<1>4. tail2 \in Index /\ Sub(head, tail2) = Sub(head, tail) - len[t]
  BY Zenon, <1>3, SubAddNear
<1>5. ASSUME NEW u \in T, u # t, at[u] \in Claiming
      PROVE  /\ ~single
             /\ len[u] > 0
             /\ off(u) + len[u] <= Sub(head, tail)
             /\ Sub(from[u], tail2) = off(u) - len[t]
  <2>1. ~single /\ len[u] > 0 /\ off(u) + len[u] <= Sub(head, tail)
    BY Zenon, <1>5 DEF ClaimsIn
  <2>2. off(t) + len[t] <= off(u) \/ off(u) + len[u] <= off(t)
    BY Zenon, <1>5 DEF ClaimsIn
  <2>3. len[t] <= off(u)
    BY <1>1, <1>2, <2>1, <2>2
  <2> QED
    BY <2>1, <2>3, SubAddNear
<1> HIDE DEF off, tail2
<1>6. ASSUME NEW u \in T, at2[u] \in Claiming
      PROVE  /\ len2[u] > 0
             /\ Sub(from2[u], tail2) + len2[u] <= Sub(head, tail2)
             /\ single => from2[u] = tail2 /\ Sub(head, tail2) = len2[u]
  BY <1>2, <1>3, <1>4, <1>5, <1>6
<1>7. ASSUME NEW u \in T, NEW v \in T, u # v, at2[u] \in Claiming, at2[v] \in Claiming
      PROVE  \/ Sub(from2[u], tail2) + len2[u] <= Sub(from2[v], tail2)
             \/ Sub(from2[v], tail2) + len2[v] <= Sub(from2[u], tail2)
  <2>1. off(u) + len[u] <= off(v) \/ off(v) + len[v] <= off(u)
    BY Zenon, <1>7 DEF ClaimsIn, off
  <2> QED
    BY <1>2, <1>3, <1>5, <1>7, <2>1
<1>8. ASSUME NEW u \in T, single, at2[u] \notin Claiming
      PROVE  head = tail2
  <2>1. Sub(head, tail2) = 0
    BY <1>1, <1>2, <1>3, <1>4, <1>8 DEF ClaimsIn
  <2> QED
    BY Zenon, <2>1, <1>4, SubZero
<1> QED
  BY Zenon, <1>1, <1>3, <1>6, <1>7, <1>8 DEF ClaimsIn, tail2

-----------------------------------------------------------------------------
LEMMA Distances ==
  ASSUME RingInv
  PROVE  /\ prod_head \in Index /\ prod_tail \in Index
         /\ cons_head \in Index /\ cons_tail \in Index
         /\ Sub(cons_head, cons_tail) \in Index
         /\ Sub(prod_tail, cons_head) \in Index
         /\ Sub(prod_head, prod_tail) \in Index
         /\ Sub(cons_head, cons_tail) + Sub(prod_tail, cons_head) + Sub(prod_head, prod_tail)
              <= Capacity
         /\ Sub(prod_tail, cons_tail) = Sub(prod_tail, cons_head) + Sub(cons_head, cons_tail)
         /\ Sub(prod_head, cons_tail) = Sub(prod_head, prod_tail) + Sub(prod_tail, cons_tail)
<1>1. /\ prod_head \in Index /\ prod_tail \in Index
      /\ cons_head \in Index /\ cons_tail \in Index
  BY Zenon DEF RingInv, TypeOK
<1>2. /\ Sub(cons_head, cons_tail) \in Index
      /\ Sub(prod_tail, cons_head) \in Index
      /\ Sub(prod_head, prod_tail) \in Index
  BY Zenon, <1>1, SubDef
<1>3. Sub(cons_head, cons_tail) + Sub(prod_tail, cons_head) + Sub(prod_head, prod_tail) <= Capacity
  BY Zenon DEF RingInv, IndexOrder
<1>4. Sub(prod_tail, cons_head) + Sub(cons_head, cons_tail) < IndexMod
  BY <1>2, <1>3, Consts DEF Index
<1>5. Sub(prod_tail, cons_tail) = Sub(prod_tail, cons_head) + Sub(cons_head, cons_tail)
  BY Zenon, <1>1, <1>4, SubTrans
<1>6. Sub(prod_head, prod_tail) + Sub(prod_tail, cons_tail) < IndexMod
  BY <1>2, <1>3, <1>5, Consts DEF Index
<1>7. Sub(prod_head, cons_tail) = Sub(prod_head, prod_tail) + Sub(prod_tail, cons_tail)
  BY Zenon, <1>1, <1>6, SubTrans
<1> QED
  BY Zenon, <1>1, <1>2, <1>3, <1>5, <1>7

(* The failed compare-exchange holds the current head again. *)

(***************************************************************************)
(* Exclusive slots: claims are disjoint ranges of indexes, and indexes     *)
(* less than Size apart are different slots.                               *)
(***************************************************************************)

(* Where a claim begins, seen from cons.tail, and where it must end. *)
LEMMA ClaimOffset ==
  ASSUME RingInv, NEW t \in Threads, pc[t] \in Claiming
  PROVE  /\ old_head[t] \in Index /\ n[t] \in Nat /\ Sub(old_head[t], cons_tail) \in Nat
         /\ t \in Consumers =>
              Sub(old_head[t], cons_tail) + n[t] <= Sub(cons_head, cons_tail)
         /\ t \in Producers =>
              /\ Sub(old_head[t], cons_tail) = Sub(old_head[t], prod_tail) + Sub(prod_tail, cons_tail)
              /\ Sub(old_head[t], cons_tail) + n[t] <= Sub(prod_head, cons_tail)
<1>1. /\ old_head[t] \in Index /\ n[t] \in Nat /\ Sub(old_head[t], cons_tail) \in Nat
      /\ Sub(old_head[t], prod_tail) \in Nat
  BY Zenon, Distances, SubDef, IndexNat DEF RingInv, TypeOK
<1>2. ASSUME t \in Consumers
      PROVE  Sub(old_head[t], cons_tail) + n[t] <= Sub(cons_head, cons_tail)
  BY Zenon, <1>2 DEF RingInv, Claims, ClaimsIn
<1>3. ASSUME t \in Producers
      PROVE  /\ Sub(old_head[t], cons_tail) = Sub(old_head[t], prod_tail) + Sub(prod_tail, cons_tail)
             /\ Sub(old_head[t], cons_tail) + n[t] <= Sub(prod_head, cons_tail)
  <2>1. Sub(old_head[t], prod_tail) + n[t] <= Sub(prod_head, prod_tail)
    BY Zenon, <1>3 DEF RingInv, Claims, ClaimsIn
  <2>2. /\ Sub(prod_tail, cons_tail) \in Nat /\ Sub(prod_head, prod_tail) \in Nat
        /\ Sub(prod_head, prod_tail) + Sub(prod_tail, cons_tail) <= Capacity
        /\ Sub(prod_head, cons_tail) = Sub(prod_head, prod_tail) + Sub(prod_tail, cons_tail)
    <3>1. /\ Sub(cons_head, cons_tail) \in Nat /\ Sub(prod_tail, cons_head) \in Nat
          /\ Sub(prod_head, prod_tail) \in Nat
      BY Zenon, Distances, IndexNat
    <3> QED
      BY <3>1, Distances, Consts
  <2>3. Sub(old_head[t], prod_tail) + Sub(prod_tail, cons_tail) < IndexMod
    BY <1>1, <2>1, <2>2, Consts
  <2>4. Sub(old_head[t], cons_tail) = Sub(old_head[t], prod_tail) + Sub(prod_tail, cons_tail)
    BY <1>1, <2>3, Distances, SubTrans
  <2> QED
    BY <1>1, <2>1, <2>2, <2>4
<1> QED
  BY Zenon, <1>1, <1>2, <1>3

(* Two claims do not overlap, whichever sides of the ring they are on. *)
LEMMA ClaimsApart ==
  ASSUME RingInv, NEW t \in Threads, NEW u \in Threads, t # u,
         pc[t] \in Claiming, pc[u] \in Claiming
  PROVE  \/ Sub(old_head[t], cons_tail) + n[t] <= Sub(old_head[u], cons_tail)
         \/ Sub(old_head[u], cons_tail) + n[u] <= Sub(old_head[t], cons_tail)
<1>0. /\ Sub(cons_head, cons_tail) \in Nat /\ Sub(prod_tail, cons_tail) \in Nat
      /\ Sub(cons_head, cons_tail) <= Sub(prod_tail, cons_tail)
  <2>1. Sub(cons_head, cons_tail) \in Nat /\ Sub(prod_tail, cons_head) \in Nat
    BY Zenon, Distances, IndexNat
  <2> QED
    BY <2>1, Distances
<1>1. ASSUME NEW v \in Threads, pc[v] \in Claiming
      PROVE  /\ old_head[v] \in Index /\ n[v] \in Nat
             /\ Sub(old_head[v], cons_tail) \in Nat /\ Sub(old_head[v], prod_tail) \in Nat
  BY Zenon, <1>1, ClaimOffset, Distances, SubDef, IndexNat
<1>2. CASE t \in Consumers /\ u \in Consumers
  BY Zenon, <1>2 DEF RingInv, Claims, ClaimsIn
<1>3. CASE t \in Producers /\ u \in Producers
  <2>1. \/ Sub(old_head[t], prod_tail) + n[t] <= Sub(old_head[u], prod_tail)
        \/ Sub(old_head[u], prod_tail) + n[u] <= Sub(old_head[t], prod_tail)
    BY Zenon, <1>3 DEF RingInv, Claims, ClaimsIn
  <2>2. /\ Sub(old_head[t], cons_tail) = Sub(old_head[t], prod_tail) + Sub(prod_tail, cons_tail)
        /\ Sub(old_head[u], cons_tail) = Sub(old_head[u], prod_tail) + Sub(prod_tail, cons_tail)
    BY Zenon, <1>3, ClaimOffset
  <2> QED
    BY <1>0, <1>1, <2>1, <2>2
<1>4. ASSUME NEW p \in Producers, NEW c \in Consumers,
             pc[p] \in Claiming, pc[c] \in Claiming
      PROVE  Sub(old_head[c], cons_tail) + n[c] <= Sub(old_head[p], cons_tail)
  <2>1. p \in Threads /\ c \in Threads
    BY Zenon DEF Threads
  <2>2. Sub(old_head[c], cons_tail) + n[c] <= Sub(cons_head, cons_tail)
    BY Zenon, <1>4, <2>1, ClaimOffset
  <2>3. Sub(old_head[p], cons_tail) = Sub(old_head[p], prod_tail) + Sub(prod_tail, cons_tail)
    BY Zenon, <1>4, <2>1, ClaimOffset
  <2> QED
    BY <1>0, <1>1, <1>4, <2>1, <2>2, <2>3
<1> QED
  BY Zenon, <1>2, <1>3, <1>4 DEF Threads

LEMMA SlotsExclusiveInv == RingInv => SlotsExclusive
<1> SUFFICES ASSUME RingInv, NEW t \in Threads, NEW u \in Threads, t # u,
                    NEW s \in Owned(t), s \in Owned(u)
             PROVE  FALSE
  BY Zenon DEF SlotsExclusive
<1>1. pc[t] \in Claiming /\ pc[u] \in Claiming
  BY Zenon DEF Owned, Claiming
<1>2. PICK k \in 0 .. n[t] - 1 : s = Slot(Add(old_head[t], k))
  BY Zenon, <1>1 DEF Owned, Claiming
<1>3. PICK l \in 0 .. n[u] - 1 : s = Slot(Add(old_head[u], l))
  BY Zenon, <1>1 DEF Owned, Claiming
<1>4. ASSUME NEW v \in Threads, pc[v] \in Claiming, NEW i \in 0 .. n[v] - 1
      PROVE  /\ Add(old_head[v], i) \in Index /\ i \in Nat /\ i < n[v] /\ n[v] \in Nat
             /\ Sub(old_head[v], cons_tail) \in Nat
             /\ Sub(Add(old_head[v], i), cons_tail) = Sub(old_head[v], cons_tail) + i
             /\ Sub(old_head[v], cons_tail) + i < Size
  <2>1. /\ old_head[v] \in Index /\ n[v] \in Nat /\ Sub(old_head[v], cons_tail) \in Nat
    BY Zenon, <1>4, ClaimOffset
  <2>2. i \in Nat /\ i < n[v]
    BY <2>1
  <2>3. /\ Sub(cons_head, cons_tail) \in Nat /\ Sub(cons_head, cons_tail) <= Capacity
        /\ Sub(prod_head, cons_tail) \in Nat /\ Sub(prod_head, cons_tail) <= Capacity
    <3>1. /\ Sub(cons_head, cons_tail) \in Nat /\ Sub(prod_tail, cons_head) \in Nat
          /\ Sub(prod_head, prod_tail) \in Nat
      BY Zenon, Distances, IndexNat
    <3> QED
      BY <3>1, Distances, Consts
  <2>4. Sub(old_head[v], cons_tail) + n[v] <= Capacity
    <3>1. \/ Sub(old_head[v], cons_tail) + n[v] <= Sub(cons_head, cons_tail)
          \/ Sub(old_head[v], cons_tail) + n[v] <= Sub(prod_head, cons_tail)
      BY Zenon, <1>4, ClaimOffset DEF Threads
    <3> QED
      BY <2>1, <2>3, <3>1, Consts
  <2>5. i \in Index /\ Sub(old_head[v], cons_tail) + i < Size
    BY <2>1, <2>2, <2>4, Consts DEF Index
  <2>6. Sub(old_head[v], cons_tail) + i < IndexMod
    BY <2>1, <2>2, <2>5, Consts
  <2>7. cons_tail \in Index
    BY Zenon, Distances
  <2>8. /\ Add(old_head[v], i) \in Index
        /\ Sub(Add(old_head[v], i), cons_tail) = Sub(old_head[v], cons_tail) + i
    BY Zenon, <2>1, <2>5, <2>6, <2>7, SubAddFar
  <2> QED
    BY Zenon, <2>1, <2>2, <2>5, <2>8
<1>5. /\ Add(old_head[t], k) \in Index /\ Add(old_head[u], l) \in Index /\ cons_tail \in Index
      /\ Sub(Add(old_head[t], k), cons_tail) < Size
      /\ Sub(Add(old_head[u], l), cons_tail) < Size
  BY Zenon, <1>1, <1>4, Distances
<1>6. \/ Sub(Add(old_head[t], k), cons_tail) < Sub(Add(old_head[u], l), cons_tail)
      \/ Sub(Add(old_head[u], l), cons_tail) < Sub(Add(old_head[t], k), cons_tail)
  <2>1. \/ Sub(old_head[t], cons_tail) + n[t] <= Sub(old_head[u], cons_tail)
        \/ Sub(old_head[u], cons_tail) + n[u] <= Sub(old_head[t], cons_tail)
    BY Zenon, <1>1, ClaimsApart
  <2>2. /\ k \in Nat /\ k < n[t] /\ n[t] \in Nat /\ Sub(old_head[t], cons_tail) \in Nat
        /\ Sub(Add(old_head[t], k), cons_tail) = Sub(old_head[t], cons_tail) + k
    BY Zenon, <1>1, <1>4
  <2>3. /\ l \in Nat /\ l < n[u] /\ n[u] \in Nat /\ Sub(old_head[u], cons_tail) \in Nat
        /\ Sub(Add(old_head[u], l), cons_tail) = Sub(old_head[u], cons_tail) + l
    BY Zenon, <1>1, <1>4
  <2> QED
    BY <2>1, <2>2, <2>3
<1> QED
  BY Zenon, <1>2, <1>3, <1>5, <1>6, SlotsApart

(***************************************************************************)
(* Justified failures: with a head that is moved[t] behind, the room (or   *)
(* the entries) a thread computes are moved[t] more than there are, never  *)
(* less.                                                                   *)
(***************************************************************************)

LEMMA RoomComputed ==
  ASSUME RingInv, NEW p \in Producers, pc[p] = "room"
  PROVE  /\ FreeEntries(p) = Capacity - Sub(prod_head, cons_tail) + moved[p]
         /\ Sub(prod_head, cons_tail) \in Nat /\ moved[p] \in Nat
<1>1. /\ old_head[p] \in Index /\ moved[p] \in 0 .. MaxStall
      /\ prod_head = Add(old_head[p], moved[p])
  BY Zenon DEF RingInv, TypeOK, Threads, HeadHeld, Held
<1>2. moved[p] \in Nat /\ moved[p] <= MaxStall
  BY <1>1, Consts
<1>3. /\ Sub(prod_head, cons_tail) \in Nat /\ Sub(prod_head, cons_tail) <= Capacity
      /\ cons_tail \in Index
  <2>1. /\ Sub(cons_head, cons_tail) \in Nat /\ Sub(prod_tail, cons_head) \in Nat
        /\ Sub(prod_head, prod_tail) \in Nat
    BY Zenon, Distances, IndexNat
  <2> QED
    BY <2>1, Distances, Consts
<1>4. Sub(Capacity + cons_tail, old_head[p]) = Capacity - Sub(prod_head, cons_tail) + moved[p]
  BY Zenon, <1>1, <1>2, <1>3, RoomBehind
<1> QED
  BY Zenon, <1>2, <1>3, <1>4 DEF FreeEntries

LEMMA EntriesComputed ==
  ASSUME RingInv, NEW c \in Consumers, pc[c] = "room"
  PROVE  /\ UsedEntries(c) = Sub(prod_tail, cons_head) + moved[c]
         /\ Sub(prod_tail, cons_head) \in Nat /\ moved[c] \in Nat
<1>1. /\ old_head[c] \in Index /\ moved[c] \in 0 .. MaxStall
      /\ cons_head = Add(old_head[c], moved[c])
  BY Zenon DEF RingInv, TypeOK, Threads, HeadHeld, Held
<1>2. /\ moved[c] \in Nat /\ moved[c] <= MaxStall /\ moved[c] \in Index
  BY <1>1, Consts DEF Index
<1>3. /\ Sub(prod_tail, cons_head) \in Nat /\ Sub(prod_tail, cons_head) <= Capacity
      /\ cons_head \in Index /\ prod_tail \in Index
  <2>1. /\ Sub(cons_head, cons_tail) \in Nat /\ Sub(prod_tail, cons_head) \in Nat
        /\ Sub(prod_head, prod_tail) \in Nat
    BY Zenon, Distances, IndexNat
  <2> QED
    BY <2>1, Distances, Consts
<1>4. /\ cons_head = IF old_head[c] + moved[c] < IndexMod
                     THEN old_head[c] + moved[c] ELSE old_head[c] + moved[c] - IndexMod
      /\ Sub(prod_tail, cons_head) =
           IF prod_tail >= cons_head THEN prod_tail - cons_head
                                     ELSE prod_tail - cons_head + IndexMod
      /\ Sub(prod_tail, old_head[c]) =
           IF prod_tail >= old_head[c] THEN prod_tail - old_head[c]
                                       ELSE prod_tail - old_head[c] + IndexMod
  BY Zenon, <1>1, <1>2, <1>3, AddDef, SubDef
<1>5. Sub(prod_tail, old_head[c]) = Sub(prod_tail, cons_head) + moved[c]
  <2>1. /\ old_head[c] \in Nat /\ prod_tail \in Nat /\ cons_head \in Nat
        /\ old_head[c] < IndexMod /\ prod_tail < IndexMod
    BY Zenon, <1>1, <1>3, IndexNat
  <2>2. Sub(prod_tail, cons_head) + moved[c] < IndexMod
    BY <1>2, <1>3, Consts
  <2> QED
    BY <1>2, <1>3, <1>4, <2>1, <2>2, Consts
<1> QED
  BY Zenon, <1>2, <1>3, <1>5 DEF UsedEntries

LEMMA RetryInv ==
  ASSUME RingInv, NEW t \in Threads, pc[t] = "cas", NEW head,
         Retry(t, head),
         t \in Producers => head = prod_head,
         t \in Consumers => head = cons_head
  PROVE  RingInv'
<1>0. head \in Index /\ Add(head, 0) = head /\ 0 \in 0 .. MaxStall
  BY Zenon, AddZero, Consts DEF RingInv, TypeOK, Threads
<1>1. TypeOK'
  BY Zenon, <1>0, Consts DEF RingInv, TypeOK, Retry, indexes
<1>2. IndexOrder'
  BY Zenon DEF RingInv, IndexOrder, Retry, indexes
<1>3. /\ HeadHeld(Producers, ProdSingle, prod_head)'
      /\ HeadHeld(Consumers, ConsSingle, cons_head)'
  BY Zenon, <1>0 DEF RingInv, TypeOK, HeadHeld, Held, Retry, indexes, Threads
<1>4. /\ Claims(Producers, ProdSingle, prod_head, prod_tail)'
      /\ Claims(Consumers, ConsSingle, cons_head, cons_tail)'
  BY DEF RingInv, TypeOK, Claims, ClaimsIn, Claiming, Retry, indexes, Threads
<1>5. Reserved'
  BY Zenon DEF RingInv, TypeOK, Reserved, Retry, indexes, Threads
<1>6. Tables'
  BY Zenon DEF RingInv, TypeOK, Tables, Claiming, Retry, Threads
<1> QED
  BY Zenon, <1>1, <1>2, <1>3, <1>4, <1>5, <1>6 DEF RingInv

(***************************************************************************)
(* The moves of the indexes.                                               *)
(***************************************************************************)
(* A head that compares equal to the one held has not moved. *)
LEMMA HeadCurrent ==
  ASSUME RingInv, NEW T \in SUBSET Threads, NEW single, NEW head,
         HeadHeld(T, single, head),
         NEW t \in T, pc[t] = "cas", single \/ head = old_head[t]
  PROVE  moved[t] = 0 /\ head = old_head[t]
<1>1. head = Add(old_head[t], moved[t]) /\ (single => moved[t] = 0)
  BY Zenon DEF HeadHeld, Held
<1>2. old_head[t] \in Index /\ moved[t] \in Index
  BY Consts DEF RingInv, TypeOK, Index
<1>3. moved[t] = 0
  BY Zenon, <1>1, <1>2, AddFix
<1> QED
  BY Zenon, <1>1, <1>2, <1>3, AddZero

(* How the history variable follows a head that moved. *)
LEMMA RivalsHeld ==
  ASSUME RingInv, NEW T \in SUBSET Threads, NEW single, NEW head, NEW t \in T,
         single => \A u, v \in T : u = v,
         HeadHeld(T, single, head), pc[t] = "cas", Claim(t, T)
  PROVE  \A u \in T : pc'[u] \in Held =>
           Add(head, n[t]) = Add(old_head'[u], moved'[u]) /\ (single => moved'[u] = 0)
<1> SUFFICES ASSUME NEW u \in T, pc'[u] \in Held
             PROVE  Add(head, n[t]) = Add(old_head'[u], moved'[u]) /\ ~single
  OBVIOUS
<1>1. u # t /\ pc[u] \in Held /\ old_head'[u] = old_head[u]
  BY Zenon DEF Claim, Held, locals, RingInv, TypeOK
<1>2. moved[u] + n[t] <= MaxStall /\ moved'[u] = moved[u] + n[t]
  BY Zenon, <1>1 DEF Claim, Held
<1>3. head = Add(old_head[u], moved[u]) /\ ~single
  BY Zenon, <1>1 DEF HeadHeld
<1>4. old_head[u] \in Index /\ moved[u] \in Index /\ n[t] \in Index /\ moved[u] + n[t] < IndexMod
  <2>1. old_head[u] \in Index /\ moved[u] \in 0 .. MaxStall /\ n[t] \in Index
    BY Zenon DEF RingInv, TypeOK
  <2>2. n[t] \in Nat
    BY Zenon, <2>1, IndexNat
  <2>3. moved[u] \in Nat /\ MaxStall \in Nat /\ IndexMod \in Nat /\ MaxStall < IndexMod
    BY <2>1, Consts
  <2>4. moved[u] \in Index /\ moved[u] + n[t] < IndexMod
    BY <1>2, <2>2, <2>3 DEF Index
  <2> QED
    BY Zenon, <2>1, <2>4
<1> QED
  BY <1>1, <1>2, <1>3, <1>4, AddAdd

LEMMA ClaimType ==
  ASSUME RingInv, NEW T, NEW t \in Threads, Claim(t, T)
  PROVE  moved' \in [Threads -> 0 .. MaxStall]
<1>1. MaxStall \in Nat /\ n[t] \in Nat /\ moved \in [Threads -> 0 .. MaxStall]
  BY Consts DEF RingInv, TypeOK, Index
<1>2. ASSUME NEW u \in Threads PROVE moved'[u] \in 0 .. MaxStall
  BY <1>1 DEF Claim
<1> QED
  BY Zenon, <1>2 DEF Claim

LEMMA MoveProdHeadInv == ASSUME RingInv, NEW p \in Producers, MoveProdHead(p) PROVE RingInv'
<1>1. CASE ~ProdSingle /\ prod_head # old_head[p]
  <2>1. p \in Threads /\ p \notin Consumers /\ pc[p] = "cas" /\ Retry(p, prod_head)
    BY Zenon, <1>1, ThreadAssumption DEF MoveProdHead, Threads
  <2> QED
    BY Zenon, <2>1, RetryInv
<1>2. CASE ProdSingle \/ prod_head = old_head[p]
  <2>0. /\ p \in Threads /\ pc[p] = "cas" /\ Producers \in SUBSET Threads
        /\ p \notin Consumers
        /\ prod_head' = Add(old_head[p], n[p])
        /\ Claim(p, Producers)
        /\ UNCHANGED <<prod_tail, cons_head, cons_tail>>
    BY Zenon, <1>2, ThreadAssumption DEF MoveProdHead, Threads
  <2>1. moved[p] = 0 /\ prod_head = old_head[p]
    BY <1>2, <2>0, HeadCurrent DEF RingInv
  <2>2. n[p] \in Index /\ n[p] > 0 /\ Sub(prod_head, cons_tail) + n[p] <= Capacity
    BY Zenon, <2>0, <2>1 DEF RingInv, TypeOK, Reserved
  <2>3. prod_head' \in Index /\ Sub(prod_head', prod_tail) = Sub(prod_head, prod_tail) + n[p]
    <3>1. Sub(prod_head, prod_tail) + n[p] < IndexMod
      BY <2>2, Distances, Consts DEF Index
    <3> QED
      BY <2>0, <2>1, <2>2, <3>1, Distances, SubAddFar
  <2>4. TypeOK'
    <3>1. moved' \in [Threads -> 0 .. MaxStall]
      BY Zenon, <2>0, <2>2, ClaimType
    <3> QED
      BY Zenon, <2>0, <2>3, <3>1 DEF RingInv, TypeOK, Claim, locals
  <2>5. IndexOrder'
    BY <2>0, <2>2, <2>3, Distances, Consts DEF IndexOrder, Index
  <2>6. HeadHeld(Producers, ProdSingle, prod_head)'
    <3>1. HeadHeld(Producers, ProdSingle, prod_head) /\ (ProdSingle => \A u, v \in Producers : u = v)
      BY Zenon, ThreadAssumption DEF RingInv
    <3>2. \A u \in Producers : pc'[u] \in Held =>
            /\ Add(prod_head, n[p]) = Add(old_head'[u], moved'[u])
            /\ ProdSingle => moved'[u] = 0
      BY <2>0, <3>1, RivalsHeld
    <3> QED
      BY Zenon, <2>0, <2>1, <3>2 DEF HeadHeld
  <2>7. HeadHeld(Consumers, ConsSingle, cons_head)'
    BY Zenon, <2>0, ThreadAssumption DEF RingInv, TypeOK, HeadHeld, Held, Claim, locals, Threads
  <2>8. Claims(Producers, ProdSingle, prod_head, prod_tail)'
    <3>1. ClaimsIn(Producers, ProdSingle, prod_head, prod_tail, pc, old_head, n)
      BY Zenon DEF RingInv, Claims
    <3>2. /\ old_head \in [Threads -> Index] /\ n \in [Threads -> Index]
          /\ old_head' = old_head /\ n' = n
          /\ pc[p] \notin Claiming /\ pc'[p] \in Claiming
          /\ \A u \in Threads : u # p => pc'[u] = pc[u]
      BY Zenon, <2>0 DEF RingInv, TypeOK, Claim, locals, Claiming
    <3>3. Sub(prod_head, prod_tail) + n[p] < IndexMod
      BY <2>2, Distances, Consts DEF Index
    <3>4. ClaimsIn(Producers, ProdSingle, Add(prod_head, n[p]), prod_tail, pc', old_head, n)
      BY Zenon, <3>1, <3>2, <3>3, <2>0, <2>1, <2>2, ClaimMade, Distances, ThreadAssumption DEF Threads
    <3> QED
      BY Zenon, <3>2, <3>4, <2>0, <2>1 DEF Claims
  <2>9. Claims(Consumers, ConsSingle, cons_head, cons_tail)'
    BY Zenon, <2>0 DEF RingInv, TypeOK, Claims, ClaimsIn, Claiming, Claim, locals, Threads
  <2>10. Reserved'
    <3>1. \A u \in Threads : pc'[u] = "cas" => n'[u] > 0
      BY Zenon, <2>0 DEF RingInv, TypeOK, Reserved, Claim, locals
    <3>2. ASSUME NEW u \in Producers, pc'[u] = "cas" PROVE moved'[u] # 0
      <4>1. u # p /\ pc[u] = "cas" /\ moved'[u] = moved[u] + n[p]
        BY Zenon, <2>0, <3>2 DEF RingInv, TypeOK, Claim, Threads
      <4>2. moved[u] \in 0 .. MaxStall
        BY Zenon DEF RingInv, TypeOK, Threads
      <4>3. n[p] \in Nat /\ n[p] > 0
        BY Zenon, <2>2, IndexNat
      <4> QED
        BY <4>1, <4>2, <4>3, Consts
    <3>3. \A c \in Consumers : pc'[c] = "cas" /\ moved'[c] = 0 =>
            n'[c] <= Sub(prod_tail, cons_head)'
      BY Zenon, <2>0, ThreadAssumption DEF RingInv, TypeOK, Reserved, Claim, locals, Threads
    <3> QED
      BY Zenon, <3>1, <3>2, <3>3 DEF Reserved
  <2>11. Tables'
    BY Zenon, <2>0, <2>2 DEF RingInv, TypeOK, Tables, Claiming, Claim, locals, Threads
  <2> QED
    BY Zenon, <2>4, <2>5, <2>6, <2>7, <2>8, <2>9, <2>10, <2>11 DEF RingInv
<1> QED
  BY Zenon, <1>1, <1>2

LEMMA MoveConsHeadInv == ASSUME RingInv, NEW c \in Consumers, MoveConsHead(c) PROVE RingInv'
<1>1. CASE ~ConsSingle /\ cons_head # old_head[c]
  <2>1. c \in Threads /\ c \notin Producers /\ pc[c] = "cas" /\ Retry(c, cons_head)
    BY Zenon, <1>1, ThreadAssumption DEF MoveConsHead, Threads
  <2> QED
    BY Zenon, <2>1, RetryInv
<1>2. CASE ConsSingle \/ cons_head = old_head[c]
  <2>0. /\ c \in Threads /\ pc[c] = "cas" /\ Consumers \in SUBSET Threads
        /\ c \notin Producers
        /\ cons_head' = Add(old_head[c], n[c])
        /\ Claim(c, Consumers)
        /\ UNCHANGED <<cons_tail, prod_head, prod_tail>>
    BY Zenon, <1>2, ThreadAssumption DEF MoveConsHead, Threads
  <2>1. moved[c] = 0 /\ cons_head = old_head[c]
    BY <1>2, <2>0, HeadCurrent DEF RingInv
  <2>2. n[c] \in Index /\ n[c] > 0 /\ n[c] <= Sub(prod_tail, cons_head)
    BY Zenon, <2>0, <2>1 DEF RingInv, TypeOK, Reserved
  <2>3. cons_head' \in Index /\ Sub(cons_head', cons_tail) = Sub(cons_head, cons_tail) + n[c]
    <3>1. Sub(cons_head, cons_tail) + n[c] < IndexMod
      BY <2>2, Distances, Consts DEF Index
    <3> QED
      BY <2>0, <2>1, <2>2, <3>1, Distances, SubAddFar
  <2>4. TypeOK'
    <3>1. moved' \in [Threads -> 0 .. MaxStall]
      BY Zenon, <2>0, <2>2, ClaimType
    <3> QED
      BY Zenon, <2>0, <2>3, <3>1 DEF RingInv, TypeOK, Claim, locals
  <2>5. IndexOrder'
    <3>1. Sub(prod_tail, cons_head') = Sub(prod_tail, cons_head) - n[c]
      BY <2>0, <2>1, <2>2, Distances, SubAddNear
    <3> QED
      BY <2>0, <2>2, <2>3, <3>1, Distances, Consts DEF IndexOrder, Index
  <2>6. HeadHeld(Consumers, ConsSingle, cons_head)'
    <3>1. HeadHeld(Consumers, ConsSingle, cons_head) /\ (ConsSingle => \A u, v \in Consumers : u = v)
      BY Zenon, ThreadAssumption DEF RingInv
    <3>2. \A u \in Consumers : pc'[u] \in Held =>
            /\ Add(cons_head, n[c]) = Add(old_head'[u], moved'[u])
            /\ ConsSingle => moved'[u] = 0
      BY <2>0, <3>1, RivalsHeld
    <3> QED
      BY Zenon, <2>0, <2>1, <3>2 DEF HeadHeld
  <2>7. HeadHeld(Producers, ProdSingle, prod_head)'
    BY Zenon, <2>0, ThreadAssumption DEF RingInv, TypeOK, HeadHeld, Held, Claim, locals, Threads
  <2>8. Claims(Consumers, ConsSingle, cons_head, cons_tail)'
    <3>1. ClaimsIn(Consumers, ConsSingle, cons_head, cons_tail, pc, old_head, n)
      BY Zenon DEF RingInv, Claims
    <3>2. /\ old_head \in [Threads -> Index] /\ n \in [Threads -> Index]
          /\ old_head' = old_head /\ n' = n
          /\ pc[c] \notin Claiming /\ pc'[c] \in Claiming
          /\ \A u \in Threads : u # c => pc'[u] = pc[u]
      BY Zenon, <2>0 DEF RingInv, TypeOK, Claim, locals, Claiming
    <3>3. Sub(cons_head, cons_tail) + n[c] < IndexMod
      BY <2>2, Distances, Consts DEF Index
    <3>4. ClaimsIn(Consumers, ConsSingle, Add(cons_head, n[c]), cons_tail, pc', old_head, n)
      BY Zenon, <3>1, <3>2, <3>3, <2>0, <2>1, <2>2, ClaimMade, Distances, ThreadAssumption DEF Threads
    <3> QED
      BY Zenon, <3>2, <3>4, <2>0, <2>1 DEF Claims
  <2>9. Claims(Producers, ProdSingle, prod_head, prod_tail)'
    BY Zenon, <2>0 DEF RingInv, TypeOK, Claims, ClaimsIn, Claiming, Claim, locals, Threads
  <2>10. Reserved'
    <3>1. \A u \in Threads : pc'[u] = "cas" => n'[u] > 0
      BY Zenon, <2>0 DEF RingInv, TypeOK, Reserved, Claim, locals
    <3>2. ASSUME NEW u \in Consumers, pc'[u] = "cas" PROVE moved'[u] # 0
      <4>1. u # c /\ pc[u] = "cas" /\ moved'[u] = moved[u] + n[c]
        BY Zenon, <2>0, <3>2 DEF RingInv, TypeOK, Claim, Threads
      <4>2. moved[u] \in 0 .. MaxStall
        BY Zenon DEF RingInv, TypeOK, Threads
      <4>3. n[c] \in Nat /\ n[c] > 0
        BY Zenon, <2>2, IndexNat
      <4> QED
        BY <4>1, <4>2, <4>3, Consts
    <3>3. \A p \in Producers : pc'[p] = "cas" /\ moved'[p] = 0 =>
            Sub(prod_head, cons_tail)' + n'[p] <= Capacity
      BY Zenon, <2>0, ThreadAssumption DEF RingInv, TypeOK, Reserved, Claim, locals, Threads
    <3> QED
      BY Zenon, <3>1, <3>2, <3>3 DEF Reserved
  <2>11. Tables'
    BY Zenon, <2>0, <2>2 DEF RingInv, TypeOK, Tables, Claiming, Claim, locals, Threads
  <2> QED
    BY Zenon, <2>4, <2>5, <2>6, <2>7, <2>8, <2>9, <2>10, <2>11 DEF RingInv
<1> QED
  BY Zenon, <1>1, <1>2

(* The first claim is the one that is published. *)
LEMMA ProdPublishes ==
  ASSUME RingInv, NEW p \in Producers, UpdateProdTail(p)
  PROVE  /\ old_head[p] = prod_tail
         /\ n[p] <= Sub(prod_head, prod_tail)
         /\ ClaimsIn(Producers, ProdSingle, prod_head, Add(prod_tail, n[p]), pc', old_head', n')
<1>0. /\ p \in Threads /\ pc[p] = "publish" /\ p \notin Consumers
      /\ ProdSingle \/ prod_tail = old_head[p]
      /\ prod_tail' = Add(old_head[p], n[p])
      /\ Return(p)
      /\ UNCHANGED <<prod_head, cons_head, cons_tail, ring>>
  BY Zenon, ThreadAssumption DEF UpdateProdTail, Threads
<1>1. ClaimsIn(Producers, ProdSingle, prod_head, prod_tail, pc, old_head, n)
  BY Zenon DEF RingInv, Claims
<1>2. /\ \A u \in Producers : old_head[u] \in Index /\ n[u] \in Index
      /\ pc[p] \in Claiming /\ pc'[p] \notin Claiming
      /\ \A u \in Producers : u # p =>
           pc'[u] = pc[u] /\ old_head'[u] = old_head[u] /\ n'[u] = n[u]
  BY Zenon, <1>0 DEF RingInv, TypeOK, Return, Claiming, Threads
<1>3. /\ prod_head \in Index /\ prod_tail \in Index /\ ProdSingle \in BOOLEAN
      /\ ProdSingle => \A u, v \in Producers : u = v
      /\ ProdSingle \/ prod_tail = old_head[p]
  BY Zenon, <1>0, Distances, ThreadAssumption
<1> QED
  BY <1>1, <1>2, <1>3, ClaimPublished

LEMMA UpdateProdTailInv == ASSUME RingInv, NEW p \in Producers, UpdateProdTail(p) PROVE RingInv'
<1>0. /\ p \in Threads /\ pc[p] = "publish" /\ p \notin Consumers
      /\ ProdSingle \/ prod_tail = old_head[p]
      /\ prod_tail' = Add(old_head[p], n[p])
      /\ Return(p)
      /\ UNCHANGED <<prod_head, cons_head, cons_tail, ring>>
  BY Zenon, ThreadAssumption DEF UpdateProdTail, Threads
<1>1. /\ old_head[p] = prod_tail
      /\ n[p] <= Sub(prod_head, prod_tail)
      /\ ClaimsIn(Producers, ProdSingle, prod_head, Add(prod_tail, n[p]), pc', old_head', n')
  BY Zenon, ProdPublishes
<1>2. n[p] \in Index /\ prod_tail' = Add(prod_tail, n[p]) /\ prod_tail' \in Index
  BY Zenon, <1>0, <1>1, Distances, AddDef DEF RingInv, TypeOK
<1>3. Sub(prod_head, prod_tail') = Sub(prod_head, prod_tail) - n[p]
  BY <1>1, <1>2, Distances, SubAddNear
<1>4. Sub(prod_tail', cons_head) = Sub(prod_tail, cons_head) + n[p]
  <2>1. Sub(prod_tail, cons_head) + n[p] < IndexMod
    BY <1>1, <1>2, Distances, Consts DEF Index
  <2> QED
    BY <1>2, <2>1, Distances, SubAddFar
<1>5. TypeOK'
  BY <1>0, <1>2, Consts DEF RingInv, TypeOK, Return
<1>6. IndexOrder'
  BY <1>0, <1>2, <1>3, <1>4, Distances, Consts DEF IndexOrder, Index
<1>7. /\ HeadHeld(Producers, ProdSingle, prod_head)'
      /\ HeadHeld(Consumers, ConsSingle, cons_head)'
  BY Zenon, <1>0 DEF RingInv, TypeOK, HeadHeld, Held, Return, Threads
<1>8. Claims(Producers, ProdSingle, prod_head, prod_tail)'
  BY Zenon, <1>0, <1>1, <1>2 DEF Claims
<1>9. Claims(Consumers, ConsSingle, cons_head, cons_tail)'
  BY Zenon, <1>0 DEF RingInv, TypeOK, Claims, ClaimsIn, Claiming, Return, Threads
<1>10. Reserved'
  <2>1. ASSUME NEW u \in Threads, pc'[u] = "cas"
        PROVE  u # p /\ pc[u] = "cas" /\ n'[u] = n[u] /\ moved'[u] = moved[u] /\ n[u] > 0
    BY Zenon, <1>0, <2>1 DEF RingInv, TypeOK, Reserved, Return
  <2>2. ASSUME NEW c \in Consumers, pc'[c] = "cas", moved'[c] = 0
        PROVE  n'[c] <= Sub(prod_tail', cons_head)
    <3>1. n[c] <= Sub(prod_tail, cons_head) /\ n[c] \in Index /\ n'[c] = n[c]
      BY Zenon, <2>1, <2>2 DEF RingInv, TypeOK, Reserved, Threads
    <3> QED
      BY <1>2, <1>4, <3>1, Distances, Consts DEF Index
  <2> QED
    BY Zenon, <1>0, <2>1, <2>2 DEF RingInv, Reserved, Threads
<1>11. Tables'
  BY Zenon, <1>0 DEF RingInv, TypeOK, Tables, Claiming, Return, Threads
<1> QED
  BY Zenon, <1>5, <1>6, <1>7, <1>8, <1>9, <1>10, <1>11 DEF RingInv

LEMMA ConsPublishes ==
  ASSUME RingInv, NEW c \in Consumers, UpdateConsTail(c)
  PROVE  /\ old_head[c] = cons_tail
         /\ n[c] <= Sub(cons_head, cons_tail)
         /\ ClaimsIn(Consumers, ConsSingle, cons_head, Add(cons_tail, n[c]), pc', old_head', n')
<1>0. /\ c \in Threads /\ pc[c] = "publish" /\ c \notin Producers
      /\ ConsSingle \/ cons_tail = old_head[c]
      /\ cons_tail' = Add(old_head[c], n[c])
      /\ Return(c)
      /\ UNCHANGED <<prod_head, prod_tail, cons_head, ring>>
  BY Zenon, ThreadAssumption DEF UpdateConsTail, Threads
<1>1. ClaimsIn(Consumers, ConsSingle, cons_head, cons_tail, pc, old_head, n)
  BY Zenon DEF RingInv, Claims
<1>2. /\ \A u \in Consumers : old_head[u] \in Index /\ n[u] \in Index
      /\ pc[c] \in Claiming /\ pc'[c] \notin Claiming
      /\ \A u \in Consumers : u # c =>
           pc'[u] = pc[u] /\ old_head'[u] = old_head[u] /\ n'[u] = n[u]
  BY Zenon, <1>0 DEF RingInv, TypeOK, Return, Claiming, Threads
<1>3. /\ cons_head \in Index /\ cons_tail \in Index /\ ConsSingle \in BOOLEAN
      /\ ConsSingle => \A u, v \in Consumers : u = v
      /\ ConsSingle \/ cons_tail = old_head[c]
  BY Zenon, <1>0, Distances, ThreadAssumption
<1> QED
  BY <1>1, <1>2, <1>3, ClaimPublished

LEMMA UpdateConsTailInv == ASSUME RingInv, NEW c \in Consumers, UpdateConsTail(c) PROVE RingInv'
<1>0. /\ c \in Threads /\ pc[c] = "publish" /\ c \notin Producers
      /\ ConsSingle \/ cons_tail = old_head[c]
      /\ cons_tail' = Add(old_head[c], n[c])
      /\ Return(c)
      /\ UNCHANGED <<prod_head, prod_tail, cons_head, ring>>
  BY Zenon, ThreadAssumption DEF UpdateConsTail, Threads
<1>1. /\ old_head[c] = cons_tail
      /\ n[c] <= Sub(cons_head, cons_tail)
      /\ ClaimsIn(Consumers, ConsSingle, cons_head, Add(cons_tail, n[c]), pc', old_head', n')
  BY Zenon, ConsPublishes
<1>2. n[c] \in Index /\ cons_tail' = Add(cons_tail, n[c]) /\ cons_tail' \in Index
  BY Zenon, <1>0, <1>1, Distances, AddDef DEF RingInv, TypeOK
<1>3. Sub(cons_head, cons_tail') = Sub(cons_head, cons_tail) - n[c]
  BY <1>1, <1>2, Distances, SubAddNear
<1>4. Sub(prod_head, cons_tail') = Sub(prod_head, cons_tail) - n[c]
  <2>1. n[c] <= Sub(prod_head, cons_tail)
    BY <1>1, <1>2, Distances, Consts DEF Index
  <2> QED
    BY <1>2, <2>1, Distances, SubAddNear
<1>5. TypeOK'
  BY <1>0, <1>2, Consts DEF RingInv, TypeOK, Return
<1>6. IndexOrder'
  BY <1>0, <1>2, <1>3, Distances, Consts DEF IndexOrder, Index
<1>7. /\ HeadHeld(Producers, ProdSingle, prod_head)'
      /\ HeadHeld(Consumers, ConsSingle, cons_head)'
  BY Zenon, <1>0 DEF RingInv, TypeOK, HeadHeld, Held, Return, Threads
<1>8. Claims(Consumers, ConsSingle, cons_head, cons_tail)'
  BY Zenon, <1>0, <1>1, <1>2 DEF Claims
<1>9. Claims(Producers, ProdSingle, prod_head, prod_tail)'
  BY Zenon, <1>0 DEF RingInv, TypeOK, Claims, ClaimsIn, Claiming, Return, Threads
<1>10. Reserved'
  <2>1. ASSUME NEW u \in Threads, pc'[u] = "cas"
        PROVE  u # c /\ pc[u] = "cas" /\ n'[u] = n[u] /\ moved'[u] = moved[u] /\ n[u] > 0
    BY Zenon, <1>0, <2>1 DEF RingInv, TypeOK, Reserved, Return
  <2>2. ASSUME NEW p \in Producers, pc'[p] = "cas", moved'[p] = 0
        PROVE  Sub(prod_head, cons_tail') + n'[p] <= Capacity
    <3>1. /\ Sub(prod_head, cons_tail) + n[p] <= Capacity
          /\ n[p] \in Index /\ n'[p] = n[p]
      BY Zenon, <2>1, <2>2 DEF RingInv, TypeOK, Reserved, Threads
    <3> QED
      BY <1>2, <1>4, <3>1, Distances, Consts DEF Index
  <2> QED
    BY Zenon, <1>0, <2>1, <2>2 DEF RingInv, Reserved, Threads
<1>11. Tables'
  BY Zenon, <1>0 DEF RingInv, TypeOK, Tables, Claiming, Return, Threads
<1> QED
  BY Zenon, <1>5, <1>6, <1>7, <1>8, <1>9, <1>10, <1>11 DEF RingInv


-----------------------------------------------------------------------------
LEMMA InitInv == Init => RingInv
<1> SUFFICES ASSUME Init PROVE RingInv
  OBVIOUS
<1>1. TypeOK
  BY SizeAssumption DEF Init, TypeOK, Index, Threads
<1>2. Sub(0, 0) = 0
  BY SizeAssumption DEF Sub
<1>3. IndexOrder
  BY <1>2, SizeAssumption DEF Init, IndexOrder
<1> QED
  BY Zenon, <1>1, <1>3 DEF Init, RingInv, HeadHeld, Claims, ClaimsIn, Reserved, Tables, Held, Claiming, Threads

-----------------------------------------------------------------------------
(***************************************************************************)
(* One lemma per step: it preserves the invariant.                         *)
(***************************************************************************)
(* A call begins: cne_ring_{mp,sp,}_{enqueue,dequeue}_{bulk,burst}. *)
LEMMA CallInv ==
  ASSUME RingInv, NEW t \in Threads,
         NEW r \in EnqueueRequests \cup DequeueRequests, NEW objs \in Seq(Values),
         t \in Producers => Len(objs) = r.max,
         Call(t, r, objs)
  PROVE  RingInv'
<1>1. TypeOK'
  BY Zenon DEF RingInv, TypeOK, Call, indexes, locals
<1>2. IndexOrder'
  BY Zenon DEF RingInv, IndexOrder, Call, indexes
<1>3. /\ HeadHeld(Producers, ProdSingle, prod_head)'
      /\ HeadHeld(Consumers, ConsSingle, cons_head)'
  BY Zenon DEF RingInv, TypeOK, HeadHeld, Held, Call, indexes, locals, Threads
<1>4. /\ Claims(Producers, ProdSingle, prod_head, prod_tail)'
      /\ Claims(Consumers, ConsSingle, cons_head, cons_tail)'
  BY Zenon DEF RingInv, TypeOK, Claims, ClaimsIn, Claiming, Call, indexes, locals, Threads
<1>5. Reserved'
  BY Zenon DEF RingInv, TypeOK, Reserved, Call, indexes, locals, Threads
<1>6. Tables'
  BY Zenon DEF RingInv, TypeOK, Tables, Claiming, Call, locals, Threads
<1> QED
  BY Zenon, <1>1, <1>2, <1>3, <1>4, <1>5, <1>6 DEF RingInv

(* The load of the head: what is held is the current head. *)
LEMMA LoadHeadInv ==
  ASSUME RingInv, NEW t \in Threads, NEW head,
         LoadHead(t, head),
         t \in Producers => head = prod_head,
         t \in Consumers => head = cons_head
  PROVE  RingInv'
<1>0. head \in Index /\ Add(head, 0) = head /\ 0 \in 0 .. MaxStall
  BY Zenon, AddZero, Consts DEF RingInv, TypeOK, Threads
<1>1. TypeOK'
  BY Zenon, <1>0 DEF RingInv, TypeOK, LoadHead, indexes
<1>2. IndexOrder'
  BY Zenon DEF RingInv, IndexOrder, LoadHead, indexes
<1>3. /\ HeadHeld(Producers, ProdSingle, prod_head)'
      /\ HeadHeld(Consumers, ConsSingle, cons_head)'
  BY Zenon, <1>0 DEF RingInv, TypeOK, HeadHeld, Held, LoadHead, indexes, Threads
<1>4. /\ Claims(Producers, ProdSingle, prod_head, prod_tail)'
      /\ Claims(Consumers, ConsSingle, cons_head, cons_tail)'
  BY Zenon DEF RingInv, TypeOK, Claims, ClaimsIn, Claiming, LoadHead, indexes, Threads
<1>5. Reserved'
  BY Zenon DEF RingInv, TypeOK, Reserved, LoadHead, indexes, Threads
<1>6. Tables'
  BY Zenon DEF RingInv, TypeOK, Tables, Claiming, LoadHead, Threads
<1> QED
  BY Zenon, <1>1, <1>2, <1>3, <1>4, <1>5, <1>6 DEF RingInv

(* A call that returns without having moved its head. *)
LEMMA ReturnEmptyInv ==
  ASSUME RingInv, NEW t \in Threads, pc[t] \notin Claiming,
         Return(t), UNCHANGED <<indexes, ring>>
  PROVE  RingInv'
<1>1. TypeOK'
  BY Consts DEF RingInv, TypeOK, Return, indexes
<1>2. IndexOrder'
  BY Zenon DEF RingInv, IndexOrder, indexes
<1>3. /\ HeadHeld(Producers, ProdSingle, prod_head)'
      /\ HeadHeld(Consumers, ConsSingle, cons_head)'
  BY Zenon DEF RingInv, TypeOK, HeadHeld, Held, Return, indexes, Threads
<1>4. /\ Claims(Producers, ProdSingle, prod_head, prod_tail)'
      /\ Claims(Consumers, ConsSingle, cons_head, cons_tail)'
  BY Zenon DEF RingInv, TypeOK, Claims, ClaimsIn, Claiming, Return, indexes, Threads
<1>5. Reserved'
  BY Zenon DEF RingInv, TypeOK, Reserved, Return, indexes, Threads
<1>6. Tables'
  BY Zenon DEF RingInv, TypeOK, Tables, Claiming, Return, Threads
<1> QED
  BY Zenon, <1>1, <1>2, <1>3, <1>4, <1>5, <1>6 DEF RingInv

(* The load of the other side's tail: what is granted is there, unless the *)
(* head held is out of date.                                               *)
LEMMA ReserveInv ==
  ASSUME RingInv, NEW t \in Threads, NEW avail \in Index,
         Reserve(t, avail),
         t \in Producers /\ moved[t] = 0 => Sub(prod_head, cons_tail) + avail <= Capacity,
         t \in Consumers /\ moved[t] = 0 => avail <= Sub(prod_tail, cons_head)
  PROVE  RingInv'
<1>0. /\ prod_head \in Index /\ cons_tail \in Index /\ prod_tail \in Index /\ cons_head \in Index
      /\ Sub(prod_head, cons_tail) \in Int /\ Sub(prod_tail, cons_head) \in Int
      /\ Capacity \in Nat
  BY SubDef, Consts DEF RingInv, TypeOK, Index
<1>1. CASE Granted(req[t], avail) = 0
  BY Zenon, <1>1, ReturnEmptyInv DEF Reserve, Claiming
<1>2. CASE Granted(req[t], avail) # 0
  <2> DEFINE g == Granted(req[t], avail)
  <2>0. g \in Index /\ g > 0 /\ g <= avail /\ g <= req[t].max /\ req[t].max \in Nat
    <3>1. req[t] \in EnqueueRequests \cup DequeueRequests \cup {NoRequest}
      BY Zenon DEF RingInv, TypeOK
    <3> QED
      BY <1>2, <3>1, GrantedType DEF Index
  <2> HIDE DEF g
  <2>1. /\ pc[t] = "room"
        /\ n' = [n EXCEPT ![t] = g]
        /\ pc' = [pc EXCEPT ![t] = "cas"]
        /\ UNCHANGED <<req, obj_table, old_head, copied, moved, ring,
                       prod_head, prod_tail, cons_head, cons_tail>>
    BY Zenon, <1>2 DEF Reserve, g, indexes
  <2>2. TypeOK'
    BY Zenon, <2>0, <2>1 DEF RingInv, TypeOK
  <2>3. IndexOrder'
    BY Zenon, <2>1 DEF RingInv, IndexOrder
  <2>4. /\ HeadHeld(Producers, ProdSingle, prod_head)'
        /\ HeadHeld(Consumers, ConsSingle, cons_head)'
    BY Zenon, <2>1 DEF RingInv, TypeOK, HeadHeld, Held, Threads
  <2>5. /\ Claims(Producers, ProdSingle, prod_head, prod_tail)'
        /\ Claims(Consumers, ConsSingle, cons_head, cons_tail)'
    BY Zenon, <2>1 DEF RingInv, TypeOK, Claims, ClaimsIn, Claiming, Threads
  <2>6. Reserved'
    <3>1. \A u \in Threads : pc'[u] = "cas" => n'[u] > 0
      BY Zenon, <2>0, <2>1 DEF RingInv, TypeOK, Reserved
    <3>0. /\ n'[t] = g
          /\ \A u \in Threads : u # t => n'[u] = n[u] /\ pc'[u] = pc[u]
      BY Zenon, <2>1 DEF RingInv, TypeOK
    <3>2. \A p \in Producers : pc'[p] = "cas" /\ moved'[p] = 0 =>
            Sub(prod_head, cons_tail) + n'[p] <= Capacity
      <4>1. t \in Producers /\ moved[t] = 0 => Sub(prod_head, cons_tail) + g <= Capacity
        BY <1>0, <2>0 DEF Index
      <4> QED
        BY Zenon, <2>1, <3>0, <4>1 DEF RingInv, Reserved, Threads
    <3>3. \A c \in Consumers : pc'[c] = "cas" /\ moved'[c] = 0 =>
            n'[c] <= Sub(prod_tail, cons_head)
      <4>1. t \in Consumers /\ moved[t] = 0 => g <= Sub(prod_tail, cons_head)
        BY <1>0, <2>0 DEF Index
      <4> QED
        BY Zenon, <2>1, <3>0, <4>1 DEF RingInv, Reserved, Threads
    <3> QED
      BY Zenon, <2>1, <3>1, <3>2, <3>3 DEF Reserved
  <2>7. Tables'
    BY Zenon, <2>0, <2>1 DEF RingInv, TypeOK, Tables, Claiming, Threads
  <2> QED
    BY Zenon, <2>2, <2>3, <2>4, <2>5, <2>6, <2>7 DEF RingInv
<1> QED
  BY Zenon, <1>1, <1>2

(* The distances that IndexOrder adds up. *)

(* A copied slot, in either direction. *)
LEMMA CopyInv ==
  ASSUME RingInv, NEW t \in Threads, CopiedOne(t),
         ring' \in [0 .. Size - 1 -> Values],
         obj_table' \in [Threads -> Seq(Values)],
         \A p \in Producers : obj_table'[p] = obj_table[p]
  PROVE  RingInv'
<1>0. /\ copied[t] + 1 \in Index /\ copied[t] + 1 <= n[t]
      /\ copied[t] \in Int /\ n[t] \in Int
  BY Consts DEF RingInv, TypeOK, Tables, CopiedOne, Index
<1>1. TypeOK'
  BY Zenon, <1>0 DEF RingInv, TypeOK, CopiedOne, indexes
<1>2. IndexOrder'
  BY Zenon DEF RingInv, IndexOrder, CopiedOne, indexes
<1>3. /\ HeadHeld(Producers, ProdSingle, prod_head)'
      /\ HeadHeld(Consumers, ConsSingle, cons_head)'
  BY Zenon DEF RingInv, TypeOK, HeadHeld, Held, CopiedOne, indexes, Threads
<1>4. /\ Claims(Producers, ProdSingle, prod_head, prod_tail)'
      /\ Claims(Consumers, ConsSingle, cons_head, cons_tail)'
  BY Zenon DEF RingInv, TypeOK, Claims, ClaimsIn, Claiming, CopiedOne, indexes, Threads
<1>5. Reserved'
  BY Zenon DEF RingInv, TypeOK, Reserved, CopiedOne, indexes, Threads
<1>6. Tables'
  <2>1. ASSUME NEW u \in Threads, pc'[u] = "copy" PROVE copied'[u] < n'[u]
    <3>1. CASE u = t
      <4>1. copied'[t] = copied[t] + 1 /\ n'[t] = n[t] /\ copied[t] + 1 # n[t]
        BY Zenon, <2>1, <3>1 DEF RingInv, TypeOK, CopiedOne
      <4> QED
        BY <1>0, <3>1, <4>1
    <3>2. CASE u # t
      BY Zenon, <2>1, <3>2 DEF RingInv, TypeOK, Tables, CopiedOne
    <3> QED
      BY Zenon, <3>1, <3>2
  <2>2. \A u \in Threads : pc'[u] \notin Claiming => copied'[u] = 0
    BY Zenon DEF RingInv, TypeOK, Tables, CopiedOne, Claiming
  <2>3. \A p \in Producers : pc'[p] # "idle" =>
          /\ Len(obj_table'[p]) = req'[p].max
          /\ pc'[p] \in {"cas", "copy", "publish"} => n'[p] <= req'[p].max
    BY Zenon DEF RingInv, TypeOK, Tables, CopiedOne, Threads
  <2> QED
    BY Zenon, <2>1, <2>2, <2>3 DEF Tables
<1> QED
  BY Zenon, <1>1, <1>2, <1>3, <1>4, <1>5, <1>6 DEF RingInv

LEMMA ElementType == ASSUME NEW S, NEW s \in Seq(S), NEW i \in 1 .. Len(s) PROVE s[i] \in S
  OBVIOUS

LEMMA CopyInInv == ASSUME RingInv, NEW p \in Producers, CopyIn(p) PROVE RingInv'
<1>1. p \in Threads /\ pc[p] = "copy" /\ CopiedOne(p)
  BY Zenon DEF CopyIn, CopiedOne, Threads
<1>2. obj_table[p] \in Seq(Values) /\ copied[p] + 1 \in 1 .. Len(obj_table[p])
  <2>1. /\ copied[p] \in Nat /\ n[p] \in Nat /\ copied[p] < n[p]
        /\ n[p] <= req[p].max /\ Len(obj_table[p]) = req[p].max
        /\ obj_table[p] \in Seq(Values)
    BY <1>1, Consts DEF RingInv, TypeOK, Tables, Index
  <2>2. n[p] <= Len(obj_table[p]) /\ Len(obj_table[p]) \in Nat
    BY <2>1
  <2>3. copied[p] + 1 \in Nat /\ 1 <= copied[p] + 1 /\ copied[p] + 1 <= n[p]
    BY <2>1
  <2> QED
    BY <2>1, <2>2, <2>3
<1>3. obj_table[p][copied[p] + 1] \in Values
  BY Zenon, <1>2, ElementType
<1>4. Slot(Add(old_head[p], copied[p])) \in 0 .. Size - 1
  BY Zenon, <1>1, AddDef, SlotType DEF RingInv, TypeOK
<1>5. ring' \in [0 .. Size - 1 -> Values]
  BY Zenon, <1>3, <1>4 DEF RingInv, TypeOK, CopyIn
<1>6. obj_table' = obj_table /\ obj_table \in [Threads -> Seq(Values)]
  BY Zenon DEF CopyIn, RingInv, TypeOK
<1> QED
  BY Zenon, <1>1, <1>5, <1>6, CopyInv

LEMMA CopyOutInv == ASSUME RingInv, NEW c \in Consumers, CopyOut(c) PROVE RingInv'
<1>1. c \in Threads /\ CopiedOne(c) /\ c \notin Producers
  BY Zenon, ThreadAssumption DEF CopyOut, Threads
<1>2. Slot(Add(old_head[c], copied[c])) \in 0 .. Size - 1
  BY Zenon, <1>1, AddDef, SlotType DEF RingInv, TypeOK
<1>3. ring[Slot(Add(old_head[c], copied[c]))] \in Values
  BY Zenon, <1>2 DEF RingInv, TypeOK
<1>4. Append(obj_table[c], ring[Slot(Add(old_head[c], copied[c]))]) \in Seq(Values)
  BY <1>1, <1>3 DEF RingInv, TypeOK
<1>5. /\ ring' \in [0 .. Size - 1 -> Values]
      /\ obj_table' \in [Threads -> Seq(Values)]
      /\ \A p \in Producers : obj_table'[p] = obj_table[p]
  BY Zenon, <1>1, <1>4 DEF RingInv, TypeOK, CopyOut, Threads
<1> QED
  BY Zenon, <1>1, <1>5, CopyInv

(* What LoadConsTail and LoadProdTail compute. *)
LEMMA LoadConsTailInv == ASSUME RingInv, NEW p \in Producers, LoadConsTail(p) PROVE RingInv'
<1>1. p \in Threads /\ p \notin Consumers /\ pc[p] = "room" /\ Reserve(p, FreeEntries(p))
  BY Zenon, ThreadAssumption DEF LoadConsTail, Reserve, Threads
<1>2. old_head[p] \in Index /\ FreeEntries(p) \in Index
  BY Zenon, <1>1, FreeDef, Distances DEF RingInv, TypeOK, FreeEntries
<1>3. ASSUME moved[p] = 0
      PROVE  Sub(prod_head, cons_tail) + FreeEntries(p) <= Capacity
  <2>1. prod_head = old_head[p]
    BY Zenon, <1>1, <1>2, <1>3, AddZero DEF RingInv, HeadHeld, Held
  <2>2. Sub(prod_head, cons_tail) \in Int /\ Sub(prod_head, cons_tail) <= Capacity
    <3>1. /\ Sub(cons_head, cons_tail) \in Nat
          /\ Sub(prod_tail, cons_head) \in Nat
          /\ Sub(prod_head, prod_tail) \in Nat
      BY Zenon, Distances, IndexNat
    <3> QED
      BY <3>1, Distances, Consts
  <2>3. FreeEntries(p) = Capacity - Sub(prod_head, cons_tail)
    BY Zenon, <2>1, <2>2, Distances, FreeDef DEF FreeEntries
  <2> QED
    BY <2>2, <2>3, Consts
<1> QED
  BY Zenon, <1>1, <1>2, <1>3, ReserveInv

LEMMA LoadProdTailInv == ASSUME RingInv, NEW c \in Consumers, LoadProdTail(c) PROVE RingInv'
<1>1. c \in Threads /\ c \notin Producers /\ pc[c] = "room" /\ Reserve(c, UsedEntries(c))
  BY Zenon, ThreadAssumption DEF LoadProdTail, Reserve, Threads
<1>2. old_head[c] \in Index /\ UsedEntries(c) \in Index
  BY Zenon, <1>1, SubDef, Distances DEF RingInv, TypeOK, UsedEntries
<1>3. ASSUME moved[c] = 0
      PROVE  UsedEntries(c) <= Sub(prod_tail, cons_head)
  <2>1. cons_head = old_head[c]
    BY Zenon, <1>1, <1>2, <1>3, AddZero DEF RingInv, HeadHeld, Held
  <2> QED
    BY <1>2, <2>1, IndexNat DEF UsedEntries
<1> QED
  BY Zenon, <1>1, <1>2, <1>3, ReserveInv

===============================================================================
