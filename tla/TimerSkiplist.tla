---------------------------- MODULE TimerSkiplist ----------------------------
(***************************************************************************)
(* The skip list of the timer library: the pending timers of one thread,   *)
(* linked on level 0 in the order they expire, and on higher levels in     *)
(* ever sparser sublists.  Timers keep their old pointers when they leave  *)
(* the list.  All of this runs under the thread's list lock.               *)
(***************************************************************************)
EXTENDS Integers, Sequences, SequencesExt

CONSTANTS
  Timers,
  MAX_SKIPLIST_DEPTH,
  MaxExpire            \* bound on the expiry times

NULL == "null"
Head0 == "pending_head"
Nodes == Timers \cup {Head0}
Levels == 0 .. MAX_SKIPLIST_DEPTH - 1

VARIABLES
  sl_next,   \* sl_next[node][level]
  expire,    \* of the timers
  depth,     \* curr_skiplist_depth
  listed     \* history: the pending timers in the order they should be in

vars == <<sl_next, expire, depth, listed>>

Init ==
  /\ sl_next = [n \in Nodes |-> [l \in Levels |-> NULL]]
  /\ expire = [m \in Timers |-> 1]
  /\ depth = 0
  /\ listed = <<>>

(* The last node on level l, from n on, reached through timers of Pass. *)
RECURSIVE Walk(_, _, _)
Walk(n, l, Pass) ==
  LET m == sl_next[n][l] IN
  IF m \in Pass THEN Walk(m, l, Pass) ELSE n

(* timer_get_prev_entries: level l starts where level l + 1 stopped *)
RECURSIVE PrevEntry(_, _)
PrevEntry(time_val, l) ==
  IF l = depth THEN Head0
  ELSE Walk(PrevEntry(time_val, l + 1), l, {m \in Timers : expire[m] <= time_val})

timer_get_prev_entries(time_val) == [l \in 0 .. depth |-> PrevEntry(time_val, l)]

timer_get_prev_entries_for_node(tim) ==
  [l \in 0 .. depth - 1 |->
     Walk(timer_get_prev_entries(expire[tim] - 1)[l], l,
          {m \in Timers \ {tim} : expire[m] <= expire[tim]})]

(* timer_get_skiplist_level: a random level, at most one above those in use *)
SkiplistLevels == {l \in Levels : l <= depth}

timer_add(tim, e) ==
  /\ tim \notin ToSet(listed)
  /\ \E tim_level \in SkiplistLevels :
       LET prev == timer_get_prev_entries(e) IN
       /\ depth' = IF tim_level = depth THEN depth + 1 ELSE depth
       /\ sl_next' = [n \in Nodes |-> [l \in Levels |->
            IF l > tim_level THEN sl_next[n][l]
            ELSE IF n = tim THEN sl_next[prev[l]][l]
            ELSE IF n = prev[l] THEN tim ELSE sl_next[n][l]]]
  /\ expire' = [expire EXCEPT ![tim] = e]
  /\ listed' = SelectSeq(listed, LAMBDA m : expire[m] <= e) \o <<tim>>
                 \o SelectSeq(listed, LAMBDA m : expire[m] > e)

(* Fault: the depth is not adjusted. *)
ShrunkNot(next, d) == d

(* The levels from the top that are empty. *)
Shrunk(next, d) ==
  CHOOSE k \in 0 .. d :
    /\ \A l \in k .. d - 1 : next[Head0][l] = NULL
    /\ k = 0 \/ next[Head0][k - 1] # NULL

timer_del(tim) ==
  LET prev == timer_get_prev_entries_for_node(tim)
      next == [n \in Nodes |-> [l \in Levels |->
                 IF l < depth /\ n = prev[l] /\ sl_next[n][l] = tim
                 THEN sl_next[tim][l] ELSE sl_next[n][l]]]
  IN /\ tim \in ToSet(listed)
     /\ sl_next' = next
     /\ depth' = Shrunk(next, depth)
     /\ listed' = SelectSeq(listed, LAMBDA m : m # tim)
     /\ UNCHANGED expire

(* Fault: the expired timers stay linked to the others. *)
BreakUncut(cur_time) ==
  LET prev == timer_get_prev_entries(cur_time)
      Cut(l) == l < depth /\ prev[l] # Head0
  IN /\ listed # <<>> /\ expire[Head(listed)] <= cur_time
     /\ listed' = SelectSeq(listed, LAMBDA m : expire[m] > cur_time)
     /\ sl_next' = [n \in Nodes |-> [l \in Levels |->
          IF Cut(l) /\ n = Head0 THEN sl_next[prev[l]][l] ELSE sl_next[n][l]]]
     /\ depth' = depth - Len(SelectSeq([i \in 1 .. depth |-> i - 1],
                               LAMBDA l : Cut(l) /\ sl_next[prev[l]][l] = NULL))
     /\ UNCHANGED expire

(* cne_timer_manage: cut at cur_time on every level *)
Break(cur_time) ==
  LET prev == timer_get_prev_entries(cur_time)
      Cut(l) == l < depth /\ prev[l] # Head0
  IN /\ listed # <<>> /\ expire[Head(listed)] <= cur_time
     /\ listed' = SelectSeq(listed, LAMBDA m : expire[m] > cur_time)
     /\ sl_next' = [n \in Nodes |-> [l \in Levels |->
          IF ~Cut(l) THEN sl_next[n][l]
          ELSE IF n = Head0 THEN sl_next[prev[l]][l]
          ELSE IF n = prev[l] THEN NULL ELSE sl_next[n][l]]]
     /\ depth' = depth - Len(SelectSeq([i \in 1 .. depth |-> i - 1],
                               LAMBDA l : Cut(l) /\ sl_next[prev[l]][l] = NULL))
     /\ UNCHANGED expire

Next ==
  \/ \E tim \in Timers : timer_del(tim) \/ \E e \in 1 .. MaxExpire : timer_add(tim, e)
  \/ \E cur_time \in 1 .. MaxExpire : Break(cur_time)

Spec == Init /\ [][Next]_vars

(***************************************************************************)
(* Properties.                                                             *)
(***************************************************************************)
(* The timers on level l, in order, at most as many as there are. *)
Level(l) ==
  LET f[i \in 0 .. Len(listed) + 1] ==
        IF i = 0 THEN Head0
        ELSE LET n == f[i - 1] IN IF n = NULL THEN NULL ELSE sl_next[n][l]
  IN SelectSeq([i \in 1 .. Len(listed) + 1 |-> f[i]], LAMBDA n : n # NULL)

(* Level 0 holds exactly the timers that were added and neither deleted    *)
(* nor taken as expired, in the order they expire, first come first.       *)
InOrder == Level(0) = listed

(* Every level is a sublist of the one below, none that is in use is       *)
(* empty and none above curr_skiplist_depth is reachable, although timers  *)
(* come back with the pointers they had.                                   *)
LevelsNested ==
  /\ \A l \in Levels \ {0} :
       LET upper == Level(l) IN
       upper = SelectSeq(Level(l - 1), LAMBDA m : m \in ToSet(upper))
  /\ \A l \in Levels : l < depth <=> sl_next[Head0][l] # NULL

(* After cne_timer_manage cut the list, walking level 0 from what was its  *)
(* first timer gives the expired timers and no other.                      *)
CutsExpired ==
  \A t \in 1 .. MaxExpire :
    Break(t) =>
      LET expired == SelectSeq(listed, LAMBDA m : expire[m] <= t) IN
      \A i \in DOMAIN expired :
        sl_next'[expired[i]][0] =
          IF i < Len(expired) THEN expired[i + 1] ELSE NULL
=============================================================================
