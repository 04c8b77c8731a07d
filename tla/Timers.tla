------------------------------- MODULE Timers -------------------------------
(***************************************************************************)
(* The timer library (lib/usr/clib/timer).  Every thread has a list of     *)
(* pending timers in the order they expire, under a spinlock, and runs the *)
(* expired ones in cne_timer_manage.  Any thread may reset or stop any     *)
(* timer, from its main loop or from a callback; who may do so is settled  *)
(* by compare-and-exchange on the timer's status, outside the locks.       *)
(*                                                                         *)
(* A list is a sequence here; the skip list that stores it is the subject  *)
(* of module TimerSkiplist.  A section under a list lock that nobody can   *)
(* see halfway is one step.                                                *)
(***************************************************************************)
EXTENDS Integers, Sequences, FiniteSets, SequencesExt

CONSTANTS
  Threads,   \* the thread indexes
  Timers,
  Workloads, \* the sets of calls made, see CallType
  MaxTime    \* bound on the clock

CallType == [f : {"reset", "stop"}, tim : Timers, tim_thread : Threads,
             ticks : Nat, period : Nat, sync : BOOLEAN]

NoOwner == -2
None == "none"

VARIABLES
  calls,        \* the calls that threads make, the same throughout
  status,       \* tim->status
  expire,       \* tim->expire
  period,       \* tim->period
  pending,      \* the timers behind pending_head, per thread
  head_expire,  \* pending_head.expire, per thread
  list_lock,    \* the holder of the list lock, or NoOwner
  updated, running_tim,
  stat,         \* the sum of stats.pending over the threads
  pc,           \* where each thread is
  op,           \* its call: a member of calls, when, the previous status, the place to return to
  run,          \* cne_timer_manage: the expired timers left
  next,         \* cne_timer_manage: those of them not yet marked RUNNING
  cur_time,     \* cne_timer_manage: the time it works with
  now           \* the clock

tvars == <<status, expire, period>>
lvars == <<pending, head_expire, list_lock>>
mvars == <<run, next, cur_time, updated, running_tim>>
vars == <<calls, tvars, lvars, mvars, stat, pc, op, now>>

Stopped == [state |-> "STOP", owner |-> NoOwner]
NoCall == [f |-> None, tim |-> None, tim_thread |-> NoOwner, ticks |-> 0, period |-> 0, sync |-> FALSE]
NoOp == [call |-> NoCall, at |-> 0, prev |-> Stopped, back |-> "main"]

Init ==
  /\ calls \in Workloads
  /\ status = [m \in Timers |-> Stopped]
  /\ expire = [m \in Timers |-> 0] /\ period = [m \in Timers |-> 0]
  /\ pending = [t \in Threads |-> <<>>]
  /\ head_expire = [t \in Threads |-> 0]
  /\ list_lock = [t \in Threads |-> NoOwner]
  /\ updated = [t \in Threads |-> FALSE]
  /\ running_tim = [t \in Threads |-> None]
  /\ stat = 0
  /\ pc = [t \in Threads |-> "main"]
  /\ op = [t \in Threads |-> NoOp]
  /\ run = [t \in Threads |-> <<>>] /\ next = [t \in Threads |-> <<>>]
  /\ cur_time = [t \in Threads |-> 0]
  /\ now = 0

Goto(t, l) == pc' = [pc EXCEPT ![t] = l]

(***************************************************************************)
(* The lists.                                                              *)
(***************************************************************************)
(* timer_add: after the timers that expire no later *)
Added(s, m, e) ==
  LET before == SelectSeq(s, LAMBDA x : expire[x] <= e)
      after == SelectSeq(s, LAMBDA x : expire[x] > e)
  IN before \o <<m>> \o after

(* Fault: the cached expiry stays in the future. *)
HeadExpireNever(s, e) == MaxTime + 1

HeadExpire(s, e) == IF s = <<>> THEN 0 ELSE e[Head(s)]

timer_add(m, t, e) ==
  LET list == Added(pending[t], m, e)
      exp == [expire EXCEPT ![m] = e]
  IN /\ expire' = exp
     /\ pending' = [pending EXCEPT ![t] = list]
     /\ head_expire' = [head_expire EXCEPT ![t] = HeadExpire(list, exp)]

(* timer_del: pending_head.expire changes only when the head goes *)
timer_del(m, t) ==
  /\ pending' = [pending EXCEPT ![t] = SelectSeq(@, LAMBDA x : x # m)]
  /\ head_expire' =
       IF pending[t] # <<>> /\ Head(pending[t]) = m
       THEN [head_expire EXCEPT ![t] = HeadExpire(Tail(pending[t]), expire)]
       ELSE head_expire

(***************************************************************************)
(* cne_timer_reset, cne_timer_stop and their _sync forms.                  *)
(***************************************************************************)
Call(t) ==
  /\ pc[t] \in {"main", "callback"}
  /\ \E c \in calls :
       op' = [op EXCEPT ![t] = [call |-> c, at |-> now, prev |-> Stopped, back |-> pc[t]]]
  /\ Goto(t, "config")
  /\ UNCHANGED <<calls, tvars, lvars, mvars, stat, now>>

(* timer_set_config_state: not while the timer runs, unless this is its callback *)
MayConfig(t, m) ==
  /\ status[m].state = "RUNNING" => status[m].owner = t /\ running_tim[t] = m
  /\ status[m].state # "CONFIG"

timer_set_config_state(t) ==
  LET c == op[t].call  m == c.tim IN
  /\ pc[t] = "config" /\ MayConfig(t, m)
  /\ op' = [op EXCEPT ![t].prev = status[m]]
  /\ status' = [status EXCEPT ![m] = [state |-> "CONFIG", owner |-> t]]
  /\ updated' = [updated EXCEPT ![t] = @ \/ status[m].state = "RUNNING"]
  /\ Goto(t, IF status[m].state = "PENDING" THEN "del" ELSE "set")
  /\ UNCHANGED <<calls, expire, period, lvars, run, next, cur_time, running_tim, stat, now>>

(* -1; the _sync forms try again. *)
Refused(t) ==
  /\ pc[t] = "config" /\ ~MayConfig(t, op[t].call.tim)
  /\ IF op[t].call.sync
     THEN op' = [op EXCEPT ![t].at = now] /\ UNCHANGED pc
     ELSE op' = [op EXCEPT ![t] = NoOp] /\ Goto(t, op[t].back)
  /\ UNCHANGED <<calls, tvars, lvars, mvars, stat, now>>

Delete(t) ==
  LET m == op[t].call.tim  o == op[t].prev.owner IN
  /\ pc[t] = "del" /\ list_lock[o] = NoOwner
  /\ timer_del(m, o)
  /\ stat' = stat - 1
  /\ Goto(t, "set")
  /\ UNCHANGED <<calls, tvars, list_lock, mvars, op, now>>

Reset(t) ==
  LET c == op[t].call IN
  /\ pc[t] = "set" /\ c.f = "reset" /\ list_lock[c.tim_thread] = NoOwner
  /\ timer_add(c.tim, c.tim_thread, op[t].at + c.ticks)
  /\ period' = [period EXCEPT ![c.tim] = c.period]
  /\ status' = [status EXCEPT ![c.tim] = [state |-> "PENDING", owner |-> c.tim_thread]]
  /\ stat' = stat + 1
  /\ Goto(t, op[t].back)
  /\ op' = [op EXCEPT ![t] = NoOp]
  /\ UNCHANGED <<calls, list_lock, mvars, now>>

Stop(t) ==
  /\ pc[t] = "set" /\ op[t].call.f = "stop"
  /\ status' = [status EXCEPT ![op[t].call.tim] = Stopped]
  /\ Goto(t, op[t].back)
  /\ op' = [op EXCEPT ![t] = NoOp]
  /\ UNCHANGED <<calls, expire, period, lvars, mvars, stat, now>>

(***************************************************************************)
(* cne_timer_manage.                                                       *)
(***************************************************************************)
(* The quick check, without the lock. *)
Manage(t) ==
  /\ pc[t] = "main"
  /\ pending[t] # <<>> /\ head_expire[t] <= now
  /\ cur_time' = [cur_time EXCEPT ![t] = now]
  /\ Goto(t, "lock")
  /\ UNCHANGED <<calls, tvars, lvars, run, next, updated, running_tim, stat, op, now>>

(* Fault: takes the timers that expire with the next tick as well. *)
ExpiredEarly(t) == SelectSeq(pending[t], LAMBDA m : expire[m] <= cur_time[t] + 1)

Expired(t) == SelectSeq(pending[t], LAMBDA m : expire[m] <= cur_time[t])

(* The list is broken at cur_time. *)
Break(t) ==
  /\ pc[t] = "lock" /\ list_lock[t] = NoOwner
  /\ IF Expired(t) = <<>>
     THEN Goto(t, "main") /\ UNCHANGED <<lvars, next>>
     ELSE /\ list_lock' = [list_lock EXCEPT ![t] = t]
          /\ next' = [next EXCEPT ![t] = Expired(t)]
          /\ pending' = [pending EXCEPT ![t] = SubSeq(@, Len(Expired(t)) + 1, Len(@))]
          /\ Goto(t, "transition")
          /\ UNCHANGED head_expire
  /\ UNCHANGED <<calls, tvars, run, cur_time, updated, running_tim, stat, op, now>>

(* Not if another thread has begun to configure the timer. *)
timer_set_running_state(t) ==
  LET m == Head(next[t]) IN
  /\ pc[t] = "transition" /\ next[t] # <<>>
  /\ IF status[m].state = "PENDING"
     THEN /\ status' = [status EXCEPT ![m] = [state |-> "RUNNING", owner |-> t]]
          /\ run' = [run EXCEPT ![t] = Append(@, m)]
     ELSE UNCHANGED <<status, run>>
  /\ next' = [next EXCEPT ![t] = Tail(@)]
  /\ UNCHANGED <<calls, expire, period, lvars, cur_time, updated, running_tim, stat, pc, op, now>>

(* Fault: pending_head.expire is left as it was. *)
UnlockStale(t) ==
  /\ pc[t] = "transition" /\ next[t] = <<>>
  /\ list_lock' = [list_lock EXCEPT ![t] = NoOwner]
  /\ Goto(t, "next")
  /\ UNCHANGED <<calls, tvars, pending, head_expire, mvars, stat, op, now>>

Unlock(t) ==
  /\ pc[t] = "transition" /\ next[t] = <<>>
  /\ head_expire' = [head_expire EXCEPT ![t] = HeadExpire(pending[t], expire)]
  /\ list_lock' = [list_lock EXCEPT ![t] = NoOwner]
  /\ Goto(t, "next")
  /\ UNCHANGED <<calls, tvars, pending, mvars, stat, op, now>>

(* The next timer's callback starts, or cne_timer_manage returns. *)
RunNext(t) ==
  /\ pc[t] = "next"
  /\ IF run[t] = <<>>
     THEN /\ running_tim' = [running_tim EXCEPT ![t] = None]
          /\ Goto(t, "main")
          /\ UNCHANGED <<run, updated>>
     ELSE /\ running_tim' = [running_tim EXCEPT ![t] = Head(run[t])]
          /\ run' = [run EXCEPT ![t] = Tail(@)]
          /\ updated' = [updated EXCEPT ![t] = FALSE]
          /\ Goto(t, "callback")
  /\ UNCHANGED <<calls, tvars, lvars, next, cur_time, stat, op, now>>

CallbackReturns(t) ==
  LET m == running_tim[t] IN
  /\ pc[t] = "callback"
  /\ stat' = stat - 1
  /\ IF updated[t] THEN Goto(t, "next") /\ UNCHANGED status
     ELSE IF period[m] > 0 THEN Goto(t, "reload") /\ UNCHANGED status
     ELSE status' = [status EXCEPT ![m] = Stopped] /\ Goto(t, "next")
  /\ UNCHANGED <<calls, expire, period, lvars, mvars, op, now>>

(* A periodic timer is marked PENDING before it is on the list again, *)
ReloadPending(t) ==
  /\ pc[t] = "reload" /\ list_lock[t] = NoOwner
  /\ list_lock' = [list_lock EXCEPT ![t] = t]
  /\ status' = [status EXCEPT ![running_tim[t]] = [state |-> "PENDING", owner |-> t]]
  /\ stat' = stat + 1
  /\ Goto(t, "readd")
  /\ UNCHANGED <<calls, expire, period, pending, head_expire, mvars, op, now>>

(* Fault: puts it on the list whoever configures it by now. *)
ReloadAnyway(t) ==
  LET m == running_tim[t] IN
  /\ pc[t] = "readd"
  /\ timer_add(m, t, expire[m] + period[m])
  /\ status' = [status EXCEPT ![m] = [state |-> "PENDING", owner |-> t]]
  /\ list_lock' = [list_lock EXCEPT ![t] = NoOwner]
  /\ Goto(t, "next")
  /\ UNCHANGED <<calls, period, mvars, stat, op, now>>

(* and __cne_timer_reset adds it, unless another thread was faster. *)
Reload(t) ==
  LET m == running_tim[t] IN
  /\ pc[t] = "readd"
  /\ IF MayConfig(t, m)
     THEN /\ timer_add(m, t, expire[m] + period[m])
          /\ status' = [status EXCEPT ![m] = [state |-> "PENDING", owner |-> t]]
     ELSE UNCHANGED <<expire, status, pending, head_expire>>
  /\ list_lock' = [list_lock EXCEPT ![t] = NoOwner]
  /\ Goto(t, "next")
  /\ UNCHANGED <<calls, period, mvars, stat, op, now>>

Tick ==
  /\ now < MaxTime
  /\ now' = now + 1
  /\ UNCHANGED <<calls, tvars, lvars, mvars, stat, pc, op>>

ManageStep(t) ==
  \/ Manage(t) \/ Break(t) \/ timer_set_running_state(t) \/ Unlock(t)
  \/ RunNext(t) \/ ReloadPending(t) \/ Reload(t)

CallStep(t) ==
  timer_set_config_state(t) \/ Refused(t) \/ Delete(t) \/ Reset(t) \/ Stop(t)

Next ==
  \/ Tick
  \/ \E t \in Threads : Call(t) \/ CallStep(t) \/ ManageStep(t) \/ CallbackReturns(t)

Spec == Init /\ [][Next]_vars

(* Every thread calls cne_timer_manage again and again, callbacks return,  *)
(* and the spinlocks starve nobody.                                        *)
FairSpec ==
  /\ Spec
  /\ \A t \in Threads :
       SF_vars(ManageStep(t)) /\ SF_vars(CallStep(t)) /\ SF_vars(CallbackReturns(t))

(***************************************************************************)
(* Properties.                                                             *)
(***************************************************************************)
(* Who is the owner of a timer, and where a thread may be. *)
TypeOK ==
  /\ status \in [Timers -> [state : {"STOP", "PENDING", "RUNNING", "CONFIG"},
                            owner : Threads \cup {NoOwner}]]
  /\ \A m \in Timers : status[m].owner = NoOwner <=> status[m].state = "STOP"
  /\ pending \in [Threads -> Seq(Timers)] /\ run \in [Threads -> Seq(Timers)]
  /\ list_lock \in [Threads -> Threads \cup {NoOwner}]
  /\ running_tim \in [Threads -> Timers \cup {None}]
  /\ pc \in [Threads -> {"main", "config", "del", "set", "lock", "transition",
                         "next", "callback", "reload", "readd"}]

(* A timer is at most once on all the lists, those of expired timers       *)
(* included: adding it twice would tie the lists together.                 *)
OnOneList ==
  \A m \in Timers :
    Cardinality({<<t, i>> \in Threads \X (1 .. 2 * Cardinality(Timers)) :
                   i \in DOMAIN (pending[t] \o next[t] \o run[t])
                     /\ (pending[t] \o next[t] \o run[t])[i] = m}) <= 1

(* A thread still uses a timer: it is on one of its lists, its callback    *)
(* runs there and did not change it, or it is being reloaded.              *)
References(t, m) ==
  \/ m \in ToSet(pending[t]) \cup ToSet(next[t]) \cup ToSet(run[t])
  \/ running_tim[t] = m /\ ~updated[t] /\ pc[t] \notin {"next", "main"}

(* "If it succeeds, the timer is not referenced anymore by the timer       *)
(* library and the timer structure can be freed (even in the callback      *)
(* function)": nor is it after it ran as a one-shot.                       *)
StoppedUnreferenced ==
  \A m \in Timers, t \in Threads : status[m].state = "STOP" => ~References(t, m)

(* A timer that is PENDING is on its owner's list, unless the owner holds  *)
(* the lock to change that; what is on a list is pending or about to be    *)
(* taken off by the thread that configures it.                             *)
PendingListed ==
  /\ \A m \in Timers, t \in Threads :
       status[m] = [state |-> "PENDING", owner |-> t] /\ list_lock[t] = NoOwner =>
         m \in ToSet(pending[t])
  /\ \A t \in Threads : \A m \in ToSet(pending[t]) :
       \/ status[m] = [state |-> "PENDING", owner |-> t]
       \/ \E u \in Threads : /\ pc[u] = "del" /\ op[u].call.tim = m
                             /\ op[u].prev.owner = t

(* The cached expiry that cne_timer_manage trusts without the lock is that *)
(* of the first timer.                                                     *)
HeadExpireExact ==
  \A t \in Threads :
    list_lock[t] = NoOwner => head_expire[t] = HeadExpire(pending[t], expire)

(* The lists, the states of the timers and the cached expiries agree at    *)
(* every step of every thread: no timer is on two lists or lost, and the   *)
(* test that cne_timer_manage does without the lock is right.              *)
ListsExact == TypeOK /\ OnOneList /\ PendingListed /\ HeadExpireExact

(* A callback never starts early. *)
RunsExpired ==
  \A t \in Threads :
    pc[t] = "next" /\ pc'[t] = "callback" => expire[running_tim'[t]] <= now

(* A timer that expired on a thread is run, or stopped or reset before. *)
ExpiredRun ==
  \A m \in Timers, t \in Threads :
    status[m] = [state |-> "PENDING", owner |-> t] /\ expire[m] <= now
      ~> status[m] # [state |-> "PENDING", owner |-> t] \/ expire[m] > now
=============================================================================
