------------------------------ MODULE CthreadSema ------------------------------
(***************************************************************************)
(* The semaphore of lib/usr/clib/cthread (cthread_sema.c).  Waiting first  *)
(* decrements the count and then looks at it; signalling increments it,    *)
(* looks at it, and takes a cthread off the blocked queue if there may be  *)
(* one.  A timed wait sleeps instead: its timer resumes it from the timer  *)
(* callback of its scheduler.                                              *)
(*                                                                         *)
(* No mutex is passed to the waits.                                        *)
(***************************************************************************)
EXTENDS CthreadRun

CONSTANTS
  OrigCount,
  TimedBy,  \* for a placement of the cthreads, those that call cthread_sema_timedwait
  MaxCount  \* bound on the count, for the callers of signal

VARIABLES
  count,
  pc,         \* where a cthread is in a call, "out" when in none
  armed,      \* the cthreads whose timer is pending
  sleeping,   \* the cthreads with CT_STATE_SLEEPING
  inCallback, \* the schedulers that resumed their current cthread from a timer
  signalled   \* history: the cthreads taken off the queue while they wait

semaVars == <<count, pc, armed, sleeping, inCallback, signalled>>
vars == <<runVars, semaVars>>

SemaQueue == "sema"
Timed == TimedBy[home] # {}

(* Bound on the queues, which a timer leaves its cthread in, for the       *)
(* callers of wait.                                                        *)
MaxQueue == Cardinality(DOMAIN home)

Locations == {"out", "wait", "timedwait", "waiting", "timedwaiting", "signal", "signal_remove",
              "flush", "reset"}

TypeOK ==
  /\ RunTypes
  /\ count \in -Cardinality(Cthreads) .. MaxCount + (IF Timed THEN Cardinality(Cthreads) ELSE 0)
  /\ pc \in [Cthreads -> Locations]
  /\ armed \subseteq Cthreads /\ sleeping \subseteq Cthreads /\ signalled \subseteq Cthreads
  /\ inCallback \subseteq Schedulers

(* cthread_sema_init *)
Init ==
  /\ RunInit
  /\ count = OrigCount
  /\ pc = [t \in Cthreads |-> "out"]
  /\ armed = {} /\ sleeping = {} /\ inCallback = {} /\ signalled = {}

Goto(t, l) == pc' = [pc EXCEPT ![t] = l]
At(t, l) == Running(t) /\ pc[t] = l

(* Back in _sched_timer_cb the state is what it was before the resume. *)
LeaveCallback(t, sl) ==
  /\ sleeping' = IF home[t] \in inCallback THEN sleeping \cup {t} ELSE sl
  /\ inCallback' = inCallback \ {home[t]}

(***************************************************************************)
(* cthread_sema_wait and cthread_sema_timedwait                            *)
(***************************************************************************)
WaitCall(t) ==
  /\ At(t, "out") /\ count > -Cardinality(Cthreads)
  /\ Len(blocked[SemaQueue]) + Len(ready[home[t]]) + Len(pready[home[t]]) < MaxQueue
  /\ count' = count - 1
  /\ \/ Goto(t, "wait")
     \/ t \in TimedBy[home] /\ Goto(t, "timedwait")
  /\ signalled' = signalled \ {t}
  /\ UNCHANGED <<runVars, armed, sleeping, inCallback>>

(* Fault: a count of zero blocks. *)
WaitLoadStrict(t) ==
  /\ At(t, "wait")
  /\ IF count > 0
     THEN Goto(t, "out") /\ UNCHANGED <<runVars, sleeping, inCallback>>
     ELSE suspend(t, SemaQueue) /\ Goto(t, "waiting") /\ LeaveCallback(t, sleeping)
  /\ UNCHANGED <<count, armed, signalled>>

WaitLoad(t) ==
  /\ At(t, "wait")
  /\ IF count >= 0
     THEN Goto(t, "out") /\ UNCHANGED <<runVars, sleeping, inCallback>>
     ELSE suspend(t, SemaQueue) /\ Goto(t, "waiting") /\ LeaveCallback(t, sleeping)
  /\ UNCHANGED <<count, armed, signalled>>

(* _cthread_sched_sleep: the timer is started, then the cthread suspends *)
TimedwaitLoad(t) ==
  /\ At(t, "timedwait")
  /\ IF count >= 0
     THEN Goto(t, "out") /\ UNCHANGED <<runVars, armed, sleeping, inCallback>>
     ELSE /\ suspend(t, SemaQueue) /\ Goto(t, "timedwaiting")
          /\ armed' = armed \cup {t}
          /\ LeaveCallback(t, sleeping \cup {t})
  /\ UNCHANGED <<count, signalled>>

WaitReturn(t) ==
  /\ At(t, "waiting")
  /\ Goto(t, "out")
  /\ UNCHANGED <<runVars, count, armed, sleeping, inCallback, signalled>>

(* The state is masked with the number CT_STATE_EXPIRED, not with its bit: *)
(* CT_STATE_READY, which every cthread that ran has, is in that mask.      *)
TimedwaitReturn(t) ==
  /\ At(t, "timedwaiting")
  /\ sleeping' = sleeping \ {t}
  /\ count' = count + 1
  /\ Goto(t, "out")
  /\ UNCHANGED <<runVars, armed, inCallback, signalled>>

(***************************************************************************)
(* cthread_sema_signal                                                     *)
(***************************************************************************)
SignalCall(t) ==
  /\ At(t, "out") /\ count < MaxCount
  /\ count' = count + 1
  /\ Goto(t, "signal")
  /\ UNCHANGED <<runVars, armed, sleeping, inCallback, signalled>>

SignalLoad(t) ==
  /\ At(t, "signal")
  /\ Goto(t, IF count > 0 THEN "out" ELSE "signal_remove")
  /\ UNCHANGED <<runVars, count, armed, sleeping, inCallback, signalled>>

(* The first cthread of the queue is made ready, its timer stopped. *)
Wake(t) ==
  LET u == Head(blocked[SemaQueue]) IN
  /\ blocked' = [blocked EXCEPT ![SemaQueue] = Tail(@)]
  /\ ready_queue_insert(t, u)
  /\ armed' = IF u \in sleeping THEN armed \ {u} ELSE armed
  /\ sleeping' = sleeping \ {u}
  /\ signalled' = signalled \cup {u}
  /\ UNCHANGED <<home, current, pending>>

(* Fault: the queue is emptied but one cthread only made ready. *)
SignalRemoveAll(t) ==
  /\ At(t, "signal_remove")
  /\ IF blocked[SemaQueue] = <<>>
     THEN UNCHANGED <<runVars, armed, sleeping, signalled>>
     ELSE /\ blocked' = [blocked EXCEPT ![SemaQueue] = <<>>]
          /\ ready_queue_insert(t, Head(blocked[SemaQueue]))
          /\ signalled' = signalled \cup {Head(blocked[SemaQueue])}
          /\ UNCHANGED <<home, current, pending, armed, sleeping>>
  /\ Goto(t, "out")
  /\ UNCHANGED <<count, inCallback>>

SignalRemove(t) ==
  /\ At(t, "signal_remove")
  /\ IF blocked[SemaQueue] = <<>>
     THEN UNCHANGED <<runVars, armed, sleeping, signalled>>
     ELSE Wake(t)
  /\ Goto(t, "out")
  /\ UNCHANGED <<count, inCallback>>

(***************************************************************************)
(* _sema_flush and cthread_sema_reset                                      *)
(***************************************************************************)
FlushCall(t) ==
  /\ At(t, "out")
  /\ count' = 0
  /\ Goto(t, "flush")
  /\ UNCHANGED <<runVars, armed, sleeping, inCallback, signalled>>

(* When the queue is empty cthread_sema_flush reschedules the caller,      *)
(* cthread_sema_flush_no_sched does not.                                   *)
Flush(t) ==
  /\ At(t, "flush")
  /\ \/ /\ blocked[SemaQueue] # <<>>
        /\ Wake(t)
        /\ UNCHANGED <<pc, inCallback>>
     \/ /\ blocked[SemaQueue] = <<>>
        /\ \/ reschedule(t) /\ LeaveCallback(t, sleeping)
           \/ UNCHANGED <<runVars, sleeping, inCallback>>
        /\ Goto(t, "out")
        /\ UNCHANGED <<armed, signalled>>
  /\ UNCHANGED count

ResetCall(t) ==
  /\ At(t, "out")
  /\ Goto(t, "reset")
  /\ UNCHANGED <<runVars, count, armed, sleeping, inCallback, signalled>>

(* The timers of the cthreads that it wakes go on. *)
Reset(t) ==
  /\ At(t, "reset")
  /\ IF blocked[SemaQueue] # <<>>
     THEN LET u == Head(blocked[SemaQueue]) IN
          /\ blocked' = [blocked EXCEPT ![SemaQueue] = Tail(@)]
          /\ ready_queue_insert(t, u)
          /\ sleeping' = sleeping \ {u}
          /\ signalled' = signalled \cup {u}
          /\ UNCHANGED <<count, pc, home, current, pending>>
     ELSE /\ count' = OrigCount /\ Goto(t, "out")
          /\ UNCHANGED <<runVars, sleeping, signalled>>
  /\ UNCHANGED <<armed, inCallback>>

(***************************************************************************)
(* The scheduler                                                           *)
(***************************************************************************)
(* cne_timer_manage calls _sched_timer_cb, which resumes the cthread; it   *)
(* takes it off the queue of a condition variable, not off a semaphore's.  *)
TimerExpires(s) ==
  /\ current[s] = NoCthread
  /\ \E t \in armed :
       /\ home[t] = s
       /\ armed' = armed \ {t}
       /\ current' = [current EXCEPT ![s] = t]
       /\ inCallback' = inCallback \cup {s}
  /\ UNCHANGED <<home, ready, pready, pending, blocked, count, pc, sleeping, signalled>>

Yield(t) ==
  /\ At(t, "out")
  /\ reschedule(t)
  /\ LeaveCallback(t, sleeping)
  /\ UNCHANGED <<count, pc, armed, signalled>>

CallStep(t) == WaitLoad(t) \/ TimedwaitLoad(t) \/ WaitReturn(t) \/ TimedwaitReturn(t)
                 \/ SignalLoad(t) \/ SignalRemove(t) \/ Flush(t) \/ Reset(t)
Resume(s) == (PendingWrite(s) \/ ResumeReady(s) \/ ResumePeer(s)) /\ UNCHANGED semaVars

Next ==
  \/ \E t \in Cthreads :
       WaitCall(t) \/ SignalCall(t) \/ FlushCall(t) \/ ResetCall(t) \/ Yield(t) \/ CallStep(t)
  \/ \E s \in Schedulers : TimerExpires(s) \/ Resume(s)

Spec == Init /\ [][Next]_vars

-----------------------------------------------------------------------------
(* On one scheduler, without timed waits: between calls the count says how *)
(* many cthreads wait; what a wait took and what a signal gave is neither  *)
(* lost nor given twice (cthread_sema_wait and cthread_sema_signal; flush  *)
(* and reset set both).  Neither condition can go: a signal of another     *)
(* scheduler finds the queue empty until the deferred write, and a timed   *)
(* wait gives its permit back even when it was signalled.                  *)
CountExact ==
  OneScheduler /\ ~Timed
    /\ (\A t \in Cthreads : pc[t] \in {"out", "waiting", "timedwaiting"})
    /\ (\A s \in Schedulers : pending[s] = NoQueue)
    => Cardinality({t \in Cthreads : pc[t] \in {"waiting", "timedwaiting"}
                                       /\ t \notin signalled})
         = IF count < 0 THEN -count ELSE 0

(* Under the same conditions nothing is ready twice, and nothing ready or  *)
(* running is in the queue: a signal wakes a cthread that waits (line      *)
(* 266).  A timer leaves its cthread in the queue.                         *)
OnePlace == OneScheduler /\ ~Timed => \A t \in DOMAIN home : Places(t) = 1

(* Permits, waits and the queue agree on one scheduler. *)
PermitsExact == TypeOK /\ CountExact /\ OnePlace

(* A cthread that waits and was not woken is in the queue, or its scheduler *)
(* is about to put it there: a later signal can end every wait (the        *)
(* deferred write of _cthread_resume, and what the timer callback leaves). *)
Reachable ==
  \A t \in Cthreads : pc[t] \in {"waiting", "timedwaiting"} /\ t \notin signalled =>
    \/ t \in Members(blocked[SemaQueue])
    \/ \E s \in Schedulers : current[s] = t /\ pending[s] = SemaQueue

(* A timed wait ends although nothing signals it: until it returns, its    *)
(* cthread has a timer, is ready or runs, even when a signal, a flush or a *)
(* reset stopped its timer or found it after its timer had expired         *)
(* (_timer_stop in cthread_sema_signal, _sched_timer_cb).                  *)
TimedEnds ==
  \A t \in Cthreads : pc[t] = "timedwaiting" =>
    \/ t \in armed
    \/ \E s \in Schedulers : t \in {current[s]} \cup Members(ready[s]) \cup Members(pready[s])
==============================================================================
