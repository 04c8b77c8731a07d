------------------------------ MODULE MCProgress ------------------------------
(***************************************************************************)
(* The registration of threads, and the timers: what is done on one thread *)
(* for another, which waits for it.  A behaviour is one of ThreadRegistry  *)
(* or one of Timers.                                                       *)
(***************************************************************************)
EXTENDS ThreadRegistry

CONSTANTS
  Subjects,   \* the modules that a run looks at
  Timers, Workloads, MaxTime

VARIABLES
  subject,
  calls, status, expire, period, pending, head_expire, list_lock, updated, running_tim,
  stat, tpc, op, run, next, cur_time, now

TimerThreads == {1, 2}

T == INSTANCE Timers WITH Threads <- TimerThreads, pc <- tpc

Resets(S, periods, sync) ==
  [f : {"reset"}, tim : S, tim_thread : TimerThreads, ticks : {1}, period : periods, sync : sync]

Stops(S) ==
  [f : {"stop"}, tim : S, tim_thread : {1}, ticks : {0}, period : {0}, sync : {FALSE}]

OneShots == Resets(Timers, {0}, {FALSE}) \cup Stops(Timers)

OneShot == {OneShots}

timerVars == <<calls, status, expire, period, pending, head_expire, list_lock, updated,
               running_tim, stat, tpc, op, run, next, cur_time, now>>
all == <<subject, vars, timerVars>>

(* What is not looked at is in one initial state. *)
EitherInit ==
  /\ subject \in Subjects
  /\ Init /\ (subject # "threads" => faults = {})
  /\ T!Init /\ (subject # "timers" => calls = OneShots)

Threading == subject = "threads" /\ UNCHANGED <<subject, timerVars>>
Timing == subject = "timers" /\ UNCHANGED <<subject, vars>>

EitherNext == \/ Threading /\ Next
              \/ Timing /\ T!Next

EitherSpec == EitherInit /\ [][EitherNext]_all

(* The fairness of ThreadRegistry and of Timers. *)
EitherFairSpec ==
  /\ EitherSpec
  /\ \A t \in Children : WF_all(Threading /\ ThreadStep(t))
  /\ WF_all(Threading /\ MainStep)
  /\ \A t \in TimerThreads :
       /\ SF_all(Timing /\ T!ManageStep(t))
       /\ SF_all(Timing /\ T!CallStep(t))
       /\ SF_all(Timing /\ T!CallbackReturns(t))

(* A timer that expired on a thread is run, or stopped or reset before. *)
ExpiredRun == T!ExpiredRun
==============================================================================
