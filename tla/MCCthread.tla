------------------------------ MODULE MCCthread ------------------------------
(***************************************************************************)
(* Cthreads: what they wait on, and how they live and die.  A behaviour is *)
(* one of CthreadSync, with all cthreads on one scheduler or one of them   *)
(* on another, or one of CthreadLife.                                      *)
(***************************************************************************)
EXTENDS CthreadSync

CONSTANTS
  Subjects,     \* the modules that a run looks at
  A, B, s1, s2, \* two of Cthreads and of Schedulers
  Apart         \* the cthread on another scheduler

VARIABLES
  subject,
  program, state, join, dt_join, sched, lpc, target, creator, lready, lpready, lcurrent,
  armed, saved, nb_blocked_threads, thread_count, stopped, misuse

OnOne == {[t \in Cthreads |-> s1]}
OnTwo == {[t \in Cthreads |-> IF t = Apart THEN s2 ELSE s1]}

(* The programs: two schedulers that start with one cthread each, where    *)
(* cthreads detach or migrate; one scheduler, where they sleep, detach and *)
(* are cancelled.                                                          *)
Two == [s \in {s1, s2} |-> IF s = s1 THEN A ELSE B]
One == [s \in {s1} |-> A]

Detaching == [mains |-> Two, cthreads |-> Cthreads, calls |-> {"detach"}]

SmallPrograms ==
  {Detaching,
   [mains |-> Two, cthreads |-> Cthreads, calls |-> {"affinity"}],
   [mains |-> One, cthreads |-> Cthreads, calls |-> {"sleep"}],
   [mains |-> One, cthreads |-> {A, B}, calls |-> {"sleep", "detach", "cancel"}]}

Life == INSTANCE CthreadLife WITH
  Programs <- SmallPrograms, pc <- lpc, ready <- lready, pready <- lpready, current <- lcurrent

Q == INSTANCE SequencesExt

lifeVars == <<program, state, join, dt_join, sched, lpc, target, creator, lready, lpready,
              lcurrent, armed, saved, nb_blocked_threads, thread_count, stopped, misuse>>
all == <<subject, allVars, lifeVars>>

(* What is not looked at is in one initial state. *)
EitherInit ==
  /\ subject \in Subjects
  /\ BarrierInit
  /\ subject # "sync" =>
       use = "mutex" /\ \A s \in Schedulers :
         ready[s] = Q!SetToSeq({t \in Cthreads : home[t] = s})
  /\ Life!Init /\ (subject # "life" => program = Detaching)

Syncing == subject = "sync" /\ UNCHANGED <<subject, lifeVars>>
Living == subject = "life" /\ UNCHANGED <<subject, allVars>>

EitherNext == \/ Syncing /\ BarrierNext
              \/ Living /\ Life!Next

EitherSpec == EitherInit /\ [][EitherNext]_all

(* The pthread of a scheduler runs on, and neither of its queues waits for *)
(* ever for the other.                                                     *)
EitherFairSpec ==
  /\ EitherSpec
  /\ \A s \in Schedulers :
       /\ WF_all((Syncing /\ Step(s)) \/ (Living /\ Life!Pthread(s)))
       /\ SF_all(Living /\ Life!PollReady(s))
       /\ SF_all(Living /\ Life!PollPeer(s))

(* Nothing refers to a cthread that was freed, the counts that the end of  *)
(* cthread_run is decided by are true, and when it has returned no cthread *)
(* is left, in the programs for which the parts of this say so.            *)
LifeExact == Life!NoDangling /\ Life!CountersExact /\ Life!RunReturnsLast

(* A join of a cthread that has returned ends, whichever side of the race  *)
(* of cthread_join with the exit came first.                               *)
JoinReturns == Life!JoinReturns
==============================================================================
