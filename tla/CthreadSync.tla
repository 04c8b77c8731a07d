----------------------------- MODULE CthreadSync ------------------------------
(***************************************************************************)
(* The mutex and the barrier of lib/usr/clib/cthread, with the condition   *)
(* variable that the barrier waits on.                                     *)
(***************************************************************************)
EXTENDS CthreadRun

-----------------------------------------------------------------------------
(***************************************************************************)
(* The mutex of lib/usr/clib/cthread (cthread_mutex.c): lock, trylock and  *)
(* unlock by cthreads of one or of several schedulers.  Each atomic access *)
(* to waiters and owner is a step; the removal from the blocked queue, the *)
(* decrement and the insertion into the ready queue in unlock are one,     *)
(* since only the owner removes and the woken cthread does not run before. *)
(* Calls that return EDEADLK or EPERM change nothing and are left out.     *)
(***************************************************************************)

VARIABLES
  waiters,
  owner,
  pc,       \* where a cthread is in a call, "out" when in none
  c,        \* the expected owner of the compare and exchange
  holds     \* history: the cthreads whose lock returned and that did not unlock

mutexVars == <<waiters, owner, pc, c, holds>>
vars == <<runVars, mutexVars>>

MutexQueue == "mutex"

Locations == {"out", "lock", "lock_cas", "lock_waiters", "lock_owner",
              "try", "try_cas", "try_fail", "unlock", "unlock_remove", "unlock_owner"}

TypeOK ==
  /\ RunTypes
  /\ waiters \in 0 .. Cardinality(Cthreads)
  /\ owner \in Cthreads \cup {NoCthread}
  /\ pc \in [Cthreads -> Locations]
  /\ c \in [Cthreads -> Cthreads \cup {NoCthread}]
  /\ holds \subseteq Cthreads

(* cthread_mutex_init *)
MutexInit ==
  /\ waiters = 0 /\ owner = NoCthread
  /\ pc = [t \in Cthreads |-> "out"]
  /\ c = [t \in Cthreads |-> NoCthread]
  /\ holds = {}

Init == RunInit /\ MutexInit

Goto(t, l) == pc' = [pc EXCEPT ![t] = l]
At(t, l) == Running(t) /\ pc[t] = l

(***************************************************************************)
(* cthread_mutex_lock                                                      *)
(***************************************************************************)
(* The owner is not the caller, and no caller locks what it has locked. *)
LockCall(t) ==
  /\ At(t, "out") /\ owner # t /\ t \notin holds
  /\ Goto(t, "lock")
  /\ UNCHANGED <<runVars, waiters, owner, c, holds>>

(* The head of the loop, also after the cthread was woken. *)
LockCount(t) ==
  /\ At(t, "lock")
  /\ waiters' = waiters + 1
  /\ c' = [c EXCEPT ![t] = NoCthread]
  /\ Goto(t, "lock_cas")
  /\ UNCHANGED <<runVars, owner, holds>>

(* Fault: the exchange does not look at the owner. *)
LockCasBlind(t) ==
  /\ At(t, "lock_cas")
  /\ owner' = t /\ holds' = holds \cup {t} /\ Goto(t, "out")
  /\ UNCHANGED <<runVars, waiters, c>>

LockCas(t) ==
  /\ At(t, "lock_cas")
  /\ IF owner = c[t]
     THEN owner' = t /\ holds' = holds \cup {t} /\ Goto(t, "out") /\ UNCHANGED c
     ELSE c' = [c EXCEPT ![t] = owner] /\ Goto(t, "lock_waiters") /\ UNCHANGED <<owner, holds>>
  /\ UNCHANGED <<runVars, waiters>>

(* _cthread_mutex_wait: on return the loop starts again *)
Block(t) == suspend(t, MutexQueue) /\ Goto(t, "lock")

LockWaiters(t) ==
  /\ At(t, "lock_waiters")
  /\ IF waiters = 1 THEN Goto(t, "lock_owner") /\ UNCHANGED runVars ELSE Block(t)
  /\ UNCHANGED <<waiters, owner, c, holds>>

LockOwner(t) ==
  /\ At(t, "lock_owner")
  /\ IF owner = NoCthread THEN Goto(t, "lock_cas") /\ UNCHANGED runVars ELSE Block(t)
  /\ UNCHANGED <<waiters, owner, c, holds>>

(***************************************************************************)
(* cthread_mutex_trylock                                                   *)
(***************************************************************************)
TryCall(t) ==
  /\ At(t, "out") /\ owner # t /\ t \notin holds
  /\ Goto(t, "try")
  /\ UNCHANGED <<runVars, waiters, owner, c, holds>>

TryCount(t) ==
  /\ At(t, "try")
  /\ waiters' = waiters + 1
  /\ Goto(t, "try_cas")
  /\ UNCHANGED <<runVars, owner, c, holds>>

TryCas(t) ==
  /\ At(t, "try_cas")
  /\ IF owner = NoCthread
     THEN owner' = t /\ holds' = holds \cup {t} /\ Goto(t, "out")
     ELSE Goto(t, "try_fail") /\ UNCHANGED <<owner, holds>>
  /\ UNCHANGED <<runVars, waiters, c>>

TryFail(t) ==
  /\ At(t, "try_fail")
  /\ waiters' = waiters - 1
  /\ Goto(t, "out")
  /\ UNCHANGED <<runVars, owner, c, holds>>

(***************************************************************************)
(* cthread_mutex_unlock                                                    *)
(***************************************************************************)
UnlockCall(t) ==
  /\ At(t, "out") /\ owner = t
  /\ waiters' = waiters - 1
  /\ holds' = holds \ {t}
  /\ Goto(t, "unlock")
  /\ UNCHANGED <<runVars, owner, c>>

(* Fault: nobody is woken. *)
UnlockLoopNever(t) ==
  /\ At(t, "unlock")
  /\ Goto(t, "unlock_owner")
  /\ UNCHANGED <<runVars, waiters, owner, c, holds>>

(* The condition of the loop. *)
UnlockLoop(t) ==
  /\ At(t, "unlock")
  /\ Goto(t, IF waiters > 0 THEN "unlock_remove" ELSE "unlock_owner")
  /\ UNCHANGED <<runVars, waiters, owner, c, holds>>

(* One blocked cthread is made ready, or the loop goes on. *)
UnlockRemove(t) ==
  /\ At(t, "unlock_remove")
  /\ IF blocked[MutexQueue] = <<>>
     THEN Goto(t, "unlock") /\ UNCHANGED <<runVars, waiters>>
     ELSE /\ ready_queue_insert(t, Head(blocked[MutexQueue]))
          /\ blocked' = [blocked EXCEPT ![MutexQueue] = Tail(@)]
          /\ waiters' = waiters - 1
          /\ Goto(t, "unlock_owner")
          /\ UNCHANGED <<home, current, pending>>
  /\ UNCHANGED <<owner, c, holds>>

UnlockOwner(t) ==
  /\ At(t, "unlock_owner")
  /\ owner' = NoCthread
  /\ Goto(t, "out")
  /\ UNCHANGED <<runVars, waiters, c, holds>>

(***************************************************************************)
(* A cthread may yield outside the calls, whether or not it has the mutex. *)
(***************************************************************************)
Yield(t) == At(t, "out") /\ reschedule(t) /\ UNCHANGED mutexVars

LockStep(t) == LockCount(t) \/ LockCas(t) \/ LockWaiters(t) \/ LockOwner(t)
TryStep(t) == TryCount(t) \/ TryCas(t) \/ TryFail(t)
UnlockStep(t) == UnlockLoop(t) \/ UnlockRemove(t) \/ UnlockOwner(t)
SchedStep(s) == (PendingWrite(s) \/ ResumeReady(s) \/ ResumePeer(s)) /\ UNCHANGED mutexVars

-----------------------------------------------------------------------------
(* The cthreads that are in the blocked queue or on the way to it. *)
Waiting ==
  Members(blocked[MutexQueue])
    \cup {current[s] : s \in {x \in Schedulers : pending[x] = MutexQueue}}

(* "A mutex can never be owned  by more than one thread simultaneously"    *)
(* (cthread_api.h), be they on one scheduler or on two.                    *)
OwnersExclusive == Cardinality(holds) <= 1

(* On one scheduler, a lock that has returned gives the mutex to its       *)
(* caller alone until the caller unlocks it, although callers yield while  *)
(* they hold it (cthread_mutex_lock, cthread_mutex_unlock).                *)
MutualExclusion ==
  OneScheduler => OwnersExclusive /\ \A t \in holds : owner = t

(* waiters counts the cthreads that hold the mutex, wait for it or are     *)
(* between their increment and the end of their attempt: the loop of       *)
(* cthread_mutex_unlock waits for exactly the cthreads that will queue.    *)
WaitersExact ==
  waiters = Cardinality(holds \cup Waiting
                          \cup {t \in Cthreads : pc[t] \in {"lock_cas", "lock_waiters", "lock_owner",
                                                            "try_cas", "try_fail"}})

(* A cthread is in one queue at most, and in none while it runs: unlock    *)
(* never makes a cthread ready that is so already (line 202).              *)
OnePlace == \A t \in Cthreads : Places(t) = 1

(* On one scheduler, when the mutex is free and cthreads wait for it, one  *)
(* of them has been woken, or a call is under way that will take the mutex *)
(* or wake one (cthread_mutex_unlock: "if there are blocked threads then   *)
(* make one ready").                                                       *)
NoLostWakeup ==
  OneScheduler /\ Waiting # {} /\ owner = NoCthread => \E t \in Cthreads \ Waiting : pc[t] # "out"

(* What cthread_mutex_lock, trylock and unlock rely on of each other: the  *)
(* owner, the count of waiters and the queue agree, and nobody waits for a *)
(* wake-up that was lost.                                                  *)
MutexExact == MutualExclusion /\ WaitersExact /\ OnePlace /\ NoLostWakeup

-----------------------------------------------------------------------------
(***************************************************************************)
(* The barrier of lib/usr/clib/cthread (cthread_barrier.c), built from the *)
(* mutex and a condition variable (cthread_cond.c).                        *)
(* Its state is read and written under the mutex; cthread_cond_wait        *)
(* unlocks the mutex before the cthread is in the queue of the condition   *)
(* variable, and cthread_cond_broadcast gives up the processor while the   *)
(* caller holds the mutex.                                                 *)
(*                                                                         *)
(* The barrier is for all the cthreads; it is not destroyed.               *)
(***************************************************************************)

CONSTANT MaxCycles  \* bound on the uses of the barrier by one cthread

ASSUME BarrierAssumption == MaxCycles \in Nat

VARIABLES
  use,       \* what the cthreads call: "barrier", or a "mutex" of their own
  bwaiters,  \* b->waiters
  cycle,     \* b->cycle
  refcount,
  seen,      \* the cycle that a waiting cthread entered in
  bpc,       \* where a cthread is in cthread_barrier_wait
  arrived,   \* history: how often a cthread entered
  passed     \* history: how often it returned

barrierVars == <<use, bwaiters, cycle, refcount, seen, bpc, arrived, passed>>
allVars == <<vars, barrierVars>>
CondQueue == "cond"
Count == Cardinality(Cthreads)

BLocations == {"out", "enter", "broadcast", "cond_wait", "cond_unlock", "cond_waiting",
               "cond_lock", "leave", "unlock"}

BarrierTypes ==
  /\ TypeOK
  /\ bwaiters \in 0 .. Count - 1
  /\ cycle \in 0 .. MaxCycles
  /\ refcount \in 0 .. Count
  /\ seen \in [Cthreads -> 0 .. MaxCycles]
  /\ bpc \in [Cthreads -> BLocations]
  /\ arrived \in [Cthreads -> 0 .. MaxCycles] /\ passed \in [Cthreads -> 0 .. MaxCycles]

(* cthread_barrier_init *)
BarrierInit ==
  /\ Init
  /\ use \in {"barrier", "mutex"}
  /\ bwaiters = 0 /\ cycle = 0 /\ refcount = 0
  /\ seen = [t \in Cthreads |-> 0]
  /\ bpc = [t \in Cthreads |-> "out"]
  /\ arrived = [t \in Cthreads |-> 0] /\ passed = [t \in Cthreads |-> 0]

BGoto(t, l) == bpc' = [bpc EXCEPT ![t] = l]
BAt(t, l) == At(t, "out") /\ bpc[t] = l

Enter(t) ==
  /\ use = "barrier" /\ BAt(t, "out") /\ arrived[t] < MaxCycles
  /\ LockCall(t)
  /\ BGoto(t, "enter")
  /\ UNCHANGED <<use, bwaiters, cycle, refcount, seen, arrived, passed>>

(* Fault: the last cthread does not reset the number of waiters. *)
ArriveKept(t) ==
  /\ BAt(t, "enter")
  /\ arrived' = [arrived EXCEPT ![t] = @ + 1]
  /\ bwaiters' = (bwaiters + 1) % (Count + 1)
  /\ IF bwaiters + 1 >= Count
     THEN cycle' = cycle + 1 /\ BGoto(t, "broadcast") /\ UNCHANGED <<seen, refcount>>
     ELSE /\ seen' = [seen EXCEPT ![t] = cycle]
          /\ refcount' = refcount + 1 /\ BGoto(t, "cond_wait") /\ UNCHANGED cycle
  /\ UNCHANGED <<vars, use, passed>>

Arrive(t) ==
  /\ BAt(t, "enter")
  /\ arrived' = [arrived EXCEPT ![t] = @ + 1]
  /\ IF bwaiters + 1 = Count
     THEN /\ bwaiters' = 0 /\ cycle' = cycle + 1 /\ BGoto(t, "broadcast")
          /\ UNCHANGED <<seen, refcount>>
     ELSE /\ bwaiters' = bwaiters + 1
          /\ seen' = [seen EXCEPT ![t] = cycle]
          /\ refcount' = refcount + 1 /\ BGoto(t, "cond_wait") /\ UNCHANGED cycle
  /\ UNCHANGED <<vars, use, passed>>

(* _cond_broadcast: the queue is drained, then the caller rescheduled *)
cond_broadcast(t) ==
  /\ BAt(t, "broadcast")
  /\ IF blocked[CondQueue] = <<>>
     THEN reschedule(t) /\ BGoto(t, "leave")
     ELSE /\ blocked' = [blocked EXCEPT ![CondQueue] = Tail(@)]
          /\ ready_queue_insert(t, Head(blocked[CondQueue]))
          /\ UNCHANGED <<home, current, pending, bpc>>
  /\ UNCHANGED <<mutexVars, use, bwaiters, cycle, refcount, seen, arrived, passed>>

(* cthread_cond_wait: unlock the mutex, wait, lock it again *)
CondUnlock(t) ==
  /\ BAt(t, "cond_wait")
  /\ UnlockCall(t)
  /\ BGoto(t, "cond_unlock")
  /\ UNCHANGED <<use, bwaiters, cycle, refcount, seen, arrived, passed>>

CondSuspend(t) ==
  /\ BAt(t, "cond_unlock")
  /\ suspend(t, CondQueue)
  /\ BGoto(t, "cond_waiting")
  /\ UNCHANGED <<mutexVars, use, bwaiters, cycle, refcount, seen, arrived, passed>>

CondLock(t) ==
  /\ BAt(t, "cond_waiting")
  /\ LockCall(t)
  /\ BGoto(t, "cond_lock")
  /\ UNCHANGED <<use, bwaiters, cycle, refcount, seen, arrived, passed>>

(* The condition of the loop in cthread_barrier_wait. *)
CondTest(t) ==
  /\ BAt(t, "cond_lock")
  /\ IF seen[t] = cycle
     THEN BGoto(t, "cond_wait") /\ UNCHANGED refcount
     ELSE refcount' = refcount - 1 /\ BGoto(t, "leave")
  /\ UNCHANGED <<vars, use, bwaiters, cycle, seen, arrived, passed>>

(* Fault: a cthread that leaves does not wake the next one. *)
LeaveQuietly(t) ==
  /\ BAt(t, "leave")
  /\ owner' = NoCthread /\ holds' = holds \ {t} /\ waiters' = waiters - 1
  /\ BGoto(t, "unlock")
  /\ UNCHANGED <<runVars, pc, c, use, bwaiters, cycle, refcount, seen, arrived, passed>>

Leave(t) ==
  /\ BAt(t, "leave")
  /\ UnlockCall(t)
  /\ BGoto(t, "unlock")
  /\ UNCHANGED <<use, bwaiters, cycle, refcount, seen, arrived, passed>>

Left(t) ==
  /\ BAt(t, "unlock")
  /\ passed' = [passed EXCEPT ![t] = @ + 1]
  /\ BGoto(t, "out")
  /\ UNCHANGED <<vars, use, bwaiters, cycle, refcount, seen, arrived>>

YieldOut(t) == BAt(t, "out") /\ Yield(t) /\ UNCHANGED barrierVars

WaitStep(t) == Arrive(t) \/ cond_broadcast(t) \/ CondUnlock(t) \/ CondSuspend(t) \/ CondLock(t)
                 \/ CondTest(t) \/ Leave(t) \/ Left(t)
MutexStep(t) == (LockStep(t) \/ TryStep(t) \/ UnlockStep(t)) /\ UNCHANGED barrierVars

(* The bare mutex, called as users call it. *)
MutexCall(t) ==
  use = "mutex" /\ (LockCall(t) \/ TryCall(t) \/ UnlockCall(t)) /\ UNCHANGED barrierVars

(* What a scheduler does: its loop, or the cthread it runs. *)
Step(s) ==
  \/ SchedStep(s) /\ UNCHANGED barrierVars
  \/ \E t \in Cthreads :
       /\ home[t] = s
       /\ MutexCall(t) \/ Enter(t) \/ WaitStep(t) \/ MutexStep(t) \/ YieldOut(t)

BarrierNext == \E s \in Schedulers : Step(s)

BarrierSpec == BarrierInit /\ [][BarrierNext]_allVars

(* The pthread of a scheduler runs on. *)
FairBarrierSpec == BarrierSpec /\ \A s \in Schedulers : WF_allVars(Step(s))

-----------------------------------------------------------------------------
(* No cthread returns from its k-th wait before every cthread has made its *)
(* k-th (cthread_barrier_wait, with cthreads entering again at once).      *)
Together == \A t, u \in Cthreads : passed[t] <= arrived[u]

(* On one scheduler, a cthread is not left in the queue of the condition   *)
(* variable by the broadcast that ended its cycle (lines 147 and 153).     *)
NoneLeftBehind ==
  OneScheduler => \A t \in Members(blocked[CondQueue]) :
    seen[t] # cycle => \E u \in Cthreads : bpc[u] = "broadcast"

(* refcount is the number of cthreads that wait (lines 151 and 156), which *)
(* is what cthread_barrier_destroy looks at.                               *)
RefcountExact ==
  refcount = Cardinality({t \in Cthreads : bpc[t] \in {"cond_wait", "cond_unlock", "cond_waiting", "cond_lock"}})

(* cthread_barrier_wait with its condition variable: nobody passes early,  *)
(* nobody is left in the queue, and the count of waiting cthreads is true. *)
BarrierExact == BarrierTypes /\ Together /\ NoneLeftBehind /\ RefcountExact

(* On one scheduler every wait returns, unless a cthread stays away from   *)
(* the barrier for ever, although the broadcast gives up the processor     *)
(* while it has the mutex.                                                 *)
BarrierReturns ==
  \A t \in Cthreads :
    OneScheduler /\ bpc[t] = "enter" ~>
      bpc[t] = "out" \/ [](\E u \in Cthreads : arrived[u] < arrived[t])
===============================================================================
