------------------------------ MODULE CthreadLife ------------------------------
(***************************************************************************)
(* The life of a cthread (lib/usr/clib/cthread, cthread.c and              *)
(* cthread_sched.c): it is created on the scheduler of its creator, runs   *)
(* when that scheduler resumes it, sleeps, migrates, is cancelled,         *)
(* detaches itself, exits, is joined and is freed; a scheduler ends when   *)
(* it has nothing ready and nothing blocked.                               *)
(*                                                                         *)
(* A cthread runs until it switches back to its scheduler.  A timer        *)
(* resumes its cthread from within the callback, so what the callback does *)
(* after the resume it does when the cthread has switched back.            *)
(*                                                                         *)
(* Allocation failures are left out, cthread structures are not reused,    *)
(* and cthread_exit is called by the exit handler.                         *)
(***************************************************************************)
EXTENDS Integers, Sequences, FiniteSets

CONSTANTS
  Cthreads,
  Schedulers,
  Programs,   \* the programs: what each scheduler starts with, which cthreads there are, the calls made
  NoCthread

Calls == {"sleep", "cancel", "detach", "affinity"}

(* The count of blocked threads may fall below zero, where the uint64_t of *)
(* the code wraps: nothing sleeps once it is here.                         *)
MinBlocked == -2

VARIABLES
  program,       \* the program that runs, the same throughout
  state,         \* the bits of ct->state
  join,          \* ct->join
  dt_join,       \* the cthread that joins this one
  sched,         \* ct->sched
  pc,            \* where a cthread is
  target,        \* the cthread that this one joins
  creator,       \* history: who created a cthread
  ready, pready, \* the queues of a scheduler
  current,       \* current_cthread
  armed,         \* the cthreads whose sleep timer is pending
  saved,         \* the state that _sched_timer_cb copied, as a set of at most one
  nb_blocked_threads,
  thread_count,
  stopped,       \* the schedulers that left the loop of cthread_run
  misuse         \* history: a freed cthread was written to

cthreadVars == <<program, state, join, dt_join, sched, pc, target, creator>>
schedVars == <<ready, pready, current, armed, saved, nb_blocked_threads, thread_count, stopped, misuse>>
vars == <<cthreadVars, schedVars>>

Bits == {"INIT", "READY", "EXITED", "DETACH", "CANCELLED", "EXPIRED", "SLEEPING"}
JoinStates == {"INITIAL", "EXITING", "THREAD_SET", "EXIT_VAL_SET", "EXIT_VAL_READ"}

Suspended == {"sleep", "exit_wait", "join_wait"}
Locations == {"none", "run", "exit", "exit_loop", "done", "freed", "join", "join_loop"} \cup Suspended

Live == {t \in Cthreads : pc[t] \notin {"none", "freed"}}
Members(q) == {q[i] : i \in DOMAIN q}

TypeOK ==
  /\ program \in Programs
  /\ state \in [Cthreads -> SUBSET Bits]
  /\ join \in [Cthreads -> JoinStates]
  /\ dt_join \in [Cthreads -> Cthreads \cup {NoCthread}]
  /\ target \in [Cthreads -> Cthreads \cup {NoCthread}]
  /\ creator \in [Cthreads -> Cthreads \cup {NoCthread}]
  /\ sched \in [Cthreads -> Schedulers]
  /\ pc \in [Cthreads -> Locations]
  /\ \A s \in Schedulers : Members(ready[s]) \cup Members(pready[s]) \subseteq Cthreads
  /\ current \in [Schedulers -> Cthreads \cup {NoCthread}]
  /\ armed \subseteq Cthreads /\ stopped \subseteq Schedulers
  /\ \A s \in Schedulers : saved[s] \subseteq SUBSET Bits
  /\ nb_blocked_threads \in
       [Schedulers -> (IF "cancel" \in program.calls THEN Int ELSE 0 .. Cardinality(Cthreads))]
  /\ thread_count \in [Schedulers -> 0 .. Cardinality(Cthreads)]
  /\ misuse \in BOOLEAN

(* Every scheduler that runs has one cthread, created before cthread_run. *)
Init ==
  LET used == DOMAIN program.mains
      main(t) == {s \in used : program.mains[s] = t} IN
  /\ program \in Programs
  /\ state = [t \in Cthreads |-> IF main(t) # {} THEN {"INIT"} ELSE {}]
  /\ join = [t \in Cthreads |-> "INITIAL"]
  /\ dt_join = [t \in Cthreads |-> NoCthread]
  /\ target = [t \in Cthreads |-> NoCthread]
  /\ creator = [t \in Cthreads |-> NoCthread]
  /\ sched = [t \in Cthreads |-> CHOOSE s \in Schedulers : main(t) # {} => s \in main(t)]
  /\ pc = [t \in Cthreads |-> IF main(t) # {} THEN "run" ELSE "none"]
  /\ ready = [s \in Schedulers |-> IF s \in used THEN <<program.mains[s]>> ELSE <<>>]
  /\ pready = [s \in Schedulers |-> <<>>]
  /\ current = [s \in Schedulers |-> NoCthread]
  /\ armed = {} /\ stopped = Schedulers \ used /\ misuse = FALSE
  /\ saved = [s \in Schedulers |-> {}]
  /\ nb_blocked_threads = [s \in Schedulers |-> 0]
  /\ thread_count = [s \in Schedulers |-> IF s \in used THEN 1 ELSE 0]

Running(t) == current[sched[t]] = t
At(t, l) == Running(t) /\ pc[t] = l
Goto(t, l) == pc' = [pc EXCEPT ![t] = l]

(* _ready_queue_insert of u by t *)
ready_queue_insert(t, u) ==
  IF sched[u] = sched[t]
  THEN ready' = [ready EXCEPT ![sched[u]] = Append(@, u)] /\ UNCHANGED pready
  ELSE pready' = [pready EXCEPT ![sched[u]] = Append(@, u)] /\ UNCHANGED ready

(* The cthread switches back to its scheduler, its state being st; if a    *)
(* timer callback had resumed it, that assigns the state it had copied.    *)
SwitchBack(t, st) ==
  LET s == sched[t] IN
  /\ current' = [current EXCEPT ![s] = NoCthread]
  /\ saved' = [saved EXCEPT ![s] = {}]
  /\ state' = [state EXCEPT ![t] = IF saved[s] = {} THEN st ELSE (CHOOSE x \in saved[s] : TRUE) \ {"EXPIRED"}]

(* Fault: the queue is written without the count of blocked threads. *)
suspendUncounted(t, st) ==
  /\ SwitchBack(t, st)
  /\ UNCHANGED nb_blocked_threads

(* _suspend: what follows the switch is the first step after it *)
suspend(t, st) ==
  /\ nb_blocked_threads' = [nb_blocked_threads EXCEPT ![sched[t]] = @ + 1]
  /\ SwitchBack(t, st)

Unblocked(t) == nb_blocked_threads' = [nb_blocked_threads EXCEPT ![sched[t]] = @ - 1]

(* _reschedule, cthread_yield *)
reschedule(t, st) ==
  /\ ready' = [ready EXCEPT ![sched[t]] = Append(@, t)]
  /\ SwitchBack(t, st)
  /\ UNCHANGED <<pready, nb_blocked_threads>>

(***************************************************************************)
(* What a cthread does                                                     *)
(***************************************************************************)
cthread_create(t, u) ==
  /\ At(t, "run") /\ u \in program.cthreads /\ pc[u] = "none"
  /\ state' = [state EXCEPT ![u] = {"INIT"}]
  /\ join' = [join EXCEPT ![u] = "INITIAL"]
  /\ sched' = [sched EXCEPT ![u] = sched[t]]
  /\ creator' = [creator EXCEPT ![u] = t]
  /\ Goto(u, "run")
  /\ thread_count' = [thread_count EXCEPT ![sched[t]] = @ + 1]
  /\ ready' = [ready EXCEPT ![sched[t]] = Append(@, u)]
  /\ UNCHANGED <<program, dt_join, target, pready, current, armed, saved, nb_blocked_threads, stopped, misuse>>

cthread_yield(t) ==
  /\ At(t, "run")
  /\ reschedule(t, state[t])
  /\ UNCHANGED <<program, join, dt_join, sched, pc, target, creator, armed, thread_count, stopped, misuse>>

(* No program detaches a cthread that another one joins. *)
cthread_detach(t) ==
  /\ "detach" \in program.calls /\ At(t, "run") /\ dt_join[t] = NoCthread
  /\ state' = [state EXCEPT ![t] = @ \cup {"DETACH"}]
  /\ UNCHANGED <<program, join, dt_join, sched, pc, target, creator, schedVars>>

(* _cthread_sched_sleep with a time that is not zero *)
cthread_sleep(t) ==
  /\ "sleep" \in program.calls /\ At(t, "run") /\ nb_blocked_threads[sched[t]] > MinBlocked
  /\ armed' = armed \cup {t}
  /\ suspend(t, state[t] \cup {"SLEEPING"})
  /\ Goto(t, "sleep")
  /\ UNCHANGED <<program, join, dt_join, sched, target, creator, ready, pready, thread_count, stopped, misuse>>

SleepEnds(t) ==
  /\ At(t, "sleep")
  /\ Unblocked(t)
  /\ state' = [state EXCEPT ![t] = @ \ {"SLEEPING"}]
  /\ Goto(t, "run")
  /\ UNCHANGED <<program, join, dt_join, sched, target, creator,
                 ready, pready, current, armed, saved, thread_count, stopped, misuse>>

(* On the other schedulers' cthreads a tasklet does the same. *)
cthread_cancel(t, u) ==
  /\ "cancel" \in program.calls /\ At(t, "run") /\ u \in Live \ {t}
  /\ state' = [state EXCEPT ![u] = @ \cup {"CANCELLED"}]
  /\ UNCHANGED <<program, join, dt_join, sched, pc, target, creator, schedVars>>

(* The scheduler the cthread leaves writes it to the peer queue. *)
cthread_set_affinity(t) ==
  /\ "affinity" \in program.calls /\ At(t, "run")
  /\ \E s \in Schedulers \ {sched[t]} :
       /\ sched' = [sched EXCEPT ![t] = s]
       /\ pready' = [pready EXCEPT ![s] = Append(@, t)]
  /\ SwitchBack(t, state[t])
  /\ UNCHANGED <<program, join, dt_join, pc, target, creator, ready, armed,
                 nb_blocked_threads, thread_count, stopped, misuse>>

(***************************************************************************)
(* _cthread_exit_handler and cthread_exit                                  *)
(***************************************************************************)
(* The function of the cthread returns. *)
Return(t) ==
  /\ At(t, "run")
  /\ IF "DETACH" \in state[t]
     THEN reschedule(t, state[t] \cup {"EXITED"}) /\ Goto(t, "done")
     ELSE /\ state' = [state EXCEPT ![t] = @ \cup {"EXITED"}]
          /\ Goto(t, "exit")
          /\ UNCHANGED <<ready, pready, current, saved, nb_blocked_threads>>
  /\ UNCHANGED <<program, join, dt_join, sched, target, creator, armed, thread_count, stopped, misuse>>

(* Exit before join suspends, join before exit resumes the joining cthread. *)
ExitCas(t) ==
  /\ At(t, "exit")
  /\ IF join[t] = "INITIAL"
     THEN /\ join' = [join EXCEPT ![t] = "EXITING"]
          /\ suspend(t, state[t])
          /\ Goto(t, "exit_wait")
          /\ UNCHANGED <<ready, pready>>
     ELSE /\ join' = [join EXCEPT ![t] = "EXIT_VAL_SET"]
          /\ ready_queue_insert(t, dt_join[t])
          /\ Goto(t, "exit_loop")
          /\ UNCHANGED <<state, current, saved, nb_blocked_threads>>
  /\ UNCHANGED <<program, dt_join, sched, target, creator, armed, thread_count, stopped, misuse>>

ExitResumed(t) ==
  /\ At(t, "exit_wait")
  /\ Unblocked(t)
  /\ join' = [join EXCEPT ![t] = "EXIT_VAL_SET"]
  /\ Goto(t, "exit_loop")
  /\ UNCHANGED <<program, state, dt_join, sched, target, creator,
                 ready, pready, current, armed, saved, thread_count, stopped, misuse>>

(* It is marked and goes through the ready queue once more, to be freed. *)
ExitFinished(t) ==
  /\ join' = [join EXCEPT ![t] = "INITIAL"]
  /\ thread_count' = [thread_count EXCEPT ![sched[t]] = @ - 1]
  /\ reschedule(t, state[t] \cup {"DETACH", "EXITED"})
  /\ Goto(t, "done")

(* Fault: the exiting cthread does not wait for its value to be read. *)
ExitLoopUnread(t) ==
  /\ At(t, "exit_loop")
  /\ ExitFinished(t)
  /\ UNCHANGED <<program, dt_join, sched, target, creator, armed, stopped, misuse>>

ExitLoop(t) ==
  /\ At(t, "exit_loop")
  /\ IF join[t] = "EXIT_VAL_READ"
     THEN ExitFinished(t)
     ELSE reschedule(t, state[t]) /\ UNCHANGED <<join, pc, thread_count>>
  /\ UNCHANGED <<program, dt_join, sched, target, creator, armed, stopped, misuse>>

(***************************************************************************)
(* cthread_join                                                            *)
(***************************************************************************)
(* The programs join the cthreads that they created, once. *)
MayJoin(t, u) == creator[u] = t /\ u \in Live /\ dt_join[u] = NoCthread

cthread_join(t, u) ==
  /\ At(t, "run") /\ MayJoin(t, u)
  /\ "DETACH" \notin state[u] /\ join[u] # "THREAD_SET"
  /\ dt_join' = [dt_join EXCEPT ![u] = t]
  /\ target' = [target EXCEPT ![t] = u]
  /\ Goto(t, "join")
  /\ UNCHANGED <<program, state, join, sched, creator, schedVars>>

(* Fault: the joined cthread is not resumed if it had exited. *)
JoinCasIdle(t) ==
  LET u == target[t] IN
  /\ At(t, "join")
  /\ IF join[u] = "INITIAL"
     THEN /\ join' = [join EXCEPT ![u] = "THREAD_SET"]
          /\ suspend(t, state[t])
          /\ Goto(t, "join_wait")
     ELSE Goto(t, "join_loop") /\ UNCHANGED <<join, state, current, saved, nb_blocked_threads>>
  /\ UNCHANGED <<program, dt_join, sched, target, creator, ready, pready, armed, thread_count, stopped, misuse>>

JoinCas(t) ==
  LET u == target[t] IN
  /\ At(t, "join")
  /\ IF join[u] = "INITIAL"
     THEN /\ join' = [join EXCEPT ![u] = "THREAD_SET"]
          /\ suspend(t, state[t])
          /\ Goto(t, "join_wait")
          /\ UNCHANGED <<ready, pready>>
     ELSE /\ ready_queue_insert(t, u)
          /\ Goto(t, "join_loop")
          /\ UNCHANGED <<join, state, current, saved, nb_blocked_threads>>
  /\ UNCHANGED <<program, dt_join, sched, target, creator, armed, thread_count, stopped, misuse>>

JoinResumed(t) ==
  /\ At(t, "join_wait")
  /\ Unblocked(t)
  /\ Goto(t, "join_loop")
  /\ UNCHANGED <<program, state, join, dt_join, sched, target, creator,
                 ready, pready, current, armed, saved, thread_count, stopped, misuse>>

JoinLoop(t) ==
  LET u == target[t] IN
  /\ At(t, "join_loop")
  /\ IF join[u] = "EXIT_VAL_SET"
     THEN /\ join' = [join EXCEPT ![u] = "EXIT_VAL_READ"]
          /\ target' = [target EXCEPT ![t] = NoCthread]
          /\ Goto(t, "run")
          /\ UNCHANGED <<state, ready, pready, current, saved, nb_blocked_threads>>
     ELSE reschedule(t, state[t]) /\ UNCHANGED <<join, target, pc>>
  /\ UNCHANGED <<program, dt_join, sched, creator, armed, thread_count, stopped, misuse>>

(***************************************************************************)
(* The scheduler                                                           *)
(***************************************************************************)
Freed(t, st) == st \cap {"CANCELLED", "EXITED"} # {} /\ "DETACH" \in st

(* _cthread_resume of t with the state st *)
cthread_resume(s, t, st) ==
  IF Freed(t, st)
  THEN Goto(t, "freed") /\ state' = [state EXCEPT ![t] = st] /\ UNCHANGED current
  ELSE /\ current' = [current EXCEPT ![s] = t]
       /\ state' = [state EXCEPT ![t] = IF "INIT" \in st THEN {"READY"} ELSE st]
       /\ UNCHANGED pc

(* The loop of cthread_run, which polls the two queues in turn. *)
PollReady(s) ==
  /\ s \notin stopped /\ current[s] = NoCthread /\ ready[s] # <<>>
  /\ ready' = [ready EXCEPT ![s] = Tail(@)]
  /\ cthread_resume(s, Head(ready[s]), state[Head(ready[s])])
  /\ UNCHANGED <<program, join, dt_join, sched, target, creator,
                 pready, armed, saved, nb_blocked_threads, thread_count, stopped, misuse>>

PollPeer(s) ==
  /\ s \notin stopped /\ current[s] = NoCthread /\ pready[s] # <<>>
  /\ pready' = [pready EXCEPT ![s] = Tail(@)]
  /\ cthread_resume(s, Head(pready[s]), state[Head(pready[s])])
  /\ UNCHANGED <<program, join, dt_join, sched, target, creator,
                 ready, armed, saved, nb_blocked_threads, thread_count, stopped, misuse>>

(* cne_timer_manage: an expired timer of the scheduler.  If the resume has *)
(* freed the cthread, its state is assigned all the same.                  *)
sched_timer_cb(s) ==
  /\ s \notin stopped /\ current[s] = NoCthread
  /\ \E t \in armed :
       /\ sched[t] = s
       /\ armed' = armed \ {t}
       /\ cthread_resume(s, t, state[t] \cup {"EXPIRED"})
       /\ nb_blocked_threads' = [nb_blocked_threads EXCEPT
            ![s] = IF "CANCELLED" \in state[t] THEN @ - 1 ELSE @]
       /\ IF Freed(t, state[t])
          THEN misuse' = TRUE /\ UNCHANGED saved
          ELSE saved' = [saved EXCEPT ![s] = {state[t]}] /\ UNCHANGED misuse
  /\ UNCHANGED <<program, join, dt_join, sched, target, creator, ready, pready, thread_count, stopped>>

(* Fault: blocked cthreads do not keep the scheduler. *)
isdoneUncounted(s) ==
  /\ s \notin stopped /\ current[s] = NoCthread
  /\ ready[s] = <<>> /\ pready[s] = <<>>
  /\ stopped' = stopped \cup {s}
  /\ UNCHANGED <<cthreadVars, ready, pready, current, armed, saved,
                 nb_blocked_threads, thread_count, misuse>>

(* _cthread_sched_isdone ends the loop of cthread_run *)
isdone(s) ==
  /\ s \notin stopped /\ current[s] = NoCthread
  /\ ready[s] = <<>> /\ pready[s] = <<>> /\ nb_blocked_threads[s] = 0
  /\ stopped' = stopped \cup {s}
  /\ UNCHANGED <<cthreadVars, ready, pready, current, armed, saved,
                 nb_blocked_threads, thread_count, misuse>>

InCall(t) == SleepEnds(t) \/ ExitCas(t) \/ ExitResumed(t) \/ ExitLoop(t)
               \/ JoinCas(t) \/ JoinResumed(t) \/ JoinLoop(t)
Call(t) == cthread_yield(t) \/ cthread_detach(t) \/ cthread_sleep(t) \/ cthread_set_affinity(t)
             \/ \E u \in Cthreads : cthread_create(t, u) \/ cthread_cancel(t, u) \/ cthread_join(t, u)

CthreadStep(t) == Call(t) \/ Return(t) \/ InCall(t)
Loop(s) == PollReady(s) \/ PollPeer(s) \/ sched_timer_cb(s) \/ isdone(s)

Next == (\E t \in Cthreads : CthreadStep(t)) \/ (\E s \in Schedulers : Loop(s))

(* What the pthread of a scheduler does. *)
Pthread(s) == Loop(s) \/ \E t \in Cthreads : sched[t] = s /\ CthreadStep(t)

(* The pthreads go on, and neither queue waits for ever for the other. *)
Fairness == \A s \in Schedulers :
  WF_vars(Pthread(s)) /\ SF_vars(PollReady(s)) /\ SF_vars(PollPeer(s))

Spec == Init /\ [][Next]_vars
FairSpec == Spec /\ Fairness

-----------------------------------------------------------------------------
InQueue(q, t) == Cardinality({i \in DOMAIN q : q[i] = t})

(* How often a cthread is in a queue of a scheduler, or current. *)
References(s, t) ==
  InQueue(ready[s], t) + InQueue(pready[s], t) + IF current[s] = t THEN 1 ELSE 0

(* A cthread that is suspended is in no queue of a scheduler until it is   *)
(* woken, and no cthread is in two or twice in one: the join and exit      *)
(* sides of the race make each other ready at most once (lines 549, 595).  *)
OnePlace ==
  \A t \in Cthreads : \A s1, s2 \in Schedulers :
    /\ References(s1, t) <= 1
    /\ References(s1, t) = 1 /\ References(s2, t) = 1 => s1 = s2

(* No cthread is in two queues; no queue, no timer and no join in progress *)
(* refers to a freed one, and none is written to (_cthread_free), unless a *)
(* cthread that detached is cancelled while it sleeps: the resume of the   *)
(* timer callback frees it, and the callback then assigns its state.       *)
NoDangling ==
  /\ TypeOK /\ OnePlace
  /\ misuse => {"sleep", "detach", "cancel"} \subseteq program.calls
  /\ \A t \in Cthreads : pc[t] = "freed" =>
       /\ \A s \in Schedulers : References(s, t) = 0
       /\ t \notin armed
       /\ \A u \in Live : target[u] # t

(* A cthread that finished is not resumed: the scheduler frees it, since   *)
(* it has CT_STATE_EXITED and CT_STATE_DETACH (_cthread_exit_handler).     *)
(* Programs that sleep and detach are excepted: the callback of a sleep    *)
(* assigns the state that it had copied, without the two bits.             *)
NeverPastEnd ==
  ~({"sleep", "detach"} \subseteq program.calls) =>
    \A s \in Schedulers : current[s] # NoCthread => pc[current[s]] # "done"

(* nb_blocked_threads is the number of suspended cthreads, on which        *)
(* _cthread_sched_isdone relies.  A cancelled cthread that sleeps is       *)
(* subtracted twice.                                                       *)
BlockedExact ==
  "cancel" \notin program.calls => \A s \in Schedulers :
    nb_blocked_threads[s] = Cardinality({t \in Cthreads : sched[t] = s /\ pc[t] \in Suspended})

(* thread_count is the number of cthreads of the scheduler that have not   *)
(* finished (cthread_create, cthread_exit), if none detaches, migrates or  *)
(* is cancelled.                                                           *)
ThreadCountExact ==
  program.calls \subseteq {"sleep"} => \A s \in Schedulers :
    thread_count[s] = Cardinality({t \in Live : sched[t] = s /\ pc[t] # "done"})

(* The counts that the end of cthread_run is decided by are true. *)
CountersExact == BlockedExact /\ ThreadCountExact

(* No cthread runs past its end, and when cthread_run has returned none is *)
(* left on its scheduler (_cthread_sched_isdone), if none migrates to it   *)
(* or is cancelled.                                                        *)
RunReturnsLast ==
  /\ NeverPastEnd
  /\ program.calls \cap {"affinity", "cancel"} = {} =>
       \A s \in stopped : \A t \in Live : sched[t] # s

(* A join of a cthread that has returned ends, whichever side of the race  *)
(* with exit came first, on the same or on different schedulers, as long   *)
(* as these run and the joining cthread is not freed because it was        *)
(* cancelled.                                                              *)
JoinReturns ==
  \A t \in Cthreads :
    target[t] # NoCthread /\ pc[target[t]] \in {"exit", "exit_wait", "exit_loop"}
      ~> target[t] = NoCthread \/ pc[t] = "freed" \/ stopped \cap DOMAIN program.mains # {}
==============================================================================
