------------------------------ MODULE CthreadRun ------------------------------
(***************************************************************************)
(* What the synchronisation objects of lib/usr/clib/cthread see of the     *)
(* scheduler.  A cthread belongs to one scheduler and runs, without being  *)
(* preempted by its siblings, until it switches back to that scheduler.    *)
(* Schedulers run in parallel, one per pthread.                            *)
(*                                                                         *)
(* A cthread that blocks does not enter the queue it waits in itself: it   *)
(* leaves the queue in pending_wr_queue, and the scheduler writes it there *)
(* once the context is saved.                                              *)
(***************************************************************************)
EXTENDS Integers, Sequences, FiniteSets

CONSTANTS
  Cthreads,
  Schedulers,
  Homes,      \* which cthreads are created, and on which scheduler
  Queues,     \* the queues of cthreads that wait
  NoCthread

ASSUME RunAssumption ==
  /\ Homes \subseteq UNION {[C -> Schedulers] : C \in SUBSET Cthreads}
  /\ NoCthread \notin Cthreads

VARIABLES
  home,       \* ct->sched, the same throughout
  ready,      \* the local ready queue of a scheduler
  pready,     \* the ready queue other schedulers insert into
  current,    \* current_cthread of a scheduler
  pending,    \* pending_wr_queue of a cthread that has just switched back
  blocked     \* the queues of waiting cthreads

runVars == <<home, ready, pready, current, pending, blocked>>

NoQueue == "none"

RunTypes ==
  /\ home \in Homes
  /\ ready \in [Schedulers -> Seq(Cthreads)]
  /\ pready \in [Schedulers -> Seq(Cthreads)]
  /\ current \in [Schedulers -> Cthreads \cup {NoCthread}]
  /\ pending \in [Schedulers -> Queues \cup {NoQueue}]
  /\ blocked \in [Queues -> Seq(Cthreads)]

Members(q) == {q[i] : i \in DOMAIN q}

RunInit ==
  /\ home \in Homes
  /\ ready \in {r \in [Schedulers -> UNION {[1 .. n -> Cthreads] : n \in 0 .. Cardinality(Cthreads)}] :
       \A s \in Schedulers :
         /\ Members(r[s]) = {t \in DOMAIN home : home[t] = s}
         /\ Len(r[s]) = Cardinality(Members(r[s]))}
  /\ pready = [s \in Schedulers |-> <<>>]
  /\ current = [s \in Schedulers |-> NoCthread]
  /\ pending = [s \in Schedulers |-> NoQueue]
  /\ blocked = [q \in Queues |-> <<>>]

(* The cthread executes now. *)
Running(t) ==
  t \in DOMAIN home /\ current[home[t]] = t /\ pending[home[t]] = NoQueue

(* _ready_queue_insert of u by t *)
ready_queue_insert(t, u) ==
  IF home[u] = home[t]
  THEN ready' = [ready EXCEPT ![home[u]] = Append(@, u)] /\ UNCHANGED pready
  ELSE pready' = [pready EXCEPT ![home[u]] = Append(@, u)] /\ UNCHANGED ready

(* cthread_yield, _reschedule *)
reschedule(t) ==
  /\ ready' = [ready EXCEPT ![home[t]] = Append(@, t)]
  /\ current' = [current EXCEPT ![home[t]] = NoCthread]
  /\ UNCHANGED <<home, pready, pending, blocked>>

(* _suspend with pending_wr_queue set *)
suspend(t, q) ==
  /\ pending' = [pending EXCEPT ![home[t]] = q]
  /\ UNCHANGED <<home, ready, pready, current, blocked>>

(* The deferred write, the last part of _cthread_resume. *)
PendingWrite(s) ==
  /\ pending[s] # NoQueue
  /\ blocked' = [blocked EXCEPT ![pending[s]] = Append(@, current[s])]
  /\ pending' = [pending EXCEPT ![s] = NoQueue]
  /\ current' = [current EXCEPT ![s] = NoCthread]
  /\ UNCHANGED <<home, ready, pready>>

(* The loop of cthread_run, which polls the two queues in turn. *)
ResumeReady(s) ==
  /\ current[s] = NoCthread /\ ready[s] # <<>>
  /\ current' = [current EXCEPT ![s] = Head(ready[s])]
  /\ ready' = [ready EXCEPT ![s] = Tail(@)]
  /\ UNCHANGED <<home, pready, pending, blocked>>

ResumePeer(s) ==
  /\ current[s] = NoCthread /\ pready[s] # <<>>
  /\ current' = [current EXCEPT ![s] = Head(pready[s])]
  /\ pready' = [pready EXCEPT ![s] = Tail(@)]
  /\ UNCHANGED <<home, ready, pending, blocked>>

(* All cthreads have the same scheduler. *)
OneScheduler == \A t, u \in DOMAIN home : home[t] = home[u]

(* A cthread is in one place: running, ready or blocked. *)
Places(t) ==
  Cardinality({s \in Schedulers : current[s] = t})
    + Cardinality({<<s, i>> \in Schedulers \X (1 .. Cardinality(Cthreads) + 1) :
                     i \in DOMAIN ready[s] /\ ready[s][i] = t})
    + Cardinality({<<s, i>> \in Schedulers \X (1 .. Cardinality(Cthreads) + 1) :
                     i \in DOMAIN pready[s] /\ pready[s][i] = t})
    + Cardinality({<<q, i>> \in Queues \X (1 .. Cardinality(Cthreads) + 1) :
                     i \in DOMAIN blocked[q] /\ blocked[q][i] = t})
==============================================================================
