---------------------------- MODULE ThreadRegistry ----------------------------
(***************************************************************************)
(* Registration of threads: the uid pool and entries of lib/core/cne and   *)
(* the thread table of lib/usr/clib/thread.                                *)
(*                                                                         *)
(* A thread made by thread_create registers itself, meets its creator at a *)
(* barrier, runs the user's function and unregisters.  Other threads may   *)
(* register by hand with cne_register.  The sections under thd_lock are    *)
(* one step each; thread_wait_all, thread_stop_running and their like read *)
(* and write the table without the lock, one access a step.                *)
(***************************************************************************)
EXTENDS Integers, FiniteSets

CONSTANTS
  Main,        \* the initial thread
  Children,    \* the threads that thread_create may start
  Foreign,     \* threads started otherwise, that call cne_register
  MaxThreads,  \* DEFAULT_MAX_THREADS
  FaultSets    \* the sets of calls of libpthread that may fail

ASSUME ThreadsAssumption ==
  /\ Main \notin Children \cup Foreign /\ Children \cap Foreign = {}
  /\ MaxThreads \in Nat \ {0}
  /\ FaultSets \subseteq SUBSET {"pthread_create", "pthread_setname_np"}

VARIABLES
  faults,      \* the calls that may fail, the same throughout
  pc,          \* where each thread is
  per_thread,  \* per_thread__cne: the entry a thread points to, or -1
  bitmap,      \* the uids that are free in __cne.pool
  entries,     \* the entries whose magic_id is set
  active,      \* __cne.active
  magic,       \* the slots of __thd whose magic_id is set
  running,     \* the slots of __thd whose running flag is set
  child,       \* the thread a creator waits for
  scan,        \* thread_wait_all: [tidx, running]; its caller is Main
  target,      \* thread_stop_running: the slot Main found in use
  before,      \* history: the threads created before thread_wait_all
  asked        \* history: the threads that were asked to stop

cnevars == <<per_thread, bitmap, entries, active>>
uservars == <<faults, child, scan, target, before, asked>>
vars == <<pc, cnevars, magic, running, uservars>>

Threads == {Main} \cup Children \cup Foreign
Uids == 0 .. MaxThreads - 1
initial_uid == 0

(* cne_initialize and thread_initialize have registered the main thread. *)
Init ==
  /\ faults \in FaultSets
  /\ pc = [t \in Threads |-> IF t = Main THEN "run" ELSE "none"]
  /\ per_thread = [t \in Threads |-> IF t = Main THEN initial_uid ELSE -1]
  /\ bitmap = Uids \ {initial_uid}
  /\ entries = {initial_uid}
  /\ active = 1
  /\ magic = {initial_uid} /\ running = {initial_uid}
  /\ child = [t \in Threads |-> Main]
  /\ scan = [tidx |-> 0, running |-> FALSE]
  /\ target = -1 /\ before = {} /\ asked = {}

(* e->uid of the entry a thread points to *)
cne_id(t) == IF per_thread[t] \in entries THEN per_thread[t] ELSE -1

(***************************************************************************)
(* cne_register and cne_unregister, called by thread t.                    *)
(***************************************************************************)
(* Fault: the uid is not taken out of the pool. *)
cne_registerShared(t) ==
  \E uid \in bitmap :
    /\ \A free \in bitmap : uid <= free
    /\ entries' = entries \cup {uid}
    /\ active' = active + 1
    /\ per_thread' = [per_thread EXCEPT ![t] = uid]
    /\ UNCHANGED bitmap

(* bit_ffs finds the lowest free uid; its entry is free too (Balanced) *)
cne_register(t) ==
  \E uid \in bitmap :
    /\ \A free \in bitmap : uid <= free
    /\ uid \notin entries
    /\ bitmap' = bitmap \ {uid}
    /\ entries' = entries \cup {uid}
    /\ active' = active + 1
    /\ per_thread' = [per_thread EXCEPT ![t] = uid]

(* The entry that cne_unregister(tidx) releases: none for a tidx of -1,    *)
(* which differs from the uid of the entry found for it.                   *)
Releases(tidx) == tidx \in entries /\ tidx # initial_uid

(* Fault: the uid goes back to the pool, and the entry stays. *)
cne_unregisterKept(t, tidx) ==
  IF Releases(tidx)
  THEN /\ bitmap' = bitmap \cup {tidx}
       /\ active' = active - 1
       /\ per_thread' = [per_thread EXCEPT ![t] = -1]
       /\ UNCHANGED entries
  ELSE UNCHANGED cnevars

cne_unregister(t, tidx) ==
  IF Releases(tidx)
  THEN /\ bitmap' = bitmap \cup {tidx}
       /\ entries' = entries \ {tidx}
       /\ active' = active - 1
       /\ per_thread' = [per_thread EXCEPT ![t] = -1]
  ELSE UNCHANGED cnevars

(***************************************************************************)
(* thread_create, and the life of the thread it starts.                    *)
(***************************************************************************)
Goto(t, l) == pc' = [pc EXCEPT ![t] = l]

thread_create(c) ==
  /\ pc[c] = "run"
  /\ \/ \E t \in Children :
          /\ pc[t] = "none"
          /\ pc' = [pc EXCEPT ![c] = "create", ![t] = "init"]
          /\ child' = [child EXCEPT ![c] = t]
     \/ /\ "pthread_create" \in faults
        /\ UNCHANGED <<pc, child>>
  /\ UNCHANGED <<faults, cnevars, magic, running, scan, target, before, asked>>

(* __thread_init up to the first unlock *)
ThreadInit(t) ==
  /\ pc[t] = "init" /\ t \in Children
  /\ \/ cne_register(t) /\ Goto(t, "register")
     \/ bitmap = {} /\ Goto(t, "noindex") /\ UNCHANGED cnevars
  /\ UNCHANGED <<magic, running, uservars>>

(* thread_register: the slot cne_id() must not be in use, or all is undone *)
thread_register(t) ==
  LET tidx == cne_id(t) IN
  /\ pc[t] = "register"
  /\ IF tidx = -1 \/ tidx \in magic
     THEN cne_unregister(t, per_thread[t]) /\ Goto(t, "gone") /\ UNCHANGED <<magic, running>>
     ELSE /\ magic' = magic \cup {tidx} /\ running' = running \cup {tidx}
          /\ Goto(t, "name") /\ UNCHANGED cnevars
  /\ UNCHANGED uservars

(* params->tidx is set; the name may be too long for pthread_setname_np *)
SetName(t) ==
  /\ pc[t] = "name"
  /\ \/ Goto(t, "barrier")
     \/ "pthread_setname_np" \in faults /\ Goto(t, "noname")
  /\ UNCHANGED <<cnevars, magic, running, uservars>>

(* pthread_barrier_wait: both go on *)
Barrier(c, t) ==
  /\ pc[c] = "create" /\ child[c] = t /\ pc[t] = "barrier"
  /\ pc' = [pc EXCEPT ![c] = "run", ![t] = "run"]
  /\ UNCHANGED <<faults, cnevars, magic, running, child, scan, target, before, asked>>

(* start_routine returns; thread_stop_running(tidx) *)
RoutineEnds(t) ==
  /\ pc[t] = "run" /\ t \in Children
  /\ running' = IF per_thread[t] \in magic THEN running \ {per_thread[t]} ELSE running
  /\ Goto(t, "stopped")
  /\ UNCHANGED <<cnevars, magic, uservars>>

(* Fault: the slot of __thd is not cleared. *)
thread_unregisterKept(t) ==
  /\ pc[t] = "stopped"
  /\ cne_unregister(t, per_thread[t])
  /\ Goto(t, "gone")
  /\ UNCHANGED <<magic, running, uservars>>

thread_unregister(t) ==
  LET tidx == per_thread[t] IN
  /\ pc[t] = "stopped"
  /\ IF tidx \in magic
     THEN /\ cne_unregister(t, tidx)
          /\ magic' = magic \ {tidx} /\ running' = running \ {tidx}
     ELSE UNCHANGED <<cnevars, magic, running>>
  /\ Goto(t, "gone")
  /\ UNCHANGED uservars

(***************************************************************************)
(* Threads that register by hand.  cne.h makes mutual exclusion the        *)
(* caller's business: a call is one step.                                  *)
(***************************************************************************)
ForeignRegister(f) ==
  /\ f \in Foreign /\ pc[f] = "none"
  /\ \/ cne_register(f) /\ Goto(f, "foreign")
     \/ bitmap = {} /\ UNCHANGED <<cnevars, pc>>
  /\ UNCHANGED <<magic, running, uservars>>

ForeignUnregister(f) ==
  /\ pc[f] = "foreign"
  /\ cne_unregister(f, per_thread[f])
  /\ Goto(f, "none")
  /\ UNCHANGED <<magic, running, uservars>>

(***************************************************************************)
(* thread_wait_all(checks, usec, 1), and thread_stop_running of another.   *)
(***************************************************************************)
thread_wait_all ==
  /\ pc[Main] = "run"
  /\ Goto(Main, "wait")
  /\ scan' = [tidx |-> 1, running |-> FALSE]
  /\ before' = {t \in Children : pc[t] \in {"run", "stopped"}}
  /\ UNCHANGED <<faults, cnevars, magic, running, child, target, asked>>

(* Fault: a flag is overwritten by the next one. *)
ScanOneLast ==
  /\ pc[Main] = "wait" /\ scan.tidx < MaxThreads
  /\ scan' = [tidx |-> scan.tidx + 1, running |-> scan.tidx \in magic \cap running]
  /\ UNCHANGED <<faults, pc, cnevars, magic, running, child, target, before, asked>>

ScanOne ==
  /\ pc[Main] = "wait" /\ scan.tidx < MaxThreads
  /\ scan' = [tidx |-> scan.tidx + 1,
              running |-> scan.running \/ scan.tidx \in magic \cap running]
  /\ UNCHANGED <<faults, pc, cnevars, magic, running, child, target, before, asked>>

(* After a loop over all slots: done, once more, or checks have run out. *)
ScanEnd ==
  /\ pc[Main] = "wait" /\ scan.tidx = MaxThreads
  /\ \/ /\ ~scan.running
        /\ Goto(Main, "allstopped")
        /\ UNCHANGED <<scan, before>>
     \/ /\ scan.running
        /\ scan' = [tidx |-> 1, running |-> FALSE]
        /\ UNCHANGED <<pc, before>>
     \/ /\ scan.running
        /\ Goto(Main, "run")
        /\ scan' = [tidx |-> 0, running |-> FALSE] /\ before' = {}
  /\ UNCHANGED <<faults, cnevars, magic, running, child, target, asked>>

WaitReturns ==
  /\ pc[Main] = "allstopped"
  /\ Goto(Main, "run")
  /\ scan' = [tidx |-> 0, running |-> FALSE] /\ before' = {}
  /\ UNCHANGED <<faults, cnevars, magic, running, child, target, asked>>

(* thread_get finds the slot in use ... *)
thread_stop_running(tidx) ==
  /\ pc[Main] = "run" /\ tidx \in magic \ {initial_uid}
  /\ Goto(Main, "stop")
  /\ target' = tidx
  /\ UNCHANGED <<faults, cnevars, magic, running, child, scan, before, asked>>

(* ... and the flag is cleared, whoever has the slot by then. *)
StopRunning ==
  /\ pc[Main] = "stop"
  /\ Goto(Main, "run")
  /\ running' = running \ {target}
  /\ asked' = asked \cup {t \in Children : per_thread[t] = target}
  /\ target' = -1
  /\ UNCHANGED <<faults, cnevars, magic, child, scan, before>>

(***************************************************************************)
(* The specification.                                                      *)
(***************************************************************************)
(* A thread that is gone, and that no creator waits for, makes place for a *)
(* new one of the same name.                                               *)
Forget(t) ==
  /\ pc[t] \in {"gone", "noindex", "noname"}
  /\ \A c \in Threads : pc[c] = "create" => child[c] # t
  /\ Goto(t, "none")
  /\ per_thread' = [per_thread EXCEPT ![t] = -1]
  /\ before' = before \ {t} /\ asked' = asked \ {t}
  /\ UNCHANGED <<faults, bitmap, entries, active, magic, running, child, scan, target>>

(* What a thread does by itself, once started. *)
ThreadStep(t) ==
  \/ ThreadInit(t) \/ thread_register(t) \/ SetName(t)
  \/ \E c \in Threads : Barrier(c, t)
  \/ thread_unregister(t)

MainStep == ScanOne \/ ScanEnd \/ WaitReturns \/ StopRunning

Next ==
  \/ \E c \in Threads \ Foreign : thread_create(c)
  \/ \E t \in Children : ThreadStep(t) \/ RoutineEnds(t) \/ Forget(t)
  \/ \E f \in Foreign : ForeignRegister(f) \/ ForeignUnregister(f)
  \/ thread_wait_all \/ MainStep
  \/ \E tidx \in Uids : thread_stop_running(tidx)

Spec == Init /\ [][Next]_vars

(* The threads run on, and the main thread gets its turns. *)
FairSpec ==
  /\ Spec
  /\ \A t \in Children : WF_vars(ThreadStep(t))
  /\ WF_vars(MainStep)

(***************************************************************************)
(* Properties.                                                             *)
(***************************************************************************)
TypeOK ==
  /\ pc \in [Threads -> {"none", "init", "register", "name", "barrier", "run",
                         "create", "stopped", "gone", "noindex", "noname", "foreign",
                         "wait", "allstopped", "stop"}]
  /\ per_thread \in [Threads -> Uids \cup {-1}]
  /\ bitmap \subseteq Uids /\ entries \subseteq Uids
  /\ magic \subseteq Uids /\ running \subseteq magic
  /\ active \in 1 .. MaxThreads
  /\ scan \in [tidx : 0 .. MaxThreads, running : BOOLEAN]
  /\ target \in Uids \cup {-1}
  /\ before \subseteq Children /\ asked \subseteq Children

(* The threads that are registered, by their place in the code. *)
Registered ==
  {t \in Threads : pc[t] \in
    {"register", "name", "barrier", "run", "create", "stopped", "foreign",
     "wait", "allstopped", "stop"}}

(* No two threads that are registered at the same time have the same index *)
(* (their mempool caches, log buffers and private data are found by it).   *)
IdsUnique ==
  /\ TypeOK
  /\ \A t \in Registered : cne_id(t) # -1
  /\ \A t, u \in Registered : t # u => cne_id(t) # cne_id(u)

(* The pool, the entries, the count of active threads and the table of     *)
(* thread states agree at all times, unless a name was refused: an index   *)
(* is never lost, and no thread that is gone leaves its slot in use.       *)
Balanced ==
  "pthread_setname_np" \notin faults =>
  /\ entries = Uids \ bitmap
  /\ active = Cardinality(entries)
  /\ entries = {cne_id(t) : t \in Registered}
  /\ magic = {cne_id(t) : t \in {u \in Registered \ Foreign : pc[u] # "register"}}

(* thread_wait_all returns 0 only when every thread created before the     *)
(* call has left its function, unless it was asked to stop: the unlocked   *)
(* scan misses none of them, however slots are given up and taken.         *)
WaitMeansStopped ==
  pc[Main] = "allstopped" => \A t \in before : pc[t] \notin {"run", "create"} \/ t \in asked

(* thread_create returns, unless the thread it started found no free index *)
(* or had its name refused: then nobody comes to the barrier.  The check   *)
(* of the slot in thread_register is never the reason, since every slot is *)
(* cleared before its index can be taken again.                            *)
CreateReturns ==
  \A c \in Threads \ Foreign :
    pc[c] = "create" ~> pc[c] # "create" \/ pc[child[c]] \in {"noindex", "noname"}

=============================================================================
