------------------------------- MODULE MCPools -------------------------------
(***************************************************************************)
(* What hands things out: objects, channels, nodes of a queue, timers of a *)
(* list and the mutex and barrier of two schedulers, each on its own.      *)
(* Mempool and Msgchan are extended; a behaviour is one of the module that *)
(* subject names, whose variables are v1 and the following ones if it is   *)
(* another.                                                                *)
(***************************************************************************)
EXTENDS Mempool, Msgchan, TLC

CONSTANTS
  Subjects,      \* the modules that a run looks at
  QueuePrompts   \* whether an insert into a pool of nodes may be stalled, see CthreadQueue

VARIABLES
  subject, v1, v2, v3, v4, v5, v6, v7, v8, v9, v10, v11, v12, v13, v14, v15, v16, v17, v18, v19

v == <<v1, v2, v3, v4, v5, v6, v7, v8, v9, v10, v11, v12, v13, v14, v15, v16, v17, v18, v19>>

Skiplist == INSTANCE TimerSkiplist WITH
  Timers <- Users, MAX_SKIPLIST_DEPTH <- 3, MaxExpire <- 2,
  sl_next <- v1, expire <- v2, depth <- v3, listed <- v4

TimerThreads == {1, 2}

Resets(S, periods, sync) ==
  [f : {"reset"}, tim : S, tim_thread : TimerThreads, ticks : {1}, period : periods, sync : sync]

Stops(S) ==
  [f : {"stop"}, tim : S, tim_thread : {1}, ticks : {0}, period : {0}, sync : {FALSE}]

(* Two timers, as one-shots, of which one stays with a thread and is not   *)
(* stopped; one timer alone, also periodic, and with the reset that waits. *)
OneShotOrPeriodic ==
  {Resets({"m1"}, {0}, {FALSE}) \cup {r \in Resets({"m2"}, {0}, {FALSE}) : r.tim_thread = 1}
     \cup Stops({"m1"}),
   Resets({"m1"}, {0, 1}, {FALSE}) \cup Resets({"m1"}, {0}, {TRUE}) \cup Stops({"m1"})}

T == INSTANCE Timers WITH
  Threads <- TimerThreads, Timers <- {"m1", "m2"}, Workloads <- OneShotOrPeriodic, MaxTime <- 1,
  calls <- v1, status <- v2, expire <- v3, period <- v4, pending <- v5, head_expire <- v6,
  list_lock <- v7, updated <- v8, running_tim <- v9, stat <- v10, pc <- v11, op <- v12,
  run <- v13, next <- v14, cur_time <- v15, now <- v16

QueueItems == [s \in {"p", "c"} |-> IF s = "p" THEN 5 ELSE 1]

Queue == INSTANCE CthreadQueue WITH
  Producers <- {"p", "c"}, Consumer <- "c", PreAlloc <- 2, MaxNodes <- 4,
  MaxItems <- QueueItems, Prompts <- QueuePrompts,
  prompt <- v1, node <- v2, pool <- v3, queue <- v4, loc <- v5, order <- v6, removed <- v7,
  refused <- v8, sched <- v9

SyncHomes == {[t \in {"A", "B", "C"} |-> IF t = "C" THEN "s2" ELSE "s1"]}

Sync == INSTANCE CthreadSync WITH
  Cthreads <- {"A", "B", "C"}, Schedulers <- {"s1", "s2"}, Homes <- SyncHomes,
  Queues <- {"mutex", "cond"}, NoCthread <- "none", MaxCycles <- 2,
  blocked <- v1, current <- v2, home <- v3, pending <- v4, pready <- v5, ready <- v6,
  waiters <- v7, owner <- v8, pc <- v9, c <- v10, holds <- v11, use <- v12, bwaiters <- v13,
  cycle <- v14, refcount <- v15, seen <- v16, bpc <- v17, arrived <- v18, passed <- v19

(***************************************************************************)
(* The specification.                                                      *)
(***************************************************************************)
Start ==
  \/ subject \in {"mempool", "msgchan"} /\ v1 = 0 /\ v2 = 0 /\ v3 = 0 /\ v4 = 0 /\ v5 = 0 /\
     v6 = 0 /\ v7 = 0 /\ v8 = 0 /\ v9 = 0 /\ v10 = 0 /\ v11 = 0 /\ v12 = 0 /\ v13 = 0 /\
     v14 = 0 /\ v15 = 0 /\ v16 = 0 /\ v17 = 0 /\ v18 = 0 /\ v19 = 0
  \/ subject = "skiplist" /\ Skiplist!Init /\ v5 = 0 /\ v6 = 0 /\ v7 = 0 /\ v8 = 0 /\
     v9 = 0 /\ v10 = 0 /\ v11 = 0 /\ v12 = 0 /\ v13 = 0 /\ v14 = 0 /\ v15 = 0 /\ v16 = 0 /\
     v17 = 0 /\ v18 = 0 /\ v19 = 0
  \/ subject = "timers" /\ T!Init /\ v17 = 0 /\ v18 = 0 /\ v19 = 0
  \/ subject = "queue" /\ Queue!QueueInit /\ v10 = 0 /\ v11 = 0 /\ v12 = 0 /\
     v13 = 0 /\ v14 = 0 /\ v15 = 0 /\ v16 = 0 /\ v17 = 0 /\ v18 = 0 /\ v19 = 0
  \/ subject = "sync" /\ Sync!BarrierInit

AnyOrder == CHOOSE f \in Bijection(1 .. ObjCnt, Objects) : TRUE

LibInit ==
  /\ subject \in Subjects
  /\ Init /\ (subject # "mempool" => cache_sz = 0 /\ objring = AnyOrder)
  /\ ChanInit /\ (subject # "msgchan" => orderly)
  /\ Start

(* The cthreads that meet at a barrier stop after their last cycle. *)
LibNext ==
  \/ subject = "mempool" /\ Next /\ UNCHANGED <<subject, chanVars, v>>
  \/ subject = "msgchan" /\ ChanNext /\ UNCHANGED <<subject, vars, v>>
  \/ subject = "skiplist" /\ Skiplist!Next /\ UNCHANGED <<subject, vars, chanVars, v5, v6,
       v7, v8, v9, v10, v11, v12, v13, v14, v15, v16, v17, v18, v19>>
  \/ subject = "timers" /\ T!Next /\ UNCHANGED <<subject, vars, chanVars, v17, v18, v19>>
  \/ subject = "queue" /\ Queue!QueueNext /\ UNCHANGED <<subject, vars, chanVars, v10,
       v11, v12, v13, v14, v15, v16, v17, v18, v19>>
  \/ subject = "sync" /\ Sync!BarrierNext /\ UNCHANGED <<subject, vars, chanVars>>
  \/ subject = "sync" /\ UNCHANGED <<subject, vars, chanVars, v>>

LibSpec == LibInit /\ [][LibNext]_<<subject, vars, chanVars, v>>

Symmetry == Permutations(Users)

(***************************************************************************)
(* Properties.                                                             *)
(***************************************************************************)
(* The timers' lists, their states and the cached expiries agree at every  *)
(* step of every thread, and nothing refers to a timer that was stopped or *)
(* has run: "the timer structure can be freed" (cne_timer.h).  A list is   *)
(* kept in a skip list: level 0 holds the pending timers as they expire,   *)
(* and every level is a sublist of the one below.                          *)
ListsExact ==
  /\ subject = "timers" => T!ListsExact /\ T!StoppedUnreferenced
  /\ subject = "skiplist" => Skiplist!InOrder /\ Skiplist!LevelsNested

(* cne_timer_manage starts no callback before its timer expires. *)
NeverEarly == [][subject = "timers" => T!RunsExpired]_<<subject, v>>

(* A scheduler that frees a node to the pool of another one leaves every   *)
(* node in one place: the queue, its pool or the hands of one scheduler.   *)
NodesOnce == subject = "queue" => Queue!NodesOnce

(* Cthreads leave a queue in the order in which they were inserted, none   *)
(* lost and none twice, and its nodes are never in two places; a scheduler *)
(* that cannot be created leaves no queue behind.  The cthreads of two     *)
(* schedulers that share a mutex and a barrier through such queues find    *)
(* the count of the mutex and the cycles of the barrier exact.             *)
QueueRight ==
  /\ NodesOnce
  /\ subject = "queue" => Queue!Fifo /\ Queue!SchedReleased
  /\ subject = "sync" => Sync!MutexExact /\ Sync!BarrierExact

(* What cne_timer_manage cuts off is the list of the expired timers. *)
RunList == [][subject = "skiplist" => Skiplist!CutsExpired]_<<subject, v>>
==============================================================================
