---------------------------- MODULE CthreadQueue ----------------------------
(***************************************************************************)
(* The queue that cthreads wait in (cthread_queue.h) and the pools that    *)
(* its nodes come from (cthread_pool.h), both lock-free linked lists with  *)
(* many producers and one consumer.  Producers insert into one queue, each *)
(* with nodes of its own pool; the consumer removes, and frees every node  *)
(* to the pool it came from, which its owner allocates from meanwhile.     *)
(*                                                                         *)
(* An insert exchanges the head and then links the old head to the new     *)
(* node; in between the list is in two parts.  What a scheduler does to    *)
(* its own pool's tail and fast_alloc no one else sees: a step has at most *)
(* one access that another scheduler could see.                            *)
(*                                                                         *)
(* An owner that finds a node missing its link inserts the stub of the     *)
(* pool.  With `prompt' the link is there when it comes by again, before   *)
(* it has removed the stub; no one is stalled between the two steps of an  *)
(* insert for longer.                                                      *)
(*                                                                         *)
(* Before that one of the schedulers is created, queue by queue, which may *)
(* fail anywhere.                                                          *)
(***************************************************************************)
EXTENDS Integers, Sequences, FiniteSets

CONSTANTS
  Producers,  \* the schedulers that insert
  Consumer,   \* the one that removes
  PreAlloc,   \* CTHREAD_PREALLOC
  MaxNodes,   \* how many nodes a pool can get from calloc
  MaxItems,   \* how often each producer inserts
  Prompts     \* the values of prompt

VARIABLES
  sched,      \* the scheduler being created: what it has, and what is to be rolled back
  prompt,     \* see above
  node,       \* the fields next and data of every node
  pool,       \* qnode_pool of a scheduler, and how many nodes it got from calloc
  queue,      \* head and tail of the queue
  loc,        \* where a scheduler is, and its locals
  order,      \* history: what was inserted, in the order of the exchanges
  removed,    \* history: what was removed
  refused     \* history: what was not inserted, as there was no node for it

qVars == <<sched, prompt, node, pool, queue, loc, order, removed, refused>>

Schedulers == Producers \cup {Consumer}
Null == <<>>
Stub(s) == <<s, 0>>
PoolOf(n) == n[1]
Nodes == Schedulers \X (0 .. MaxNodes)
Idle == [pc |-> "idle", n |-> Null, prev |-> Null, tail |-> Null, i |-> 0, then |-> "idle"]

qnode_pool_create(s) == [head |-> Stub(s), tail |-> Stub(s), fast |-> Null, made |-> 0]

(* What a scheduler consists of, in the order of its creation.  Caches are *)
(* queues, and the node of an empty queue is one of the pool.              *)
Resources ==
  <<"qnode_pool", "ready", "pready", "cthread_cache", "stack_cache", "per_cthread_cache",
    "tls_cache", "cond_cache", "sema_cache", "barr_cache", "mutex_cache", "once_cache">>

(* _cthread_queue_create has taken its stub from the consumer's pool: node *)
(* 1 of the first PreAlloc ones, which the pool holds in their order       *)
(* behind that.                                                            *)
QueueInit ==
  /\ sched \in [status : {"creating"}, phase : {1}, per_cthread : BOOLEAN, has : {{}}, undo : {<<>>}]
  /\ prompt \in Prompts
  /\ pool = [s \in Schedulers |->
       IF s = Consumer
       THEN [head |-> <<s, PreAlloc>>, tail |-> <<s, 2>>, fast |-> Null, made |-> PreAlloc]
       ELSE qnode_pool_create(s)]
  /\ node = [n \in Nodes |->
       [next |-> IF PoolOf(n) = Consumer /\ n[2] \in (0 .. (PreAlloc - 1)) \ {1}
                 THEN <<Consumer, n[2] + 1>> ELSE Null,
        data |-> Null]]
  /\ queue = [head |-> <<Consumer, 1>>, tail |-> <<Consumer, 1>>]
  /\ loc = [s \in Schedulers |-> Idle]
  /\ order = <<>> /\ removed = <<>> /\ refused = {}

(***************************************************************************)
(* cthread_sched_create with __sched_alloc_resources.                      *)
(***************************************************************************)
Creates ==
  /\ sched.status = "creating" /\ sched.phase <= Len(Resources)
  /\ LET r == Resources[sched.phase] IN
     sched' = [sched EXCEPT !.phase = @ + 1,
       !.has = IF r = "per_cthread_cache" /\ ~ sched.per_cthread THEN @ ELSE @ \cup {r}]

(* Fault: what was created first is destroyed first. *)
RolledForward(phase) == SubSeq(Resources, 1, phase - 1)

(* The roll back falls through from the case of the phase that failed to   *)
(* that of the first; each destroys what the phase before it created.      *)
RolledBack(phase) == [n \in 1 .. (phase - 1) |-> Resources[phase - n]]

CreateFails ==
  /\ sched.status = "creating" /\ sched.phase <= Len(Resources)
  /\ ~ (Resources[sched.phase] = "per_cthread_cache" /\ ~ sched.per_cthread)
  /\ sched' = [sched EXCEPT !.status = "undoing", !.undo = RolledBack(sched.phase)]

(* A cache that was not created is NULL, and destroyed by doing nothing. *)
Destroys ==
  /\ sched.status = "undoing" /\ sched.undo # <<>>
  /\ sched' = [sched EXCEPT !.has = @ \ {Head(sched.undo)}, !.undo = Tail(@)]

(* The scheduler is freed; this_sched keeps pointing to it, so that the    *)
(* next call returns at once.                                              *)
Fails ==
  /\ sched.status \in {"undoing", "failed"} /\ sched.undo = <<>>
  /\ sched' = [sched EXCEPT !.status = "failed"]

Starts ==
  /\ sched.status = "creating" /\ sched.phase > Len(Resources)
  /\ sched' = [sched EXCEPT !.status = "runs"]

cthread_sched_create ==
  /\ Creates \/ CreateFails \/ Destroys \/ Fails \/ Starts
  /\ UNCHANGED <<prompt, node, pool, queue, loc, order, removed, refused>>

At(s, l) == loc[s].pc = l
Goto(s, l) == loc' = [loc EXCEPT ![s].pc = l]

Item(s) ==
  <<s, Cardinality({i \in DOMAIN order : order[i][1] = s})
         + Cardinality({x \in refused : x[1] = s}) + 1>>

(***************************************************************************)
(* _qnode_pool_insert of loc[s].n: into the pool that the node is from.    *)
(***************************************************************************)
PoolExchange(s) ==
  /\ At(s, "pool_exchange")
  /\ LET n == loc[s].n IN
     /\ node' = [node EXCEPT ![n].next = Null]
     /\ pool' = [pool EXCEPT ![PoolOf(n)].head = n]
     /\ loc' = [loc EXCEPT ![s].prev = pool[PoolOf(n)].head, ![s].pc = "pool_link"]
  /\ UNCHANGED <<prompt, queue, order, removed, refused>>

PoolLink(s) ==
  /\ At(s, "pool_link")
  /\ node' = [node EXCEPT ![loc[s].prev].next = loc[s].n]
  /\ Goto(s, loc[s].then)
  /\ UNCHANGED <<prompt, pool, queue, order, removed, refused>>

(* What a list holds from its tail on, over the links and those that a     *)
(* scheduler has still to set.                                             *)
ToBeLinked(n) ==
  {loc[s].n : s \in {r \in Schedulers : (At(r, "link") \/ At(r, "pool_link")) /\ loc[r].prev = n}}

Following(S) ==
  S \cup UNION {ToBeLinked(n) \cup ({node[n].next} \ {Null}) : n \in S}

RECURSIVE Closed(_)
Closed(S) == LET more == Following(S) IN IF more = S THEN S ELSE Closed(more)

Listed(tail) == Closed({tail})

(* Whoever inserts behind n has not linked it yet, and the stub was        *)
(* inserted behind that before.                                            *)
Stuck(s, n) == ToBeLinked(n) # {} /\ Stub(s) \in Listed(n)

(***************************************************************************)
(* _pool_remove and the retry of _qnode_pool_remove.  Every read of a next *)
(* pointer or of the head is a step.                                       *)
(***************************************************************************)
(* `tail' is removed: the pool goes on at `next'. *)
TakeTail(s, tail, next) ==
  /\ pool' = [pool EXCEPT ![s].tail = next]
  /\ loc' = [loc EXCEPT ![s].n = tail, ![s].pc = "exchange"]

pool_remove(s) ==
  /\ At(s, "remove")
  /\ LET tail == pool[s].tail
         next == node[tail].next IN
     \/ /\ tail = Stub(s) /\ next = Null
        /\ Goto(s, "retry") /\ UNCHANGED pool
     \/ /\ tail = Stub(s) /\ next # Null
        /\ pool' = [pool EXCEPT ![s].tail = next]
        /\ loc' = [loc EXCEPT ![s].tail = next, ![s].pc = "behind_stub"]
     \/ tail # Stub(s) /\ next # Null /\ TakeTail(s, tail, next)
     \/ /\ tail # Stub(s) /\ next = Null
        /\ prompt => ~ Stuck(s, tail)
        /\ loc' = [loc EXCEPT ![s].tail = tail, ![s].pc = "last"]
        /\ UNCHANGED pool
  /\ UNCHANGED <<prompt, node, queue, order, removed, refused>>

BehindStub(s) ==
  /\ At(s, "behind_stub")
  /\ LET next == node[loc[s].tail].next IN
     \/ next # Null /\ TakeTail(s, loc[s].tail, next)
     \/ next = Null /\ Goto(s, "last") /\ UNCHANGED pool
  /\ UNCHANGED <<prompt, node, queue, order, removed, refused>>

(* Nothing follows the tail.  The last node stays in the pool; if another  *)
(* one is being inserted, the stub is.                                     *)
LastNode(s) ==
  /\ At(s, "last")
  /\ IF loc[s].tail = pool[s].head
     THEN Goto(s, "retry")
     ELSE loc' = [loc EXCEPT ![s].n = Stub(s), ![s].then = "swung", ![s].pc = "pool_exchange"]
  /\ UNCHANGED <<prompt, node, pool, queue, order, removed, refused>>

Swung(s) ==
  /\ At(s, "swung")
  /\ LET next == node[loc[s].tail].next IN
     \/ next # Null /\ TakeTail(s, loc[s].tail, next)
     \/ next = Null /\ Goto(s, "retry") /\ UNCHANGED pool
  /\ UNCHANGED <<prompt, node, queue, order, removed, refused>>

(* What there was to remove goes unseen when the tail is the stub. *)
Retry(s) ==
  /\ At(s, "retry")
  /\ \/ /\ pool[s].head # pool[s].tail /\ pool[s].tail # Stub(s)
        /\ Goto(s, "remove")
     \/ /\ ~ (pool[s].head # pool[s].tail /\ pool[s].tail # Stub(s))
        /\ Goto(s, IF loc[s].i = 0 THEN "refill" ELSE "no_node")
  /\ UNCHANGED <<prompt, node, pool, queue, order, removed, refused>>

(***************************************************************************)
(* The rest of _qnode_alloc.                                               *)
(***************************************************************************)
Calloc(s) ==
  /\ At(s, "refill") /\ loc[s].i < PreAlloc /\ pool[s].made < MaxNodes
  /\ pool' = [pool EXCEPT ![s].made = @ + 1]
  /\ loc' = [loc EXCEPT ![s].n = <<s, pool[s].made + 1>>, ![s].i = @ + 1,
                        ![s].then = "refill", ![s].pc = "pool_exchange"]
  /\ UNCHANGED <<prompt, node, queue, order, removed, refused>>

CallocFails(s) ==
  /\ At(s, "refill") /\ loc[s].i < PreAlloc /\ pool[s].made = MaxNodes
  /\ Goto(s, "no_node")
  /\ UNCHANGED <<prompt, node, pool, queue, order, removed, refused>>

Refilled(s) ==
  /\ At(s, "refill") /\ loc[s].i = PreAlloc
  /\ Goto(s, "remove")
  /\ UNCHANGED <<prompt, node, pool, queue, order, removed, refused>>

(***************************************************************************)
(* _cthread_queue_insert_mp, from its _qnode_alloc on.                     *)
(***************************************************************************)
insert_mp(s) ==
  /\ At(s, "idle") /\ Item(s)[2] <= MaxItems[s]
  /\ \/ /\ pool[s].fast # Null
        /\ loc' = [loc EXCEPT ![s].n = pool[s].fast, ![s].pc = "exchange"]
        /\ pool' = [pool EXCEPT ![s].fast = Null]
     \/ /\ pool[s].fast = Null
        /\ Goto(s, "remove") /\ UNCHANGED pool
  /\ UNCHANGED <<prompt, node, queue, order, removed, refused>>

NoNode(s) ==
  /\ At(s, "no_node")
  /\ refused' = refused \cup {Item(s)}
  /\ loc' = [loc EXCEPT ![s] = Idle]
  /\ UNCHANGED <<prompt, node, pool, queue, order, removed>>

(* Fault: the head is read and written in two steps of one producer, as in *)
(* _cthread_queue_insert_sp.                                               *)
ExchangeUnlocked(s) ==
  \/ /\ At(s, "exchange") /\ loc[s].prev = Null
     /\ loc' = [loc EXCEPT ![s].prev = queue.head]
     /\ UNCHANGED <<prompt, node, pool, queue, order, removed, refused>>
  \/ /\ At(s, "exchange") /\ loc[s].prev # Null
     /\ LET n == loc[s].n IN
        /\ node' = [node EXCEPT ![n] = [next |-> Null, data |-> Item(s)]]
        /\ queue' = [queue EXCEPT !.head = n]
        /\ order' = Append(order, Item(s))
        /\ Goto(s, "link")
     /\ UNCHANGED <<prompt, pool, removed, refused>>

Exchange(s) ==
  /\ At(s, "exchange")
  /\ LET n == loc[s].n IN
     /\ node' = [node EXCEPT ![n] = [next |-> Null, data |-> Item(s)]]
     /\ queue' = [queue EXCEPT !.head = n]
     /\ order' = Append(order, Item(s))
     /\ loc' = [loc EXCEPT ![s].prev = queue.head, ![s].pc = "link"]
  /\ UNCHANGED <<prompt, pool, removed, refused>>

Link(s) ==
  /\ At(s, "link")
  /\ node' = [node EXCEPT ![loc[s].prev].next = loc[s].n]
  /\ loc' = [loc EXCEPT ![s] = Idle]
  /\ UNCHANGED <<prompt, pool, queue, order, removed, refused>>

(***************************************************************************)
(* _cthread_queue_remove: _cthread_queue_poll until it finds something or  *)
(* _cthread_queue_empty.                                                   *)
(***************************************************************************)
queue_remove ==
  /\ At(Consumer, "idle")
  /\ Goto(Consumer, "poll")
  /\ UNCHANGED <<prompt, node, pool, queue, order, removed, refused>>

(* _qnode_free, up to the insert into the pool *)
Freed(n) ==
  IF pool[Consumer].fast = Null /\ PoolOf(n) = Consumer
  THEN /\ pool' = [pool EXCEPT ![Consumer].fast = n]
       /\ loc' = [loc EXCEPT ![Consumer] = Idle]
  ELSE /\ loc' = [loc EXCEPT ![Consumer] = [Idle EXCEPT !.n = n, !.pc = "pool_exchange"]]
       /\ UNCHANGED pool

queue_poll ==
  /\ At(Consumer, "poll")
  /\ LET tail == queue.tail
         next == node[tail].next IN
     \/ /\ next # Null
        /\ queue' = [queue EXCEPT !.tail = next]
        /\ node' = [node EXCEPT ![tail].data = node[next].data]
        /\ removed' = Append(removed, node[next].data)
        /\ Freed(tail)
     \/ /\ next = Null
        /\ Goto(Consumer, "empty")
        /\ UNCHANGED <<node, pool, queue, removed>>
  /\ UNCHANGED <<prompt, order, refused>>

queue_empty ==
  /\ At(Consumer, "empty")
  /\ IF queue.tail = queue.head
     THEN loc' = [loc EXCEPT ![Consumer] = Idle]
     ELSE Goto(Consumer, "poll")
  /\ UNCHANGED <<prompt, node, pool, queue, order, removed, refused>>

Alloc(s) ==
  \/ pool_remove(s) \/ BehindStub(s) \/ LastNode(s) \/ Swung(s) \/ Retry(s)
  \/ Calloc(s) \/ CallocFails(s) \/ Refilled(s) \/ NoNode(s)

Runs ==
  \/ \E s \in Producers : insert_mp(s) \/ Alloc(s) \/ Exchange(s) \/ Link(s)
  \/ \E s \in Schedulers : PoolExchange(s) \/ PoolLink(s)
  \/ queue_remove \/ queue_poll \/ queue_empty

QueueNext == cthread_sched_create \/ (sched.status = "runs" /\ Runs /\ UNCHANGED sched)

-----------------------------------------------------------------------------
(* Wherever the creation of a scheduler fails, all that was created is     *)
(* destroyed, and the pool outlives the queues, which give their nodes     *)
(* back to it.                                                             *)
SchedReleased ==
  /\ sched.has # {} => "qnode_pool" \in sched.has
  /\ sched.status = "failed" => sched.has = {}

(* What the consumer removes is what was inserted, in that order, each     *)
(* once, although it may see the list in two parts.                        *)
Fifo == removed = SubSeq(order, 1, Len(removed))

Held(n) ==
  {s \in Schedulers : loc[s].n = n /\ (At(s, "exchange") \/ At(s, "pool_exchange"))}

(* A node is in the queue, in its pool's list, in its fast slot or in the  *)
(* hands of one scheduler, and only there; a pool's stub stays in it.  So  *)
(* a node can be freed by the scheduler that removes it while the owner of *)
(* the pool allocates.                                                     *)
NodesOnce ==
  LET lists == [s \in Schedulers |-> Listed(pool[s].tail)]
      queued == Listed(queue.tail) IN
  \A s \in Schedulers :
    /\ Stub(s) \notin queued /\ \A t \in Producers : ~ (At(t, "exchange") /\ loc[t].n = Stub(s))
    /\ \A i \in 1 .. pool[s].made :
         LET n == <<s, i>> IN
         Cardinality(Held(n)) + Cardinality({k \in 1 .. 3 :
           \/ k = 1 /\ n \in queued
           \/ k = 2 /\ n \in lists[s]
           \/ k = 3 /\ n = pool[s].fast}) = 1
=============================================================================
