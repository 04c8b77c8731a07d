# TLA+ models and proofs for CNDP

CNDP is a set of C libraries for packet processing in user space: lockless
rings and memory pools at the bottom, timers, cooperative threads and a packet
graph above them, a network stack (CNET) built from graph nodes, drivers for
several kinds of network devices, and services around all of this
(configuration, command line, control sockets, metrics).  This directory keeps
a model of most of it beside the code: TLA+ modules translated from the source,
the TLC configurations that check them on small instances, and theorems about
the five parts everything else stands on, with proofs checked by TLAPS.

`PROJECT.json` is the index: for every definition the lines of code it stands
for (`map`), every run with its properties, for every property a fault that
breaks it (`mutants`), what can go wrong in this code and which property would
notice (`hazards`), the disagreements between code and documentation that a run
demonstrates (`findings`) and the theorems.

## How to run it

    tlc -workers 2 -config Ring.cfg MCCneRing        # any row of "Runs" below
    tlapm MsgchanProofs.tla                          # any module of "Proofs"

A passing run takes between one and four minutes.  A proof module takes one to
five minutes from nothing.

## The parts and how they interact

* **Rings** are where threads meet without locks.  The **memory pool** keeps
  its free objects in a ring behind per-thread caches, **message channels** are
  two rings with a parent at one end and its children at the other.
* **Packet buffers** come from memory pools and are freed by reference count;
  **drivers** fill and drain them, **transmit buffers** gather them.
* **Threads** register to get an index; that index selects the cache of a pool
  and the list of the **timer** library.
* **Cthreads** are cooperative threads; each **scheduler** is one pthread, with
  a ready queue that other schedulers write to.  Mutex, condition variable,
  barrier and semaphore are queues of blocked cthreads.  The nodes of all these
  queues come from per-scheduler pools and return to them from any scheduler.
* The **graph** moves streams of packets between **nodes**.  CNET is a graph
  (ethernet, IPv4, UDP, TCP, channels), with routes and ARP entries looked up
  in **FIBs** that a netlink thread keeps in step with the kernel.
* Around it: **hash tables**, **access lists**, **control sockets**, the
  **event** thread, **JSON configuration**, the **command line** and smaller
  containers.  **cndpfwd** is the application that uses most of this.

## Modules

Every module names the directory it models in its header, and operators and
fields keep the names of the source.  One module is one component; where a
component promises something simple, a second module states the promise.

| Module | Code | State and steps |
|---|---|---|
| `CneRing` | `lib/core/ring` | the four indexes, the slots and each thread's locals; one action per shared load, store and compare-exchange of enqueue, dequeue and `cne_ring_count` |
| `RingFifo` | `cne_ring_api.h` | the promise of a ring: a bounded FIFO with bulk and burst calls; `CneRing` implements it |
| `RingTable` | `cne_ring.c`, `cne_ring_generic.h`, `cne_ring_elem.h` | the memory layout `cne_ring_init` computes and the unrolled copy loops |
| `Mempool` | `lib/core/mempool` | ring, caches and each call's table; one action per ring access |
| `ObjectPool` | `mempool.h` | the promise of a pool; `Mempool` implements it |
| `ThreadRegistry` | `lib/core/cne`, `lib/usr/clib/thread` | ids, entries, the thread table, barriers of `thread_create`, the unlocked scans |
| `Msgchan` | `lib/usr/clib/msgchan` | the family of channels of one name; the checks outside the mutex are steps of their own |
| `Timers`, `TimerSkiplist` | `lib/usr/clib/timer` | status words, per-thread lists, callbacks that reset and stop timers; the skip list behind one list |
| `CthreadRun` | `cthread_sched.c` | what a synchronisation object sees of the schedulers |
| `CthreadSync` | `cthread_mutex.c`, `cthread_cond.c`, `cthread_barrier.c` | mutex, condition variable, barrier, one step per atomic access |
| `CthreadSema` | `cthread_sema.c` | semaphore with timed waits |
| `CthreadLife` | `cthread.c`, `cthread_sched.c` | creation, sleep, cancel, detach, migration, exit, join, end of the scheduler |
| `CthreadQueue` | `cthread_queue.h`, `cthread_pool.h`, `cthread_sched.c` | the lock-free queue, its node pools, creation of a scheduler and its roll back |
| `Pktmbuf` | `lib/core/pktmbuf`, `lib/core/txbuff` | buffers, reference counts, data offsets, bulk frees, transmit buffers, `cne_get_ptype` |
| `Pktcpy` | `cne_pktcpy.h` | the block moves of a packet copy in three instruction sets, and the proof about them |
| `PacketNodes` | `lib/usr/clib/graph`, `lib/usr/clib/nodes`, `lib/cnet` | the graph walk with streams and pending nodes; every node as one action on its whole stream, with its speculation |
| `Tcp` | `lib/cnet/tcp` | two endpoints, timers, and a network that loses, copies and reorders |
| `Channels` | `lib/cnet/chnl`, `pcb`, `udp` | channel calls, PCB tables, bursts of datagrams with callbacks |
| `CnetTables` | `lib/cnet/netif`, `arp`, `route`, `netlink`, `stk`, `reg` | the tables behind netlink and the ordered start of stacks |
| `CuckooHash` | `lib/core/hash` | one writer's stores to memory, single and bulk lock-free lookups in between |
| `Fib` | `lib/usr/clib/rib`, `fib` | prefix trees and the three data planes, scalar and vector lookups |
| `Acl` | `lib/usr/clib/acl` | building the tries, laying out the table, five classifiers |
| `GraphRegistry` | `lib/usr/clib/graph` | registering, cloning, editing nodes; building graphs; statistics |
| `Xskdev`, `Pktdev`, `Memif` | `xskdev`, `pktdev`, `pmds/net` | AF_XDP frames and rings; ports and four drivers; the memif protocol and its shared rings |
| `Uds`, `Events` | `uds`, `uds_connect`, `metrics`, `csock`, `events`, `idlemgr`, `ibroker` | servers, clients, handler threads; the event thread, idle manager and broker |
| `Jcfg`, `Cli` | `lib/usr/app/jcfg`, `cli` | decoding and resolving a configuration; the editor, history, tree, files, maps |
| `Containers` | `hmap`, `dsa`, `meter`, `mmap`, `kvargs`, `uid` | one mode per library |
| `Cndpfwd` | `examples/cndpfwd` | start, barrier, pause, build, exit; what a burst of each mode does |

The modules composed for TLC are `MCCneRing`, `MCPools`, `MCProgress`,
`MCCthread`, `MCPackets` and `MCServices`.  All of them check several
components side by side: the variable `subject` says which one a behaviour is
about, and the state space is the sum of theirs, not the product.  The module
whose theorems belong to a run is the one its MC module EXTENDS, so the theorem
and the run speak of the same definition; the others are instances.

Interacting components are composed where the interaction is: `Mempool` uses
the ring at the level `RingFifo` promises, `Timers` uses lists and
`TimerSkiplist` shows that the skip list is one, `CthreadSync` and
`CthreadSema` stand on `CthreadRun`, `PacketNodes` holds the walk together with
all the nodes, and `Cndpfwd` uses ports and access lists by their results.

### How code becomes actions

A call that no other actor can observe halfway is one action.  Where the code
runs without a lock, every access that another thread can see is an action of
its own, and the locals carry what was read.  The machine is sequentially
consistent: the code relies on acquire loads and release stores for the ring
tails, and with these the x86 build the project targets adds only a delay of
stores, which an interleaving already has.  Data are abstracted: an object is a
model value, a packet is the fields its nodes look at, text is a sequence of a
few characters, what is printed is left out.  Widths stay where they matter:
ring indexes wrap at `IndexMod`, TCP sequence numbers at `2^SeqBits`, the
layout arithmetic of `RingTable` at `2^W`.

## Runs

| Run | Config | What holds |
|---|---|---|
| `ring` | `MCCneRing`, `Ring.cfg` | `RingInv` (the inductive invariant), `SlotsExclusive` (no two threads copy to or from one slot), `TailsComing` (the thread `update_tail` waits for is always there), `FailureJustified` (a call that gives 0 really met a full or empty ring), `RefinesFifo` |
| `pools` | `MCPools`, `Pools.cfg` | `Conserved`, `CacheBounded`, `RefinesPool` of the memory pool; `OneFamily`, `CountsBalance`, `NoMisuse` of message channels; `ListsExact`, `RunList`, `NeverEarly` of timers and the skip list; `QueueRight` of the cthread queue and of the creation of a scheduler, and of a mutex and a barrier across two schedulers |
| `structures` | `MCCneRing`, `Structures.cfg` | `CountSafe`: what `cne_ring_count` tells the only producer or consumer is really there; `RefinesFifo` on an EXACT_SZ ring with bulk and burst calls; `SemaRight`: semaphores with and without timed waits; `BuffersRight`: the ring's layout and copy loops, packet and transmit buffers, packet types |
| `progress` | `MCProgress`, `Progress.cfg` | `IdsUnique`, `Balanced`, `WaitMeansStopped`; liveness: `CreateReturns`, `ExpiredRun` |
| `cthread` | `MCCthread`, `Cthread.cfg` | `MutexExact`, `BarrierExact`, `LifeExact`; liveness: `BarrierReturns`, `JoinReturns` |
| `packets` | `MCPackets`, `Packets.cfg` | `PacketsRight`: every packet of a walk leaves once, by a way that its headers or a confusion of the guesses allow, and in order where they allow one only; `TcpRight`: the stream is exact and an endpoint with work left has a timer on or a segment under way; `CopyExact` |
| `network` | `MCServices`, `Network.cfg` | `LookupsRight` (hash, FIB, access lists against reference lookups), `CnetRight`, `DevicesRight` |
| `services` | `MCServices`, `Services.cfg` | `RegistryRight`, `ServicesRight`, `ConsoleRight`, `ContainersRight`, `CndpfwdRight` |
| `pool_nodes` | `MCPools`, `PoolNodes.cfg` | *violated*: `NodesOnce`, see Findings |
| `mutex_owners` | `MCCthread`, `CthreadOwners.cfg` | *violated*: `OwnersExclusive`, see Findings |
| `buffer_references` | `MCCneRing`, `BufferReferences.cfg` | *violated*: `LastFrees`, see Findings |
| `tcp_old_ack` | `MCPackets`, `TcpOldAck.cfg` | *violated*: `StreamExact`, see Findings |

Algorithms are checked against a reference that is written without them: the
longest prefix by definition for `Fib`, the best matching rule for `Acl`,
buckets filled at every tick for the meters, the map of the keys put in for
`CuckooHash` (with lock-free lookups, any value the key had during the lookup),
the line as the user typed it for the gap buffer of `Cli`,
the modular copy for `RingTable`, the stack of headers for `cne_get_ptype`.

Deadlock is checked in `ring`, `pools`, `progress` and `packets`; connections that came to rest and copies that returned are allowed
to stutter there.  The remaining runs contain components that may legitimately
end (a scheduler without cthreads, an application that has exited, a socket
that is closed, bounds that are used up), so it is off.

### Bounds

* **Ring**: four slots for two objects, indexes modulo 4 (`ring`, so that they
  wrap at once and slots are reused by overtaken threads) or 8, two producers
  and two consumers, single and pairwise requests; in `structures` one of
  each, a third thread that counts and requests of 0 to 3 of both behaviours.  `MaxStall` bounds how far the head moves while
  a thread sits between its load and its compare-exchange.
* **Mempool**: three threads, three objects, caches of 0, 1 and 2, requests of
  1 to 3: hits, misses, refills that fall back to the ring, and flushes.
* **Msgchan**: three users, two attachments per parent, ring capacity 1, one
  message per user and one timeout; a fourth actor or a longer ring adds no
  new way for two calls to meet.
* **Timers**: two threads, time 0 and 1, two one-shot timers (one is reset to
  thread 1 only and never stopped) or one timer that is also periodic or reset
  with the waiting call.  Any callback may call the library.
* **Cthreads**: three on one scheduler where liveness is checked, three on two
  schedulers for safety; two rounds of a barrier; programs in `MCCthread`.
* **Queue**: two producers, five insertions, four nodes, pools that start with two.
* **Packet buffers**: three buffers of two pools, two threads, up to three
  references each; a pending array of two, so that it is flushed in a bulk.
* **Packets**: up to eight packets of two kinds in a batch, every pair of the
  sixteen kinds, burst 6, so that the four-at-a-time loops, their remainders and
  stream growth all happen.  **Tcp**: sequence numbers of five bits that wrap, five bytes,
  segments of up to three, one fault of one kind (two for losses) a behaviour;
  copies and early retransmissions are not combined.
* **Pktcpy**: the lengths on both sides of every comparison, six alignments of
  each buffer.  The theorem has no bound.
* **Hash**: two buckets of one entry in the shape of the code, so that cuckoo
  paths and extendable buckets are needed at once; bulk lookups of two keys in
  tables of two; the SSE comparison of signatures is one load per bucket.
* **Fib**: six-bit addresses with two-bit bytes: three levels, as many prefixes
  as a node pool of nine allows, two or four to six tbl8 groups.  **Acl**: bytes
  of eight values, rules with priorities and two categories, batches that are
  larger than the engines' slots.
* **Channels**: three channels of two descriptors and bursts of two datagrams,
  with callbacks that receive, close their channel or close another.
  **Tables**: addresses of three bits, the default route, a subnet with the
  same network address, another subnet and host routes; four kernel messages
  on tables that start empty or with all routes.
* **Registry**: four node names and a clone, three nodes and two graphs at a
  time, patterns that overlap.
* **Services**: two or three of everything, one fault per behaviour; the whole
  list is in `MCServices`.

Every bound that stops an action is a named constant in that action's guard.

### Fairness

* `ThreadRegistry`: weak fairness of every created thread and of the main
  thread, which run on pthreads of their own.  User functions may run forever.
* `Timers`: strong fairness of each thread's `cne_timer_manage`, of the calls
  it has begun and of the return of callbacks.  The library asks its user to
  call `cne_timer_manage` regularly; strong fairness is needed because the
  status words and list locks are taken by spinning, and the code's spinlocks
  are assumed not to starve a thread for ever.
* Cthreads: weak fairness of the pthread of every scheduler, and strong
  fairness of its two polls, since the scheduler loop alternates between its
  ready queue and the one other schedulers write to.
* Nothing else assumes fairness.  The network of `Tcp` in particular may lose
  everything; what is checked there is that no endpoint forgets its work.

### Assumptions on callers

Some properties speak only of callers that keep the rules of the interface;
each rule is a constant or a guard in the model.

* `CneRing`: no thread is stalled for a whole turn of the 32-bit indexes
  between load and compare-exchange (`MaxStall`): the exchange could not tell.
  `CountSafe` is about a caller that is the only producer or only consumer;
  to a bystander the count may be anything between the two.
* `Msgchan`, variable `orderly`: users destroy a parent last.  Without it
  `mc_destroy`, `mc_send` and `mc_recv` look at freed memory (`msgchan.c:186`,
  `213`, `250`, `305`); only `OneFamily` is claimed then.
* `CthreadQueue`, variable `prompt`: an insert into a pool is not stalled
  between its two steps until the owner has been by twice (run `pool_nodes`
  drops this).
* `Timers`: `tim_thread` is a registered thread.
* `CthreadLife`, `NoDangling`: nobody cancels a cthread that has detached
  itself and sleeps.
* `CnetTables`: addresses are unique, and a neighbour is not one's own address.

Other rules are not assumed; the model contains the calls that break them and
the property says exactly what then happens (next section but one).

## Proofs

Eight modules hold theorems.  They are about every value of the constants: any
number of threads, objects and users, any ring size and index width, any packet
length.

| Module | Theorems |
|---|---|
| `CneRingSteps`, `CneRingProofs`, `CneRingFifo` | `RingInvariant`, `RingTypes`, `RingIndexOrder`, `RingSlotsExclusive`, `RingFailureJustified`, `RingTailsComing`, `RingCountSafe`, `RingRefinesFifo` |
| `MempoolSteps`, `MempoolProofs` | `PoolInvariant`, `PoolConserved`, `PoolCacheBounded`, `PoolRefines` |
| `ThreadRegistryProofs` | `RegistryInvariant`, `ThreadIdsUnique`, `ThreadsBalanced`, `ThreadsStopped` |
| `MsgchanProofs` | `ChannelsInvariant`, `ChannelsOneFamily`, `ChannelsNoMisuse` |
| `Pktcpy` | `CopyInvariant`, `PacketsCopied` |

**Ring.**  Assumptions: the capacity is less than the number of slots, the
number of slots divides the index range, and `Capacity + MaxStall < IndexMod`
(`SizeAssumption`); a single-producer ring has at most one producer, likewise
for consumers (`ThreadAssumption`).  That the four indexes are in order is not
inductive: a compare-exchange uses a head and a room that were computed
earlier.  `RingInv` therefore says of every thread inside a call how far the
head it holds is behind (`HeadHeld`), that the claims between a tail and its
head are disjoint ranges (`Claims`), and that a reservation made with the
current head is really there (`Reserved`): the other side can only have made
more room since.  The modulus is removed once, in `CneRingSteps`, by lemmas
on sums and differences of indexes less than one turn apart; the rest argues
about plain numbers.  Exclusive slots follow because disjoint ranges shorter
than the ring do not share a slot.  `RingTailsComing` needs one more invariant,
that the claims cover everything between tail and head.  `RingCountSafe` adds
the observer's two loads and assumes that the caller is alone on its side
(`CallerAssumption`).

`RingRefinesFifo` maps the ring to `RingFifo`: the queue is what lies in the
slots from `cons.head` to `prod.tail`, and a consumer holds what it has copied
followed by what is still in its claimed slots.  `RingInv` says nothing of what
the slots contain, so `Contents` is added: the slots a producer has filled hold
its objects until it publishes them, and outside a claim a consumer holds
nothing.  Two steps carry the argument.  A producer's copy changes one slot of
its own claim, which lies neither between `cons.head` and `prod.tail` nor in
another claim; and the update of `prod.tail` appends exactly the beginning of
the producer's table, because the claim starts where the queue ends.

**Memory pool.**  Assumptions: finite sets of objects and threads, and a ring
with a slot more than there are objects, which is what
`mempool_ring_alloc` asks for.  `Conserved` is not inductive: a
call that has claimed ring entries is about to hand over its table.  `PoolInv`
says what that table holds at each step (`CallOK`), how full a cache may be
before and after the flush (`CacheOK`), and that the entries taken are those
published and those claimed.  The last fact is why the enqueue whose result
`__mempool_generic_put` ignores cannot fail.  `PoolRefines` maps the pool to
`ObjectPool`: free is whatever no thread holds, and every step is a `Get`, a
`Put` or a stutter.

**Threads.**  No assumption but at least one index and disjoint kinds of
threads; any call of libpthread in `FaultSets` may fail.  `RegInv` ties the
per-thread pointer, the entry, the slot of the thread table and the counters
together at every place a thread can be; `Scanned` says that the unlocked scan
of `thread_wait_all` has passed no slot of a thread that was running before
and was not asked to stop.  `Balanced` excludes refused names: that path of
the code keeps the index.

**Message channels.**  `ChanInv` adds to the family what the next name rests on
(`child_count` counts attachments, destroyed children included, and a living
child has an earlier name) and to the handles what a call rests on (with
orderly users every handle leads to a living structure, and a parent on its way
out is the last of its family).

**Packet copy.**  Assumption `Arguments`: a known instruction set, a length and
addresses that are numbers.  The invariant keeps both pointers together, says
that all that lies before them, or that the running loop has moved, is copied,
and bounds at each label how many bytes are left and how many lie before: the
final moves reach back from the end, so they are sound only if enough has been
copied already, and complete only if few enough bytes are left.

All theorems with a temporal part are obtained from `Init => Inv`,
`Inv /\ [Next]_vars => Inv'` and `Inv => Property`, one step of the proof for
each action.  `RingInv` is checked by TLC in run `ring`, as the other
properties the theorems name are in theirs.

### Only model-checked

* **Liveness** (`CreateReturns`, `ExpiredRun`, `BarrierReturns`,
  `JoinReturns`): the prover does not do fairness or ENABLED.
* **`CountsBalance`**: sums over sets of users; the induction behind a fold
  cannot be instantiated.
* Everything about **recursive definitions**: `Fib`, `Acl`, `Cli`, `Memif`,
  `CuckooHash`, `Containers`, `Tcp` and others use recursive operators or compare an
  algorithm with a reference over data.
* `Timers`, the cthread objects and `Tcp`: their invariants are checked by
  TLC; no inductive strengthening has been written for them.

## Findings that a run demonstrates

* **`pktmbuf.h:726`** (`buffer_references`).  "It decreases the reference
  counter, and if it reaches 0 it is freed" (`pktmbuf.h:710`).  The code frees
  when it reads 1 before the decrement, or when `atomic_fetch_add` returns 0;
  but that is the value before the decrement.  Two threads that read 2 and then
  both decrement leave a counter of 0 and free nothing.
* **`cthread_pool.h:192`** (`pool_nodes`).  The header promises that nodes may
  be freed to any pool ("This enables threads that have affined to a different
  scheduler to free nodes safely", `cthread_pool.h:66-68`).  `_pool_remove`
  inserts the stub whenever the last node it sees is not the head.  If another
  scheduler is between the two steps of its insert, a second visit inserts the
  stub while it is still in the list, and nodes are lost or handed out twice.
* **`cthread_mutex.c:115`** (`mutex_owners`).  "A mutex can never be owned  by
  more than one thread simultaneously" (`cthread_api.h:685`).  The retry of the
  exchange compares with the owner that the failed exchange stored; if that
  owner unlocks and locks again in between, the retry takes the mutex from it.
  On one scheduler this cannot happen and `MutexExact` holds.
* **`cnet_tcp.c:2678`** (`tcp_old_ack`).  "If the ACK is a duplicate (SEG.ACK
  =< SND.UNA), ignore it or process as a fast retransmit" (`cnet_tcp.c:2624`).
  An older ACK with another window is processed; the difference is taken
  unsigned and the whole send buffer counts as acknowledged.

## Observed while modelling

What follows was read in the code while it was translated.  No violation run is
about it.  Where the model contains the behaviour, the property says when it
may happen and the rest is claimed without exception; where the model leaves
the inputs out that lead there, it is said here.

**Ring and pool.**  The output parameters `free_space` and `available` are not
modelled.  `cne_ring_count` called by a thread that is neither the only
producer nor the only consumer may be off in both directions (`cne_ring.c:414`);
the size of an exact-size ring of 2^31 or more objects is rounded up to 0
(`cne_ring.c:182`).  The comment at `cne_ring_generic.h:166-169`, that
`free_entries` is always between 0 and capacity, does not hold for a head that
others have moved on meanwhile; the compare-exchange that follows then fails,
which is what `Reserved` is about.
Two `uid` allocations may both pass the check for the last id (`uid.c:214`).

**Threads.**  `cne_unregister` with index -1 is not guarded.  A
`pthread_create` failure is returned as a positive number.  A thread that finds
no index, or whose name is refused, never reaches the barrier its creator waits
at, so `CreateReturns` is about creations with an index left and an accepted
name.  Private data are not modelled.

**Timers.**  The bound check of `tim_thread` admits one value too many
(`cne_timer.c:309`).  Two callbacks that wait for each other's timers with the
synchronous calls never return (`cne_timer.c:377`, a hazard without a property).

**Cthreads.**  Documented and different in the code: the return values at
`cthread_api.h:686` (`cthread_mutex.c:202`), `:1084` (`cthread_sema.c:171`,
`231`), `:1074` (`cthread_sema.c:235`), `:843` (`cthread_cond.c:167`), `:335`
(`cthread_sched.c:527`), `:239` (`cthread_sched.c:538`), `:300`
(`cthread_sched.c:484`).  In particular a timed wait that was signalled gives
its permit back and returns CT_STATE_EXPIRED, so `SemaRight` counts permits
only without timed waits, and on one scheduler, since a signal from another may
come before the deferred write to the queue; that no waiter is out of reach of
a signal and that timed waits end is claimed of all.  A cthread that sleeps and
detaches gets back the state the timer callback copied (`cthread_sched.c:527`),
which `LifeExact` excepts.  `_cthread_queue_remove_given` rotates the queue and
loses a cthread when no node can be allocated.  A failed `cthread_sched_create`
leaves `this_sched` pointing to what it freed, so that the next call returns 0;
`_qnode_pool_destroy` frees only the stub.  `_qnode_alloc` may give NULL
although nodes exist, and the last node never leaves its pool.

**Packet buffers.**  A buffer whose last two references are dropped at once may
be in no pool (see Findings); `BuffersRight` claims that this is the only way
to lose one.  `pktmbuf_free_bulk` starts with the pool of its first buffer
(`pktmbuf.h:811`) and keeps it when that buffer stays shared, so buffers of
another pool go back to the wrong one (`pktmbuf.h:781-785`, against "back into
their original pools", `pktmbuf.h:792`); `BuffersRight` allows it in that case
only.  `cne_get_ptype` never
reports MPLS and stops after five extension headers.  The comment in
`cne_pktcpy.h` that the first 15 bytes are copied before an unaligned copy is
not met when the destination is aligned; the bytes read before the source are
in its own 16-byte line, which is what `CopyExact` says.

**Packet nodes.**  A batch with two next hops makes `ip4_forward` send some
packets out of the wrong port: the speculation is corrected only if all four
packets miss (`ip4_forward.c:161`); packet types that share a byte confuse the
guess of `ptype` (`ptype.c:96`).  All mixes are in the run.  `Ways` lists, for
a packet, the ways that such a confusion with another packet of its walk can
lead to, and `PacketsRight` claims one of them; a packet that can be confused
with none (`Sure`) takes its own way, and only these keep their order.  A port
that is administratively down loses the burst.

**TCP.**  A retransmitted FIN in LAST_ACK, a FIN out of order, and data in
FIN_WAIT are not accepted as the RFC says (`cnet_tcp.c:1380`, `2887-2894`); a
zero-window probe is trimmed (`2385`, excluded by `prompt`); close flushes what
was not read (`1245`).  The reassembly queue is compiled out.

**CNET tables and channels.**  On stop the registered functions run in the
order of start (`cnet_reg.c:60`), so stacks are freed before their users; a
failing stack init blocks the ones behind it (`cnet_stk.c:77`); a route is
deleted by a lookup of its network address (`cnet_route4.c:78-84`), so that a
longer route with that address, or the default route in place of one the full
table had refused, goes in its place.  From then on (`RoutesLost`) the objects
leak or a null pointer is freed, and `CnetRight` claims nothing more of the
routes, but still all of interfaces and ARP entries.  A callback that closes
the channel of the next datagram of its burst makes `chnl_callback.c` follow a
null pointer (`:34`, `:83`); `ClosedUnder` says that only such a callback does.  PCBs never leave their vector, UDP close frees nothing
(`cnet_chnl.h:303`), descriptor 0 cannot connect.

**Lookup structures.**  The default route is never installed in the table data
planes (`dir24_8.c:357`, `trie.c:468`) and is left out of their instances; the
reservation of tbl8 groups can drift (`dir24_8.c:404-417`, `trie.c:553`).  An
empty slot of the key store matches an all-zero key with signature 0
(`cne_cuckoo_hash.c:473`); some error returns keep or release the wrong lock
(`609`, `658`, `1468`, `1490`); extendable buckets leak with deferred frees
(`1274`).  Inverted ranges of an access list are not refused.

**Devices.**  A failed probe of some drivers returns port 0; `pktdev_close_all`
stops at the first unused port; `fq_add` cancels 0 instead of what it reserved
(`xskdev.c:222`).  A socket whose creation fails late, or whose program cannot
be queried, leaves its XDP program on the interface (`xskdev.c:922-941`, the
field `left`).  memif chains one descriptor too many when a ring is almost
full (`pmd_memif_socket.c:674`, `703`) and never clears the NEXT flag (`:677`),
so order is claimed until a chained slot is reused.

**Registry.**  The patterns of a graph name where it starts; `graph.c:93-114`
adds the nodes they lead to.  A graph id is given twice when an older graph is
destroyed (`graph.c:343`, against `cne_graph.h:196`); `RegistryRight` claims
unique ids until then (`gap`).  Adding edges may move a node in memory, and
`cne_graph_destroy` then walks the freed one (`wild` ends the behaviour).  Only
self loops are found.

**Services.**  `uds_destroy` frees an instance whose handlers, for which it
does not wait, go on to read it (`uds.c:486`, `539-548`), and a handler that
found a function under the lock runs it after the group was destroyed (the TODO
at `uds.c:538`).  Both are in the model, and `UdsRight` says that freed memory
is used in no other case.  The handlers of one client share its descriptor and
each closes it; `list_cmd` walks the commands without the lock (not modelled:
a listing changes nothing); two starts may race on `running`.  An event callback that frees user data
runs under the event lock; an interrupt broker may be created twice by a
thread.  A queue range that ends at 65535 never ends (`jcfg_lport_group.c:620`), and a
UMEM without regions crashes the decoder; `JcfgRight` names these documents
(`Endless`, `Crashing`) and claims that no other valid one is refused, crashes
or hangs.  Defaults apply only if they come first in the file.  In the editor
Backspace at the start of a line deletes to the right when the point is behind
the gap (`cli_vt100.c:75-80`); all keys are in the run, and the user's line
that the buffer is compared with deletes there too (`Backspace`).  Blanks
before an alias or before `!` are taken for characters of its name, so that
another line runs (`Meant`); removing the current
directory leaves the cwd pointing to a freed node; setting a variable twice
keeps two of it; a history entry may be freed while still linked.

**Containers.**  `hmap` compares only the length of the searched key, decrements
its count for absent keys, looks for duplicates outside the lock
(`hmap.c:325`), and frees and counts after the unlock (`hmap.c:423-426`).  All
of these are steps of the model.  `HmapRight` claims the contents, lookups and
growth until freed memory is read, a key stored once unless two adds of it
overlap, and an exact count unless the map changed under a deletion.  The
software copy engine stops behind a failed fence without counting it.

**cndpfwd.**  Ports are closed while a worker is inside a burst (`main.c:668`
before `669`); the build of access lists trusts pause flags although a worker
may still be classifying; `hsfwd_finish` frees the Hyperscan database under a
worker (`main.c:757`); without a "main" thread, which the instances have,
workers are released before
initialisation.  `LifeRight` says of each of these what must have happened
first: the worker told to quit, paused, or main out of its loop.

## Not modelled

* Logging, printing, dumps, statistics that only count, checksums, hash
  functions and allocators: no control that a property could be about.
* The assembly of context switches and vector instructions; these are steps and
  moves of so many bytes.
* The kernel, libxdp, json-c, libpthread and peers on sockets are environments,
  modelled from how the code uses them.
* The cthread object cache, `once` and thread-local storage, the locked and
  transactional modes of the hash table, unaligned AF_XDP buffers, the punt
  socket's receive node, the reassembly queue of TCP.
* The insides of Hyperscan and its pattern files, channel callbacks that open
  channels, a command tree whose pool of nodes moves when it grows.
* Examples other than cndpfwd, tools, and the Go and Rust bindings.

Two hazards have no property: a thread that takes the slot of the one that
`thread_stop_running` was meant for (`cne_thread.c:69`; the model has both
steps, and `WaitMeansStopped` exempts whoever was stopped), and callbacks that
wait for each other (`cne_timer.c:377`).  A ring index that goes once around
while a thread is stalled (`cne_ring_generic.h:261`) is excluded by `MaxStall`.
