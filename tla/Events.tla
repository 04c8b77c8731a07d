------------------------------ MODULE Events ------------------------------
(***************************************************************************)
(* What wakes a thread: the event thread and its callbacks                 *)
(* (lib/core/events), the idle manager a polling loop sleeps with          *)
(* (lib/core/idlemgr), and the broker of user interrupts                   *)
(* (lib/usr/slib/ibroker).                                                 *)
(*                                                                         *)
(* The event thread builds a list of descriptors to wait on from the       *)
(* registered sources, waits, and calls the callbacks of a source with the *)
(* lock released; a byte in a pipe makes it build the list again.  The     *)
(* byte is written after the lock is released, so threads that register    *)
(* and unregister, the event thread, and callbacks interleave there.       *)
(* epoll, the pipe and the interrupt table of the kernel are external.     *)
(***************************************************************************)
EXTENDS Integers, Sequences, FiniteSets, SequencesExt

CONSTANTS Apps,         \* threads that call the libraries
          Fds, Cbs,     \* descriptors, callbacks (function and argument)
          TypeOf,       \* the type of a descriptor's handle
          MaxCbs,       \* registrations of a source, a bound of the model
          MaxPipe,      \* bytes in the pipe, a bound of the model
          MgrNames, Mgrs, MaxFds, Timeouts, MaxNow,
          Brokers, BrokerNames, Sids, MaxIntrs,
          EvModes

VARIABLES evmode, ev

Pipe == 0

---------------------------------------------------------------------------
(* Callbacks and their sources (cne_event.c) *)

SrcOf(s, fd) ==
  LET S == {i \in DOMAIN s.srcs : s.srcs[i].fd = fd} IN IF S = {} THEN 0 ELSE CHOOSE i \in S : TRUE

Note(s, a) == [s EXCEPT !.wake = @ \cup {a}]

\* the lock is taken and released; the byte is written later
cne_ev_callback_register(a, fd, type, cb) ==
  LET i == SrcOf(ev, fd)
      new == [cb |-> cb, pending |-> FALSE]
  IN /\ a \notin ev.wake /\ fd \in ev.open
     /\ IF i # 0
        THEN /\ Len(ev.srcs[i].cbs) < MaxCbs
             /\ ev' = [ev EXCEPT !.srcs[i].cbs = Append(@, new)]
        ELSE ev' = Note([ev EXCEPT !.srcs = Append(@, [fd |-> fd, type |-> type, cbs |-> <<new>>,
                                                      active |-> FALSE])], a)

\* Fault: a source in use is taken apart like any other.
UnregisterActive(a, fd, match) ==
  LET i == SrcOf(ev, fd)
      keep == SelectSeq(ev.srcs[i].cbs, LAMBDA c : c.cb \notin match)
  IN /\ a \notin ev.wake /\ i # 0
     /\ ev' = Note(IF keep = <<>> THEN [ev EXCEPT !.srcs = RemoveAt(@, i)]
                   ELSE [ev EXCEPT !.srcs[i].cbs = keep], a)

\* nothing is removed of a source whose callbacks are being called
cne_ev_callback_unregister(a, fd, match) ==
  LET i == SrcOf(ev, fd)
      keep == SelectSeq(ev.srcs[i].cbs, LAMBDA c : c.cb \notin match)
  IN /\ a \notin ev.wake
     /\ i # 0 /\ ~ev.srcs[i].active
     /\ ev' = Note(IF keep = <<>> THEN [ev EXCEPT !.srcs = RemoveAt(@, i)]
                   ELSE [ev EXCEPT !.srcs[i].cbs = keep], a)

cne_ev_callback_unregister_pending(fd, match) ==
  LET i == SrcOf(ev, fd)
  IN /\ i # 0 /\ ev.srcs[i].active
     /\ ev' = [ev EXCEPT !.srcs[i].cbs =
                 [k \in DOMAIN @ |-> IF @[k].cb \in match
                                     THEN [@[k] EXCEPT !.pending = TRUE] ELSE @[k]]]

\* the write that follows the unlock
WakeThread(a) ==
  /\ a \in ev.wake /\ ev.pipe < MaxPipe
  /\ ev' = [ev EXCEPT !.wake = @ \ {a}, !.pipe = @ + 1]

\* ev_thread_main: the descriptors of all sources, under the lock
ev_thread_main ==
  /\ ev.pc = "build"
  /\ ev' = [ev EXCEPT !.pc = "wait", !.watch = {ev.srcs[i].fd : i \in DOMAIN ev.srcs}]

\* ev_handle_event: epoll_wait reports the pipe when it holds a byte and any
\* descriptors that became ready, in any order
ev_handle_event ==
  /\ ev.pc = "wait"
  /\ \E R \in SUBSET ev.watch :
       LET all == R \cup (IF ev.pipe > 0 THEN {Pipe} ELSE {})
       IN /\ all # {}
          /\ \E q \in SetToSeqs(all) : ev' = [ev EXCEPT !.pc = "next", !.q = q, !.call = FALSE]

\* ev_process_event: the next descriptor of the list
ProcessNext ==
  /\ ev.pc = "next"
  /\ IF ev.q = <<>> THEN ev' = [ev EXCEPT !.pc = "wait", !.call = FALSE]
     ELSE IF Head(ev.q) = Pipe THEN ev' = [ev EXCEPT !.pc = "build", !.pipe = 0, !.q = <<>>, !.watch = {}]
     ELSE LET i == SrcOf(ev, Head(ev.q))
          IN ev' = IF i = 0 THEN [ev EXCEPT !.q = Tail(@)]
                   ELSE [ev EXCEPT !.srcs[i].active = TRUE, !.pc = "src", !.cur = Head(ev.q), !.k = 0,
                                   !.call = @ \/ ev.srcs[i].type = "ext"]

\* the callbacks are called one by one, the lock released around each; those
\* registered meanwhile are called too
CallNext ==
  LET i == SrcOf(ev, ev.cur)
  IN /\ ev.pc = "src" /\ i # 0 /\ ev.call /\ ev.k < Len(ev.srcs[i].cbs)
     /\ ev' = [ev EXCEPT !.pc = "call", !.k = @ + 1, !.in = ev.srcs[i].cbs[ev.k + 1].cb]

CallReturns ==
  /\ ev.pc = "call"
  /\ ev' = [ev EXCEPT !.pc = "src", !.in = ""]

\* the source is released, callbacks marked meanwhile go, and the source with
\* the last of them
SourceDone ==
  LET i == SrcOf(ev, ev.cur)
      c == ev.srcs[i].cbs
      keep == SelectSeq(c, LAMBDA x : ~x.pending)
  IN /\ ev.pc = "src" /\ i # 0 /\ (ev.call => ev.k = Len(c))
     /\ Len(keep) < Len(c) => ev.pipe < MaxPipe
     /\ ev' = [(IF keep = <<>> THEN [ev EXCEPT !.srcs = RemoveAt(@, i)]
                ELSE [ev EXCEPT !.srcs[i].cbs = keep, !.srcs[i].active = FALSE])
               EXCEPT !.pc = "next", !.q = Tail(@), !.cur = Pipe, !.k = 0,
                      !.pipe = IF Len(keep) < Len(c) THEN @ + 1 ELSE @]

\* external: a descriptor is closed by its owner once nothing is registered
\* for it, and the number is given out again; epoll forgets a closed one
CloseFd(fd) ==
  /\ fd \in ev.open /\ SrcOf(ev, fd) = 0
  /\ ev' = [ev EXCEPT !.open = @ \ {fd}, !.watch = @ \ {fd}]

OpenFd(fd) == fd \notin ev.open /\ ev' = [ev EXCEPT !.open = @ \cup {fd}]

EventSteps ==
  \/ \E a \in Apps :
       \/ \E fd \in Fds, c \in Cbs : cne_ev_callback_register(a, fd, TypeOf[fd], c)
       \/ \E fd \in Fds, m \in {{c} : c \in Cbs} \cup {Cbs} : cne_ev_callback_unregister(a, fd, m)
       \/ WakeThread(a)
  \/ \E fd \in Fds, m \in {{c} : c \in Cbs} \cup {Cbs} : cne_ev_callback_unregister_pending(fd, m)
  \/ ev_thread_main \/ ev_handle_event \/ ProcessNext \/ CallNext \/ CallReturns \/ SourceDone
  \/ \E fd \in Fds : CloseFd(fd) \/ OpenFd(fd)

---------------------------------------------------------------------------
(* The idle manager (idlemgr.c) *)

NoMgr == [st |-> "none", name |-> "", nb |-> 0, kernel |-> {}, idle |-> 0, stamp |-> 0, since |-> 0, timo |-> 0,
          start |-> 0, stop |-> 0, epoll |-> 0, work |-> 0, timed |-> 0, failed |-> 0, late |-> TRUE]

idlemgr_find_by_name(s, name) == {m \in Mgrs : s.mgr[m].st = "live" /\ s.mgr[m].name = name}

\* the name is looked for, and the list changed in another section
idlemgr_create(m, name, timo) ==
  /\ ev.mgr[m].st = "none" /\ idlemgr_find_by_name(ev, name) = {}
  /\ ev' = [ev EXCEPT !.mgr[m] = [NoMgr EXCEPT !.st = "making", !.name = name, !.idle = timo]]

CreateDone(m) ==
  /\ ev.mgr[m].st = "making"
  /\ ev' = [ev EXCEPT !.mgr[m].st = "live",
                      !.raced = @ \/ idlemgr_find_by_name(ev, ev.mgr[m].name) # {}]

idlemgr_destroy(m) == ev.mgr[m].st = "live" /\ ev' = [ev EXCEPT !.mgr[m] = NoMgr]

idlemgr_set_timeouts(m, t) ==
  /\ ev.mgr[m].st = "live" /\ ev.mgr[m].idle # t
  /\ ev' = [ev EXCEPT !.mgr[m].idle = t]

idlemgr_add(m, fd) ==
  /\ ev.mgr[m].st = "live" /\ fd \in ev.open
  /\ ev.mgr[m].nb < MaxFds /\ fd \notin ev.mgr[m].kernel
  /\ ev' = [ev EXCEPT !.mgr[m].kernel = @ \cup {fd}, !.mgr[m].nb = @ + 1]

idlemgr_del(m, fd) ==
  /\ ev.mgr[m].st = "live" /\ fd \in ev.mgr[m].kernel
  /\ ev' = [ev EXCEPT !.mgr[m].kernel = @ \ {fd}, !.mgr[m].nb = @ - 1]

\* one turn of a polling loop: it was active, or found nothing to do
idlemgr_process(m, active, found) ==
  LET g == ev.mgr[m]
      first == IF g.since = 0 THEN ev.now ELSE g.since
      wait == IF g.nb = 0 THEN "failed" ELSE IF found /\ g.kernel # {} THEN "work" ELSE "timed"
  IN /\ g.st = "live" /\ g.start + g.stop < 3
     /\ ev' = [ev EXCEPT !.mgr[m] =
          IF active
          THEN [g EXCEPT !.stamp = 0, !.since = 0, !.stop = IF g.idle > 0 THEN @ + 1 ELSE @]
          ELSE IF g.idle > 0 /\ g.stamp = 0
          THEN [g EXCEPT !.start = @ + 1, !.stamp = ev.now + g.idle, !.timo = g.idle, !.since = first]
          ELSE IF g.stamp > 0 /\ ev.now > g.stamp
          THEN [g EXCEPT !.epoll = @ + 1, !.stamp = 0, !.since = 0, ![wait] = @ + 1,
                         !.late = g.since > 0 /\ ev.now > g.since + g.timo]
          ELSE [g EXCEPT !.since = first]]

Tick == ev.now < MaxNow /\ ev' = [ev EXCEPT !.now = @ + 1]

\* external: a descriptor closed without idlemgr_del leaves the kernel's list
CloseIdleFd(fd) ==
  /\ fd \in ev.open
  /\ ev' = [ev EXCEPT !.open = @ \ {fd}, !.mgr = [m \in Mgrs |-> [@[m] EXCEPT !.kernel = @ \ {fd}]]]

IdleSteps ==
  \/ \E m \in Mgrs : \/ \E n \in MgrNames, t \in Timeouts : idlemgr_create(m, n, t)
                     \/ CreateDone(m) \/ idlemgr_destroy(m)
  \/ LET m == CHOOSE x \in Mgrs : TRUE   \* managers share nothing but their list
     IN \/ \E t \in Timeouts : idlemgr_set_timeouts(m, t)
        \/ \E fd \in Fds : idlemgr_add(m, fd) \/ idlemgr_del(m, fd)
        \/ \E a, f \in BOOLEAN : idlemgr_process(m, a, f)
  \/ Tick
  \/ \E fd \in Fds : CloseIdleFd(fd)

---------------------------------------------------------------------------
(* Interrupt brokers (ibroker.c); a broker belongs to the thread that made *)
(* it, which makes one and destroys it itself                              *)

NoService == [on |-> FALSE, fd |-> 0, name |-> 0, index |-> 0, reg |-> FALSE]
NoBroker == [name |-> "", tid |-> "", srv |-> [x \in Sids |-> NoService], intrs |-> 0, calls |-> 0,
             invalid |-> 0]

Slots == {b \in Brokers : ev.brk[b].name # ""}

__search_broker(name) == {b \in Slots : ev.brk[b].name = name}

\* a thread whose broker was not found takes the lowest free slot
ibroker_create(t, name) ==
  /\ ev.this[t] = 0 /\ __search_broker(name) = {} /\ Slots # Brokers
  /\ LET b == CHOOSE x \in Brokers \ Slots : \A y \in Brokers \ Slots : x <= y
     IN ev' = [ev EXCEPT !.brk[b] = [NoBroker EXCEPT !.name = name, !.tid = t], !.this[t] = b]

Unsend(uitt, b, x) == [i \in DOMAIN uitt |-> IF uitt[i] = <<b, x>> THEN <<>> ELSE uitt[i]]

\* the senders of every service are unregistered, then the handler
ibroker_destroy(t, b) ==
  /\ b \in Slots /\ ev.this[t] = b
  /\ ev' = [ev EXCEPT !.brk[b] = NoBroker, !.this[t] = 0,
                      !.uitt = [i \in DOMAIN @ |-> IF @[i] # <<>> /\ @[i][1] = b THEN <<>> ELSE @[i]],
                      !.ints = SelectSeq(@, LAMBDA v : v[1] # b)]

ibroker_add_service(b, x, name) ==
  /\ b \in Slots /\ ~ev.brk[b].srv[x].on /\ ev.brk[b].srv[x].fd = 0
  /\ ev' = [ev EXCEPT !.brk[b].srv[x] = [@ EXCEPT !.on = TRUE, !.fd = 1, !.name = name, !.reg = FALSE]]

ibroker_del_service(b, x) ==
  /\ b \in Slots /\ ev.brk[b].srv[x].on
  /\ ev' = [ev EXCEPT !.uitt = Unsend(@, b, x),
                      !.brk[b].srv[x] = [@ EXCEPT !.on = FALSE, !.fd = 0, !.reg = FALSE]]

\* the kernel gives out the lowest free entry of the sender's table
ibroker_register_sender(b, x) ==
  LET free == {i \in DOMAIN ev.uitt : ev.uitt[i] = <<>>}
      i == CHOOSE j \in free : \A k \in free : j <= k
  IN /\ b \in Slots /\ ev.brk[b].srv[x].on /\ free # {} /\ ~ev.brk[b].srv[x].reg
     /\ ev' = [ev EXCEPT !.uitt[i] = <<b, x>>, !.brk[b].srv[x].index = i, !.brk[b].srv[x].reg = TRUE]

\* what is sent goes where the entry points; an index that was never set is
\* the first one
ibroker_send(b, x) ==
  LET s == ev.brk[b].srv[x]
      to == IF s.index = 0 THEN ev.uitt[1] ELSE ev.uitt[s.index]
  IN /\ b \in Slots /\ s.on /\ to # <<>> /\ Len(ev.ints) < MaxIntrs
     /\ ev' = [ev EXCEPT !.ints = Append(@, to), !.sent = [want |-> <<b, x>>, got |-> to, reg |-> s.reg]]

\* the receiving thread is interrupted
uintr_handler ==
  /\ ev.ints # <<>>
  /\ LET b == ev.ints[1][1]
         k == ev.brk[b]
     IN /\ k.intrs < MaxIntrs
        /\ ev' = [ev EXCEPT !.ints = Tail(@),
                            !.brk[b] = IF k.srv[ev.ints[1][2]].on
                                       THEN [k EXCEPT !.intrs = @ + 1, !.calls = @ + 1]
                                       ELSE [k EXCEPT !.intrs = @ + 1, !.invalid = @ + 1]]

ibroker_find_service(b, name) ==
  {x \in Sids : \E k \in Slots : (b = 0 \/ k = b) /\ ev.brk[k].srv[x].on /\ ev.brk[k].srv[x].name = name}

BrokerSteps ==
  \/ \E t \in Apps : \/ \E n \in BrokerNames : ibroker_create(t, n)
                     \/ \E b \in Brokers : ibroker_destroy(t, b)
  \/ \E b \in Brokers, x \in Sids :
       \/ ibroker_add_service(b, x, x) \/ ibroker_del_service(b, x)
       \/ ibroker_register_sender(b, x) \/ ibroker_send(b, x)
  \/ uintr_handler

---------------------------------------------------------------------------
Init ==
  /\ evmode \in EvModes
  /\ ev = [srcs |-> <<>>, wake |-> {}, pipe |-> 0, pc |-> "build", watch |-> {}, q |-> <<>>, call |-> FALSE,
           cur |-> Pipe, k |-> 0, in |-> "", open |-> Fds,
           mgr |-> [m \in Mgrs |-> NoMgr], now |-> 1, raced |-> FALSE,
           brk |-> [b \in Brokers |-> NoBroker], this |-> [t \in Apps |-> 0],
           uitt |-> [i \in 1..2 |-> <<>>], ints |-> <<>>, sent |-> [want |-> <<>>, got |-> <<>>, reg |-> TRUE]]

Next ==
  /\ UNCHANGED evmode
  /\ \/ evmode = "events" /\ EventSteps
     \/ evmode = "idle" /\ IdleSteps
     \/ evmode = "broker" /\ BrokerSteps

---------------------------------------------------------------------------
\* a descriptor has one source, with callbacks; the one being processed stays
\* what it is until it is released
SourcesRight ==
  /\ \A i, j \in DOMAIN ev.srcs : i # j => ev.srcs[i].fd # ev.srcs[j].fd
  /\ \A i \in DOMAIN ev.srcs : ev.srcs[i].cbs # <<>>
       /\ (ev.srcs[i].active <=> ev.pc \in {"src", "call"} /\ ev.cur = ev.srcs[i].fd)
       /\ ((\E k \in DOMAIN ev.srcs[i].cbs : ev.srcs[i].cbs[k].pending) => ev.srcs[i].active)
  /\ ev.pc \in {"src", "call"} => SrcOf(ev, ev.cur) # 0
  /\ ev.pc = "call" => ev.k \in DOMAIN ev.srcs[SrcOf(ev, ev.cur)].cbs
       /\ ev.srcs[SrcOf(ev, ev.cur)].cbs[ev.k].cb = ev.in

\* A callback that is running is registered, whatever other threads
\* unregister meanwhile: an unregister that succeeded is never followed by a
\* call.  When no byte is in the pipe or about to be written, a thread that
\* waits waits for every registered descriptor and for no other.  A manager
\* holds no more descriptors than it may and counts those it holds, sleeps
\* only after a whole idle timeout without activity, and its counters add up;
\* while no two threads make one at the same time a name has one manager.  A
\* broker has one slot and one thread, and an interrupt for a service with a
\* registered sender reaches that service.
EventsRight ==
  /\ SourcesRight
  /\ ev.pc = "wait" /\ ev.pipe = 0 /\ ev.wake = {} =>
       ev.watch = {ev.srcs[i].fd : i \in DOMAIN ev.srcs}
  /\ \A m \in Mgrs :
       LET g == ev.mgr[m]
       IN /\ g.nb <= MaxFds /\ Cardinality(g.kernel) <= g.nb
          /\ g.late
          /\ g.epoll = g.work + g.timed + g.failed
          /\ g.stamp > 0 => g.since > 0
  /\ ~ev.raced => \A n \in MgrNames : Cardinality(idlemgr_find_by_name(ev, n)) <= 1
  /\ \A b \in Slots : /\ ev.brk[b].intrs = ev.brk[b].calls + ev.brk[b].invalid
                      /\ ev.this[ev.brk[b].tid] = b
                      /\ \A c \in Slots : b # c => ev.brk[b].name # ev.brk[c].name
                      /\ \A x \in Sids : ev.brk[b].srv[x].on => x \in ibroker_find_service(b, ev.brk[b].srv[x].name)
                                          /\ (ev.brk[b].srv[x].reg => ev.uitt[ev.brk[b].srv[x].index] = <<b, x>>)
  /\ \A i \in DOMAIN ev.uitt : ev.uitt[i] # <<>> => ev.uitt[i][1] \in Slots
  /\ ev.sent.reg => ev.sent.want = ev.sent.got

===========================================================================
