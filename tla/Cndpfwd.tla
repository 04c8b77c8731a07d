------------------------------ MODULE Cndpfwd ------------------------------
(***************************************************************************)
(* The forwarding example examples/cndpfwd.                                *)
(*   "life"  parse-args.c and main.c: the configuration is processed       *)
(*           object by object, worker threads start, wait at a barrier for *)
(*           main, run bursts on their ports, can be paused over the unix  *)
(*           domain socket, and are stopped and cleaned up by the exit     *)
(*           handler;                                                      *)
(*   "burst" main.c, acl-func.c, l3-fwd.c, hs-fwd.c: the ACL rule table,   *)
(*           its build, and what one burst of a test function does with    *)
(*           each packet it received.                                      *)
(***************************************************************************)
EXTENDS Integers, Sequences, FiniteSets, SequencesExt

CONSTANTS
    FwModes,      \* the parts to explore
    FwConfigs,    \* the parsed configurations of "life"
    Commons,      \* <<a, b>> -> letters the mode names a and b share in front
    Turns,        \* bursts one worker starts at most
    Edits,        \* commands the socket client sends at most
    RuleSz,       \* bytes of one ACL rule
    MaxAclRules,  \* MAX_ACL_RULE_NUM
    InitRules,    \* the rules add_init_rules installs
    RuleTexts,    \* the rule texts a client may send
    Width,        \* bits of an address
    NPorts,       \* lports 0 .. NPorts - 1
    FwBursts,     \* the bursts that may arrive
    FibRules,     \* the l3fwd-fib-rules
    Rooms,        \* lport -> packets it takes at a time, -1: it is down
    TxSize        \* fwd->burst, the size of a txbuff

VARIABLES fwmode, fw

fwvars == <<fwmode, fw>>

Nums == 0 .. NPorts - 1

---------------------------------------------------------------------------
(* Arguments and configuration.                                            *)

\* A mode is given by the first n letters of a known name.
ModeNames == <<"drop", "rx-only", "lb", "loopback", "tx-only", "fwd", "l3fwd",
               "acl-strict", "acl-permissive", "tx-only-rx", "hyperscan", "hs">>

TestOf == [m \in {ModeNames[i] : i \in 1 .. 12} |->
             CASE m = "rx-only" -> "drop" [] m = "loopback" -> "lb"
               [] m = "hs" -> "hyperscan" [] OTHER -> m]

\* strncasecmp(type, name, strlen(type)) = 0
SameStart(type, name) == type.n <= Commons[type.of, name]

\* The first name that starts like the text; n < 0 stands for no text at all.
get_app_mode(type) ==
    LET same == {i \in 1 .. 12 : SameStart(type, ModeNames[i])}
    IN  IF type.n < 0 \/ same = {} THEN "unknown"
        ELSE TestOf[ModeNames[CHOOSE i \in same : \A j \in same : i <= j]]

\* The order in which jcfg_process hands the objects to process_callback.
Objects(c) ==
    <<[kind |-> "mode", no |-> 0], [kind |-> "umem", no |-> 0]>>
      \o [i \in 1 .. Len(c.lports) |-> [kind |-> "lport", no |-> i]]
      \o [i \in 1 .. Len(c.thds) |-> [kind |-> "thread", no |-> i]]

Thread == [pc |-> "none", quit |-> "run", pause |-> FALSE, turn |-> 1, did |-> 0,
           txb |-> FALSE, arg |-> FALSE, fresh |-> TRUE]

Total(s) == FoldLeft(LAMBDA a, b : a + b, 0, s)

Fail(f) == [f EXCEPT !.main = "error"]

\* One object of the configuration each; ok tells whether the library calls succeed.
UmemObject(f, ok) ==
    IF ~ok \/ Total(f.cfg.regions) # f.cfg.bufcnt THEN Fail(f) ELSE [f EXCEPT !.pool = "live"]

LportObject(f, no, ok) ==
    LET p == f.cfg.lports[no]
    IN  IF ~ok \/ p.region >= Len(f.cfg.regions) \/ (p.unpriv /\ ~f.cfg.uds) THEN Fail(f)
        ELSE [f EXCEPT !.port[no] = "open"]

ThreadObject(f, no, ok) ==
    LET type == f.cfg.thds[no].type
    IN  IF type = "main" THEN f
        ELSE IF type # "fwd" \/ f.test = "unknown" \/ ~ok THEN Fail(f)
        ELSE [f EXCEPT !.thd[no].pc = "start", !.thd[no].arg = TRUE]

process_callback(f, o, ok) ==
    CASE o.kind = "mode" -> [f EXCEPT !.test = IF @ = "unknown" THEN get_app_mode(f.cfg.json) ELSE @]
      [] o.kind = "umem" -> UmemObject(f, ok)
      [] o.kind = "lport" -> LportObject(f, o.no, ok)
      [] o.kind = "thread" -> ThreadObject(f, o.no, ok)

LifeStart(c) ==
    [cfg |-> c, todo |-> Objects(c), main |-> "process", at |-> 0, waits |-> 0,
     test |-> get_app_mode(c.arg), pool |-> "none",
     port |-> [i \in 1 .. Len(c.lports) |-> "none"],
     thd |-> [i \in 1 .. Len(c.thds) |-> Thread],
     arrived |-> 0, ready |-> FALSE, ctx |-> "none", late |-> FALSE, edits |-> 0, uds |-> "idle",
     restarted |-> FALSE]

AclTest(f) == f.test \in {"acl-strict", "acl-permissive"}
HsTest(f) == f.test = "hyperscan"
Buffered(f) == AclTest(f) \/ f.test \in {"fwd", "l3fwd", "hyperscan"}

---------------------------------------------------------------------------
(* The main thread.                                                        *)

\* parse_args: the objects one by one, then the defaults.
Process ==
    /\ fw.main = "process"
    /\ \E ok \in BOOLEAN :
         IF fw.todo = <<>>
         THEN /\ ok
              /\ fw' = [fw EXCEPT !.main = "init", !.test = IF @ = "unknown" THEN "drop" ELSE @]
         ELSE fw' = [process_callback(fw, Head(fw.todo), ok) EXCEPT !.todo = Tail(@)]

\* acl_init (which waits for the mutex of /build), l3fwd_fib_init or hsfwd_init, by test.
MainInit ==
    /\ fw.main = "init" /\ fw.uds # "build"
    /\ \/ fw' = [fw EXCEPT !.main = "barrier", !.ready = TRUE,
                           !.ctx = IF AclTest(fw) \/ HsTest(fw) THEN "built" ELSE @]
       \/ /\ Buffered(fw) /\ fw.test # "fwd"
          /\ fw' = [fw EXCEPT !.main = "error", !.ctx = IF AclTest(fw) THEN "unbuilt" ELSE @]

\* The database of Hyperscan is freed, and its pointer cleared.
hsfwd_finish(f) == [f EXCEPT !.ctx = IF HsTest(f) THEN "gone" ELSE @]

\* Waiters of an incomplete round keep pthread_barrier_destroy from returning.
MainError ==
    /\ fw.main = "error"
    /\ \A i \in DOMAIN fw.thd : fw.thd[i].pc # "wait"
    /\ fw' = [hsfwd_finish(fw) EXCEPT !.main = "ended"]

\* pthread_barrier_wait: the count is the number of configured threads.
Released == fw.arrived >= Len(fw.thd)

MainBarrier ==
    \/ /\ fw.main = "barrier"
       /\ fw' = [fw EXCEPT !.main = "wait", !.arrived = @ + 1]
    \/ /\ fw.main = "wait" /\ Released
       /\ fw' = [fw EXCEPT !.main = "loop"]

\* A key, or a signal that made the handler set timer_quit, ends main's loop.  The
\* exit handler comes after hsfwd_finish: the workers are not yet told to quit.
MainLeave ==
    \/ /\ fw.main = "loop"
       /\ fw' = [hsfwd_finish(fw) EXCEPT !.main = "exit"]
    \/ /\ fw.main = "exit"
       /\ fw' = [fw EXCEPT !.main = "quit", !.at = 1]

\* The next thread of a jcfg_thread_foreach of the exit handler.
NextThread(f, after) ==
    IF f.at = Len(f.thd) THEN [f EXCEPT !.main = after, !.at = 1] ELSE [f EXCEPT !.at = @ + 1]

_thread_quit ==
    /\ fw.main = "quit"
    /\ fw' = NextThread([fw EXCEPT !.thd[fw.at].quit = "quit"], "close")

_thread_port_close ==
    /\ fw.main = "close"
    /\ fw' = NextThread([fw EXCEPT !.port = [p \in DOMAIN @ |->
                            IF p \in Range(fw.cfg.thds[fw.at].ports) THEN "closed" ELSE @[p]]],
                        "check")

\* A bug that goes on without waiting for the worker.
CheckNothing ==
    /\ fw.main = "check"
    /\ fw' = NextThread(fw, "cleanup")

\* Waits for THD_DONE; the first thread of the configuration is not waited for, and
\* a worker that is not done after TIMEOUT_VALUE turns ends the loop over the threads.
_check_thread_quit ==
    /\ fw.main = "check"
    /\ \/ /\ fw.at = 1 \/ fw.thd[fw.at].quit = "done"
          /\ fw' = NextThread(fw, "cleanup")
       \/ /\ fw.at > 1 /\ fw.thd[fw.at].quit # "done"
          /\ fw' = [fw EXCEPT !.main = "cleanup", !.at = 1, !.late = TRUE]

\* The pools of the umem behind the thread's ports are destroyed and it is unmapped.
_thread_cleanup ==
    /\ fw.main = "cleanup"
    /\ fw' = NextThread([fw EXCEPT !.pool = IF fw.cfg.thds[fw.at].ports = <<>> THEN @ ELSE "gone"],
                        "ended")

\* thread_foreach calls in this order; then the sockets are closed and the process ends.
__on_exit == _thread_quit \/ _thread_port_close \/ _check_thread_quit \/ _thread_cleanup

---------------------------------------------------------------------------
(* A worker.                                                               *)

Alive == fw.main # "ended"

\* The pool and the ports are there.
Whole(f) == f.pool = "live" /\ \A p \in DOMAIN f.port : f.port[p] = "open"

Arrive(i) ==
    /\ fw.thd[i].pc = "start"
    /\ fw' = [fw EXCEPT !.thd[i].pc = "wait", !.arrived = @ + 1]

\* Past the barrier: the txbuffs for all lports.
Enter(i) ==
    /\ fw.thd[i].pc = "wait" /\ Released
    /\ fw' = IF fw.cfg.thds[i].ports = <<>> THEN [fw EXCEPT !.thd[i].pc = "park"]
             ELSE [fw EXCEPT !.thd[i].pc = "loop", !.thd[i].txb = Buffered(fw)]

NextTurn(t, c) == (t % Len(c.ports)) + 1

\* The quit and pause flags are read, then the test function is called.
Look(i) ==
    LET t == fw.thd[i]
    IN  /\ t.pc = "loop"
        /\ fw' = CASE t.quit = "quit" -> [fw EXCEPT !.thd[i].pc = "leave"]
                   [] t.quit # "quit" /\ t.pause ->
                        [fw EXCEPT !.thd[i].turn = NextTurn(@, fw.cfg.thds[i])]
                   [] OTHER -> [fw EXCEPT !.thd[i].pc = "rx", !.thd[i].did = @ + 1,
                                          !.thd[i].fresh = Whole(fw) /\ fw.ready]
        /\ t.quit # "quit" /\ ~t.pause => t.did < Turns

\* A burst: receive, classify in the ACL modes, transmit; a port that is down or a
\* failed scan makes the test function return a negative value.
Burst(i) ==
    LET t == fw.thd[i]
        next == [fw EXCEPT !.thd[i].pc = "loop", !.thd[i].turn = NextTurn(@, fw.cfg.thds[i])]
    IN  \/ /\ t.pc = "rx"
           /\ fw' = [fw EXCEPT !.thd[i].pc = IF AclTest(fw) THEN "classify" ELSE "tx"]
        \/ t.pc = "rx" /\ fw.test # "tx-only" /\ fw' = IF AclTest(fw) THEN next
                                                       ELSE [fw EXCEPT !.thd[i].pc = "leave"]
        \/ t.pc = "classify" /\ fw' = [fw EXCEPT !.thd[i].pc = "tx"]
        \/ t.pc = "tx" /\ fw' = next

\* The txbuffs are freed, then the worker waits to be told to quit.
Leave(i) ==
    \/ /\ fw.thd[i].pc = "leave"
       /\ fw' = [fw EXCEPT !.thd[i].pc = "park", !.thd[i].txb = FALSE]
    \/ /\ fw.thd[i].pc = "park" /\ fw.thd[i].quit = "quit"
       /\ fw' = [fw EXCEPT !.thd[i].pc = "done", !.thd[i].arg = FALSE, !.thd[i].quit = "done"]

thread_func(i) == Arrive(i) \/ Enter(i) \/ Look(i) \/ Burst(i) \/ Leave(i)

---------------------------------------------------------------------------
(* Commands over the socket, from clients that do not wait for each other. *)

\* /stop and /start, for one worker or for all; main is left alone.  restarted is
\* history: a worker was started after /build had found it paused.
fwd_thread_ctl ==
    /\ fw.edits < Edits
    /\ \E p \in BOOLEAN, who \in SUBSET DOMAIN fw.thd :
         /\ Cardinality(who) = 1 \/ who = DOMAIN fw.thd
         /\ fw' = [fw EXCEPT !.edits = @ + 1, !.restarted = @ \/ (~p /\ fw.uds # "idle"),
                     !.thd = [i \in DOMAIN @ |->
                        IF i \in who /\ fw.cfg.thds[i].type # "main" THEN [@[i] EXCEPT !.pause = p]
                        ELSE @[i]]]

all_threads_stopped ==
    \A i \in DOMAIN fw.thd : fw.cfg.thds[i].type = "main" \/ fw.thd[i].pause

\* /build: refused unless every worker's pause flag is set; then, with the mutex, the
\* context is freed, a new one is created, filled and built.
fwd_acl_build ==
    /\ AclTest(fw)
    /\ \/ /\ fw.uds = "idle" /\ fw.edits < Edits
          /\ fw' = [fw EXCEPT !.edits = @ + 1,
                      !.uds = IF all_threads_stopped THEN "checked" ELSE "idle"]
       \/ /\ fw.uds = "checked"
          /\ fw' = [fw EXCEPT !.uds = "build", !.ctx = "freed"]
       \/ /\ fw.uds = "build"
          /\ \E built \in BOOLEAN :
               fw' = [fw EXCEPT !.uds = "idle", !.ctx = IF built THEN "built" ELSE "unbuilt"]

LifeNext ==
    /\ fwmode = "life" /\ Alive
    /\ \/ Process \/ MainInit \/ MainError \/ MainBarrier \/ MainLeave \/ __on_exit
       \/ \E i \in DOMAIN fw.thd : thread_func(i)
       \/ fw.main \notin {"process", "error"} /\ (fwd_thread_ctl \/ fwd_acl_build)
    /\ UNCHANGED fwmode

InBurst(i) == fw.thd[i].pc \in {"rx", "classify", "tx"}

\* Threads, configuration and shutdown fit together.  No worker runs before main has
\* initialised the tables, and every burst begins with its ports and pool in place.  What
\* goes while a burst is running: its ports only when its worker has been told to quit;
\* the pool only when main gave up waiting for a worker (or the worker is the first of the
\* configuration, for which main never waits); the ACL context only when its worker has
\* been paused, unless a client starts workers again during a /build; the Hyperscan
\* database only when main has left its loop.  A worker that is done has given back its
\* buffers and its argument; every worker runs the test that was named on the command
\* line, or else in the configuration.
LifeRight ==
    fwmode = "life" =>
    /\ \A i \in DOMAIN fw.thd :
         LET t == fw.thd[i]
         IN  /\ InBurst(i) => fw.ready /\ t.fresh
             /\ InBurst(i) /\ i > 1 /\ ~fw.late => fw.pool = "live"
             /\ InBurst(i) /\ ~Whole(fw) => t.quit = "quit"
             /\ InBurst(i) /\ AclTest(fw) /\ fw.ctx \notin {"built", "unbuilt"} => t.pause \/ fw.restarted
             /\ InBurst(i) /\ HsTest(fw) /\ fw.main \in {"wait", "loop"} => fw.ctx = "built"
             /\ t.quit = "done" => ~t.txb /\ ~t.arg
             /\ t.pc \in {"loop", "rx", "tx"} => t.txb = Buffered(fw)
             /\ t.pc # "none" => fw.test = (IF fw.cfg.arg.n >= 0 THEN TestOf[fw.cfg.arg.of]
                                           ELSE TestOf[fw.cfg.json.of])
    /\ fw.main = "ended" /\ fw.pool = "gone" /\ ~fw.late =>
         \A i \in 2 .. Len(fw.thd) : fw.cfg.thds[i].type = "fwd" => fw.thd[i].pc = "done"

---------------------------------------------------------------------------
(* The ACL rule table: an array of sz rules, as far as the code knows, in   *)
(* memory for cap rules; want is what the client added since the last       *)
(* clear.                                                                   *)

Pow2(n) == CHOOSE k \in {2^e : e \in 0 .. 6} : k >= n /\ (k = 1 \/ k < 2 * n)

\* realloc to newSz rules; sz then holds the length in bytes.
acl_tbl_resize(f, newSz) ==
    IF newSz <= f.sz THEN f ELSE [f EXCEPT !.cap = newSz, !.sz = RuleSz * newSz]

\* [ok, f]: room for n rules, in powers of two up to the limit.
acl_tbl_ensure_capacity(f, n) ==
    LET k == Pow2(n)
        newSz == IF k < MaxAclRules THEN k ELSE MaxAclRules
    IN  CASE n <= f.sz -> [ok |-> TRUE, f |-> f]
          [] n > f.sz /\ newSz < n -> [ok |-> FALSE, f |-> f]
          [] OTHER -> [ok |-> TRUE, f |-> acl_tbl_resize(f, newSz)]

\* A write outside the memory of the table is noted in over.
acl_tbl_add_rule(f, rule) ==
    IF f.len >= f.cap THEN [f EXCEPT !.over = TRUE]
    ELSE [f EXCEPT !.rules = [i \in 1 .. IF f.len < Len(@) THEN Len(@) ELSE f.len + 1 |->
                                IF i = f.len + 1 THEN rule ELSE @[i]],
                   !.len = @ + 1, !.want = Append(@, rule)]

\* The initial rules, then the context is built.
acl_init(test, lport) ==
    LET f0 == [test |-> test, lport |-> lport, len |-> 0, sz |-> 0, cap |-> 0, rules |-> <<>>,
               want |-> <<>>, over |-> FALSE, new |-> -1, ctx |-> InitRules, built |-> InitRules,
               edits |-> 0, seen |-> <<>>, last |-> <<>>]
    IN  FoldLeft(acl_tbl_add_rule, acl_tbl_ensure_capacity(f0, Len(InitRules)).f, InitRules)

\* What parse_acl_rule makes of a text: inet_aton's 0 for a bad address is taken for
\* success, so the address is whatever the stack held.
parse_acl_rule(txt) ==
    IF txt.srcLen \notin 0 .. Width \/ txt.dstLen \notin 0 .. Width THEN {}
    ELSE {[txt EXCEPT !.src = s, !.dst = d] :
             s \in (IF txt.src < 0 THEN 0 .. 2^Width - 1 ELSE {txt.src}),
             d \in (IF txt.dst < 0 THEN 0 .. 2^Width - 1 ELSE {txt.dst})}

\* /add: the length is read first, then the rule is appended under the mutex.
fwd_acl_add_rule ==
    \/ /\ fw.new < 0 /\ fw.edits < Edits
       /\ fw' = [fw EXCEPT !.new = fw.len, !.edits = @ + 1]
    \/ /\ fw.new >= 0
       /\ \E txt \in RuleTexts : \E rule \in parse_acl_rule(txt) :
            LET r == acl_tbl_ensure_capacity(fw, fw.new)
                g == IF r.ok THEN acl_tbl_add_rule(r.f, rule) ELSE fw
            IN  fw' = [g EXCEPT !.new = -1]

\* /clear empties the table only; it may come from a second client.
fwd_acl_clear ==
    /\ fw.edits < Edits
    /\ fw' = [fw EXCEPT !.len = 0, !.want = <<>>, !.edits = @ + 1]

\* /build, while no burst is running: the context gets the len rules of the table.
RebuildContext ==
    /\ fw.edits < Edits
    /\ fw' = [fw EXCEPT !.ctx = SubSeq(fw.rules, 1, fw.len), !.built = fw.want,
                        !.edits = @ + 1]

\* A page of two rules, or one rule; <<>> stands for the error answer.
ReadRules(f, page, num) ==
    CASE page /\ num >= (f.len \div 2) + (f.len % 2) -> <<>>
      [] ~page /\ num >= f.len -> <<>>
      [] page -> SubSeq(f.rules, 2 * num + 1, IF 2 * num + 2 < f.len THEN 2 * num + 2 ELSE f.len)
      [] OTHER -> <<f.rules[num + 1]>>

fwd_acl_read ==
    \E page \in BOOLEAN, num \in 0 .. 2 :
        fw' = [fw EXCEPT !.seen = ReadRules(fw, page, num), !.last = <<"read", page, num>>]

---------------------------------------------------------------------------
(* One burst of a test function.                                           *)

Prefix(a, n) == a \div 2^(Width - n)
Matches(rule, pkt) ==
    /\ Prefix(rule.src, rule.srcLen) = Prefix(pkt.src, rule.srcLen)
    /\ Prefix(rule.dst, rule.dstLen) = Prefix(pkt.dst, rule.dstLen)

\* Priority falls with the index; userdata is the index plus 1, or the deny signature.
cne_acl_classify(ctx, pkt) ==
    LET hit == {i \in DOMAIN ctx : Matches(ctx[i], pkt)}
    IN  IF hit = {} THEN "none"
        ELSE IF ctx[CHOOSE i \in hit : \A j \in hit : i <= j].deny THEN "deny" ELSE "permit"

\* The lport of the longest matching entry; the default next hop has port 0.
l3fwd_fib_lookup(pkt) ==
    LET hit == {r \in FibRules : Prefix(r.ip, r.len) = Prefix(pkt.dst, r.len)}
    IN  IF hit = {} THEN 0 ELSE (CHOOSE r \in hit : \A q \in hit : q.len <= r.len).port

\* hsfwd_handler keeps the id of the last match; no match leaves the drop bit.
hs_scan(pkt) == IF pkt.hs = <<>> THEN -1 ELSE Last(pkt.hs)

\* A port that does not exist: echo on the incoming interface.
OrEcho(port, in) == IF port \in Nums THEN port ELSE in

\* Loopback and transmit-only send straight from their array, without a txbuff.
Straight(f) == f.test \in {"lb", "tx-only"}

\* Where a test function sends a packet; -1: freed, -2: freed by the prefilter.
Target(f, pkt) ==
    CASE f.test = "drop" -> -1
      [] Straight(f) -> f.lport
      [] f.test = "fwd" -> OrEcho(pkt.mac, f.lport)
      [] f.test = "l3fwd" -> OrEcho(l3fwd_fib_lookup(pkt), f.lport)
      [] f.test = "hyperscan" -> IF hs_scan(pkt) < 0 THEN -1 ELSE OrEcho(hs_scan(pkt), f.lport)
      [] f.test \in {"acl-strict", "acl-permissive"} ->
           LET res == cne_acl_classify(f.ctx, pkt)
           IN  IF ~pkt.valid THEN -2
               ELSE IF res = "permit" \/ (res = "none" /\ f.test = "acl-permissive")
               THEN OrEcho(pkt.mac, f.lport) ELSE -1

NoOutcome == [buf |-> [p \in Nums |-> <<>>], sent |-> [p \in Nums |-> <<>>],
              over |-> <<>>, freed |-> <<>>, lost |-> <<>>, pre |-> 0, permit |-> 0, deny |-> 0]

\* txbuff_flush: the port takes at most room[p] packets and the rest is freed and
\* counted; a port that is down (room -1) takes none and they are lost.
txbuff_flush(o, p, room) ==
    LET n == IF room[p] < Len(o.buf[p]) THEN room[p] ELSE Len(o.buf[p])
    IN  IF room[p] < 0 THEN [o EXCEPT !.buf[p] = <<>>, !.lost = @ \o o.buf[p]]
        ELSE [o EXCEPT !.buf[p] = <<>>, !.sent[p] = @ \o SubSeq(o.buf[p], 1, n),
                       !.over = @ \o SubSeq(o.buf[p], n + 1, Len(o.buf[p]))]

txbuff_add(o, p, k, room) ==
    LET q == [o EXCEPT !.buf[p] = Append(@, k)]
    IN  IF Len(q.buf[p]) < TxSize THEN q ELSE txbuff_flush(q, p, room)

\* The burst: each packet is freed or buffered for its port, then all ports are flushed.
\* __tx_flush goes on until the port took all or is down.
RunBurst(f, pkts, room) ==
    LET Place(o, k) ==
            LET t == Target(f, pkts[k])
            IN  CASE t = -2 -> [o EXCEPT !.freed = Append(@, k), !.pre = @ + 1]
                  [] t = -1 -> [o EXCEPT !.freed = Append(@, k), !.deny = @ + 1]
                  [] Straight(f) ->
                       IF room[t] < 0 THEN [o EXCEPT !.lost = Append(@, k)]
                       ELSE [o EXCEPT !.sent[t] = Append(@, k)]
                  [] OTHER -> txbuff_add([o EXCEPT !.permit = @ + 1], t, k, room)
        placed == FoldLeft(Place, NoOutcome, [k \in DOMAIN pkts |-> k])
    IN  FoldLeft(LAMBDA o, p : txbuff_flush(o, p, room), placed, [k \in 1 .. NPorts |-> k - 1])

\* hs_scan fails at packet k: the packets from k on are neither sent nor freed.
ScanFails(f, pkts, k, room) ==
    LET o == RunBurst(f, SubSeq(pkts, 1, k - 1), room)
    IN  [o EXCEPT !.lost = @ \o [i \in 1 .. Len(pkts) - k + 1 |-> k + i - 1]]

OneBurst ==
    \E pkts \in FwBursts, room \in Rooms :
        LET all == RunBurst(fw, pkts, room)
        IN  /\ \E o \in {all} \cup (IF fw.test = "hyperscan" /\ pkts # <<>>
                                    THEN {ScanFails(fw, pkts, Len(pkts), room)} ELSE {}) :
                 fw' = [fw EXCEPT !.last = <<"burst", pkts, room, o>>]

\* The outcome of a burst or of a read is dropped before the next step.
Forget ==
    /\ fw.last # <<>>
    /\ fw' = [fw EXCEPT !.last = <<>>, !.seen = <<>>]

\* The commands on the rules are registered in the ACL modes only.
BurstNext ==
    /\ fwmode = "burst" /\ ~fw.over
    /\ \/ Forget
       \/ fw.last = <<>> /\ OneBurst
       \/ /\ fw.last = <<>> /\ fw.test \in {"acl-strict", "acl-permissive"}
          /\ fwd_acl_add_rule \/ fwd_acl_clear \/ RebuildContext \/ fwd_acl_read
    /\ UNCHANGED fwmode

\* What the modes promise, from the rules as the client sent them: the first of the rules
\* that were in the table at the last build decides; a packet nothing matches passes only
\* in permissive mode.
Verdict(pkt) ==
    LET hit == SelectSeq(fw.built, LAMBDA r : Matches(r, pkt))
    IN  /\ pkt.valid
        /\ IF hit = <<>> THEN fw.test = "acl-permissive" ELSE ~hit[1].deny

Goes(pkt) ==
    CASE fw.test = "drop" -> -1
      [] Straight(fw) -> fw.lport
      [] fw.test = "l3fwd" -> OrEcho(l3fwd_fib_lookup(pkt), fw.lport)
      [] fw.test = "hyperscan" -> IF hs_scan(pkt) < 0 THEN -1 ELSE OrEcho(hs_scan(pkt), fw.lport)
      [] fw.test = "fwd" \/ Verdict(pkt) -> OrEcho(pkt.mac, fw.lport)
      [] OTHER -> -1

\* Packets and rules are neither lost nor invented: up to a rule written outside the
\* table's memory, the table holds the rules added since the last clear in their order and
\* a reader is shown exactly the page it asked for; every packet of a burst ends in exactly
\* one place, packets leave a port in the order of their arrival and only through the port
\* the mode chooses for them, packets are lost only when a port is down or a scan fails, and
\* the ACL counters add up to the packets received.
BurstRight ==
    fwmode = "burst" /\ ~fw.over =>
    /\ SubSeq(fw.rules, 1, fw.len) = fw.want
    /\ fw.last # <<>> /\ fw.last[1] = "read" =>
         LET num == fw.last[3]
             page == IF fw.last[2] THEN {2 * num + 1, 2 * num + 2} ELSE {num + 1}
         IN  /\ Len(fw.seen) = Cardinality(page \cap DOMAIN fw.want)
             /\ \A i \in DOMAIN fw.seen : fw.seen[i] = fw.want[(IF fw.last[2] THEN 2 * num ELSE num) + i]
    /\ fw.last # <<>> /\ fw.last[1] = "burst" =>
         LET pkts == fw.last[2]
             room == fw.last[3]
             o    == fw.last[4]
             ends == o.over \o o.freed \o o.lost \o FoldLeft(LAMBDA a, p : a \o o.sent[p - 1], <<>>,
                                                            [p \in 1 .. NPorts |-> p])
         IN  /\ Len(ends) = Len(pkts) /\ Range(ends) = DOMAIN pkts
             /\ \A p \in Nums : o.buf[p] = <<>> /\ \A i \in DOMAIN o.sent[p] :
                  /\ Goes(pkts[o.sent[p][i]]) = p
                  /\ i > 1 => o.sent[p][i - 1] < o.sent[p][i]
             /\ \A k \in Range(o.freed) : Goes(pkts[k]) = -1
             /\ \A k \in Range(o.over) : Goes(pkts[k]) >= 0
             /\ \A k \in Range(o.lost) : fw.test = "hyperscan" \/ room[Goes(pkts[k])] < 0
             /\ fw.test \in {"acl-strict", "acl-permissive"} =>
                  /\ o.pre + o.permit + o.deny = Len(pkts)
                  /\ o.permit = Cardinality({k \in DOMAIN pkts : Verdict(pkts[k])})

---------------------------------------------------------------------------

FwInit ==
    /\ fwmode \in FwModes
    /\ \/ fwmode = "life" /\ fw \in {LifeStart(c) : c \in FwConfigs}
       \/ /\ fwmode = "burst"
          /\ \E t \in {"drop", "lb", "tx-only", "fwd", "l3fwd", "hyperscan",
                    "acl-strict", "acl-permissive"},
                p \in Nums : fw = acl_init(t, p)

FwNext == LifeNext \/ BurstNext

FwSpec == FwInit /\ [][FwNext]_fwvars

\* The forwarding example does what its modes promise, from its configuration to its exit.
CndpfwdRight == LifeRight /\ BurstRight

============================================================================
