-------------------------------- MODULE Uds --------------------------------
(***************************************************************************)
(* Local control sockets: the command registry and server of               *)
(* lib/common/uds, the client that shakes hands with a device plugin       *)
(* (lib/common/uds_connect), the metrics group an application registers    *)
(* (lib/usr/app/metrics), and the stream sockets of lib/usr/slib/csock.    *)
(*                                                                         *)
(* An instance has a thread: socket_listener accepts connections of a      *)
(* server, socket_client waits for input of a client.  Both start a        *)
(* client_handler thread per connection, or per input seen, that looks a   *)
(* command up under the read lock and calls its function after the lock    *)
(* is released.  The application thread creates, registers and destroys.   *)
(*                                                                         *)
(* A command path is a sequence of names; the name of the root group is    *)
(* "".  Output is counted in tokens.  What a peer sends is external.       *)
(***************************************************************************)
EXTENDS Integers, Sequences, FiniteSets, SequencesExt

CONSTANTS Infos,       \* the instances an application may make
          Names,       \* names of user groups
          Paths,       \* command paths that are registered or asked for
          Fns,         \* user functions: [fn |-> {"ok","error","quiet"}, out |-> tokens]
          Handlers,    \* client_handler threads alive at a time
          Extra,       \* UDS_EXTRA_SPACE
          MaxBuf,      \* UDS_MAX_BUF_LEN
          MaxTries,    \* MAX_NUM_TRIES
          MaxIds, MaxCmds, MaxAsked, MaxFaults,  \* bounds of the model
          Socks, Fds,  \* csock_t structures and descriptors
          UdsModes

VARIABLES umode, uds

NoInfo == [st |-> "none", kind |-> "", running |-> 0, thr |-> "none", hs |-> "START",
           open |-> FALSE, inbox |-> <<>>, told |-> {}]

NoHandler == [pc |-> "off", info |-> 0, fn |-> "", grp |-> 0, path |-> <<>>, buf |-> <<>>,
              cap |-> 0, failed |-> FALSE]

NoApp == [pc |-> "idle", info |-> 0, tries |-> 0, rc |-> ""]

\* Builtin functions and the ones of uds_connect.c
Builtin == [list_cmd |-> [ret |-> "ok", out |-> 2], info_cmd |-> [ret |-> "ok", out |-> 3],
            invalid_cmd |-> [ret |-> "ok", out |-> 1]]

StateFns == [set_host_ok |-> "HOST_OK", set_host_nak |-> "HOST_NAK", fd_ack |-> "GOT_FD",
             fd_nak |-> "FD_NAK", fin_ack |-> "FIN", config_busy_poll_ack |-> "BUSY_POLL_ACK",
             config_busy_poll_nak |-> "BUSY_POLL_NAK"]

Answers == << <<"/host_ok", "set_host_ok">>, <<"/fd_ack", "fd_ack">>, <<"/fd_nak", "fd_nak">>,
              <<"/fin_ack", "fin_ack">>, <<"/host_nak", "set_host_nak">>,
              <<"/config_busy_poll_ack", "config_busy_poll_ack">>,
              <<"/config_busy_poll_nak", "config_busy_poll_nak">> >>

FnOf(f) ==
  CASE f \in DOMAIN Builtin -> Builtin[f]
    [] f \in DOMAIN StateFns -> [ret |-> "quiet", out |-> 0]
    [] OTHER -> Fns[f]

---------------------------------------------------------------------------
(* The lists of groups and commands, kept under one lock *)

find_group_by_name(s, info, name) ==
  LET S == {i \in DOMAIN s.groups : s.groups[i].info = info /\ s.groups[i].name = name}
  IN IF S = {} THEN 0 ELSE s.groups[CHOOSE i \in S : TRUE].id

find_group_by_handle(s, g) == \E i \in DOMAIN s.groups : s.groups[i].id = g

IsRoot(s, g) == \E i \in DOMAIN s.groups : s.groups[i].id = g /\ s.groups[i].name = ""

get_group_name(path) == IF Len(path) > 1 THEN path[1] ELSE ""

find_group_by_cmd(s, info, path) == find_group_by_name(s, info, get_group_name(path))

find_command(s, path, g) ==
  LET S == {i \in DOMAIN s.cmds : s.cmds[i].ge = g /\ s.cmds[i].cmd = path}
  IN IF S = {} THEN 0 ELSE CHOOSE i \in S : TRUE

create_group(s, info, name) ==
  [s EXCEPT !.groups = Append(@, [id |-> s.next, info |-> info, name |-> name]), !.next = @ + 1]

create_command(s, path, g, f) == [s EXCEPT !.cmds = Append(@, [ge |-> g, cmd |-> path, fn |-> f])]

uds_create_group(s, info, name) ==
  IF find_group_by_name(s, info, name) # 0 THEN s ELSE create_group(s, info, name)

\* Fault: the name of a command is not compared.
RegisterTwice(s, g, path, f) ==
  IF find_group_by_handle(s, g) THEN create_command(s, path, g, f) ELSE s

uds_register(s, g, path, f) ==
  IF find_group_by_handle(s, g) /\ find_command(s, path, g) = 0
  THEN create_command(s, path, g, f) ELSE s

create_default_group(s, info, create_cmds) ==
  LET t == create_group(s, info, "")
  IN IF create_cmds
     THEN create_command(create_command(t, <<"/">>, s.next, "list_cmd"), <<"/info">>, s.next, "info_cmd")
     ELSE t

uds_destroy_group(s, g) ==
  IF find_group_by_handle(s, g)
  THEN [s EXCEPT !.cmds = SelectSeq(@, LAMBDA c : c.ge # g),
                 !.groups = SelectSeq(@, LAMBDA e : e.id # g)]
  ELSE s

\* the path below the group, and the function found
get_cb_fn(s, info, path) ==
  LET g == find_group_by_cmd(s, info, path)
      rest == IF g # 0 /\ ~IsRoot(s, g) THEN Tail(path) ELSE path
      c == find_command(s, rest, g)
  IN IF g = 0 \/ c = 0 THEN [fn |-> "invalid_cmd", grp |-> 0, path |-> path]
     ELSE [fn |-> s.cmds[c].fn, grp |-> g, path |-> rest]

---------------------------------------------------------------------------
(* Output *)

\* a string that does not fit below the maximum is left out as a whole
uds_append(h, tok, n) ==
  LET cap == IF h.cap = 0 THEN 4 * Extra ELSE h.cap
      need == n + Len(h.buf) + Extra
      add == h.buf \o [i \in 1..n |-> tok]
  IN IF need <= cap THEN [h EXCEPT !.buf = add, !.cap = cap]
     ELSE IF need > MaxBuf THEN [h EXCEPT !.cap = cap]
     ELSE [h EXCEPT !.buf = add, !.cap = need]

\* what is written to the socket, <<>> when nothing is
Written(h, f) ==
  LET body == uds_append(uds_append(h, "{", 1), f, FnOf(f).out)
  IN IF FnOf(f).ret = "quiet" THEN body ELSE uds_append(body, "}", 1)

\* output that is not "quiet" is sent, and forgotten unless the function failed
perform_command(h, f) ==
  LET w == Written(h, f)
  IN IF FnOf(f).ret = "error" THEN [w EXCEPT !.failed = TRUE] ELSE [w EXCEPT !.buf = <<>>]

---------------------------------------------------------------------------
(* Instances and their threads *)

uds_destroy_lists(s, i) ==
  LET mine(g) == \E k \in DOMAIN s.groups : s.groups[k].id = g /\ s.groups[k].info = i
  IN [s EXCEPT !.cmds = SelectSeq(@, LAMBDA c : ~mine(c.ge)),
               !.groups = SelectSeq(@, LAMBDA e : e.info # i)]

\* the thread of an instance has not run yet, or a handler still holds it
Held(s, i) == s.info[i].thr = "new" \/ \E h \in Handlers : s.hd[h].pc # "off" /\ s.hd[h].info = i

\* the lists are cleared under the lock, then the instance is freed
FreeInfo(s, i) ==
  [uds_destroy_lists(s, i) EXCEPT !.info[i] = [NoInfo EXCEPT !.st = "freed", !.thr = s.info[i].thr,
                                                                            !.kind = s.info[i].kind],
                                  !.raced = @ \/ Held(s, i), !.app = NoApp]

Live(i) == uds.info[i].st = "live"

NewInfo(kind) == [NoInfo EXCEPT !.st = "live", !.kind = kind, !.thr = "new", !.open = TRUE]

\* an instance whose socket could not be made is destroyed again
uds_create(i) ==
  /\ uds.info[i].st = "none" /\ uds.app.pc = "idle" /\ (umode = "server" => i = CHOOSE k \in Infos : TRUE)
  /\ \E ok \in BOOLEAN :
       uds' = IF ok THEN create_default_group([uds EXCEPT !.info[i] = NewInfo("srv")], i, TRUE)
              ELSE FreeInfo(create_default_group([uds EXCEPT !.info[i].st = "live"], i, TRUE), i)

\* the default instance is made once and never forgotten
uds_get_default(i) ==
  /\ uds.def = 0 /\ uds.info[i].st = "none" /\ uds.app.pc = "idle"
  /\ uds' = create_default_group([uds EXCEPT !.info[i] = NewInfo("srv"), !.def = i], i, TRUE)

\* udsc_handshake up to the first wait: connect, the root group, seven
\* commands, and the host name
udsc_handshake(i) ==
  LET s == create_default_group([uds EXCEPT !.info[i] = [NewInfo("cli") EXCEPT !.hs = "CONNECTED"]],
                                i, FALSE)
      reg(t, a) == uds_register(t, uds.next, <<a[1]>>, a[2])
  IN /\ uds.info[i].st = "none" /\ uds.app.pc = "idle" /\ i = CHOOSE k \in Infos : TRUE
     /\ uds' = [FoldLeft(reg, s, Answers) EXCEPT
                  !.app = [pc |-> "hello", info |-> i, tries |-> 0, rc |-> ""]]

\* one turn of the loop that waits for the state want
Await(pc, want, done, timeout) ==
  LET i == uds.app.info
  IN /\ uds.app.pc = pc
     /\ uds.app.tries < MaxTries
     /\ uds' = IF uds.info[i].hs = want THEN done
               ELSE IF uds.app.tries + 1 = MaxTries THEN timeout
               ELSE [uds EXCEPT !.app.tries = @ + 1]

HelloWait == Await("hello", "HOST_OK", [uds EXCEPT !.app = [NoApp EXCEPT !.rc = "ok"]],
                   [uds EXCEPT !.info[uds.app.info].hs = "HOST_ERR", !.app.pc = "destroy"])

udsc_close(i) ==
  /\ Live(i) /\ uds.info[i].kind = "cli" /\ uds.app.pc = "idle" /\ uds.info[i].hs = "HOST_OK"
  /\ uds' = [uds EXCEPT !.app = [pc |-> "fin", info |-> i, tries |-> 0, rc |-> ""]]

FinWait == Await("fin", "FIN", [uds EXCEPT !.app = [NoApp EXCEPT !.rc = "closed"]],
                 [uds EXCEPT !.app = NoApp])

\* an instance is used, freed or not; what a write to a freed one may damage is not
\* followed
Used(s, i) == [s EXCEPT !.wild = @ \/ s.info[i].st = "freed"]

\* a running thread is to be told to stop; an instance with none is freed at once
uds_destroy(i) ==
  /\ Live(i) /\ \/ uds.app.pc = "idle"
                \/ uds.app.pc = "destroy" /\ uds.app.info = i
  /\ uds' = IF uds.info[i].running > 0
            THEN [uds EXCEPT !.app = [NoApp EXCEPT !.pc = "stop", !.info = i]]
            ELSE FreeInfo(uds, i)

DestroyStop ==
  /\ uds.app.pc = "stop"
  /\ uds' = [uds EXCEPT !.info[uds.app.info].running = 0, !.app.pc = "wait"]

DestroyWait ==
  /\ uds.app.pc = "wait" /\ uds.info[uds.app.info].running # 0
  /\ uds' = FreeInfo(uds, uds.app.info)

Stopped == -1

ThreadStarts(i) ==
  /\ uds.info[i].thr = "new"
  /\ uds' = IF Live(i) THEN [uds EXCEPT !.info[i].running = 1, !.info[i].thr = "run"]
            ELSE [Used(uds, i) EXCEPT !.info[i].thr = "gone"]

Free == {h \in Handlers : uds.hd[h].pc = "off"}

Spawn(h, i) == [uds EXCEPT !.hd[h] = [NoHandler EXCEPT !.pc = "test", !.info = i]]

\* the loop ends: an error, or the thread was told to stop.  gaveup is history: an error
\* ended it after uds_destroy had seen it running.
ThreadEnds(i) ==
  LET told == uds.info[i].running = 0
  IN /\ told \/ uds.faults < MaxFaults
     /\ uds' = [uds EXCEPT !.info[i].running = Stopped, !.info[i].thr = "gone",
                           !.faults = IF told THEN @ ELSE @ + 1,
                           !.gaveup = @ \/ (~told /\ uds.app.pc = "stop")]

\* a connection is accepted
socket_listener(i) ==
  /\ uds.info[i].thr = "run" /\ uds.info[i].kind = "srv"
  /\ \/ /\ uds.info[i].running = 1
        /\ uds.asked < MaxAsked
        /\ Free # {} /\ uds' = Spawn(CHOOSE h \in Free : TRUE, i)
     \/ ThreadEnds(i)

\* the socket has input: a handler is started for it, whether or not one
\* that was started before has read it by now
socket_client(i) ==
  /\ uds.info[i].thr = "run" /\ uds.info[i].kind = "cli"
  /\ \/ /\ uds.info[i].running = 1 /\ uds.info[i].inbox # <<>>
        /\ Free # {} /\ uds' = Spawn(CHOOSE h \in Free : TRUE, i)
     \/ ThreadEnds(i)

\* external: the plugin answers while it waits for something
PeerAnswers(i) ==
  /\ Live(i) /\ uds.info[i].open /\ uds.info[i].kind = "cli" /\ Len(uds.info[i].inbox) < 2
  /\ \E a \in {"/host_ok", "/host_nak", "/fin_ack"} :
       /\ a = "/fin_ack" <=> uds.info[i].hs \in {"HOST_OK", "FIN"}
       /\ a \notin uds.info[i].told
       /\ uds' = [uds EXCEPT !.info[i].inbox = Append(@, <<a>>), !.info[i].told = @ \cup {a}]

\* what a request is looked up for: a server's peer may ask for anything
Request(i, path) ==
  IF uds.info[i].kind = "cli" THEN uds.info[i].inbox # <<>> /\ path = uds.info[i].inbox[1]
  ELSE path \in Paths /\ uds.asked < MaxAsked

\* a handler ends: it closes its descriptor, the one of the instance when it is a client
Leave(s, h) ==
  LET i == s.hd[h].info
      cli == s.info[i].kind = "cli"
  IN [s EXCEPT !.hd[h] = NoHandler, !.info[i].open = @ /\ ~cli, !.info[i].inbox = IF cli THEN <<>> ELSE @]

\* client_handler goes on while its instance runs; a freed instance may say anything
ClientTest(h) ==
  LET i == uds.hd[h].info
  IN /\ uds.hd[h].pc = "test"
     /\ \E go \in BOOLEAN :
          /\ Live(i) => go = (uds.info[i].running > 0)
          /\ uds' = IF go THEN [Used(uds, i) EXCEPT !.hd[h].pc = "recv"] ELSE Leave(Used(uds, i), h)

\* a command is received and looked up under the lock, which compares instances and
\* does not read them
ClientRecv(h) ==
  LET i == uds.hd[h].info
  IN /\ uds.hd[h].pc = "recv"
     /\ \E path \in Paths \cup {uds.info[i].inbox[k] : k \in DOMAIN uds.info[i].inbox} :
          /\ Request(i, path)
          /\ LET f == get_cb_fn(uds, i, path)
             IN uds' = [uds EXCEPT !.hd[h].pc = "do", !.hd[h].fn = f.fn, !.hd[h].grp = f.grp,
                                   !.hd[h].path = path,
                                   !.asked = IF uds.info[i].kind = "srv" THEN @ + 1 ELSE @,
                                   !.info[i].inbox = IF @ = <<>> THEN @ ELSE Tail(@)]

\* the function runs without the lock: its group and its instance may be gone by now
ClientPerform(h) ==
  LET c == uds.hd[h]
      w == Written(c, c.fn)
      sets == c.fn \in DOMAIN StateFns
      s == IF sets THEN Used(uds, c.info) ELSE uds
  IN /\ c.pc = "do"
     /\ uds' = [s EXCEPT
          !.hd[h] = [perform_command(c, c.fn) EXCEPT !.pc = "test", !.fn = "", !.grp = 0, !.path = <<>>],
          !.sent = [fn |-> c.fn, out |-> IF FnOf(c.fn).ret = "quiet" THEN <<>> ELSE w.buf,
                    cap |-> w.cap, clean |-> ~c.failed],
          !.info[c.info].hs = IF sets /\ Live(c.info) THEN StateFns[c.fn] ELSE @]

\* nothing is received: the peer closed the connection, or the descriptor is closed
ClientLeaves(h) ==
  /\ uds.hd[h].pc = "recv" /\ uds.info[uds.hd[h].info].inbox = <<>>
  /\ uds' = Leave(uds, h)

AppGroup(i, name) ==
  /\ Live(i) /\ uds.app.pc = "idle" /\ uds.next < MaxIds /\ uds' = uds_create_group(uds, i, name) /\ uds' # uds

AppRegister(k, path, f) ==
  /\ uds.app.pc = "idle" /\ Len(uds.cmds) < MaxCmds[umode]
  /\ uds.info[uds.groups[k].info].kind = "srv"
  /\ umode = "lists" => f = CHOOSE x \in DOMAIN Fns : TRUE
  /\ uds' = uds_register(uds, uds.groups[k].id, path, f) /\ uds' # uds

AppDestroyGroup(k) ==
  /\ uds.app.pc = "idle" /\ uds.groups[k].name # ""
  /\ uds' = uds_destroy_group(uds, uds.groups[k].id)

\* a second metrics_init finds its group there and forgets it
metrics_init ==
  /\ uds.def # 0 /\ Live(uds.def) /\ uds.app.pc = "idle" /\ uds.next < MaxIds
  /\ uds' = IF find_group_by_name(uds, uds.def, "metrics") = 0
            THEN [create_group(uds, uds.def, "metrics") EXCEPT !.metrics = uds.next]
            ELSE [uds EXCEPT !.metrics = 0]

metrics_register(path, f) ==
  /\ uds.metrics # 0 /\ uds.app.pc = "idle" /\ Len(uds.cmds) < MaxCmds[umode]
  /\ uds' = uds_register(uds, uds.metrics, path, f) /\ uds' # uds

metrics_destroy ==
  /\ uds.metrics # 0 /\ uds.app.pc = "idle" /\ find_group_by_handle(uds, uds.metrics)
  /\ uds' = [uds_destroy_group(uds, uds.metrics) EXCEPT !.metrics = 0]

---------------------------------------------------------------------------
(* Stream sockets (csock.c) *)

NoSock == [st |-> "none", fd |-> 0, flags |-> {}]

FreeFd == CHOOSE fd \in Fds : fd \notin uds.kfd

\* "{stdio}" makes a structure of the standard streams; other names are
\* looked up, which may fail
__config(stdio, flags) ==
  IF stdio THEN {[ok |-> TRUE, flags |-> flags \cup {"stdio"}]}
  ELSE {[ok |-> ok, flags |-> flags] : ok \in BOOLEAN}

\* a descriptor for what is not stdio; each step after socket() may fail with
\* the descriptor made
__open(c, f) ==
  IF ~f.ok THEN {[ok |-> FALSE, s |-> uds]}
  ELSE IF "stdio" \in f.flags
       THEN {[ok |-> TRUE, s |-> [uds EXCEPT !.sock[c] = [st |-> "live", fd |-> 0, flags |-> f.flags]]]}
  ELSE IF uds.kfd = Fds THEN {[ok |-> FALSE, s |-> uds]}
  ELSE {[ok |-> ok, s |-> [uds EXCEPT !.sock[c] = [st |-> "live", fd |-> FreeFd, flags |-> f.flags],
                                      !.kfd = @ \cup {FreeFd}]] : ok \in BOOLEAN}

csock_destroy(s, c) == [s EXCEPT !.kfd = @ \ {s.sock[c].fd}, !.sock[c] = NoSock]

\* a structure that could not be opened is destroyed
csock_create(c, stdio, flags) ==
  /\ uds.sock[c].st = "none"
  /\ \E f \in __config(stdio, flags) : \E o \in __open(c, f) :
       uds' = IF o.ok THEN o.s ELSE csock_destroy(o.s, c)

\* a connection of server s: its own structure begins as a stdio one
csock_accept(s, c) ==
  /\ uds.sock[s].st = "live" /\ "server" \in uds.sock[s].flags /\ uds.sock[s].fd # 0
  /\ uds.sock[c].st = "none" /\ uds.kfd # Fds
  /\ uds' = [uds EXCEPT !.sock[c] = [st |-> "live", fd |-> FreeFd, flags |-> {"client"}],
                        !.kfd = @ \cup {FreeFd}]

csock_eof(c) == "eof" \in uds.sock[c].flags

\* a read of nothing is the end; after it the descriptor is not read again
csock_read(c, n) ==
  /\ uds.sock[c].st = "live" /\ uds.sock[c].fd # 0 /\ ~csock_eof(c)
  /\ "server" \notin uds.sock[c].flags
  /\ uds' = [uds EXCEPT !.io = [fd |-> uds.sock[c].fd, open |-> uds.sock[c].fd \in uds.kfd],
                        !.sock[c].flags = IF n = 0 THEN @ \cup {"eof"} ELSE @]

csock_write(c) ==
  /\ uds.sock[c].st = "live" /\ ~csock_eof(c) /\ uds.sock[c].fd # 0
  /\ uds' = [uds EXCEPT !.io = [fd |-> uds.sock[c].fd, open |-> uds.sock[c].fd \in uds.kfd]]

\* the descriptor is forgotten before it is closed
default_close(s, c) == [s EXCEPT !.sock[c].fd = 0, !.kfd = @ \ {s.sock[c].fd}]

csock_close(c) ==
  /\ uds.sock[c].st = "live" /\ uds.sock[c].fd # 0
  /\ uds' = default_close(uds, c)

Destroy(c) == uds.sock[c].st = "live" /\ uds' = csock_destroy(uds, c)

\* the loop of a server ends when its socket was closed, or when a client
\* function asks for it; __listener closes the socket then
csock_server_start(c) ==
  /\ uds.sock[c].st = "live" /\ "server" \in uds.sock[c].flags /\ uds.sock[c].fd # 0
  /\ uds' = default_close(uds, c)

---------------------------------------------------------------------------
\* requests are made, and threads fail, in two of the modes only
Start == [info |-> [i \in Infos |-> NoInfo], groups |-> <<>>, cmds |-> <<>>, next |-> 1,
          hd |-> [h \in Handlers |-> NoHandler], app |-> NoApp, def |-> 0, metrics |-> 0,
          raced |-> FALSE, wild |-> FALSE, gaveup |-> FALSE,
          faults |-> IF umode \in {"server", "client"} THEN 0 ELSE MaxFaults,
          asked |-> IF umode \in {"server", "client"} THEN 0 ELSE MaxAsked,
          sent |-> [fn |-> "", out |-> <<>>, cap |-> 0, clean |-> TRUE],
          sock |-> [c \in Socks |-> NoSock], kfd |-> {}, io |-> [fd |-> 0, open |-> TRUE]]

Init == umode \in UdsModes /\ uds = Start

Server ==
  \/ \E i \in Infos : uds_create(i)
  \/ \E i \in Infos, n \in Names : AppGroup(i, n)
  \/ \E k \in DOMAIN uds.groups : AppDestroyGroup(k)
  \/ \E k \in DOMAIN uds.groups, p \in Paths, f \in DOMAIN Fns : AppRegister(k, p, f)

Metrics ==
  \/ \E i \in Infos : uds_get_default(i)
  \/ metrics_init \/ metrics_destroy
  \/ \E p \in Paths, f \in DOMAIN Fns : metrics_register(p, f)

Client ==
  \/ \E i \in Infos : udsc_handshake(i) \/ udsc_close(i) \/ PeerAnswers(i) \/ socket_client(i)
  \/ HelloWait \/ FinWait

Threads ==
  \/ \E i \in Infos : uds_destroy(i) \/ ThreadStarts(i) \/ socket_listener(i)
  \/ DestroyStop \/ DestroyWait
  \/ \E h \in Handlers : ClientTest(h) \/ ClientRecv(h) \/ ClientPerform(h) \/ ClientLeaves(h)

Csock ==
  \/ \E c \in Socks, st \in BOOLEAN, fl \in {{}, {"server"}} : csock_create(c, st, fl)
  \/ \E s, c \in Socks : csock_accept(s, c)
  \/ \E c \in Socks : csock_read(c, 0) \/ csock_read(c, 1) \/ csock_write(c)
  \/ \E c \in Socks : csock_close(c) \/ Destroy(c) \/ csock_server_start(c)

Next ==
  /\ UNCHANGED umode
  /\ \/ umode \in {"lists", "server"} /\ Server
     \/ umode = "metrics" /\ Metrics
     \/ umode = "client" /\ Client
     \/ umode # "csock" /\ Threads
     \/ umode = "csock" /\ Csock

---------------------------------------------------------------------------
\* what a path stands for, said without the lists' order
Meant(s, i, path) ==
  LET here == IF Len(path) > 1 THEN path[1] ELSE ""
      below == IF here = "" THEN path ELSE Tail(path)
      S == {k \in DOMAIN s.cmds : s.cmds[k].cmd = below /\
              \E e \in DOMAIN s.groups : s.groups[e].id = s.cmds[k].ge /\ s.groups[e].info = i
                                         /\ s.groups[e].name = here}
  IN {s.cmds[k].fn : k \in S}

\* The lists never hold two groups of a name in an instance, two commands of
\* a path in a group, a command without its group, or a group of an instance
\* that was freed, whatever order groups, instances and metrics come and go
\* in.  A path is looked up as the function it stands for (invalid_cmd if none), and
\* as long as the group of that function exists the handler that found it runs what
\* the path stands for; once the group is destroyed the handler runs the function
\* all the same, the lock being released.  An answer is the whole output
\* of the last request and nothing else (after a function failed on that
\* connection this is not so), and output never passes the maximum.  An instance
\* is freed only after its thread ended, except when it was freed before the
\* thread ran; a freed instance is used only if it was destroyed with such a
\* thread, or with a handler connected, for which uds_destroy does not wait.
\* Destroying waits for a thread that will answer, unless the thread gave up by
\* itself just when it was to be told.  A handshake that succeeds heard the host.
\* A descriptor is open exactly while one socket structure holds it.
UdsRight ==
  /\ \A a, b \in DOMAIN uds.groups : a # b =>
       uds.groups[a].id # uds.groups[b].id
       /\ <<uds.groups[a].info, uds.groups[a].name>> # <<uds.groups[b].info, uds.groups[b].name>>
  /\ \A a, b \in DOMAIN uds.cmds : a # b =>
       <<uds.cmds[a].ge, uds.cmds[a].cmd>> # <<uds.cmds[b].ge, uds.cmds[b].cmd>>
  /\ \A a \in DOMAIN uds.cmds : find_group_by_handle(uds, uds.cmds[a].ge)
  /\ \A a \in DOMAIN uds.groups : Live(uds.groups[a].info)
  /\ \A i \in Infos, p \in Paths : LET f == get_cb_fn(uds, i, p).fn
                                  IN Meant(uds, i, p) = (IF f = "invalid_cmd" THEN {} ELSE {f})
  /\ \A h \in Handlers : uds.hd[h].pc = "do" /\ find_group_by_handle(uds, uds.hd[h].grp)
       => Meant(uds, uds.hd[h].info, uds.hd[h].path) = {uds.hd[h].fn}
  /\ LET s == uds.sent
         n == FnOf(s.fn).out
     IN s.out # <<>> /\ s.clean =>
          /\ Len(s.out) + Extra <= s.cap /\ (s.cap <= MaxBuf \/ s.cap = 4 * Extra)
          /\ s.out = <<"{">> \o [k \in 1..(IF 1 + n + Extra <= MaxBuf THEN n ELSE 0) |-> s.fn]
                     \o (IF 1 + n + 1 + Extra <= MaxBuf \/ 1 + n + Extra > MaxBuf THEN <<"}">> ELSE <<>>)
  /\ \A i \in Infos : uds.info[i].thr = "run" => Live(i)
  /\ uds.wild => uds.raced
  /\ uds.app.pc = "wait" /\ uds.info[uds.app.info].running = 0
       => uds.info[uds.app.info].thr = "run" \/ uds.gaveup
  /\ uds.app.rc = "ok" => \E i \in Infos : "/host_ok" \in uds.info[i].told
  /\ uds.io.open
  /\ \A fd \in Fds : fd \in uds.kfd <=> Cardinality({c \in Socks : uds.sock[c].fd = fd}) = 1

===========================================================================
