------------------------------ MODULE MCServices ------------------------------
(***************************************************************************)
(* The libraries and services that do not share state with one another,    *)
(* and an application, each on its own: a behaviour is one of the module   *)
(* that subject names, whose variables are v1 and the following ones.      *)
(***************************************************************************)
EXTENDS Integers, Sequences, TLC

CONSTANT Subjects  \* the modules that a run looks at

VARIABLES subject, v1, v2, v3, v4

(***************************************************************************)
(* Lookup structures: the hash table, the FIB and the access lists.        *)
(***************************************************************************)
HashHash ==
  <<[sig |-> 1, low |-> 0], [sig |-> 3, low |-> 0], [sig |-> 1, low |-> 1],
    [sig |-> 2, low |-> 0], [sig |-> 0, low |-> 1], [sig |-> 2, low |-> 0]>>
HashMode(s, e, l, n, ks, r, b) ==
  [entries |-> s, ext |-> e, lf |-> l, nofree |-> n, keys |-> ks, looked |-> r, bulk |-> b]
HashModes ==
  {HashMode(3, FALSE, FALSE, FALSE, 1 .. 6, {}, <<>>),
   HashMode(3, TRUE, FALSE, FALSE, 1 .. 6, {}, <<>>),
   HashMode(3, FALSE, FALSE, TRUE, 1 .. 4, {}, <<>>),
   HashMode(3, FALSE, TRUE, TRUE, {1, 4}, {1}, <<>>),
   HashMode(2, TRUE, TRUE, TRUE, {4, 6}, {6}, <<>>),
   HashMode(2, FALSE, TRUE, TRUE, {1, 4}, {}, <<4, 1>>),
   HashMode(2, TRUE, TRUE, TRUE, {4, 6}, {}, <<6, 4>>)}

Hash == INSTANCE CuckooHash WITH
  Keys <- {1,2,3,4,5,6}, Hash <- HashHash, Datas <- {7}, Buckets <- 2,
  BktEntries <- 1, BfsMax <- 12, Modes <- HashModes,
  mode <- v1, h <- v2, todo <- v3, rd <- v4

FibAnyNh(S, N) == [p \in S |-> N]
FibOwn(S) == [p \in S |-> {p[2] + 1}]
FibV4 == {<<0,1>>, <<0,3>>, <<5,6>>, <<4,5>>, <<63,6>>, <<32,2>>}
FibLowNhs(S) == [p \in S |-> IF p[1] < 32 THEN {1, 2} ELSE {1 + p[2] \div 6}]
FibT4 == {<<0,1>>, <<5,6>>, <<4,5>>, <<10,5>>, <<8,3>>, <<63,6>>, <<62,6>>}
FibV6 == {<<0,1>>, <<16,3>>, <<16,4>>, <<20,5>>, <<21,6>>, <<63,6>>, <<32, 1>>}
FibR6 == {<<0,1>>, <<16,3>>, <<20,5>>, <<63,6>>}
FibConfigs == { [type |-> "DUMMY", num_tbl8 |-> 0, nhs |-> FibAnyNh(FibV4 \cup {<<0,0>>}, {1})],
               [type |-> "DIR24_8", num_tbl8 |-> 4, nhs |-> FibLowNhs(FibV4)],
               [type |-> "DIR24_8", num_tbl8 |-> 2, nhs |-> FibOwn(FibT4)],
               [type |-> "TRIE", num_tbl8 |-> 6, nhs |-> FibLowNhs(FibR6)],
               [type |-> "TRIE", num_tbl8 |-> 4, nhs |-> FibOwn(FibV6)] }

Fib == INSTANCE Fib WITH
  W <- 6, B <- 2, MaxNodes <- 9, VecLen <- 4, DefNh <- 0, Configs <- FibConfigs,
  fib <- v1, want <- v2

AclD(t, s, f, i, o) == [type |-> t, size |-> s, fi |-> f, ii |-> i, off |-> o]
AclCfgs == << [cats |-> 2, max |-> 0, defs |-> <<AclD("bitmask",1,1,0,0), AclD("mask",1,2,1,1), AclD("range",1,5,1,2)>>],
             [cats |-> 1, max |-> 45, defs |-> <<AclD("bitmask",1,1,0,0), AclD("range",2,3,1,3)>>] >>
AclR(v, m, c, p, u) == [val |-> v, rng |-> m, cats |-> c, prio |-> p, user |-> u]
AclRules == << AclR(<<3,0,0,0,0>>, <<7,0,63,7,7>>, {1}, 1, 11),
              AclR(<<3,4,5,1,3>>, <<7,3,50,5,3>>, {1,2}, 2, 12),
              AclR(<<0,4,0,4,0>>, <<0,2,63,4,6>>, {2}, 3, 13),
              AclR(<<1,1,17,2,2>>, <<1,2,20,6,4>>, {1}, 3, 14),
              AclR(<<5,0,24,1,1>>, <<6,0,63,2,2>>, {1,2}, 2, 15),
              AclR(<<0,0,0,0,0>>, <<0,0,63,7,7>>, {1}, 1, 16),
              AclR(<<0,0,0,0,0>>, <<0,0,63,7,7>>, {1}, 9, 17) >>
AclGroups == << <<4, 3>>, <<5, 2>>, <<7, 1>> >>
AclAllP == [i \in 1..108 |-> << <<0,3,5>>[(i % 3) + 1], <<1,5>>[((i \div 3) % 2) + 1], <<1,2,4>>[((i \div 6) % 3) + 1], <<0,2,6>>[((i \div 18) % 3) + 1], <<1,4>>[((i \div 54) % 2) + 1] >>]
AclBatches == << SubSeq(AclAllP,1,2), SubSeq(AclAllP, 5, 14), SubSeq(AclAllP, 15, 36)>>

Acl == INSTANCE Acl WITH
  Byte <- 8, LoadSz <- 2, QuadSize <- 2, MatchSz <- 4, MaxTries <- 2, NodeMin <- 1,
  NodeMax <- 4, MaxRules <- 4, MaxPrio <- 3, Multiplier <- 2, Lanes <- 2, MaxIter <- 20,
  Rules <- AclRules, Groups <- AclGroups, Cfgs <- AclCfgs, Batches <- AclBatches,
  Algs <- {"scalar", "sse", "avx2", "avx512x16", "avx512x32"},
  acl <- v1

(***************************************************************************)
(* The network stack: channels, and the tables that netlink fills.         *)
(***************************************************************************)
ChnlNetif == [a \in 1..3 |-> IF a = 3 THEN 0 ELSE 1]
ChnlNames == {<<0,5>>, <<1,5>>, <<2,0>>}
ChnlDgrams == {[src |-> <<2,0>>, dst |-> <<1,5>>, len |-> 1], [src |-> <<2,6>>, dst |-> <<1,5>>, len |-> 2]}

Chnl == INSTANCE Channels WITH
  Chnls <- {1,2,3}, Pcbs <- {11,12}, NumCds <- 2, Ports <- 8, Reserved <- 5,
  NetifOf <- ChnlNetif, Names <- ChnlNames, Dgrams <- ChnlDgrams, Uses <- {"open", "calls"},
  MaxBurst <- 2, MaxQueue <- 2,
  chan <- v1

TblNets == {<<0,0>>, <<0,1>>, <<2,2>>}
TblInits == <<12, 5, 9>>

Tbl == INSTANCE CnetTables WITH
  Width <- 3, Ifs <- {1,2}, Locals <- {1,5}, Neighbours <- {6,7}, Macs <- {21},
  NumAddrs <- 1, NumRules <- 4, NumArps <- 4, MaxPending <- 2, MaxMsgs <- 4, Stks <- {1,2,3},
  Modes <- {"tables","stacks"}, Nets <- TblNets, Inits <- TblInits,
  cnmode <- v1, net <- v2, stks <- v3

(***************************************************************************)
(* Devices: AF_XDP sockets, ports, memif.                                  *)
(***************************************************************************)
Xsk == INSTANCE Xskdev WITH
  Frames <- {0,1,2}, FrameSz <- 4, Hdr <- 1, Offsets <- {3}, FqSize <- 1, RxSize <- 1,
  TxSize <- 2, CqSize <- 1, Burst <- 1, TxBatch <- 2, NbPkts <- {1,2},
  Senders <- {"t1","t2"}, XModes <- {"socket","rings"},
  xmode <- v1, x <- v2, xpc <- v3

Pdev == INSTANCE Pktdev WITH
  NumPorts <- 3, PortNames <- {1,2}, Bufs <- {1,2,3,4}, RingFrames <- 2, TapBatch <- 2,
  MaxPkts <- 2, PdModes <- {"ports","af_packet","tap","null","ring"},
  pdmode <- v1, pd <- v2

Mif == INSTANCE Memif WITH
  Clients <- {1,2}, HelloRings <- 1, CfgRings <- 2, RingSz <- 2, BufSz <- 2,
  PktLens <- {1,3}, MaxSent <- 2, Talkers <- {1}, MaxFaults <- 1,
  mif <- v1

(***************************************************************************)
(* The registry of nodes and graphs.                                       *)
(***************************************************************************)
GraphD(o,n,s,i,e) == [ord |-> o, name |-> <<n>>, src |-> s, input |-> i, edges |-> e]
GraphRegs == {GraphD(1,"a",TRUE,FALSE,<<<<"b">>>>), GraphD(2,"b",FALSE,FALSE,<<>>), GraphD(3,"c",FALSE,FALSE,<<<<"b">>>>),
           GraphD(4,"i",FALSE,TRUE,<<<<"c">>>>)}
GraphEdgeLists == {<<<<"b">>>>, <<<<"c">>>>, <<<<"a">>>>, <<<<"a", "x">>>>}
GraphA == {<<"a">>}
GraphAC == {<<"a">>, <<"c">>}
GraphEnds == {<<"a">>, <<"a","x">>, <<"i">>, <<"i","x">>}
GraphPatternLists == {<<GraphEnds>>, <<GraphA, GraphAC>>}
GraphStatsLists == <<<<GraphA>>, <<GraphEnds>>>>
GraphClones == {<<"x">>}

Graph == INSTANCE GraphRegistry WITH
  Regs <- GraphRegs, CloneNames <- GraphClones, EdgeLists <- GraphEdgeLists,
  PatternLists <- GraphPatternLists, StatsLists <- GraphStatsLists, GraphNames <- {1,2},
  MaxNodes <- 3, MaxGraphs <- 2, MaxEdits <- 1, MaxCalls <- 1, Burst <- 4, HdrSz <- 12,
  OffSz <- 4, FenceSz <- 8, NodeSz <- 24, PtrSz <- 8, Line <- 16,
  RegModes <- {"build","stats"},
  gmode <- v1, reg <- v2

(***************************************************************************)
(* Services: sockets, events, configuration, command line.                 *)
(***************************************************************************)
UdsPaths == {<<"a">>, <<"g", "a">>}
UdsFns == [f1 |-> [ret |-> "ok", out |-> 1], f2 |-> [ret |-> "error", out |-> 4]]

Uds == INSTANCE Uds WITH
  Infos <- {1, 2}, Names <- {"g"}, Paths <- UdsPaths, Fns <- UdsFns,
  Handlers <- {"h1", "h2"}, Extra <- 1, MaxBuf <- 6, MaxTries <- 2, MaxIds <- 4,
  MaxCmds <- [lists |-> 4, server |-> 3, metrics |-> 4], MaxAsked <- 2, MaxFaults <- 1, Socks <- {1, 2, 3}, Fds <- {1, 2},
  UdsModes <- {"lists", "server", "metrics", "client", "csock"},
  umode <- v1, uds <- v2

EvTypes == <<"ext", "mem">>

Ev == INSTANCE Events WITH
  Apps <- {"a", "b"}, Fds <- {1, 2}, Cbs <- {"f", "g"}, MaxCbs <- 2, TypeOf <- EvTypes,
  MaxPipe <- 1, MgrNames <- {"m"}, Mgrs <- {1, 2}, MaxFds <- 2, Timeouts <- {0, 1},
  MaxNow <- 3, Brokers <- {1, 2}, BrokerNames <- {"x", "y"}, Sids <- {1}, MaxIntrs <- 1,
  EvModes <- {"events", "idle", "broker"},
  evmode <- v1, ev <- v2

CfgCh == [eth0 |-> 3, eth1 |-> 3, eth2 |-> 0, eth9 |-> -1]
CfgSec(s, its) == [sec |-> s, items |-> its]
CfgO(k, t, v) == [k |-> k, t |-> t, v |-> v]
CfgI(n) == [t |-> "int", lo |-> n]
CfgN(n) == [t |-> "num", lo |-> n]
CfgR(a, b) == [t |-> "range", lo |-> a, hi |-> b]
CfgU1 == [k |-> "u1", f |-> << <<"bufcnt", 3>>, <<"regions", <<1, 2>>>> >>]
CfgU2 == [k |-> "u2", f |-> << <<"rxdesc", 2>>, <<"regions", <<1>>>> >>]
CfgUC == [k |-> "lport-group", f |-> << <<"regions", <<4>>>> >>]
CfgP(n, f) == [k |-> n, f |-> f]
CfgT(n, f) == [k |-> n, f |-> f]
CfgDft == <<CfgO("rxdesc", "int", 1), CfgO("x", "object", <<CfgO("bufcnt", "int", 3)>>)>>
CfgOpts == {<<>>,
         <<CfgSec("defaults", CfgDft)>>,
         <<CfgSec("options", <<CfgO("a", "array", <<"int", "bool">>)>>)>>,
         <<CfgSec("application", <<CfgO("a", "array", <<"int", "int">>), CfgO("b", "null", 0)>>)>>}
CfgUmems == {<<CfgSec("umems", <<CfgU1, CfgU2>>)>>,
          <<CfgSec("Umems", <<CfgUC, CfgU1>>)>>,
          <<CfgSec("umems", <<CfgU1, [k |-> "u3", f |-> << <<"regions", <<1, 1, 1>>>> >>]>>)>>,
          <<CfgSec("umems", <<[k |-> "u3", f |-> << <<"bufcnt", 1>> >>]>>)>>}
CfgLports == {<<>>,
           <<CfgSec("lports", <<CfgP(<<"eth0", 0>>, << <<"umem", "u1">>, <<"qid", 1>>, <<"region", 1>> >>)>>)>>,
           <<CfgSec("lports", <<CfgP(<<"eth1", 7>>, << <<"umem", "u1">>, <<"qid", 9>> >>),
                             CfgP(<<"eth0", 0>>, << <<"umem", "zz">> >>)>>)>>,
           <<CfgSec("lports", <<CfgP(<<"eth0", 5>>, << <<"qid", 1>> >>)>>)>>,
           <<CfgSec("lports", <<CfgP(<<"eth0", 5>>, << <<"umem", "u1">>, <<"busy_timeout", 99>> >>)>>)>>}
CfgGroups == {<<CfgSec("lcore-groups", <<[k |-> "default", v |-> <<CfgI(0), CfgR(1, 2), [t |-> "array", v |-> <<CfgN(3)>>]>>],
                                   [k |-> "g", v |-> <<CfgR(2, 1)>>]>>)>>,
           <<CfgSec("lcore-groups", <<[k |-> "g", v |-> <<CfgR(0, 4)>>]>>)>>}
CfgThreads == {<<CfgSec("threads", <<CfgT("t1", <<>>), CfgT("t2", << <<"group", "g">>, <<"idle_timeout", 3>> >>)>>)>>,
            <<CfgSec("threads", <<CfgT("t1", << <<"lports", <<<<"eth0", 0>>>>>> >>), CfgT("t2", <<>>)>>)>>,
            <<CfgSec("threads", <<CfgT("t1", << <<"bool", TRUE>> >>)>>)>>}
CfgLpgs == {<<>>,
         <<CfgSec("lport-groups", <<[k |-> "a", f |-> << <<"netdevs", <<"eth0", "eth1">>>>, <<"threads", <<"t1", "t2">>>> >>]>>)>>,
         <<CfgSec("lport-groups", <<[k |-> "a", f |-> << <<"queues", [t |-> "array", v |-> <<CfgN(2), CfgR(4, 6), CfgI(5), CfgR(3, 4), CfgI(0)>>]>>,
                                                       <<"netdevs", <<"eth1">>>>, <<"threads", <<"t2", "t1">>>>, <<"umem", "u1">> >>],
                                 [k |-> "b", f |-> << <<"queues", CfgI(1)>>, <<"netdevs", <<"eth0">>>>, <<"threads", <<"t2">>>> >>]>>)>>,
         <<CfgSec("lport-groups", <<[k |-> "a", f |-> << <<"queues", CfgR(0, 15)>>, <<"netdevs", <<"eth1">>>>, <<"threads", <<"t1">>>> >>]>>)>>,
         <<CfgSec("lport-groups", <<[k |-> "a", f |-> << <<"queues", [t |-> "all"]>>, <<"netdevs", <<"eth9">>>>, <<"threads", <<"t1">>>> >>]>>)>>,
         <<CfgSec("lport-groups", <<[k |-> "a", f |-> << <<"netdevs", <<"eth1", "eth1">>>>, <<"queues", CfgN(1)>>, <<"threads", <<"t1">>>> >>]>>)>>,
         <<CfgSec("lport-groups", <<[k |-> "a", f |-> << <<"queues", CfgR(3, 2)>>, <<"netdevs", <<"eth1">>>>, <<"threads", <<"t1">>>> >>]>>)>>}
CfgGood == {o \o u \o p \o g \o t \o l : o \in {<<>>, <<CfgSec("defaults", CfgDft)>>},
           u \in {<<CfgSec("umems", <<CfgU1, CfgU2>>)>>, <<CfgSec("Umems", <<CfgUC, CfgU1>>)>>}, p \in CfgLports,
           g \in {<<CfgSec("lcore-groups", <<[k |-> "default", v |-> <<CfgI(0), CfgR(1, 2), [t |-> "array", v |-> <<CfgN(3)>>]>>],
                                   [k |-> "g", v |-> <<CfgR(2, 1)>>]>>)>>}, t \in CfgThreads, l \in CfgLpgs}
CfgBad == {l \o o \o u \o p \o t \o g : o \in CfgOpts, u \in CfgUmems, p \in CfgLports, g \in CfgGroups, t \in CfgThreads,
           l \in {<<>>, <<CfgSec("lport-groups", <<[k |-> "a", f |-> << <<"netdevs", <<"eth0", "eth1", "eth2">>>>, <<"threads", <<"t1", "t2">>>> >>]>>)>>}}
CfgOne == {<<CfgSec("umems", <<CfgU1, CfgU2>>), CfgSec("LPORTS", <<CfgP(<<"eth0", 0>>, << <<"umem", "u1">> >>)>>)>>}
CfgDocs == [decode |-> CfgGood \cup CfgBad, decoders |-> CfgOne, socket |-> CfgOne]
CfgSpell == {"umems", "Umems", "lports", "LPORTS", "mine", "Mine", "application", "defaults", "options",
            "lcore-groups", "threads", "lport-groups"}
CfgFold == [s \in CfgSpell |-> CASE s = "Umems" -> "umems" [] s = "LPORTS" -> "lports" [] s = "Mine" -> "mine" [] OTHER -> s]

Cfg == INSTANCE Jcfg WITH
  Docs <- CfgDocs, Channels <- CfgCh, Nprocs <- 4, Kilo <- 4, U16 <- 16, MaxRegions <- 2,
  DfltDesc <- 8, DfltBufsz <- 8, Spellings <- CfgSpell, Fold <- CfgFold, Funcs <- {"f"},
  MaxRegs <- 3, MaxTries <- 3, JModes <- {"decode", "decoders", "socket"},
  jmode <- v1, jdoc <- v2, jc <- v3

CliTyped == {<<"c">>, <<"c", "c", " ">>, <<"l">>, <<"l", " ", "c">>, <<" ", "l">>, <<" ", "c", "c">>, <<"!">>, <<" ", "!">>, <<" ">>}
CliKeys == {<<"ctl">>, <<"esc", "[", "let">>, <<"esc", "let">>, <<"esc", "[", "dig", "let">>}
CliCommand == <<"c", "c">>
CliAlias == <<"l">>
CliRel(c) == [abs |-> FALSE, comps |-> c]
CliAbs(c) == [abs |-> TRUE, comps |-> c]
CliTrees == {<<[type |-> "cmd", name |-> "b"]>>,
            <<[type |-> "dir", path |-> CliAbs(<<"a">>), bin |-> TRUE], [type |-> "cmd", name |-> "b"], [type |-> "alias", name |-> "a"]>>}
CliFile == <<"x", "nl", "y">>
CliLines == UNION {[1 .. n -> {"$", "{", "}", "(", "v"}] : n \in 1 .. 5}
CliEnv == (<<"v">> :> <<"w", "w">>) @@ (<<"v", "v">> :> <<>>)
CliK(w) == [c |-> "=", w |-> w]
CliP(c) == [c |-> c, w |-> 0]
CliMaps == <<<<CliK(<<"a">>)>>, <<CliK(<<"a">>), CliP("d")>>, <<CliK(<<"a">>), CliP("h")>>, <<CliK(<<"a">>), [c |-> "|", w |-> {<<"z">>, <<"z", "z">>}]>>,
            <<CliK(<<"a">>), CliP("s"), CliP("d")>>, <<CliP("s"), CliP("P")>>, <<CliP("k"), CliP("y")>>>>
CliArg == UNION {[1 .. n -> {"a", "0", "z", "?", "-"}] : n \in 1 .. 2}
CliCases == {[maps |-> CliMaps, argv |-> a] : a \in UNION {{<<x>>, <<x, y>>} : x, y \in CliArg} \cup {<<<<"a">>, x, y>> : x, y \in {<<"a">>, <<"0">>, <<"z", "0">>, <<"?">>}}}
CliCpus == UNION {[1 .. n -> [sid : {0, 3}, cid : {0, 1, 4}]] : n \in 1 .. 4}

Cli == INSTANCE Cli WITH
  Chars <- {"a", " "}, Typed <- CliTyped, MaxText <- 3,
  GapSize <- 1, NHist <- 2, MaxRuns <- 3, Command <- CliCommand, Alias <- CliAlias,
  AliasStr <- CliCommand, NNodes <- 5, Names <- {"a", "b"}, MaxBins <- 3, Trees <- CliTrees,
  MaxEdits <- 3, FileData <- CliFile, SubstLines <- CliLines, Env <- CliEnv,
  KeySeqs <- CliKeys, VtBuf <- 5, MapCases <- CliCases, Cpus <- CliCpus,
  CModes <- {"edit","history","tree","file","subst","map","cmap","env","keys"},
  cmode <- v1, cl <- v2

(***************************************************************************)
(* Containers, and the application cndpfwd.                                *)
(***************************************************************************)
CoK(p, k) == [hasp |-> p # <<>>, p |-> p, k |-> k]
CoKeys == {CoK(<<>>, <<"a">>), CoK(<<>>, <<"a", "b">>), CoK(<<>>, <<"c">>), CoK(<<"x">>, <<"a">>), CoK(<<"x">>, <<"c">>)}
CoHash == [k \in CoKeys |-> IF k.hasp THEN 3 ELSE IF Len(k.k) = 2 THEN 6 ELSE IF k.k = <<"c">> THEN 2 ELSE 7]
CoType == [k \in CoKeys |-> IF k.hasp THEN "str" ELSE "u64"]
CoA == CoK(<<>>, <<"a">>)
CoAB == CoK(<<>>, <<"a", "b">>)
CoC == CoK(<<>>, <<"c">>)

(* One caller that fills, empties and overfills a map; two that make two   *)
(* calls each, on a map with three pairs that the next add makes grow and  *)
(* on one that cannot grow.                                                *)
CoCases ==
  {[max |-> 3, keys |-> CoKeys, filled |-> <<>>, calls |-> ("t1" :> -1)],
   [max |-> 8, keys |-> CoKeys \ {CoA}, filled |-> <<>>, calls |-> ("t1" :> -1)],
   [max |-> 8, keys |-> {CoAB, CoC}, filled |-> <<CoK(<<"x">>, <<"a">>), CoC, CoA>>,
    calls |-> [t \in {"t1", "t2"} |-> 2]],
   [max |-> 4, keys |-> {CoA, CoC}, filled |-> <<CoC>>, calls |-> [t \in {"t1", "t2"} |-> 2]]}
CoProfiles == [kind : {"srtcm", "trtcm", "rfc4115"}, aware : BOOLEAN, hz : {8}, cir : {0, 1, 3}, xir : {0, 2, 5}, cbs : {0, 2}, xbs : {3}]
CoValid == {<<"k">>}
CoPage == [t \in 0 .. 2 |-> IF t = 0 THEN 1 ELSE IF t = 1 THEN 4 ELSE 16]
CoTexts == UNION {[1 .. n -> {"k", "w", "=", ",", "["}] : n \in 0 .. 5}

Co == INSTANCE Containers WITH
  HHash <- CoHash, HType <- CoType, MaxBad <- 1, MaxOut <- 3, HStart <- 4, HCases <- CoCases,
  HDefault <- 12, HWidth <- 16, NDesc <- 6, MaxBatches <- 2, Portals <- {TRUE, FALSE},
  Profiles <- CoProfiles, PeriodMin <- 3, PktLens <- {1, 2}, MaxTime <- 5, PageSz <- CoPage,
  MaxRegions <- 2, KvTexts <- CoTexts, KvMax <- 2, KvValid <- CoValid,
  UidThreads <- {"t1", "t2"}, MaxIds <- 3,
  CoModes <- {"hmap", "dsa", "meter", "mmap", "kvargs", "uid"},
  comode <- v1, co <- v2

FwdNo == [of |-> "drop", n |-> -1]
FwdT(of, n) == [of |-> of, n |-> n]
FwdMain == [type |-> "main", ports |-> <<>>]
FwdFwd(ps) == [type |-> "fwd", ports |-> ps]
FwdLP(r, u) == [region |-> r, unpriv |-> u]
FwdCfg(arg, json, lps, thds) == [arg |-> arg, json |-> json, regions |-> <<1, 1>>, bufcnt |-> 2,
                              lports |-> lps, uds |-> FALSE, thds |-> thds]
FwdTwo == <<FwdLP(0, FALSE), FwdLP(1, FALSE)>>
FwdConfigs == {FwdCfg(FwdT("acl-strict", 10), FwdNo, FwdTwo, <<FwdMain, FwdFwd(<<1>>), FwdFwd(<<2>>)>>),
              FwdCfg(FwdNo, FwdT("fwd", 1), FwdTwo, <<FwdMain, FwdFwd(<<1, 2>>), FwdFwd(<<>>)>>),
              FwdCfg(FwdT("tx-only-rx", 10), FwdT("drop", 4), FwdTwo, <<FwdFwd(<<1>>), FwdMain, FwdFwd(<<2>>)>>),
              FwdCfg(FwdNo, FwdNo, FwdTwo, <<FwdMain, FwdFwd(<<1>>)>>),
              FwdCfg(FwdT("hyperscan", 9), FwdNo, FwdTwo, <<FwdMain, FwdFwd(<<1>>), FwdFwd(<<2>>)>>),
              FwdCfg(FwdT("loopback", 2), FwdNo, <<FwdLP(2, FALSE)>>, <<FwdMain>>),
              [FwdCfg(FwdT("lb", 1), FwdNo, <<FwdLP(0, TRUE)>>, <<FwdMain, FwdFwd(<<1>>)>>) EXCEPT !.uds = TRUE],
              [FwdCfg(FwdT("l3fwd", 2), FwdNo, <<FwdLP(0, TRUE)>>, <<FwdMain, FwdFwd(<<1>>)>>) EXCEPT !.bufcnt = 3]}
FwdLen1 == [n \in {"drop", "rx-only", "lb", "loopback", "tx-only", "fwd", "l3fwd", "acl-strict",
                     "acl-permissive", "tx-only-rx", "hyperscan", "hs"} |->
    CASE n = "drop" -> 4 [] n = "rx-only" -> 7 [] n = "lb" -> 2 [] n = "loopback" -> 8
      [] n = "tx-only" -> 7 [] n = "fwd" -> 3 [] n = "l3fwd" -> 5 [] n = "acl-strict" -> 10
      [] n = "acl-permissive" -> 14 [] n = "tx-only-rx" -> 10 [] n = "hyperscan" -> 9 [] n = "hs" -> 2]
FwdShared == {<<"lb", "loopback", 1>>, <<"lb", "l3fwd", 1>>, <<"loopback", "l3fwd", 1>>,
           <<"tx-only", "tx-only-rx", 7>>, <<"acl-strict", "acl-permissive", 4>>, <<"hyperscan", "hs", 1>>}
FwdCommons == [p \in (DOMAIN FwdLen1) \X (DOMAIN FwdLen1) |->
    IF p[1] = p[2] THEN FwdLen1[p[1]]
    ELSE LET s == {t \in FwdShared : {t[1], t[2]} = {p[1], p[2]}} IN IF s = {} THEN 0 ELSE (CHOOSE t \in s : TRUE)[3]]
FwdR(s, sl, d, dl, deny) == [src |-> s, srcLen |-> sl, dst |-> d, dstLen |-> dl, deny |-> deny]
FwdInit == <<FwdR(0, 0, 2, 2, TRUE), FwdR(3, 2, 0, 0, TRUE), FwdR(1, 1, 0, 0, FALSE)>>
FwdTexts == {FwdR(1, 2, 2, 2, FALSE), FwdR(2, 1, 0, 0, TRUE), FwdR(-1, 2, 0, 0, TRUE), FwdR(0, 3, 0, 0, TRUE)}
FwdP(mac, s, d, v, hs) == [mac |-> mac, src |-> s, dst |-> d, valid |-> v, hs |-> hs]
FwdPkts == {FwdP(0, 1, 2, TRUE, <<>>), FwdP(1, 2, 1, TRUE, <<1>>), FwdP(2, 3, 0, TRUE, <<0, 1>>), FwdP(1, 0, 0, FALSE, <<1, -1>>)}
FwdBursts == UNION {[1 .. n -> FwdPkts] : n \in 0 .. 2} \cup {<<p, p, q>> : p \in FwdPkts, q \in {FwdP(1, 2, 1, TRUE, <<1>>)}}
FwdFib == {[ip |-> 0, len |-> 1, port |-> 1], [ip |-> 1, len |-> 2, port |-> 0]}
FwdRooms == [0 .. 1 -> {-1, 1, 2}]

Fwd == INSTANCE Cndpfwd WITH
  FwModes <- {"life", "burst"}, FwConfigs <- FwdConfigs, Commons <- FwdCommons, Turns <- 2,
  Edits <- 2, RuleSz <- 3, MaxAclRules <- 8, InitRules <- FwdInit, RuleTexts <- FwdTexts,
  Width <- 2, NPorts <- 2, FwBursts <- FwdBursts, FibRules <- FwdFib, Rooms <- FwdRooms,
  TxSize <- 2,
  fwmode <- v1, fw <- v2

(***************************************************************************)
(* The specification.                                                      *)
(***************************************************************************)
Start ==
  \/ subject = "hash" /\ Hash!Init
  \/ subject = "fib" /\ Fib!Init /\ v3 = 0 /\ v4 = 0
  \/ subject = "acl" /\ Acl!Init /\ v2 = 0 /\ v3 = 0 /\ v4 = 0
  \/ subject = "channels" /\ Chnl!Init /\ v2 = 0 /\ v3 = 0 /\ v4 = 0
  \/ subject = "tables" /\ Tbl!Init /\ v4 = 0
  \/ subject = "xskdev" /\ Xsk!Init /\ v4 = 0
  \/ subject = "pktdev" /\ Pdev!Init /\ v3 = 0 /\ v4 = 0
  \/ subject = "memif" /\ Mif!Init /\ v2 = 0 /\ v3 = 0 /\ v4 = 0
  \/ subject = "graph" /\ Graph!Init /\ v3 = 0 /\ v4 = 0
  \/ subject = "uds" /\ Uds!Init /\ v3 = 0 /\ v4 = 0
  \/ subject = "events" /\ Ev!Init /\ v3 = 0 /\ v4 = 0
  \/ subject = "jcfg" /\ Cfg!Init /\ v4 = 0
  \/ subject = "cli" /\ Cli!Init /\ v3 = 0 /\ v4 = 0
  \/ subject = "containers" /\ Co!CoInit /\ v3 = 0 /\ v4 = 0
  \/ subject = "cndpfwd" /\ Fwd!FwInit /\ v3 = 0 /\ v4 = 0

LibInit == subject \in Subjects /\ Start

LibNext ==
  \/ subject = "hash" /\ Hash!Next /\ UNCHANGED <<subject>>
  \/ subject = "fib" /\ Fib!Next /\ UNCHANGED <<subject, v3, v4>>
  \/ subject = "acl" /\ Acl!Next /\ UNCHANGED <<subject, v2, v3, v4>>
  \/ subject = "channels" /\ Chnl!Next /\ UNCHANGED <<subject, v2, v3, v4>>
  \/ subject = "tables" /\ Tbl!Next /\ UNCHANGED <<subject, v4>>
  \/ subject = "xskdev" /\ Xsk!Next /\ UNCHANGED <<subject, v4>>
  \/ subject = "pktdev" /\ Pdev!Next /\ UNCHANGED <<subject, v3, v4>>
  \/ subject = "memif" /\ Mif!Next /\ UNCHANGED <<subject, v2, v3, v4>>
  \/ subject = "graph" /\ Graph!Next /\ UNCHANGED <<subject, v3, v4>>
  \/ subject = "uds" /\ Uds!Next /\ UNCHANGED <<subject, v3, v4>>
  \/ subject = "events" /\ Ev!Next /\ UNCHANGED <<subject, v3, v4>>
  \/ subject = "jcfg" /\ Cfg!Next /\ UNCHANGED <<subject, v4>>
  \/ subject = "cli" /\ Cli!Next /\ UNCHANGED <<subject, v3, v4>>
  \/ subject = "containers" /\ Co!CoNext /\ UNCHANGED <<subject, v3, v4>>
  \/ subject = "cndpfwd" /\ Fwd!FwNext /\ UNCHANGED <<subject, v3, v4>>

LibSpec == LibInit /\ [][LibNext]_<<subject, v1, v2, v3, v4>>

(***************************************************************************)
(* Properties.                                                             *)
(***************************************************************************)
(* A lookup answers what was put in: in the hash table during moves and    *)
(* resizes, in the FIB by the longest prefix, in an access list by the     *)
(* highest priority, whatever the algorithm.                               *)
LookupsRight ==
  /\ subject = "hash" => Hash!HashRight
  /\ subject = "fib" => Fib!FibRight
  /\ subject = "acl" => Acl!AclRight

(* A datagram reaches the channel that is bound most specifically to its   *)
(* addresses, and a burst loses a channel under it only to a callback that *)
(* closes another's; the interfaces and the ARP table are what netlink     *)
(* said last, and so are the routes until the table was full or a route    *)
(* was deleted while a longer one covered its network address.             *)
CnetRight ==
  /\ subject = "channels" => Chnl!ChannelsRight
  /\ subject = "tables" => Tbl!TablesRight

(* Every frame of an AF_XDP socket is in one place, until the pool cannot  *)
(* fill a burst (short); ports and names are the ports' own, until a       *)
(* failed probe reports port 0 (zero) or pktdev_close_all closes what a    *)
(* failed probe left (twice), and a driver neither loses nor doubles a     *)
(* buffer, until a system call fails in a burst (failed); memif connects   *)
(* one peer, of the server's mode and secret, and keeps the packets'       *)
(* order, until a packet is copied over slots that are not free (over).    *)
DevicesRight ==
  /\ subject = "xskdev" => Xsk!FramesRight
  /\ subject = "pktdev" => Pdev!PortsRight
  /\ subject = "memif" => Mif!MemifRight

(* The registry holds every node once; a graph is built of the nodes its   *)
(* patterns name and those that they lead to over edges, each once, and    *)
(* their memory does not overlap; ids name one graph each until a graph    *)
(* older than another is destroyed; statistics count each graph once.      *)
(* Nothing is claimed after a graph that holds a node that grew since is   *)
(* destroyed and freed memory answers for that node.                       *)
RegistryRight == subject = "graph" => Graph!RegistryRight

(* A request of a control socket runs the function its path stands for,    *)
(* except that of a group destroyed since the lookup, which is run all the *)
(* same; freed instances are used only by a handler or thread uds_destroy  *)
(* did not wait for.  An event calls the callbacks of its source and       *)
(* nobody else's.  UdsRight and EventsRight say what else is claimed.      *)
ServicesRight ==
  /\ subject = "uds" => Uds!UdsRight
  /\ subject = "events" => Ev!EventsRight

(* A configuration is decoded to the objects its sections describe, with   *)
(* all references resolved; the documents that crash or hang the decoders  *)
(* are named.  The command line shows what was typed and runs what it      *)
(* shows, and its tree, history and environment stay consistent; where the *)
(* code does otherwise (Backspace at the start of a line, blanks before an *)
(* alias, removal of the working directory, a variable set twice) the      *)
(* properties of Cli say what it does.                                     *)
ConsoleRight ==
  /\ subject = "jcfg" => Cfg!JcfgRight
  /\ subject = "cli" => Cli!CliRight

(* The map holds what was put in, and HmapRight says what calls that       *)
(* overlap may do to it; the copy engine, the meters, mapped memory,       *)
(* key-value arguments and the pools of numbers keep their books right.    *)
ContainersRight == subject = "containers" => Co!ContainersRight

(* No burst of cndpfwd begins before main is ready or after its ports or   *)
(* pool are gone; what goes under a running burst, goes only after the     *)
(* worker was told to quit or paused (LifeRight names the exceptions).  A  *)
(* burst sends every packet where the test says or frees it, and the rule  *)
(* table holds what the client sent.                                       *)
CndpfwdRight == subject = "cndpfwd" => Fwd!CndpfwdRight
===============================================================================
