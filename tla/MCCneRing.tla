------------------------------ MODULE MCCneRing ------------------------------
(***************************************************************************)
(* The ring, with its cne_ring_count, and other structures that threads    *)
(* share, each on its own.  CneRing is extended; a behaviour is one of the *)
(* module that subject names, whose variables are v1 and the following     *)
(* ones if it is another.                                                  *)
(***************************************************************************)
EXTENDS CneRing, TLC

CONSTANT Subjects  \* the modules that a run looks at

VARIABLES
  subject, v1, v2, v3, v4, v5, v6, v7, v8, v9, v10, v11, v12

v == <<v1, v2, v3, v4, v5, v6, v7, v8, v9, v10, v11, v12>>

Bulk(k) == [behavior |-> "FIXED", max |-> k]
Burst(k) == [behavior |-> "VARIABLE", max |-> k]

OneByOne == {Bulk(1)}
InPairs == {Bulk(1), Burst(2)}
Mixed == {Bulk(0), Bulk(1), Bulk(2), Burst(3)}

Symmetry == Permutations(Producers) \cup Permutations(Consumers) \cup Permutations(Values)

Table == INSTANCE RingTable WITH
  W <- 7, CacheLine <- 16, HdrSize <- 32, ESizes <- {0, 4, 6, 8, 12},
  Counts <- {0, 1, 2, 3, 5, 7, 8, 33, 63}, Areas <- {48, 96}, MaxNum <- 7,
  Heads <- {0, 1, 3, 7, 9, 14, 120, 121, 123, 124, 125, 126, 127},
  ring <- v1, errno <- v2, call <- v3, mem <- v4, out <- v5

SemaOne(S) == [t \in S |-> "s1"]
SemaTwo(S) == [t \in S |-> IF t = "A" THEN "s1" ELSE "s2"]

(* Two cthreads also make timed waits, both on one scheduler or one of two. *)
SemaTimed ==
  (SemaOne({"A", "B", "C"}) :> {}) @@ (SemaTwo({"A", "B", "C"}) :> {})
    @@ (SemaOne({"A", "B"}) :> {"A", "B"}) @@ (SemaTwo({"A", "B"}) :> {"A"})

SemaHomes == DOMAIN SemaTimed

Sema == INSTANCE CthreadSema WITH
  Cthreads <- {"A", "B", "C"}, Schedulers <- {"s1", "s2"}, Homes <- SemaHomes,
  Queues <- {"sema"}, NoCthread <- "none", OrigCount <- 1, TimedBy <- SemaTimed,
  MaxCount <- 1,
  blocked <- v1, current <- v2, home <- v3, pending <- v4, pready <- v5, ready <- v6,
  count <- v7, pc <- v8, armed <- v9, sleeping <- v10, inCallback <- v11, signalled <- v12

H(k, len) == [kind |-> k, len |-> len, more |-> FALSE]
Eth == <<H("eth", 14)>>
Eths == {Eth, Eth \o <<H("vlan", 4)>>, Eth \o <<H("qinq", 8)>>}
Ip6s ==
  {<<H("ip6", 40)>> \o [i \in 1..x |-> H("hop", 8 * i)] : x \in 0..6}
    \cup {<<H("ip6", 40), H("dst", 16), H("frag", 8)>>}
Ips ==
  {<<H("ip4", 20)>>, <<H("ip4", 24)>>, <<[H("ip4", 20) EXCEPT !.more = TRUE]>>} \cup Ip6s
L4s ==
  {<<H(k, 8)>> : k \in {"udp", "gtpu", "gtpc"}}
    \cup {<<H("tcp", 20)>>, <<H("tcp", 32)>>, <<H("sctp", 12)>>, <<>>}

MbufFrames ==
  {e \o i \o l : e \in Eths, i \in Ips, l \in L4s}
    \cup {Eth \o <<H("arp", 28)>>, Eth \o <<H("mpls", 4)>>}
    \cup {Eth \o o \o t \o i \o l :
            o \in Ips, t \in {<<>>, <<H("gre", 8)>>}, i \in Ips, l \in {<<>>, <<H("tcp", 20)>>}}
    \cup {e \o <<H("ip4", 20), H("gre", 4)>> \o x \o y \o <<H("sctp", 12)>> :
            e \in Eths, x \in Eths, y \in Ips}

MbufPool3 == <<"A", "A", "B">>

Mbuf == INSTANCE Pktmbuf WITH
  Threads <- {1, 2}, PoolOf <- MbufPool3, BufLen <- 4, Headroom <- 1, PendingSz <- 2,
  TxSize <- 2, MaxRefs <- 3, MaxErr <- 1, MaxLost <- 1, Lens <- {1, 3}, Frames <- MbufFrames,
  MaxExtHdrs <- 5,
  clones <- v1, focus <- v2, freed <- v3, lost <- v4, mb <- v5, pc <- v6, refs <- v7,
  tx <- v8, frame <- v9, parsed <- v10, hist <- v11

(***************************************************************************)
(* The specification.                                                      *)
(***************************************************************************)
Ring == subject = "ring" /\ v1 = 0 /\ v2 = 0 /\ v3 = 0 /\ v4 = 0 /\ v5 = 0 /\ v6 = 0 /\ v7 = 0 /\
  v8 = 0 /\ v9 = 0 /\ v10 = 0 /\ v11 = 0 /\ v12 = 0

(* The ring alone: nobody asks for its count. *)
RingInit ==
  /\ Init
  /\ caller = {} /\ opc = "idle" /\ prod_tail_seen = 0 /\ count = 0
  /\ Ring

RingNext == Next /\ UNCHANGED <<observer, subject, v>>

RingSpec == RingInit /\ [][RingNext]_<<allvars, subject, v>>

Start ==
  \/ Ring
  \/ subject = "table" /\ Table!Init /\ v6 = 0 /\ v7 = 0 /\ v8 = 0 /\ v9 = 0 /\ v10 = 0 /\
     v11 = 0 /\ v12 = 0
  \/ subject = "sema" /\ Sema!Init
  \/ subject = "mbuf" /\ Mbuf!Init /\ v12 = 0

SharedInit ==
  /\ subject \in Subjects
  /\ CountInit /\ (subject # "ring" => caller = CHOOSE t \in Callers : TRUE)
  /\ Start

CountNext == RingStep \/ LoadProdTailFirst \/ cne_ring_count \/ Again

SharedNext ==
  \/ subject = "ring" /\ CountNext /\ UNCHANGED <<subject, v>>
  \/ subject = "table" /\ Table!Next /\ UNCHANGED <<subject, allvars, v6, v7, v8, v9, v10,
       v11, v12>>
  \/ subject = "sema" /\ Sema!Next /\ UNCHANGED <<subject, allvars>>
  \/ subject = "mbuf" /\ Mbuf!Next /\ UNCHANGED <<subject, allvars, v12>>

SharedSpec == SharedInit /\ [][SharedNext]_<<subject, allvars, v>>

(***************************************************************************)
(* Properties.                                                             *)
(***************************************************************************)
(* A cthread that waits for a semaphore is where a signal finds it, and a  *)
(* timed wait ends by itself, on one scheduler and on two.  On one         *)
(* scheduler and without timed waits the count also says how many permits  *)
(* are left or how many cthreads wait, and a signal wakes one that waits.  *)
SemaRight == subject = "sema" => Sema!PermitsExact /\ Sema!Reachable /\ Sema!TimedEnds

(* cne_ring_init gives a ring more slots than capacity, and its loops give *)
(* back what was put in, however calls are cut.  The count of a packet     *)
(* buffer is the number of references to it whatever threads share and     *)
(* free, a buffer that is referred to is in no pool and a free one is in   *)
(* one, its own unless a bulk free whose first buffer stays shared found   *)
(* it; when the last two references are dropped at the same time it may be *)
(* in none.  Its data stay inside it, and a frame gets the packet type of  *)
(* its headers.                                                            *)
BuffersRight ==
  /\ subject = "table" => Table!RoomForCapacity /\ Table!Placed /\ Table!RoundTrip
  /\ subject = "mbuf" => Mbuf!BuffersRight

(* "It decreases the reference counter, and if it reaches 0 it is freed."  *)
LastFrees == subject = "mbuf" => Mbuf!LastFrees
==============================================================================
