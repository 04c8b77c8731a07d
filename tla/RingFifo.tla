------------------------------ MODULE RingFifo ------------------------------
(***************************************************************************)
(* What a CNDP ring promises its callers (lib/core/ring/cne_ring_api.h):   *)
(* a bounded FIFO.  An enqueue offers a table of objects and atomically    *)
(* appends a prefix of it or nothing; a dequeue atomically takes a prefix  *)
(* of the queue, and the objects it hands to its caller are exactly the    *)
(* ones it took.                                                           *)
(***************************************************************************)
EXTENDS Naturals, Sequences

CONSTANTS Producers, Consumers, Capacity, Values

VARIABLES
  queue,    \* the objects in the ring, oldest first
  hand      \* hand[t]: objects a producer offers / a consumer has taken

vars == <<queue, hand>>

Threads == Producers \cup Consumers

Init ==
  /\ queue = <<>>
  /\ hand = [t \in Threads |-> <<>>]

(* A producer calls enqueue with a table of objects. *)
Offer(p) ==
  /\ hand[p] = <<>>
  /\ hand'[p] \in Seq(Values)
  /\ hand' = [hand EXCEPT ![p] = hand'[p]]
  /\ UNCHANGED queue

(* The enqueue adds the first k objects of the table. *)
Append_(p, k) ==
  /\ k \in 1 .. Len(hand[p])
  /\ Len(queue) + k <= Capacity
  /\ queue' = queue \o SubSeq(hand[p], 1, k)
  /\ hand' = [hand EXCEPT ![p] = <<>>]

(* The enqueue adds nothing. *)
Refuse(p) ==
  /\ hand' = [hand EXCEPT ![p] = <<>>]
  /\ UNCHANGED queue

(* A dequeue takes the k oldest objects. *)
Take(c, k) ==
  /\ hand[c] = <<>>
  /\ k \in 1 .. Len(queue)
  /\ hand' = [hand EXCEPT ![c] = SubSeq(queue, 1, k)]
  /\ queue' = SubSeq(queue, k + 1, Len(queue))

(* The dequeue returns the objects it took. *)
Deliver(c) ==
  /\ hand' = [hand EXCEPT ![c] = <<>>]
  /\ UNCHANGED queue

Next ==
  \/ \E p \in Producers : Offer(p) \/ Refuse(p)
  \/ \E p \in Producers, k \in 1 .. Capacity : Append_(p, k)
  \/ \E c \in Consumers, k \in 1 .. Capacity : Take(c, k)
  \/ \E c \in Consumers : Deliver(c)

Spec == Init /\ [][Next]_vars
=============================================================================
