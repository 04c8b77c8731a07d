-------------------------------- MODULE Tcp --------------------------------
(***************************************************************************)
(* The TCP of CNET (lib/cnet/tcp): two endpoints over a network that may   *)
(* lose, duplicate and reorder segments.  "A" connects, "B" listens; A's   *)
(* application writes the bytes 1, 2, 3, ... and B's reads them.           *)
(*                                                                         *)
(* A transmission control block is the record ep[e].  Every function of    *)
(* cnet_tcp.c that changes it is an operator from a record to a record;    *)
(* the segments it sends are gathered in the field "out" and put on the    *)
(* network by the action.  Sequence numbers wrap at M = 2^SeqBits and are  *)
(* compared as the signed differences the seqLT family takes.  A timer is  *)
(* on or off; the keep timer, which only ends a handshake (SO_KEEPALIVE is *)
(* off), is on in every connection.  The graph walk that carries accepted  *)
(* data from the tcp_input node to the channel is the queue "hand".        *)
(***************************************************************************)
EXTENDS Integers, Sequences, FiniteSets

CONSTANTS SeqBits,        \* width of a sequence number
          Iss,            \* Iss[e]: the initial send sequence of e
          MaxMss, OptLen, \* max_mss, and the options every segment carries
          MaxWin,         \* TCP_MAXWIN
          MaxRxtShift,    \* TCP_MAXRXTSHIFT
          NBytes,         \* bytes the application of A writes
          WriteLens,      \* the lengths of its writes
          Settings        \* the bounds on lost, copied and overtaking segments
                          \* and on retransmission timers that fire too early;
                          \* whether the applications close: never, in good
                          \* order, or with data still in the buffers; the
                          \* receive buffer's cb_hiwat, and whether B's
                          \* application reads before a persist timer fires

VARIABLES ep,     \* the two endpoints
          net,    \* net[e]: the segments on their way to e
          wrote,  \* how many bytes A's application has written
          dlv,    \* the bytes B's TCP has accepted, in order
          got,    \* how many of them B's application has read
          budget  \* what is left of the bounds, one of Settings at first

vars == <<ep, net, wrote, dlv, got, budget>>

Ends == {"A", "B"}
Peer(e) == CHOOSE p \in Ends : p # e
M == 2 ^ SeqBits
Lower(a, b) == IF a < b THEN a ELSE b
Higher(a, b) == IF a > b THEN a ELSE b
Signed(x) == LET u == x % M IN IF u < M \div 2 THEN u ELSE u - M

seqLT(a, b) == Signed(a - b) < 0
seqLEQ(a, b) == Signed(a - b) <= 0
seqGT(a, b) == Signed(a - b) > 0

\* Op at the value v, which is computed once.
At(v, Op(_)) == CHOOSE r \in {Op(x) : x \in {v}} : TRUE

OutputFlags(s) ==
    CASE s = "SYN_SENT" -> {"SYN"}
      [] s = "SYN_RCVD" -> {"SYN", "ACK"}
      [] s \in {"FIN_WAIT_1", "LAST_ACK"} -> {"FIN", "ACK"}
      [] OTHER -> {"ACK"}

InitialCwnd == 2 * MaxMss

(***************************************************************************)
(* A block without a connection: its channel is free, or B only listens.   *)
(***************************************************************************)
NoTcb == [state |-> "CLOSED", ch |-> "none", queue |-> "none",
          snd_una |-> 0, snd_nxt |-> 0, snd_max |-> 0, snd_wnd |-> 0,
          snd_wl1 |-> 0, snd_wl2 |-> 0, max_sndwnd |-> 0,
          snd_cwnd |-> 0, snd_ssthresh |-> 0, dupacks |-> 0, rxtshift |-> 0,
          rcv_nxt |-> 0, rcv_adv |-> 0, tflags |-> {}, timers |-> {},
          snd |-> <<>>, rcv |-> <<>>, hand |-> <<>>, out |-> <<>>]

cnet_tcb_new(e) ==
    [NoTcb EXCEPT !.snd_una = Iss[e], !.snd_nxt = Iss[e], !.snd_max = Iss[e],
                  !.snd_cwnd = InitialCwnd, !.snd_ssthresh = 2 * InitialCwnd]

RcvSize == budget.size

cb_space(t) == Higher(0, RcvSize - Len(t.rcv))

Emit(t, flags, seq, ack, wnd, data) ==
    [t EXCEPT !.out = Append(@, [flags |-> flags, seq |-> seq % M,
                                 ack |-> ack % M, wnd |-> wnd, data |-> data])]

tcp_do_response(t, seq, ack, flags) ==
    Emit(t, flags, seq, ack,
         IF "RST" \in flags THEN 0 ELSE Lower(cb_space(t), MaxWin), <<>>)

(***************************************************************************)
(* Moving to a new state.  CLOSED is tcb_cleanup: the timers stop, both    *)
(* buffers are flushed and the blocks go back to their pools.              *)
(***************************************************************************)
tcp_do_state_change(t, new_state) ==
    CASE new_state = "CLOSED" -> [NoTcb EXCEPT !.out = t.out]
      [] new_state = "CLOSE_WAIT" ->
            [t EXCEPT !.state = new_state, !.ch = "disconnecting"]
      [] new_state = "ESTABLISHED" ->
            [t EXCEPT !.state = new_state, !.ch = "connected",
                      !.queue = IF @ = "half_open" THEN "backlog" ELSE @]
      [] new_state = "FIN_WAIT_1" ->
            [t EXCEPT !.state = new_state, !.ch = "disconnecting",
                      !.timers = {"2MSL"}]
      [] new_state = "TIME_WAIT" ->
            [t EXCEPT !.state = new_state, !.timers = {"2MSL"}]
      [] OTHER -> [t EXCEPT !.state = new_state]

tcp_set_persist(t) ==
    [t EXCEPT !.timers = @ \cup {"PERSIST"},
              !.rxtshift = Lower(@ + 1, MaxRxtShift)]

(***************************************************************************)
(* tcp_output.  One turn of its loop is: how much may be sent (Plan), is   *)
(* there a reason to send (Due), and the segment itself (Transmit).        *)
(***************************************************************************)
Plan(t) ==
    LET off == (t.snd_nxt - t.snd_una) % M
        cc == Len(t.snd)
        usable == Lower(t.snd_wnd, t.snd_cwnd)
        force == "FORCE_TX" \in t.tflags
        probe == force /\ usable = 0
        win == IF probe THEN 1 ELSE usable
        state_flags == OutputFlags(t.state)
                         \ (IF probe /\ off < cc THEN {"FIN"} ELSE {})
        raw == IF "SYN" \in state_flags THEN 0
               ELSE Signed(Lower(cc, win) - off)
        len == Lower(Higher(raw, 0), MaxMss)
        t1 == IF force /\ ~probe
                THEN [t EXCEPT !.timers = @ \ {"PERSIST"}, !.rxtshift = 0]
                ELSE t
        t2 == IF raw < 0 /\ win = 0
                THEN [t1 EXCEPT !.timers = @ \ {"REXMT"}, !.snd_nxt = t.snd_una]
                ELSE t1
    IN [tcb |-> t2, off |-> off, len |-> len, more |-> raw > MaxMss,
        flags |-> IF seqLT(t2.snd_nxt + len, t2.snd_una + cc)
                    THEN state_flags \ {"FIN"} ELSE state_flags]

NagleSends(p, idle) ==
    /\ p.len \in 1 .. MaxMss - 1
    /\ idle \/ "NAGLE_CREDIT" \in p.tcb.tflags

WindowUpdateDue(t) ==
    LET adv == (Lower(cb_space(t), MaxWin) - (t.rcv_adv - t.rcv_nxt)) % M
    IN cb_space(t) > 0 /\ (adv >= 2 * MaxMss \/ (2 * adv) % M >= RcvSize)

Due(p, idle) ==
    LET t == p.tcb
    IN \/ /\ p.len > 0
          /\ \/ p.len = MaxMss
             \/ NagleSends(p, idle)
             \/ "FORCE_TX" \in t.tflags
             \/ p.len >= t.max_sndwnd \div 2
             \/ seqLT(t.snd_nxt, t.snd_max)
       \/ WindowUpdateDue(t)
       \/ "ACK_NOW" \in t.tflags
       \/ "SYN" \in p.flags
       \/ seqGT(0, t.snd_una)              \* snd_up, which stays zero
       \/ /\ "FIN" \in p.flags
          /\ "SENT_FIN" \notin t.tflags \/ t.snd_nxt = t.snd_una

Transmit(e, p) ==
    LET t == p.tcb
        syn == "SYN" \in p.flags
        len == Lower(p.len, MaxMss - OptLen)
        cut == len < p.len
        flags == IF cut THEN p.flags \ {"FIN"} ELSE p.flags
        fin == "FIN" \in flags
        nxt == IF syn THEN Iss[e]
               ELSE IF fin /\ "SENT_FIN" \in t.tflags /\ t.snd_nxt = t.snd_max
                 THEN (t.snd_nxt - 1) % M ELSE t.snd_nxt
        persisting == "PERSIST" \in t.timers
        seq == IF len > 0 \/ syn \/ fin \/ persisting THEN nxt ELSE t.snd_max
        space == cb_space(t)
        open == (t.rcv_adv - t.rcv_nxt) % M
        win == Higher(open, IF space < RcvSize \div 4 /\ space < MaxMss THEN 0
                            ELSE Lower(space, MaxWin))
        moves == "FORCE_TX" \notin t.tflags \/ ~persisting
        end == (nxt + len + (IF moves /\ (syn \/ fin) THEN 1 ELSE 0)) % M
        rexmt == moves /\ "REXMT" \notin t.timers /\ end # t.snd_una
        t1 == [t EXCEPT
                 !.snd_nxt = IF moves THEN end ELSE nxt,
                 !.snd_max = IF seqGT(end, @) THEN end ELSE @,
                 !.timers = IF rexmt THEN (@ \cup {"REXMT"}) \ {"PERSIST"} ELSE @,
                 !.rxtshift = IF rexmt /\ persisting THEN 0 ELSE @,
                 !.rcv_adv = IF win > 0 /\ seqGT(t.rcv_nxt + win, @)
                               THEN (t.rcv_nxt + win) % M ELSE @,
                 !.tflags = (@ \ ({"FORCE_TX"} \cup
                                    IF "ACK" \in flags THEN {"ACK_NOW", "DELAYED_ACK"}
                                    ELSE {}))
                            \cup (IF moves /\ fin THEN {"SENT_FIN"} ELSE {})]
    IN [tcb |-> Emit(t1, flags, seq, t.rcv_nxt, win,
                     SubSeq(t.snd, p.off + 1, p.off + len)),
        more |-> p.more \/ cut]

Forgotten(t) == t.snd # <<>> /\ {"REXMT", "PERSIST"} \cap t.timers = {}

RECURSIVE OutputLoop(_, _, _)
OutputLoop(e, p0, idle) ==
    LET p == IF NagleSends(p0, idle)
               THEN [p0 EXCEPT !.tcb.tflags = @ \ {"NAGLE_CREDIT"}] ELSE p0
        Again(sent) == IF sent.more THEN OutputLoop(e, Plan(sent.tcb), idle) ELSE sent.tcb
    IN CASE Due(p0, idle) -> At(Transmit(e, p), Again)
         [] ~Due(p0, idle) /\ Forgotten(p.tcb) ->
                tcp_set_persist([p.tcb EXCEPT !.rxtshift = 0])
         [] OTHER -> p.tcb

tcp_output(e, t) ==
    LET Start(u) == LET idle == u.snd_max = u.snd_una
                    IN OutputLoop(e, Plan(IF idle THEN [u EXCEPT !.tflags = @ \cup {"NAGLE_CREDIT"}]
                                          ELSE u), idle)
    IN At(t, Start)

Flagged(t, f) == [t EXCEPT !.tflags = @ \cup {f}]

(***************************************************************************)
(* Input.  A segment's len counts its SYN and FIN; each handler returns    *)
(* the new block, the case analysis of do_segment_others being a chain of  *)
(* operators that end early (done) or go on.                               *)
(***************************************************************************)
Len4(seg) == Len(seg.data) + Cardinality(seg.flags \cap {"SYN", "FIN"})

tcp_drop_after_ack(e, seg, t) ==
    IF "RST" \in seg.flags THEN t ELSE tcp_output(e, Flagged(t, "ACK_NOW"))

tcp_drop_with_reset(seg, t) ==
    CASE "RST" \in seg.flags -> t
      [] "ACK" \in seg.flags -> tcp_do_response(t, seg.ack, 0, {"RST"})
      [] OTHER -> tcp_do_response(t, 0, Len4(seg) + Cardinality(seg.flags \cap {"SYN"}),
                                  {"RST", "ACK"})

\* The acceptability test; the SYN and FIN are counted a second time.
tcp_do_segment(seg, t, rcv_wnd) ==
    LET seglen == Len4(seg) + Cardinality(seg.flags \cap {"SYN", "FIN"})
        InWindow(s) == seqLEQ(t.rcv_nxt, s) /\ seqLT(s, t.rcv_nxt + rcv_wnd)
    IN IF rcv_wnd = 0 THEN seg.flags \cap {"ACK", "RST"} # {}
       ELSE InWindow(seg.seq) \/ (seglen > 0 /\ InWindow(seg.seq + seglen - 1))

cnet_drop_acked_data(t, acked) == [t EXCEPT !.snd = SubSeq(@, acked + 1, Len(@))]

tcp_update_acked_data(seg, t) ==
    LET acked == Lower((seg.ack - t.snd_una) % M, Len(t.snd))
        t1 == [cnet_drop_acked_data(t, acked) EXCEPT
                 !.snd_wnd = (@ - acked) % M,
                 !.snd_una = seg.ack,
                 !.snd_nxt = IF seqLT(@, seg.ack) THEN seg.ack ELSE @]
        fin == "OUR_FIN_ACKED" \in t.tflags
    IN CASE t.state = "FIN_WAIT_1" /\ fin ->
                tcp_do_state_change([t1 EXCEPT !.ch = "disconnected"], "FIN_WAIT_2")
         [] t.state = "CLOSING" /\ fin -> tcp_do_state_change(t1, "TIME_WAIT")
         [] OTHER -> t1

HalfWindow(t) == MaxMss * Higher(2, (Lower(t.snd_wnd, t.snd_cwnd) \div 2) \div MaxMss)

tcp_update_cwnd(t) ==
    [t EXCEPT !.snd_cwnd =
        Lower(MaxWin, @ + (IF @ > t.snd_ssthresh THEN (MaxMss * MaxMss) \div @ ELSE MaxMss))]

tcb_segment_update(seg, t) ==
    Flagged([t EXCEPT !.snd_wnd = seg.wnd, !.snd_wl1 = seg.seq, !.snd_wl2 = seg.ack,
                      !.max_sndwnd = Higher(@, seg.wnd)], "FORCE_TX")

\* Data taken from a segment goes to the channel by way of the graph.
_process_data(seg, t) ==
    [t EXCEPT !.rcv_nxt = (@ + Len(seg.data)) % M, !.hand = @ \o seg.data]

AckEverySecond(e, t) ==
    IF "DELAYED_ACK" \in t.tflags THEN tcp_output(e, Flagged(t, "ACK_NOW"))
    ELSE Flagged(t, "DELAYED_ACK")

\* A fault: data ahead of RCV.NXT is taken too.
TakesDataAhead(e, seg, t) ==
    CASE Len4(seg) = 0 -> t
      [] Len4(seg) > 0 /\ t.state = "ESTABLISHED" ->
            AckEverySecond(e, _process_data(seg, t))
      [] OTHER -> tcp_output(e, Flagged(t, "ACK_NOW"))

do_process_data(e, seg, t) ==
    CASE Len4(seg) = 0 -> t
      [] Len4(seg) > 0 /\ seg.seq = t.rcv_nxt /\ t.state = "ESTABLISHED" ->
            AckEverySecond(e, _process_data(seg, t))
      [] OTHER -> tcp_output(e, Flagged(t, "ACK_NOW"))

Done(t) == [done |-> TRUE, tcb |-> t]
GoOn(t) == [done |-> FALSE, tcb |-> t]

\* The third duplicate ACK retransmits; the later ones open the window.
DuplicateAck(e, seg, t) ==
    LET dup == t.dupacks + 1
        resent == tcp_output(e, [t EXCEPT !.snd_ssthresh = HalfWindow(t), !.dupacks = dup,
                                          !.timers = @ \ {"REXMT"}, !.snd_nxt = seg.ack,
                                          !.snd_cwnd = MaxMss])
    IN CASE "REXMT" \notin t.timers \/ seg.ack # t.snd_una ->
                GoOn([t EXCEPT !.dupacks = 0])
         [] "REXMT" \in t.timers /\ seg.ack = t.snd_una /\ dup = 3 ->
                GoOn([resent EXCEPT !.snd_cwnd = resent.snd_ssthresh + 3 * MaxMss,
                                    !.snd_nxt = IF seqGT(t.snd_max, @) THEN t.snd_max ELSE @])
         [] "REXMT" \in t.timers /\ seg.ack = t.snd_una /\ dup > 3 ->
                Done(tcp_output(e, [t EXCEPT !.dupacks = dup, !.snd_cwnd = @ + MaxMss]))
         [] OTHER -> GoOn([t EXCEPT !.dupacks = dup])

CheckAck(e, seg, t) ==
    CASE seqLEQ(seg.ack, t.snd_una) ->
            IF Len4(seg) = 0 /\ seg.wnd = t.snd_wnd THEN DuplicateAck(e, seg, t)
            ELSE GoOn(tcp_update_acked_data(seg, [t EXCEPT !.dupacks = 0]))
      [] seqGT(seg.ack, t.snd_una) /\ seqGT(seg.ack, t.snd_max) ->
            Done(tcp_drop_after_ack(e, seg, t))
      [] OTHER ->
            GoOn(tcp_update_acked_data(seg,
                   [t EXCEPT !.dupacks = 0,
                             !.snd_cwnd = IF t.dupacks >= 3 THEN t.snd_ssthresh ELSE @]))

\* In LAST_ACK and in TIME_WAIT.
LateAck(e, seg, t) ==
    CASE t.state = "LAST_ACK" ->
            IF "OUR_FIN_ACKED" \in t.tflags THEN Done(tcp_do_state_change(t, "CLOSED"))
            ELSE GoOn(t)
      [] t.state = "TIME_WAIT" /\ "FIN" \in seg.flags ->
            Done(tcp_drop_after_ack(e, seg, tcp_do_state_change(t, "TIME_WAIT")))
      [] OTHER -> Done(t)

AckByState(e, seg, t) ==
    CASE t.state = "SYN_RCVD" ->
            IF seqGT(t.snd_una, seg.ack) \/ seqGT(seg.ack, t.snd_max)
              THEN Done(tcp_drop_with_reset(seg, t))
              ELSE CheckAck(e, seg, [tcp_do_state_change(t, "ESTABLISHED") EXCEPT
                                       !.snd_wl1 = (seg.seq - 1) % M])
      [] t.state \in {"ESTABLISHED", "FIN_WAIT_1", "FIN_WAIT_2", "CLOSE_WAIT", "CLOSING"} ->
            CheckAck(e, seg, t)
      [] OTHER -> LateAck(e, seg, t)

\* A fault: any acceptable ACK stops the retransmission timer.
TimerStoppedByAnyAck(seg, t) ==
    tcp_update_cwnd([t EXCEPT !.rxtshift = 0, !.timers = @ \ {"REXMT"}])

WindowAndTimers(seg, t) ==
    LET t1 == IF /\ seqLEQ(t.snd_wl1, seg.seq) /\ seqLEQ(t.snd_wl2, seg.ack)
                 /\ seg.wnd > t.snd_wnd
                THEN tcb_segment_update(seg, t) ELSE t
        t2 == [t1 EXCEPT !.rxtshift = 0]     \* tcp_calculate_RTT, by the timestamp
        t3 == CASE seg.ack = t.snd_max -> [t2 EXCEPT !.timers = @ \ {"REXMT"}]
                [] seg.ack # t.snd_max /\ "PERSIST" \notin t.timers ->
                      [t2 EXCEPT !.timers = @ \cup {"REXMT"}]
                [] OTHER -> t2
    IN tcp_update_cwnd(t3)

\* The eighth check: RCV.NXT moves over the FIN, wherever it lies.
CheckFin(seg, t) ==
    LET t1 == [t EXCEPT !.rcv_nxt = (@ + 1) % M]
        closing == tcp_do_state_change(t1, "CLOSE_WAIT")
    IN CASE "FIN" \notin seg.flags -> t
         [] "FIN" \in seg.flags /\ t.state = "ESTABLISHED" ->
              tcp_do_state_change(
                tcp_do_response(closing, t.snd_nxt, t1.rcv_nxt, {"ACK"}), "LAST_ACK")
         [] "FIN" \in seg.flags /\ t.state = "FIN_WAIT_1" ->
              tcp_do_state_change(t1, IF t.snd_nxt = seg.ack THEN "TIME_WAIT" ELSE "CLOSING")
         [] "FIN" \in seg.flags /\ t.state = "FIN_WAIT_2" ->
              tcp_do_state_change(t1, "TIME_WAIT")
         [] "FIN" \in seg.flags /\ t.state = "TIME_WAIT" ->
              [Flagged(t1, "ACK_NOW") EXCEPT !.timers = @ \cup {"2MSL"}]
         [] OTHER -> t1

CheckRstSynAck(seg, t) ==
    CASE "RST" \in seg.flags -> Done(tcp_do_state_change(t, "CLOSED"))
      [] "RST" \notin seg.flags /\ "SYN" \in seg.flags ->
            Done(tcp_do_state_change(tcp_drop_with_reset(seg, t), "CLOSED"))
      [] {"RST", "SYN", "ACK"} \cap seg.flags = {} -> Done(t)
      [] OTHER -> GoOn(t)

do_segment_others(e, seg0, t0, rcv_wnd) ==
    LET len == Len4(seg0)
        before == Signed(seg0.seq - (t0.rcv_nxt + rcv_wnd))
        trim == before + len
        edge == trim >= len /\ trim > 0
        \* pktmbuf_prepend makes the segment longer, by bytes that were not sent
        seg == IF trim <= 0 THEN seg0
               ELSE [seg0 EXCEPT !.data = [i \in 1 .. trim |-> 0] \o @,
                                 !.flags = @ \ {"FIN"}]
        t == IF edge THEN Flagged(t0, "ACK_NOW") ELSE t0
        fin_acked == /\ (seg.ack - t.snd_una) % M > Len(t.snd)
                     /\ "SENT_FIN" \in t.tflags
        Text(t1) == IF t1.state = "TIME_WAIT" THEN t1 ELSE do_process_data(e, seg, t1)
        Rest(acked) ==
            IF acked.done THEN acked.tcb
            ELSE CheckFin(seg, At(WindowAndTimers(seg, acked.tcb), Text))
    IN CASE ~tcp_do_segment(seg0, t0, rcv_wnd) \/ before > 0
                \/ (edge /\ seg0.seq # t0.rcv_nxt) -> tcp_drop_after_ack(e, seg0, t0)
         [] OTHER ->
              LET checked == CheckRstSynAck(seg, t)
              IN IF checked.done THEN checked.tcb
                 ELSE At(AckByState(e, seg, IF fin_acked THEN Flagged(t, "OUR_FIN_ACKED")
                                            ELSE t), Rest)

do_segment_syn_sent(e, seg, t, rcv_wnd) ==
    LET ack == "ACK" \in seg.flags
        t1 == IF ack THEN [t EXCEPT !.snd_una = seg.ack,
                                    !.snd_nxt = IF seqLT(@, seg.ack) THEN seg.ack ELSE @]
              ELSE t
        opened == [t1 EXCEPT !.timers = @ \ {"REXMT"}, !.rcv_nxt = (seg.seq + 1) % M,
                             !.rcv_adv = (seg.seq + 1 + (IF ack THEN rcv_wnd ELSE 0)) % M]
        next == IF seqGT(t1.snd_una, Iss[e])
                  THEN [tcp_do_state_change(opened, "ESTABLISHED") EXCEPT
                          !.snd_wnd = seg.wnd, !.snd_wl1 = (seg.seq - 1) % M,
                          !.snd_cwnd = InitialCwnd]
                  ELSE tcp_do_state_change(opened, "SYN_RCVD")
    IN CASE ack /\ (seqLEQ(seg.ack, Iss[e]) \/ seqGT(seg.ack, t.snd_max)) -> t
         [] OTHER ->
              CASE "RST" \in seg.flags -> IF ack THEN tcp_do_state_change(t1, "CLOSED") ELSE t1
                [] "RST" \notin seg.flags /\ "SYN" \in seg.flags ->
                      do_process_data(e, seg, Flagged(next, "ACK_NOW"))
                [] OTHER -> t1

do_passive_open(e, seg) ==
    [cnet_tcb_new(e) EXCEPT !.state = "SYN_RCVD", !.queue = "half_open",
                            !.rcv_nxt = (seg.seq + 1) % M, !.rcv_adv = (seg.seq + 1) % M,
                            !.snd_wnd = seg.wnd, !.tflags = {"ACK_NOW"}]

\* A segment without a connection: only B's listener may take it.
do_segment_listen(e, seg) ==
    IF e = "B" /\ seg.flags = {"SYN"} THEN tcp_output(e, do_passive_open(e, seg)) ELSE NoTcb

tcp_header_prediction(e, seg, t) ==
    LET t1 == [cnet_drop_acked_data(t, (seg.ack - t.snd_una) % M) EXCEPT
                 !.snd_una = seg.ack, !.rxtshift = 0,
                 !.timers = CASE seg.ack = t.snd_max -> @ \ {"REXMT"}
                              [] seg.ack # t.snd_max /\ "PERSIST" \notin @ -> @ \cup {"REXMT"}
                              [] OTHER -> @]
    IN CASE /\ seg.data = <<>> /\ seqGT(seg.ack, t.snd_una)
            /\ seqLEQ(seg.ack, t.snd_max) /\ t.snd_cwnd >= t.snd_wnd ->
                GoOn(IF t1.snd # <<>> THEN tcp_output(e, t1) ELSE t1)
         [] /\ seg.data # <<>> /\ seg.ack = t.snd_una
            /\ Len(seg.data) <= cb_space(t) ->
                Done(AckEverySecond(e, _process_data(seg, t)))
         [] OTHER -> GoOn(t)

do_segment_arrives(e, seg, t) ==
    LET rcv_wnd == Higher(cb_space(t), Signed(t.rcv_adv - t.rcv_nxt))
    IN IF t.state = "SYN_SENT" THEN do_segment_syn_sent(e, seg, t, rcv_wnd)
       ELSE do_segment_others(e, seg, t, rcv_wnd)

cnet_tcp_input(e, seg, t) ==
    LET predicted == IF /\ t.state = "ESTABLISHED" /\ seg.flags = {"ACK"}
                        /\ seg.seq = t.rcv_nxt /\ seg.wnd # 0 /\ seg.wnd = t.snd_wnd
                        /\ t.snd_nxt = t.snd_max
                       THEN tcp_header_prediction(e, seg, t) ELSE GoOn(t)
        Trailing(arrived) == IF arrived.state \in {"CLOSED", "SYN_RCVD"} THEN arrived
                             ELSE tcp_output(e, arrived)
        Handle(first) == IF first.done THEN first.tcb
                         ELSE At(do_segment_arrives(e, seg, first.tcb), Trailing)
    IN IF t.state = "CLOSED" THEN do_segment_listen(e, seg) ELSE At(predicted, Handle)

-----------------------------------------------------------------------------
(***************************************************************************)
(* The actions.                                                            *)
(***************************************************************************)
Init == /\ ep = [e \in Ends |-> NoTcb]
        /\ net = [e \in Ends |-> <<>>]
        /\ wrote = 0 /\ dlv = <<>> /\ got = 0
        /\ budget \in Settings

\* e's block becomes t; what it sent leaves, given what else is on the way to e.
Step(e, t, inbound) ==
    /\ ep' = [ep EXCEPT ![e] = [t EXCEPT !.out = <<>>]]
    /\ net' = [net EXCEPT ![e] = inbound, ![Peer(e)] = @ \o t.out]

Local(e, t) == Step(e, t, net[e]) /\ UNCHANGED <<dlv, got>>

Without(s, i) == SubSeq(s, 1, i - 1) \o SubSeq(s, i + 1, Len(s))

\* Segment i of those on their way to e arrives, and perhaps again later.
Deliver(e, i, again) ==
    /\ i \in 1 .. Lower(Len(net[e]), 1 + budget.over)
    /\ again => budget.copy > 0
    /\ \E t \in {cnet_tcp_input(e, net[e][i], ep[e])} :
         LET fresh == e = "B" /\ ep[e].state = "CLOSED" /\ t.state # "CLOSED"
             taken == SubSeq(t.hand, Len(ep[e].hand) + 1, Len(t.hand))
         IN /\ Step(e, t, IF again THEN net[e] ELSE Without(net[e], i))
            /\ dlv' = IF fresh THEN <<>> ELSE IF e = "B" THEN dlv \o taken ELSE dlv
            /\ got' = IF fresh THEN 0 ELSE got
    /\ budget' = [budget EXCEPT !.copy = @ - (IF again THEN 1 ELSE 0),
                                !.over = @ - (i - 1)]
    /\ UNCHANGED wrote

Lose(e) ==
    /\ net[e] # <<>> /\ budget.loss > 0
    /\ net' = [net EXCEPT ![e] = Tail(@)]
    /\ budget' = [budget EXCEPT !.loss = @ - 1]
    /\ UNCHANGED <<ep, wrote, dlv, got>>

\* The chnl_callback node ends the walk of the accepted data.
ChnlCallback(e) ==
    /\ ep[e].hand # <<>>
    /\ ep' = [ep EXCEPT ![e].rcv = @ \o ep[e].hand, ![e].hand = <<>>]
    /\ UNCHANGED <<net, wrote, dlv, got, budget>>

cnet_tcp_connect ==
    /\ ep["A"] = NoTcb /\ budget.dial > 0
    /\ Local("A", tcp_output("A", [cnet_tcb_new("A") EXCEPT !.state = "SYN_SENT",
                                     !.ch = "connecting", !.tflags = {"ACK_NOW"}]))
    /\ budget' = [budget EXCEPT !.dial = @ - 1]
    /\ UNCHANGED wrote

\* tcp_chnl_send and the tcp_output node that appends the data and sends.
tcp_chnl_send(n) ==
    LET t == ep["A"]
    IN /\ t.ch = "connected" /\ wrote + n <= NBytes
       /\ wrote' = wrote + n
       /\ Local("A", tcp_output("A", [t EXCEPT !.snd = @ \o [i \in 1 .. n |-> wrote + i]]))
       /\ UNCHANGED budget

tcp_chnl_accept ==
    /\ ep["B"].queue = "backlog"
    /\ ep' = [ep EXCEPT !["B"].queue = "none"]
    /\ UNCHANGED <<net, wrote, dlv, got, budget>>

tcp_chnl_recv ==
    /\ ep["B"].queue = "none" /\ ep["B"].rcv # <<>>
    /\ got' = got + Len(ep["B"].rcv)
    /\ ep' = [ep EXCEPT !["B"].rcv = <<>>]
    /\ UNCHANGED <<net, wrote, dlv, budget>>

cnet_tcp_close(e, t) ==
    CASE t.state \in {"SYN_RCVD", "ESTABLISHED"} ->
            tcp_output(e, Flagged(tcp_do_state_change(t, "FIN_WAIT_1"), "ACK_NOW"))
      [] t.state = "CLOSE_WAIT" ->
            tcp_output(e, Flagged(tcp_do_state_change(t, "LAST_ACK"), "ACK_NOW"))
      [] OTHER -> tcp_do_state_change(t, "CLOSED")

cnet_tcp_abort(t) ==
    tcp_do_state_change(
        IF t.state \in {"SYN_RCVD", "ESTABLISHED", "CLOSE_WAIT", "FIN_WAIT_1", "FIN_WAIT_2"}
          THEN tcp_do_response(t, t.snd_nxt, t.rcv_nxt, {"RST"}) ELSE t, "CLOSED")

\* The application of e closes its channel; B's only has one once accepted.
tcp_chnl_close(e) ==
    LET t == ep[e]
    IN /\ t.state # "CLOSED" /\ t.queue = "none"
       /\ \/ budget.close = "early"
          \/ /\ budget.close = "orderly"
             /\ t.ch = "connected" => IF e = "A" THEN wrote = NBytes /\ t.snd = <<>> ELSE got = NBytes
       /\ Local(e, IF t.ch = "connected" THEN cnet_tcp_close(e, t) ELSE cnet_tcp_abort(t))
       /\ UNCHANGED <<wrote, budget>>

(***************************************************************************)
(* The timers.  The delayed ACK goes first (200 ms); the slow ones last    *)
(* longer than a segment stays in the network, except that a budget of     *)
(* retransmissions may come too early.                                     *)
(***************************************************************************)
Quiet == \A e \in Ends : net[e] = <<>> /\ ep[e].hand = <<>>
                         /\ "DELAYED_ACK" \notin ep[e].tflags

tcp_fast_timo(e) ==
    /\ "DELAYED_ACK" \in ep[e].tflags
    /\ Local(e, tcp_output(e, [ep[e] EXCEPT !.tflags =
                                 (@ \ {"DELAYED_ACK"}) \cup {"ACK_NOW"}]))
    /\ UNCHANGED <<wrote, budget>>

RexmtExpired(e, t) ==
    IF t.rxtshift = MaxRxtShift THEN tcp_do_state_change(t, "CLOSED")
    ELSE tcp_output(e, [t EXCEPT !.rxtshift = @ + 1, !.snd_nxt = t.snd_una,
                                 !.snd_cwnd = MaxMss, !.snd_ssthresh = HalfWindow(t),
                                 !.dupacks = 0, !.tflags = @ \cup {"ACK_NOW"}])

PersistExpired(e, t) ==
    IF t.rxtshift = MaxRxtShift THEN tcp_do_state_change(t, "CLOSED")
    ELSE tcp_set_persist(tcp_output(e, Flagged([t EXCEPT !.timers = @ \ {"PERSIST"}],
                                               "FORCE_TX")))

\* TCPT_2MSL outside TIME_WAIT, and TCPT_KEEP in a handshake: nobody answered.
Abandoned(t) == \/ "2MSL" \in t.timers
                \/ t.state \in {"SYN_SENT", "SYN_RCVD"}

tcp_slow_timo(e) ==
    LET t == ep[e]
    IN \/ /\ "REXMT" \in t.timers
          /\ \/ Quiet /\ UNCHANGED budget
             \/ ~Quiet /\ budget.early > 0 /\ budget' = [budget EXCEPT !.early = @ - 1]
          /\ Local(e, RexmtExpired(e, t))
          /\ UNCHANGED wrote
       \/ /\ "PERSIST" \in t.timers /\ Quiet
          /\ budget.prompt => ep["B"].rcv = <<>>
          /\ Local(e, PersistExpired(e, t))
          /\ UNCHANGED <<wrote, budget>>
       \/ /\ Abandoned(t) /\ Quiet
          /\ Local(e, tcp_do_state_change(t, "CLOSED"))
          /\ UNCHANGED <<wrote, budget>>

Next ==
    \/ \E e \in Ends :
         \/ \E i \in 1 .. Len(net[e]), again \in BOOLEAN : Deliver(e, i, again)
         \/ Lose(e)
         \/ ChnlCallback(e)
         \/ tcp_chnl_close(e)
         \/ tcp_fast_timo(e)
         \/ tcp_slow_timo(e)
    \/ cnet_tcp_connect
    \/ \E n \in WriteLens : tcp_chnl_send(n)
    \/ tcp_chnl_accept
    \/ tcp_chnl_recv

Spec == Init /\ [][Next]_vars

-----------------------------------------------------------------------------
(***************************************************************************)
(* Properties.                                                             *)
(***************************************************************************)

\* While a connection is up, what B's TCP has accepted is the stream A's
\* application wrote, in order, without a gap, a copy or a made-up byte; A's
\* send buffer still holds every byte B has not accepted, so that an ACK
\* never releases data (tcp_update_acked_data) the peer did not take; and
\* una, nxt, max stay in order (tcp_output, tcp_process_timer).
StreamExact ==
    LET a == ep["A"]
        b == ep["B"]
        freed == wrote - Len(a.snd)
    IN /\ b.state # "CLOSED" => \A i \in 1 .. Len(dlv) : dlv[i] = i
       /\ a.state \notin {"CLOSED", "SYN_SENT"} /\ b.state # "CLOSED" =>
             /\ freed <= Len(dlv)
             /\ \A i \in 1 .. Len(a.snd) : a.snd[i] = freed + i
       /\ \A e \in Ends : ep[e].state # "CLOSED" =>
             seqLEQ(ep[e].snd_una, ep[e].snd_nxt) /\ seqLEQ(ep[e].snd_nxt, ep[e].snd_max)

\* Nobody waits for nobody.  When no segment is under way and no delayed
\* ACK is due, an endpoint with unacknowledged data or an unfinished close
\* still has a timer on that will move it: what tcp_output, the ACK handling
\* and tcp_process_timer each turn off is never the last one needed.
NothingForgotten ==
    Quiet => \A e \in Ends :
        LET t == ep[e]
        IN /\ t.snd # <<>> /\ t.state # "CLOSED" => {"REXMT", "PERSIST"} \cap t.timers # {}
           /\ t.state \in {"SYN_SENT", "SYN_RCVD", "FIN_WAIT_1", "FIN_WAIT_2",
                          "CLOSING", "LAST_ACK", "TIME_WAIT"} => t.timers # {}
====
