-------------------------------- MODULE Tcp ----------------------------------
(* One connection of the TCP client, core/tcp.c: active open, one           *)
(* unacknowledged segment at a time, immediate ACKs, no reassembly.         *)
(*                                                                          *)
(* Every operator maps the host record h of module SocketEvents to the one  *)
(* the function of that name leaves. Timers are abstracted: a caller says   *)
(* which of them have elapsed. Statistics, the RTO estimate and the bytes   *)
(* of headers are left out; sequence numbers keep their wrap-around.        *)
EXTENDS SocketEvents

CONSTANTS
    SeqSpace,             \* 2^32: sequence numbers
    Mss,                  \* TCP_LOCAL_MSS, also what the peer announces
    MaxRetransmissions    \* TCP_MAX_RETRANSMISSIONS

ASSUME TcpAssumption ==
    /\ SeqSpace \in Nat /\ SeqSpace > 0 /\ SeqSpace % 2 = 0
    /\ Mss \in Nat \ {0} /\ MaxRetransmissions \in Nat
    /\ 2 * (Mss + 1) < SeqSpace   \* 536 bytes and a flag, of 2^32 numbers

TcpStates == {"CLOSED", "SYN_SENT", "ESTABLISHED", "FIN_WAIT_1", "FIN_WAIT_2",
              "CLOSING", "CLOSE_WAIT", "LAST_ACK", "TIME_WAIT", "FAILED"}
Flags == {"SYN", "ACK", "FIN", "RST"}
Sequence == 0..(SeqSpace - 1)
Segment == [seq: Sequence, ack: Sequence, flags: SUBSET Flags, win: Nat,
            data: Seq(Nat)]
Pending == [active: BOOLEAN, sent: BOOLEAN, tries: 0..MaxRetransmissions,
            seq: Sequence, flags: SUBSET Flags, data: Seq(Nat)]
Connection == [state: TcpStates, pending: Pending, closeRequested: BOOLEAN,
               una: Sequence, nxt: Sequence, rcv: Sequence,
               localWindow: Nat, remoteWindow: Nat]

NoPending == [active |-> FALSE, sent |-> FALSE, tries |-> 0, seq |-> 0,
              flags |-> {}, data |-> <<>>]
\* A slot of tcp_connections that is not active.
NoConnection == [state |-> "CLOSED", pending |-> NoPending,
                 closeRequested |-> FALSE, una |-> 0, nxt |-> 0, rcv |-> 0,
                 localWindow |-> 0, remoteWindow |-> 0]

Active(h) == h.tcp.state # "CLOSED"
In(h, states) == h.tcp.state \in states

(* ------------------------------ sequence numbers ------------------------ *)
Plus(s, n) == (s + n) % SeqSpace

\* (int32_t)(first - second) < 0
SequenceLess(first, second) == (first - second) % SeqSpace >= SeqSpace \div 2

SequenceBetween(value, first, last) ==
    ~SequenceLess(value, first) /\ ~SequenceLess(last, value)

Consumed(flags, data) == Len(data) + (IF "SYN" \in flags THEN 1 ELSE 0)
                                   + (IF "FIN" \in flags THEN 1 ELSE 0)
PendingEnd(p) == Plus(p.seq, Consumed(p.flags, p.data))

(* ------------------------------ output ---------------------------------- *)
\* tcp_transmit: nothing leaves while IPv4 has no address or no next hop.
Transmit(h, seq, flags, data) ==
    IF h.ip # "sent" THEN h
    ELSE [h EXCEPT !.out = Append(@,
            [seq |-> seq, ack |-> IF "ACK" \in flags THEN h.tcp.rcv ELSE 0,
             flags |-> flags, win |-> h.tcp.localWindow, data |-> data])]

SendAck(h) == Transmit(h, h.tcp.nxt, {"ACK"}, <<>>)

\* tcp_try_send_pending: held back by ARP it stays unsent, without a timer.
TrySendPending(h) ==
    LET p == h.tcp.pending IN
    IF ~p.active \/ p.sent THEN h
    ELSE [Transmit(h, p.seq, p.flags, p.data)
            EXCEPT !.tcp.pending.sent = (h.ip = "sent"),
                   !.ok = (h.ip # "error")]

\* tcp_queue_tracked, called only when nothing is pending.
QueueTracked(h, flags, data) ==
    TrySendPending([h EXCEPT
        !.tcp.pending = [active |-> TRUE, sent |-> FALSE, tries |-> 0,
                         seq |-> h.tcp.nxt, flags |-> flags, data |-> data],
        !.tcp.nxt = Plus(@, Consumed(flags, data))])

\* tcp_clear_pending: the sequence number and the copied payload stay behind,
\* but no code reads them while nothing is pending.
ClearPending(h) == [h EXCEPT !.tcp.pending = NoPending]

\* tcp_clear_connection(index, 1): the slot is zeroed before the callback.
ClearConnection(h) == Emit([h EXCEPT !.tcp = NoConnection], "CLOSED")

\* tcp_fail: pending_active is cleared, pending_sent is not; no code reads the
\* rest of the segment any more.
Fail(h) ==
    IF ~Active(h) \/ In(h, {"FAILED"}) THEN h
    ELSE Emit([h EXCEPT !.tcp.state = "FAILED",
                       !.tcp.pending = [NoPending EXCEPT !.sent = h.tcp.pending.sent]],
              "ERROR")

\* tcp_begin_close: FIN only behind everything already handed over.
BeginClose(h) ==
    IF h.tcp.pending.active \/ ~In(h, {"ESTABLISHED", "CLOSE_WAIT"}) THEN h
    ELSE LET g == QueueTracked(
                    [h EXCEPT !.tcp.state = IF @ = "ESTABLISHED"
                                            THEN "FIN_WAIT_1" ELSE "LAST_ACK"],
                    {"FIN", "ACK"}, <<>>)
         IN IF g.ok THEN g ELSE Fail(g)
(* ------------------------------ input ----------------------------------- *)
\* tcp_process_syn_sent
ProcessSynSent(h, m) ==
    IF "RST" \in m.flags
    THEN IF "ACK" \in m.flags /\ m.ack = h.tcp.nxt THEN Fail(h) ELSE h
    ELSE IF ~({"SYN", "ACK"} \subseteq m.flags) \/ m.ack # h.tcp.nxt
            \/ m.data # <<>>
    THEN h
    ELSE Emit(Emit(SendAck([ClearPending(h) EXCEPT
                              !.tcp.una = m.ack,
                              !.tcp.rcv = Plus(m.seq, 1),
                              !.tcp.remoteWindow = m.win,
                              !.tcp.state = "ESTABLISHED"]),
                   "CONNECTED"),
              "WRITABLE")

\* Fault: the first acknowledgment that moves una completes the segment.
AckInRangeFaulty(h, m) ==
    LET p == h.tcp.pending
        moved == SequenceLess(h.tcp.una, m.ack)
        a == [h EXCEPT !.tcp.remoteWindow = m.win,
                       !.tcp.una = IF moved THEN m.ack ELSE @]
        b == IF moved THEN ClearPending(a) ELSE a
        finished == moved /\ "FIN" \in p.flags
        c == IF finished /\ In(b, {"FIN_WAIT_1"})
             THEN [b EXCEPT !.tcp.state = "FIN_WAIT_2"] ELSE b
    IN IF finished /\ In(b, {"LAST_ACK"}) THEN ClearConnection(b)
       ELSE IF c.tcp.closeRequested THEN BeginClose(c) ELSE c

\* tcp_process_ack, for an acknowledgment of something sent: a partial one
\* moves una and leaves the segment pending.
AckInRange(h, m) ==
    LET p == h.tcp.pending
        moved == SequenceLess(h.tcp.una, m.ack)
        completed == moved /\ p.active /\ ~SequenceLess(m.ack, PendingEnd(p))
        a == [h EXCEPT !.tcp.remoteWindow = m.win,
                       !.tcp.una = IF moved THEN m.ack ELSE @]
        b == IF completed THEN ClearPending(a) ELSE a
        finished == completed /\ "FIN" \in p.flags
        c == IF ~finished THEN b
             ELSE [b EXCEPT !.tcp.state =
                     CASE @ = "FIN_WAIT_1" -> "FIN_WAIT_2"
                       [] @ = "CLOSING"    -> "TIME_WAIT"
                       [] OTHER            -> @]
        d == IF completed THEN Emit(c, "WRITABLE") ELSE c
    IN IF finished /\ In(b, {"LAST_ACK"}) THEN ClearConnection(b)
       ELSE IF d.tcp.closeRequested THEN BeginClose(d) ELSE d

ProcessAck(h, m) ==
    IF SequenceBetween(m.ack, h.tcp.una, h.tcp.nxt) THEN AckInRange(h, m)
    ELSE SendAck(h)
\* tcp_accept_payload of a segment that starts at rcv.
AcceptPayload(h, m) ==
    IF m.data = <<>> THEN h
    ELSE IF m.seq # h.tcp.rcv \/ Len(m.data) > h.tcp.localWindow THEN SendAck(h)
    ELSE LET g == EmitData(h, m.data) IN
         IF ~g.ok THEN Fail(g)
         ELSE SendAck([g EXCEPT !.tcp.rcv = Plus(@, Len(m.data)),
                                !.tcp.localWindow = @ - Len(m.data)])
\* tcp_accept_fin: only behind all the data of its segment.
AcceptFin(h, m) ==
    IF "FIN" \notin m.flags THEN h
    ELSE IF Plus(m.seq, Len(m.data)) # h.tcp.rcv THEN SendAck(h)
    ELSE LET g == Emit(SendAck([h EXCEPT !.tcp.rcv = Plus(@, 1)]), "EOF") IN
         [g EXCEPT !.tcp.state =
            CASE @ = "ESTABLISHED" -> "CLOSE_WAIT"
              [] @ = "FIN_WAIT_1"  -> IF g.tcp.pending.active
                                      THEN "CLOSING" ELSE "TIME_WAIT"
              [] @ = "FIN_WAIT_2"  -> "TIME_WAIT"
              [] OTHER             -> @]
\* tcp_process_connection of a segment in order that carries an ACK.
ProcessInOrder(h, m) ==
    LET a == ProcessAck(h, m)
        b == AcceptPayload(a, m)
    IN IF ~a.ok \/ ~Active(a) THEN a
       ELSE IF ~b.ok THEN b
       ELSE AcceptFin(b, m)

\* tcp_process_connection: a connection that FAILED still takes segments.
ProcessConnection(h, m) ==
    CASE In(h, {"SYN_SENT"})  -> ProcessSynSent(h, m)
      [] In(h, {"TIME_WAIT"}) ->
            IF "FIN" \in m.flags /\ Plus(m.seq, Len(m.data) + 1) = h.tcp.rcv
            THEN SendAck(h) ELSE h
      [] OTHER ->
            IF m.seq # h.tcp.rcv THEN SendAck(h)
            ELSE IF {"RST", "SYN"} \cap m.flags # {} THEN Fail(h)
            ELSE IF "ACK" \notin m.flags THEN SendAck(h)
            ELSE ProcessInOrder(h, m)

\* tcp_send_raw_reset: the answer to a segment that finds no connection.
RawReset(h, m) ==
    IF "RST" \in m.flags \/ h.ip # "sent" THEN h
    ELSE [h EXCEPT !.out = Append(@,
            IF "ACK" \in m.flags
            THEN [seq |-> m.ack, ack |-> 0, flags |-> {"RST"}, win |-> 0,
                  data |-> <<>>]
            ELSE [seq |-> 0, ack |-> Plus(m.seq, Consumed(m.flags, m.data)),
                  flags |-> {"RST", "ACK"}, win |-> 0, data |-> <<>>])]

\* tcp_handle_ipv4, for a segment that parses and has a valid checksum.
HandleIpv4(h, m) ==
    IF Active(h) THEN ProcessConnection(h, m) ELSE RawReset(h, m)

(* ------------------------------ calls ----------------------------------- *)
\* tcp_connect: a SYN that cannot leave takes the slot back without an event.
Connect(h, isn) ==
    LET g == QueueTracked([h EXCEPT !.tcp =
                [NoConnection EXCEPT !.state = "SYN_SENT", !.una = isn,
                                     !.nxt = isn, !.localWindow = RxCapacity]],
                {"SYN"}, <<>>)
    IN IF g.ok THEN g ELSE [g EXCEPT !.tcp = NoConnection]

\* tcp_send: accepts what fits in one segment, or nothing.
Accepted(h, length) ==
    IF ~In(h, {"ESTABLISHED", "CLOSE_WAIT"}) \/ h.tcp.pending.active THEN 0
    ELSE Min({length, Mss, h.tcp.remoteWindow})

Send(h, data) ==
    LET n == Accepted(h, Len(data))
        g == QueueTracked(h, {"ACK"}, SubSeq(data, 1, n))
    IN IF n = 0 THEN h
       ELSE IF ~g.ok THEN Fail(g)
       ELSE [g EXCEPT !.tcp.remoteWindow = @ - n]

\* tcp_set_receive_window: an update leaves only from ESTABLISHED, and when
\* the window was shut or grew by a segment.
SetReceiveWindow(h, window) ==
    LET previous == h.tcp.localWindow
        g == [h EXCEPT !.tcp.localWindow = window]
    IN IF In(h, {"ESTABLISHED"}) /\ window > previous
          /\ (previous = 0 \/ window - previous >= Mss)
       THEN SendAck(g) ELSE g

\* tcp_close
Close(h) ==
    IF In(h, {"SYN_SENT", "FAILED"}) THEN ClearConnection(h)
    ELSE BeginClose([h EXCEPT !.tcp.closeRequested = TRUE])

\* tcp_abort: no event; the caller releases the socket itself.
Abort(h) ==
    [(IF In(h, {"SYN_SENT", "FAILED", "TIME_WAIT"}) THEN h
      ELSE Transmit(h, h.tcp.nxt, {"RST", "ACK"}, <<>>))
        EXCEPT !.tcp = NoConnection]

\* The deadline that has passed when tcp_maintain looks at the connection.
Deadlines == {"none", "rto", "idle", "timeWait"}

\* tcp_maintain_pending
MaintainPending(h, elapsed) ==
    LET p == h.tcp.pending
        g == TrySendPending(h)
    IN CASE ~p.active -> h
         [] p.active /\ ~p.sent -> IF g.ok THEN g ELSE Fail(g)
         [] p.active /\ p.sent /\ elapsed # "rto" -> h
         [] OTHER ->
              IF p.tries >= MaxRetransmissions THEN Fail(h)
              ELSE TrySendPending([h EXCEPT !.tcp.pending.sent = FALSE,
                                            !.tcp.pending.tries = @ + 1])

\* tcp_maintain_connection. A retransmission restarts the idle timer.
Maintain(h, elapsed) ==
    LET g == MaintainPending(h, elapsed)
        waiting == g.tcp.pending.active /\ ~g.tcp.pending.sent
    IN CASE ~Active(h) \/ In(h, {"FAILED"}) -> h
         [] In(h, {"TIME_WAIT"}) ->
              IF elapsed = "timeWait" THEN ClearConnection(h) ELSE h
         [] OTHER ->
              IF In(g, {"FAILED"}) \/ waiting THEN g
              ELSE IF elapsed = "idle" /\ g.out = h.out THEN Fail(g)
              ELSE IF g.tcp.closeRequested THEN BeginClose(g) ELSE g
=============================================================================
