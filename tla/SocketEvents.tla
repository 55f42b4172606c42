---------------------------- MODULE SocketEvents -----------------------------
(* The entry of one native socket and what the TCP layer does to it through *)
(* its callback: core/net_socket.c, the part that tcp.c calls.              *)
(*                                                                          *)
(* A handler of the network code runs to its end without yielding, so every *)
(* operator here and in module Tcp maps the host record h to the one the    *)
(* code leaves behind:                                                      *)
(*   h.sock  the net_socket_entry_t        h.tcp   the tcp_connection_t     *)
(*   h.ip    what ipv4_send answers        h.out   segments transmitted     *)
(*   h.log   events emitted by TCP         h.ok    the result was OK        *)
(* The rings are sequences of bytes and the wait queue is the sequence of   *)
(* the tasks linked in it.                                                  *)
EXTENDS Naturals, Sequences, SequencesExt

CONSTANTS
    Waiters,        \* tasks that may wait on the socket
    Wants,          \* Wants[t]: the events task t waits for
    TxCapacity,     \* NET_SOCKET_TX_CAPACITY
    RxCapacity      \* NET_SOCKET_RX_CAPACITY

SocketStates == {"OPEN", "CONNECTING", "CONNECTED", "EOF", "CLOSING", "ERROR"}
Events == {"CONNECTED", "READABLE", "WRITABLE"}
TerminalEvents == {"EOF", "ERROR", "CLOSED"}

ASSUME SocketAssumption ==
    /\ TxCapacity \in Nat \ {0} /\ RxCapacity \in Nat \ {0}
    /\ Wants \in [Waiters -> SUBSET Events]

Socket == [active: BOOLEAN, state: SocketStates, eof: BOOLEAN,
           closeRequested: BOOLEAN, handle: BOOLEAN,
           tx: Seq(Nat), rx: Seq(Nat), queue: Seq(Waiters), woken: SUBSET Waiters]

\* net_socket_open of a free slot.
NewSocket == [active |-> TRUE, state |-> "OPEN", eof |-> FALSE,
              closeRequested |-> FALSE, handle |-> FALSE,
              tx |-> <<>>, rx |-> <<>>, queue |-> <<>>, woken |-> {}]

\* net_socket_entry_events: what poll and the wait condition observe.
EntryEvents(s) ==
    IF ~s.active THEN {"CLOSED"}
    ELSE (IF s.state = "CONNECTED" THEN {"CONNECTED"} ELSE {})
         \cup (IF s.state = "CONNECTED" /\ Len(s.tx) < TxCapacity
               THEN {"WRITABLE"} ELSE {})
         \cup (IF s.rx # <<>> THEN {"READABLE"} ELSE {})
         \cup (IF s.eof \/ s.state = "EOF" THEN {"EOF"} ELSE {})
         \cup (IF s.state = "ERROR" THEN {"ERROR"} ELSE {})

\* net_socket_wait_condition: requested or terminal.
WaitReady(s, t) == EntryEvents(s) \cap (Wants[t] \cup TerminalEvents) # {}

\* net_socket_wake(index, 0): the task at the head, whatever it waits for.
WakeOne(s) ==
    IF s.queue = <<>> THEN s
    ELSE [s EXCEPT !.queue = Tail(@), !.woken = @ \cup {Head(s.queue)}]

\* net_socket_wake(index, 1).
WakeAll(s) == [s EXCEPT !.queue = <<>>, !.woken = @ \cup ToSet(s.queue)]

\* net_socket_release: the waiters leave with "unavailable", then the entry is
\* zeroed. Tasks already woken still have to run.
Release(s) ==
    [NewSocket EXCEPT !.active = FALSE, !.woken = s.woken \cup ToSet(s.queue)]

\* Fault: a failure wakes one task, as data do.
SetErrorFaulty(s) == WakeOne([s EXCEPT !.state = "ERROR"])

\* Fault: a failure is presented as the end of the stream.
SetErrorAsEof(s) == WakeAll([s EXCEPT !.state = "ERROR", !.eof = TRUE])

\* A failure ends the socket for everyone who waits on it.
SetError(s) == WakeAll([s EXCEPT !.state = "ERROR"])

\* net_socket_tcp_event for the events without data.
SocketEvent(s, event) ==
    CASE event = "CONNECTED" -> WakeAll([s EXCEPT !.state = "CONNECTED"])
      [] event = "WRITABLE"  -> WakeOne(s)
      [] event = "EOF"       ->
            WakeAll([s EXCEPT !.eof = TRUE,
                              !.state = IF @ = "CLOSING" THEN @ ELSE "EOF"])
      [] event = "ERROR"     -> SetError(s)
      [] event = "CLOSED"    -> Release(s)

\* tcp_emit, and the callback tcp_clear_connection makes after zeroing the slot.
Emit(h, event) == [h EXCEPT !.sock = SocketEvent(@, event),
                            !.log = @ \cup {event}]

\* tcp_emit of TCP_EVENT_DATA: the ring takes the whole payload or refuses it.
EmitData(h, data) ==
    IF Len(data) > RxCapacity - Len(h.sock.rx)
    THEN [h EXCEPT !.ok = FALSE, !.log = @ \cup {"OVERFLOW"}]
    ELSE [h EXCEPT !.sock = WakeOne([h.sock EXCEPT !.rx = @ \o data]),
                   !.log = @ \cup {"DATA"}]
=============================================================================
