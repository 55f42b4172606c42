------------------------------ MODULE NetSocket ------------------------------
(* A native socket over the TCP client, core/net_socket.c and core/tcp.c,   *)
(* against a conforming peer across an IP network that loses, duplicates,   *)
(* delays and reorders segments.                                            *)
(*                                                                          *)
(* One socket is followed from net_socket_open to the release of its slot.  *)
(* Its kernel side runs in the network worker (segments, NetPoll) and in    *)
(* the tasks that call the API; each call runs to its end. Bytes are        *)
(* numbered: the application writes 1..AppBytes, the peer 1..PeerBytes.     *)
EXTENDS Tcp, FiniteSets

CONSTANTS
    Isn, PeerIsn,      \* initial sequence numbers
    AppBytes,          \* bound: bytes the application writes
    PeerBytes,         \* bound: bytes the peer writes before its FIN
    PeerWindows,       \* windows the peer may announce
    IpResults,         \* answers of ipv4_send: "sent", "held" (ARP), "error"
    PeerRooms,         \* new bytes of a segment the peer may have room for
    MaxToHost          \* bound: segments in flight to the host

ASSUME NetAssumption ==
    /\ Isn \in Sequence /\ PeerIsn \in Sequence
    /\ AppBytes \in Nat /\ PeerBytes \in Nat /\ PeerWindows \subseteq Nat
    /\ PeerRooms \subseteq Nat /\ PeerRooms # {}
    /\ "sent" \in IpResults /\ IpResults \subseteq {"sent", "held", "error"}
    /\ MaxToHost \in Nat \ {0}
    \* No number comes round while a segment that carries it is in flight.
    /\ 2 * (AppBytes + 2) < SeqSpace /\ 2 * (PeerBytes + 2) < SeqSpace

VARIABLES
    tcp, sock,         \* the connection and the socket entry
    toHost,            \* segments in flight to the host
    peer,              \* the remote TCP
    written,           \* bytes net_socket_send took from the application
    read,              \* bytes net_socket_receive gave it
    faults,            \* failures TCP has reported to the socket
    ended              \* how the socket was released

vars == <<tcp, sock, toHost, peer, written, read, faults, ended>>
hostVars == <<tcp, sock, faults, ended>>

Faults == {"ERROR", "OVERFLOW"}
Endings == {"no", "closed", "aborted"}

Numbers(n) == [i \in 1..n |-> i]

(* ------------------------------ net_socket.c ---------------------------- *)
\* net_socket_connect
SocketConnect(h) ==
    LET g == Connect([h EXCEPT !.sock.state = "CONNECTING"], Isn)
    IN IF g.ok THEN [g EXCEPT !.sock.handle = TRUE]
       ELSE [g EXCEPT !.sock = SetError(@)]

\* net_socket_start_close
StartClose(h) ==
    LET g == Close([h EXCEPT !.ok = TRUE])
    IN IF g.ok THEN g
       ELSE [g EXCEPT !.sock = SetError([g.sock EXCEPT !.closeRequested = FALSE])]

\* Fault: the connection is closed with bytes still in the TX ring.
SocketCloseFaulty(h) ==
    LET aborted == IF h.sock.handle THEN Abort(h) ELSE h
        closing == [h EXCEPT !.sock.closeRequested = TRUE,
                             !.sock.state = "CLOSING"]
    IN CASE h.sock.state = "OPEN" -> [h EXCEPT !.sock = Release(@)]
         [] h.sock.state \in {"CONNECTING", "ERROR"} ->
                [aborted EXCEPT !.sock = Release(@)]
         [] OTHER -> StartClose(closing)

\* net_socket_close: what is queued for transmission goes first.
SocketClose(h) ==
    LET aborted == IF h.sock.handle THEN Abort(h) ELSE h
        closing == [h EXCEPT !.sock.closeRequested = TRUE,
                             !.sock.state = "CLOSING"]
    IN CASE h.sock.state = "OPEN" -> [h EXCEPT !.sock = Release(@)]
         [] h.sock.state \in {"CONNECTING", "ERROR"} ->
                [aborted EXCEPT !.sock = Release(@)]
         [] OTHER -> IF h.sock.tx = <<>> /\ h.sock.handle
                     THEN StartClose(closing) ELSE closing
\* Fault: the last byte accepted stays in the ring.
DrainFaulty(h) ==
    LET g == Send([h EXCEPT !.ok = TRUE], h.sock.tx)
        n == Accepted(h, Len(h.sock.tx))
    IN IF ~h.sock.handle \/ h.sock.tx = <<>>
          \/ h.sock.state \notin {"CONNECTED", "CLOSING"} THEN h
       ELSE IF ~g.ok THEN [g EXCEPT !.sock = SetError(@)]
       ELSE IF n = 0 THEN g
       ELSE [g EXCEPT !.sock = WakeOne([@ EXCEPT !.tx = SubSeq(@, n, Len(@))])]

\* net_socket_drain
Drain(h) ==
    LET g == Send([h EXCEPT !.ok = TRUE], h.sock.tx)
        n == Accepted(h, Len(h.sock.tx))
    IN IF ~h.sock.handle \/ h.sock.tx = <<>>
          \/ h.sock.state \notin {"CONNECTED", "CLOSING"} THEN h
       ELSE IF ~g.ok THEN [g EXCEPT !.sock = SetError(@)]
       ELSE IF n = 0 THEN g
       ELSE [g EXCEPT !.sock =
                WakeOne([g.sock EXCEPT !.tx = SubSeq(@, n + 1, Len(@))])]
\* Fault: the close request is left to the application.
SocketMaintainFaulty(h) ==
    LET a == Drain(h)
    IN IF ~h.sock.active \/ ~a.sock.handle THEN a
       ELSE SetReceiveWindow(a, RxCapacity - Len(a.sock.rx))

\* Fault: the whole ring is announced, also the part that is taken.
SocketMaintainWide(h) ==
    LET a == Drain(h)
        b == IF a.sock.handle THEN SetReceiveWindow(a, RxCapacity) ELSE a
    IN IF ~h.sock.active THEN h
       ELSE IF b.sock.closeRequested /\ b.sock.tx = <<>> /\ b.sock.handle
       THEN StartClose(b) ELSE b

\* net_socket_maintain, for this entry.
SocketMaintain(h) ==
    LET a == Drain(h)
        b == IF a.sock.handle
             THEN SetReceiveWindow(a, RxCapacity - Len(a.sock.rx)) ELSE a
    IN IF ~h.sock.active THEN h
       ELSE IF b.sock.closeRequested /\ b.sock.tx = <<>> /\ b.sock.handle
       THEN StartClose(b) ELSE b
(* ------------------------------ the peer -------------------------------- *)
\* A conforming TCP; modelled from what tcp.c sends to it and expects of it.
\*   rcv   bytes it took, in order        fin    it has seen our FIN
\*   snt   highest offset it has sent     acked  highest offset acknowledged
\*   win   window we announced last (offset PeerBytes + 1 is behind its FIN)
PeerRcvNxt(p) == Plus(Isn, 1 + Len(p.rcv) + (IF p.fin THEN 1 ELSE 0))
PeerSeq(offset) == Plus(PeerIsn, 1 + offset)

PeerSegment(offset, length, flags, window) ==
    [seq |-> PeerSeq(offset), ack |-> PeerRcvNxt(peer), flags |-> flags,
     win |-> window, data |-> SubSeq(Numbers(PeerBytes), offset + 1, offset + length)]

PeerInit == [state |-> "LISTEN", rcv |-> <<>>, fin |-> FALSE,
             snt |-> 0, acked |-> 0, win |-> 0]

Put(m) ==
    /\ sock.active
    /\ Cardinality(toHost) < MaxToHost
    /\ toHost' = toHost \cup {m}

\* The peer (re)sends its SYN+ACK.
PeerAccepts(w) ==
    /\ peer.state = "SYN_RCVD"
    /\ Put([seq |-> PeerIsn, ack |-> Plus(Isn, 1), flags |-> {"SYN", "ACK"},
            win |-> w, data |-> <<>>])
    /\ UNCHANGED <<peer, hostVars, written, read>>

\* The peer sends an ACK, new data inside our window, or data again; with the
\* last byte it may send its FIN.
PeerSends(offset, length, fin, w) ==
    /\ peer.state = "OPEN"
    /\ offset \in {peer.acked, peer.snt}
    /\ length > 0 => offset + length <= peer.acked + peer.win
    /\ IF length = 0 /\ ~fin THEN offset = peer.snt
       ELSE offset + length <= PeerBytes
    /\ fin => offset + length = PeerBytes
    /\ Put(PeerSegment(offset, length, IF fin THEN {"FIN", "ACK"} ELSE {"ACK"}, w))
    /\ peer' = [peer EXCEPT
         !.snt = Max({@, offset + length + (IF fin THEN 1 ELSE 0)})]
    /\ UNCHANGED <<hostVars, written, read>>

\* The peer gives up.
PeerResets ==
    /\ peer.state = "OPEN"
    /\ Put(PeerSegment(peer.snt, 0, {"RST", "ACK"}, 0))
    /\ peer' = [peer EXCEPT !.state = "RESET"]
    /\ UNCHANGED <<hostVars, written, read>>

\* What the peer makes of a segment of which it has room for room new bytes.
PeerTakes(p, m, room) ==
    LET skip == (PeerRcvNxt(p) - m.seq) % SeqSpace
        fresh == IF ~p.fin /\ skip < Len(m.data) THEN Len(m.data) - skip ELSE 0
        kept == Min({fresh, room})
        whole == kept = fresh /\ (fresh > 0 \/ skip = Len(m.data))
        acked == (m.ack - PeerSeq(0)) % SeqSpace
    IN CASE p.state = "RESET" \/ (p.state = "LISTEN" /\ "SYN" \notin m.flags) -> p
         [] "RST" \in m.flags -> [p EXCEPT !.state = "RESET"]
         [] "SYN" \in m.flags ->
               IF p.state = "LISTEN"
               THEN [p EXCEPT !.state = "SYN_RCVD", !.win = m.win] ELSE p
         [] p.state = "SYN_RCVD" /\ acked > p.snt -> p
         [] OTHER ->
               [p EXCEPT
                  !.state = "OPEN",
                  !.rcv = @ \o SubSeq(m.data, skip + 1, skip + kept),
                  !.fin = @ \/ ("FIN" \in m.flags /\ whole),
                  !.acked = IF acked \in @..p.snt THEN acked ELSE @,
                  !.win = IF acked \in p.acked..p.snt THEN m.win ELSE @]

\* The peer takes the segments that arrive, in the order they were sent.
PeerAfter(out, arrive, room) ==
    LET after[i \in 0..Len(out)] ==
          IF i = 0 THEN peer
          ELSE IF i \in arrive THEN PeerTakes(after[i - 1], out[i], room)
          ELSE after[i - 1]
    IN after[Len(out)]

(* ------------------------------ steps of the host ----------------------- *)
Host(ip) == [tcp |-> tcp, sock |-> sock, ip |-> ip, out |-> <<>>,
             log |-> {}, ok |-> TRUE]

\* The host is left as h. The network loses what it does not deliver to the
\* peer; a segment that is late is one the peer answers late.
HostBecomes(h) ==
    /\ tcp' = h.tcp /\ sock' = h.sock
    /\ faults' = faults \cup (h.log \cap Faults)
    /\ ended' = IF sock.active /\ ~h.sock.active
                THEN IF "CLOSED" \in h.log THEN "closed" ELSE "aborted"
                ELSE ended
    /\ \E arrive \in SUBSET DOMAIN h.out, room \in PeerRooms :
          peer' = PeerAfter(h.out, arrive, room)

AppConnect(ip) ==
    /\ sock.active /\ sock.state = "OPEN"
    /\ HostBecomes(SocketConnect(Host(ip)))
    /\ UNCHANGED <<toHost, written, read>>

\* net_socket_send: as many of the bytes as the ring takes.
AppSend(n) ==
    /\ sock.active /\ sock.state = "CONNECTED"
    /\ n \in 1..(AppBytes - written) /\ n <= TxCapacity - Len(sock.tx)
    /\ sock' = [sock EXCEPT !.tx = @ \o SubSeq(Numbers(AppBytes), written + 1, written + n)]
    /\ written' = written + n
    /\ UNCHANGED <<tcp, toHost, peer, read, faults, ended>>

\* net_socket_receive: the bytes leave the ring, then TCP learns the space.
AppReceive(n, ip) ==
    LET g == [Host(ip) EXCEPT !.sock.rx = SubSeq(@, n + 1, Len(@))] IN
    /\ sock.active /\ sock.state # "ERROR"
    /\ n \in 1..Len(sock.rx)
    /\ read' = read \o SubSeq(sock.rx, 1, n)
    /\ HostBecomes(IF sock.handle
                   THEN SetReceiveWindow(g, RxCapacity - Len(g.sock.rx)) ELSE g)
    /\ UNCHANGED <<toHost, written>>

AppClose(ip) ==
    /\ sock.active
    /\ HostBecomes(SocketClose(Host(ip)))
    /\ UNCHANGED <<toHost, written, read>>

\* net_socket_abort
AppAbort(ip) ==
    LET g == IF sock.handle THEN Abort(Host(ip)) ELSE Host(ip) IN
    /\ sock.active
    /\ HostBecomes([g EXCEPT !.sock = Release(@)])
    /\ UNCHANGED <<toHost, written, read>>

\* net_socket_reset after a change of the address: tcp_reset, then the rest.
NetReset ==
    LET g == IF tcp.state # "CLOSED" THEN ClearConnection(Host("error"))
             ELSE Host("error") IN
    /\ sock.active
    /\ tcp' = g.tcp
    /\ sock' = IF g.sock.active THEN Release(g.sock) ELSE g.sock
    /\ faults' = faults /\ ended' = "aborted"
    /\ UNCHANGED <<toHost, peer, written, read>>

HostReceives(m, ip, again) ==
    /\ m \in toHost
    /\ HostBecomes(HandleIpv4(Host(ip), m))
    /\ toHost' = IF again THEN toHost ELSE toHost \ {m}
    /\ UNCHANGED <<written, read>>

\* network_poll: tcp_maintain and net_socket_maintain, in this order. Only a
\* deadline that is set can have passed.
NetPoll(ip, elapsed) ==
    /\ elapsed = "rto" => tcp.pending.active /\ tcp.pending.sent
    /\ elapsed = "timeWait" => tcp.state = "TIME_WAIT"
    /\ elapsed = "idle" => tcp.state \notin {"CLOSED", "FAILED", "TIME_WAIT"}
    /\ HostBecomes(SocketMaintain(Maintain(Host(ip), elapsed)))
    /\ UNCHANGED <<toHost, written, read>>

\* net_socket_wait: a task whose condition does not hold is linked at the end.
\* What wait_event does between the test and the link is module WaitQueue's.
TaskWaits(t) ==
    /\ sock.active /\ t \notin ToSet(sock.queue) \cup sock.woken
    /\ ~WaitReady(sock, t)
    /\ sock' = [sock EXCEPT !.queue = Append(@, t)]
    /\ UNCHANGED <<tcp, toHost, peer, written, read, faults, ended>>

\* A woken task tests its condition again and leaves or waits once more.
TaskRuns(t) ==
    /\ t \in sock.woken
    /\ sock' = [sock EXCEPT !.woken = @ \ {t},
                            !.queue = IF WaitReady(sock, t) THEN @ ELSE Append(@, t)]
    /\ UNCHANGED <<tcp, toHost, peer, written, read, faults, ended>>

Init ==
    /\ tcp = NoConnection /\ sock = NewSocket
    /\ toHost = {} /\ peer = PeerInit
    /\ written = 0 /\ read = <<>> /\ faults = {} /\ ended = "no"

Next ==
    \/ \E ip \in IpResults :
         \/ AppConnect(ip) \/ AppClose(ip) \/ AppAbort(ip)
         \/ \E n \in 1..RxCapacity : AppReceive(n, ip)
         \/ \E m \in toHost, again \in BOOLEAN : HostReceives(m, ip, again)
         \/ \E elapsed \in Deadlines : NetPoll(ip, elapsed)
    \/ \E n \in 1..AppBytes : AppSend(n)
    \/ NetReset
    \/ \E t \in Waiters : TaskWaits(t) \/ TaskRuns(t)
    \/ \E w \in PeerWindows : PeerAccepts(w)
    \/ \E o \in 0..(PeerBytes + 1), l \in 0..Mss, f \in BOOLEAN, w \in PeerWindows :
         PeerSends(o, l, f, w)
    \/ PeerResets

Spec == Init /\ [][Next]_vars

(* ------------------------------ properties ------------------------------ *)
TypeOK ==
    /\ tcp \in Connection /\ sock \in Socket
    /\ toHost \subseteq Segment
    /\ written \in 0..AppBytes /\ ended \in Endings
    /\ faults \subseteq Faults

\* What the application has read, with what waits in the ring, is a prefix of
\* what the peer wrote, and what the peer took is a prefix of what
\* net_socket_send accepted: no loss, reordering, duplication or wrap-around
\* of the network shows in either stream.
StreamsAreIntact ==
    /\ IsPrefix(read \o sock.rx, Numbers(PeerBytes))
    /\ IsPrefix(peer.rcv, Numbers(written))

\* End of file is reported only when every byte the peer wrote before its FIN
\* has been read or waits in the ring.
EofAfterAllData ==
    sock.active /\ sock.eof => Len(read) + Len(sock.rx) = PeerBytes

\* A socket that TCP closed without ever reporting an error has delivered
\* every byte net_socket_send accepted, those still queued at the close too.
CleanCloseDelivers ==
    ended = "closed" /\ "ERROR" \notin faults => peer.rcv = Numbers(written)

\* The window TCP accepts data in never exceeds the free space of the RX ring,
\* so that a conforming connection never dies of ERR_OVERFLOW.
WindowFitsRing ==
    /\ TypeOK
    /\ tcp.state # "CLOSED" => tcp.localWindow <= RxCapacity - Len(sock.rx)
    /\ "OVERFLOW" \notin faults

\* An unacknowledged segment is never forgotten: whatever a living connection
\* has sent and not seen acknowledged is the pending segment.
UnackedIsPending ==
    tcp.state \notin {"CLOSED", "FAILED"} =>
        IF tcp.pending.active
        THEN /\ PendingEnd(tcp.pending) = tcp.nxt
             /\ SequenceBetween(tcp.una, tcp.pending.seq, tcp.nxt)
        ELSE tcp.una = tcp.nxt

\* Every task waits for the same events of the socket.
Alike == \A t, u \in Waiters : Wants[t] = Wants[u]

\* No task stays linked in the queue of a socket that has ended, failed or been
\* released, however many there are; and when the tasks wait for the same events
\* they are never all asleep over what is there: one was woken and is up to take
\* it, whatever order bytes, reads, acknowledgments and closes come in. Tasks
\* that wait for different events get no such promise: net_socket_wake wakes the
\* head of the queue, once, whatever it waits for.
WaitersAreWoken ==
    /\ EntryEvents(sock) \cap TerminalEvents # {} => sock.queue = <<>>
    /\ Alike /\ (\E t \in Waiters : WaitReady(sock, t)) => ToSet(sock.queue) # Waiters

\* Polls of the worker during a silence of the network that outlasts every
\* retransmission, the idle limit and TIME_WAIT.
Silence == [i \in 1..(MaxRetransmissions + 2) |-> "rto"] \o <<"idle", "timeWait">>
AfterSilence ==
    FoldLeft(LAMBDA h, elapsed : SocketMaintain(Maintain(h, elapsed)),
             Host("sent"), Silence)

\* A socket whose close was requested does not outlive a silent network: the
\* worker frees the slot by itself. The exception is a connection that failed
\* with bytes in the TX ring: net_socket_drain no longer takes them, and the
\* entry stays until the application closes it again.
CloseCompletes ==
    sock.active /\ sock.closeRequested =>
        LET h == AfterSilence
        IN ~h.sock.active \/ (h.tcp.state = "FAILED" /\ h.sock.tx # <<>>)
=============================================================================
