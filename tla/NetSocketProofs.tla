--------------------------- MODULE NetSocketProofs ---------------------------
(***************************************************************************)
(* Theorems about NetSocket. A handler of the network code maps a host     *)
(* record to the one it leaves; Good is kept by every operator of          *)
(* SocketEvents, Tcp and NetSocket, and so by every step.                  *)
(***************************************************************************)
EXTENDS NetSocket, KernelListsProofs

(* Everyone has to leave the queue... *)
HasEnded(s) == EntryEvents(s) \cap TerminalEvents # {}

(* ... or one of the tasks that wait for the same events. *)
Due(s) == Alike /\ \E t \in Waiters : WaitReady(s, t)

(* The queue and the ring of a socket are well formed... *)
Formed(s) ==
  /\ s \in Socket /\ Len(s.rx) <= RxCapacity
  /\ Distinct(s.queue) /\ ToSet(s.queue) \cap s.woken = {}
  /\ s.state = "OPEN" => s.rx = <<>>

(* ... and the tasks do not sleep in it over what would wake them. *)
Attended(s) ==
  /\ Formed(s)
  /\ HasEnded(s) => s.queue = <<>>
  /\ Due(s) => ToSet(s.queue) # Waiters

SocketEventNames == {"CONNECTED", "WRITABLE", "EOF", "ERROR", "CLOSED"}

(* The record a handler works on; the log holds no OVERFLOW. *)
Hosts == [tcp : Connection, sock : Socket, ip : {"sent", "held", "error"},
          out : Seq(Segment), log : SUBSET (SocketEventNames \cup {"DATA"}),
          ok : BOOLEAN]

Size(p) == Consumed(p.flags, p.data)

(* What is unacknowledged is the pending segment, of which a part may have *)
(* been acknowledged; it is at most one full segment.                      *)
Unacked(c) ==
  IF c.pending.active
  THEN /\ Size(c.pending) <= Mss + 1 /\ c.nxt = Plus(c.pending.seq, Size(c.pending))
       /\ \E n \in 0..Size(c.pending) : c.una = Plus(c.pending.seq, n)
  ELSE c.una = c.nxt

Tracked(c) ==
  /\ c.state \in {"CLOSED", "FAILED"} => ~c.pending.active
  /\ c.state \notin {"CLOSED", "FAILED"} => Unacked(c)

(* The window fits the free space of the ring. *)
Fits(c, s) == c.state # "CLOSED" => c.localWindow + Len(s.rx) <= RxCapacity

(* A connection belongs to a socket that knows it: whoever releases the    *)
(* socket takes the connection down first.                                 *)
Attached(c, s) == c.state # "CLOSED" => s.handle /\ s.state # "OPEN"

(* Attached holds again only when net_socket_connect has stored the handle. *)
Sound(h) == h \in Hosts /\ Tracked(h.tcp) /\ Attended(h.sock) /\ Fits(h.tcp, h.sock)
Good(h) == Sound(h) /\ Attached(h.tcp, h.sock)
-----------------------------------------------------------------------------
(* The socket. *)

(* The head leaves the queue. *)
LEMMA HeadLeaves ==
  ASSUME NEW q \in Seq(Waiters), q # <<>>, Distinct(q)
  PROVE  /\ Tail(q) \in Seq(Waiters) /\ Distinct(Tail(q)) /\ Head(q) \in ToSet(q)
         /\ Head(q) \in Waiters
         /\ ToSet(Tail(q)) \subseteq ToSet(q) /\ Head(q) \notin ToSet(Tail(q))
<1>1. Len(q) \in Nat /\ Len(q) >= 1 /\ Head(q) = q[1] /\ DOMAIN q = 1..Len(q)
  OBVIOUS
<1>2. /\ Tail(q) \in Seq(Waiters) /\ Len(Tail(q)) = Len(q) - 1
      /\ \A i \in 1..(Len(q) - 1) : Tail(q)[i] = q[i + 1]
  OBVIOUS
<1>3. DOMAIN Tail(q) = 1..(Len(q) - 1)
  BY <1>1, <1>2
<1>4. Distinct(Tail(q))
  BY <1>1, <1>2, <1>3 DEF Distinct
<1>5. Head(q) \in ToSet(q) /\ Head(q) \in Waiters
  BY <1>1 DEF ToSet
<1>6. ToSet(Tail(q)) \subseteq ToSet(q)
  BY <1>1, <1>2, <1>3 DEF ToSet
<1>7. Head(q) \notin ToSet(Tail(q))
  BY <1>1, <1>2, <1>3 DEF ToSet, Distinct
<1> QED BY <1>2, <1>4, <1>5, <1>6, <1>7

(* What is due depends on the events only. *)
LEMMA DueFollowsEvents ==
  ASSUME NEW s, NEW r, EntryEvents(r) \subseteq EntryEvents(s)
  PROVE  (HasEnded(r) => HasEnded(s)) /\ (Due(r) => Due(s))
BY DEF HasEnded, Due, WaitReady

(* net_socket_wake for everyone. *)
LEMMA WakeAllAttended ==
  ASSUME NEW s, Formed(s)
  PROVE  /\ Attended(WakeAll(s))
         /\ WakeAll(s).rx = s.rx /\ WakeAll(s).tx = s.tx /\ WakeAll(s).active = s.active
         /\ WakeAll(s).handle = s.handle /\ WakeAll(s).state = s.state
<1>1. ToSet(s.queue) \subseteq Waiters
  BY DEF Formed, Socket, ToSet
<1>2. WakeAll(s) \in Socket
  <2> DEFINE w == s.woken \cup ToSet(s.queue)
  <2>1. s \in Socket /\ w \in SUBSET Waiters /\ <<>> \in Seq(Waiters)
    BY <1>1 DEF Formed, Socket
  <2>2. WakeAll(s) = [s EXCEPT !.queue = <<>>, !.woken = w]
    BY <2>1 DEF WakeAll, Socket
  <2> HIDE DEF w
  <2> QED BY <2>1, <2>2 DEF Socket
<1>3. /\ WakeAll(s).rx = s.rx /\ WakeAll(s).tx = s.tx /\ WakeAll(s).active = s.active
      /\ WakeAll(s).handle = s.handle /\ WakeAll(s).state = s.state
      /\ WakeAll(s).queue = <<>>
  BY DEF Formed, Socket, WakeAll
<1>4. Distinct(<<>>) /\ ToSet(<<>>) = {}
  BY DEF Distinct, ToSet
<1>5. Formed(WakeAll(s))
  BY <1>2, <1>3, <1>4 DEF Formed
<1>6. Due(WakeAll(s)) => ToSet(<<>>) # Waiters
  BY <1>4 DEF Due
<1> QED BY <1>3, <1>5, <1>6 DEF Attended

(* net_socket_wake for the head of the queue. *)
LEMMA WakeOneAttended ==
  ASSUME NEW s, Formed(s), HasEnded(s) => s.queue = <<>>
  PROVE  /\ Attended(WakeOne(s))
         /\ WakeOne(s).rx = s.rx /\ WakeOne(s).tx = s.tx /\ WakeOne(s).active = s.active
         /\ WakeOne(s).handle = s.handle /\ WakeOne(s).state = s.state
<1>1. CASE s.queue = <<>>
  <2>1. Due(s) => ToSet(s.queue) # Waiters
    BY <1>1 DEF Due, ToSet
  <2> QED BY <1>1, <2>1 DEF WakeOne, Attended
<1>2. CASE s.queue # <<>>
  <2> DEFINE r == [s EXCEPT !.queue = Tail(@), !.woken = @ \cup {Head(s.queue)}]
  <2>1. s \in Socket /\ s.queue \in Seq(Waiters) /\ Distinct(s.queue)
    BY DEF Formed, Socket
  <2>2. /\ Tail(s.queue) \in Seq(Waiters) /\ Distinct(Tail(s.queue))
        /\ Head(s.queue) \in Waiters /\ ToSet(Tail(s.queue)) \subseteq ToSet(s.queue)
        /\ Head(s.queue) \notin ToSet(Tail(s.queue))
    BY <1>2, <2>1, HeadLeaves
  <2>3. /\ r \in Socket /\ r.queue = Tail(s.queue) /\ r.woken = s.woken \cup {Head(s.queue)}
        /\ r.rx = s.rx /\ r.tx = s.tx /\ r.active = s.active /\ r.eof = s.eof
        /\ r.handle = s.handle /\ r.state = s.state
    BY <2>1, <2>2 DEF Socket
  <2> HIDE DEF r
  <2>4. Formed(r)
    BY <2>2, <2>3 DEF Formed
  <2>5. EntryEvents(r) = EntryEvents(s)
    BY <2>3 DEF EntryEvents
  <2>6. (HasEnded(r) => r.queue = <<>>) /\ ToSet(r.queue) # Waiters
    BY <1>2, <2>2, <2>3, <2>5 DEF HasEnded
  <2>7. WakeOne(s) = r
    BY <1>2 DEF WakeOne, r
  <2> QED BY <2>3, <2>4, <2>6, <2>7 DEF Attended
<1> QED BY <1>1, <1>2

(* net_socket_release. *)
LEMMA ReleaseAttended ==
  ASSUME NEW s \in Socket
  PROVE  /\ Attended(Release(s)) /\ Release(s).rx = <<>> /\ ~Release(s).handle
         /\ ~Release(s).active
<1>1. ToSet(s.queue) \subseteq Waiters /\ s.woken \subseteq Waiters
  BY DEF Socket, ToSet
<1>2. /\ Release(s) \in Socket /\ Release(s).queue = <<>> /\ Release(s).rx = <<>>
      /\ ~Release(s).handle /\ ~Release(s).active
  <2> DEFINE w == s.woken \cup ToSet(s.queue)
  <2>1. w \in SUBSET Waiters /\ <<>> \in Seq(Waiters) /\ <<>> \in Seq(Nat)
    BY <1>1
  <2>2. /\ NewSocket \in Socket /\ NewSocket.queue = <<>> /\ NewSocket.rx = <<>>
        /\ ~NewSocket.handle
    BY <2>1 DEF NewSocket, Socket, SocketStates
  <2>3. Release(s) = [NewSocket EXCEPT !.active = FALSE, !.woken = w]
    BY DEF Release
  <2> HIDE DEF w
  <2> QED BY <2>1, <2>2, <2>3 DEF Socket
<1>3. Distinct(<<>>) /\ ToSet(<<>>) = {} /\ Len(<<>>) <= RxCapacity
  BY SocketAssumption DEF Distinct, ToSet
<1>4. Formed(Release(s))
  BY <1>2, <1>3, SMTT(30) DEF Formed
<1>5. Due(Release(s)) => ToSet(<<>>) # Waiters
  BY <1>3 DEF Due
<1> QED BY <1>2, <1>4, <1>5 DEF Attended

(* A socket of another state, with the same ring and queue. *)
LEMMA FormedFollows ==
  ASSUME NEW s, Formed(s), NEW r \in Socket,
         r.rx = s.rx, r.queue = s.queue, r.woken = s.woken,
         r.state = "OPEN" => s.state = "OPEN"
  PROVE  Formed(r)
BY DEF Formed

(* Nothing new has happened to it. *)
LEMMA AttendedFollows ==
  ASSUME NEW s, Attended(s), NEW r \in Socket,
         r.rx = s.rx, r.queue = s.queue, r.woken = s.woken,
         r.state = "OPEN" => s.state = "OPEN",
         EntryEvents(r) \subseteq EntryEvents(s)
  PROVE  Attended(r)
BY FormedFollows, DueFollowsEvents DEF Attended

(* A failure. *)
LEMMA SetErrorAttended ==
  ASSUME NEW s, Formed(s)
  PROVE  /\ Attended(SetError(s)) /\ SetError(s).rx = s.rx
         /\ SetError(s).handle = s.handle /\ SetError(s).state = "ERROR"
<1> DEFINE r == [s EXCEPT !.state = "ERROR"]
<1>1. /\ r \in Socket /\ r.rx = s.rx /\ r.queue = s.queue /\ r.woken = s.woken
      /\ r.handle = s.handle /\ r.state = "ERROR"
  BY DEF Formed, Socket, SocketStates
<1>2. Formed(r)
  BY <1>1, FormedFollows
<1> HIDE DEF r
<1>3. SetError(s) = WakeAll(r)
  BY DEF SetError, r
<1> QED BY <1>1, <1>2, <1>3, WakeAllAttended

(* net_socket_tcp_event. *)
LEMMA SocketEventAttended ==
  ASSUME NEW s, Attended(s), NEW event \in SocketEventNames
  PROVE  /\ Attended(SocketEvent(s, event))
         /\ SocketEvent(s, event).rx \in {s.rx, <<>>}
         /\ event # "CLOSED" =>
              /\ SocketEvent(s, event).handle = s.handle
              /\ s.state # "OPEN" => SocketEvent(s, event).state # "OPEN"
<1>0. s \in Socket /\ Formed(s)
  BY DEF Attended, Formed
<1>1. CASE event = "CONNECTED"
  <2> DEFINE r == [s EXCEPT !.state = "CONNECTED"]
  <2>1. /\ r \in Socket /\ r.rx = s.rx /\ r.queue = s.queue /\ r.woken = s.woken
        /\ r.handle = s.handle /\ r.state # "OPEN"
    BY <1>0 DEF Socket, SocketStates
  <2>2. Formed(r)
    BY <1>0, <2>1, FormedFollows
  <2> HIDE DEF r
  <2>3. SocketEvent(s, event) = WakeAll(r)
    BY <1>1 DEF SocketEvent, r
  <2> QED BY <2>1, <2>2, <2>3, WakeAllAttended
<1>2. CASE event = "WRITABLE"
  <2>1. SocketEvent(s, event) = WakeOne(s)
    BY <1>2 DEF SocketEvent
  <2>2. HasEnded(s) => s.queue = <<>>
    BY DEF Attended
  <2> QED BY <1>0, <2>1, <2>2, WakeOneAttended
<1>3. CASE event = "EOF"
  <2> DEFINE r == [s EXCEPT !.eof = TRUE,
                            !.state = IF @ = "CLOSING" THEN @ ELSE "EOF"]
  <2>1. /\ r \in Socket /\ r.rx = s.rx /\ r.queue = s.queue /\ r.woken = s.woken
        /\ r.handle = s.handle /\ r.state # "OPEN"
    BY <1>0 DEF Socket, SocketStates
  <2>2. Formed(r)
    BY <1>0, <2>1, FormedFollows
  <2> HIDE DEF r
  <2>3. SocketEvent(s, event) = WakeAll(r)
    BY <1>3 DEF SocketEvent, r
  <2> QED BY <2>1, <2>2, <2>3, WakeAllAttended
<1>4. CASE event = "ERROR"
  <2>1. SocketEvent(s, event) = SetError(s)
    BY <1>4 DEF SocketEvent
  <2> QED BY <1>0, <2>1, SetErrorAttended
<1>5. CASE event = "CLOSED"
  <2>1. SocketEvent(s, event) = Release(s)
    BY <1>5 DEF SocketEvent
  <2> QED BY <1>0, <1>5, <2>1, ReleaseAttended
<1> QED BY <1>1, <1>2, <1>3, <1>4, <1>5 DEF SocketEventNames
-----------------------------------------------------------------------------
(* Sequence numbers. *)
LEMMA OneTurn ==
  /\ SeqSpace \in Nat /\ SeqSpace > 0 /\ 0 \in Sequence
  /\ \A x \in Int : x % SeqSpace \in Sequence
  /\ \A x \in Int : 0 <= x /\ x < SeqSpace => x % SeqSpace = x
  /\ \A x \in Int : SeqSpace <= x /\ x < 2 * SeqSpace => x % SeqSpace = x - SeqSpace
  /\ \A x \in Int : -SeqSpace <= x /\ x < 0 => x % SeqSpace = x + SeqSpace
<1>0. SeqSpace \in Nat /\ SeqSpace > 0
  BY TcpAssumption
<1>1. 0 \in Sequence
  BY <1>0 DEF Sequence
<1>2. \A x \in Int : x % SeqSpace \in Sequence
  BY <1>0 DEF Sequence
<1> QED BY <1>0, <1>1, <1>2, Z3

(* Half the sequence space, which a full segment and a flag do not reach.  *)
LEMMA HalfSpace ==
  /\ SeqSpace \div 2 \in Nat /\ SeqSpace = 2 * (SeqSpace \div 2)
  /\ Mss \in Nat /\ Mss + 1 < SeqSpace \div 2
<1>1. SeqSpace \in Nat /\ SeqSpace > 0 /\ SeqSpace % 2 = 0 /\ Mss \in Nat
      /\ 2 * (Mss + 1) < SeqSpace
  BY TcpAssumption
<1>2. SeqSpace \div 2 \in Nat /\ SeqSpace = 2 * (SeqSpace \div 2)
  BY <1>1, Z3
<1> QED BY <1>1, <1>2

(* Adding a number of bytes, without the modulus. *)
LEMMA PlusIs ==
  ASSUME NEW s \in Sequence, NEW n \in Nat, n < SeqSpace
  PROVE  /\ Plus(s, n) = IF s + n < SeqSpace THEN s + n ELSE s + n - SeqSpace
         /\ Plus(s, n) \in Sequence
<1>1. s \in Int /\ 0 <= s /\ s < SeqSpace /\ SeqSpace \in Nat
  BY OneTurn DEF Sequence
<1>2. s + n \in Int /\ 0 <= s + n /\ s + n < 2 * SeqSpace
  BY <1>1
<1>3. Plus(s, n) = (s + n) % SeqSpace
  BY DEF Plus
<1> QED BY <1>1, <1>2, <1>3, OneTurn

(* The signed comparison of sequence numbers, without the modulus. *)
LEMMA LessIs ==
  ASSUME NEW a \in Sequence, NEW b \in Sequence
  PROVE  SequenceLess(a, b) <=> IF b <= a THEN a - b >= SeqSpace \div 2
                                ELSE a - b + SeqSpace >= SeqSpace \div 2
<1>1. a \in Int /\ b \in Int /\ 0 <= a /\ a < SeqSpace /\ 0 <= b /\ b < SeqSpace
      /\ SeqSpace \in Nat
  BY OneTurn DEF Sequence
<1>2. a - b \in Int /\ -SeqSpace <= a - b /\ a - b < SeqSpace
  BY <1>1
<1>3. (a - b) % SeqSpace = IF b <= a THEN a - b ELSE a - b + SeqSpace
  BY <1>1, <1>2, OneTurn
<1> QED BY <1>3 DEF SequenceLess

(* An acknowledgment between una and nxt, of a segment of at most half the *)
(* space, is for a part of that segment; and for all of it when it is not  *)
(* before its end.                                                         *)
LEMMA AckIsInside ==
  ASSUME NEW seq \in Sequence, NEW d \in 0..(Mss + 1), NEW u \in 0..d,
         NEW ack \in Sequence, SequenceBetween(ack, Plus(seq, u), Plus(seq, d))
  PROVE  /\ \E n \in 0..d : ack = Plus(seq, n)
         /\ ~SequenceLess(ack, Plus(seq, d)) => ack = Plus(seq, d)
<1> DEFINE S == SeqSpace
           H == SeqSpace \div 2
           a == Plus(seq, u)
           b == Plus(seq, d)
           n == IF seq <= ack THEN ack - seq ELSE ack - seq + S
<1>1. /\ S \in Nat /\ H \in Nat /\ S = 2 * H /\ Mss \in Nat /\ Mss + 1 < H
      /\ seq \in Int /\ 0 <= seq /\ seq < S /\ ack \in Int /\ 0 <= ack /\ ack < S
  BY OneTurn, HalfSpace DEF Sequence
<1>2. d \in Nat /\ u \in Nat /\ u <= d /\ d < H /\ d < S /\ u < S
  BY <1>1
<1>3. /\ a = IF seq + u < S THEN seq + u ELSE seq + u - S
      /\ b = IF seq + d < S THEN seq + d ELSE seq + d - S
      /\ a \in Sequence /\ b \in Sequence
  BY <1>2, PlusIs
<1>4. /\ ~(IF a <= ack THEN ack - a >= H ELSE ack - a + S >= H)
      /\ ~(IF ack <= b THEN b - ack >= H ELSE b - ack + S >= H)
  BY <1>3, LessIs DEF SequenceBetween
<1>5. a \in Int /\ b \in Int
  BY <1>1, <1>3 DEF Sequence
<1>6. n \in Int /\ 0 <= n /\ n <= d
  <2> HIDE DEF S, H, a, b
  <2> QED BY <1>1, <1>2, <1>3, <1>4, <1>5
<1>7. ack = Plus(seq, n)
  <2>1. n \in Nat /\ n < S
    <3> HIDE DEF n
    <3> QED BY <1>1, <1>2, <1>6
  <2>2. Plus(seq, n) = IF seq + n < S THEN seq + n ELSE seq + n - S
    BY <2>1, PlusIs
  <2> QED BY <1>1, <2>2
<1>8. ~SequenceLess(ack, b) => ack = b
  <2>1. SequenceLess(ack, b) <=> IF b <= ack THEN ack - b >= H ELSE ack - b + S >= H
    BY <1>3, LessIs
  <2> HIDE DEF S, H, a, b
  <2> QED BY <1>1, <1>4, <1>5, <2>1
<1>9. n \in 0..d
  BY <1>2, <1>6
<1> QED BY <1>7, <1>8, <1>9

(* What is acknowledged lies between the first number and the next one. *)
LEMMA InsideIsBetween ==
  ASSUME NEW seq \in Sequence, NEW d \in 0..(Mss + 1), NEW u \in 0..d
  PROVE  SequenceBetween(Plus(seq, u), seq, Plus(seq, d))
<1> DEFINE S == SeqSpace
           H == SeqSpace \div 2
           a == Plus(seq, u)
           b == Plus(seq, d)
<1>1. /\ S \in Nat /\ H \in Nat /\ S = 2 * H /\ Mss \in Nat /\ Mss + 1 < H
      /\ seq \in Int /\ 0 <= seq /\ seq < S
  BY OneTurn, HalfSpace DEF Sequence
<1>2. d \in Nat /\ u \in Nat /\ u <= d /\ d < H /\ d < S /\ u < S
  BY <1>1
<1>3. /\ a = IF seq + u < S THEN seq + u ELSE seq + u - S
      /\ b = IF seq + d < S THEN seq + d ELSE seq + d - S
      /\ a \in Sequence /\ b \in Sequence
  BY <1>2, PlusIs
<1>4. /\ SequenceLess(a, seq) <=> IF seq <= a THEN a - seq >= H ELSE a - seq + S >= H
      /\ SequenceLess(b, a) <=> IF a <= b THEN b - a >= H ELSE b - a + S >= H
  BY <1>3, LessIs
<1>5. ~SequenceLess(a, seq) /\ ~SequenceLess(b, a)
  <2> HIDE DEF S, H, a, b
  <2> QED BY <1>1, <1>2, <1>3, <1>4
<1> QED BY <1>5 DEF SequenceBetween

(* Nothing lies between a number and itself. *)
LEMMA NothingUnacked ==
  ASSUME NEW s \in Sequence, NEW ack \in Sequence, SequenceBetween(ack, s, s)
  PROVE  ack = s /\ ~SequenceLess(s, ack)
<1>1. /\ SeqSpace \in Nat /\ SeqSpace \div 2 \in Nat /\ SeqSpace = 2 * (SeqSpace \div 2)
      /\ SeqSpace \div 2 > 0
      /\ s \in Int /\ ack \in Int /\ 0 <= s /\ s < SeqSpace /\ 0 <= ack /\ ack < SeqSpace
  BY OneTurn, HalfSpace DEF Sequence
<1> DEFINE H == SeqSpace \div 2
<1>2. /\ ~(IF s <= ack THEN ack - s >= H ELSE ack - s + SeqSpace >= H)
      /\ ~(IF ack <= s THEN s - ack >= H ELSE s - ack + SeqSpace >= H)
  BY LessIs DEF SequenceBetween
<1> HIDE DEF H
<1>3. ack = s
  BY <1>1, <1>2 DEF H
<1> QED BY <1>3 DEF SequenceBetween
-----------------------------------------------------------------------------
(* The host record. *)
LEMMA HostParts ==
  ASSUME NEW h \in Hosts
  PROVE  /\ h.tcp \in Connection /\ h.sock \in Socket /\ h.ip \in {"sent", "held", "error"}
         /\ h.out \in Seq(Segment) /\ h.log \subseteq SocketEventNames \cup {"DATA"}
         /\ h.ok \in BOOLEAN
BY DEF Hosts

(* The fields of a connection.                                             *)
LEMMA ConnectionParts ==
  ASSUME NEW c \in Connection
  PROVE  /\ c.state \in TcpStates /\ c.pending \in Pending /\ c.closeRequested \in BOOLEAN
         /\ c.una \in Sequence /\ c.nxt \in Sequence /\ c.rcv \in Sequence
         /\ c.localWindow \in Nat /\ c.remoteWindow \in Nat
BY DEF Connection

(* The fields of the pending segment.                                      *)
LEMMA PendingParts ==
  ASSUME NEW p \in Pending
  PROVE  /\ p.active \in BOOLEAN /\ p.sent \in BOOLEAN /\ p.tries \in 0..MaxRetransmissions
         /\ p.seq \in Sequence /\ p.flags \subseteq Flags /\ p.data \in Seq(Nat)
BY DEF Pending

(* Another connection in the record. *)
LEMMA WithTcp ==
  ASSUME NEW h \in Hosts, NEW c \in Connection
  PROVE  LET g == [h EXCEPT !.tcp = c]
         IN /\ g \in Hosts /\ g.tcp = c /\ g.sock = h.sock /\ g.ip = h.ip
            /\ g.out = h.out /\ g.log = h.log /\ g.ok = h.ok
BY DEF Hosts

(* Another socket in it. *)
LEMMA WithSock ==
  ASSUME NEW h \in Hosts, NEW s \in Socket
  PROVE  LET g == [h EXCEPT !.sock = s]
         IN /\ g \in Hosts /\ g.sock = s /\ g.tcp = h.tcp /\ g.ip = h.ip
            /\ g.out = h.out /\ g.log = h.log /\ g.ok = h.ok
BY DEF Hosts

(* Another result. *)
LEMMA WithOk ==
  ASSUME NEW h \in Hosts, NEW b \in BOOLEAN
  PROVE  LET g == [h EXCEPT !.ok = b]
         IN /\ g \in Hosts /\ g.sock = h.sock /\ g.tcp = h.tcp /\ g.ip = h.ip
            /\ g.out = h.out /\ g.log = h.log /\ g.ok = b
BY DEF Hosts

(* Nothing of it looks at the result or at what was sent. *)
LEMMA GoodFollows ==
  ASSUME NEW h, NEW g \in Hosts, g.tcp = h.tcp, g.sock = h.sock
  PROVE  (Sound(h) => Sound(g)) /\ (Good(h) => Good(g))
BY DEF Good, Sound

(* What only sends keeps the connection attached. *)
LEMMA AttachedFollows ==
  ASSUME NEW h, Good(h), NEW g, Sound(g), g.sock = h.sock, g.tcp.state = h.tcp.state
  PROVE  Good(g)
BY DEF Good, Attached

(* No connection and no pending segment are such records.                  *)
LEMMA EmptySegment ==
  /\ <<>> \in Seq(Nat) /\ NoPending \in Pending /\ NoConnection \in Connection
  /\ ~NoPending.active /\ NoConnection.state = "CLOSED" /\ ~NoConnection.pending.active
<1>1. <<>> \in Seq(Nat) /\ 0 \in 0..MaxRetransmissions
  BY TcpAssumption
<1>2. NoPending \in Pending /\ ~NoPending.active
  BY <1>1, OneTurn DEF NoPending, Pending
<1>3. NoConnection \in Connection /\ NoConnection.state = "CLOSED"
      /\ NoConnection.pending = NoPending
  BY <1>2, OneTurn DEF NoConnection, Connection, TcpStates
<1> QED BY <1>1, <1>2, <1>3

(* tcp_emit of an event without data. *)
LEMMA EmitGood ==
  ASSUME NEW h, Good(h), NEW event \in SocketEventNames,
         event = "CLOSED" => h.tcp.state = "CLOSED"
  PROVE  /\ Good(Emit(h, event)) /\ Emit(h, event).tcp = h.tcp
         /\ Emit(h, event).ok = h.ok /\ Emit(h, event).out = h.out
<1> DEFINE s == SocketEvent(h.sock, event)
           l == h.log \cup {event}
<1>1. h \in Hosts /\ Attended(h.sock) /\ h.sock \in Socket /\ h.tcp \in Connection
  BY HostParts DEF Good, Sound
<1>2. /\ Attended(s) /\ s.rx \in {h.sock.rx, <<>>}
      /\ event # "CLOSED" => s.handle = h.sock.handle /\ (h.sock.state # "OPEN" => s.state # "OPEN")
  BY <1>1, SocketEventAttended
<1>3. s \in Socket /\ s.rx \in Seq(Nat) /\ Len(s.rx) <= Len(h.sock.rx)
  BY <1>1, <1>2 DEF Attended, Formed, Socket
<1>4. l \in SUBSET (SocketEventNames \cup {"DATA"})
  BY <1>1 DEF Hosts
<1>5. Emit(h, event) = [h EXCEPT !.sock = s, !.log = l]
  BY <1>1 DEF Emit, Hosts
<1> HIDE DEF s, l
<1>6. /\ Emit(h, event) \in Hosts /\ Emit(h, event).sock = s /\ Emit(h, event).tcp = h.tcp
      /\ Emit(h, event).ok = h.ok /\ Emit(h, event).out = h.out
  BY <1>1, <1>3, <1>4, <1>5 DEF Hosts
<1>7. Fits(h.tcp, s)
  <2>1. h.sock.rx \in Seq(Nat) /\ h.tcp.localWindow \in Nat /\ RxCapacity \in Nat
    BY <1>1, ConnectionParts, SocketAssumption DEF Socket
  <2>2. Len(h.sock.rx) \in Nat /\ Len(s.rx) \in Nat
    BY <1>3, <2>1
  <2> QED BY <1>3, <2>1, <2>2 DEF Good, Sound, Fits
<1>8. Attached(h.tcp, s)
  BY <1>2 DEF Good, Attached
<1> QED BY <1>2, <1>6, <1>7, <1>8 DEF Good, Sound

(* tcp_transmit. *)
LEMMA TransmitHost ==
  ASSUME NEW h \in Hosts, NEW seq \in Sequence, NEW flags \in SUBSET Flags,
         NEW data \in Seq(Nat)
  PROVE  LET g == Transmit(h, seq, flags, data)
         IN /\ g \in Hosts /\ g.tcp = h.tcp /\ g.sock = h.sock /\ g.ip = h.ip
            /\ g.log = h.log /\ g.ok = h.ok
<1>1. CASE h.ip # "sent"
  BY <1>1 DEF Transmit
<1>2. CASE h.ip = "sent"
  <2> DEFINE m == [seq |-> seq, ack |-> IF "ACK" \in flags THEN h.tcp.rcv ELSE 0,
                   flags |-> flags, win |-> h.tcp.localWindow, data |-> data]
             o == Append(h.out, m)
  <2>1. /\ h.tcp.rcv \in Sequence /\ h.tcp.localWindow \in Nat /\ 0 \in Sequence
        /\ h.out \in Seq(Segment)
    BY HostParts, ConnectionParts, OneTurn
  <2>2. m \in Segment
    BY <2>1 DEF Segment
  <2>3. o \in Seq(Segment)
    <3> HIDE DEF m
    <3> QED BY <2>1, <2>2
  <2>4. Transmit(h, seq, flags, data) = [h EXCEPT !.out = o]
    BY <1>2 DEF Transmit, Hosts
  <2> HIDE DEF o
  <2> QED BY <2>3, <2>4 DEF Hosts
<1> QED BY <1>1, <1>2

(* tcp_send_ack. *)
LEMMA SendAckHost ==
  ASSUME NEW h \in Hosts
  PROVE  /\ SendAck(h) \in Hosts /\ SendAck(h).tcp = h.tcp /\ SendAck(h).sock = h.sock
         /\ SendAck(h).ip = h.ip /\ SendAck(h).log = h.log /\ SendAck(h).ok = h.ok
<1>1. h.tcp.nxt \in Sequence /\ {"ACK"} \in SUBSET Flags /\ <<>> \in Seq(Nat)
  BY HostParts, ConnectionParts DEF Flags
<1> QED BY <1>1, TransmitHost DEF SendAck

(* A bare acknowledgment keeps Good and leaves the connection and the      *)
(* socket.                                                                 *)
LEMMA SendAckGood ==
  ASSUME NEW h, Good(h)
  PROVE  Good(SendAck(h)) /\ SendAck(h).tcp = h.tcp /\ SendAck(h).ok = h.ok
         /\ SendAck(h).sock = h.sock
BY SendAckHost, GoodFollows DEF Good, Sound

(* The state of the timer of a segment is no concern of Tracked. *)
LEMMA TrackedFollows ==
  ASSUME NEW c, Tracked(c), NEW d, d.state = c.state, d.una = c.una, d.nxt = c.nxt,
         d.pending.active = c.pending.active, d.pending.seq = c.pending.seq,
         d.pending.flags = c.pending.flags, d.pending.data = c.pending.data
  PROVE  Tracked(d)
BY DEF Tracked, Unacked, Size

(* tcp_try_send_pending. *)
LEMMA TrySendSound ==
  ASSUME NEW h, Sound(h)
  PROVE  LET g == TrySendPending(h)
         IN /\ Sound(g) /\ g.sock = h.sock /\ g.tcp.state = h.tcp.state
            /\ g.tcp.pending.active = h.tcp.pending.active
            /\ g.tcp.closeRequested = h.tcp.closeRequested
            /\ g.tcp.una = h.tcp.una /\ g.tcp.nxt = h.tcp.nxt
            /\ g.tcp.remoteWindow = h.tcp.remoteWindow
            /\ g.tcp.localWindow = h.tcp.localWindow
<1>1. h \in Hosts /\ h.tcp \in Connection /\ h.tcp.pending \in Pending
  BY HostParts, ConnectionParts DEF Sound
<1>2. CASE ~h.tcp.pending.active \/ h.tcp.pending.sent
  BY <1>2 DEF TrySendPending
<1>3. CASE h.tcp.pending.active /\ ~h.tcp.pending.sent
  <2> DEFINE p == h.tcp.pending
             f == Transmit(h, p.seq, p.flags, p.data)
             b == (h.ip = "sent")
             e == (h.ip # "error")
             g == [f EXCEPT !.tcp.pending.sent = b, !.ok = e]
  <2>1. f \in Hosts /\ f.tcp = h.tcp /\ f.sock = h.sock
    BY <1>1, TransmitHost, PendingParts
  <2>2. TrySendPending(h) = g
    BY <1>3 DEF TrySendPending
  <2>3. b \in BOOLEAN /\ e \in BOOLEAN
    OBVIOUS
  <2> HIDE DEF f, b, e
  <2>4. /\ g \in Hosts /\ g.sock = h.sock /\ g.tcp.state = h.tcp.state
        /\ g.tcp.una = h.tcp.una /\ g.tcp.nxt = h.tcp.nxt
        /\ g.tcp.closeRequested = h.tcp.closeRequested
        /\ g.tcp.remoteWindow = h.tcp.remoteWindow
        /\ g.tcp.localWindow = h.tcp.localWindow
        /\ g.tcp.pending.active = h.tcp.pending.active
        /\ g.tcp.pending.seq = h.tcp.pending.seq
        /\ g.tcp.pending.flags = h.tcp.pending.flags
        /\ g.tcp.pending.data = h.tcp.pending.data
    BY <1>1, <2>1, <2>3 DEF Hosts, Connection, Pending
  <2> HIDE DEF g, p
  <2>5. Tracked(g.tcp) /\ Attended(g.sock) /\ Fits(g.tcp, g.sock)
    BY <2>4, TrackedFollows DEF Sound, Fits
  <2> QED BY <2>2, <2>4, <2>5 DEF Sound
<1> QED BY <1>2, <1>3

(* What a segment takes of the sequence space. *)
LEMMA ConsumedIs ==
  ASSUME NEW flags, NEW data \in Seq(Nat)
  PROVE  /\ Consumed(flags, data) \in Nat
         /\ "SYN" \notin flags /\ "FIN" \notin flags => Consumed(flags, data) = Len(data)
         /\ ~("SYN" \in flags /\ "FIN" \in flags) => Consumed(flags, data) <= Len(data) + 1
<1> DEFINE n == Len(data)
           a == IF "SYN" \in flags THEN 1 ELSE 0
           b == IF "FIN" \in flags THEN 1 ELSE 0
<1>1. n \in Nat
  OBVIOUS
<1>2. /\ a \in Nat /\ b \in Nat /\ ("SYN" \notin flags => a = 0)
      /\ ("FIN" \notin flags => b = 0) /\ a <= 1 /\ b <= 1
  OBVIOUS
<1>3. Consumed(flags, data) = n + a + b
  BY DEF Consumed
<1> HIDE DEF n, a, b
<1>4. n + a + b \in Nat
  BY <1>1, <1>2
<1>5. a = 0 /\ b = 0 => n + a + b = n
  BY <1>1
<1>6. a = 0 \/ b = 0 => n + a + b <= n + 1
  BY <1>1, <1>2
<1> QED BY <1>2, <1>3, <1>4, <1>5, <1>6 DEF n

(* tcp_queue_tracked. *)
LEMMA QueueTrackedSound ==
  ASSUME NEW h, Sound(h), h.tcp.state \notin {"CLOSED", "FAILED"}, ~h.tcp.pending.active,
         NEW flags \in SUBSET Flags, NEW data \in Seq(Nat), Consumed(flags, data) <= Mss + 1
  PROVE  LET g == QueueTracked(h, flags, data)
         IN /\ Sound(g) /\ g.sock = h.sock /\ g.tcp.state = h.tcp.state
            /\ g.tcp.remoteWindow = h.tcp.remoteWindow
<1> DEFINE p == [active |-> TRUE, sent |-> FALSE, tries |-> 0,
                 seq |-> h.tcp.nxt, flags |-> flags, data |-> data]
           x == Plus(h.tcp.nxt, Consumed(flags, data))
           f == [h EXCEPT !.tcp.pending = p, !.tcp.nxt = x]
<1>1. h \in Hosts /\ h.tcp \in Connection /\ h.tcp.nxt \in Sequence
      /\ h.tcp.una = h.tcp.nxt
  BY HostParts, ConnectionParts DEF Sound, Tracked, Unacked
<1>2. Consumed(flags, data) \in Nat /\ Mss \in Nat /\ Mss + 1 < SeqSpace /\ SeqSpace \in Nat
  BY ConsumedIs, HalfSpace, OneTurn
<1>3. x \in Sequence /\ Plus(h.tcp.nxt, 0) = h.tcp.nxt
  <2>1. x \in Sequence
    BY <1>1, <1>2, PlusIs
  <2>2. h.tcp.nxt + 0 < SeqSpace /\ h.tcp.nxt + 0 = h.tcp.nxt /\ 0 \in Nat /\ 0 < SeqSpace
    BY <1>1, OneTurn DEF Sequence
  <2> QED BY <1>1, <2>1, <2>2, PlusIs
<1>4. p \in Pending /\ p.active /\ p.seq = h.tcp.nxt /\ p.flags = flags /\ p.data = data
  <2>1. 0 \in 0..MaxRetransmissions
    BY TcpAssumption
  <2> QED BY <1>1, <2>1 DEF Pending
<1>5. QueueTracked(h, flags, data) = TrySendPending(f)
  BY <1>1 DEF QueueTracked, Hosts, Connection
<1> HIDE DEF p, x
<1>6. /\ f \in Hosts /\ f.sock = h.sock /\ f.tcp.state = h.tcp.state
      /\ f.tcp.una = h.tcp.una /\ f.tcp.nxt = x /\ f.tcp.pending = p
      /\ f.tcp.localWindow = h.tcp.localWindow
      /\ f.tcp.remoteWindow = h.tcp.remoteWindow
  BY <1>1, <1>3, <1>4 DEF Hosts, Connection
<1> HIDE DEF f
<1>7. Tracked(f.tcp)
  <2>1. Size(f.tcp.pending) = Consumed(flags, data)
    BY <1>4, <1>6 DEF Size
  <2>2. 0 \in 0..Size(f.tcp.pending) /\ f.tcp.una = Plus(f.tcp.pending.seq, 0)
    BY <1>1, <1>2, <1>3, <1>4, <1>6, <2>1
  <2>3. f.tcp.nxt = Plus(f.tcp.pending.seq, Size(f.tcp.pending))
    BY <1>4, <1>6, <2>1 DEF x
  <2> QED BY <1>4, <1>6, <2>1, <2>2, <2>3 DEF Tracked, Unacked
<1>8. Sound(f)
  BY <1>6, <1>7 DEF Sound, Fits
<1> QED BY <1>5, <1>6, <1>8, TrySendSound

(* A record whose connection is gone. *)
LEMMA NoConnectionGood ==
  ASSUME NEW h \in Hosts, Attended(h.sock)
  PROVE  LET g == [h EXCEPT !.tcp = NoConnection]
         IN /\ Good(g) /\ g.tcp.state = "CLOSED" /\ g.sock = h.sock /\ g.ok = h.ok
            /\ g.tcp = NoConnection
BY EmptySegment, WithTcp DEF Good, Sound, Tracked, Fits, Attached

(* tcp_clear_connection. *)
LEMMA ClearConnectionGood ==
  ASSUME NEW h \in Hosts, Attended(h.sock)
  PROVE  /\ Good(ClearConnection(h)) /\ ClearConnection(h).tcp.state = "CLOSED"
         /\ ClearConnection(h).ok = h.ok
<1> DEFINE g == [h EXCEPT !.tcp = NoConnection]
<1>1. Good(g) /\ g.tcp.state = "CLOSED" /\ g.ok = h.ok
  BY NoConnectionGood
<1>2. ClearConnection(h) = Emit(g, "CLOSED")
  BY DEF ClearConnection
<1> HIDE DEF g
<1> QED BY <1>1, <1>2, EmitGood DEF SocketEventNames

(* tcp_fail. The connection need not be tracked any more. *)
LEMMA FailGood ==
  ASSUME NEW h \in Hosts, Attended(h.sock), Fits(h.tcp, h.sock), Attached(h.tcp, h.sock),
         h.tcp.state \in {"CLOSED", "FAILED"} => Good(h)
  PROVE  /\ Good(Fail(h)) /\ Fail(h).tcp.state \in {"CLOSED", "FAILED"}
         /\ Fail(h).ok = h.ok
<1>1. CASE h.tcp.state \in {"CLOSED", "FAILED"}
  BY <1>1 DEF Fail, Active, In
<1>2. CASE h.tcp.state \notin {"CLOSED", "FAILED"}
  <2> DEFINE p == [NoPending EXCEPT !.sent = h.tcp.pending.sent]
             f == [h EXCEPT !.tcp.state = "FAILED", !.tcp.pending = p]
  <2>1. h.tcp \in Connection /\ h.tcp.pending \in Pending /\ h.tcp.pending.sent \in BOOLEAN
    BY HostParts, ConnectionParts, PendingParts
  <2>2. p \in Pending /\ ~p.active
    BY <2>1, EmptySegment DEF Pending
  <2>3. Fail(h) = Emit(f, "ERROR")
    BY <1>2 DEF Fail, Active, In
  <2> HIDE DEF p
  <2>4. /\ f \in Hosts /\ f.sock = h.sock /\ f.tcp.state = "FAILED" /\ f.tcp.pending = p
        /\ f.tcp.localWindow = h.tcp.localWindow /\ f.ok = h.ok
    BY <2>1, <2>2 DEF Hosts, Connection, TcpStates
  <2> HIDE DEF f
  <2>5. Good(f)
    BY <1>2, <2>2, <2>4 DEF Good, Sound, Tracked, Fits, Attached
  <2> QED BY <2>3, <2>4, <2>5, EmitGood DEF SocketEventNames
<1> QED BY <1>1, <1>2

(* tcp_begin_close. *)
LEMMA BeginCloseGood ==
  ASSUME NEW h, Good(h)
  PROVE  Good(BeginClose(h))
<1>1. CASE h.tcp.pending.active \/ h.tcp.state \notin {"ESTABLISHED", "CLOSE_WAIT"}
  BY <1>1 DEF BeginClose, In
<1>2. CASE ~h.tcp.pending.active /\ h.tcp.state \in {"ESTABLISHED", "CLOSE_WAIT"}
  <2> DEFINE y == IF h.tcp.state = "ESTABLISHED" THEN "FIN_WAIT_1" ELSE "LAST_ACK"
             f == [h EXCEPT !.tcp.state = y]
             g == QueueTracked(f, {"FIN", "ACK"}, <<>>)
  <2>1. h \in Hosts /\ h.tcp \in Connection /\ h.tcp.pending \in Pending
    BY HostParts, ConnectionParts DEF Good, Sound
  <2>2. y \in {"FIN_WAIT_1", "LAST_ACK"}
    OBVIOUS
  <2>3. BeginClose(h) = IF g.ok THEN g ELSE Fail(g)
    BY <1>2, <2>1 DEF BeginClose, In, Hosts, Connection
  <2> HIDE DEF y
  <2>4. /\ f \in Hosts /\ f.sock = h.sock /\ f.tcp.state = y /\ f.tcp.una = h.tcp.una
        /\ f.tcp.nxt = h.tcp.nxt /\ f.tcp.pending = h.tcp.pending
        /\ f.tcp.localWindow = h.tcp.localWindow
    BY <2>1, <2>2 DEF Hosts, Connection, TcpStates
  <2> HIDE DEF f
  <2>5. Good(f)
    BY <1>2, <2>2, <2>4 DEF Good, Sound, Tracked, Unacked, Fits, Attached
  <2>6. /\ {"FIN", "ACK"} \in SUBSET Flags /\ <<>> \in Seq(Nat)
        /\ Consumed({"FIN", "ACK"}, <<>>) <= Mss + 1
    BY HalfSpace DEF Flags, Consumed
  <2>7. Sound(g) /\ g.tcp.state = y /\ g.sock = f.sock
    BY <1>2, <2>2, <2>4, <2>5, <2>6, QueueTrackedSound DEF Good
  <2>8. Good(g)
    BY <2>4, <2>5, <2>7, AttachedFollows
  <2>9. Good(Fail(g))
    BY <2>8, FailGood DEF Good, Sound
  <2> QED BY <2>3, <2>8, <2>9
<1> QED BY <1>1, <1>2
-----------------------------------------------------------------------------
(* Input. *)
LEMMA SegmentParts ==
  ASSUME NEW m \in Segment
  PROVE  /\ m.seq \in Sequence /\ m.ack \in Sequence /\ m.flags \subseteq Flags
         /\ m.win \in Nat /\ m.data \in Seq(Nat) /\ Len(m.data) \in Nat
BY DEF Segment

(* Plus of any number of bytes is a sequence number. *)
LEMMA PlusType ==
  ASSUME NEW s \in Sequence, NEW n \in Nat
  PROVE  Plus(s, n) \in Sequence
<1>1. s + n \in Int
  BY OneTurn DEF Sequence
<1> QED BY <1>1, OneTurn DEF Plus

(* tcp_emit of data that fits the ring. *)
LEMMA EmitDataHost ==
  ASSUME NEW h \in Hosts, Attended(h.sock), h.sock.state # "OPEN",
         NEW data \in Seq(Nat), Len(data) + Len(h.sock.rx) <= RxCapacity
  PROVE  LET g == EmitData(h, data)
         IN /\ g \in Hosts /\ g.tcp = h.tcp /\ g.ok = h.ok /\ Attended(g.sock)
            /\ g.sock.rx = h.sock.rx \o data /\ g.sock.handle = h.sock.handle
            /\ g.sock.state = h.sock.state
            /\ Len(g.sock.rx) = Len(h.sock.rx) + Len(data)
<1> DEFINE x == h.sock.rx \o data
           r == [h.sock EXCEPT !.rx = x]
           s == WakeOne(r)
           l == h.log \cup {"DATA"}
<1>1. /\ h.sock \in Socket /\ h.sock.rx \in Seq(Nat) /\ Formed(h.sock) /\ RxCapacity \in Nat
      /\ Len(h.sock.rx) \in Nat /\ Len(data) \in Nat
  BY HostParts, SocketAssumption DEF Attended, Formed, Socket
<1>2. ~(Len(data) > RxCapacity - Len(h.sock.rx))
  BY <1>1
<1>3. x \in Seq(Nat) /\ Len(x) = Len(h.sock.rx) + Len(data)
  BY <1>1
<1>4. EmitData(h, data) = [h EXCEPT !.sock = s, !.log = l]
  <2>1. [h.sock EXCEPT !.rx = @ \o data] = r
    BY <1>1 DEF Socket
  <2>2. EmitData(h, data) = [h EXCEPT !.sock = WakeOne([h.sock EXCEPT !.rx = @ \o data]),
                                      !.log = h.log \cup {"DATA"}]
    BY <1>2 DEF EmitData
  <2> QED BY <2>1, <2>2
<1> HIDE DEF x
<1>5. /\ r \in Socket /\ r.rx = x /\ r.queue = h.sock.queue /\ r.woken = h.sock.woken
      /\ r.handle = h.sock.handle /\ r.state = h.sock.state /\ r.active = h.sock.active
      /\ r.eof = h.sock.eof
  BY <1>1, <1>3 DEF Socket
<1> HIDE DEF r
<1>6. Formed(r)
  BY <1>1, <1>3, <1>5, SMTT(30) DEF Formed
<1>7. EntryEvents(r) \cap TerminalEvents = EntryEvents(h.sock) \cap TerminalEvents
  BY <1>5 DEF EntryEvents, TerminalEvents
<1>8. HasEnded(r) => r.queue = <<>>
  BY <1>5, <1>7 DEF Attended, HasEnded
<1>9. Attended(s) /\ s.rx = x /\ s.handle = h.sock.handle /\ s.state = h.sock.state
  BY <1>5, <1>6, <1>8, WakeOneAttended
<1>10. s \in Socket /\ l \in SUBSET (SocketEventNames \cup {"DATA"})
  BY <1>9, HostParts DEF Attended, Formed
<1> HIDE DEF s, l
<1>11. LET g == EmitData(h, data)
       IN g \in Hosts /\ g.tcp = h.tcp /\ g.ok = h.ok /\ g.sock = s
  BY <1>4, <1>10 DEF Hosts
<1> QED BY <1>3, <1>9, <1>11 DEF x

(* A connection changes and its socket does not. *)
LEMMA GoodWith ==
  ASSUME NEW h, Good(h), NEW c \in Connection, Tracked(c),
         c.state # "CLOSED" =>
           h.tcp.state # "CLOSED" /\ c.localWindow = h.tcp.localWindow
  PROVE  LET g == [h EXCEPT !.tcp = c]
         IN /\ Good(g) /\ g.tcp = c /\ g.sock = h.sock /\ g.ok = h.ok /\ g.out = h.out
BY WithTcp DEF Good, Sound, Fits, Attached

(* tcp_process_syn_sent. *)
LEMMA ProcessSynSentGood ==
  ASSUME NEW h, Good(h), h.tcp.state = "SYN_SENT", NEW m \in Segment
  PROVE  Good(ProcessSynSent(h, m))
<1>1. h \in Hosts /\ h.tcp \in Connection /\ Good(Fail(h))
  BY HostParts, FailGood DEF Good, Sound
<1>2. CASE "RST" \in m.flags \/ ~({"SYN", "ACK"} \subseteq m.flags) \/ m.ack # h.tcp.nxt
           \/ m.data # <<>>
  BY <1>1, <1>2 DEF ProcessSynSent
<1>3. CASE ~("RST" \in m.flags \/ ~({"SYN", "ACK"} \subseteq m.flags) \/ m.ack # h.tcp.nxt
             \/ m.data # <<>>)
  <2> DEFINE x == Plus(m.seq, 1)
             c == [h.tcp EXCEPT !.pending = NoPending, !.una = m.ack, !.rcv = x,
                                !.remoteWindow = m.win, !.state = "ESTABLISHED"]
             f == [h EXCEPT !.tcp = c]
  <2>1. x \in Sequence /\ m.ack \in Sequence /\ m.win \in Nat /\ m.ack = h.tcp.nxt
    BY <1>3, SegmentParts, PlusType
  <2>2. [ClearPending(h) EXCEPT !.tcp.una = m.ack, !.tcp.rcv = x, !.tcp.remoteWindow = m.win,
                                !.tcp.state = "ESTABLISHED"] = f
    BY <1>1 DEF ClearPending, Hosts, Connection
  <2>3. ProcessSynSent(h, m) = Emit(Emit(SendAck(f), "CONNECTED"), "WRITABLE")
    BY <1>3, <2>2 DEF ProcessSynSent
  <2> HIDE DEF x
  <2>4. /\ c \in Connection /\ c.state = "ESTABLISHED" /\ c.pending = NoPending
        /\ c.una = c.nxt /\ c.localWindow = h.tcp.localWindow
    BY <1>1, <2>1, EmptySegment DEF Connection, TcpStates
  <2>5. Tracked(c)
    BY <2>4, EmptySegment DEF Tracked, Unacked
  <2> HIDE DEF c
  <2>6. Good(f)
    BY <2>4, <2>5, GoodWith
  <2> HIDE DEF f
  <2>7. Good(SendAck(f))
    BY <2>6, SendAckGood
  <2>8. Good(Emit(SendAck(f), "CONNECTED"))
    BY <2>7, EmitGood DEF SocketEventNames
  <2> QED BY <2>3, <2>8, EmitGood DEF SocketEventNames
<1> QED BY <1>2, <1>3

(* An acknowledgment of something sent leaves a part of the pending segment *)
(* unacknowledged, or completes it.                                        *)
LEMMA AckMovesUna ==
  ASSUME NEW c \in Connection, Tracked(c), NEW ack \in Sequence,
         SequenceBetween(ack, c.una, c.nxt)
  PROVE  LET p == c.pending
             moved == SequenceLess(c.una, ack)
             completed == moved /\ p.active /\ ~SequenceLess(ack, PendingEnd(p))
             una == IF moved THEN ack ELSE c.una
         IN /\ completed => c.state \notin {"CLOSED", "FAILED"} /\ ack = c.nxt
            /\ c.state \notin {"CLOSED", "FAILED"} /\ p.active =>
                 \E n \in 0..Size(p) : una = Plus(p.seq, n)
            /\ c.state \notin {"CLOSED", "FAILED"} /\ ~p.active => una = c.nxt
<1> DEFINE p == c.pending
           d == Size(p)
<1>1. p \in Pending /\ p.seq \in Sequence /\ p.data \in Seq(Nat) /\ c.una \in Sequence
      /\ c.nxt \in Sequence
  BY ConnectionParts, PendingParts
<1>2. CASE c.state \in {"CLOSED", "FAILED"}
  BY <1>2 DEF Tracked
<1>3. CASE c.state \notin {"CLOSED", "FAILED"} /\ ~p.active
  BY <1>1, <1>3, NothingUnacked DEF Tracked, Unacked
<1>4. CASE c.state \notin {"CLOSED", "FAILED"} /\ p.active
  <2>1. /\ d <= Mss + 1 /\ c.nxt = Plus(p.seq, d)
        /\ \E n \in 0..d : c.una = Plus(p.seq, n)
    BY <1>4 DEF Tracked, Unacked
  <2>2. PICK u \in 0..d : c.una = Plus(p.seq, u)
    BY <2>1
  <2>3. d \in Nat
    BY <1>1, ConsumedIs DEF Size
  <2>4. d \in 0..(Mss + 1)
    BY <2>1, <2>3, HalfSpace
  <2>5. PendingEnd(p) = c.nxt
    BY <2>1 DEF PendingEnd, Size
  <2> HIDE DEF d, p
  <2>6. /\ \E n \in 0..d : ack = Plus(p.seq, n)
        /\ ~SequenceLess(ack, Plus(p.seq, d)) => ack = Plus(p.seq, d)
    BY <1>1, <2>1, <2>2, <2>4, AckIsInside
  <2> QED BY <1>4, <2>1, <2>5, <2>6 DEF d, p
<1> QED BY <1>2, <1>3, <1>4

(* tcp_process_ack of an acknowledgment of something sent. *)
LEMMA AckInRangeGood ==
  ASSUME NEW h, Good(h), NEW m \in Segment,
         SequenceBetween(m.ack, h.tcp.una, h.tcp.nxt)
  PROVE  Good(AckInRange(h, m))
<1> DEFINE p == h.tcp.pending
           moved == SequenceLess(h.tcp.una, m.ack)
           completed == moved /\ p.active /\ ~SequenceLess(m.ack, PendingEnd(p))
           finished == completed /\ "FIN" \in p.flags
           una == IF moved THEN m.ack ELSE h.tcp.una
           x == [h.tcp EXCEPT !.remoteWindow = m.win, !.una = una]
           a == [h EXCEPT !.tcp = x]
<1>1. /\ h \in Hosts /\ h.tcp \in Connection /\ Tracked(h.tcp) /\ h.tcp.una \in Sequence
      /\ m.ack \in Sequence /\ m.win \in Nat /\ h.tcp.pending \in Pending
  BY HostParts, ConnectionParts, SegmentParts DEF Good, Sound
<1>2. /\ completed => h.tcp.state \notin {"CLOSED", "FAILED"} /\ m.ack = h.tcp.nxt
      /\ h.tcp.state \notin {"CLOSED", "FAILED"} /\ p.active =>
           \E n \in 0..Size(p) : una = Plus(p.seq, n)
      /\ h.tcp.state \notin {"CLOSED", "FAILED"} /\ ~p.active => una = h.tcp.nxt
  BY <1>1, AckMovesUna
<1>3. una \in Sequence /\ (completed => una = m.ack)
  BY <1>1
<1>4. [h EXCEPT !.tcp.remoteWindow = m.win, !.tcp.una = IF moved THEN m.ack ELSE @] = a
  BY <1>1 DEF Hosts, Connection
<1>5. CASE ~completed
  <2>1. AckInRange(h, m) = IF a.tcp.closeRequested THEN BeginClose(a) ELSE a
    <3> DEFINE e == [h EXCEPT !.tcp.remoteWindow = m.win,
                             !.tcp.una = IF moved THEN m.ack ELSE @]
               b == IF completed THEN ClearPending(e) ELSE e
               c == IF ~finished THEN b
                    ELSE [b EXCEPT !.tcp.state = CASE @ = "FIN_WAIT_1" -> "FIN_WAIT_2"
                                                   [] @ = "CLOSING"    -> "TIME_WAIT"
                                                   [] OTHER            -> @]
               d == IF completed THEN Emit(c, "WRITABLE") ELSE c
    <3>1. AckInRange(h, m) = IF finished /\ In(b, {"LAST_ACK"}) THEN ClearConnection(b)
                             ELSE IF d.tcp.closeRequested THEN BeginClose(d) ELSE d
      BY DEF AckInRange
    <3>2. b = e
      BY <1>5
    <3>3. c = b
      BY <1>5
    <3>4. d = c
      BY <1>5
    <3>5. ~finished /\ e = a
      BY <1>4, <1>5
    <3> HIDE DEF a, b, c, d, e, finished
    <3> QED BY <3>1, <3>2, <3>3, <3>4, <3>5
  <2> HIDE DEF una
  <2>2. /\ x \in Connection /\ x.state = h.tcp.state /\ x.pending = h.tcp.pending
        /\ x.nxt = h.tcp.nxt /\ x.una = una /\ x.localWindow = h.tcp.localWindow
    BY <1>1, <1>3 DEF Connection
  <2> HIDE DEF x
  <2>3. Tracked(x)
    BY <1>1, <1>2, <2>2 DEF Tracked, Unacked
  <2>4. Good(a)
    BY <2>2, <2>3, GoodWith
  <2> HIDE DEF a
  <2> QED BY <2>1, <2>4, BeginCloseGood
<1>6. CASE completed
  <2> DEFINE y == [h.tcp EXCEPT !.remoteWindow = m.win, !.una = una, !.pending = NoPending]
             b == [h EXCEPT !.tcp = y]
             z == CASE h.tcp.state = "FIN_WAIT_1" -> "FIN_WAIT_2"
                    [] h.tcp.state = "CLOSING"    -> "TIME_WAIT"
                    [] OTHER                      -> h.tcp.state
             w == IF finished THEN z ELSE h.tcp.state
             v == [h.tcp EXCEPT !.remoteWindow = m.win, !.una = una, !.pending = NoPending,
                                !.state = w]
             c == [h EXCEPT !.tcp = v]
             d == Emit(c, "WRITABLE")
  <2>1. ClearPending(a) = b
    BY <1>1 DEF ClearPending, Hosts, Connection
  <2>2. (IF ~finished THEN b
         ELSE [b EXCEPT !.tcp.state = CASE @ = "FIN_WAIT_1" -> "FIN_WAIT_2"
                                        [] @ = "CLOSING"    -> "TIME_WAIT"
                                        [] OTHER            -> @]) = c
    <3>1. CASE finished
      BY <1>1, <3>1 DEF Hosts, Connection
    <3>2. CASE ~finished
      BY <1>1, <3>2 DEF Hosts, Connection
    <3> QED BY <3>1, <3>2
  <2>3. \/ AckInRange(h, m) = ClearConnection(b)
        \/ AckInRange(h, m) = IF d.tcp.closeRequested THEN BeginClose(d) ELSE d
    <3> HIDE DEF a, b, c
    <3> QED BY <1>4, <1>6, <2>1, <2>2, SMTT(30) DEF AckInRange
  <2>4. h.tcp.state \notin {"CLOSED", "FAILED"} /\ una = h.tcp.nxt
    BY <1>2, <1>3, <1>6
  <2>5. w \in TcpStates \ {"CLOSED", "FAILED"}
    BY <1>1, <2>4 DEF Connection, TcpStates
  <2> HIDE DEF una, w
  <2>6. /\ v \in Connection /\ v.state = w /\ v.pending = NoPending
        /\ v.nxt = h.tcp.nxt /\ v.una = una /\ v.localWindow = h.tcp.localWindow
    BY <1>1, <1>3, <2>5, EmptySegment DEF Connection
  <2>7. y \in Connection
    BY <1>1, <1>3, EmptySegment DEF Connection
  <2> HIDE DEF v, y
  <2>8. Tracked(v)
    BY <2>4, <2>5, <2>6, EmptySegment DEF Tracked, Unacked
  <2>9. Good(c)
    BY <2>4, <2>6, <2>8, GoodWith
  <2>10. Good(ClearConnection(b))
    <3>1. b \in Hosts /\ b.sock = h.sock
      BY <1>1, <2>7, WithTcp
    <3> HIDE DEF b
    <3> QED BY <3>1, ClearConnectionGood DEF Good, Sound
  <2> HIDE DEF c
  <2>11. Good(d)
    BY <2>9, EmitGood DEF SocketEventNames
  <2> HIDE DEF d
  <2> QED BY <2>3, <2>10, <2>11, BeginCloseGood
<1> QED BY <1>5, <1>6

(* tcp_process_ack. *)
LEMMA ProcessAckGood ==
  ASSUME NEW h, Good(h), NEW m \in Segment
  PROVE  Good(ProcessAck(h, m))
BY AckInRangeGood, SendAckGood DEF ProcessAck

(* The space a segment inside the window takes. *)
LEMMA WindowShrinks ==
  ASSUME NEW n \in Nat, NEW w \in Nat, NEW r \in Nat, w + r <= RxCapacity, ~(n > w)
  PROVE  n + r <= RxCapacity /\ w - n \in Nat /\ (w - n) + (r + n) <= RxCapacity
BY SocketAssumption

(* tcp_accept_payload: what the window lets in, the ring has room for. *)
LEMMA AcceptPayloadGood ==
  ASSUME NEW h, Good(h), h.ok, h.tcp.state # "CLOSED", NEW m \in Segment
  PROVE  Good(AcceptPayload(h, m))
<1>1. /\ h \in Hosts /\ h.tcp \in Connection /\ h.sock \in Socket /\ Attended(h.sock)
      /\ h.tcp.localWindow \in Nat /\ h.tcp.rcv \in Sequence /\ h.sock.rx \in Seq(Nat)
      /\ m.data \in Seq(Nat) /\ Len(m.data) \in Nat /\ RxCapacity \in Nat
  BY HostParts, ConnectionParts, SegmentParts, SocketAssumption DEF Good, Sound, Socket
<1>2. /\ h.tcp.localWindow + Len(h.sock.rx) <= RxCapacity /\ h.sock.handle
      /\ h.sock.state # "OPEN" /\ Len(h.sock.rx) \in Nat
  BY <1>1 DEF Good, Sound, Fits, Attached
<1>3. CASE m.data = <<>>
  BY <1>3 DEF AcceptPayload
<1>4. CASE m.data # <<>> /\ (m.seq # h.tcp.rcv \/ Len(m.data) > h.tcp.localWindow)
  BY <1>4, SendAckGood DEF AcceptPayload
<1>5. CASE m.data # <<>> /\ ~(m.seq # h.tcp.rcv \/ Len(m.data) > h.tcp.localWindow)
  <2> DEFINE g == EmitData(h, m.data)
             x == Plus(h.tcp.rcv, Len(m.data))
             w == h.tcp.localWindow - Len(m.data)
             c == [h.tcp EXCEPT !.rcv = x, !.localWindow = w]
             f == [g EXCEPT !.tcp = c]
  <2>1. /\ Len(m.data) + Len(h.sock.rx) <= RxCapacity /\ w \in Nat
        /\ w + (Len(h.sock.rx) + Len(m.data)) <= RxCapacity
    BY <1>1, <1>2, <1>5, WindowShrinks
  <2>2. /\ g \in Hosts /\ g.tcp = h.tcp /\ g.ok /\ Attended(g.sock)
        /\ g.sock.handle /\ g.sock.state = h.sock.state
        /\ Len(g.sock.rx) = Len(h.sock.rx) + Len(m.data)
    BY <1>1, <1>2, <2>1, EmitDataHost
  <2>3. x \in Sequence
    BY <1>1, PlusType
  <2>4. [g EXCEPT !.tcp.rcv = Plus(@, Len(m.data)),
                  !.tcp.localWindow = @ - Len(m.data)] = f
    <3> HIDE DEF g
    <3> QED BY <1>1, <2>2 DEF Hosts, Connection
  <2>5. AcceptPayload(h, m) = SendAck(f)
    <3>1. AcceptPayload(h, m) = SendAck([g EXCEPT !.tcp.rcv = Plus(@, Len(m.data)),
                                                  !.tcp.localWindow = @ - Len(m.data)])
      BY <1>5, <2>2 DEF AcceptPayload
    <3> QED BY <2>4, <3>1
  <2> HIDE DEF x, g
  <2>6. w + Len(g.sock.rx) <= RxCapacity
    BY <2>1, <2>2
  <2> HIDE DEF w
  <2>7. /\ c \in Connection /\ c.localWindow = w /\ c.state = h.tcp.state
        /\ c.una = h.tcp.una /\ c.nxt = h.tcp.nxt /\ c.pending = h.tcp.pending
    BY <1>1, <2>1, <2>3 DEF Connection
  <2> HIDE DEF c
  <2>8. f \in Hosts /\ f.tcp = c /\ f.sock = g.sock
    BY <2>2, <2>7, WithTcp
  <2>9. Tracked(c)
    BY <2>7, TrackedFollows DEF Good, Sound
  <2> HIDE DEF f
  <2>10. Good(f)
    BY <1>2, <2>2, <2>6, <2>7, <2>8, <2>9 DEF Good, Sound, Fits, Attached
  <2> QED BY <2>5, <2>10, SendAckGood
<1> QED BY <1>3, <1>4, <1>5

(* tcp_accept_fin. *)
LEMMA AcceptFinGood ==
  ASSUME NEW h, Good(h), NEW m \in Segment
  PROVE  Good(AcceptFin(h, m))
<1>1. h \in Hosts /\ h.tcp \in Connection /\ h.tcp.rcv \in Sequence
  BY HostParts, ConnectionParts DEF Good, Sound
<1>2. CASE "FIN" \notin m.flags \/ Plus(m.seq, Len(m.data)) # h.tcp.rcv
  BY <1>2, SendAckGood DEF AcceptFin
<1>3. CASE ~("FIN" \notin m.flags \/ Plus(m.seq, Len(m.data)) # h.tcp.rcv)
  <2> DEFINE x == Plus(h.tcp.rcv, 1)
             c == [h.tcp EXCEPT !.rcv = x]
             f == [h EXCEPT !.tcp = c]
             g == Emit(SendAck(f), "EOF")
             y == CASE g.tcp.state = "ESTABLISHED" -> "CLOSE_WAIT"
                    [] g.tcp.state = "FIN_WAIT_1"  -> IF g.tcp.pending.active
                                                      THEN "CLOSING" ELSE "TIME_WAIT"
                    [] g.tcp.state = "FIN_WAIT_2"  -> "TIME_WAIT"
                    [] OTHER                       -> g.tcp.state
             d == [g.tcp EXCEPT !.state = y]
             e == [g EXCEPT !.tcp = d]
  <2>1. x \in Sequence
    BY <1>1, PlusType
  <2>2. [h EXCEPT !.tcp.rcv = Plus(@, 1)] = f
    BY <1>1 DEF Hosts, Connection
  <2> HIDE DEF x
  <2>3. /\ c \in Connection /\ c.localWindow = h.tcp.localWindow /\ c.state = h.tcp.state
        /\ c.una = h.tcp.una /\ c.nxt = h.tcp.nxt /\ c.pending = h.tcp.pending
    BY <1>1, <2>1 DEF Connection
  <2> HIDE DEF c
  <2>4. Tracked(c)
    BY <2>3, TrackedFollows DEF Good, Sound
  <2>5. Good(f)
    BY <2>3, <2>4, GoodWith
  <2> HIDE DEF f
  <2>6. Good(g)
    BY <2>5, SendAckGood, EmitGood DEF SocketEventNames
  <2>7. AcceptFin(h, m) = [g EXCEPT !.tcp.state =
            CASE @ = "ESTABLISHED" -> "CLOSE_WAIT"
              [] @ = "FIN_WAIT_1"  -> IF g.tcp.pending.active
                                      THEN "CLOSING" ELSE "TIME_WAIT"
              [] @ = "FIN_WAIT_2"  -> "TIME_WAIT"
              [] OTHER             -> @]
    BY <1>3, <2>2 DEF AcceptFin
  <2> HIDE DEF g
  <2>8. g \in Hosts /\ g.tcp \in Connection /\ g.tcp.state \in TcpStates
    BY <2>6, HostParts, ConnectionParts DEF Good, Sound
  <2>9. AcceptFin(h, m) = e
    BY <2>7, <2>8 DEF Hosts, Connection
  <2>10. /\ y \in TcpStates
         /\ y \in {"CLOSED", "FAILED"} <=> g.tcp.state \in {"CLOSED", "FAILED"}
         /\ y = "CLOSED" <=> g.tcp.state = "CLOSED"
    BY <2>8 DEF TcpStates
  <2> HIDE DEF y
  <2>11. /\ d \in Connection /\ d.localWindow = g.tcp.localWindow /\ d.state = y
         /\ d.una = g.tcp.una /\ d.nxt = g.tcp.nxt /\ d.pending = g.tcp.pending
    BY <2>8, <2>10 DEF Connection
  <2> HIDE DEF d
  <2>12. Tracked(d)
    BY <2>6, <2>10, <2>11 DEF Good, Sound, Tracked, Unacked
  <2> QED BY <2>6, <2>9, <2>10, <2>11, <2>12, GoodWith
<1> QED BY <1>2, <1>3

(* tcp_process_connection of a segment in order. *)
LEMMA ProcessInOrderGood ==
  ASSUME NEW h, Good(h), NEW m \in Segment
  PROVE  Good(ProcessInOrder(h, m))
<1> DEFINE a == ProcessAck(h, m)
           b == AcceptPayload(a, m)
<1>1. Good(a)
  BY ProcessAckGood
<1>2. ProcessInOrder(h, m) = IF ~a.ok \/ a.tcp.state = "CLOSED" THEN a
                             ELSE IF ~b.ok THEN b ELSE AcceptFin(b, m)
  BY DEF ProcessInOrder, Active
<1> HIDE DEF a
<1>3. CASE ~a.ok \/ a.tcp.state = "CLOSED"
  BY <1>1, <1>2, <1>3
<1>4. CASE a.ok /\ a.tcp.state # "CLOSED"
  <2>1. Good(b)
    BY <1>1, <1>4, AcceptPayloadGood
  <2> HIDE DEF b
  <2> QED BY <1>2, <1>4, <2>1, AcceptFinGood
<1> QED BY <1>3, <1>4

(* tcp_process_connection. *)
LEMMA ProcessConnectionGood ==
  ASSUME NEW h, Good(h), NEW m \in Segment
  PROVE  Good(ProcessConnection(h, m))
<1>1. Good(SendAck(h)) /\ Good(ProcessInOrder(h, m))
  BY SendAckGood, ProcessInOrderGood
<1>2. Good(Fail(h))
  BY FailGood DEF Good, Sound
<1>3. CASE h.tcp.state = "SYN_SENT"
  BY <1>3, ProcessSynSentGood DEF ProcessConnection, In
<1>4. CASE h.tcp.state # "SYN_SENT"
  BY <1>1, <1>2, <1>4 DEF ProcessConnection, In
<1> QED BY <1>3, <1>4

(* tcp_handle_ipv4. *)
LEMMA HandleIpv4Good ==
  ASSUME NEW h, Good(h), NEW m \in Segment
  PROVE  Good(HandleIpv4(h, m))
<1>1. CASE h.tcp.state # "CLOSED"
  BY <1>1, ProcessConnectionGood DEF HandleIpv4, Active
<1>2. CASE h.tcp.state = "CLOSED"
  <2>1. HandleIpv4(h, m) = RawReset(h, m)
    BY <1>2 DEF HandleIpv4, Active
  <2>2. CASE "RST" \in m.flags \/ h.ip # "sent"
    BY <2>1, <2>2 DEF RawReset
  <2>3. CASE ~("RST" \in m.flags \/ h.ip # "sent")
    <3> DEFINE x == Plus(m.seq, Consumed(m.flags, m.data))
               r == IF "ACK" \in m.flags
                    THEN [seq |-> m.ack, ack |-> 0, flags |-> {"RST"}, win |-> 0,
                          data |-> <<>>]
                    ELSE [seq |-> 0, ack |-> x, flags |-> {"RST", "ACK"}, win |-> 0,
                          data |-> <<>>]
               o == Append(h.out, r)
               g == [h EXCEPT !.out = o]
    <3>1. /\ h \in Hosts /\ h.out \in Seq(Segment) /\ m.ack \in Sequence /\ 0 \in Sequence
          /\ <<>> \in Seq(Nat) /\ m.seq \in Sequence /\ Consumed(m.flags, m.data) \in Nat
      BY HostParts, SegmentParts, ConsumedIs, OneTurn, EmptySegment DEF Good, Sound
    <3>2. x \in Sequence
      BY <3>1, PlusType
    <3>3. RawReset(h, m) = g
      BY <2>3, <3>1 DEF RawReset, Hosts
    <3> HIDE DEF x
    <3>4. r \in Segment
      BY <3>1, <3>2 DEF Segment, Flags
    <3> HIDE DEF r
    <3>5. o \in Seq(Segment)
      BY <3>1, <3>4
    <3> HIDE DEF o
    <3>6. g \in Hosts /\ g.tcp = h.tcp /\ g.sock = h.sock
      BY <3>1, <3>5 DEF Hosts
    <3> QED BY <2>1, <3>3, <3>6, GoodFollows
  <2> QED BY <2>2, <2>3
<1> QED BY <1>1, <1>2
-----------------------------------------------------------------------------
(* Calls of TCP. *)

(* tcp_send takes the least of three numbers. *)
LEMMA LeastOfThree ==
  ASSUME NEW a \in Nat, NEW b \in Nat, NEW c \in Nat
  PROVE  /\ Min({a, b, c}) \in Nat /\ Min({a, b, c}) <= a
         /\ Min({a, b, c}) <= b /\ Min({a, b, c}) <= c
<1> DEFINE P(x) == x \in {a, b, c} /\ \A y \in {a, b, c} : x <= y
<1>1. P(a) \/ P(b) \/ P(c)
  OBVIOUS
<1>2. \E x \in {a, b, c} : \A y \in {a, b, c} : x <= y
  BY <1>1
<1>3. P(Min({a, b, c}))
  BY <1>2 DEF Min
<1> QED BY <1>3

(* A socket changes and its connection does not. *)
LEMMA GoodWithSock ==
  ASSUME NEW h \in Hosts, Tracked(h.tcp), NEW s, Attended(s), Fits(h.tcp, s),
         Attached(h.tcp, s)
  PROVE  LET g == [h EXCEPT !.sock = s]
         IN Good(g) /\ g.sock = s /\ g.tcp = h.tcp /\ g.ok = h.ok
<1>1. s \in Socket
  BY DEF Attended, Formed
<1> QED BY <1>1, WithSock DEF Good, Sound

(* A failure shown to the socket. *)
LEMMA GoodSetError ==
  ASSUME NEW h \in Hosts, Tracked(h.tcp), NEW s, Formed(s), s.rx = h.sock.rx,
         s.handle = h.sock.handle, Fits(h.tcp, h.sock),
         h.tcp.state # "CLOSED" => h.sock.handle
  PROVE  Good([h EXCEPT !.sock = SetError(s)])
<1>1. /\ Attended(SetError(s)) /\ SetError(s).rx = s.rx /\ SetError(s).handle = s.handle
      /\ SetError(s).state = "ERROR"
  BY SetErrorAttended
<1>2. Fits(h.tcp, SetError(s)) /\ Attached(h.tcp, SetError(s))
  BY <1>1 DEF Fits, Attached
<1> QED BY <1>1, <1>2, GoodWithSock

(* tcp_connect: the socket does not know its connection yet. *)
LEMMA ConnectSound ==
  ASSUME NEW h \in Hosts, Attended(h.sock), h.sock.rx = <<>>
  PROVE  LET g == Connect(h, Isn)
         IN Sound(g) /\ g.sock = h.sock /\ (~g.ok => g.tcp.state = "CLOSED")
<1> DEFINE c == [NoConnection EXCEPT !.state = "SYN_SENT", !.una = Isn, !.nxt = Isn,
                                     !.localWindow = RxCapacity]
           f == [h EXCEPT !.tcp = c]
           q == QueueTracked(f, {"SYN"}, <<>>)
<1>1. Isn \in Sequence /\ RxCapacity \in Nat /\ <<>> \in Seq(Nat) /\ Len(<<>>) = 0
  BY NetAssumption, SocketAssumption
<1>2. /\ c \in Connection /\ c.state = "SYN_SENT" /\ c.una = Isn /\ c.nxt = Isn
      /\ c.localWindow = RxCapacity /\ c.pending = NoConnection.pending
  BY <1>1, EmptySegment DEF Connection, TcpStates
<1>3. Connect(h, Isn) = IF q.ok THEN q ELSE [q EXCEPT !.tcp = NoConnection]
  BY DEF Connect
<1> HIDE DEF c
<1>4. f \in Hosts /\ f.tcp = c /\ f.sock = h.sock
  BY <1>2, WithTcp
<1> HIDE DEF f
<1>5. RxCapacity + Len(f.sock.rx) <= RxCapacity
  BY <1>1, <1>4
<1>6. Tracked(c)
  BY <1>2, EmptySegment DEF Tracked, Unacked
<1>7. Sound(f)
  BY <1>2, <1>4, <1>5, <1>6 DEF Sound, Fits
<1>8. {"SYN"} \in SUBSET Flags /\ Consumed({"SYN"}, <<>>) <= Mss + 1
  BY HalfSpace DEF Flags, Consumed
<1>9. Sound(q) /\ q.sock = h.sock
  BY <1>1, <1>2, <1>4, <1>7, <1>8, EmptySegment, QueueTrackedSound
<1> HIDE DEF q
<1>10. LET g == [q EXCEPT !.tcp = NoConnection]
       IN Good(g) /\ g.tcp.state = "CLOSED" /\ g.sock = q.sock /\ g.ok = q.ok
  BY <1>9, NoConnectionGood DEF Sound
<1> QED BY <1>3, <1>9, <1>10 DEF Good

(* What tcp_send takes. *)
LEMMA AcceptedIs ==
  ASSUME NEW h, Good(h), NEW n \in Nat
  PROVE  /\ Accepted(h, n) \in Nat /\ Accepted(h, n) <= n
         /\ Accepted(h, n) # 0 =>
              /\ h.tcp.state \in {"ESTABLISHED", "CLOSE_WAIT"} /\ ~h.tcp.pending.active
              /\ Accepted(h, n) <= Mss /\ Accepted(h, n) <= h.tcp.remoteWindow
<1>1. h.tcp.remoteWindow \in Nat /\ Mss \in Nat
  BY HostParts, ConnectionParts, HalfSpace DEF Good, Sound
<1>2. CASE ~In(h, {"ESTABLISHED", "CLOSE_WAIT"}) \/ h.tcp.pending.active
  BY <1>2 DEF Accepted
<1>3. CASE ~(~In(h, {"ESTABLISHED", "CLOSE_WAIT"}) \/ h.tcp.pending.active)
  <2>1. Accepted(h, n) = Min({n, Mss, h.tcp.remoteWindow})
    BY <1>3 DEF Accepted
  <2>2. /\ Accepted(h, n) \in Nat /\ Accepted(h, n) <= n /\ Accepted(h, n) <= Mss
        /\ Accepted(h, n) <= h.tcp.remoteWindow
    BY <1>1, <2>1, LeastOfThree
  <2> QED BY <1>3, <2>2 DEF In
<1> QED BY <1>2, <1>3

(* tcp_send. *)
LEMMA SendGood ==
  ASSUME NEW h, Good(h), NEW data \in Seq(Nat)
  PROVE  /\ Good(Send(h, data))
         /\ h.ok /\ Send(h, data).ok => Send(h, data).sock = h.sock
<1> DEFINE n == Accepted(h, Len(data))
           part == SubSeq(data, 1, n)
           g == QueueTracked(h, {"ACK"}, part)
           w == g.tcp.remoteWindow - n
           c == [g.tcp EXCEPT !.remoteWindow = w]
           f == [g EXCEPT !.tcp = c]
<1>1. Len(data) \in Nat
  OBVIOUS
<1>2. /\ n \in Nat /\ n <= Len(data)
      /\ n # 0 => /\ h.tcp.state \in {"ESTABLISHED", "CLOSE_WAIT"} /\ ~h.tcp.pending.active
                  /\ n <= Mss /\ n <= h.tcp.remoteWindow
  BY <1>1, AcceptedIs
<1>3. Send(h, data) = IF n = 0 THEN h ELSE IF ~g.ok THEN Fail(g)
                      ELSE [g EXCEPT !.tcp.remoteWindow = @ - n]
  BY DEF Send
<1> HIDE DEF n
<1>4. CASE n = 0
  BY <1>3, <1>4
<1>5. CASE n # 0
  <2>1. part \in Seq(Nat) /\ Len(part) = n
    BY <1>1, <1>2
  <2> HIDE DEF part
  <2>2. Consumed({"ACK"}, part) = n
    BY <2>1, ConsumedIs
  <2>3. Consumed({"ACK"}, part) <= Mss + 1 /\ {"ACK"} \in SUBSET Flags
    BY <1>2, <1>5, <2>2, HalfSpace DEF Flags
  <2>4. /\ Sound(g) /\ g.sock = h.sock /\ g.tcp.state = h.tcp.state
        /\ g.tcp.remoteWindow = h.tcp.remoteWindow
    BY <1>2, <1>5, <2>1, <2>3, QueueTrackedSound DEF Good
  <2> HIDE DEF g
  <2>5. Good(g) /\ g \in Hosts /\ g.tcp \in Connection /\ g.tcp.remoteWindow \in Nat
    BY <2>4, AttachedFollows, HostParts, ConnectionParts DEF Sound
  <2>6. Good(Fail(g)) /\ Fail(g).ok = g.ok
    BY <2>5, FailGood DEF Good, Sound
  <2>7. w \in Nat
    BY <1>2, <1>5, <2>4, <2>5
  <2>8. [g EXCEPT !.tcp.remoteWindow = @ - n] = f
    BY <2>5 DEF Hosts, Connection
  <2> HIDE DEF w
  <2>9. /\ c \in Connection /\ c.localWindow = g.tcp.localWindow /\ c.state = g.tcp.state
        /\ c.una = g.tcp.una /\ c.nxt = g.tcp.nxt /\ c.pending = g.tcp.pending
    BY <2>5, <2>7 DEF Connection
  <2> HIDE DEF c
  <2>10. Tracked(c)
    BY <2>5, <2>9, TrackedFollows DEF Good, Sound
  <2>11. Good(f) /\ f.sock = g.sock
    BY <2>5, <2>9, <2>10, GoodWith
  <2> QED BY <1>3, <1>5, <2>4, <2>6, <2>8, <2>11
<1> QED BY <1>4, <1>5

(* tcp_set_receive_window. *)
LEMMA SetReceiveWindowGood ==
  ASSUME NEW h, Good(h), NEW window \in Nat, window + Len(h.sock.rx) <= RxCapacity
  PROVE  Good(SetReceiveWindow(h, window)) /\ SetReceiveWindow(h, window).sock = h.sock
<1> DEFINE c == [h.tcp EXCEPT !.localWindow = window]
           g == [h EXCEPT !.tcp = c]
<1>1. h \in Hosts /\ h.tcp \in Connection
  BY HostParts DEF Good, Sound
<1>2. [h EXCEPT !.tcp.localWindow = window] = g
  BY <1>1 DEF Hosts
<1>3. /\ c \in Connection /\ c.localWindow = window /\ c.state = h.tcp.state
      /\ c.una = h.tcp.una /\ c.nxt = h.tcp.nxt /\ c.pending = h.tcp.pending
  BY <1>1 DEF Connection
<1> HIDE DEF c
<1>4. Tracked(c)
  BY <1>3, TrackedFollows DEF Good, Sound
<1>5. g \in Hosts /\ g.tcp = c /\ g.sock = h.sock
  BY <1>1, <1>3, WithTcp
<1>6. SetReceiveWindow(h, window) \in {g, SendAck(g)}
  BY <1>2 DEF SetReceiveWindow
<1> HIDE DEF g
<1>7. Good(g)
  BY <1>3, <1>4, <1>5 DEF Good, Sound, Fits, Attached
<1> QED BY <1>5, <1>6, <1>7, SendAckGood

(* tcp_close. *)
LEMMA CloseGood ==
  ASSUME NEW h, Good(h)
  PROVE  Good(Close(h))
<1> DEFINE c == [h.tcp EXCEPT !.closeRequested = TRUE]
           g == [h EXCEPT !.tcp = c]
<1>1. h \in Hosts /\ h.tcp \in Connection
  BY HostParts DEF Good, Sound
<1>2. [h EXCEPT !.tcp.closeRequested = TRUE] = g
  BY <1>1 DEF Hosts
<1>3. /\ c \in Connection /\ c.localWindow = h.tcp.localWindow /\ c.state = h.tcp.state
      /\ c.una = h.tcp.una /\ c.nxt = h.tcp.nxt /\ c.pending = h.tcp.pending
  BY <1>1 DEF Connection
<1> HIDE DEF c
<1>4. Tracked(c)
  BY <1>3, TrackedFollows DEF Good, Sound
<1>5. Good(g)
  BY <1>3, <1>4, GoodWith
<1>6. Close(h) \in {ClearConnection(h), BeginClose(g)}
  BY <1>2 DEF Close
<1> HIDE DEF g
<1> QED BY <1>1, <1>5, <1>6, ClearConnectionGood, BeginCloseGood DEF Good, Sound

(* tcp_abort. *)
LEMMA AbortGood ==
  ASSUME NEW h, Good(h)
  PROVE  Good(Abort(h)) /\ Abort(h).tcp.state = "CLOSED" /\ Abort(h).sock = h.sock
<1> DEFINE f == IF In(h, {"SYN_SENT", "FAILED", "TIME_WAIT"}) THEN h
                ELSE Transmit(h, h.tcp.nxt, {"RST", "ACK"}, <<>>)
<1>1. h \in Hosts /\ h.tcp.nxt \in Sequence /\ Attended(h.sock)
  BY HostParts, ConnectionParts DEF Good, Sound
<1>2. {"RST", "ACK"} \in SUBSET Flags /\ <<>> \in Seq(Nat)
  BY DEF Flags
<1>3. f \in Hosts /\ f.sock = h.sock
  BY <1>1, <1>2, TransmitHost
<1>4. Abort(h) = [f EXCEPT !.tcp = NoConnection]
  BY DEF Abort
<1> HIDE DEF f
<1> QED BY <1>1, <1>3, <1>4, NoConnectionGood

(* tcp_maintain_pending. *)
LEMMA MaintainPendingGood ==
  ASSUME NEW h, Good(h), NEW elapsed
  PROVE  Good(MaintainPending(h, elapsed))
<1> DEFINE p == h.tcp.pending
           g == TrySendPending(h)
<1>1. h \in Hosts /\ h.tcp \in Connection /\ p \in Pending /\ Good(Fail(h))
  BY HostParts, ConnectionParts, FailGood DEF Good, Sound
<1>2. Good(g)
  BY TrySendSound, AttachedFollows DEF Good
<1>3. Good(Fail(g))
  <2> HIDE DEF g
  <2> QED BY <1>2, FailGood DEF Good, Sound
<1>4. CASE ~p.active
  BY <1>4 DEF MaintainPending
<1>5. CASE p.active /\ ~p.sent
  <2>1. MaintainPending(h, elapsed) = IF g.ok THEN g ELSE Fail(g)
    BY <1>5 DEF MaintainPending
  <2> HIDE DEF g
  <2> QED BY <1>2, <1>3, <2>1
<1>6. CASE p.active /\ p.sent /\ elapsed # "rto"
  BY <1>6 DEF MaintainPending
<1>7. CASE p.active /\ p.sent /\ elapsed = "rto" /\ p.tries >= MaxRetransmissions
  BY <1>1, <1>7 DEF MaintainPending
<1>8. CASE p.active /\ p.sent /\ elapsed = "rto" /\ ~(p.tries >= MaxRetransmissions)
  <2> DEFINE n == p.tries + 1
             f == [h EXCEPT !.tcp.pending.sent = FALSE, !.tcp.pending.tries = n]
  <2>1. n \in 0..MaxRetransmissions
    BY <1>1, <1>8, PendingParts, TcpAssumption
  <2>2. MaintainPending(h, elapsed) = TrySendPending(f)
    BY <1>1, <1>8 DEF MaintainPending, Hosts, Connection, Pending
  <2> HIDE DEF n
  <2>3. /\ f \in Hosts /\ f.sock = h.sock /\ f.tcp.state = h.tcp.state
        /\ f.tcp.una = h.tcp.una /\ f.tcp.nxt = h.tcp.nxt
        /\ f.tcp.localWindow = h.tcp.localWindow
        /\ f.tcp.pending.active = h.tcp.pending.active
        /\ f.tcp.pending.seq = h.tcp.pending.seq
        /\ f.tcp.pending.flags = h.tcp.pending.flags
        /\ f.tcp.pending.data = h.tcp.pending.data
    BY <1>1, <2>1 DEF Hosts, Connection, Pending
  <2> HIDE DEF f
  <2>4. Tracked(f.tcp)
    BY <2>3, TrackedFollows DEF Good, Sound
  <2>5. Good(f)
    BY <2>3, <2>4 DEF Good, Sound, Fits, Attached
  <2> QED BY <2>2, <2>5, TrySendSound, AttachedFollows DEF Good
<1> QED BY <1>1, <1>4, <1>5, <1>6, <1>7, <1>8, PendingParts

(* tcp_maintain_connection. *)
LEMMA MaintainGood ==
  ASSUME NEW h, Good(h), NEW elapsed
  PROVE  Good(Maintain(h, elapsed))
<1> DEFINE g == MaintainPending(h, elapsed)
<1>1. Good(g)
  BY MaintainPendingGood
<1>2. Maintain(h, elapsed) \in {h, ClearConnection(h), g, Fail(g), BeginClose(g)}
  BY DEF Maintain
<1> HIDE DEF g
<1>3. Good(ClearConnection(h)) /\ Good(Fail(g)) /\ Good(BeginClose(g))
  BY <1>1, ClearConnectionGood, FailGood, BeginCloseGood DEF Good, Sound
<1> QED BY <1>1, <1>2, <1>3
-----------------------------------------------------------------------------
(* Calls of the socket. *)

(* net_socket_connect. *)
LEMMA SocketConnectGood ==
  ASSUME NEW h, Good(h), h.sock.state = "OPEN"
  PROVE  Good(SocketConnect(h))
<1> DEFINE r == [h.sock EXCEPT !.state = "CONNECTING"]
           f == [h EXCEPT !.sock = r]
           g == Connect(f, Isn)
<1>1. h \in Hosts /\ h.sock \in Socket /\ Attended(h.sock) /\ h.sock.rx = <<>>
  BY HostParts DEF Good, Sound, Attended, Formed
<1>2. /\ r \in Socket /\ r.rx = h.sock.rx /\ r.queue = h.sock.queue
      /\ r.woken = h.sock.woken /\ r.state = "CONNECTING"
  BY <1>1 DEF Socket, SocketStates
<1>3. EntryEvents(r) \subseteq EntryEvents(h.sock)
  BY <1>1 DEF EntryEvents, Socket
<1>4. [h EXCEPT !.sock.state = "CONNECTING"] = f
  BY <1>1 DEF Hosts
<1> HIDE DEF r
<1>5. Attended(r)
  BY <1>1, <1>2, <1>3, AttendedFollows
<1>6. f \in Hosts /\ f.sock = r
  BY <1>1, <1>2, WithSock
<1>7. SocketConnect(h) = IF g.ok THEN [g EXCEPT !.sock.handle = TRUE]
                         ELSE [g EXCEPT !.sock = SetError(@)]
  BY <1>4 DEF SocketConnect
<1> HIDE DEF f
<1>8. Sound(g) /\ g.sock = r /\ (~g.ok => g.tcp.state = "CLOSED")
  BY <1>1, <1>2, <1>5, <1>6, ConnectSound
<1> HIDE DEF g
<1>9. g \in Hosts /\ Tracked(g.tcp) /\ Attended(g.sock) /\ Fits(g.tcp, g.sock)
  BY <1>8 DEF Sound
<1>10. CASE g.ok
  <2> DEFINE q == [g.sock EXCEPT !.handle = TRUE]
  <2>1. /\ q \in Socket /\ q.rx = g.sock.rx /\ q.queue = g.sock.queue
        /\ q.woken = g.sock.woken /\ q.state = g.sock.state /\ q.handle
    BY <1>2, <1>8 DEF Socket
  <2>2. EntryEvents(q) \subseteq EntryEvents(g.sock)
    BY <1>2, <1>8 DEF EntryEvents, Socket
  <2>3. [g EXCEPT !.sock.handle = TRUE] = [g EXCEPT !.sock = q]
    BY <1>9 DEF Hosts
  <2> HIDE DEF q
  <2>4. Attended(q)
    BY <1>9, <2>1, <2>2, AttendedFollows
  <2>5. Fits(g.tcp, q) /\ Attached(g.tcp, q)
    BY <1>2, <1>8, <1>9, <2>1 DEF Fits, Attached
  <2>6. Good([g EXCEPT !.sock = q])
    BY <1>9, <2>4, <2>5, GoodWithSock
  <2> QED BY <1>7, <1>10, <2>3, <2>6
<1>11. CASE ~g.ok
  <2>1. SocketConnect(h) = [g EXCEPT !.sock = SetError(g.sock)]
    BY <1>7, <1>11
  <2>2. Formed(g.sock)
    BY <1>9 DEF Attended
  <2> QED BY <1>8, <1>9, <1>11, <2>1, <2>2, GoodSetError
<1> QED BY <1>10, <1>11

(* net_socket_start_close. *)
LEMMA StartCloseGood ==
  ASSUME NEW h, Good(h)
  PROVE  Good(StartClose(h))
<1> DEFINE f == [h EXCEPT !.ok = TRUE]
           g == Close(f)
           r == [g.sock EXCEPT !.closeRequested = FALSE]
<1>1. Good(f)
  BY WithOk, GoodFollows DEF Good, Sound
<1>2. StartClose(h) = IF g.ok THEN g ELSE [g EXCEPT !.sock = SetError(r)]
  BY DEF StartClose
<1> HIDE DEF f
<1>3. Good(g)
  BY <1>1, CloseGood
<1> HIDE DEF g
<1>4. /\ g \in Hosts /\ g.sock \in Socket /\ Formed(g.sock) /\ Tracked(g.tcp)
      /\ Fits(g.tcp, g.sock) /\ (g.tcp.state # "CLOSED" => g.sock.handle)
  BY <1>3, HostParts DEF Good, Sound, Attended, Attached
<1>5. /\ r \in Socket /\ r.rx = g.sock.rx /\ r.queue = g.sock.queue
      /\ r.woken = g.sock.woken /\ r.state = g.sock.state /\ r.handle = g.sock.handle
  BY <1>4 DEF Socket
<1> HIDE DEF r
<1>6. Formed(r)
  BY <1>4, <1>5, FormedFollows
<1>7. Good([g EXCEPT !.sock = SetError(r)])
  BY <1>4, <1>5, <1>6, GoodSetError
<1> QED BY <1>2, <1>3, <1>7

(* net_socket_release, once the connection is gone. *)
LEMMA ReleaseGood ==
  ASSUME NEW h, Good(h), h.tcp.state = "CLOSED"
  PROVE  Good([h EXCEPT !.sock = Release(@)])
<1>1. h \in Hosts /\ h.sock \in Socket /\ Tracked(h.tcp)
  BY HostParts DEF Good, Sound
<1>2. Attended(Release(h.sock)) /\ Fits(h.tcp, Release(h.sock))
      /\ Attached(h.tcp, Release(h.sock))
  BY <1>1, ReleaseAttended DEF Fits, Attached
<1> QED BY <1>1, <1>2, GoodWithSock

(* tcp_abort, where there is a connection. *)
LEMMA AbortedGood ==
  ASSUME NEW h, Good(h)
  PROVE  LET g == IF h.sock.handle THEN Abort(h) ELSE h
         IN Good(g) /\ g.tcp.state = "CLOSED"
BY AbortGood DEF Good, Attached

(* net_socket_close. *)
LEMMA SocketCloseGood ==
  ASSUME NEW h, Good(h)
  PROVE  Good(SocketClose(h))
<1> DEFINE g == IF h.sock.handle THEN Abort(h) ELSE h
           r == [h.sock EXCEPT !.closeRequested = TRUE, !.state = "CLOSING"]
           f == [h EXCEPT !.sock = r]
<1>1. h \in Hosts /\ h.sock \in Socket /\ Attended(h.sock) /\ Tracked(h.tcp)
  BY HostParts DEF Good, Sound
<1>2. CASE h.sock.state = "OPEN"
  <2>1. SocketClose(h) = [h EXCEPT !.sock = Release(@)] /\ h.tcp.state = "CLOSED"
    BY <1>2 DEF SocketClose, Good, Attached
  <2> QED BY <2>1, ReleaseGood
<1>3. CASE h.sock.state \in {"CONNECTING", "ERROR"}
  <2>1. Good(g) /\ g.tcp.state = "CLOSED"
    BY AbortedGood
  <2>2. SocketClose(h) = [g EXCEPT !.sock = Release(@)]
    BY <1>3 DEF SocketClose
  <2> HIDE DEF g
  <2> QED BY <2>1, <2>2, ReleaseGood
<1>4. CASE h.sock.state \notin {"OPEN", "CONNECTING", "ERROR"}
  <2>1. [h EXCEPT !.sock.closeRequested = TRUE, !.sock.state = "CLOSING"] = f
    BY <1>1 DEF Hosts, Socket
  <2>2. SocketClose(h) \in {StartClose(f), f}
    BY <1>4, <2>1 DEF SocketClose
  <2>3. /\ r \in Socket /\ r.rx = h.sock.rx /\ r.queue = h.sock.queue
        /\ r.woken = h.sock.woken /\ r.state = "CLOSING" /\ r.handle = h.sock.handle
        /\ r.active = h.sock.active /\ r.eof = h.sock.eof
    BY <1>1 DEF Socket, SocketStates
  <2> HIDE DEF r
  <2>4. EntryEvents(r) \subseteq EntryEvents(h.sock)
    BY <2>3 DEF EntryEvents
  <2>5. Attended(r)
    BY <1>1, <2>3, <2>4, AttendedFollows
  <2>6. Fits(h.tcp, r) /\ Attached(h.tcp, r)
    BY <2>3 DEF Good, Sound, Fits, Attached
  <2>7. Good(f)
    BY <1>1, <2>5, <2>6, GoodWithSock
  <2> HIDE DEF f
  <2> QED BY <2>2, <2>7, StartCloseGood
<1> QED BY <1>2, <1>3, <1>4

(* net_socket_drain. *)
LEMMA DrainGood ==
  ASSUME NEW h, Good(h)
  PROVE  Good(Drain(h))
<1> DEFINE f == [h EXCEPT !.ok = TRUE]
           g == Send(f, h.sock.tx)
           n == Accepted(h, Len(h.sock.tx))
           x == SubSeq(g.sock.tx, n + 1, Len(g.sock.tx))
           r == [g.sock EXCEPT !.tx = x]
<1>1. Good(f)
  BY WithOk, GoodFollows DEF Good, Sound
<1>2. h.sock.tx \in Seq(Nat) /\ Len(h.sock.tx) \in Nat
  BY HostParts DEF Good, Sound, Socket
<1>3. n \in Nat
  BY <1>2, AcceptedIs
<1>4. Good(g)
  <2> HIDE DEF f
  <2> QED BY <1>1, <1>2, SendGood
<1>5. Drain(h) = IF ~h.sock.handle \/ h.sock.tx = <<>>
                    \/ h.sock.state \notin {"CONNECTED", "CLOSING"} THEN h
                 ELSE IF ~g.ok THEN [g EXCEPT !.sock = SetError(@)]
                 ELSE IF n = 0 THEN g
                 ELSE [g EXCEPT !.sock =
                        WakeOne([g.sock EXCEPT !.tx = SubSeq(@, n + 1, Len(@))])]
  BY DEF Drain
<1> HIDE DEF g, n
<1>6. /\ g \in Hosts /\ g.sock \in Socket /\ Formed(g.sock) /\ Tracked(g.tcp)
      /\ Attended(g.sock) /\ Fits(g.tcp, g.sock) /\ Attached(g.tcp, g.sock)
      /\ g.sock.tx \in Seq(Nat) /\ Len(g.sock.tx) \in Nat
  BY <1>4, HostParts DEF Good, Sound, Attended, Socket
<1>7. Good([g EXCEPT !.sock = SetError(@)])
  <2>1. Good([g EXCEPT !.sock = SetError(g.sock)])
    BY <1>6, GoodSetError DEF Attached
  <2> QED BY <2>1
<1>8. x \in Seq(Nat)
  BY <1>3, <1>6
<1>9. [g.sock EXCEPT !.tx = SubSeq(@, n + 1, Len(@))] = r
  BY <1>6 DEF Socket
<1> HIDE DEF x
<1>10. /\ r \in Socket /\ r.rx = g.sock.rx /\ r.queue = g.sock.queue
       /\ r.woken = g.sock.woken /\ r.state = g.sock.state /\ r.handle = g.sock.handle
       /\ r.active = g.sock.active /\ r.eof = g.sock.eof
  BY <1>6, <1>8 DEF Socket
<1> HIDE DEF r
<1>11. Formed(r)
  BY <1>6, <1>10, FormedFollows
<1>12. EntryEvents(r) \cap TerminalEvents = EntryEvents(g.sock) \cap TerminalEvents
  BY <1>10 DEF EntryEvents, TerminalEvents
<1>13. HasEnded(r) => r.queue = <<>>
  BY <1>6, <1>10, <1>12 DEF Attended, HasEnded
<1>14. /\ Attended(WakeOne(r)) /\ WakeOne(r).rx = r.rx /\ WakeOne(r).handle = r.handle
       /\ WakeOne(r).state = r.state
  BY <1>11, <1>13, WakeOneAttended
<1>15. Fits(g.tcp, WakeOne(r)) /\ Attached(g.tcp, WakeOne(r))
  BY <1>6, <1>10, <1>14 DEF Fits, Attached
<1>16. Good([g EXCEPT !.sock = WakeOne(r)])
  BY <1>6, <1>14, <1>15, GoodWithSock
<1> QED BY <1>4, <1>5, <1>7, <1>9, <1>16

(* The free space of the ring is the window. *)
LEMMA FreeSpaceIs ==
  ASSUME NEW s, Formed(s)
  PROVE  /\ RxCapacity - Len(s.rx) \in Nat
         /\ (RxCapacity - Len(s.rx)) + Len(s.rx) <= RxCapacity
<1> DEFINE n == Len(s.rx)
<1>1. n \in Nat /\ n <= RxCapacity /\ RxCapacity \in Nat
  BY SocketAssumption DEF Formed, Socket
<1> HIDE DEF n
<1>2. RxCapacity - n \in Nat /\ (RxCapacity - n) + n <= RxCapacity
  BY <1>1
<1> QED BY <1>2 DEF n

(* net_socket_maintain. *)
LEMMA SocketMaintainGood ==
  ASSUME NEW h, Good(h)
  PROVE  Good(SocketMaintain(h))
<1> DEFINE a == Drain(h)
           b == IF a.sock.handle
                THEN SetReceiveWindow(a, RxCapacity - Len(a.sock.rx)) ELSE a
<1>1. Good(a)
  BY DrainGood
<1>2. SocketMaintain(h) \in {h, StartClose(b), b}
  BY DEF SocketMaintain
<1> HIDE DEF a
<1>3. Good(b)
  BY <1>1, FreeSpaceIs, SetReceiveWindowGood DEF Good, Sound, Attended
<1> HIDE DEF b
<1> QED BY <1>2, <1>3, StartCloseGood
-----------------------------------------------------------------------------
(* The peer. *)
Peers == [state : {"LISTEN", "SYN_RCVD", "OPEN", "RESET"}, rcv : Seq(Nat), fin : BOOLEAN,
          snt : Nat, acked : Nat, win : Nat]

(* Its sequence numbers. *)
LEMMA PeerNumbers ==
  /\ \A p \in Peers : PeerRcvNxt(p) \in Sequence
  /\ \A o \in Nat : PeerSeq(o) \in Sequence
<1>1. ASSUME NEW p \in Peers PROVE PeerRcvNxt(p) \in Sequence
  <2> DEFINE n == 1 + Len(p.rcv) + (IF p.fin THEN 1 ELSE 0)
  <2>1. Len(p.rcv) \in Nat
    BY DEF Peers
  <2>2. n \in Nat
    <3> DEFINE l == Len(p.rcv)
               k == IF p.fin THEN 1 ELSE 0
    <3>1. k \in Nat
      OBVIOUS
    <3> HIDE DEF k, l
    <3>2. 1 + l + k \in Nat
      BY <2>1, <3>1 DEF l
    <3> QED BY <3>2 DEF k, l
  <2>3. PeerRcvNxt(p) = Plus(Isn, n)
    BY DEF PeerRcvNxt
  <2> HIDE DEF n
  <2> QED BY <2>2, <2>3, PlusType, NetAssumption
<1>2. ASSUME NEW o \in Nat PROVE PeerSeq(o) \in Sequence
  BY PlusType, NetAssumption DEF PeerSeq
<1> QED BY <1>1, <1>2

(* It takes a segment. *)
LEMMA PeerTakesType ==
  ASSUME NEW p \in Peers, NEW m \in Segment, NEW room \in Nat
  PROVE  PeerTakes(p, m, room) \in Peers
<1> DEFINE skip == (PeerRcvNxt(p) - m.seq) % SeqSpace
           fresh == IF ~p.fin /\ skip < Len(m.data) THEN Len(m.data) - skip ELSE 0
           kept == Min({fresh, room})
           whole == kept = fresh /\ (fresh > 0 \/ skip = Len(m.data))
           acked == (m.ack - PeerSeq(0)) % SeqSpace
           bytes == SubSeq(m.data, skip + 1, skip + kept)
           rcv == p.rcv \o bytes
           fin == p.fin \/ ("FIN" \in m.flags /\ whole)
           ack == IF acked \in p.acked..p.snt THEN acked ELSE p.acked
           win == IF acked \in p.acked..p.snt THEN m.win ELSE p.win
           q == [p EXCEPT !.state = "OPEN", !.rcv = rcv, !.fin = fin, !.acked = ack,
                          !.win = win]
<1>1. /\ m.data \in Seq(Nat) /\ Len(m.data) \in Nat /\ m.seq \in Sequence
      /\ m.ack \in Sequence /\ m.win \in Nat
  BY SegmentParts
<1>2. /\ p.rcv \in Seq(Nat) /\ p.fin \in BOOLEAN /\ p.acked \in Nat /\ p.win \in Nat
      /\ p.snt \in Nat
  BY DEF Peers
<1>3. skip \in Nat /\ acked \in Nat
  <2>1. PeerRcvNxt(p) - m.seq \in Int /\ m.ack - PeerSeq(0) \in Int
    <3>1. PeerRcvNxt(p) \in Sequence /\ PeerSeq(0) \in Sequence
      BY PeerNumbers
    <3>2. \A x, y \in Sequence : x - y \in Int
      BY OneTurn DEF Sequence
    <3> QED BY <1>1, <3>1, <3>2
  <2> QED BY <2>1, OneTurn DEF Sequence
<1> HIDE DEF skip, acked
<1>4. fresh \in Nat /\ (fresh > 0 => skip + fresh = Len(m.data))
  BY <1>1, <1>3
<1> HIDE DEF fresh
<1>5. kept \in Nat /\ kept <= fresh
  <2>1. \E x \in {fresh, room} : \A y \in {fresh, room} : x <= y
    BY <1>4
  <2>2. kept \in {fresh, room} /\ \A y \in {fresh, room} : kept <= y
    BY <2>1 DEF Min
  <2> QED BY <1>4, <2>2
<1> HIDE DEF kept
<1>6. bytes \in Seq(Nat)
  <2>1. CASE kept = 0
    <3>1. skip + kept = skip
      BY <1>3, <2>1
    <3>2. bytes = <<>>
      BY <1>1, <1>3, <3>1
    <3> HIDE DEF bytes
    <3> QED BY <3>2, EmptySegment
  <2>2. CASE kept # 0
    <3>1. skip + kept \in Nat /\ skip + kept <= Len(m.data) /\ skip + 1 \in Nat /\ skip + 1 >= 1
          /\ skip + 1 <= Len(m.data)
      BY <1>1, <1>3, <1>4, <1>5, <2>2
    <3> QED BY <1>1, <3>1
  <2> QED BY <2>1, <2>2
<1> HIDE DEF bytes
<1>7. rcv \in Seq(Nat)
  BY <1>2, <1>6
<1> HIDE DEF rcv
<1>8. fin \in BOOLEAN /\ ack \in Nat /\ win \in Nat
  BY <1>1, <1>2, <1>3
<1>9. PeerTakes(p, m, room) \in
        {p, [p EXCEPT !.state = "RESET"], [p EXCEPT !.state = "SYN_RCVD", !.win = m.win], q}
  BY <1>2 DEF PeerTakes, skip, fresh, kept, acked, bytes, rcv, Peers
<1> HIDE DEF fin, ack, win
<1>10. q \in Peers
  BY <1>7, <1>8 DEF Peers
<1>11. [p EXCEPT !.state = "RESET"] \in Peers
       /\ [p EXCEPT !.state = "SYN_RCVD", !.win = m.win] \in Peers
  BY <1>1 DEF Peers
<1> HIDE DEF q
<1> QED BY <1>9, <1>10, <1>11

(* g is the function after of PeerAfter, up to n. *)
TakenUpTo(p, out, arrive, room, g, n) ==
  g = [i \in 0..n |-> IF i = 0 THEN p
                      ELSE IF i \in arrive THEN PeerTakes(g[i - 1], out[i], room)
                      ELSE g[i - 1]]

(* The recursive equation of PeerAfter has a solution, whatever its length. *)
LEMMA TakenExists ==
  ASSUME NEW p, NEW out, NEW arrive, NEW room, NEW n \in Nat
  PROVE  \E g : TakenUpTo(p, out, arrive, room, g, n)
<1> DEFINE Bad == {m \in Nat : ~\E g : TakenUpTo(p, out, arrive, room, g, m)}
<1> SUFFICES ASSUME n \in Bad PROVE FALSE
  OBVIOUS
<1>1. PICK m \in Bad : \A k \in Bad : m <= k
  BY LeastNumber
<1>2. m # 0
  <2> DEFINE g0 == [i \in 0..0 |-> p]
  <2>1. TakenUpTo(p, out, arrive, room, g0, 0)
    BY DEF TakenUpTo
  <2> QED BY <2>1
<1>3. m - 1 \in Nat /\ m - 1 \notin Bad
  BY <1>1, <1>2
<1>4. PICK g : TakenUpTo(p, out, arrive, room, g, m - 1)
  BY <1>3
<1> DEFINE h == [i \in 0..m |-> IF i < m THEN g[i]
                                ELSE IF m \in arrive THEN PeerTakes(g[m - 1], out[m], room)
                                ELSE g[m - 1]]
<1>5. TakenUpTo(p, out, arrive, room, h, m)
  <2> SUFFICES ASSUME NEW i \in 0..m
               PROVE  h[i] = IF i = 0 THEN p
                             ELSE IF i \in arrive THEN PeerTakes(h[i - 1], out[i], room)
                             ELSE h[i - 1]
    BY DEF TakenUpTo
  <2>1. CASE i = 0
    BY <2>1, <1>2, <1>3, <1>4 DEF TakenUpTo
  <2>2. CASE i # 0
    <3>1. i - 1 \in 0..m /\ i - 1 < m /\ h[i - 1] = g[i - 1]
      BY <2>2
    <3>2. CASE i = m
      BY <3>1, <3>2
    <3>3. CASE i < m
      <4>1. i \in 0..(m - 1)
        BY <3>3
      <4> QED BY <4>1, <3>1, <3>3, <2>2, <1>4 DEF TakenUpTo
    <3> QED BY <3>2, <3>3
  <2> QED BY <2>1, <2>2
<1> QED BY <1>5

(* The peer stays a peer, whatever arrives. *)
LEMMA PeerAfterType ==
  ASSUME peer \in Peers, NEW out \in Seq(Segment), NEW arrive, NEW room \in Nat
  PROVE  PeerAfter(out, arrive, room) \in Peers
<1> DEFINE after[i \in 0..Len(out)] ==
             IF i = 0 THEN peer
             ELSE IF i \in arrive THEN PeerTakes(after[i - 1], out[i], room)
             ELSE after[i - 1]
<1>1. PeerAfter(out, arrive, room) = after[Len(out)] /\ Len(out) \in Nat
  BY DEF PeerAfter
<1>2. TakenUpTo(peer, out, arrive, room, after, Len(out))
  <2>1. \E g : TakenUpTo(peer, out, arrive, room, g, Len(out))
    BY <1>1, TakenExists
  <2> QED BY <2>1 DEF after, TakenUpTo
<1> HIDE DEF after
<1>3. \A i \in 0..Len(out) :
        after[i] = IF i = 0 THEN peer
                   ELSE IF i \in arrive THEN PeerTakes(after[i - 1], out[i], room)
                   ELSE after[i - 1]
  BY <1>2 DEF TakenUpTo
<1> DEFINE Bad == {i \in 0..Len(out) : after[i] \notin Peers}
<1>4. SUFFICES ASSUME Bad # {} PROVE FALSE
  BY <1>1
<1>5. PICK n \in Bad : \A k \in Bad : n <= k
  <2>1. Bad \in SUBSET Nat
    BY <1>1
  <2> HIDE DEF Bad
  <2> QED BY <1>4, <2>1, LeastNumber
<1>6. n \in 0..Len(out) /\ n # 0
  BY <1>3, <1>5
<1>7. n - 1 \in 0..Len(out) /\ n \in 1..Len(out)
  BY <1>1, <1>6
<1>8. after[n - 1] \in Peers
  BY <1>1, <1>5, <1>7
<1>9. out[n] \in Segment
  BY <1>7
<1>10. after[n] = IF n \in arrive THEN PeerTakes(after[n - 1], out[n], room)
                  ELSE after[n - 1]
  BY <1>3, <1>6
<1>11. after[n] \in Peers
  BY <1>8, <1>9, <1>10, PeerTakesType
<1> QED BY <1>5, <1>11
-----------------------------------------------------------------------------
(* Every step. *)
Kept ==
  /\ tcp \in Connection /\ Tracked(tcp) /\ Attended(sock)
  /\ Fits(tcp, sock) /\ Attached(tcp, sock)

Inv ==
  /\ Kept /\ toHost \subseteq Segment /\ peer \in Peers
  /\ written \in 0..AppBytes /\ ended \in Endings /\ faults \subseteq {"ERROR"}

(* A handler starts from a good record. *)
LEMMA HostGood ==
  ASSUME Kept, NEW ip \in {"sent", "held", "error"}
  PROVE  /\ Good(Host(ip)) /\ Host(ip).tcp = tcp /\ Host(ip).sock = sock
         /\ Host(ip).out = <<>>
<1>1. sock \in Socket /\ tcp \in Connection /\ <<>> \in Seq(Segment)
  BY DEF Kept, Attended, Formed
<1>2. /\ Host(ip) \in Hosts /\ Host(ip).tcp = tcp /\ Host(ip).sock = sock
      /\ Host(ip).out = <<>>
  BY <1>1 DEF Host, Hosts
<1> QED BY <1>2 DEF Kept, Good, Sound

(* And leaves one. *)
LEMMA HostBecomesInv ==
  ASSUME Inv, NEW h, Good(h), HostBecomes(h)
  PROVE  Kept' /\ peer' \in Peers /\ ended' \in Endings /\ faults' \subseteq {"ERROR"}
<1>1. tcp' = h.tcp /\ sock' = h.sock
  BY DEF HostBecomes
<1>2. Kept'
  <2>1. /\ h.tcp \in Connection /\ Tracked(h.tcp) /\ Attended(h.sock)
        /\ Fits(h.tcp, h.sock) /\ Attached(h.tcp, h.sock)
    BY HostParts DEF Good, Sound
  <2> QED BY <1>1, <2>1 DEF Kept
<1>3. peer' \in Peers
  <2>1. PICK arrive \in SUBSET DOMAIN h.out, room \in PeerRooms :
          peer' = PeerAfter(h.out, arrive, room)
    BY DEF HostBecomes
  <2>2. h.out \in Seq(Segment) /\ room \in Nat /\ peer \in Peers
    BY <2>1, HostParts, NetAssumption DEF Good, Sound, Inv
  <2> QED BY <2>1, <2>2, PeerAfterType
<1>4. ended' \in Endings
  BY DEF HostBecomes, Endings, Inv
<1>5. faults' \subseteq {"ERROR"}
  <2>1. h.log \subseteq SocketEventNames \cup {"DATA"}
    BY HostParts DEF Good, Sound
  <2>2. h.log \cap Faults \subseteq {"ERROR"}
    BY <2>1 DEF SocketEventNames, Faults
  <2> QED BY <2>2 DEF HostBecomes, Inv
<1> QED BY <1>2, <1>3, <1>4, <1>5

(* A task that enters the queue; it found its condition false. *)
LEMMA EnterAttended ==
  ASSUME NEW s, Attended(s), NEW t \in Waiters, ~WaitReady(s, t), NEW w \in SUBSET s.woken,
         t \notin ToSet(s.queue), t \notin w
  PROVE  LET r == [s EXCEPT !.queue = Append(@, t), !.woken = w]
         IN /\ Attended(r) /\ r.rx = s.rx /\ r.handle = s.handle /\ r.state = s.state
<1> DEFINE q == Append(s.queue, t)
           r == [s EXCEPT !.queue = q, !.woken = w]
<1>1. s \in Socket /\ s.queue \in Seq(Waiters) /\ s.woken \in SUBSET Waiters /\ Formed(s)
  BY DEF Attended, Formed, Socket
<1>2. /\ q \in Seq(Waiters) /\ DOMAIN q = 1..(Len(s.queue) + 1) /\ Len(s.queue) \in Nat
      /\ DOMAIN s.queue = 1..Len(s.queue) /\ q[Len(s.queue) + 1] = t
      /\ \A i \in 1..Len(s.queue) : q[i] = s.queue[i]
  BY <1>1
<1> HIDE DEF q
<1>3. ToSet(q) \subseteq ToSet(s.queue) \cup {t}
  BY <1>2 DEF ToSet
<1>4. Distinct(q)
  <2> SUFFICES ASSUME NEW i \in DOMAIN q, NEW j \in DOMAIN q, q[i] = q[j], i # j PROVE FALSE
    BY DEF Distinct
  <2>1. \A k \in 1..Len(s.queue) : s.queue[k] # t
    BY <1>2 DEF ToSet
  <2>2. CASE i = Len(s.queue) + 1
    <3>1. j \in 1..Len(s.queue)
      BY <1>2, <2>2
    <3> QED BY <1>2, <2>1, <2>2, <3>1
  <2>3. CASE j = Len(s.queue) + 1
    <3>1. i \in 1..Len(s.queue)
      BY <1>2, <2>3
    <3> QED BY <1>2, <2>1, <2>3, <3>1
  <2>4. CASE i # Len(s.queue) + 1 /\ j # Len(s.queue) + 1
    <3>1. i \in 1..Len(s.queue) /\ j \in 1..Len(s.queue)
      BY <1>2, <2>4
    <3> QED BY <1>1, <1>2, <3>1 DEF Distinct, Formed
  <2> QED BY <2>2, <2>3, <2>4
<1>5. /\ r \in Socket /\ r.rx = s.rx /\ r.handle = s.handle /\ r.state = s.state
      /\ r.active = s.active /\ r.eof = s.eof /\ r.tx = s.tx /\ r.queue = q /\ r.woken = w
  BY <1>1, <1>2 DEF Socket
<1>6. [s EXCEPT !.queue = Append(@, t), !.woken = w] = r
  BY <1>1 DEF Socket, q
<1> HIDE DEF r
<1>7. Formed(r)
  BY <1>1, <1>3, <1>4, <1>5 DEF Formed
<1>8. EntryEvents(r) = EntryEvents(s)
  BY <1>5 DEF EntryEvents
<1>9. ~HasEnded(r) /\ ~Due(r)
  <2>1. ~HasEnded(r)
    BY <1>8 DEF HasEnded, WaitReady
  <2>2. ASSUME Alike, NEW u \in Waiters PROVE ~WaitReady(r, u)
    <3>1. Wants[u] = Wants[t]
      BY <2>2 DEF Alike
    <3> QED BY <1>8, <3>1 DEF WaitReady
  <2> QED BY <2>1, <2>2 DEF Due
<1> QED BY <1>5, <1>6, <1>7, <1>9 DEF Attended

(* A slice of the bytes 1..n. *)
LEMMA SliceType ==
  ASSUME NEW n \in Nat, NEW a \in Nat, NEW b \in Nat, b = 0 \/ a + b <= n
  PROVE  SubSeq(Numbers(n), a + 1, a + b) \in Seq(Nat)
<1>1. Numbers(n) \in Seq(Nat) /\ Len(Numbers(n)) = n
  BY DEF Numbers
<1>2. CASE b = 0
  <2>1. a + b = a
    BY <1>2
  <2>2. SubSeq(Numbers(n), a + 1, a) = <<>>
    BY <1>1
  <2>3. SubSeq(Numbers(n), a + 1, a) \in Seq(Nat)
    BY <2>2, EmptySegment
  <2> QED BY <2>1, <2>3
<1>3. CASE b # 0
  <2>1. a + b \in Nat /\ a + b <= n /\ a + 1 \in Nat /\ a + 1 >= 1 /\ a + 1 <= n
    BY <1>3
  <2> QED BY <1>1, <2>1
<1> QED BY <1>2, <1>3

(* What the peer sends is a segment. *)
LEMMA PeerSegmentType ==
  ASSUME peer \in Peers, NEW o \in Nat, NEW l \in Nat, l = 0 \/ o + l <= PeerBytes,
         NEW flags \in SUBSET Flags, NEW w \in Nat
  PROVE  PeerSegment(o, l, flags, w) \in Segment
<1>1. PeerSeq(o) \in Sequence /\ PeerRcvNxt(peer) \in Sequence
  BY PeerNumbers
<1>2. SubSeq(Numbers(PeerBytes), o + 1, o + l) \in Seq(Nat)
  BY SliceType, NetAssumption
<1> QED BY <1>1, <1>2 DEF PeerSegment, Segment

(* A step of the host that one of its handlers describes. *)
LEMMA HostStep ==
  ASSUME Inv, NEW h, Good(h), HostBecomes(h), toHost' \subseteq toHost, written' = written
  PROVE  Inv'
<1>1. Kept' /\ peer' \in Peers /\ ended' \in Endings /\ faults' \subseteq {"ERROR"}
  BY HostBecomesInv
<1> QED BY <1>1 DEF Inv

(* A step of the socket alone. *)
LEMMA SockStep ==
  ASSUME Inv, Attended(sock'), sock'.rx = sock.rx, sock'.handle = sock.handle,
         sock'.state = sock.state, written' \in 0..AppBytes,
         UNCHANGED <<tcp, toHost, peer, faults, ended>>
  PROVE  Inv'
BY DEF Inv, Kept, Fits, Attached

(* net_socket_send. *)
LEMMA AppSendInv ==
  ASSUME Inv, NEW n \in 1..AppBytes, AppSend(n)
  PROVE  Inv'
<1> DEFINE b == SubSeq(Numbers(AppBytes), written + 1, written + n)
           x == sock.tx \o b
<1>1. /\ sock \in Socket /\ sock.tx \in Seq(Nat) /\ Attended(sock) /\ written \in Nat
      /\ AppBytes \in Nat /\ n \in Nat
  BY NetAssumption DEF Inv, Kept, Attended, Formed, Socket
<1>2. written + n <= AppBytes
  <2>1. n \in 1..(AppBytes - written)
    BY DEF AppSend
  <2> QED BY <1>1, <2>1
<1>3. b \in Seq(Nat)
  BY <1>1, <1>2, SliceType
<1>4. sock' = [sock EXCEPT !.tx = x] /\ written' = written + n
      /\ UNCHANGED <<tcp, toHost, peer, faults, ended>>
  BY <1>1 DEF AppSend, Socket
<1> HIDE DEF b
<1>5. x \in Seq(Nat) /\ Len(x) \in Nat /\ Len(sock.tx) \in Nat /\ Len(sock.tx) <= Len(x)
  BY <1>1, <1>3
<1> HIDE DEF x
<1>6. /\ sock' \in Socket /\ sock'.rx = sock.rx /\ sock'.handle = sock.handle
      /\ sock'.state = sock.state /\ sock'.queue = sock.queue /\ sock'.woken = sock.woken
      /\ sock'.active = sock.active /\ sock'.eof = sock.eof /\ sock'.tx = x
  BY <1>1, <1>4, <1>5 DEF Socket
<1>7. EntryEvents(sock') \subseteq EntryEvents(sock)
  <2>1. Len(sock'.tx) < TxCapacity => Len(sock.tx) < TxCapacity
    BY <1>5, <1>6, SocketAssumption
  <2> QED BY <1>6, <2>1 DEF EntryEvents
<1>8. Attended(sock')
  BY <1>1, <1>6, <1>7, AttendedFollows
<1>9. written' \in 0..AppBytes
  BY <1>1, <1>2, <1>4
<1> QED BY <1>4, <1>6, <1>8, <1>9, SockStep

(* net_socket_wait. *)
LEMMA TaskWaitsInv ==
  ASSUME Inv, NEW t \in Waiters, TaskWaits(t)
  PROVE  Inv'
<1>1. sock \in Socket /\ Attended(sock) /\ sock.woken \in SUBSET sock.woken
  BY DEF Inv, Kept, Attended, Formed
<1>2. /\ t \notin ToSet(sock.queue) /\ t \notin sock.woken /\ ~WaitReady(sock, t)
      /\ UNCHANGED <<tcp, toHost, peer, faults, ended>> /\ written' \in 0..AppBytes
  BY DEF TaskWaits, Inv
<1>3. sock' = [sock EXCEPT !.queue = Append(@, t), !.woken = sock.woken]
  BY <1>1 DEF TaskWaits, Socket
<1>4. /\ Attended(sock') /\ sock'.rx = sock.rx /\ sock'.handle = sock.handle
      /\ sock'.state = sock.state
  BY <1>1, <1>2, <1>3, EnterAttended, ZenonT(60)
<1> QED BY <1>2, <1>4, SockStep

(* A woken task that runs. *)
LEMMA TaskRunsInv ==
  ASSUME Inv, NEW t \in Waiters, TaskRuns(t)
  PROVE  Inv'
<1> DEFINE w == sock.woken \ {t}
<1>1. sock \in Socket /\ Attended(sock) /\ Formed(sock) /\ w \in SUBSET sock.woken
      /\ w \in SUBSET Waiters
  BY DEF Inv, Kept, Attended, Formed, Socket
<1>2. /\ t \notin ToSet(sock.queue) /\ t \notin w
      /\ UNCHANGED <<tcp, toHost, peer, faults, ended>> /\ written' \in 0..AppBytes
  BY <1>1 DEF TaskRuns, Inv, Formed
<1>3. CASE ~WaitReady(sock, t)
  <2>1. sock' = [sock EXCEPT !.queue = Append(@, t), !.woken = w]
    BY <1>1, <1>3 DEF TaskRuns, Socket
  <2> HIDE DEF w
  <2>2. /\ Attended(sock') /\ sock'.rx = sock.rx /\ sock'.handle = sock.handle
        /\ sock'.state = sock.state
    BY <1>1, <1>2, <1>3, <2>1, EnterAttended, ZenonT(60)
  <2> QED BY <1>2, <2>2, SockStep
<1>4. CASE WaitReady(sock, t)
  <2>1. sock' = [sock EXCEPT !.woken = w]
    BY <1>1, <1>4 DEF TaskRuns, Socket
  <2> HIDE DEF w
  <2>2. /\ sock' \in Socket /\ sock'.rx = sock.rx /\ sock'.handle = sock.handle
        /\ sock'.state = sock.state /\ sock'.queue = sock.queue /\ sock'.woken = w
        /\ sock'.active = sock.active /\ sock'.eof = sock.eof /\ sock'.tx = sock.tx
    BY <1>1, <2>1 DEF Socket
  <2>3. EntryEvents(sock') = EntryEvents(sock)
    BY <2>2 DEF EntryEvents
  <2>4. Formed(sock')
    BY <1>1, <2>2 DEF Formed
  <2>5. (HasEnded(sock') => HasEnded(sock)) /\ (Due(sock') => Due(sock))
    BY <2>3, DueFollowsEvents
  <2>6. Attended(sock')
    BY <1>1, <2>2, <2>4, <2>5 DEF Attended
  <2> QED BY <1>2, <2>2, <2>6, SockStep
<1> QED BY <1>3, <1>4

(* net_socket_receive. *)
LEMMA AppReceiveGood ==
  ASSUME Inv, NEW n \in Nat, NEW ip \in IpResults, AppReceive(n, ip)
  PROVE  LET r == [sock EXCEPT !.rx = SubSeq(sock.rx, n + 1, Len(sock.rx))]
             g == [Host(ip) EXCEPT !.sock = r]
             f == IF sock.handle THEN SetReceiveWindow(g, RxCapacity - Len(g.sock.rx)) ELSE g
         IN Good(g) /\ Good(f) /\ HostBecomes(f)
<1> DEFINE x == SubSeq(sock.rx, n + 1, Len(sock.rx))
           r == [sock EXCEPT !.rx = x]
           g == [Host(ip) EXCEPT !.sock = r]
           f == IF sock.handle THEN SetReceiveWindow(g, RxCapacity - Len(g.sock.rx)) ELSE g
<1>1. /\ sock \in Socket /\ sock.rx \in Seq(Nat) /\ Attended(sock) /\ Formed(sock)
      /\ Len(sock.rx) \in Nat /\ ip \in {"sent", "held", "error"}
  BY NetAssumption DEF Inv, Kept, Attended, Formed, Socket
<1>2. Good(Host(ip)) /\ Host(ip).tcp = tcp /\ Host(ip).sock = sock /\ Host(ip) \in Hosts
  BY <1>1, HostGood DEF Inv, Good, Sound
<1>3. n \in 1..Len(sock.rx)
  BY DEF AppReceive
<1>4. x \in Seq(Nat) /\ Len(x) \in Nat /\ Len(x) <= Len(sock.rx) /\ x # sock.rx
  <2>1. n + 1 \in Nat /\ n + 1 >= 1 /\ n + 1 <= Len(sock.rx) + 1
    BY <1>1, <1>3
  <2>2. x \in Seq(Nat) /\ Len(x) = Len(sock.rx) - n
    BY <1>1, <1>3, <2>1
  <2> HIDE DEF x
  <2> QED BY <1>1, <1>3, <2>2
<1>5. [Host(ip) EXCEPT !.sock.rx = SubSeq(@, n + 1, Len(@))] = g
  BY <1>1, <1>2 DEF Hosts, Socket
<1>6. HostBecomes(f)
  BY <1>5 DEF AppReceive
<1> HIDE DEF x
<1>7. /\ r \in Socket /\ r.rx = x /\ r.handle = sock.handle /\ r.tx = sock.tx
      /\ r.state = sock.state /\ r.queue = sock.queue /\ r.woken = sock.woken
      /\ r.active = sock.active /\ r.eof = sock.eof
  BY <1>1, <1>4 DEF Socket
<1> HIDE DEF r
<1>8. EntryEvents(r) \subseteq EntryEvents(sock)
  <2>1. sock.rx # <<>>
    BY <1>3
  <2> QED BY <1>7, <2>1 DEF EntryEvents
<1>9. Len(x) <= RxCapacity /\ (sock.state = "OPEN" => x = <<>>)
  <2>1. Len(x) <= RxCapacity
    BY <1>1, <1>4, SocketAssumption DEF Formed
  <2>2. sock.state # "OPEN"
    BY <1>1, <1>3 DEF Formed
  <2> QED BY <2>1, <2>2
<1>10. Formed(r)
  BY <1>1, <1>7, <1>9 DEF Formed
<1>11. Attended(r)
  BY <1>1, <1>7, <1>8, <1>10, DueFollowsEvents DEF Attended
<1>12. Fits(tcp, r) /\ Attached(tcp, r)
  <2>1. tcp.state # "CLOSED" =>
          tcp.localWindow \in Nat /\ tcp.localWindow + Len(sock.rx) <= RxCapacity
    BY ConnectionParts DEF Inv, Kept, Fits
  <2>2. tcp.state # "CLOSED" => tcp.localWindow + Len(x) <= RxCapacity
    BY <1>1, <1>4, <2>1, SocketAssumption
  <2> QED BY <1>7, <2>2 DEF Inv, Kept, Fits, Attached
<1>13. Good(g) /\ g.sock = r
  BY <1>2, <1>11, <1>12, GoodWithSock DEF Inv, Kept
<1> HIDE DEF g
<1>14. Good(f)
  BY <1>10, <1>13, FreeSpaceIs, SetReceiveWindowGood
<1> HIDE DEF f
<1> QED BY <1>6, <1>13, <1>14 DEF f, g, r, x

(* A read of the application preserves Inv.                                *)
LEMMA AppReceiveInv ==
  ASSUME Inv, NEW n \in Nat, NEW ip \in IpResults, AppReceive(n, ip)
  PROVE  Inv'
<1> DEFINE r == [sock EXCEPT !.rx = SubSeq(sock.rx, n + 1, Len(sock.rx))]
           g == [Host(ip) EXCEPT !.sock = r]
           f == IF sock.handle THEN SetReceiveWindow(g, RxCapacity - Len(g.sock.rx)) ELSE g
<1>1. Good(f) /\ HostBecomes(f)
  BY AppReceiveGood
<1>2. toHost' = toHost /\ written' = written
  BY DEF AppReceive
<1> HIDE DEF f
<1> QED BY <1>1, <1>2, HostStep

(* net_socket_reset. *)
LEMMA NetResetInv ==
  ASSUME Inv, NetReset
  PROVE  Inv'
<1> DEFINE h == Host("error")
           g == IF tcp.state # "CLOSED" THEN ClearConnection(h) ELSE h
           f == IF g.sock.active THEN [g EXCEPT !.sock = Release(@)] ELSE g
<1>1. Good(h) /\ h.tcp = tcp /\ h \in Hosts /\ Attended(h.sock)
  BY HostGood DEF Inv, Good, Sound
<1>2. Good(g) /\ g.tcp.state = "CLOSED"
  <2> HIDE DEF h
  <2> QED BY <1>1, ClearConnectionGood
<1>3. /\ tcp' = g.tcp /\ sock' = IF g.sock.active THEN Release(g.sock) ELSE g.sock
      /\ faults' = faults /\ ended' = "aborted" /\ UNCHANGED <<toHost, peer, written>>
  BY DEF NetReset
<1> HIDE DEF g
<1>4. g \in Hosts
  BY <1>2 DEF Good, Sound
<1>5. Good(f)
  BY <1>2, ReleaseGood
<1>6. f.tcp = tcp' /\ f.sock = sock'
  BY <1>3, <1>4 DEF Hosts
<1> HIDE DEF f
<1>7. Kept'
  <2>1. /\ f.tcp \in Connection /\ Tracked(f.tcp) /\ Attended(f.sock)
        /\ Fits(f.tcp, f.sock) /\ Attached(f.tcp, f.sock)
    BY <1>5, HostParts DEF Good, Sound
  <2> QED BY <1>6, <2>1 DEF Kept
<1> QED BY <1>3, <1>7 DEF Inv, Endings

(* A step of the peer. *)
LEMMA PeerStep ==
  ASSUME Inv, NEW m \in Segment, Put(m), peer' \in Peers, UNCHANGED <<hostVars, written>>
  PROVE  Inv'
BY DEF Inv, Kept, Put, hostVars

(* The peer's own steps preserve Inv.                                      *)
LEMMA PeerInv ==
  ASSUME Inv,
         \/ \E w \in PeerWindows : PeerAccepts(w)
         \/ \E o \in 0..(PeerBytes + 1), l \in 0..Mss, f \in BOOLEAN, w \in PeerWindows :
              PeerSends(o, l, f, w)
         \/ PeerResets
  PROVE  Inv'
<1>0. peer \in Peers /\ PeerBytes \in Nat /\ Mss \in Nat /\ PeerWindows \subseteq Nat
  BY NetAssumption, HalfSpace DEF Inv
<1>1. ASSUME NEW w \in PeerWindows, PeerAccepts(w) PROVE Inv'
  <2> DEFINE m == [seq |-> PeerIsn, ack |-> Plus(Isn, 1), flags |-> {"SYN", "ACK"},
                   win |-> w, data |-> <<>>]
  <2>1. PeerIsn \in Sequence /\ Plus(Isn, 1) \in Sequence /\ <<>> \in Seq(Nat) /\ w \in Nat
    BY <1>0, PlusType, EmptySegment, NetAssumption
  <2>2. m \in Segment
    BY <2>1 DEF Segment, Flags
  <2>3. Put(m) /\ peer' = peer /\ UNCHANGED <<hostVars, written>>
    BY <1>1 DEF PeerAccepts
  <2> HIDE DEF m
  <2> QED BY <1>0, <2>2, <2>3, PeerStep
<1>2. ASSUME NEW o \in 0..(PeerBytes + 1), NEW l \in 0..Mss, NEW f \in BOOLEAN,
             NEW w \in PeerWindows, PeerSends(o, l, f, w)
      PROVE  Inv'
  <2> DEFINE flags == IF f THEN {"FIN", "ACK"} ELSE {"ACK"}
             m == PeerSegment(o, l, flags, w)
             k == IF f THEN 1 ELSE 0
             e == o + l + k
             x == Max({peer.snt, e})
  <2>1. o \in Nat /\ l \in Nat /\ w \in Nat /\ k \in Nat
    BY <1>0
  <2>2. l = 0 \/ o + l <= PeerBytes
    BY <1>2 DEF PeerSends
  <2>3. m \in Segment
    BY <1>0, <2>1, <2>2, PeerSegmentType DEF Flags
  <2>4. Put(m) /\ peer' = [peer EXCEPT !.snt = x] /\ UNCHANGED <<hostVars, written>>
    BY <1>0, <1>2 DEF PeerSends, Peers
  <2> HIDE DEF m, k
  <2>5. e \in Nat /\ peer.snt \in Nat
    BY <1>0, <2>1 DEF Peers
  <2> HIDE DEF e
  <2>6. x \in Nat
    <3>1. \E a \in {peer.snt, e} : \A b \in {peer.snt, e} : a >= b
      BY <2>5
    <3>2. x \in {peer.snt, e}
      BY <3>1 DEF Max
    <3> QED BY <2>5, <3>2
  <2> HIDE DEF x
  <2>7. peer' \in Peers
    BY <1>0, <2>4, <2>6 DEF Peers
  <2> QED BY <2>3, <2>4, <2>7, PeerStep
<1>3. CASE PeerResets
  <2> DEFINE m == PeerSegment(peer.snt, 0, {"RST", "ACK"}, 0)
  <2>1. peer.snt \in Nat
    BY <1>0 DEF Peers
  <2>2. m \in Segment
    BY <1>0, <2>1, PeerSegmentType DEF Flags
  <2>3. Put(m) /\ peer' = [peer EXCEPT !.state = "RESET"] /\ UNCHANGED <<hostVars, written>>
    BY <1>3 DEF PeerResets
  <2>4. peer' \in Peers
    BY <1>0, <2>3 DEF Peers
  <2> HIDE DEF m
  <2> QED BY <2>2, <2>3, <2>4, PeerStep
<1> QED BY <1>1, <1>2, <1>3

(* The invariant holds at first... *)
LEMMA InitInv == Init => Inv
<1> SUFFICES ASSUME Init PROVE Inv
  OBVIOUS
<1>1. tcp \in Connection /\ tcp.state = "CLOSED" /\ ~tcp.pending.active
  BY EmptySegment DEF Init
<1>2. sock \in Socket /\ sock.rx = <<>> /\ sock.queue = <<>>
  <2>1. <<>> \in Seq(Nat) /\ <<>> \in Seq(Waiters)
    OBVIOUS
  <2> QED BY <2>1 DEF Init, NewSocket, Socket, SocketStates
<1>3. Distinct(<<>>) /\ ToSet(<<>>) = {} /\ Len(<<>>) <= RxCapacity
  BY SocketAssumption DEF Distinct, ToSet
<1>4. Attended(sock)
  <2>1. Formed(sock)
    BY <1>2, <1>3 DEF Formed
  <2>2. Due(sock) => ToSet(<<>>) # Waiters
    BY <1>3 DEF Due
  <2> QED BY <1>2, <2>1, <2>2 DEF Attended
<1>5. Kept
  BY <1>1, <1>4 DEF Kept, Tracked, Fits, Attached
<1>6. peer \in Peers
  BY EmptySegment DEF Init, PeerInit, Peers
<1> QED BY <1>5, <1>6, NetAssumption DEF Init, Inv, Endings

(* ... and every step keeps it. *)
LEMMA NextInv == Inv /\ [Next]_vars => Inv'
<1> SUFFICES ASSUME Inv, [Next]_vars PROVE Inv'
  OBVIOUS
<1>0. \A ip \in IpResults : /\ Good(Host(ip)) /\ Host(ip).sock = sock
                             /\ ip \in {"sent", "held", "error"}
  BY HostGood, NetAssumption DEF Inv
<1>1. ASSUME NEW ip \in IpResults, AppConnect(ip) PROVE Inv'
  <2>1. Good(SocketConnect(Host(ip)))
    BY <1>0, <1>1, SocketConnectGood DEF AppConnect
  <2> QED BY <1>1, <2>1, HostStep DEF AppConnect
<1>2. ASSUME NEW ip \in IpResults, AppClose(ip) PROVE Inv'
  <2>1. Good(SocketClose(Host(ip)))
    BY <1>0, SocketCloseGood
  <2> QED BY <1>2, <2>1, HostStep DEF AppClose
<1>3. ASSUME NEW ip \in IpResults, AppAbort(ip) PROVE Inv'
  <2> DEFINE g == IF sock.handle THEN Abort(Host(ip)) ELSE Host(ip)
  <2>1. Good(g) /\ g.tcp.state = "CLOSED"
    BY <1>0, AbortedGood
  <2>2. HostBecomes([g EXCEPT !.sock = Release(@)]) /\ toHost' = toHost /\ written' = written
    BY <1>3 DEF AppAbort
  <2> HIDE DEF g
  <2>3. Good([g EXCEPT !.sock = Release(@)])
    BY <2>1, ReleaseGood
  <2> QED BY <2>2, <2>3, HostStep
<1>4. ASSUME NEW ip \in IpResults, NEW n \in 1..RxCapacity, AppReceive(n, ip) PROVE Inv'
  BY <1>4, AppReceiveInv
<1>5. ASSUME NEW ip \in IpResults, NEW m \in toHost, NEW again \in BOOLEAN,
             HostReceives(m, ip, again)
      PROVE  Inv'
  <2>1. m \in Segment
    BY DEF Inv
  <2>2. Good(HandleIpv4(Host(ip), m))
    BY <1>0, <2>1, HandleIpv4Good
  <2> QED BY <1>5, <2>2, HostStep DEF HostReceives
<1>6. ASSUME NEW ip \in IpResults, NEW elapsed \in Deadlines, NetPoll(ip, elapsed) PROVE Inv'
  <2>1. Good(SocketMaintain(Maintain(Host(ip), elapsed)))
    BY <1>0, MaintainGood, SocketMaintainGood
  <2> QED BY <1>6, <2>1, HostStep DEF NetPoll
<1>7. ASSUME NEW n \in 1..AppBytes, AppSend(n) PROVE Inv'
  BY <1>7, AppSendInv
<1>8. CASE NetReset
  BY <1>8, NetResetInv
<1>9. ASSUME NEW t \in Waiters, TaskWaits(t) \/ TaskRuns(t) PROVE Inv'
  BY <1>9, TaskWaitsInv, TaskRunsInv
<1>10. CASE \/ \E w \in PeerWindows : PeerAccepts(w)
            \/ \E o \in 0..(PeerBytes + 1), l \in 0..Mss, f \in BOOLEAN, w \in PeerWindows :
                 PeerSends(o, l, f, w)
            \/ PeerResets
  BY <1>10, PeerInv
<1>11. CASE UNCHANGED vars
  BY <1>11 DEF vars, Inv, Kept
<1> QED BY <1>1, <1>2, <1>3, <1>4, <1>5, <1>6, <1>7, <1>8, <1>9, <1>10, <1>11 DEF Next

(* Inv holds of every run.                                                 *)
LEMMA InvHolds == Spec => []Inv
BY InitInv, NextInv, PTL DEF Spec
-----------------------------------------------------------------------------
(* The window TCP accepts data in never exceeds the free space of the RX    *)
(* ring of net_socket.c, for rings of every size and for every order of     *)
(* segments, reads and polls: no connection dies of ERR_OVERFLOW.           *)
THEOREM WindowAlwaysFits == Spec => []WindowFitsRing
<1>1. Inv => WindowFitsRing
  <2> SUFFICES ASSUME Inv PROVE WindowFitsRing
    OBVIOUS
  <2>1. tcp \in Connection /\ sock \in Socket /\ sock.rx \in Seq(Nat)
    BY DEF Inv, Kept, Attended, Formed, Socket
  <2>2. TypeOK
    BY <2>1 DEF Inv, TypeOK, Faults
  <2>3. tcp.localWindow \in Nat /\ Len(sock.rx) \in Nat /\ RxCapacity \in Nat
    BY <2>1, ConnectionParts, SocketAssumption
  <2>4. tcp.state # "CLOSED" => tcp.localWindow + Len(sock.rx) <= RxCapacity
    BY DEF Inv, Kept, Fits
  <2>5. tcp.state # "CLOSED" => tcp.localWindow <= RxCapacity - Len(sock.rx)
    BY <2>3, <2>4
  <2> QED BY <2>2, <2>5 DEF WindowFitsRing, Inv
<1> QED BY <1>1, InvHolds, PTL

(* Whatever a living connection of tcp.c has sent and not seen acknowledged *)
(* is its pending segment, also across the wrap of the sequence numbers and *)
(* for late, duplicated and partial acknowledgments.                        *)
THEOREM NothingSentIsForgotten == Spec => []UnackedIsPending
<1>1. Inv => UnackedIsPending
  <2> DEFINE p == tcp.pending
             d == Size(p)
  <2> SUFFICES ASSUME Inv, tcp.state \notin {"CLOSED", "FAILED"}
               PROVE  IF p.active
                      THEN PendingEnd(p) = tcp.nxt /\ SequenceBetween(tcp.una, p.seq, tcp.nxt)
                      ELSE tcp.una = tcp.nxt
    BY DEF UnackedIsPending
  <2>1. Unacked(tcp) /\ tcp \in Connection /\ p \in Pending
    BY ConnectionParts DEF Inv, Kept, Tracked
  <2>2. CASE p.active
    <3>1. /\ d <= Mss + 1 /\ tcp.nxt = Plus(p.seq, d)
          /\ \E n \in 0..d : tcp.una = Plus(p.seq, n)
      BY <2>1, <2>2 DEF Unacked
    <3>2. PICK u \in 0..d : tcp.una = Plus(p.seq, u)
      BY <3>1
    <3>3. p.seq \in Sequence /\ d \in Nat
      BY <2>1, PendingParts, ConsumedIs DEF Size
    <3>4. d \in 0..(Mss + 1)
      BY <3>1, <3>3, HalfSpace
    <3>5. PendingEnd(p) = tcp.nxt
      BY <3>1 DEF PendingEnd, Size
    <3> HIDE DEF d, p
    <3>6. SequenceBetween(tcp.una, p.seq, tcp.nxt)
      BY <3>1, <3>2, <3>3, <3>4, InsideIsBetween
    <3> QED BY <2>2, <3>5, <3>6
  <2>3. CASE ~p.active
    BY <2>1, <2>3 DEF Unacked
  <2> QED BY <2>2, <2>3
<1> QED BY <1>1, InvHolds, PTL

(* No task sleeps in the queue of a socket that has ended, failed or been   *)
(* released, however many there are, and tasks that wait for the same       *)
(* events are never all asleep over one that is there: every handler of     *)
(* net_socket.c that makes an event true wakes the queue or its head.       *)
THEOREM WaitersAlwaysWoken == Spec => []WaitersAreWoken
<1>1. Inv => WaitersAreWoken
  BY DEF Inv, Kept, Attended, HasEnded, Due, WaitersAreWoken
<1> QED BY <1>1, InvHolds, PTL
-----------------------------------------------------------------------------
(* The two streams. Bytes are numbered, so that a sequence of bytes of a    *)
(* stream that starts behind its first n bytes holds n + 1, n + 2, ...      *)
Counts(q, n) == \A i \in 1..Len(q) : q[i] = n + i

(* What the peer acknowledges, as an offset from the initial number. *)
Got(p) == 1 + Len(p.rcv) + (IF p.fin THEN 1 ELSE 0)

(* The socket has no connection yet; the application can no longer write. *)
Early(s) == s.active /\ s.state \in {"OPEN", "CONNECTING"}
Sealed(s) == s.active => s.state \notin {"OPEN", "CONNECTING", "CONNECTED"}

(* Nothing but SYNs has come or can come from the peer. *)
Quiet == peer.state # "OPEN" /\ \A m \in toHost : "SYN" \in m.flags

(* The offset in the peer's stream that the socket waits for; r is read.    *)
Awaited(s, r) == Len(r) + Len(s.rx) + (IF s.eof THEN 1 ELSE 0)

(* A part of what was written, at its place; a FIN is behind all of it.     *)
Slice(seq, flags, data) ==
  \E b \in 0..written :
    /\ seq = Plus(Isn, 1 + b) /\ b + Len(data) <= written /\ Counts(data, b)
    /\ "FIN" \in flags => b = written /\ data = <<>>

Carried(m) == m.data # <<>> \/ "FIN" \in m.flags => Slice(m.seq, m.flags, m.data)

(* It does not open a peer that waits for the answer to its SYN.            *)
Mute(m) == "SYN" \in m.flags \/ (m.ack = 0 /\ PeerSeq(0) # 0)

(* The connection does not know the peer's numbers yet, or never will: it   *)
(* failed before the answer to its SYN.                                     *)
Deaf(c, s, r) == c.state = "SYN_SENT"
                 \/ (c.state # "CLOSED" /\ c.rcv # PeerSeq(Awaited(s, r)))

Received(s, r) ==
  /\ r \in Seq(Nat) /\ Counts(r, 0) /\ Counts(s.rx, Len(r))
  /\ Len(r) + Len(s.rx) <= PeerBytes /\ (s.eof => Len(r) + Len(s.rx) = PeerBytes)
  /\ Early(s) => Awaited(s, r) = 0 /\ written = 0

Hears(c, s, r) ==
  /\ c.state = "SYN_SENT" => s.active /\ s.state = "CONNECTING"
  /\ c.state \notin {"CLOSED", "SYN_SENT"} => ~Early(s)
  /\ Deaf(c, s, r) =>
       c.state \in {"SYN_SENT", "FAILED"} /\ c.rcv = 0 /\ Quiet /\ Awaited(s, r) = 0

Queued(c, s) ==
  /\ written \in 0..AppBytes /\ Len(s.tx) <= written /\ Counts(s.tx, written - Len(s.tx))
  /\ s.closeRequested => Sealed(s)
  /\ c.closeRequested => Sealed(s) /\ s.tx = <<>>
  /\ peer.fin => Sealed(s)

FinStates == {"FIN_WAIT_1", "FIN_WAIT_2", "CLOSING", "LAST_ACK", "TIME_WAIT"}

(* The next number and the pending segment, state by state.                 *)
Numbered(c, s) ==
  /\ c.state = "SYN_SENT" =>
       /\ c.nxt = Plus(Isn, 1)
       /\ c.pending.active => c.pending.flags = {"SYN"} /\ c.pending.data = <<>>
  /\ c.state \in {"ESTABLISHED", "CLOSE_WAIT"} =>
       /\ c.nxt = Plus(Isn, 1 + (written - Len(s.tx)))
       /\ c.pending.active =>
            /\ c.pending.flags = {"ACK"}
            /\ Slice(c.pending.seq, c.pending.flags, c.pending.data)
  /\ c.state \in FinStates => c.closeRequested /\ c.nxt = Plus(Isn, 2 + written)
  /\ c.state \in {"FIN_WAIT_1", "CLOSING", "LAST_ACK"} =>
       /\ c.pending.active /\ c.pending.flags = {"FIN", "ACK"}
       /\ c.pending.data = <<>> /\ c.pending.seq = Plus(Isn, 1 + written)
  /\ c.state \in {"FIN_WAIT_2", "TIME_WAIT"} => ~c.pending.active /\ peer.fin

(* A segment the handler may have transmitted. *)
Safe(c, s, r, m) ==
  /\ Carried(m) /\ ("FIN" \in m.flags => Sealed(s)) /\ (Deaf(c, s, r) => Mute(m))

Outgoing(h, r) ==
  /\ \A i \in 1..Len(h.out) : Safe(h.tcp, h.sock, r, h.out[i])
  /\ h.sock.active /\ h.sock.state = "OPEN" => h.out = <<>> /\ peer.state = "LISTEN"

Reports(h) ==
  /\ h.tcp.state = "FAILED" => "ERROR" \in faults \cup h.log
  /\ "CLOSED" \in h.log => peer.fin \/ "ERROR" \in faults \cup h.log

(* What every handler keeps; peer, toHost, written and faults are those of  *)
(* the state in which it started.                                           *)
Exact(h, r) ==
  /\ Received(h.sock, r) /\ Hears(h.tcp, h.sock, r) /\ Queued(h.tcp, h.sock)
  /\ Numbered(h.tcp, h.sock) /\ Outgoing(h, r) /\ Reports(h)

(* A segment of the peer: it acknowledges what the peer got and carries a   *)
(* part of its stream, at its place.                                        *)
From(m) ==
  /\ "ACK" \in m.flags
  /\ \E a \in 0..Got(peer) : m.ack = Plus(Isn, a)
  /\ IF "SYN" \in m.flags THEN m.seq = PeerIsn /\ m.data = <<>> /\ "FIN" \notin m.flags
     ELSE \E o \in 0..(PeerBytes + 1) :
            /\ m.seq = PeerSeq(o) /\ (m.data # <<>> => o + Len(m.data) <= PeerBytes)
            /\ Counts(m.data, o)
            /\ "FIN" \in m.flags => o + Len(m.data) = PeerBytes

PeerExact ==
  /\ Counts(peer.rcv, 0) /\ Len(peer.rcv) <= written
  /\ peer.fin => Len(peer.rcv) = written
  /\ peer.state \in {"LISTEN", "SYN_RCVD"} => peer.snt = 0
  /\ peer.snt <= PeerBytes + 1
  /\ peer.state = "LISTEN" => toHost = {}
  /\ \A m \in toHost : From(m)

StreamInv ==
  /\ Inv /\ PeerExact
  /\ Received(sock, read) /\ Hears(tcp, sock, read) /\ Queued(tcp, sock)
  /\ Numbered(tcp, sock)
  /\ sock.active /\ sock.state = "OPEN" => peer.state = "LISTEN"
  /\ tcp.state = "FAILED" => "ERROR" \in faults
  /\ ended = "closed" => peer.fin \/ "ERROR" \in faults
-----------------------------------------------------------------------------
(* Sequences of numbered bytes. *)

(* No bytes are in order.                                                  *)
LEMMA CountsEmpty ==
  ASSUME NEW n
  PROVE  Counts(<<>>, n)
BY DEF Counts

(* Two runs of bytes that meet are one.                                    *)
LEMMA CountsJoin ==
  ASSUME NEW q \in Seq(Nat), NEW d \in Seq(Nat), NEW n \in Nat, Counts(q, n),
         Counts(d, n + Len(q))
  PROVE  Counts(q \o d, n) /\ q \o d \in Seq(Nat) /\ Len(q \o d) = Len(q) + Len(d)
<1>1. Len(q) \in Nat /\ Len(d) \in Nat /\ q \o d \in Seq(Nat) /\ Len(q \o d) = Len(q) + Len(d)
  OBVIOUS
<1>2. ASSUME NEW i \in 1..Len(q \o d) PROVE (q \o d)[i] = n + i
  <2>1. CASE i <= Len(q)
    <3>1. i \in 1..Len(q) /\ (q \o d)[i] = q[i]
      BY <1>1, <2>1
    <3> QED BY <3>1 DEF Counts
  <2>2. CASE i > Len(q)
    <3>1. i - Len(q) \in 1..Len(d) /\ (q \o d)[i] = d[i - Len(q)]
      BY <1>1, <2>2
    <3>2. d[i - Len(q)] = (n + Len(q)) + (i - Len(q))
      BY <3>1 DEF Counts
    <3>3. (n + Len(q)) + (i - Len(q)) = n + i
      BY <1>1
    <3> QED BY <3>1, <3>2, <3>3
  <2> QED BY <1>1, <2>1, <2>2
<1> QED BY <1>1, <1>2 DEF Counts

(* A part of a run of bytes is one, from its own place on.                 *)
LEMMA CountsPart ==
  ASSUME NEW q \in Seq(Nat), NEW n \in Nat, Counts(q, n), NEW a \in Nat, NEW k \in Nat,
         a + k <= Len(q) \/ k = 0
  PROVE  LET s == SubSeq(q, a + 1, a + k)
         IN Counts(s, n + a) /\ s \in Seq(Nat) /\ Len(s) = k
<1> DEFINE s == SubSeq(q, a + 1, a + k)
<1>1. CASE k = 0
  <2>1. a + k = a
    BY <1>1
  <2>2. SubSeq(q, a + 1, a) = <<>>
    OBVIOUS
  <2>3. Counts(<<>>, n + a) /\ <<>> \in Seq(Nat) /\ Len(<<>>) = k
    BY <1>1, CountsEmpty
  <2> QED BY <2>1, <2>2, <2>3
<1>2. CASE k # 0
  <2>1. /\ a + 1 \in Nat /\ a + 1 >= 1 /\ a + k \in Nat /\ a + k <= Len(q) /\ Len(q) \in Nat
        /\ a + 1 <= a + k
    BY <1>2
  <2>2. s \in Seq(Nat) /\ Len(s) = k /\ \A i \in 1..k : s[i] = q[a + i]
    <3>1. Len(s) = (a + k) - (a + 1) + 1 /\ s \in Seq(Nat)
      BY <2>1
    <3>2. \A i \in 1..((a + k) - (a + 1) + 1) : s[i] = q[(a + 1) + i - 1]
      BY <2>1
    <3>3. (a + k) - (a + 1) + 1 = k /\ \A i \in 1..k : (a + 1) + i - 1 = a + i
      OBVIOUS
    <3> QED BY <3>1, <3>2, <3>3
  <2> HIDE DEF s
  <2>3. ASSUME NEW i \in 1..k PROVE s[i] = (n + a) + i
    <3>1. a + i \in 1..Len(q)
      BY <2>1
    <3>2. q[a + i] = n + (a + i)
      BY <3>1 DEF Counts
    <3>3. n + (a + i) = (n + a) + i
      OBVIOUS
    <3> QED BY <2>2, <3>2, <3>3
  <2>4. Counts(s, n + a)
    BY <2>2, <2>3 DEF Counts
  <2> QED BY <2>2, <2>4 DEF s
<1> QED BY <1>1, <1>2

(* Bytes of a stream, as the application and the peer write them. *)
LEMMA NumbersCount ==
  ASSUME NEW n \in Nat
  PROVE  Numbers(n) \in Seq(Nat) /\ Len(Numbers(n)) = n /\ Counts(Numbers(n), 0)
<1>1. Numbers(n) \in Seq(Nat) /\ Len(Numbers(n)) = n
  BY DEF Numbers
<1>2. \A i \in 1..n : Numbers(n)[i] = 0 + i
  BY DEF Numbers
<1> QED BY <1>1, <1>2 DEF Counts

(* Sequence numbers of offsets. *)
LEMMA PlusPlus ==
  ASSUME NEW s \in Sequence, NEW a \in Nat, NEW b \in Nat, a < SeqSpace, b < SeqSpace,
         a + b < SeqSpace
  PROVE  Plus(Plus(s, a), b) = Plus(s, a + b)
<1> DEFINE x == Plus(s, a)
<1>1. /\ x \in Sequence /\ x = IF s + a < SeqSpace THEN s + a ELSE s + a - SeqSpace
      /\ a + b \in Nat
  BY PlusIs
<1>2. s \in Int /\ 0 <= s /\ s < SeqSpace /\ SeqSpace \in Nat
  BY OneTurn DEF Sequence
<1> HIDE DEF x
<1>3. Plus(x, b) = IF x + b < SeqSpace THEN x + b ELSE x + b - SeqSpace
  BY <1>1, PlusIs
<1>4. Plus(s, a + b) = IF s + (a + b) < SeqSpace THEN s + (a + b) ELSE s + (a + b) - SeqSpace
  BY <1>1, PlusIs
<1>5. Plus(x, b) = Plus(s, a + b)
  BY <1>1, <1>2, <1>3, <1>4
<1> QED BY <1>5 DEF x

(* A sequence number advanced by nothing.                                  *)
LEMMA PlusZero ==
  ASSUME NEW s \in Sequence
  PROVE  Plus(s, 0) = s
<1>1. s + 0 = s /\ s \in Int /\ 0 <= s /\ s < SeqSpace
  BY OneTurn DEF Sequence
<1> QED BY <1>1, OneTurn DEF Plus

(* Within one turn of the space, different advances give different         *)
(* numbers.                                                                *)
LEMMA PlusApart ==
  ASSUME NEW s \in Sequence, NEW a \in Nat, NEW b \in Nat, a < SeqSpace, b < SeqSpace,
         Plus(s, a) = Plus(s, b)
  PROVE  a = b
<1> DEFINE x == Plus(s, a)
<1>1. s \in Int /\ 0 <= s /\ s < SeqSpace /\ SeqSpace \in Nat
  BY OneTurn DEF Sequence
<1>2. x = (IF s + a < SeqSpace THEN s + a ELSE s + a - SeqSpace) /\ x \in Int
  BY <1>1, PlusIs
<1>3. x = IF s + b < SeqSpace THEN s + b ELSE s + b - SeqSpace
  BY PlusIs
<1> HIDE DEF x
<1> QED BY <1>1, <1>2, <1>3

(* The distance from one number of a stream to another. *)
LEMMA Distance ==
  ASSUME NEW s \in Sequence, NEW a \in Nat, NEW b \in Nat, a < SeqSpace, b < SeqSpace
  PROVE  (Plus(s, a) - Plus(s, b)) % SeqSpace = IF b <= a THEN a - b ELSE a - b + SeqSpace
<1> DEFINE x == Plus(s, a)
           y == Plus(s, b)
<1>1. s \in Int /\ 0 <= s /\ s < SeqSpace /\ SeqSpace \in Nat
  BY OneTurn DEF Sequence
<1>2. x = (IF s + a < SeqSpace THEN s + a ELSE s + a - SeqSpace) /\ x \in Int
  BY <1>1, PlusIs
<1>3. y = (IF s + b < SeqSpace THEN s + b ELSE s + b - SeqSpace) /\ y \in Int
  BY <1>1, PlusIs
<1> HIDE DEF x, y
<1>4. x - y \in Int /\ -SeqSpace < x - y /\ x - y < SeqSpace
  BY <1>1, <1>2, <1>3
<1>5. (x - y) % SeqSpace = IF 0 <= x - y THEN x - y ELSE x - y + SeqSpace
  BY <1>1, <1>4, OneTurn
<1>6. \/ x - y = a - b \/ x - y = a - b + SeqSpace \/ x - y = a - b - SeqSpace
  BY <1>1, <1>2, <1>3
<1>7. (x - y) % SeqSpace = IF b <= a THEN a - b ELSE a - b + SeqSpace
  BY <1>1, <1>2, <1>3, <1>4, <1>5, <1>6
<1> QED BY <1>7 DEF x, y

(* Offsets of either stream stay far from a whole turn. *)
LEMMA StreamSpace ==
  /\ SeqSpace \in Nat /\ AppBytes \in Nat /\ PeerBytes \in Nat
  /\ 2 * (AppBytes + 2) < SeqSpace /\ 2 * (PeerBytes + 2) < SeqSpace
  /\ Isn \in Sequence /\ PeerIsn \in Sequence
BY NetAssumption, OneTurn

(* The peer's numbers. *)
LEMMA PeerSeqIs ==
  /\ \A o, q \in 0..(PeerBytes + 1) : PeerSeq(o) = PeerSeq(q) => o = q
  /\ \A o \in 0..(PeerBytes + 1) : \A n \in Nat :
       o + n <= PeerBytes + 1 => Plus(PeerSeq(o), n) = PeerSeq(o + n)
  /\ \A o \in 0..(PeerBytes + 1) : PeerSeq(o) \in Sequence
  /\ Plus(PeerIsn, 1) = PeerSeq(0)
<1>1. ASSUME NEW o \in 0..(PeerBytes + 1), NEW q \in 0..(PeerBytes + 1), PeerSeq(o) = PeerSeq(q)
      PROVE  o = q
  <2>1. 1 + o \in Nat /\ 1 + q \in Nat /\ 1 + o < SeqSpace /\ 1 + q < SeqSpace
    BY StreamSpace
  <2>2. 1 + o = 1 + q
    BY <1>1, <2>1, StreamSpace, PlusApart DEF PeerSeq
  <2> QED BY <2>2, StreamSpace
<1>2. ASSUME NEW o \in 0..(PeerBytes + 1), NEW n \in Nat, o + n <= PeerBytes + 1
      PROVE  Plus(PeerSeq(o), n) = PeerSeq(o + n)
  <2>1. /\ 1 + o \in Nat /\ 1 + o < SeqSpace /\ n < SeqSpace /\ (1 + o) + n < SeqSpace
        /\ (1 + o) + n = 1 + (o + n)
    BY <1>2, StreamSpace
  <2>2. Plus(Plus(PeerIsn, 1 + o), n) = Plus(PeerIsn, (1 + o) + n)
    BY <2>1, StreamSpace, PlusPlus
  <2> QED BY <2>1, <2>2 DEF PeerSeq
<1>3. ASSUME NEW o \in 0..(PeerBytes + 1) PROVE PeerSeq(o) \in Sequence
  <2>1. o \in Nat
    BY StreamSpace
  <2> QED BY <2>1, PeerNumbers
<1>4. Plus(PeerIsn, 1) = PeerSeq(0)
  BY DEF PeerSeq
<1> QED BY <1>1, <1>2, <1>3, <1>4
-----------------------------------------------------------------------------
(* What Exact looks at. *)
SameConn(c, d) ==
  /\ c.state = d.state /\ c.closeRequested = d.closeRequested /\ c.nxt = d.nxt
  /\ c.rcv = d.rcv /\ c.pending.active = d.pending.active /\ c.pending.seq = d.pending.seq
  /\ c.pending.flags = d.pending.flags /\ c.pending.data = d.pending.data

SameEntry(s, q) ==
  /\ s.active = q.active /\ s.state = q.state /\ s.eof = q.eof
  /\ s.closeRequested = q.closeRequested /\ s.tx = q.tx /\ s.rx = q.rx

(* Nothing else matters. *)
LEMMA SameFollows ==
  ASSUME NEW c, NEW d, NEW s, NEW q, NEW r, SameConn(d, c), SameEntry(q, s)
  PROVE  /\ Received(s, r) => Received(q, r)
         /\ Hears(c, s, r) => Hears(d, q, r)
         /\ Queued(c, s) => Queued(d, q)
         /\ Numbered(c, s) => Numbered(d, q)
         /\ \A m : Safe(c, s, r, m) => Safe(d, q, r, m)
<1>1. /\ Awaited(q, r) = Awaited(s, r) /\ (Early(q) <=> Early(s))
      /\ (Sealed(q) <=> Sealed(s)) /\ (Deaf(d, q, r) <=> Deaf(c, s, r))
  BY DEF SameConn, SameEntry, Awaited, Early, Sealed, Deaf
<1>2. Received(s, r) => Received(q, r)
  BY <1>1 DEF Received, SameEntry
<1>3. Hears(c, s, r) => Hears(d, q, r)
  BY <1>1 DEF Hears, SameEntry, SameConn
<1>4. Queued(c, s) => Queued(d, q)
  BY <1>1 DEF Queued, SameEntry, SameConn
<1>5. Numbered(c, s) => Numbered(d, q)
  BY DEF Numbered, SameEntry, SameConn
<1>6. \A m : Safe(c, s, r, m) => Safe(d, q, r, m)
  BY <1>1 DEF Safe
<1> QED BY <1>2, <1>3, <1>4, <1>5, <1>6

(* Exact depends on the connection, the stream side of the socket, the     *)
(* segments sent and the errors reported.                                  *)
LEMMA ExactFollows ==
  ASSUME NEW h, NEW r, Exact(h, r), NEW g, SameConn(g.tcp, h.tcp), SameEntry(g.sock, h.sock),
         g.out = h.out, "ERROR" \in h.log => "ERROR" \in g.log,
         "CLOSED" \in g.log => "CLOSED" \in h.log
  PROVE  Exact(g, r)
<1>1. /\ Received(g.sock, r) /\ Hears(g.tcp, g.sock, r) /\ Queued(g.tcp, g.sock)
      /\ Numbered(g.tcp, g.sock)
      /\ \A m : Safe(h.tcp, h.sock, r, m) => Safe(g.tcp, g.sock, r, m)
  BY SameFollows DEF Exact
<1>2. Outgoing(g, r)
  BY <1>1 DEF Outgoing, Exact, SameEntry
<1>3. Reports(g)
  BY DEF Reports, Exact, SameConn
<1> QED BY <1>1, <1>2, <1>3 DEF Exact

(* One more segment was transmitted. *)
LEMMA OutgoingMore ==
  ASSUME NEW h \in Hosts, NEW r, Outgoing(h, r), NEW g, g.tcp = h.tcp, g.sock = h.sock,
         NEW m, g.out = Append(h.out, m), Safe(h.tcp, h.sock, r, m),
         ~(h.sock.active /\ h.sock.state = "OPEN")
  PROVE  Outgoing(g, r)
<1>1. h.out \in Seq(Segment) /\ Len(h.out) \in Nat
  BY HostParts
<1>2. /\ Len(g.out) = Len(h.out) + 1 /\ g.out[Len(h.out) + 1] = m
      /\ \A i \in 1..Len(h.out) : g.out[i] = h.out[i]
  BY <1>1
<1>3. ASSUME NEW i \in 1..Len(g.out) PROVE Safe(g.tcp, g.sock, r, g.out[i])
  <2>1. i \in 1..Len(h.out) \/ i = Len(h.out) + 1
    BY <1>1, <1>2
  <2> QED BY <1>2, <2>1 DEF Outgoing
<1> QED BY <1>3 DEF Outgoing

(* tcp_transmit. *)
LEMMA TransmitIs ==
  ASSUME NEW h \in Hosts, NEW seq \in Sequence, NEW flags \in SUBSET Flags,
         NEW data \in Seq(Nat)
  PROVE  LET g == Transmit(h, seq, flags, data)
         IN /\ h.ip # "sent" => g.out = h.out
            /\ g.out = h.out \/ \E m : /\ g.out = Append(h.out, m)
                                       /\ m.seq = seq /\ m.flags = flags /\ m.data = data
                                       /\ m.ack = IF "ACK" \in flags THEN h.tcp.rcv ELSE 0
<1> DEFINE m == [seq |-> seq, ack |-> IF "ACK" \in flags THEN h.tcp.rcv ELSE 0,
                 flags |-> flags, win |-> h.tcp.localWindow, data |-> data]
           o == Append(h.out, m)
<1>1. CASE h.ip # "sent"
  BY <1>1 DEF Transmit
<1>2. CASE h.ip = "sent"
  <2>1. Transmit(h, seq, flags, data) = [h EXCEPT !.out = o]
    BY <1>2 DEF Transmit, Hosts
  <2>2. /\ m.seq = seq /\ m.flags = flags /\ m.data = data
        /\ m.ack = IF "ACK" \in flags THEN h.tcp.rcv ELSE 0
    OBVIOUS
  <2> HIDE DEF m
  <2>3. [h EXCEPT !.out = o].out = Append(h.out, m)
    BY DEF Hosts
  <2> QED BY <1>2, <2>1, <2>2, <2>3
<1> QED BY <1>1, <1>2

(* A connection that cannot hear transmits nothing that opens the peer. *)
LEMMA TransmitExact ==
  ASSUME NEW h \in Hosts, NEW r, Exact(h, r), NEW seq \in Sequence, NEW flags \in SUBSET Flags,
         NEW data \in Seq(Nat), ~(h.sock.active /\ h.sock.state = "OPEN"),
         data # <<>> \/ "FIN" \in flags => Slice(seq, flags, data),
         "FIN" \in flags => Sealed(h.sock),
         h.tcp.state = "SYN_SENT" => "SYN" \in flags
  PROVE  Exact(Transmit(h, seq, flags, data), r)
<1> DEFINE g == Transmit(h, seq, flags, data)
<1>1. g.tcp = h.tcp /\ g.sock = h.sock /\ g.log = h.log
  BY TransmitHost
<1>2. g.out = h.out \/ \E m : /\ g.out = Append(h.out, m)
                              /\ m.seq = seq /\ m.flags = flags /\ m.data = data
                              /\ m.ack = IF "ACK" \in flags THEN h.tcp.rcv ELSE 0
  BY TransmitIs
<1> HIDE DEF g
<1>3. SameConn(g.tcp, h.tcp) /\ SameEntry(g.sock, h.sock)
  BY <1>1 DEF SameConn, SameEntry
<1>4. CASE g.out = h.out
  <2>1. Exact(g, r)
    BY <1>1, <1>3, <1>4, ExactFollows
  <2> QED BY <2>1 DEF g
<1>5. CASE g.out # h.out
  <2>1. PICK m : /\ g.out = Append(h.out, m)
                 /\ m.seq = seq /\ m.flags = flags /\ m.data = data
                 /\ m.ack = IF "ACK" \in flags THEN h.tcp.rcv ELSE 0
    BY <1>2, <1>5
  <2>2. Carried(m)
    BY <2>1 DEF Carried
  <2>3. Deaf(h.tcp, h.sock, r) => Mute(m)
    <3>1. h.tcp.state = "SYN_SENT" => Mute(m)
      BY <2>1 DEF Mute
    <3>2. Deaf(h.tcp, h.sock, r) /\ h.tcp.state # "SYN_SENT" =>
            h.tcp.rcv = 0 /\ Awaited(h.sock, r) = 0 /\ h.tcp.rcv # PeerSeq(Awaited(h.sock, r))
      BY DEF Exact, Hears, Deaf
    <3>3. Deaf(h.tcp, h.sock, r) /\ h.tcp.state # "SYN_SENT" => Mute(m)
      BY <2>1, <3>2 DEF Mute
    <3> QED BY <3>1, <3>3
  <2>4. Safe(h.tcp, h.sock, r, m)
    BY <2>1, <2>2, <2>3 DEF Safe
  <2>5. Outgoing(g, r)
    BY <1>1, <2>1, <2>4, OutgoingMore DEF Exact
  <2>6. Reports(g)
    BY <1>1 DEF Exact, Reports
  <2>7. Exact(g, r)
    BY <1>1, <2>5, <2>6 DEF Exact
  <2> QED BY <2>7 DEF g
<1> QED BY <1>4, <1>5

(* tcp_send_ack. *)
LEMMA SendAckExact ==
  ASSUME NEW h \in Hosts, NEW r, Exact(h, r), h.tcp.state \notin {"CLOSED", "SYN_SENT"}
  PROVE  Exact(SendAck(h), r)
<1>1. h.tcp.nxt \in Sequence /\ {"ACK"} \in SUBSET Flags /\ <<>> \in Seq(Nat)
  BY HostParts, ConnectionParts DEF Flags
<1>2. ~(h.sock.active /\ h.sock.state = "OPEN")
  BY DEF Exact, Hears, Early
<1>3. "FIN" \notin {"ACK"}
  OBVIOUS
<1> QED BY <1>1, <1>2, <1>3, TransmitExact DEF SendAck

(* The callback of the socket. *)
LEMMA EventIs ==
  ASSUME NEW s \in Socket
  PROVE  /\ SameEntry(WakeOne(s), s) /\ SameEntry(WakeAll(s), s)
         /\ SameEntry(SocketEvent(s, "WRITABLE"), s)
         /\ SameEntry(SocketEvent(s, "CONNECTED"), [s EXCEPT !.state = "CONNECTED"])
         /\ SameEntry(SocketEvent(s, "EOF"),
                      [s EXCEPT !.eof = TRUE,
                                !.state = IF s.state = "CLOSING" THEN s.state ELSE "EOF"])
         /\ SameEntry(SocketEvent(s, "ERROR"), [s EXCEPT !.state = "ERROR"])
         /\ SameEntry(SetError(s), [s EXCEPT !.state = "ERROR"])
         /\ SocketEvent(s, "CLOSED") = Release(s)
         /\ ~Release(s).active /\ ~Release(s).eof /\ ~Release(s).closeRequested
         /\ Release(s).tx = <<>> /\ Release(s).rx = <<>>
<1>1. SameEntry(WakeOne(s), s) /\ SameEntry(WakeAll(s), s)
  BY DEF SameEntry, WakeOne, WakeAll, Socket
<1>2. SameEntry(SocketEvent(s, "WRITABLE"), s)
  BY <1>1 DEF SocketEvent
<1>3. SameEntry(SocketEvent(s, "CONNECTED"), [s EXCEPT !.state = "CONNECTED"])
  BY DEF SocketEvent, SameEntry, WakeAll, Socket
<1>4. SameEntry(SocketEvent(s, "EOF"),
                [s EXCEPT !.eof = TRUE,
                          !.state = IF s.state = "CLOSING" THEN s.state ELSE "EOF"])
  BY DEF SocketEvent, SameEntry, WakeAll, Socket
<1>5. SameEntry(SetError(s), [s EXCEPT !.state = "ERROR"])
  BY DEF SetError, SameEntry, WakeAll, Socket
<1>6. SocketEvent(s, "ERROR") = SetError(s)
  BY DEF SocketEvent
<1>7. SocketEvent(s, "CLOSED") = Release(s)
  BY DEF SocketEvent
<1>8. /\ ~Release(s).active /\ ~Release(s).eof /\ ~Release(s).closeRequested
      /\ Release(s).tx = <<>> /\ Release(s).rx = <<>>
  BY DEF Release, NewSocket
<1> QED BY <1>1, <1>2, <1>3, <1>4, <1>5, <1>6, <1>7, <1>8

(* What reporting an event to the socket changes.                          *)
LEMMA EmitIs ==
  ASSUME NEW h \in Hosts, NEW event
  PROVE  LET g == Emit(h, event)
         IN /\ g.sock = SocketEvent(h.sock, event) /\ g.log = h.log \cup {event}
            /\ g.tcp = h.tcp /\ g.out = h.out /\ g.ok = h.ok /\ g.ip = h.ip
BY DEF Emit, Hosts

(* Reporting room to write keeps Exact.                                    *)
LEMMA WritableExact ==
  ASSUME NEW h \in Hosts, NEW r, Exact(h, r)
  PROVE  Exact(Emit(h, "WRITABLE"), r)
<1> DEFINE g == Emit(h, "WRITABLE")
<1>1. /\ g.sock = SocketEvent(h.sock, "WRITABLE") /\ g.log = h.log \cup {"WRITABLE"}
      /\ g.tcp = h.tcp /\ g.out = h.out
  BY EmitIs
<1>2. SameEntry(g.sock, h.sock)
  BY <1>1, HostParts, EventIs
<1>3. SameConn(g.tcp, h.tcp)
  BY <1>1 DEF SameConn
<1> HIDE DEF g
<1>4. Exact(g, r)
  BY <1>1, <1>2, <1>3, ExactFollows
<1> QED BY <1>4 DEF g

(* All of Exact but the numbers, which do not matter in a failed connection. *)
Nearly(h, r) ==
  /\ Received(h.sock, r) /\ Hears(h.tcp, h.sock, r) /\ Queued(h.tcp, h.sock)
  /\ Outgoing(h, r) /\ Reports(h)

(* A socket that fails. *)
LEMMA ErrorEntry ==
  ASSUME NEW s \in Socket, NEW q, SameEntry(q, [s EXCEPT !.state = "ERROR"]), NEW c, NEW d,
         d.closeRequested = c.closeRequested, NEW r
  PROVE  /\ Sealed(q) /\ ~Early(q) /\ Awaited(q, r) = Awaited(s, r) /\ q.state = "ERROR"
         /\ Received(s, r) => Received(q, r)
         /\ Queued(c, s) => Queued(d, q)
<1>1. /\ q.active = s.active /\ q.state = "ERROR" /\ q.eof = s.eof /\ q.tx = s.tx
      /\ q.closeRequested = s.closeRequested /\ q.rx = s.rx
  BY DEF SameEntry, Socket
<1>2. Sealed(q) /\ ~Early(q) /\ Awaited(q, r) = Awaited(s, r)
  BY <1>1 DEF Sealed, Early, Awaited
<1> QED BY <1>1, <1>2 DEF Received, Queued

(* tcp_fail. *)
LEMMA FailExact ==
  ASSUME NEW h \in Hosts, NEW r, Nearly(h, r)
  PROVE  Exact(Fail(h), r) /\ Fail(h).tcp.state \in {"CLOSED", "FAILED"}
<1>1. CASE h.tcp.state \in {"CLOSED", "FAILED"}
  <2>1. Fail(h) = h
    BY <1>1 DEF Fail, Active, In
  <2>2. Numbered(h.tcp, h.sock)
    BY <1>1 DEF Numbered, FinStates
  <2> QED BY <1>1, <2>1, <2>2 DEF Exact, Nearly
<1>2. CASE h.tcp.state \notin {"CLOSED", "FAILED"}
  <2> DEFINE p == [NoPending EXCEPT !.sent = h.tcp.pending.sent]
             f == [h EXCEPT !.tcp.state = "FAILED", !.tcp.pending = p]
             g == Emit(f, "ERROR")
  <2>1. h.tcp \in Connection /\ h.tcp.pending \in Pending /\ h.tcp.pending.sent \in BOOLEAN
        /\ h.sock \in Socket
    BY HostParts, ConnectionParts, PendingParts
  <2>2. p \in Pending
    BY <2>1, EmptySegment DEF Pending
  <2>3. Fail(h) = g
    BY <1>2 DEF Fail, Active, In
  <2> HIDE DEF p
  <2>4. /\ f \in Hosts /\ f.sock = h.sock /\ f.tcp.state = "FAILED" /\ f.tcp.rcv = h.tcp.rcv
        /\ f.tcp.closeRequested = h.tcp.closeRequested /\ f.out = h.out /\ f.log = h.log
    BY <2>1, <2>2 DEF Hosts, Connection, TcpStates
  <2> HIDE DEF f
  <2>5. /\ g.sock = SocketEvent(h.sock, "ERROR") /\ g.log = h.log \cup {"ERROR"}
        /\ g.tcp = f.tcp /\ g.out = h.out
    BY <2>4, EmitIs
  <2> HIDE DEF g
  <2>6. SameEntry(g.sock, [h.sock EXCEPT !.state = "ERROR"])
    BY <2>1, <2>5, EventIs
  <2>7. /\ Sealed(g.sock) /\ ~Early(g.sock) /\ Awaited(g.sock, r) = Awaited(h.sock, r)
        /\ Received(g.sock, r) /\ Queued(g.tcp, g.sock) /\ g.sock.state = "ERROR"
    BY <2>1, <2>4, <2>5, <2>6, ErrorEntry DEF Nearly
  <2>8. Deaf(g.tcp, g.sock, r) => Deaf(h.tcp, h.sock, r)
    BY <1>2, <2>4, <2>5, <2>7 DEF Deaf
  <2>9. Hears(g.tcp, g.sock, r)
    BY <2>4, <2>5, <2>7, <2>8 DEF Hears, Nearly
  <2>10. Numbered(g.tcp, g.sock)
    BY <2>4, <2>5 DEF Numbered, FinStates
  <2>11. Outgoing(g, r)
    BY <2>5, <2>7, <2>8 DEF Outgoing, Nearly, Safe
  <2>12. Reports(g)
    BY <2>5 DEF Reports
  <2> QED BY <2>3, <2>4, <2>5, <2>7, <2>9, <2>10, <2>11, <2>12 DEF Exact
<1> QED BY <1>1, <1>2

(* A socket that was released. *)
LEMMA ReleasedExact ==
  ASSUME NEW h \in Hosts, NEW r, Received(h.sock, r), Queued(h.tcp, h.sock), NEW g,
         g.tcp.state = "CLOSED", g.sock = Release(h.sock),
         \A i \in 1..Len(g.out) : Carried(g.out[i]), Reports(g)
  PROVE  Exact(g, r)
<1>1. /\ h.sock \in Socket /\ Len(h.sock.rx) \in Nat /\ Len(r) \in Nat /\ written \in Nat
      /\ PeerBytes \in Nat /\ r \in Seq(Nat)
  BY HostParts, StreamSpace DEF Received, Queued, Socket
<1>2. /\ ~g.sock.active /\ ~g.sock.eof /\ ~g.sock.closeRequested /\ g.sock.tx = <<>>
      /\ g.sock.rx = <<>>
  BY <1>1, EventIs
<1>3. Sealed(g.sock) /\ ~Early(g.sock) /\ ~Deaf(g.tcp, g.sock, r)
  BY <1>2 DEF Sealed, Early, Deaf
<1>4. Len(g.sock.rx) = 0 /\ Len(g.sock.tx) = 0
  BY <1>2
<1>5. Received(g.sock, r)
  <2>1. Len(r) + 0 <= PeerBytes
    BY <1>1 DEF Received
  <2> QED BY <1>1, <1>2, <1>3, <1>4, <2>1, CountsEmpty DEF Received
<1>6. Queued(g.tcp, g.sock)
  BY <1>1, <1>2, <1>3, <1>4, CountsEmpty DEF Queued
<1>7. Hears(g.tcp, g.sock, r) /\ Numbered(g.tcp, g.sock)
  BY <1>3 DEF Hears, Numbered, FinStates
<1>8. Outgoing(g, r)
  BY <1>2, <1>3 DEF Outgoing, Safe
<1> QED BY <1>5, <1>6, <1>7, <1>8 DEF Exact

(* tcp_clear_connection of a connection that is through or has failed. *)
LEMMA ClearConnectionExact ==
  ASSUME NEW h \in Hosts, NEW r, Received(h.sock, r), Queued(h.tcp, h.sock), Outgoing(h, r),
         peer.fin \/ "ERROR" \in faults \cup h.log
  PROVE  Exact(ClearConnection(h), r)
<1> DEFINE f == [h EXCEPT !.tcp = NoConnection]
           g == Emit(f, "CLOSED")
<1>1. /\ f \in Hosts /\ f.tcp = NoConnection /\ f.sock = h.sock /\ f.out = h.out
      /\ f.log = h.log
  BY WithTcp, EmptySegment
<1>2. ClearConnection(h) = g
  BY DEF ClearConnection
<1> HIDE DEF f
<1>3. /\ g.sock = SocketEvent(h.sock, "CLOSED") /\ g.log = h.log \cup {"CLOSED"}
      /\ g.tcp = NoConnection /\ g.out = h.out
  BY <1>1, EmitIs
<1> HIDE DEF g
<1>4. g.sock = Release(h.sock) /\ g.tcp.state = "CLOSED"
  BY <1>3, HostParts, EventIs, EmptySegment
<1>5. \A i \in 1..Len(g.out) : Carried(g.out[i])
  BY <1>3 DEF Outgoing, Safe
<1>6. Reports(g)
  BY <1>3, <1>4 DEF Reports
<1>7. Exact(g, r)
  BY <1>4, <1>5, <1>6, ReleasedExact
<1> QED BY <1>2, <1>7

(* A FIN behind everything written. *)
LEMMA FinSlice ==
  ASSUME written \in Nat
  PROVE  Slice(Plus(Isn, 1 + written), {"FIN", "ACK"}, <<>>)
<1>1. written \in 0..written /\ Len(<<>>) = 0 /\ written + 0 <= written
  OBVIOUS
<1> QED BY <1>1, CountsEmpty DEF Slice

(* tcp_try_send_pending. *)
LEMMA TrySendIs ==
  ASSUME NEW h \in Hosts
  PROVE  LET g == TrySendPending(h)
         IN g \in Hosts /\ SameConn(g.tcp, h.tcp) /\ g.sock = h.sock /\ g.log = h.log
            /\ \/ g.out = h.out
               \/ /\ h.tcp.pending.active
                  /\ g.out = Transmit(h, h.tcp.pending.seq, h.tcp.pending.flags,
                                      h.tcp.pending.data).out
<1>1. h.tcp \in Connection /\ h.tcp.pending \in Pending
  BY HostParts, ConnectionParts
<1>2. CASE ~h.tcp.pending.active \/ h.tcp.pending.sent
  <2>1. TrySendPending(h) = h
    BY <1>2 DEF TrySendPending
  <2> QED BY <2>1 DEF SameConn
<1>3. CASE h.tcp.pending.active /\ ~h.tcp.pending.sent
  <2> DEFINE p == h.tcp.pending
             f == Transmit(h, p.seq, p.flags, p.data)
             b == (h.ip = "sent")
             e == (h.ip # "error")
             g == [f EXCEPT !.tcp.pending.sent = b, !.ok = e]
  <2>1. f \in Hosts /\ f.tcp = h.tcp /\ f.sock = h.sock /\ f.log = h.log
    BY <1>1, TransmitHost, PendingParts
  <2>2. TrySendPending(h) = g
    BY <1>3 DEF TrySendPending
  <2>3. b \in BOOLEAN /\ e \in BOOLEAN
    OBVIOUS
  <2> HIDE DEF f, b, e
  <2>4. /\ g \in Hosts /\ g.sock = h.sock /\ g.log = h.log /\ g.out = f.out
        /\ g.tcp.state = h.tcp.state /\ g.tcp.nxt = h.tcp.nxt /\ g.tcp.rcv = h.tcp.rcv
        /\ g.tcp.closeRequested = h.tcp.closeRequested
        /\ g.tcp.pending.active = h.tcp.pending.active
        /\ g.tcp.pending.seq = h.tcp.pending.seq
        /\ g.tcp.pending.flags = h.tcp.pending.flags
        /\ g.tcp.pending.data = h.tcp.pending.data
    BY <1>1, <2>1, <2>3 DEF Hosts, Connection, Pending
  <2> HIDE DEF g
  <2>5. SameConn(g.tcp, h.tcp)
    BY <2>4 DEF SameConn
  <2> QED BY <1>3, <2>2, <2>4, <2>5 DEF f
<1> QED BY <1>2, <1>3

(* The pending segment may be transmitted as often as the code likes. *)
LEMMA TrySendExact ==
  ASSUME NEW h \in Hosts, NEW r, Exact(h, r),
         h.tcp.pending.active => h.tcp.state \notin {"CLOSED", "FAILED"}
  PROVE  TrySendPending(h) \in Hosts /\ Exact(TrySendPending(h), r)
<1> DEFINE p == h.tcp.pending
           f == Transmit(h, p.seq, p.flags, p.data)
           g == TrySendPending(h)
<1>1. /\ g \in Hosts /\ SameConn(g.tcp, h.tcp) /\ g.sock = h.sock /\ g.log = h.log
      /\ (g.out = h.out \/ (p.active /\ g.out = f.out))
  BY TrySendIs
<1>2. /\ h.tcp.state \in TcpStates /\ p.seq \in Sequence /\ p.flags \in SUBSET Flags
      /\ p.data \in Seq(Nat) /\ written \in Nat
  BY HostParts, ConnectionParts, PendingParts, StreamSpace DEF Exact, Queued
<1> HIDE DEF g
<1>3. SameEntry(g.sock, h.sock)
  BY <1>1 DEF SameEntry
<1>4. CASE g.out = h.out
  <2>1. Exact(g, r)
    BY <1>1, <1>3, <1>4, ExactFollows
  <2> QED BY <1>1, <2>1 DEF g
<1>5. CASE p.active /\ g.out = f.out
  <2>1. ~(h.sock.active /\ h.sock.state = "OPEN")
    BY <1>5 DEF Exact, Hears, Early
  <2>2. /\ p.data # <<>> \/ "FIN" \in p.flags => Slice(p.seq, p.flags, p.data)
        /\ "FIN" \in p.flags => Sealed(h.sock)
        /\ h.tcp.state = "SYN_SENT" => "SYN" \in p.flags
    <3>1. CASE h.tcp.state = "SYN_SENT"
      BY <1>5, <3>1 DEF Exact, Numbered
    <3>2. CASE h.tcp.state \in {"ESTABLISHED", "CLOSE_WAIT"}
      BY <1>5, <3>2 DEF Exact, Numbered
    <3>3. CASE h.tcp.state \in {"FIN_WAIT_1", "CLOSING", "LAST_ACK"}
      <4>1. /\ p.flags = {"FIN", "ACK"} /\ p.data = <<>> /\ p.seq = Plus(Isn, 1 + written)
            /\ h.tcp.closeRequested
        BY <3>3 DEF Exact, Numbered, FinStates
      <4>2. Sealed(h.sock)
        BY <4>1 DEF Exact, Queued
      <4> QED BY <1>2, <3>3, <4>1, <4>2, FinSlice
    <3>4. CASE h.tcp.state \in {"FIN_WAIT_2", "TIME_WAIT"}
      BY <1>5, <3>4 DEF Exact, Numbered
    <3> QED BY <1>2, <1>5, <3>1, <3>2, <3>3, <3>4 DEF TcpStates
  <2> HIDE DEF p
  <2>3. Exact(f, r) /\ f.tcp = h.tcp /\ f.sock = h.sock /\ f.log = h.log
    BY <1>2, <2>1, <2>2, TransmitExact, TransmitHost
  <2> HIDE DEF f
  <2>4. Exact(g, r)
    BY <1>1, <1>3, <1>5, <2>3, ExactFollows
  <2> QED BY <1>1, <2>4 DEF g
<1> QED BY <1>1, <1>4, <1>5

(* tcp_queue_tracked. *)
LEMMA QueueTrackedIs ==
  ASSUME NEW h \in Hosts, NEW flags \in SUBSET Flags, NEW data \in Seq(Nat)
  PROVE  \E f \in Hosts :
           /\ QueueTracked(h, flags, data) = TrySendPending(f)
           /\ f.sock = h.sock /\ f.out = h.out /\ f.log = h.log
           /\ f.tcp.state = h.tcp.state /\ f.tcp.closeRequested = h.tcp.closeRequested
           /\ f.tcp.rcv = h.tcp.rcv /\ f.tcp.nxt = Plus(h.tcp.nxt, Consumed(flags, data))
           /\ f.tcp.pending.active /\ f.tcp.pending.seq = h.tcp.nxt
           /\ f.tcp.pending.flags = flags /\ f.tcp.pending.data = data
<1> DEFINE p == [active |-> TRUE, sent |-> FALSE, tries |-> 0,
                 seq |-> h.tcp.nxt, flags |-> flags, data |-> data]
           x == Plus(h.tcp.nxt, Consumed(flags, data))
           f == [h EXCEPT !.tcp.pending = p, !.tcp.nxt = x]
<1>1. h.tcp \in Connection /\ h.tcp.nxt \in Sequence /\ Consumed(flags, data) \in Nat
  BY HostParts, ConnectionParts, ConsumedIs
<1>2. x \in Sequence
  BY <1>1, PlusType
<1>3. p \in Pending /\ p.active /\ p.seq = h.tcp.nxt /\ p.flags = flags /\ p.data = data
  <2>1. 0 \in 0..MaxRetransmissions
    BY TcpAssumption
  <2> QED BY <1>1, <2>1 DEF Pending
<1>4. QueueTracked(h, flags, data) = TrySendPending(f)
  BY <1>1 DEF QueueTracked, Hosts, Connection
<1> HIDE DEF p, x
<1>5. /\ f \in Hosts /\ f.sock = h.sock /\ f.out = h.out /\ f.log = h.log
      /\ f.tcp.state = h.tcp.state /\ f.tcp.closeRequested = h.tcp.closeRequested
      /\ f.tcp.rcv = h.tcp.rcv /\ f.tcp.nxt = x /\ f.tcp.pending = p
  BY <1>1, <1>2, <1>3 DEF Hosts, Connection
<1> HIDE DEF f
<1> QED BY <1>3, <1>4, <1>5 DEF x

(* The numbers of the stream of the application. *)
LEMMA SentNumbers ==
  ASSUME written \in 0..AppBytes
  PROVE  /\ \A a \in 0..(written + 2) : Plus(Isn, a) \in Sequence
         /\ \A a, b \in 0..(written + 2) : Plus(Isn, a) = Plus(Isn, b) => a = b
         /\ \A a, b \in 0..(written + 2) :
              a + b <= written + 2 => Plus(Plus(Isn, a), b) = Plus(Isn, a + b)
<1>1. \A a \in 0..(written + 2) : a \in Nat /\ a < SeqSpace
  BY StreamSpace
<1>2. \A a, b \in 0..(written + 2) : a + b <= written + 2 => a + b < SeqSpace
  BY StreamSpace
<1> QED BY <1>1, <1>2, StreamSpace, PlusIs, PlusApart, PlusPlus

(* tcp_begin_close. *)
LEMMA BeginCloseExact ==
  ASSUME NEW h, Good(h), NEW r, Exact(h, r), h.tcp.closeRequested
  PROVE  /\ Exact(BeginClose(h), r)
         /\ h.tcp.state # "SYN_SENT" => BeginClose(h).tcp.state # "SYN_SENT"
<1>1. CASE h.tcp.pending.active \/ h.tcp.state \notin {"ESTABLISHED", "CLOSE_WAIT"}
  BY <1>1 DEF BeginClose, In
<1>2. CASE ~h.tcp.pending.active /\ h.tcp.state \in {"ESTABLISHED", "CLOSE_WAIT"}
  <2> DEFINE y == IF h.tcp.state = "ESTABLISHED" THEN "FIN_WAIT_1" ELSE "LAST_ACK"
             e == [h EXCEPT !.tcp.state = y]
             g == QueueTracked(e, {"FIN", "ACK"}, <<>>)
  <2>1. h \in Hosts /\ h.tcp \in Connection
    BY HostParts DEF Good, Sound
  <2>2. y \in {"FIN_WAIT_1", "LAST_ACK"}
    OBVIOUS
  <2>3. BeginClose(h) = IF g.ok THEN g ELSE Fail(g)
    BY <1>2, <2>1 DEF BeginClose, In, Hosts, Connection
  <2> HIDE DEF y
  <2>4. /\ e \in Hosts /\ e.sock = h.sock /\ e.tcp.state = y /\ e.out = h.out /\ e.log = h.log
        /\ e.tcp.nxt = h.tcp.nxt /\ e.tcp.rcv = h.tcp.rcv
        /\ e.tcp.closeRequested = h.tcp.closeRequested
    BY <2>1, <2>2 DEF Hosts, Connection, TcpStates
  <2> HIDE DEF e
  <2>5. {"FIN", "ACK"} \in SUBSET Flags /\ <<>> \in Seq(Nat) /\ Consumed({"FIN", "ACK"}, <<>>) = 1
    BY DEF Flags, Consumed
  <2>6. PICK f \in Hosts :
           /\ g = TrySendPending(f)
           /\ f.sock = e.sock /\ f.out = e.out /\ f.log = e.log
           /\ f.tcp.state = e.tcp.state /\ f.tcp.closeRequested = e.tcp.closeRequested
           /\ f.tcp.rcv = e.tcp.rcv
           /\ f.tcp.nxt = Plus(e.tcp.nxt, Consumed({"FIN", "ACK"}, <<>>))
           /\ f.tcp.pending.active /\ f.tcp.pending.seq = e.tcp.nxt
           /\ f.tcp.pending.flags = {"FIN", "ACK"} /\ f.tcp.pending.data = <<>>
    BY <2>4, <2>5, QueueTrackedIs, ZenonT(60)
  <2> HIDE DEF g
  <2>7. h.sock.tx = <<>> /\ Sealed(h.sock) /\ written \in 0..AppBytes
    BY DEF Exact, Queued
  <2>8. h.tcp.nxt = Plus(Isn, 1 + written) /\ f.tcp.nxt = Plus(Isn, 2 + written)
    <3>1. 1 + (written - Len(h.sock.tx)) = 1 + written /\ written \in Nat
      BY <2>7, StreamSpace
    <3>2. h.tcp.nxt = Plus(Isn, 1 + (written - Len(h.sock.tx)))
      BY <1>2 DEF Exact, Numbered
    <3>3. /\ 1 + written \in 0..(written + 2) /\ 1 \in 0..(written + 2)
          /\ (1 + written) + 1 <= written + 2 /\ (1 + written) + 1 = 2 + written
      BY <3>1
    <3>4. Plus(Plus(Isn, 1 + written), 1) = Plus(Isn, 2 + written)
      BY <2>7, <3>3, SentNumbers
    <3> QED BY <2>4, <2>5, <2>6, <3>1, <3>2, <3>4
  <2>9. ~Deaf(h.tcp, h.sock, r) /\ ~Early(h.sock)
    BY <1>2 DEF Exact, Hears
  <2>10. ~Deaf(f.tcp, f.sock, r)
    BY <1>2, <2>2, <2>4, <2>6, <2>9 DEF Deaf
  <2>11. Received(f.sock, r) /\ Queued(f.tcp, f.sock)
    BY <2>4, <2>6 DEF Exact, Queued
  <2>12. Hears(f.tcp, f.sock, r)
    BY <2>2, <2>4, <2>6, <2>9, <2>10 DEF Hears
  <2>13. Numbered(f.tcp, f.sock)
    BY <2>2, <2>4, <2>6, <2>8 DEF Numbered, FinStates
  <2>14. Outgoing(f, r)
    BY <2>4, <2>6, <2>10 DEF Exact, Outgoing, Safe
  <2>15. Reports(f)
    BY <2>2, <2>4, <2>6 DEF Exact, Reports
  <2>16. g \in Hosts /\ Exact(g, r)
    <3>1. Exact(f, r)
      BY <2>11, <2>12, <2>13, <2>14, <2>15 DEF Exact
    <3> QED BY <2>2, <2>4, <2>6, <3>1, TrySendExact
  <2>17. Exact(Fail(g), r) /\ Fail(g).tcp.state \in {"CLOSED", "FAILED"}
    BY <2>16, FailExact DEF Exact, Nearly
  <2>18. g.tcp.state # "SYN_SENT"
    BY <2>2, <2>4, <2>6, TrySendIs DEF SameConn
  <2> QED BY <2>3, <2>16, <2>17, <2>18
<1> QED BY <1>1, <1>2
-----------------------------------------------------------------------------
(* Input. *)

(* A segment without data and without FIN carries nothing. *)
LEMMA EmptyOut ==
  ASSUME NEW o \in Seq(Segment), NEW m, m.data = <<>>, "FIN" \notin m.flags,
         NEW P, \A i \in 1..Len(o) : Carried(o[i]) /\ ("FIN" \in o[i].flags => P)
  PROVE  \A i \in 1..Len(Append(o, m)) :
           Carried(Append(o, m)[i]) /\ ("FIN" \in Append(o, m)[i].flags => P)
<1> DEFINE a == Append(o, m)
<1>1. Carried(m)
  BY DEF Carried
<1>2. /\ Len(o) \in Nat /\ Len(a) = Len(o) + 1 /\ a[Len(o) + 1] = m
      /\ \A i \in 1..Len(o) : a[i] = o[i]
  OBVIOUS
<1> HIDE DEF a
<1>3. \A i \in 1..Len(a) : i \in 1..Len(o) \/ i = Len(o) + 1
  BY <1>2
<1>4. \A i \in 1..Len(a) : Carried(a[i]) /\ ("FIN" \in a[i].flags => P)
  BY <1>1, <1>2, <1>3
<1> QED BY <1>4 DEF a

(* A segment without bytes and FIN changes nothing of what the segments    *)
(* sent carry.                                                             *)
LEMMA BareOut ==
  ASSUME NEW f \in Hosts, NEW seq \in Sequence, NEW flags \in SUBSET Flags,
         NEW data \in Seq(Nat), data = <<>>, "FIN" \notin flags, NEW P,
         \A i \in 1..Len(f.out) : Carried(f.out[i]) /\ ("FIN" \in f.out[i].flags => P)
  PROVE  LET a == Transmit(f, seq, flags, data)
         IN \A i \in 1..Len(a.out) : Carried(a.out[i]) /\ ("FIN" \in a.out[i].flags => P)
<1> DEFINE a == Transmit(f, seq, flags, data)
<1>1. f.out \in Seq(Segment)
  BY HostParts
<1>2. a.out = f.out \/ \E n : a.out = Append(f.out, n) /\ n.flags = flags /\ n.data = data
  <2>1. a.out = f.out \/ \E n : /\ a.out = Append(f.out, n)
                                /\ n.seq = seq /\ n.flags = flags /\ n.data = data
                                /\ n.ack = IF "ACK" \in flags THEN f.tcp.rcv ELSE 0
    BY TransmitIs
  <2> HIDE DEF a
  <2> QED BY <2>1
<1> HIDE DEF a
<1>3. CASE a.out = f.out
  BY <1>3 DEF a
<1>4. ASSUME NEW n, a.out = Append(f.out, n), n.flags = flags, n.data = data
      PROVE  \A i \in 1..Len(a.out) : Carried(a.out[i]) /\ ("FIN" \in a.out[i].flags => P)
  BY <1>1, <1>4, EmptyOut
<1> QED BY <1>2, <1>3, <1>4 DEF a

(* Neither does an acknowledgment.                                         *)
LEMMA AckOut ==
  ASSUME NEW f \in Hosts, NEW P,
         \A i \in 1..Len(f.out) : Carried(f.out[i]) /\ ("FIN" \in f.out[i].flags => P)
  PROVE  \A i \in 1..Len(SendAck(f).out) :
           Carried(SendAck(f).out[i]) /\ ("FIN" \in SendAck(f).out[i].flags => P)
<1> DEFINE F == {"ACK"}
           D == <<>>
<1>1. f.tcp.nxt \in Sequence /\ F \in SUBSET Flags /\ D \in Seq(Nat) /\ "FIN" \notin F /\ D = <<>>
  BY HostParts, ConnectionParts DEF Flags
<1>2. SendAck(f) = Transmit(f, f.tcp.nxt, F, D)
  BY DEF SendAck
<1> HIDE DEF F, D
<1> QED BY <1>1, <1>2, BareOut

(* tcp_process_syn_sent: the peer's numbers are learnt from its SYN. *)
LEMMA ProcessSynSentExact ==
  ASSUME NEW h, Good(h), NEW r, Exact(h, r), h.tcp.state = "SYN_SENT", NEW m \in Segment,
         From(m)
  PROVE  Exact(ProcessSynSent(h, m), r)
<1>1. h \in Hosts /\ h.tcp \in Connection /\ h.sock \in Socket /\ Exact(Fail(h), r)
  BY HostParts, FailExact DEF Good, Sound, Exact, Nearly
<1>2. CASE "RST" \in m.flags \/ ~({"SYN", "ACK"} \subseteq m.flags) \/ m.ack # h.tcp.nxt
           \/ m.data # <<>>
  BY <1>1, <1>2 DEF ProcessSynSent
<1>3. CASE ~("RST" \in m.flags \/ ~({"SYN", "ACK"} \subseteq m.flags) \/ m.ack # h.tcp.nxt
             \/ m.data # <<>>)
  <2> DEFINE x == Plus(m.seq, 1)
             c == [h.tcp EXCEPT !.pending = NoPending, !.una = m.ack, !.rcv = x,
                                !.remoteWindow = m.win, !.state = "ESTABLISHED"]
             f == [h EXCEPT !.tcp = c]
             a == SendAck(f)
             g == Emit(a, "CONNECTED")
  <2>1. x \in Sequence /\ m.ack \in Sequence /\ m.win \in Nat /\ x = PeerSeq(0)
    <3>1. m.seq = PeerIsn
      BY <1>3 DEF From
    <3> QED BY <3>1, SegmentParts, PlusType, PeerSeqIs
  <2>2. [ClearPending(h) EXCEPT !.tcp.una = m.ack, !.tcp.rcv = x, !.tcp.remoteWindow = m.win,
                                !.tcp.state = "ESTABLISHED"] = f
    BY <1>1 DEF ClearPending, Hosts, Connection
  <2>3. ProcessSynSent(h, m) = Emit(g, "WRITABLE")
    BY <1>3, <2>2 DEF ProcessSynSent
  <2> HIDE DEF x
  <2>4. /\ c \in Connection /\ c.state = "ESTABLISHED" /\ c.pending = NoPending
        /\ c.rcv = x /\ c.nxt = h.tcp.nxt /\ c.closeRequested = h.tcp.closeRequested
    BY <1>1, <2>1, EmptySegment DEF Connection, TcpStates
  <2> HIDE DEF c
  <2>5. f \in Hosts /\ f.tcp = c /\ f.sock = h.sock /\ f.out = h.out /\ f.log = h.log
    BY <1>1, <2>4, WithTcp
  <2> HIDE DEF f
  <2>6. a \in Hosts /\ a.tcp = c /\ a.sock = h.sock /\ a.log = h.log
    BY <2>5, SendAckHost
  <2>7. \A i \in 1..Len(a.out) : Carried(a.out[i]) /\ ("FIN" \in a.out[i].flags => Sealed(h.sock))
    BY <2>5, AckOut DEF Exact, Outgoing, Safe
  <2> HIDE DEF a
  <2>8. /\ g.sock = SocketEvent(h.sock, "CONNECTED") /\ g.log = h.log \cup {"CONNECTED"}
        /\ g.tcp = c /\ g.out = a.out
    BY <2>6, EmitIs
  <2>9. g \in Hosts
    <3>1. g = [a EXCEPT !.sock = SocketEvent(h.sock, "CONNECTED"), !.log = h.log \cup {"CONNECTED"}]
      BY <2>6 DEF Emit, Hosts
    <3>2. SocketEvent(h.sock, "CONNECTED") \in Socket
      BY <1>1, SocketEventAttended DEF Good, Sound, Attended, Formed, SocketEventNames
    <3>3. h.log \cup {"CONNECTED"} \in SUBSET (SocketEventNames \cup {"DATA"})
      BY <1>1, HostParts DEF SocketEventNames
    <3> QED BY <2>6, <3>1, <3>2, <3>3 DEF Hosts
  <2> HIDE DEF g
  <2>10. /\ g.sock.active = h.sock.active /\ g.sock.state = "CONNECTED"
         /\ g.sock.eof = h.sock.eof /\ g.sock.closeRequested = h.sock.closeRequested
         /\ g.sock.tx = h.sock.tx /\ g.sock.rx = h.sock.rx
    <3>1. SameEntry(g.sock, [h.sock EXCEPT !.state = "CONNECTED"])
      BY <1>1, <2>8, EventIs
    <3> QED BY <1>1, <3>1 DEF SameEntry, Socket
  <2>11. Early(h.sock) /\ ~Sealed(h.sock)
    BY DEF Exact, Hears, Early, Sealed
  <2>12. /\ Awaited(h.sock, r) = 0 /\ written = 0 /\ ~h.sock.closeRequested
         /\ ~h.tcp.closeRequested /\ ~peer.fin
    BY <2>11 DEF Exact, Received, Queued
  <2>13. Awaited(g.sock, r) = 0 /\ ~Early(g.sock)
    BY <2>10, <2>12 DEF Awaited, Early
  <2>14. ~Deaf(g.tcp, g.sock, r)
    BY <2>1, <2>4, <2>8, <2>13 DEF Deaf
  <2>15. Received(g.sock, r)
    BY <2>10, <2>13 DEF Exact, Received
  <2>16. Hears(g.tcp, g.sock, r)
    BY <2>4, <2>8, <2>13, <2>14 DEF Hears
  <2>17. Queued(g.tcp, g.sock)
    BY <2>4, <2>8, <2>10, <2>12 DEF Exact, Queued
  <2>18. Numbered(g.tcp, g.sock)
    <3>1. Len(h.sock.tx) <= written /\ h.sock.tx \in Seq(Nat) /\ h.tcp.nxt = Plus(Isn, 1)
      BY <1>1 DEF Exact, Queued, Numbered, Socket
    <3>2. 1 + (written - Len(h.sock.tx)) = 1
      BY <2>12, <3>1
    <3> QED BY <2>4, <2>8, <2>10, <3>1, <3>2, EmptySegment DEF Numbered, FinStates
  <2>19. Outgoing(g, r)
    BY <2>7, <2>8, <2>10, <2>11, <2>14 DEF Outgoing, Safe
  <2>20. Reports(g)
    BY <2>4, <2>8 DEF Exact, Reports
  <2>21. Exact(g, r)
    BY <2>15, <2>16, <2>17, <2>18, <2>19, <2>20 DEF Exact
  <2> QED BY <2>3, <2>9, <2>21, WritableExact
<1> QED BY <1>2, <1>3

(* tcp_process_ack of an acknowledgment of something sent: the pending      *)
(* segment stays, or it is all acknowledged.                                *)
LEMMA AckInRangeIs ==
  ASSUME NEW h, Good(h), NEW m \in Segment,
         SequenceBetween(m.ack, h.tcp.una, h.tcp.nxt)
  PROVE  \/ \E a : /\ Good(a) /\ SameConn(a.tcp, h.tcp) /\ a.sock = h.sock /\ a.out = h.out
                   /\ a.log = h.log
                   /\ AckInRange(h, m) = IF a.tcp.closeRequested THEN BeginClose(a) ELSE a
         \/ /\ h.tcp.pending.active /\ m.ack = h.tcp.nxt
            /\ h.tcp.state \notin {"CLOSED", "FAILED"}
            /\ \/ /\ "FIN" \in h.tcp.pending.flags /\ h.tcp.state = "LAST_ACK"
                  /\ \E b \in Hosts :
                       /\ b.sock = h.sock /\ b.out = h.out /\ b.log = h.log
                       /\ b.tcp.closeRequested = h.tcp.closeRequested
                       /\ b.tcp.state = h.tcp.state /\ b.tcp.rcv = h.tcp.rcv
                       /\ AckInRange(h, m) = ClearConnection(b)
               \/ \E c :
                    /\ Good(c) /\ c.sock = h.sock /\ c.out = h.out /\ c.log = h.log
                    /\ c.tcp.closeRequested = h.tcp.closeRequested
                    /\ c.tcp.nxt = h.tcp.nxt /\ c.tcp.rcv = h.tcp.rcv /\ ~c.tcp.pending.active
                    /\ c.tcp.state = IF "FIN" \notin h.tcp.pending.flags THEN h.tcp.state
                                     ELSE CASE h.tcp.state = "FIN_WAIT_1" -> "FIN_WAIT_2"
                                            [] h.tcp.state = "CLOSING"    -> "TIME_WAIT"
                                            [] OTHER                      -> h.tcp.state
                    /\ ~("FIN" \in h.tcp.pending.flags /\ h.tcp.state = "LAST_ACK")
                    /\ LET d == Emit(c, "WRITABLE")
                       IN AckInRange(h, m) = IF d.tcp.closeRequested THEN BeginClose(d) ELSE d
<1> DEFINE p == h.tcp.pending
           moved == SequenceLess(h.tcp.una, m.ack)
           completed == moved /\ p.active /\ ~SequenceLess(m.ack, PendingEnd(p))
           finished == completed /\ "FIN" \in p.flags
           una == IF moved THEN m.ack ELSE h.tcp.una
           x == [h.tcp EXCEPT !.remoteWindow = m.win, !.una = una]
           a == [h EXCEPT !.tcp = x]
<1>1. /\ h \in Hosts /\ h.tcp \in Connection /\ Tracked(h.tcp) /\ h.tcp.una \in Sequence
      /\ m.ack \in Sequence /\ m.win \in Nat /\ h.tcp.pending \in Pending
  BY HostParts, ConnectionParts, SegmentParts DEF Good, Sound
<1>2. /\ completed => h.tcp.state \notin {"CLOSED", "FAILED"} /\ m.ack = h.tcp.nxt
      /\ h.tcp.state \notin {"CLOSED", "FAILED"} /\ p.active =>
           \E n \in 0..Size(p) : una = Plus(p.seq, n)
      /\ h.tcp.state \notin {"CLOSED", "FAILED"} /\ ~p.active => una = h.tcp.nxt
  BY <1>1, AckMovesUna
<1>3. una \in Sequence /\ (completed => una = m.ack)
  BY <1>1
<1>4. [h EXCEPT !.tcp.remoteWindow = m.win, !.tcp.una = IF moved THEN m.ack ELSE @] = a
  BY <1>1 DEF Hosts, Connection
<1>5. CASE ~completed
  <2>1. AckInRange(h, m) = IF a.tcp.closeRequested THEN BeginClose(a) ELSE a
    <3> DEFINE e == [h EXCEPT !.tcp.remoteWindow = m.win,
                             !.tcp.una = IF moved THEN m.ack ELSE @]
               b == IF completed THEN ClearPending(e) ELSE e
               c == IF ~finished THEN b
                    ELSE [b EXCEPT !.tcp.state = CASE @ = "FIN_WAIT_1" -> "FIN_WAIT_2"
                                                   [] @ = "CLOSING"    -> "TIME_WAIT"
                                                   [] OTHER            -> @]
               d == IF completed THEN Emit(c, "WRITABLE") ELSE c
    <3>1. AckInRange(h, m) = IF finished /\ In(b, {"LAST_ACK"}) THEN ClearConnection(b)
                             ELSE IF d.tcp.closeRequested THEN BeginClose(d) ELSE d
      BY DEF AckInRange
    <3>2. b = e
      BY <1>5
    <3>3. c = b
      BY <1>5
    <3>4. d = c
      BY <1>5
    <3>5. ~finished /\ e = a
      BY <1>4, <1>5
    <3> HIDE DEF a, b, c, d, e, finished
    <3> QED BY <3>1, <3>2, <3>3, <3>4, <3>5
  <2> HIDE DEF una
  <2>2. /\ x \in Connection /\ x.state = h.tcp.state /\ x.pending = h.tcp.pending
        /\ x.nxt = h.tcp.nxt /\ x.una = una /\ x.localWindow = h.tcp.localWindow
        /\ x.rcv = h.tcp.rcv /\ x.closeRequested = h.tcp.closeRequested
    BY <1>1, <1>3 DEF Connection
  <2> HIDE DEF x
  <2>3. Tracked(x)
    BY <1>1, <1>2, <2>2 DEF Tracked, Unacked
  <2>4. Good(a) /\ a.tcp = x /\ a.sock = h.sock /\ a.out = h.out
    BY <2>2, <2>3, GoodWith
  <2>5. a.log = h.log
    BY <1>1, <2>2, WithTcp
  <2> HIDE DEF a
  <2>6. SameConn(a.tcp, h.tcp)
    BY <2>2, <2>4 DEF SameConn
  <2> QED BY <2>1, <2>4, <2>5, <2>6
<1>6. CASE completed
  <2> DEFINE y == [h.tcp EXCEPT !.remoteWindow = m.win, !.una = una, !.pending = NoPending]
             b == [h EXCEPT !.tcp = y]
             z == CASE h.tcp.state = "FIN_WAIT_1" -> "FIN_WAIT_2"
                    [] h.tcp.state = "CLOSING"    -> "TIME_WAIT"
                    [] OTHER                      -> h.tcp.state
             w == IF "FIN" \notin p.flags THEN h.tcp.state ELSE z
             v == [h.tcp EXCEPT !.remoteWindow = m.win, !.una = una, !.pending = NoPending,
                                !.state = w]
             c == [h EXCEPT !.tcp = v]
             d == Emit(c, "WRITABLE")
  <2>1. ClearPending(a) = b
    BY <1>1 DEF ClearPending, Hosts, Connection
  <2>2. (IF ~finished THEN b
         ELSE [b EXCEPT !.tcp.state = CASE @ = "FIN_WAIT_1" -> "FIN_WAIT_2"
                                        [] @ = "CLOSING"    -> "TIME_WAIT"
                                        [] OTHER            -> @]) = c
    <3>1. CASE finished
      BY <1>1, <3>1 DEF Hosts, Connection
    <3>2. CASE ~finished
      BY <1>1, <1>6, <3>2 DEF Hosts, Connection
    <3> QED BY <3>1, <3>2
  <2>3. b.tcp.state = h.tcp.state
    BY <1>1 DEF Hosts, Connection
  <2>4. AckInRange(h, m) = IF "FIN" \in p.flags /\ h.tcp.state = "LAST_ACK"
                           THEN ClearConnection(b)
                           ELSE IF d.tcp.closeRequested THEN BeginClose(d) ELSE d
    <3> HIDE DEF a, b, c
    <3> QED BY <1>4, <1>6, <2>1, <2>2, <2>3, SMTT(30) DEF AckInRange, In
  <2>5. h.tcp.state \notin {"CLOSED", "FAILED"} /\ una = h.tcp.nxt
    BY <1>2, <1>3, <1>6
  <2>6. w \in TcpStates \ {"CLOSED", "FAILED"}
    BY <1>1, <2>5 DEF Connection, TcpStates
  <2> HIDE DEF una, w
  <2>7. /\ v \in Connection /\ v.state = w /\ v.pending = NoPending
        /\ v.nxt = h.tcp.nxt /\ v.una = una /\ v.localWindow = h.tcp.localWindow
        /\ v.rcv = h.tcp.rcv /\ v.closeRequested = h.tcp.closeRequested
    BY <1>1, <1>3, <2>6, EmptySegment DEF Connection
  <2>8. y \in Connection /\ y.closeRequested = h.tcp.closeRequested /\ y.state = h.tcp.state
        /\ y.rcv = h.tcp.rcv
    BY <1>1, <1>3, EmptySegment DEF Connection
  <2> HIDE DEF v, y
  <2>9. Tracked(v)
    BY <2>5, <2>6, <2>7, EmptySegment DEF Tracked, Unacked
  <2>10. Good(c) /\ c.tcp = v /\ c.sock = h.sock /\ c.out = h.out /\ c.log = h.log
    BY <1>1, <2>5, <2>7, <2>9, GoodWith, WithTcp
  <2>11. b \in Hosts /\ b.sock = h.sock /\ b.tcp = y /\ b.out = h.out /\ b.log = h.log
    BY <1>1, <2>8, WithTcp
  <2>12. p.active /\ m.ack = h.tcp.nxt
    BY <1>2, <1>6
  <2> HIDE DEF b, c, d, completed, moved, finished
  <2>13. CASE "FIN" \in p.flags /\ h.tcp.state = "LAST_ACK"
    BY <2>4, <2>5, <2>8, <2>11, <2>12, <2>13
  <2>14. CASE ~("FIN" \in p.flags /\ h.tcp.state = "LAST_ACK")
    BY <2>4, <2>5, <2>7, <2>10, <2>12, <2>14, EmptySegment DEF w, d
  <2> QED BY <2>13, <2>14
<1> QED BY <1>5, <1>6

(* What the peer can have acknowledged: two numbers more than was written,  *)
(* when it has seen the FIN.                                                *)
LEMMA GotIs ==
  ASSUME NEW p \in Peers, written \in Nat, Len(p.rcv) <= written,
         p.fin => Len(p.rcv) = written
  PROVE  Got(p) \in 1..(written + 2) /\ (Got(p) = written + 2 => p.fin)
<1> DEFINE n == Len(p.rcv)
           k == IF p.fin THEN 1 ELSE 0
<1>1. n \in Nat /\ n <= written /\ k \in {0, 1} /\ (k = 1 <=> p.fin)
  BY DEF Peers
<1>2. Got(p) = 1 + n + k
  BY DEF Got
<1> HIDE DEF n, k
<1>3. 1 + n + k \in 1..(written + 2) /\ (1 + n + k = written + 2 => k = 1)
  BY <1>1
<1> QED BY <1>1, <1>2, <1>3

(* The acknowledgment of the FIN comes from a peer that has it.            *)
LEMMA FinAcknowledged ==
  ASSUME Inv, PeerExact, NEW m, From(m), m.ack = Plus(Isn, 2 + written)
  PROVE  peer.fin
<1>1. peer \in Peers /\ written \in 0..AppBytes /\ written \in Nat
  BY StreamSpace DEF Inv
<1>2. Got(peer) \in 1..(written + 2) /\ (Got(peer) = written + 2 => peer.fin)
  BY <1>1, GotIs DEF PeerExact
<1>3. PICK a \in 0..Got(peer) : m.ack = Plus(Isn, a)
  BY DEF From
<1>4. a \in 0..(written + 2) /\ 2 + written \in 0..(written + 2)
  BY <1>1, <1>2
<1>5. a = 2 + written
  BY <1>1, <1>3, <1>4, SentNumbers
<1>6. Got(peer) = written + 2
  BY <1>1, <1>2, <1>3, <1>5
<1> QED BY <1>2, <1>6

(* tcp_process_ack of an acknowledgment of something sent: a FIN is through *)
(* only when the peer has everything before it.                             *)
LEMMA AckInRangeExact ==
  ASSUME Inv, PeerExact, NEW h, Good(h), NEW r, Exact(h, r), NEW m \in Segment, From(m),
         h.tcp.state \notin {"CLOSED", "SYN_SENT"},
         SequenceBetween(m.ack, h.tcp.una, h.tcp.nxt)
  PROVE  Exact(AckInRange(h, m), r)
<1>1. CASE \E a : /\ Good(a) /\ SameConn(a.tcp, h.tcp) /\ a.sock = h.sock /\ a.out = h.out
                  /\ a.log = h.log
                  /\ AckInRange(h, m) = IF a.tcp.closeRequested THEN BeginClose(a) ELSE a
  <2>1. PICK a : /\ Good(a) /\ SameConn(a.tcp, h.tcp) /\ a.sock = h.sock /\ a.out = h.out
                 /\ a.log = h.log
                 /\ AckInRange(h, m) = IF a.tcp.closeRequested THEN BeginClose(a) ELSE a
    BY <1>1
  <2>2. SameEntry(a.sock, h.sock)
    BY <2>1 DEF SameEntry
  <2>3. Exact(a, r)
    BY <2>1, <2>2, ExactFollows
  <2> QED BY <2>1, <2>3, BeginCloseExact
<1>2. CASE /\ h.tcp.pending.active /\ m.ack = h.tcp.nxt
           /\ h.tcp.state \notin {"CLOSED", "FAILED"}
           /\ "FIN" \in h.tcp.pending.flags /\ h.tcp.state = "LAST_ACK"
           /\ \E b \in Hosts :
                       /\ b.sock = h.sock /\ b.out = h.out /\ b.log = h.log
                       /\ b.tcp.closeRequested = h.tcp.closeRequested
                       /\ b.tcp.state = h.tcp.state /\ b.tcp.rcv = h.tcp.rcv
                       /\ AckInRange(h, m) = ClearConnection(b)
  <2>1. PICK b \in Hosts : /\ b.sock = h.sock /\ b.out = h.out /\ b.log = h.log
                           /\ b.tcp.closeRequested = h.tcp.closeRequested
                           /\ b.tcp.state = h.tcp.state /\ b.tcp.rcv = h.tcp.rcv
                           /\ AckInRange(h, m) = ClearConnection(b)
    BY <1>2
  <2>2. h.tcp.nxt = Plus(Isn, 2 + written)
    BY <1>2 DEF Exact, Numbered, FinStates
  <2>3. peer.fin
    BY <1>2, <2>2, FinAcknowledged
  <2>4. Received(b.sock, r) /\ Queued(b.tcp, b.sock)
    BY <2>1 DEF Exact, Queued
  <2>5. Outgoing(b, r)
    BY <2>1 DEF Exact, Outgoing, Safe, Deaf
  <2> QED BY <2>1, <2>3, <2>4, <2>5, ClearConnectionExact
<1>3. CASE /\ h.tcp.pending.active /\ m.ack = h.tcp.nxt
           /\ h.tcp.state \notin {"CLOSED", "FAILED"}
           /\ \E c :
                    /\ Good(c) /\ c.sock = h.sock /\ c.out = h.out /\ c.log = h.log
                    /\ c.tcp.closeRequested = h.tcp.closeRequested
                    /\ c.tcp.nxt = h.tcp.nxt /\ c.tcp.rcv = h.tcp.rcv /\ ~c.tcp.pending.active
                    /\ c.tcp.state = IF "FIN" \notin h.tcp.pending.flags THEN h.tcp.state
                                     ELSE CASE h.tcp.state = "FIN_WAIT_1" -> "FIN_WAIT_2"
                                            [] h.tcp.state = "CLOSING"    -> "TIME_WAIT"
                                            [] OTHER                      -> h.tcp.state
                    /\ ~("FIN" \in h.tcp.pending.flags /\ h.tcp.state = "LAST_ACK")
                    /\ LET d == Emit(c, "WRITABLE")
                       IN AckInRange(h, m) = IF d.tcp.closeRequested THEN BeginClose(d) ELSE d
  <2>1. PICK c :
                    /\ Good(c) /\ c.sock = h.sock /\ c.out = h.out /\ c.log = h.log
                    /\ c.tcp.closeRequested = h.tcp.closeRequested
                    /\ c.tcp.nxt = h.tcp.nxt /\ c.tcp.rcv = h.tcp.rcv /\ ~c.tcp.pending.active
                    /\ c.tcp.state = IF "FIN" \notin h.tcp.pending.flags THEN h.tcp.state
                                     ELSE CASE h.tcp.state = "FIN_WAIT_1" -> "FIN_WAIT_2"
                                            [] h.tcp.state = "CLOSING"    -> "TIME_WAIT"
                                            [] OTHER                      -> h.tcp.state
                    /\ ~("FIN" \in h.tcp.pending.flags /\ h.tcp.state = "LAST_ACK")
                    /\ LET d == Emit(c, "WRITABLE")
                       IN AckInRange(h, m) = IF d.tcp.closeRequested THEN BeginClose(d) ELSE d
    BY <1>3
  <2>2. h.tcp.state \in TcpStates /\ c \in Hosts
    BY <2>1, HostParts, ConnectionParts DEF Good, Sound
  <2>3. \/ h.tcp.state \in {"ESTABLISHED", "CLOSE_WAIT"} /\ c.tcp.state = h.tcp.state
        \/ /\ h.tcp.state \in {"FIN_WAIT_1", "CLOSING"}
           /\ c.tcp.state \in {"FIN_WAIT_2", "TIME_WAIT"}
    <3>1. CASE h.tcp.state \in {"ESTABLISHED", "CLOSE_WAIT"}
      BY <1>3, <2>1, <3>1 DEF Exact, Numbered
    <3>2. CASE h.tcp.state \in {"FIN_WAIT_1", "CLOSING", "LAST_ACK"}
      <4>1. "FIN" \in h.tcp.pending.flags
        BY <3>2 DEF Exact, Numbered
      <4> QED BY <2>1, <3>2, <4>1
    <3>3. CASE h.tcp.state \in {"FIN_WAIT_2", "TIME_WAIT"}
      BY <1>3, <3>3 DEF Exact, Numbered
    <3> QED BY <1>3, <2>2, <3>1, <3>2, <3>3 DEF TcpStates
  <2>4. c.tcp.state \in {"FIN_WAIT_2", "TIME_WAIT"} =>
          peer.fin /\ c.tcp.closeRequested /\ c.tcp.nxt = Plus(Isn, 2 + written)
    <3>1. h.tcp.state \in {"FIN_WAIT_1", "CLOSING"} =>
            h.tcp.closeRequested /\ h.tcp.nxt = Plus(Isn, 2 + written)
      BY DEF Exact, Numbered, FinStates
    <3>2. h.tcp.state \in {"FIN_WAIT_1", "CLOSING"} => peer.fin
      BY <1>3, <3>1, FinAcknowledged
    <3> QED BY <2>1, <2>3, <3>1, <3>2
  <2>5. Numbered(c.tcp, c.sock)
    BY <2>1, <2>3, <2>4 DEF Exact, Numbered, FinStates
  <2>6. ~Deaf(h.tcp, h.sock, r) /\ ~Early(h.sock)
    BY <2>3 DEF Exact, Hears
  <2>7. ~Deaf(c.tcp, c.sock, r)
    BY <2>1, <2>3, <2>6 DEF Deaf
  <2>8. Received(c.sock, r) /\ Queued(c.tcp, c.sock)
    BY <2>1 DEF Exact, Queued
  <2>9. Hears(c.tcp, c.sock, r)
    BY <2>1, <2>3, <2>6, <2>7 DEF Hears
  <2>10. Outgoing(c, r)
    BY <2>1, <2>7 DEF Exact, Outgoing, Safe
  <2>11. Reports(c)
    BY <2>1, <2>3 DEF Exact, Reports
  <2>12. Exact(c, r)
    BY <2>5, <2>8, <2>9, <2>10, <2>11 DEF Exact
  <2> DEFINE d == Emit(c, "WRITABLE")
  <2>13. Exact(d, r) /\ Good(d)
    BY <2>1, <2>2, <2>12, WritableExact, EmitGood DEF SocketEventNames
  <2>14. AckInRange(h, m) = IF d.tcp.closeRequested THEN BeginClose(d) ELSE d
    BY <2>1
  <2> HIDE DEF d
  <2> QED BY <2>13, <2>14, BeginCloseExact
<1> QED BY <1>1, <1>2, <1>3, AckInRangeIs

(* tcp_process_ack. *)
LEMMA ProcessAckExact ==
  ASSUME Inv, PeerExact, NEW h, Good(h), NEW r, Exact(h, r), NEW m \in Segment, From(m),
         h.tcp.state \notin {"CLOSED", "SYN_SENT"}
  PROVE  Exact(ProcessAck(h, m), r)
<1>1. h \in Hosts
  BY DEF Good, Sound
<1> QED BY <1>1, AckInRangeExact, SendAckExact DEF ProcessAck

(* The offset the socket waits for is one of the peer's stream. *)
LEMMA AwaitedIs ==
  ASSUME NEW s \in Socket, NEW r, Received(s, r)
  PROVE  /\ Awaited(s, r) \in 0..(PeerBytes + 1)
         /\ s.eof => Awaited(s, r) = PeerBytes + 1
         /\ ~s.eof => Awaited(s, r) = Len(r) + Len(s.rx)
         /\ Len(r) \in Nat /\ Len(s.rx) \in Nat /\ s.rx \in Seq(Nat)
<1> DEFINE n == Len(r) + Len(s.rx)
<1>1. Len(r) \in Nat /\ Len(s.rx) \in Nat /\ s.rx \in Seq(Nat) /\ PeerBytes \in Nat
  BY StreamSpace DEF Received, Socket
<1>2. n \in Nat /\ n <= PeerBytes /\ (s.eof => n = PeerBytes)
  BY <1>1 DEF Received
<1>3. s.eof => Awaited(s, r) = n + 1
  BY DEF Awaited
<1>4. ~s.eof => Awaited(s, r) = n
  BY <1>1, <1>2 DEF Awaited
<1> HIDE DEF n
<1>5. n + 1 \in 0..(PeerBytes + 1) /\ n \in 0..(PeerBytes + 1)
  BY <1>1, <1>2
<1> QED BY <1>1, <1>2, <1>3, <1>4, <1>5 DEF n

(* Once the peer answers with more than its SYN, the numbers are known. *)
LEMMA Hearing ==
  ASSUME NEW h, NEW r, Exact(h, r), NEW m \in toHost, "SYN" \notin m.flags
  PROVE  /\ ~Deaf(h.tcp, h.sock, r) /\ h.tcp.state # "SYN_SENT"
         /\ h.tcp.state # "CLOSED" => h.tcp.rcv = PeerSeq(Awaited(h.sock, r)) /\ ~Early(h.sock)
<1>1. ~Quiet
  BY DEF Quiet
<1>2. ~Deaf(h.tcp, h.sock, r)
  BY <1>1 DEF Exact, Hears
<1> QED BY <1>2 DEF Deaf, Exact, Hears

(* A segment that is in order starts at that offset. *)
LEMMA InOrderIs ==
  ASSUME NEW s \in Socket, NEW r, Received(s, r), NEW m, From(m), "SYN" \notin m.flags,
         NEW d \in Nat, Plus(m.seq, d) = PeerSeq(Awaited(s, r)),
         d = 0 \/ (m.data \in Seq(Nat) /\ d = Len(m.data))
  PROVE  \E o \in 0..(PeerBytes + 1) :
           /\ m.seq = PeerSeq(o) /\ o + d = Awaited(s, r)
           /\ m.data # <<>> => o + Len(m.data) <= PeerBytes
           /\ Counts(m.data, o) /\ ("FIN" \in m.flags => o + Len(m.data) = PeerBytes)
<1>1. PICK o \in 0..(PeerBytes + 1) :
        /\ m.seq = PeerSeq(o) /\ (m.data # <<>> => o + Len(m.data) <= PeerBytes)
        /\ Counts(m.data, o) /\ ("FIN" \in m.flags => o + Len(m.data) = PeerBytes)
  BY DEF From
<1>2. o + d <= PeerBytes + 1 /\ o \in Nat /\ PeerBytes \in Nat
  <2>1. o \in Nat /\ o <= PeerBytes + 1 /\ PeerBytes \in Nat
    BY StreamSpace
  <2>2. d # 0 => m.data # <<>>
    OBVIOUS
  <2> QED BY <1>1, <2>1, <2>2
<1>3. Plus(m.seq, d) = PeerSeq(o + d) /\ o + d \in 0..(PeerBytes + 1)
  <2>1. o + d \in 0..(PeerBytes + 1)
    BY <1>2
  <2>2. Plus(PeerSeq(o), d) = PeerSeq(o + d)
    BY <1>2, PeerSeqIs
  <2> QED BY <1>1, <2>1, <2>2
<1>4. o + d = Awaited(s, r)
  BY <1>3, AwaitedIs, PeerSeqIs
<1> QED BY <1>1, <1>4

(* tcp_emit of data. *)
LEMMA EmitDataIs ==
  ASSUME NEW h \in Hosts, NEW data \in Seq(Nat), Len(data) + Len(h.sock.rx) <= RxCapacity
  PROVE  LET g == EmitData(h, data)
         IN /\ SameEntry(g.sock, [h.sock EXCEPT !.rx = h.sock.rx \o data])
            /\ g.out = h.out /\ g.log = h.log \cup {"DATA"}
<1> DEFINE x == h.sock.rx \o data
           q == [h.sock EXCEPT !.rx = x]
           s == WakeOne(q)
<1>1. h.sock \in Socket /\ h.sock.rx \in Seq(Nat) /\ Len(h.sock.rx) \in Nat /\ Len(data) \in Nat
      /\ RxCapacity \in Nat
  BY HostParts, SocketAssumption DEF Socket
<1>2. ~(Len(data) > RxCapacity - Len(h.sock.rx)) /\ x \in Seq(Nat)
  BY <1>1
<1>3. [h.sock EXCEPT !.rx = @ \o data] = q
  BY <1>1 DEF Socket
<1>4. EmitData(h, data) = [h EXCEPT !.sock = WakeOne([h.sock EXCEPT !.rx = @ \o data]),
                                    !.log = h.log \cup {"DATA"}]
  BY <1>2 DEF EmitData
<1>5. EmitData(h, data) = [h EXCEPT !.sock = s, !.log = h.log \cup {"DATA"}]
  BY <1>3, <1>4
<1> HIDE DEF x
<1>6. q \in Socket
  BY <1>1, <1>2 DEF Socket
<1> HIDE DEF q
<1>7. SameEntry(s, q)
  BY <1>6, EventIs
<1> HIDE DEF s
<1>8. /\ EmitData(h, data).sock = s /\ EmitData(h, data).out = h.out
      /\ EmitData(h, data).log = h.log \cup {"DATA"}
  BY <1>5 DEF Hosts
<1> QED BY <1>7, <1>8 DEF q, x

(* tcp_accept_payload: the ring grows by what the peer wrote next. *)
LEMMA AcceptPayloadExact ==
  ASSUME NEW h, Good(h), h.ok, NEW r, Exact(h, r), h.tcp.state # "CLOSED",
         NEW m \in toHost, m \in Segment, From(m), "SYN" \notin m.flags
  PROVE  Exact(AcceptPayload(h, m), r) /\ AcceptPayload(h, m).tcp.state = h.tcp.state
<1>1. /\ h \in Hosts /\ h.tcp \in Connection /\ h.sock \in Socket /\ Attended(h.sock)
      /\ h.tcp.localWindow \in Nat /\ h.tcp.rcv \in Sequence /\ h.sock.rx \in Seq(Nat)
      /\ m.data \in Seq(Nat) /\ Len(m.data) \in Nat /\ RxCapacity \in Nat
  BY HostParts, ConnectionParts, SegmentParts, SocketAssumption DEF Good, Sound, Socket
<1>2. /\ h.tcp.localWindow + Len(h.sock.rx) <= RxCapacity /\ h.sock.handle
      /\ h.sock.state # "OPEN" /\ Len(h.sock.rx) \in Nat
  BY <1>1 DEF Good, Sound, Fits, Attached
<1>3. /\ h.tcp.state # "SYN_SENT" /\ h.tcp.rcv = PeerSeq(Awaited(h.sock, r))
      /\ ~Early(h.sock) /\ ~Deaf(h.tcp, h.sock, r)
  BY Hearing
<1>4. CASE m.data = <<>>
  BY <1>4 DEF AcceptPayload
<1>5. CASE m.data # <<>> /\ (m.seq # h.tcp.rcv \/ Len(m.data) > h.tcp.localWindow)
  BY <1>1, <1>3, <1>5, SendAckExact, SendAckHost DEF AcceptPayload
<1>6. CASE m.data # <<>> /\ ~(m.seq # h.tcp.rcv \/ Len(m.data) > h.tcp.localWindow)
  <2> DEFINE d == Len(m.data)
             g == EmitData(h, m.data)
             x == Plus(h.tcp.rcv, Len(m.data))
             w == h.tcp.localWindow - Len(m.data)
             c == [h.tcp EXCEPT !.rcv = x, !.localWindow = w]
             f == [g EXCEPT !.tcp = c]
  <2>1. Len(m.data) + Len(h.sock.rx) <= RxCapacity /\ w \in Nat
    BY <1>1, <1>2, <1>6, WindowShrinks
  <2>2. g \in Hosts /\ g.tcp = h.tcp /\ g.ok
    BY <1>1, <1>2, <2>1, EmitDataHost
  <2>3. /\ SameEntry(g.sock, [h.sock EXCEPT !.rx = h.sock.rx \o m.data])
        /\ g.out = h.out /\ g.log = h.log \cup {"DATA"}
    BY <1>1, <2>1, EmitDataIs
  <2>4. x \in Sequence
    BY <1>1, PlusType
  <2>5. [g EXCEPT !.tcp.rcv = Plus(@, Len(m.data)),
                  !.tcp.localWindow = @ - Len(m.data)] = f
    <3> HIDE DEF g
    <3> QED BY <1>1, <2>2 DEF Hosts, Connection
  <2>6. AcceptPayload(h, m) = SendAck(f)
    <3>1. AcceptPayload(h, m) = SendAck([g EXCEPT !.tcp.rcv = Plus(@, Len(m.data)),
                                                  !.tcp.localWindow = @ - Len(m.data)])
      BY <1>6, <2>2 DEF AcceptPayload
    <3> QED BY <2>5, <3>1
  <2> HIDE DEF x, g, w
  <2>7. /\ c \in Connection /\ c.state = h.tcp.state /\ c.rcv = x
        /\ c.nxt = h.tcp.nxt /\ c.pending = h.tcp.pending
        /\ c.closeRequested = h.tcp.closeRequested
    BY <1>1, <2>1, <2>4 DEF Connection
  <2> HIDE DEF c
  <2>8. f \in Hosts /\ f.tcp = c /\ f.sock = g.sock /\ f.out = h.out /\ f.log = g.log
    BY <2>2, <2>3, <2>7, WithTcp
  <2> HIDE DEF f
  <2>9. /\ f.sock.active = h.sock.active /\ f.sock.state = h.sock.state
        /\ f.sock.eof = h.sock.eof /\ f.sock.closeRequested = h.sock.closeRequested
        /\ f.sock.tx = h.sock.tx /\ f.sock.rx = h.sock.rx \o m.data
    BY <1>1, <2>3, <2>8 DEF SameEntry, Socket
  <2>10. /\ Received(h.sock, r) /\ r \in Seq(Nat) /\ Len(r) \in Nat /\ PeerBytes \in Nat
         /\ Counts(h.sock.rx, Len(r)) /\ m.seq \in Sequence
    BY <1>1, StreamSpace, SegmentParts DEF Exact, Received
  <2>11. Plus(m.seq, 0) = m.seq
    BY <2>10, PlusZero
  <2>12. PICK o \in 0..(PeerBytes + 1) :
           /\ m.seq = PeerSeq(o) /\ o + 0 = Awaited(h.sock, r)
           /\ m.data # <<>> => o + Len(m.data) <= PeerBytes /\ Counts(m.data, o)
    BY <1>1, <1>3, <1>6, <2>10, <2>11, InOrderIs
  <2>13. d \in Nat /\ d > 0 /\ o \in Nat /\ o + d <= PeerBytes /\ o = Awaited(h.sock, r)
         /\ Counts(m.data, o)
    BY <1>1, <1>6, <2>10, <2>12
  <2> HIDE DEF d
  <2>14. ~h.sock.eof /\ o = Len(r) + Len(h.sock.rx)
    <3>1. /\ h.sock.eof => Awaited(h.sock, r) = PeerBytes + 1
          /\ ~h.sock.eof => Awaited(h.sock, r) = Len(r) + Len(h.sock.rx)
      BY <1>1, <2>10, AwaitedIs
    <3>2. o # PeerBytes + 1
      BY <2>10, <2>13
    <3> QED BY <2>13, <3>1, <3>2
  <2>15. /\ Counts(f.sock.rx, Len(r)) /\ f.sock.rx \in Seq(Nat)
         /\ Len(f.sock.rx) = Len(h.sock.rx) + d
    <3>1. Counts(m.data, Len(r) + Len(h.sock.rx))
      BY <2>13, <2>14
    <3>2. h.sock.rx \in Seq(Nat) /\ m.data \in Seq(Nat)
      BY <1>1
    <3>3. LET q == h.sock.rx \o m.data
          IN Counts(q, Len(r)) /\ q \in Seq(Nat)
             /\ Len(q) = Len(h.sock.rx) + Len(m.data)
      BY <2>10, <3>1, <3>2, CountsJoin
    <3> QED BY <2>9, <3>3 DEF d
  <2>16. Len(r) + Len(f.sock.rx) = o + d /\ Awaited(f.sock, r) = o + d
    <3>1. Len(r) + Len(f.sock.rx) = o + d
      BY <1>2, <2>10, <2>13, <2>14, <2>15
    <3>2. Awaited(f.sock, r) = Len(r) + Len(f.sock.rx) + 0
      BY <2>9, <2>14 DEF Awaited
    <3>3. (o + d) + 0 = o + d
      BY <2>13
    <3> QED BY <3>1, <3>2, <3>3
  <2>17. x = PeerSeq(o + d)
    <3>1. o + d <= PeerBytes + 1
      BY <2>10, <2>13
    <3> QED BY <1>3, <2>12, <2>13, <3>1, PeerSeqIs DEF x, d
  <2>18. ~Early(f.sock) /\ (Sealed(f.sock) <=> Sealed(h.sock))
    BY <1>3, <2>9 DEF Early, Sealed
  <2>19. ~Deaf(f.tcp, f.sock, r)
    BY <1>3, <2>7, <2>8, <2>16, <2>17 DEF Deaf
  <2>20. Received(f.sock, r)
    BY <2>9, <2>10, <2>13, <2>14, <2>15, <2>16, <2>18 DEF Received
  <2>21. Hears(f.tcp, f.sock, r)
    BY <1>3, <2>7, <2>8, <2>18, <2>19 DEF Hears
  <2>22. Queued(f.tcp, f.sock)
    BY <2>7, <2>8, <2>9, <2>18 DEF Exact, Queued
  <2>23. Numbered(f.tcp, f.sock)
    BY <2>7, <2>8, <2>9 DEF Exact, Numbered
  <2>24. Outgoing(f, r)
    BY <2>8, <2>9, <2>18, <2>19 DEF Exact, Outgoing, Safe
  <2>25. Reports(f)
    BY <2>3, <2>7, <2>8 DEF Exact, Reports
  <2>26. Exact(f, r)
    BY <2>20, <2>21, <2>22, <2>23, <2>24, <2>25 DEF Exact
  <2> QED BY <1>3, <2>6, <2>7, <2>8, <2>26, SendAckExact, SendAckHost
<1> QED BY <1>4, <1>5, <1>6

(* tcp_accept_fin: the end of the stream, behind all of it. *)
LEMMA AcceptFinExact ==
  ASSUME NEW h, Good(h), NEW r, Exact(h, r), h.tcp.state # "CLOSED",
         NEW m \in toHost, m \in Segment, From(m), "SYN" \notin m.flags
  PROVE  Exact(AcceptFin(h, m), r)
<1>1. /\ h \in Hosts /\ h.tcp \in Connection /\ h.tcp.rcv \in Sequence /\ h.sock \in Socket
      /\ m.data \in Seq(Nat) /\ Len(m.data) \in Nat
  BY HostParts, ConnectionParts, SegmentParts DEF Good, Sound
<1>2. /\ h.tcp.state # "SYN_SENT" /\ h.tcp.rcv = PeerSeq(Awaited(h.sock, r))
      /\ ~Early(h.sock) /\ ~Deaf(h.tcp, h.sock, r)
  BY Hearing
<1>3. CASE "FIN" \notin m.flags \/ Plus(m.seq, Len(m.data)) # h.tcp.rcv
  BY <1>1, <1>2, <1>3, SendAckExact DEF AcceptFin
<1>4. CASE ~("FIN" \notin m.flags \/ Plus(m.seq, Len(m.data)) # h.tcp.rcv)
  <2> DEFINE x == Plus(h.tcp.rcv, 1)
             c == [h.tcp EXCEPT !.rcv = x]
             f == [h EXCEPT !.tcp = c]
             a == SendAck(f)
             g == Emit(a, "EOF")
             y == CASE g.tcp.state = "ESTABLISHED" -> "CLOSE_WAIT"
                    [] g.tcp.state = "FIN_WAIT_1"  -> IF g.tcp.pending.active
                                                      THEN "CLOSING" ELSE "TIME_WAIT"
                    [] g.tcp.state = "FIN_WAIT_2"  -> "TIME_WAIT"
                    [] OTHER                       -> g.tcp.state
             d == [g.tcp EXCEPT !.state = y]
             e == [g EXCEPT !.tcp = d]
  <2>1. x \in Sequence
    BY <1>1, PlusType
  <2>2. [h EXCEPT !.tcp.rcv = Plus(@, 1)] = f
    BY <1>1 DEF Hosts, Connection
  <2> HIDE DEF x
  <2>3. /\ c \in Connection /\ c.state = h.tcp.state /\ c.rcv = x
        /\ c.nxt = h.tcp.nxt /\ c.pending = h.tcp.pending
        /\ c.closeRequested = h.tcp.closeRequested
    BY <1>1, <2>1 DEF Connection
  <2> HIDE DEF c
  <2>4. f \in Hosts /\ f.tcp = c /\ f.sock = h.sock /\ f.out = h.out /\ f.log = h.log
    BY <1>1, <2>3, WithTcp
  <2>5. AcceptFin(h, m) = [g EXCEPT !.tcp.state =
            CASE @ = "ESTABLISHED" -> "CLOSE_WAIT"
              [] @ = "FIN_WAIT_1"  -> IF g.tcp.pending.active
                                      THEN "CLOSING" ELSE "TIME_WAIT"
              [] @ = "FIN_WAIT_2"  -> "TIME_WAIT"
              [] OTHER             -> @]
    BY <1>4, <2>2 DEF AcceptFin
  <2> HIDE DEF f
  <2>6. a \in Hosts /\ a.tcp = c /\ a.sock = h.sock /\ a.log = h.log
    BY <2>4, SendAckHost
  <2>7. \A i \in 1..Len(a.out) : Carried(a.out[i]) /\ ("FIN" \in a.out[i].flags => TRUE)
    BY <2>4, AckOut DEF Exact, Outgoing, Safe
  <2> HIDE DEF a
  <2>8. /\ g.sock = SocketEvent(h.sock, "EOF") /\ g.log = h.log \cup {"EOF"}
        /\ g.tcp = c /\ g.out = a.out
    BY <2>6, EmitIs
  <2>9. g \in Hosts
    <3>1. g = [a EXCEPT !.sock = SocketEvent(h.sock, "EOF"), !.log = h.log \cup {"EOF"}]
      BY <2>6 DEF Emit, Hosts
    <3>2. SocketEvent(h.sock, "EOF") \in Socket
      BY <1>1, SocketEventAttended DEF Good, Sound, Attended, Formed, SocketEventNames
    <3>3. h.log \cup {"EOF"} \in SUBSET (SocketEventNames \cup {"DATA"})
      BY <1>1, HostParts DEF SocketEventNames
    <3> QED BY <2>6, <3>1, <3>2, <3>3 DEF Hosts
  <2> HIDE DEF g
  <2>10. g.tcp \in Connection /\ g.tcp.state \in TcpStates
    BY <2>3, <2>8, ConnectionParts
  <2>11. AcceptFin(h, m) = e
    BY <2>5, <2>9, <2>10 DEF Hosts, Connection
  <2>12. y \in TcpStates
    BY <2>10 DEF TcpStates
  <2>13. /\ d \in Connection /\ d.state = y /\ d.rcv = x /\ d.nxt = h.tcp.nxt
         /\ d.pending = h.tcp.pending /\ d.closeRequested = h.tcp.closeRequested
    <3> HIDE DEF y
    <3> QED BY <2>3, <2>8, <2>10, <2>12 DEF Connection
  <2>14. e.tcp = d /\ e.sock = g.sock /\ e.out = a.out /\ e.log = g.log
    <3> HIDE DEF d
    <3> QED BY <2>8, <2>9, <2>13, WithTcp
  <2> HIDE DEF d, e
  <2>15. /\ e.sock.active = h.sock.active /\ e.sock.state \in {"CLOSING", "EOF"}
         /\ e.sock.eof /\ e.sock.closeRequested = h.sock.closeRequested
         /\ e.sock.tx = h.sock.tx /\ e.sock.rx = h.sock.rx
    <3>1. SameEntry(e.sock,
                    [h.sock EXCEPT !.eof = TRUE,
                                   !.state = IF h.sock.state = "CLOSING" THEN h.sock.state
                                             ELSE "EOF"])
      BY <1>1, <2>8, <2>14, EventIs
    <3> QED BY <1>1, <3>1 DEF SameEntry, Socket
  <2>16. Sealed(e.sock) /\ ~Early(e.sock)
    BY <2>15 DEF Sealed, Early
  <2>17. Received(h.sock, r) /\ PeerBytes \in Nat
    BY StreamSpace DEF Exact
  <2>18. Awaited(h.sock, r) = PeerBytes
    <3>1. Plus(m.seq, Len(m.data)) = PeerSeq(Awaited(h.sock, r))
      BY <1>2, <1>4
    <3>2. PICK o \in 0..(PeerBytes + 1) :
           /\ m.seq = PeerSeq(o) /\ o + Len(m.data) = Awaited(h.sock, r)
           /\ m.data # <<>> => o + Len(m.data) <= PeerBytes
           /\ Counts(m.data, o) /\ ("FIN" \in m.flags => o + Len(m.data) = PeerBytes)
      BY <1>1, <2>17, <3>1, InOrderIs
    <3> QED BY <1>4, <3>2
  <2>19. ~h.sock.eof /\ Len(r) + Len(h.sock.rx) = PeerBytes
    <3>1. /\ h.sock.eof => Awaited(h.sock, r) = PeerBytes + 1
          /\ ~h.sock.eof => Awaited(h.sock, r) = Len(r) + Len(h.sock.rx)
      BY <1>1, <2>17, AwaitedIs
    <3>2. PeerBytes # PeerBytes + 1
      BY <2>17
    <3> QED BY <2>18, <3>1, <3>2
  <2>20. Awaited(e.sock, r) = PeerBytes + 1
    BY <2>15, <2>19 DEF Awaited
  <2>21. x = PeerSeq(PeerBytes + 1)
    <3>1. PeerBytes \in 0..(PeerBytes + 1) /\ 1 \in Nat /\ PeerBytes + 1 <= PeerBytes + 1
      BY <2>17
    <3> QED BY <1>2, <2>18, <3>1, PeerSeqIs DEF x
  <2>22. ~Deaf(e.tcp, e.sock, r) /\ e.tcp.state \notin {"CLOSED", "SYN_SENT"}
    <3>1. y \notin {"CLOSED", "SYN_SENT"}
      BY <1>2, <2>3, <2>8
    <3> HIDE DEF y
    <3> QED BY <2>13, <2>14, <2>20, <2>21, <3>1 DEF Deaf
  <2>23. Received(e.sock, r)
    BY <2>15, <2>16, <2>19 DEF Exact, Received
  <2>24. Hears(e.tcp, e.sock, r)
    BY <2>16, <2>22 DEF Hears
  <2>25. Queued(e.tcp, e.sock)
    BY <2>13, <2>14, <2>15, <2>16 DEF Exact, Queued
  <2>26. Numbered(e.tcp, e.sock)
    <3>1. e.tcp.state = CASE h.tcp.state = "ESTABLISHED" -> "CLOSE_WAIT"
                          [] h.tcp.state = "FIN_WAIT_1"  -> IF h.tcp.pending.active
                                                            THEN "CLOSING" ELSE "TIME_WAIT"
                          [] h.tcp.state = "FIN_WAIT_2"  -> "TIME_WAIT"
                          [] OTHER                       -> h.tcp.state
      BY <2>3, <2>8, <2>13, <2>14
    <3>2. h.tcp.state = "FIN_WAIT_1" => h.tcp.pending.active
      BY DEF Exact, Numbered
    <3>3. /\ h.tcp.state = "ESTABLISHED" => e.tcp.state = "CLOSE_WAIT"
          /\ h.tcp.state = "FIN_WAIT_1" => e.tcp.state = "CLOSING"
          /\ h.tcp.state = "FIN_WAIT_2" => e.tcp.state = "TIME_WAIT"
          /\ h.tcp.state \notin {"ESTABLISHED", "FIN_WAIT_1", "FIN_WAIT_2"} =>
               e.tcp.state = h.tcp.state
      BY <3>1, <3>2
    <3>4. Numbered(h.tcp, h.sock)
      BY DEF Exact
    <3> HIDE DEF y
    <3> QED BY <2>13, <2>14, <2>15, <3>3, <3>4 DEF Numbered, FinStates
  <2>27. Outgoing(e, r)
    BY <2>7, <2>14, <2>15, <2>16, <2>22 DEF Outgoing, Safe
  <2>28. Reports(e)
    <3>1. e.tcp.state = "FAILED" => h.tcp.state = "FAILED"
      BY <2>3, <2>8, <2>13, <2>14
    <3> QED BY <2>8, <2>14, <3>1 DEF Exact, Reports
  <2> QED BY <2>11, <2>23, <2>24, <2>25, <2>26, <2>27, <2>28 DEF Exact
<1> QED BY <1>3, <1>4

(* tcp_process_connection of a segment in order. *)
LEMMA ProcessInOrderExact ==
  ASSUME Inv, PeerExact, NEW h, Good(h), NEW r, Exact(h, r), h.tcp.state # "CLOSED",
         NEW m \in toHost, m \in Segment, From(m), "SYN" \notin m.flags
  PROVE  Exact(ProcessInOrder(h, m), r)
<1> DEFINE a == ProcessAck(h, m)
           b == AcceptPayload(a, m)
<1>1. h.tcp.state # "SYN_SENT"
  BY Hearing
<1>2. Good(a) /\ Exact(a, r)
  BY <1>1, ProcessAckGood, ProcessAckExact
<1>3. ProcessInOrder(h, m) = IF ~a.ok \/ a.tcp.state = "CLOSED" THEN a
                             ELSE IF ~b.ok THEN b ELSE AcceptFin(b, m)
  BY DEF ProcessInOrder, Active
<1> HIDE DEF a
<1>4. CASE ~a.ok \/ a.tcp.state = "CLOSED"
  BY <1>2, <1>3, <1>4
<1>5. CASE a.ok /\ a.tcp.state # "CLOSED"
  <2>1. Good(b) /\ Exact(b, r) /\ b.tcp.state # "CLOSED"
    BY <1>2, <1>5, AcceptPayloadGood, AcceptPayloadExact
  <2> HIDE DEF b
  <2> QED BY <1>3, <1>5, <2>1, AcceptFinExact
<1> QED BY <1>4, <1>5

(* tcp_process_connection. *)
LEMMA ProcessConnectionExact ==
  ASSUME Inv, PeerExact, NEW h, Good(h), NEW r, Exact(h, r), h.tcp.state # "CLOSED",
         NEW m \in toHost, m \in Segment, From(m)
  PROVE  Exact(ProcessConnection(h, m), r)
<1>1. h \in Hosts
  BY DEF Good, Sound
<1>2. CASE h.tcp.state = "SYN_SENT"
  BY <1>2, ProcessSynSentExact DEF ProcessConnection, In
<1>3. CASE h.tcp.state # "SYN_SENT"
  <2>1. Exact(SendAck(h), r) /\ Exact(Fail(h), r)
    BY <1>1, <1>3, SendAckExact, FailExact DEF Exact, Nearly
  <2>2. CASE h.tcp.state = "TIME_WAIT"
    BY <2>1, <2>2 DEF ProcessConnection, In
  <2>3. CASE h.tcp.state # "TIME_WAIT"
    <3>1. ProcessConnection(h, m) =
            IF m.seq # h.tcp.rcv THEN SendAck(h)
            ELSE IF {"RST", "SYN"} \cap m.flags # {} THEN Fail(h)
            ELSE IF "ACK" \notin m.flags THEN SendAck(h)
            ELSE ProcessInOrder(h, m)
      BY <1>3, <2>3 DEF ProcessConnection, In
    <3>2. {"RST", "SYN"} \cap m.flags = {} => "SYN" \notin m.flags
      OBVIOUS
    <3> QED BY <2>1, <3>1, <3>2, ProcessInOrderExact
  <2> QED BY <2>2, <2>3
<1> QED BY <1>2, <1>3

(* tcp_handle_ipv4. *)
LEMMA HandleIpv4Exact ==
  ASSUME Inv, PeerExact, NEW h, Good(h), NEW r, Exact(h, r),
         NEW m \in toHost, m \in Segment, From(m)
  PROVE  Exact(HandleIpv4(h, m), r)
<1>1. CASE h.tcp.state # "CLOSED"
  BY <1>1, ProcessConnectionExact DEF HandleIpv4, Active
<1>2. CASE h.tcp.state = "CLOSED"
  <2>1. HandleIpv4(h, m) = RawReset(h, m)
    BY <1>2 DEF HandleIpv4, Active
  <2>2. CASE "RST" \in m.flags \/ h.ip # "sent"
    BY <2>1, <2>2 DEF RawReset
  <2>3. CASE ~("RST" \in m.flags \/ h.ip # "sent")
    <3> DEFINE n == [seq |-> m.ack, ack |-> 0, flags |-> {"RST"}, win |-> 0, data |-> <<>>]
               o == Append(h.out, n)
               g == [h EXCEPT !.out = o]
    <3>1. h \in Hosts /\ h.out \in Seq(Segment) /\ "ACK" \in m.flags
      BY HostParts DEF Good, Sound, From
    <3>2. RawReset(h, m) = g
      BY <2>3, <3>1 DEF RawReset, Hosts
    <3>3. n.data = <<>> /\ "FIN" \notin n.flags
      OBVIOUS
    <3>4. g.tcp = h.tcp /\ g.sock = h.sock /\ g.out = o /\ g.log = h.log
      <4> HIDE DEF o
      <4> QED BY <3>1 DEF Hosts
    <3> HIDE DEF n, g
    <3>5. \A i \in 1..Len(o) : Carried(o[i]) /\ ("FIN" \in o[i].flags => Sealed(h.sock))
      BY <3>1, <3>3, EmptyOut DEF Exact, Outgoing, Safe
    <3> HIDE DEF o
    <3>6. ~(h.sock.active /\ h.sock.state = "OPEN")
      BY DEF Exact, Outgoing, PeerExact
    <3>7. ~Deaf(g.tcp, g.sock, r)
      BY <1>2, <3>4 DEF Deaf
    <3>8. Outgoing(g, r)
      BY <3>4, <3>5, <3>6, <3>7 DEF Outgoing, Safe
    <3>9. Reports(g)
      BY <3>4 DEF Exact, Reports
    <3> QED BY <2>1, <3>2, <3>4, <3>8, <3>9 DEF Exact
  <2> QED BY <2>2, <2>3
<1> QED BY <1>1, <1>2
-----------------------------------------------------------------------------
(* Calls. *)

(* A failure shown to the socket, with or without its connection. *)
LEMMA ErrorExact ==
  ASSUME NEW h \in Hosts, NEW r, Exact(h, r), NEW g, g.sock.state = "ERROR",
         g.sock.active = h.sock.active, g.sock.eof = h.sock.eof, g.sock.tx = h.sock.tx,
         g.sock.rx = h.sock.rx, g.out = h.out, g.log = h.log,
         \/ g.tcp = h.tcp /\ h.tcp.state # "SYN_SENT"
         \/ g.tcp.state = "CLOSED" /\ ~g.tcp.closeRequested
  PROVE  Exact(g, r)
<1>1. Sealed(g.sock) /\ ~Early(g.sock) /\ Awaited(g.sock, r) = Awaited(h.sock, r)
  BY DEF Sealed, Early, Awaited
<1>2. Received(g.sock, r)
  BY <1>1 DEF Exact, Received
<1>3. Queued(g.tcp, g.sock)
  BY <1>1 DEF Exact, Queued
<1>4. Deaf(g.tcp, g.sock, r) => Deaf(h.tcp, h.sock, r) /\ g.tcp = h.tcp
  BY <1>1 DEF Deaf
<1>5. Hears(g.tcp, g.sock, r)
  BY <1>1, <1>4 DEF Exact, Hears
<1>6. Numbered(g.tcp, g.sock)
  BY DEF Exact, Numbered, FinStates
<1>7. Outgoing(g, r)
  BY <1>1, <1>4 DEF Exact, Outgoing, Safe
<1>8. Reports(g)
  BY DEF Exact, Reports
<1> QED BY <1>2, <1>3, <1>5, <1>6, <1>7, <1>8 DEF Exact

(* net_socket_connect: the SYN leaves, or the socket fails. *)
LEMMA SocketConnectExact ==
  ASSUME PeerExact, NEW h, Good(h), NEW r, Exact(h, r), h.sock.active, h.sock.state = "OPEN"
  PROVE  Exact(SocketConnect(h), r)
<1> DEFINE s == [h.sock EXCEPT !.state = "CONNECTING"]
           f == [h EXCEPT !.sock = s]
           c == [NoConnection EXCEPT !.state = "SYN_SENT", !.una = Isn, !.nxt = Isn,
                                     !.localWindow = RxCapacity]
           e == [f EXCEPT !.tcp = c]
           q == QueueTracked(e, {"SYN"}, <<>>)
           g == Connect(f, Isn)
<1>1. /\ h \in Hosts /\ h.sock \in Socket /\ h.tcp.state = "CLOSED"
  BY HostParts DEF Good, Sound, Attached
<1>2. /\ h.out = <<>> /\ peer.state = "LISTEN" /\ toHost = {}
  BY DEF Exact, Outgoing, PeerExact
<1>3. Early(h.sock) /\ ~Sealed(h.sock) /\ Quiet
  BY <1>2 DEF Early, Sealed, Quiet
<1>4. /\ Awaited(h.sock, r) = 0 /\ written = 0 /\ ~h.sock.closeRequested /\ ~peer.fin
  BY <1>3 DEF Exact, Received, Queued
<1>5. /\ s \in Socket /\ s.active /\ s.state = "CONNECTING" /\ s.eof = h.sock.eof
      /\ s.closeRequested = h.sock.closeRequested /\ s.tx = h.sock.tx /\ s.rx = h.sock.rx
  BY <1>1 DEF Socket, SocketStates
<1>6. [h EXCEPT !.sock.state = "CONNECTING"] = f
  BY <1>1 DEF Hosts
<1>7. SocketConnect(h) = IF g.ok THEN [g EXCEPT !.sock.handle = TRUE]
                         ELSE [g EXCEPT !.sock = SetError(@)]
  BY <1>6 DEF SocketConnect
<1>8. g = IF q.ok THEN q ELSE [q EXCEPT !.tcp = NoConnection]
  BY DEF Connect
<1> HIDE DEF s, g
<1>9. f \in Hosts /\ f.sock = s /\ f.out = h.out /\ f.log = h.log
  BY <1>1, <1>5, WithSock
<1> HIDE DEF f
<1>10. /\ c \in Connection /\ c.state = "SYN_SENT" /\ c.nxt = Isn /\ c.rcv = 0
       /\ ~c.closeRequested
  BY EmptySegment, NetAssumption, SocketAssumption, OneTurn
     DEF Connection, TcpStates, NoConnection
<1> HIDE DEF c
<1>11. e \in Hosts /\ e.tcp = c /\ e.sock = s /\ e.out = h.out /\ e.log = h.log
  BY <1>9, <1>10, WithTcp
<1> HIDE DEF e
<1>12. {"SYN"} \in SUBSET Flags /\ <<>> \in Seq(Nat) /\ Consumed({"SYN"}, <<>>) = 1
  BY DEF Flags, Consumed
<1>13. PICK k \in Hosts :
           /\ q = TrySendPending(k)
           /\ k.sock = e.sock /\ k.out = e.out /\ k.log = e.log
           /\ k.tcp.state = e.tcp.state /\ k.tcp.closeRequested = e.tcp.closeRequested
           /\ k.tcp.rcv = e.tcp.rcv
           /\ k.tcp.nxt = Plus(e.tcp.nxt, Consumed({"SYN"}, <<>>))
           /\ k.tcp.pending.active /\ k.tcp.pending.seq = e.tcp.nxt
           /\ k.tcp.pending.flags = {"SYN"} /\ k.tcp.pending.data = <<>>
  <2>1. e \in Hosts
    BY <1>11
  <2> DEFINE F == {"SYN"}
             D == <<>>
  <2>3. F \in SUBSET Flags /\ D \in Seq(Nat)
    BY <1>12
  <2> HIDE DEF F, D
  <2>4. \E k \in Hosts :
           /\ QueueTracked(e, F, D) = TrySendPending(k)
           /\ k.sock = e.sock /\ k.out = e.out /\ k.log = e.log
           /\ k.tcp.state = e.tcp.state /\ k.tcp.closeRequested = e.tcp.closeRequested
           /\ k.tcp.rcv = e.tcp.rcv /\ k.tcp.nxt = Plus(e.tcp.nxt, Consumed(F, D))
           /\ k.tcp.pending.active /\ k.tcp.pending.seq = e.tcp.nxt
           /\ k.tcp.pending.flags = F /\ k.tcp.pending.data = D
    BY <2>1, <2>3, QueueTrackedIs
  <2> QED BY <2>4 DEF F, D
<1> HIDE DEF q
<1>14. Early(k.sock) /\ ~Sealed(k.sock) /\ Awaited(k.sock, r) = 0
  BY <1>4, <1>5, <1>11, <1>13 DEF Early, Sealed, Awaited
<1>15. Received(k.sock, r)
  BY <1>4, <1>5, <1>11, <1>13, <1>14 DEF Exact, Received
<1>16. Hears(k.tcp, k.sock, r)
  BY <1>3, <1>5, <1>10, <1>11, <1>13, <1>14 DEF Hears
<1>17. Queued(k.tcp, k.sock)
  BY <1>4, <1>5, <1>10, <1>11, <1>13 DEF Exact, Queued
<1>18. Numbered(k.tcp, k.sock)
  BY <1>10, <1>11, <1>12, <1>13 DEF Numbered, FinStates
<1>19. Outgoing(k, r)
  <2>1. k.out = <<>> /\ Len(<<>>) = 0 /\ 1..0 = {}
    BY <1>2, <1>11, <1>13
  <2> QED BY <1>5, <1>11, <1>13, <2>1 DEF Outgoing
<1>20. Reports(k)
  BY <1>10, <1>11, <1>13 DEF Exact, Reports
<1>21. Exact(k, r)
  BY <1>15, <1>16, <1>17, <1>18, <1>19, <1>20 DEF Exact
<1>22. q \in Hosts /\ Exact(q, r)
  BY <1>10, <1>11, <1>13, <1>21, TrySendExact
<1>23. CASE g.ok
  <2> DEFINE t == [g.sock EXCEPT !.handle = TRUE]
             d == [g EXCEPT !.sock = t]
  <2>1. CASE q.ok
    <3>1. g = q /\ g.sock \in Socket
      BY <1>8, <1>22, <2>1, HostParts
    <3>2. [g EXCEPT !.sock.handle = TRUE] = d
      BY <1>22, <3>1 DEF Hosts
    <3>3. t \in Socket /\ SameEntry(t, g.sock)
      BY <3>1 DEF SameEntry, Socket
    <3> HIDE DEF t
    <3>4. d.sock = t /\ d.tcp = g.tcp /\ d.out = g.out /\ d.log = g.log
      BY <1>22, <3>1, <3>3, WithSock
    <3> HIDE DEF d
    <3>5. SameConn(d.tcp, g.tcp)
      BY <3>4 DEF SameConn
    <3>6. Exact(d, r)
      BY <1>22, <3>1, <3>3, <3>4, <3>5, ExactFollows
    <3> QED BY <1>7, <1>23, <3>2, <3>6
  <2>2. CASE ~q.ok
    <3>1. g.ok = q.ok
      BY <1>8, <1>22, <2>2, EmptySegment, WithTcp
    <3> QED BY <1>23, <2>2, <3>1
  <2> QED BY <2>1, <2>2
<1>24. CASE ~g.ok
  <2>1. g = [q EXCEPT !.tcp = NoConnection]
    BY <1>8, <1>24
  <2>2. /\ g \in Hosts /\ g.tcp = NoConnection /\ g.sock = q.sock /\ g.out = q.out
        /\ g.log = q.log
    BY <1>22, <2>1, EmptySegment, WithTcp
  <2> DEFINE t == SetError(g.sock)
             d == [g EXCEPT !.sock = t]
  <2>3. g.sock \in Socket /\ SocketConnect(h) = d
    BY <1>7, <1>24, <2>2, HostParts
  <2>4. /\ t.state = "ERROR" /\ t.active = g.sock.active /\ t.eof = g.sock.eof
        /\ t.tx = g.sock.tx /\ t.rx = g.sock.rx
    BY <2>3 DEF SetError, WakeAll, Socket
  <2> HIDE DEF t
  <2>5. d.sock = t /\ d.tcp = g.tcp /\ d.out = g.out /\ d.log = g.log
    BY <2>2 DEF Hosts
  <2> HIDE DEF d
  <2>6. d.tcp.state = "CLOSED" /\ ~d.tcp.closeRequested
    BY <2>2, <2>5 DEF NoConnection
  <2>7. Exact(d, r)
    BY <1>22, <2>2, <2>4, <2>5, <2>6, ErrorExact
  <2> QED BY <2>3, <2>7
<1> QED BY <1>23, <1>24

(* tcp_set_receive_window. *)
LEMMA SetReceiveWindowExact ==
  ASSUME NEW h \in Hosts, NEW r, Exact(h, r), NEW window \in Nat
  PROVE  Exact(SetReceiveWindow(h, window), r)
<1> DEFINE c == [h.tcp EXCEPT !.localWindow = window]
           g == [h EXCEPT !.tcp = c]
<1>1. h.tcp \in Connection
  BY HostParts
<1>2. [h EXCEPT !.tcp.localWindow = window] = g
  BY <1>1 DEF Hosts
<1>3. c \in Connection /\ SameConn(c, h.tcp)
  BY <1>1 DEF Connection, SameConn
<1>4. SetReceiveWindow(h, window) = g \/
        (h.tcp.state = "ESTABLISHED" /\ SetReceiveWindow(h, window) = SendAck(g))
  BY <1>2 DEF SetReceiveWindow, In
<1> HIDE DEF c
<1>5. g \in Hosts /\ g.tcp = c /\ g.sock = h.sock /\ g.out = h.out /\ g.log = h.log
  BY <1>3, WithTcp
<1> HIDE DEF g
<1>6. SameEntry(g.sock, h.sock)
  BY <1>5 DEF SameEntry
<1>7. Exact(g, r)
  BY <1>3, <1>5, <1>6, ExactFollows
<1>8. h.tcp.state = "ESTABLISHED" => g.tcp.state \notin {"CLOSED", "SYN_SENT"}
  BY <1>3, <1>5 DEF SameConn
<1> QED BY <1>4, <1>5, <1>7, <1>8, SendAckExact

(* tcp_close, of a socket that takes no more bytes and has sent them all. *)
LEMMA CloseExact ==
  ASSUME NEW h, Good(h), NEW r, Exact(h, r), Sealed(h.sock), h.sock.tx = <<>>
  PROVE  Exact(Close(h), r) /\ Close(h).tcp.state # "SYN_SENT"
<1> DEFINE c == [h.tcp EXCEPT !.closeRequested = TRUE]
           g == [h EXCEPT !.tcp = c]
<1>1. h \in Hosts /\ h.tcp \in Connection
  BY HostParts DEF Good, Sound
<1>2. h.tcp.state # "SYN_SENT"
  BY DEF Exact, Hears, Sealed
<1>3. CASE h.tcp.state = "FAILED"
  <2>1. Close(h) = ClearConnection(h)
    BY <1>3 DEF Close, In
  <2>2. ClearConnection(h).tcp.state = "CLOSED"
    BY <1>1, ClearConnectionGood DEF Good, Sound
  <2> QED BY <1>1, <1>3, <2>1, <2>2, ClearConnectionExact DEF Exact, Reports
<1>4. CASE h.tcp.state # "FAILED"
  <2>1. Close(h) = BeginClose(g)
    <3>1. [h EXCEPT !.tcp.closeRequested = TRUE] = g
      BY <1>1 DEF Hosts
    <3> QED BY <1>2, <1>4, <3>1 DEF Close, In
  <2>2. /\ c \in Connection /\ c.localWindow = h.tcp.localWindow /\ c.state = h.tcp.state
        /\ c.una = h.tcp.una /\ c.nxt = h.tcp.nxt /\ c.pending = h.tcp.pending
        /\ c.rcv = h.tcp.rcv /\ c.closeRequested
    BY <1>1 DEF Connection
  <2> HIDE DEF c
  <2>3. Tracked(c)
    BY <2>2, TrackedFollows DEF Good, Sound
  <2>4. Good(g)
    BY <2>2, <2>3, GoodWith
  <2>5. g.tcp = c /\ g.sock = h.sock /\ g.out = h.out /\ g.log = h.log
    BY <1>1, <2>2, WithTcp
  <2> HIDE DEF g
  <2>6. Received(g.sock, r) /\ Queued(g.tcp, g.sock)
    BY <2>5 DEF Exact, Queued
  <2>7. Deaf(g.tcp, g.sock, r) <=> Deaf(h.tcp, h.sock, r)
    BY <2>2, <2>5 DEF Deaf
  <2>8. Hears(g.tcp, g.sock, r)
    BY <2>2, <2>5, <2>7 DEF Exact, Hears
  <2>9. Numbered(g.tcp, g.sock)
    BY <2>2, <2>5 DEF Exact, Numbered
  <2>10. Outgoing(g, r)
    BY <2>5, <2>7 DEF Exact, Outgoing, Safe
  <2>11. Reports(g)
    BY <2>2, <2>5 DEF Exact, Reports
  <2>12. Exact(g, r)
    BY <2>6, <2>8, <2>9, <2>10, <2>11 DEF Exact
  <2> QED BY <1>2, <2>1, <2>2, <2>4, <2>5, <2>12, BeginCloseExact
<1> QED BY <1>3, <1>4

(* net_socket_start_close. *)
LEMMA StartCloseExact ==
  ASSUME NEW h, Good(h), NEW r, Exact(h, r), Sealed(h.sock), h.sock.tx = <<>>
  PROVE  Exact(StartClose(h), r)
<1> DEFINE f == [h EXCEPT !.ok = TRUE]
           g == Close(f)
           s == [g.sock EXCEPT !.closeRequested = FALSE]
           t == SetError(s)
           d == [g EXCEPT !.sock = t]
<1>1. h \in Hosts /\ f \in Hosts /\ f.tcp = h.tcp /\ f.sock = h.sock /\ f.out = h.out
      /\ f.log = h.log
  BY WithOk DEF Good, Sound
<1>2. StartClose(h) = IF g.ok THEN g ELSE d
  BY DEF StartClose
<1> HIDE DEF f
<1>3. Good(f)
  BY <1>1, GoodFollows
<1>4. SameConn(f.tcp, h.tcp) /\ SameEntry(f.sock, h.sock)
  BY <1>1 DEF SameConn, SameEntry
<1>5. Exact(f, r)
  BY <1>1, <1>4, ExactFollows
<1>6. Exact(g, r) /\ g.tcp.state # "SYN_SENT" /\ Good(g)
  BY <1>1, <1>3, <1>5, CloseExact, CloseGood
<1> HIDE DEF g
<1>7. g \in Hosts /\ g.sock \in Socket
  BY <1>6, HostParts DEF Good, Sound
<1>8. /\ t.state = "ERROR" /\ t.active = g.sock.active /\ t.eof = g.sock.eof
      /\ t.tx = g.sock.tx /\ t.rx = g.sock.rx
  BY <1>7 DEF SetError, WakeAll, Socket
<1> HIDE DEF t
<1>9. d.sock = t /\ d.tcp = g.tcp /\ d.out = g.out /\ d.log = g.log
  BY <1>7 DEF Hosts
<1> HIDE DEF d
<1>10. Exact(d, r)
  BY <1>6, <1>7, <1>8, <1>9, ErrorExact
<1> QED BY <1>2, <1>6, <1>10

(* tcp_abort where there is a connection, then net_socket_release. *)
LEMMA AbortedExact ==
  ASSUME NEW h, Good(h), NEW r, Exact(h, r)
  PROVE  LET g == IF h.sock.handle THEN Abort(h) ELSE h
         IN Exact([g EXCEPT !.sock = Release(@)], r)
<1> DEFINE g == IF h.sock.handle THEN Abort(h) ELSE h
           d == [g EXCEPT !.sock = Release(@)]
           f == IF In(h, {"SYN_SENT", "FAILED", "TIME_WAIT"}) THEN h
                ELSE Transmit(h, h.tcp.nxt, {"RST", "ACK"}, <<>>)
           k == Transmit(h, h.tcp.nxt, {"RST", "ACK"}, <<>>)
<1>1. h \in Hosts /\ h.tcp.nxt \in Sequence /\ h.out \in Seq(Segment)
  BY HostParts, ConnectionParts DEF Good, Sound
<1>2. {"RST", "ACK"} \in SUBSET Flags /\ <<>> \in Seq(Nat)
  BY DEF Flags
<1>3. Good(g) /\ g.tcp.state = "CLOSED" /\ g.sock = h.sock
  BY AbortedGood, AbortGood
<1>4. \A i \in 1..Len(h.out) : Carried(h.out[i]) /\ ("FIN" \in h.out[i].flags => TRUE)
  BY DEF Exact, Outgoing, Safe
<1>5. k \in Hosts /\ k.log = h.log
  BY <1>1, <1>2, TransmitHost
<1>6. \A i \in 1..Len(k.out) : Carried(k.out[i])
  <2> DEFINE F == {"RST", "ACK"}
             D == <<>>
  <2>1. F \in SUBSET Flags /\ D \in Seq(Nat) /\ "FIN" \notin F /\ D = <<>>
    BY <1>2
  <2>2. k = Transmit(h, h.tcp.nxt, F, D)
    OBVIOUS
  <2> HIDE DEF F, D, k
  <2> QED BY <1>1, <1>4, <2>1, <2>2, BareOut
<1>7. Abort(h).out = f.out /\ Abort(h).log = f.log /\ f.log = h.log
  <2>1. f \in Hosts /\ f.log = h.log
    BY <1>1, <1>5
  <2>2. Abort(h) = [f EXCEPT !.tcp = NoConnection]
    BY DEF Abort
  <2> HIDE DEF f
  <2> QED BY <2>1, <2>2, WithTcp, EmptySegment
<1>8. (\A i \in 1..Len(g.out) : Carried(g.out[i])) /\ g.log = h.log
  <2>1. f = h \/ f = k
    OBVIOUS
  <2> HIDE DEF f, k
  <2>2. \A i \in 1..Len(f.out) : Carried(f.out[i])
    BY <1>4, <1>6, <2>1
  <2> QED BY <1>4, <1>7, <2>2
<1> HIDE DEF g, f, k
<1>9. g \in Hosts
  BY <1>3 DEF Good, Sound
<1>10. d.sock = Release(h.sock) /\ d.tcp = g.tcp /\ d.out = g.out /\ d.log = g.log
  BY <1>3, <1>9 DEF Hosts
<1> HIDE DEF d
<1>11. Reports(d)
  BY <1>3, <1>8, <1>10 DEF Exact, Reports
<1>12. Exact(d, r)
  BY <1>1, <1>3, <1>8, <1>10, <1>11, ReleasedExact DEF Exact
<1> QED BY <1>12 DEF d, g

(* net_socket_close. *)
LEMMA SocketCloseExact ==
  ASSUME NEW h, Good(h), NEW r, Exact(h, r)
  PROVE  Exact(SocketClose(h), r)
<1> DEFINE s == [h.sock EXCEPT !.closeRequested = TRUE, !.state = "CLOSING"]
           f == [h EXCEPT !.sock = s]
<1>1. h \in Hosts /\ h.sock \in Socket /\ Attended(h.sock) /\ Tracked(h.tcp)
  BY HostParts DEF Good, Sound
<1>2. CASE h.sock.state = "OPEN"
  <2> DEFINE d == [h EXCEPT !.sock = Release(@)]
  <2>1. SocketClose(h) = d /\ h.tcp.state = "CLOSED"
    BY <1>2 DEF SocketClose, Good, Attached
  <2>2. d.sock = Release(h.sock) /\ d.tcp = h.tcp /\ d.out = h.out /\ d.log = h.log
    BY <1>1 DEF Hosts
  <2> HIDE DEF d
  <2>3. Reports(d)
    BY <2>2 DEF Exact, Reports
  <2>4. \A i \in 1..Len(d.out) : Carried(d.out[i])
    BY <2>2 DEF Exact, Outgoing, Safe
  <2> QED BY <1>1, <2>1, <2>2, <2>3, <2>4, ReleasedExact DEF Exact
<1>3. CASE h.sock.state \in {"CONNECTING", "ERROR"}
  <2> DEFINE g == IF h.sock.handle THEN Abort(h) ELSE h
  <2>1. SocketClose(h) = [g EXCEPT !.sock = Release(@)]
    BY <1>3 DEF SocketClose
  <2>2. Exact([g EXCEPT !.sock = Release(@)], r)
    BY AbortedExact
  <2> QED BY <2>1, <2>2
<1>4. CASE h.sock.state \notin {"OPEN", "CONNECTING", "ERROR"}
  <2>1. [h EXCEPT !.sock.closeRequested = TRUE, !.sock.state = "CLOSING"] = f
    BY <1>1 DEF Hosts, Socket
  <2>2. SocketClose(h) = IF h.sock.tx = <<>> /\ h.sock.handle THEN StartClose(f) ELSE f
    BY <1>4, <2>1 DEF SocketClose
  <2>3. /\ s \in Socket /\ s.rx = h.sock.rx /\ s.queue = h.sock.queue /\ s.tx = h.sock.tx
        /\ s.woken = h.sock.woken /\ s.state = "CLOSING" /\ s.handle = h.sock.handle
        /\ s.active = h.sock.active /\ s.eof = h.sock.eof
    BY <1>1 DEF Socket, SocketStates
  <2> HIDE DEF s
  <2>4. EntryEvents(s) \subseteq EntryEvents(h.sock)
    BY <2>3 DEF EntryEvents
  <2>5. Attended(s)
    BY <1>1, <2>3, <2>4, AttendedFollows
  <2>6. Fits(h.tcp, s) /\ Attached(h.tcp, s)
    BY <2>3 DEF Good, Sound, Fits, Attached
  <2>7. Good(f) /\ f.sock = s /\ f.tcp = h.tcp /\ f.out = h.out /\ f.log = h.log
    BY <1>1, <2>3, <2>5, <2>6, GoodWithSock, WithSock
  <2> HIDE DEF f
  <2>8. Sealed(f.sock) /\ ~Early(f.sock) /\ Awaited(f.sock, r) = Awaited(h.sock, r)
    BY <2>3, <2>7 DEF Sealed, Early, Awaited
  <2>9. h.tcp.state # "SYN_SENT"
    BY <1>4 DEF Exact, Hears
  <2>10. Deaf(f.tcp, f.sock, r) <=> Deaf(h.tcp, h.sock, r)
    BY <2>7, <2>8 DEF Deaf
  <2>11. Received(f.sock, r)
    BY <2>3, <2>7, <2>8 DEF Exact, Received
  <2>12. Hears(f.tcp, f.sock, r)
    BY <2>7, <2>8, <2>9, <2>10 DEF Exact, Hears
  <2>13. Queued(f.tcp, f.sock)
    BY <2>3, <2>7, <2>8 DEF Exact, Queued
  <2>14. Numbered(f.tcp, f.sock)
    BY <2>3, <2>7 DEF Exact, Numbered
  <2>15. Outgoing(f, r)
    BY <2>3, <2>7, <2>8, <2>10 DEF Exact, Outgoing, Safe
  <2>16. Reports(f)
    BY <2>7 DEF Exact, Reports
  <2>17. Exact(f, r)
    BY <2>11, <2>12, <2>13, <2>14, <2>15, <2>16 DEF Exact
  <2> QED BY <2>2, <2>3, <2>7, <2>8, <2>17, StartCloseExact
<1> QED BY <1>2, <1>3, <1>4

(* tcp_maintain_pending. *)
LEMMA MaintainPendingExact ==
  ASSUME NEW h, Good(h), NEW r, Exact(h, r), NEW elapsed
  PROVE  Exact(MaintainPending(h, elapsed), r)
<1> DEFINE p == h.tcp.pending
           g == TrySendPending(h)
<1>1. /\ h \in Hosts /\ h.tcp \in Connection /\ p \in Pending
      /\ p.active => h.tcp.state \notin {"CLOSED", "FAILED"}
  BY HostParts, ConnectionParts DEF Good, Sound, Tracked
<1>2. g \in Hosts /\ Exact(g, r)
  BY <1>1, TrySendExact
<1>3. Exact(Fail(g), r) /\ Exact(Fail(h), r)
  <2> HIDE DEF g
  <2> QED BY <1>1, <1>2, FailExact DEF Exact, Nearly
<1>4. CASE ~p.active
  BY <1>4 DEF MaintainPending
<1>5. CASE p.active /\ ~p.sent
  <2>1. MaintainPending(h, elapsed) = IF g.ok THEN g ELSE Fail(g)
    BY <1>5 DEF MaintainPending
  <2> HIDE DEF g
  <2> QED BY <1>2, <1>3, <2>1
<1>6. CASE p.active /\ p.sent /\ elapsed # "rto"
  BY <1>6 DEF MaintainPending
<1>7. CASE p.active /\ p.sent /\ elapsed = "rto" /\ p.tries >= MaxRetransmissions
  BY <1>3, <1>7 DEF MaintainPending
<1>8. CASE p.active /\ p.sent /\ elapsed = "rto" /\ ~(p.tries >= MaxRetransmissions)
  <2> DEFINE n == p.tries + 1
             f == [h EXCEPT !.tcp.pending.sent = FALSE, !.tcp.pending.tries = n]
  <2>1. n \in 0..MaxRetransmissions
    BY <1>1, <1>8, PendingParts, TcpAssumption
  <2>2. MaintainPending(h, elapsed) = TrySendPending(f)
    BY <1>1, <1>8 DEF MaintainPending, Hosts, Connection, Pending
  <2> HIDE DEF n
  <2>3. /\ f \in Hosts /\ f.sock = h.sock /\ f.out = h.out /\ f.log = h.log
        /\ f.tcp.state = h.tcp.state /\ f.tcp.nxt = h.tcp.nxt /\ f.tcp.rcv = h.tcp.rcv
        /\ f.tcp.closeRequested = h.tcp.closeRequested
        /\ f.tcp.pending.active = h.tcp.pending.active
        /\ f.tcp.pending.seq = h.tcp.pending.seq
        /\ f.tcp.pending.flags = h.tcp.pending.flags
        /\ f.tcp.pending.data = h.tcp.pending.data
    BY <1>1, <2>1 DEF Hosts, Connection, Pending
  <2> HIDE DEF f
  <2>4. SameConn(f.tcp, h.tcp) /\ SameEntry(f.sock, h.sock)
    BY <2>3 DEF SameConn, SameEntry
  <2>5. Exact(f, r)
    BY <2>3, <2>4, ExactFollows
  <2> QED BY <1>1, <2>2, <2>3, <2>5, TrySendExact
<1> QED BY <1>1, <1>4, <1>5, <1>6, <1>7, <1>8, PendingParts

(* tcp_maintain_connection. *)
LEMMA MaintainExact ==
  ASSUME NEW h, Good(h), NEW r, Exact(h, r), NEW elapsed
  PROVE  Exact(Maintain(h, elapsed), r)
<1> DEFINE g == MaintainPending(h, elapsed)
<1>1. Good(g) /\ Exact(g, r) /\ h \in Hosts
  BY MaintainPendingGood, MaintainPendingExact DEF Good, Sound
<1>2. \/ Maintain(h, elapsed) = h \/ Maintain(h, elapsed) = g \/ Maintain(h, elapsed) = Fail(g)
      \/ h.tcp.state = "TIME_WAIT" /\ Maintain(h, elapsed) = ClearConnection(h)
      \/ g.tcp.closeRequested /\ Maintain(h, elapsed) = BeginClose(g)
  <2> HIDE DEF g
  <2> QED BY DEF Maintain, In, Active, g
<1> HIDE DEF g
<1>3. Exact(Fail(g), r)
  BY <1>1, FailExact DEF Exact, Nearly, Good, Sound
<1>4. g.tcp.closeRequested => Exact(BeginClose(g), r)
  BY <1>1, BeginCloseExact
<1>5. h.tcp.state = "TIME_WAIT" => Exact(ClearConnection(h), r)
  BY <1>1, ClearConnectionExact DEF Exact, Numbered
<1> QED BY <1>1, <1>2, <1>3, <1>4, <1>5

(* What tcp_send takes from the TX ring is the next part of the stream. *)
LEMMA RingSplits ==
  ASSUME NEW tx \in Seq(Nat), written \in 0..AppBytes, Len(tx) <= written,
         Counts(tx, written - Len(tx)), NEW n \in 1..Len(tx)
  PROVE  LET part == SubSeq(tx, 1, n)
             rest == SubSeq(tx, n + 1, Len(tx))
             seq == Plus(Isn, 1 + (written - Len(tx)))
         IN /\ part \in Seq(Nat) /\ Len(part) = n /\ Slice(seq, {"ACK"}, part)
            /\ rest \in Seq(Nat) /\ Len(rest) <= written /\ Counts(rest, written - Len(rest))
            /\ Plus(seq, n) = Plus(Isn, 1 + (written - Len(rest)))
<1> DEFINE part == SubSeq(tx, 1, n)
           rest == SubSeq(tx, n + 1, Len(tx))
           b == written - Len(tx)
           k == Len(tx) - n
           seq == Plus(Isn, 1 + b)
<1>1. /\ written \in Nat /\ Len(tx) \in Nat /\ n \in Nat /\ b \in Nat /\ k \in Nat
      /\ 0 + n <= Len(tx) /\ n + k <= Len(tx) /\ n + k = Len(tx) /\ 0 + 1 = 1 /\ 0 + n = n
      /\ b + 0 = b /\ b \in 0..written /\ b + n <= written
  BY StreamSpace
<1>2. ASSUME NEW x \in Nat, NEW y \in Nat, x + y <= Len(tx)
      PROVE  LET z == SubSeq(tx, x + 1, x + y)
             IN Counts(z, b + x) /\ z \in Seq(Nat) /\ Len(z) = y
  <2>1. Counts(tx, b) /\ b \in Nat
    BY <1>1
  <2>2. x + y <= Len(tx) \/ y = 0
    BY <1>2
  <2> HIDE DEF b
  <2>3. ASSUME NEW d \in Nat, Counts(tx, d)
        PROVE  LET s == SubSeq(tx, x + 1, x + y)
               IN Counts(s, d + x) /\ s \in Seq(Nat) /\ Len(s) = y
    BY <2>2, <2>3, CountsPart, Zenon
  <2> QED BY <2>1, <2>3
<1>3. part \in Seq(Nat) /\ Len(part) = n /\ Counts(part, b)
  <2>1. SubSeq(tx, 0 + 1, 0 + n) = part
    OBVIOUS
  <2> HIDE DEF part, b
  <2> QED BY <1>1, <1>2, <2>1, ZenonT(60)
<1>4. rest \in Seq(Nat) /\ Len(rest) = k /\ Counts(rest, b + n)
  <2>1. SubSeq(tx, n + 1, n + k) = rest
    BY <1>1
  <2> HIDE DEF rest, b, k
  <2> QED BY <1>1, <1>2, <2>1
<1>5. written - Len(rest) = b + n /\ Len(rest) <= written
  <2> HIDE DEF rest
  <2> QED BY <1>1, <1>4
<1>6. Slice(seq, {"ACK"}, part)
  <2> HIDE DEF part, b
  <2> QED BY <1>1, <1>3 DEF Slice
<1>7. Plus(seq, n) = Plus(Isn, 1 + (b + n))
  <2>1. /\ 1 + b \in 0..(written + 2) /\ n \in 0..(written + 2) /\ (1 + b) + n <= written + 2
        /\ (1 + b) + n = 1 + (b + n)
    BY <1>1
  <2> HIDE DEF b
  <2> QED BY <2>1, SentNumbers
<1> HIDE DEF part, rest
<1>8. Counts(rest, written - Len(rest)) /\ Plus(seq, n) = Plus(Isn, 1 + (written - Len(rest)))
  BY <1>4, <1>5, <1>7
<1> QED BY <1>3, <1>4, <1>5, <1>6, <1>8 DEF part, rest

(* Sending does not look at the socket. *)
LEMMA TrySendSock ==
  ASSUME NEW h \in Hosts, NEW s \in Socket
  PROVE  LET u == [h EXCEPT !.sock = s]
             v == TrySendPending(u)
             w == TrySendPending(h)
         IN v.tcp = w.tcp /\ v.out = w.out /\ v.log = w.log /\ v.ok = w.ok /\ v.sock = s
<1> DEFINE u == [h EXCEPT !.sock = s]
           p == h.tcp.pending
           f == Transmit(h, p.seq, p.flags, p.data)
           g == Transmit(u, p.seq, p.flags, p.data)
<1>1. /\ u \in Hosts /\ u.tcp = h.tcp /\ u.ip = h.ip /\ u.out = h.out /\ u.log = h.log
      /\ u.ok = h.ok /\ u.sock = s /\ h.tcp \in Connection /\ p \in Pending
  BY WithSock, HostParts, ConnectionParts
<1>2. p.seq \in Sequence /\ p.flags \in SUBSET Flags /\ p.data \in Seq(Nat)
  BY <1>1, PendingParts
<1> HIDE DEF u
<1>3. CASE ~p.active \/ p.sent
  BY <1>1, <1>3 DEF TrySendPending, u
<1>4. CASE p.active /\ ~p.sent
  <2>1. /\ f \in Hosts /\ f.tcp = h.tcp /\ f.log = h.log /\ g \in Hosts /\ g.tcp = h.tcp
        /\ g.log = h.log /\ g.sock = s
    <3> HIDE DEF p
    <3> QED BY <1>1, <1>2, TransmitHost
  <2>2. g.out = f.out
    BY <1>1 DEF Transmit, Hosts
  <2> DEFINE b == (h.ip = "sent")
             e == (h.ip # "error")
  <2>3. /\ TrySendPending(h) = [f EXCEPT !.tcp.pending.sent = b, !.ok = e]
        /\ TrySendPending(u) = [g EXCEPT !.tcp.pending.sent = b, !.ok = e]
    BY <1>1, <1>4 DEF TrySendPending
  <2> DEFINE c == [h.tcp EXCEPT !.pending.sent = b]
  <2>4. /\ [f EXCEPT !.tcp.pending.sent = b, !.ok = e] = [f EXCEPT !.tcp = c, !.ok = e]
        /\ [g EXCEPT !.tcp.pending.sent = b, !.ok = e] = [g EXCEPT !.tcp = c, !.ok = e]
    <3> HIDE DEF f, g, b, e
    <3> QED BY <2>1 DEF Hosts
  <2> HIDE DEF f, g, b, e, c
  <2>5. LET x == [f EXCEPT !.tcp = c, !.ok = e]
        IN x.tcp = c /\ x.out = f.out /\ x.log = f.log /\ x.ok = e
    BY <2>1 DEF Hosts
  <2>6. LET x == [g EXCEPT !.tcp = c, !.ok = e]
        IN x.tcp = c /\ x.out = g.out /\ x.log = g.log /\ x.ok = e /\ x.sock = g.sock
    BY <2>1 DEF Hosts
  <2> QED BY <2>1, <2>2, <2>3, <2>4, <2>5, <2>6 DEF u
<1> QED BY <1>3, <1>4

(* net_socket_drain: the bytes leave the ring when they are pending. *)
LEMMA DrainExact ==
  ASSUME NEW h, Good(h), NEW r, Exact(h, r)
  PROVE  Exact(Drain(h), r)
<1> DEFINE f == [h EXCEPT !.ok = TRUE]
           n == Accepted(h, Len(h.sock.tx))
           part == SubSeq(h.sock.tx, 1, n)
           rest == SubSeq(h.sock.tx, n + 1, Len(h.sock.tx))
           q == QueueTracked(f, {"ACK"}, part)
           g == Send(f, h.sock.tx)
<1>1. /\ h \in Hosts /\ h.sock \in Socket /\ h.sock.tx \in Seq(Nat) /\ Len(h.sock.tx) \in Nat
  BY HostParts DEF Good, Sound, Socket
<1>2. /\ f \in Hosts /\ f.tcp = h.tcp /\ f.sock = h.sock /\ f.out = h.out /\ f.log = h.log
      /\ f.ok
  BY <1>1, WithOk
<1>3. /\ n \in Nat /\ n <= Len(h.sock.tx)
      /\ n # 0 => /\ h.tcp.state \in {"ESTABLISHED", "CLOSE_WAIT"} /\ ~h.tcp.pending.active
  BY <1>1, AcceptedIs
<1>4. Accepted(f, Len(h.sock.tx)) = n
  BY <1>2 DEF Accepted, In
<1>5. Drain(h) = IF ~h.sock.handle \/ h.sock.tx = <<>>
                    \/ h.sock.state \notin {"CONNECTED", "CLOSING"} THEN h
                 ELSE IF ~g.ok THEN [g EXCEPT !.sock = SetError(@)]
                 ELSE IF n = 0 THEN g
                 ELSE [g EXCEPT !.sock =
                        WakeOne([g.sock EXCEPT !.tx = SubSeq(@, n + 1, Len(@))])]
  BY DEF Drain
<1>6. g = IF n = 0 THEN f ELSE IF ~q.ok THEN Fail(q)
          ELSE [q EXCEPT !.tcp.remoteWindow = @ - n]
  BY <1>4 DEF Send
<1> HIDE DEF n, f, g
<1>7. CASE n = 0
  <2>1. g = f /\ g.ok
    BY <1>2, <1>6, <1>7
  <2>2. SameConn(f.tcp, h.tcp) /\ SameEntry(f.sock, h.sock)
    BY <1>2 DEF SameConn, SameEntry
  <2>3. Exact(f, r)
    BY <1>2, <2>2, ExactFollows
  <2> QED BY <1>5, <1>7, <2>1, <2>3
<1>8. CASE n # 0
  <2>1. n \in 1..Len(h.sock.tx) /\ h.sock.tx # <<>>
    BY <1>1, <1>3, <1>8
  <2>2. /\ written \in 0..AppBytes /\ Len(h.sock.tx) <= written
        /\ Counts(h.sock.tx, written - Len(h.sock.tx))
        /\ h.tcp.nxt = Plus(Isn, 1 + (written - Len(h.sock.tx))) /\ ~h.tcp.closeRequested
    BY <1>3, <1>8, <2>1 DEF Exact, Queued, Numbered
  <2>3. /\ part \in Seq(Nat) /\ Len(part) = n /\ Slice(h.tcp.nxt, {"ACK"}, part)
        /\ rest \in Seq(Nat) /\ Len(rest) <= written /\ Counts(rest, written - Len(rest))
        /\ Plus(h.tcp.nxt, n) = Plus(Isn, 1 + (written - Len(rest)))
    BY <1>1, <2>1, <2>2, RingSplits
  <2> HIDE DEF part, rest
  <2>4. PICK k \in Hosts :
           /\ q = TrySendPending(k)
           /\ k.sock = f.sock /\ k.out = f.out /\ k.log = f.log
           /\ k.tcp.state = f.tcp.state /\ k.tcp.closeRequested = f.tcp.closeRequested
           /\ k.tcp.rcv = f.tcp.rcv /\ k.tcp.nxt = Plus(f.tcp.nxt, n)
           /\ k.tcp.pending.active /\ k.tcp.pending.seq = f.tcp.nxt
           /\ k.tcp.pending.flags = {"ACK"} /\ k.tcp.pending.data = part
    <3> DEFINE F == {"ACK"}
    <3>1. F \in SUBSET Flags /\ Consumed(F, part) = n
      BY <2>3, ConsumedIs DEF Flags
    <3> HIDE DEF F
    <3>2. \E k \in Hosts :
           /\ QueueTracked(f, F, part) = TrySendPending(k)
           /\ k.sock = f.sock /\ k.out = f.out /\ k.log = f.log
           /\ k.tcp.state = f.tcp.state /\ k.tcp.closeRequested = f.tcp.closeRequested
           /\ k.tcp.rcv = f.tcp.rcv /\ k.tcp.nxt = Plus(f.tcp.nxt, Consumed(F, part))
           /\ k.tcp.pending.active /\ k.tcp.pending.seq = f.tcp.nxt
           /\ k.tcp.pending.flags = F /\ k.tcp.pending.data = part
      BY <1>2, <2>3, <3>1, QueueTrackedIs
    <3> QED BY <3>1, <3>2 DEF F
  <2> HIDE DEF q
  <2> DEFINE s == [h.sock EXCEPT !.tx = rest]
             u == [k EXCEPT !.sock = s]
             v == TrySendPending(u)
  <2>5. /\ s \in Socket /\ s.active = h.sock.active /\ s.state = h.sock.state
        /\ s.eof = h.sock.eof /\ s.closeRequested = h.sock.closeRequested
        /\ s.tx = rest /\ s.rx = h.sock.rx
    BY <1>1, <2>3 DEF Socket
  <2> HIDE DEF s
  <2>6. u \in Hosts /\ u.sock = s /\ u.tcp = k.tcp /\ u.out = h.out /\ u.log = h.log
    BY <1>2, <2>4, <2>5, WithSock
  <2>7. v.tcp = q.tcp /\ v.out = q.out /\ v.log = q.log /\ v.ok = q.ok /\ v.sock = s
    BY <2>4, <2>5, TrySendSock
  <2> HIDE DEF u
  <2>8. /\ Awaited(s, r) = Awaited(h.sock, r) /\ (Early(s) <=> Early(h.sock))
        /\ (Sealed(s) <=> Sealed(h.sock))
    BY <2>5 DEF Awaited, Early, Sealed
  <2>9. /\ u.tcp.state = h.tcp.state /\ u.tcp.rcv = h.tcp.rcv
        /\ u.tcp.closeRequested = h.tcp.closeRequested
        /\ (Deaf(u.tcp, u.sock, r) <=> Deaf(h.tcp, h.sock, r))
    BY <1>2, <2>4, <2>6, <2>8 DEF Deaf
  <2>10. Received(u.sock, r)
    BY <2>5, <2>6, <2>8 DEF Exact, Received
  <2>11. Hears(u.tcp, u.sock, r)
    BY <2>5, <2>6, <2>8, <2>9 DEF Exact, Hears
  <2>12. Queued(u.tcp, u.sock)
    BY <2>2, <2>3, <2>5, <2>6, <2>8, <2>9 DEF Exact, Queued
  <2>13. Numbered(u.tcp, u.sock)
    <3>1. u.tcp.nxt = Plus(Isn, 1 + (written - Len(u.sock.tx)))
      BY <1>2, <2>3, <2>4, <2>5, <2>6
    <3>2. u.tcp.pending.flags = {"ACK"} /\ Slice(u.tcp.pending.seq, {"ACK"}, u.tcp.pending.data)
      BY <1>2, <2>3, <2>4, <2>6
    <3> QED BY <1>3, <1>8, <2>9, <3>1, <3>2 DEF Numbered, FinStates
  <2>14. Outgoing(u, r)
    BY <2>5, <2>6, <2>8, <2>9 DEF Exact, Outgoing, Safe
  <2>15. Reports(u)
    BY <2>6, <2>9 DEF Exact, Reports
  <2>16. v \in Hosts /\ Exact(v, r)
    <3>1. Exact(u, r)
      BY <2>10, <2>11, <2>12, <2>13, <2>14, <2>15 DEF Exact
    <3> QED BY <1>3, <1>8, <2>6, <2>9, <3>1, TrySendExact
  <2> HIDE DEF v
  <2>17. q \in Hosts /\ q.sock = h.sock /\ SameConn(q.tcp, k.tcp)
    BY <1>2, <2>4, TrySendIs
  <2>18. CASE ~q.ok
    <3>1. /\ q.tcp.state = h.tcp.state /\ q.tcp.rcv = h.tcp.rcv
          /\ q.tcp.closeRequested = h.tcp.closeRequested
      BY <1>2, <2>4, <2>17 DEF SameConn
    <3>2. Deaf(q.tcp, q.sock, r) <=> Deaf(h.tcp, h.sock, r)
      BY <2>17, <3>1 DEF Deaf
    <3>3. Deaf(v.tcp, v.sock, r) <=> Deaf(h.tcp, h.sock, r)
      BY <2>7, <2>8, <3>1 DEF Deaf
    <3>4. Received(q.sock, r) /\ Queued(q.tcp, q.sock)
      BY <2>17, <3>1 DEF Exact, Queued
    <3>5. Hears(q.tcp, q.sock, r)
      BY <2>17, <3>1, <3>2 DEF Exact, Hears
    <3>6. Outgoing(q, r)
      BY <2>5, <2>7, <2>8, <2>16, <2>17, <3>2, <3>3 DEF Exact, Outgoing, Safe
    <3>7. Reports(q)
      BY <2>7, <2>16 DEF Exact, Reports
    <3>8. Exact(Fail(q), r) /\ Fail(q).tcp.state \in {"CLOSED", "FAILED"}
      BY <2>17, <3>4, <3>5, <3>6, <3>7, FailExact DEF Nearly
    <3>9. g = Fail(q)
      BY <1>6, <1>8, <2>18
    <3>10. g \in Hosts /\ g.sock \in Socket
      <4>1. Good(f)
        BY <1>2, GoodFollows
      <4>2. Good(g)
        BY <1>1, <4>1, SendGood DEF g
      <4> QED BY <4>2, HostParts DEF Good, Sound
    <3> DEFINE t == SetError(g.sock)
               d == [g EXCEPT !.sock = t]
    <3>11. /\ t.state = "ERROR" /\ t.active = g.sock.active /\ t.eof = g.sock.eof
           /\ t.tx = g.sock.tx /\ t.rx = g.sock.rx
      BY <3>10 DEF SetError, WakeAll, Socket
    <3> HIDE DEF t
    <3>12. d.sock = t /\ d.tcp = g.tcp /\ d.out = g.out /\ d.log = g.log
      BY <3>10 DEF Hosts
    <3> HIDE DEF d
    <3>13. Exact(d, r)
      BY <3>8, <3>9, <3>10, <3>11, <3>12, ErrorExact
    <3>14. ~g.ok
      BY <2>17, <2>18, <3>4, <3>9 DEF Fail, Emit, Hosts
    <3>15. d = [g EXCEPT !.sock = SetError(@)]
      BY DEF d, t
    <3> QED BY <1>5, <3>13, <3>14, <3>15
  <2>19. CASE q.ok
    <3> DEFINE m == q.tcp.remoteWindow - n
               c == [q.tcp EXCEPT !.remoteWindow = m]
               e == [q EXCEPT !.tcp = c]
    <3>1. g = e
      <4>1. q.tcp \in Connection
        BY <2>17, HostParts
      <4>2. [q EXCEPT !.tcp.remoteWindow = @ - n] = e
        BY <2>17, <4>1 DEF Hosts, Connection
      <4> QED BY <1>6, <1>8, <2>19, <4>2
    <3>2. SameConn(c, q.tcp)
      <4>1. q.tcp \in Connection
        BY <2>17, HostParts
      <4> HIDE DEF m
      <4> QED BY <4>1 DEF SameConn, Connection
    <3> HIDE DEF c
    <3>3. e.tcp = c /\ e.sock = q.sock /\ e.out = q.out /\ e.log = q.log /\ e.ok = q.ok
      BY <2>17 DEF Hosts
    <3> HIDE DEF e
    <3> DEFINE t == WakeOne(s)
               d == [g EXCEPT !.sock = t]
    <3>4. [g.sock EXCEPT !.tx = SubSeq(@, n + 1, Len(@))] = s
      BY <1>1, <2>17, <3>1, <3>3 DEF s, rest, Socket
    <3>5. Drain(h) = h \/ Drain(h) = d
      BY <1>5, <1>8, <2>19, <3>1, <3>3, <3>4
    <3>6. SameEntry(t, s)
      BY <2>5, EventIs
    <3>7. d.sock = t /\ d.tcp = c /\ d.out = q.out /\ d.log = q.log
      <4>1. g \in Hosts
        <5>1. Good(f)
          BY <1>2, GoodFollows
        <5> QED BY <1>1, <5>1, SendGood DEF g, Good, Sound
      <4> HIDE DEF t
      <4> QED BY <3>1, <3>3, <4>1 DEF Hosts
    <3> HIDE DEF t, d
    <3>8. SameConn(d.tcp, v.tcp) /\ SameEntry(d.sock, v.sock)
      BY <2>7, <3>2, <3>6, <3>7
    <3>9. Exact(d, r)
      BY <2>7, <2>16, <3>7, <3>8, ExactFollows
    <3> QED BY <3>5, <3>9
  <2> QED BY <2>18, <2>19
<1> QED BY <1>7, <1>8

(* net_socket_maintain. *)
LEMMA SocketMaintainExact ==
  ASSUME NEW h, Good(h), NEW r, Exact(h, r)
  PROVE  Exact(SocketMaintain(h), r)
<1> DEFINE a == Drain(h)
           b == IF a.sock.handle
                THEN SetReceiveWindow(a, RxCapacity - Len(a.sock.rx)) ELSE a
<1>1. Good(a) /\ Exact(a, r)
  BY DrainGood, DrainExact
<1>2. SocketMaintain(h) = IF ~h.sock.active THEN h
                          ELSE IF b.sock.closeRequested /\ b.sock.tx = <<>> /\ b.sock.handle
                          THEN StartClose(b) ELSE b
  BY DEF SocketMaintain
<1> HIDE DEF a
<1>3. RxCapacity - Len(a.sock.rx) \in Nat /\ a \in Hosts
      /\ (RxCapacity - Len(a.sock.rx)) + Len(a.sock.rx) <= RxCapacity
  BY <1>1, FreeSpaceIs DEF Good, Sound, Attended
<1>4. Good(b) /\ Exact(b, r)
  BY <1>1, <1>3, SetReceiveWindowGood, SetReceiveWindowExact
<1> HIDE DEF b
<1>5. b.sock.closeRequested => Sealed(b.sock)
  BY <1>4 DEF Exact, Queued
<1> QED BY <1>2, <1>4, <1>5, StartCloseExact
-----------------------------------------------------------------------------
(* The peer. *)

(* The peer's stream so far. *)
Took(p) ==
  /\ p \in Peers /\ Counts(p.rcv, 0) /\ Len(p.rcv) <= written
  /\ p.fin => Len(p.rcv) = written

(* Of a segment it keeps what comes next, or nothing. *)
LEMMA NextBytes ==
  ASSUME written \in 0..AppBytes, NEW p, Took(p), NEW m \in Segment, Carried(m),
         m.data # <<>> \/ "FIN" \in m.flags
  PROVE  LET skip == (PeerRcvNxt(p) - m.seq) % SeqSpace
         IN /\ ~p.fin /\ skip < Len(m.data) =>
                 /\ Counts(m.data, Len(p.rcv) - skip) /\ skip <= Len(p.rcv)
                 /\ Len(p.rcv) - skip + Len(m.data) <= written
            /\ "FIN" \in m.flags => m.data = <<>>
            /\ ~p.fin /\ "FIN" \in m.flags /\ skip = 0 => Len(p.rcv) = written
<1> DEFINE n == Len(p.rcv)
           k == IF p.fin THEN 1 ELSE 0
           d == Len(m.data)
           skip == (PeerRcvNxt(p) - m.seq) % SeqSpace
<1>1. Slice(m.seq, m.flags, m.data)
  BY DEF Carried
<1>2. PICK b \in 0..written :
        /\ m.seq = Plus(Isn, 1 + b) /\ b + Len(m.data) <= written /\ Counts(m.data, b)
        /\ "FIN" \in m.flags => b = written /\ m.data = <<>>
  BY <1>1 DEF Slice
<1>3. /\ n \in Nat /\ n <= written /\ k \in {0, 1} /\ (k = 1 <=> p.fin) /\ d \in Nat
      /\ written \in Nat /\ b \in Nat /\ b <= written
  BY SegmentParts, StreamSpace DEF Took, Peers
<1>4. PeerRcvNxt(p) = Plus(Isn, 1 + n + k)
  BY DEF PeerRcvNxt
<1> HIDE DEF k
<1>5. 1 + n + k \in Nat /\ 1 + b \in Nat /\ 1 + n + k < SeqSpace /\ 1 + b < SeqSpace
  BY <1>3, StreamSpace
<1>6. skip = IF 1 + b <= 1 + n + k THEN (1 + n + k) - (1 + b)
             ELSE (1 + n + k) - (1 + b) + SeqSpace
  <2> DEFINE x == 1 + n + k
             y == 1 + b
  <2>1. skip = (Plus(Isn, x) - Plus(Isn, y)) % SeqSpace
    BY <1>2, <1>4
  <2>2. x \in Nat /\ y \in Nat /\ x < SeqSpace /\ y < SeqSpace /\ Isn \in Sequence
    BY <1>5, StreamSpace
  <2> HIDE DEF x, y
  <2>3. (Plus(Isn, x) - Plus(Isn, y)) % SeqSpace = IF y <= x THEN x - y ELSE x - y + SeqSpace
    BY <2>2, Distance
  <2> QED BY <2>1, <2>3 DEF x, y
<1>11. b + d <= written /\ written <= AppBytes /\ AppBytes \in Nat /\ SeqSpace \in Nat
       /\ 2 * (AppBytes + 2) < SeqSpace
  BY <1>2, StreamSpace
<1> HIDE DEF skip, n, d
<1>7. ASSUME k = 0, skip < d PROVE skip <= n /\ b = n - skip
  BY <1>3, <1>6, <1>7, <1>11
<1>8. skip = 0 /\ k = 0 => b = n
  BY <1>3, <1>6, StreamSpace
<1>9. ASSUME ~p.fin, skip < d
      PROVE  Counts(m.data, n - skip) /\ skip <= n /\ n - skip + d <= written
  BY <1>2, <1>3, <1>7, <1>9 DEF d
<1>10. ~p.fin /\ "FIN" \in m.flags /\ skip = 0 => n = written
  BY <1>2, <1>3, <1>8
<1> QED BY <1>2, <1>9, <1>10 DEF n, d, skip

(* What the peer takes of a segment continues what it has.                 *)
LEMMA BytesTaken ==
  ASSUME written \in 0..AppBytes, NEW p, Took(p), NEW m \in Segment, Carried(m),
         NEW room \in Nat
  PROVE  LET skip == (PeerRcvNxt(p) - m.seq) % SeqSpace
             fresh == IF ~p.fin /\ skip < Len(m.data) THEN Len(m.data) - skip ELSE 0
             kept == Min({fresh, room})
             whole == kept = fresh /\ (fresh > 0 \/ skip = Len(m.data))
             rcv == p.rcv \o SubSeq(m.data, skip + 1, skip + kept)
             fin == p.fin \/ ("FIN" \in m.flags /\ whole)
         IN /\ rcv \in Seq(Nat) /\ Counts(rcv, 0) /\ Len(p.rcv) <= Len(rcv)
            /\ Len(rcv) <= written /\ (fin => Len(rcv) = written)
<1> DEFINE n == Len(p.rcv)
           d == Len(m.data)
           skip == (PeerRcvNxt(p) - m.seq) % SeqSpace
           fresh == IF ~p.fin /\ skip < d THEN d - skip ELSE 0
           kept == Min({fresh, room})
           whole == kept = fresh /\ (fresh > 0 \/ skip = d)
           bytes == SubSeq(m.data, skip + 1, skip + kept)
           rcv == p.rcv \o bytes
           fin == p.fin \/ ("FIN" \in m.flags /\ whole)
<1>1. /\ m.data \in Seq(Nat) /\ d \in Nat /\ n \in Nat /\ p.rcv \in Seq(Nat) /\ n <= written
      /\ written \in Nat /\ Counts(p.rcv, 0) /\ m.seq \in Sequence
  BY SegmentParts, StreamSpace DEF Took, Peers
<1>2. skip \in Nat
  <2>1. PeerRcvNxt(p) \in Sequence /\ \A x, y \in Sequence : x - y \in Int
    BY PeerNumbers, OneTurn DEF Sequence, Took
  <2>2. PeerRcvNxt(p) - m.seq \in Int
    BY <1>1, <2>1
  <2> QED BY <2>2, OneTurn DEF Sequence
<1>3. /\ ~p.fin /\ skip < d =>
           Counts(m.data, n - skip) /\ skip <= n /\ n - skip + d <= written
      /\ "FIN" \in m.flags => m.data = <<>>
      /\ ~p.fin /\ "FIN" \in m.flags /\ skip = 0 => n = written
  <2>1. CASE m.data # <<>> \/ "FIN" \in m.flags
    BY <2>1, NextBytes
  <2>2. CASE m.data = <<>> /\ "FIN" \notin m.flags
    <3>1. d = 0
      BY <2>2
    <3> HIDE DEF skip, d
    <3>2. ~(skip < d)
      BY <1>2, <3>1
    <3> QED BY <2>2, <3>2
  <2> QED BY <2>1, <2>2
<1> HIDE DEF skip, n, d
<1>4. /\ fresh \in Nat /\ (fresh > 0 => skip + fresh = d /\ ~p.fin /\ skip < d)
  BY <1>1, <1>2
<1> HIDE DEF fresh
<1>5. kept \in Nat /\ kept <= fresh
  <2>1. \E x \in {fresh, room} : \A y \in {fresh, room} : x <= y
    BY <1>4
  <2>2. kept \in {fresh, room} /\ \A y \in {fresh, room} : kept <= y
    BY <2>1 DEF Min
  <2> QED BY <1>4, <2>2
<1> HIDE DEF kept
<1>6. /\ bytes \in Seq(Nat) /\ Len(bytes) = kept /\ Counts(bytes, 0 + n)
      /\ n + kept <= written
  <2>1. CASE kept = 0
    <3>1. skip + kept = skip /\ SubSeq(m.data, skip + 1, skip) = <<>> /\ n + kept <= written
      BY <1>1, <1>2, <2>1
    <3>2. bytes = <<>>
      BY <3>1
    <3> HIDE DEF bytes
    <3>3. Len(bytes) = 0 /\ bytes \in Seq(Nat)
      BY <3>2
    <3> QED BY <2>1, <3>1, <3>2, <3>3, CountsEmpty
  <2>2. CASE kept # 0
    <3>1. fresh > 0 /\ skip + kept <= d /\ n - skip \in Nat /\ (n - skip) + skip = n /\ 0 + n = n
      BY <1>1, <1>2, <1>3, <1>4, <1>5, <2>2
    <3>2. Counts(m.data, n - skip) /\ n + kept <= written
      BY <1>1, <1>2, <1>3, <1>4, <1>5, <3>1
    <3> DEFINE c == n - skip
    <3>3. skip + kept <= Len(m.data) \/ kept = 0
      BY <3>1 DEF d
    <3>4. c \in Nat /\ c + skip = n /\ Counts(m.data, c)
      BY <3>1, <3>2
    <3> HIDE DEF c
    <3>5. ASSUME NEW data \in Seq(Nat), NEW e \in Nat, Counts(data, e), NEW x \in Nat,
                 NEW y \in Nat, x + y <= Len(data) \/ y = 0
          PROVE  LET s == SubSeq(data, x + 1, x + y)
                 IN Counts(s, e + x) /\ s \in Seq(Nat) /\ Len(s) = y
      BY <3>5, CountsPart, Zenon
    <3>6. LET s == SubSeq(m.data, skip + 1, skip + kept)
          IN Counts(s, c + skip) /\ s \in Seq(Nat) /\ Len(s) = kept
      <4> DEFINE D == m.data
      <4>1. /\ D \in Seq(Nat) /\ Counts(D, c) /\ (skip + kept <= Len(D) \/ kept = 0)
            /\ skip \in Nat /\ kept \in Nat /\ c \in Nat
        BY <1>1, <1>2, <1>5, <3>3, <3>4
      <4> HIDE DEF D
      <4>2. LET s == SubSeq(D, skip + 1, skip + kept)
            IN Counts(s, c + skip) /\ s \in Seq(Nat) /\ Len(s) = kept
        BY <3>5, <4>1
      <4> QED BY <4>2 DEF D
    <3> QED BY <3>1, <3>2, <3>4, <3>6
  <2> QED BY <2>1, <2>2
<1> HIDE DEF bytes
<1>7. rcv \in Seq(Nat) /\ Counts(rcv, 0) /\ Len(rcv) = n + kept
  BY <1>1, <1>6, CountsJoin DEF n
<1>8. n <= Len(rcv) /\ Len(rcv) <= written
  BY <1>1, <1>5, <1>6, <1>7
<1>9. fin => Len(rcv) = written
  <2>1. CASE p.fin
    <3>1. n = written /\ kept = 0
      BY <1>4, <1>5, <2>1 DEF Took, n
    <3> QED BY <1>1, <1>7, <3>1
  <2>2. CASE ~p.fin /\ "FIN" \in m.flags /\ whole
    <3>1. d = 0
      BY <1>3, <2>2 DEF d
    <3>2. fresh = 0 /\ kept = 0 /\ skip = 0
      BY <1>1, <1>2, <1>4, <1>5, <2>2, <3>1
    <3> QED BY <1>1, <1>3, <1>7, <2>2, <3>2
  <2> QED BY <2>1, <2>2
<1> HIDE DEF rcv, fin
<1> QED BY <1>7, <1>8, <1>9 DEF rcv, bytes, kept, fresh, fin, whole, skip, n, d

(* What the segments of a handler that leaves c and s make of the peer. *)
Reached(p, c, s, r) ==
  /\ Took(p) /\ p.snt = peer.snt /\ Got(peer) <= Got(p)
  /\ peer.fin => p.fin
  /\ p.fin => Sealed(s)
  /\ p.state = "LISTEN" => peer.state = "LISTEN"
  /\ p.state \in {"LISTEN", "SYN_RCVD"} => peer.state \in {"LISTEN", "SYN_RCVD"}
  /\ Deaf(c, s, r) => p.state # "OPEN"

(* A mute segment that is no SYN acknowledges what was never sent. *)
LEMMA MuteIsFar ==
  ASSUME NEW m \in Segment, Mute(m), "SYN" \notin m.flags
  PROVE  (m.ack - PeerSeq(0)) % SeqSpace > 0
<1> DEFINE z == PeerSeq(0)
<1>1. m.ack = 0 /\ z # 0
  BY DEF Mute
<1>2. z \in 0..(SeqSpace - 1) /\ SeqSpace \in Nat
  BY PeerSeqIs, StreamSpace DEF Sequence
<1> HIDE DEF z
<1>3. (0 - z) % SeqSpace = SeqSpace - z
  BY <1>1, <1>2
<1>4. (m.ack - z) % SeqSpace > 0
  BY <1>1, <1>2, <1>3
<1> QED BY <1>4 DEF z

(* What the peer acknowledges only grows with what it took. *)
LEMMA GotGrows ==
  /\ \A p \in Peers : Got(p) \in Nat
  /\ \A p, q \in Peers :
       Len(p.rcv) <= Len(q.rcv) /\ (p.fin => q.fin) => Got(p) <= Got(q)
<1> DEFINE K(p) == IF p.fin THEN 1 ELSE 0
<1>1. ASSUME NEW p \in Peers PROVE Len(p.rcv) \in Nat /\ K(p) \in {0, 1}
  BY DEF Peers
<1>2. ASSUME NEW p \in Peers PROVE Got(p) = 1 + Len(p.rcv) + K(p)
  BY DEF Got
<1>3. ASSUME NEW p \in Peers, NEW q \in Peers, p.fin => q.fin PROVE K(p) <= K(q)
  BY <1>3 DEF Peers
<1> HIDE DEF K
<1>4. ASSUME NEW p \in Peers PROVE Got(p) \in Nat
  BY <1>1, <1>2
<1>5. ASSUME NEW p \in Peers, NEW q \in Peers, Len(p.rcv) <= Len(q.rcv), p.fin => q.fin
      PROVE  Got(p) <= Got(q)
  BY <1>1, <1>2, <1>3, <1>5
<1> QED BY <1>4, <1>5

(* A segment taken keeps what the peer has a part of what was written.     *)
LEMMA TakesReached ==
  ASSUME peer \in Peers, PeerExact, written \in 0..AppBytes, NEW c, NEW s, NEW r, NEW p,
         Reached(p, c, s, r), NEW m \in Segment, Safe(c, s, r, m), NEW room \in Nat
  PROVE  Reached(PeerTakes(p, m, room), c, s, r)
<1> DEFINE skip == (PeerRcvNxt(p) - m.seq) % SeqSpace
           fresh == IF ~p.fin /\ skip < Len(m.data) THEN Len(m.data) - skip ELSE 0
           kept == Min({fresh, room})
           whole == kept = fresh /\ (fresh > 0 \/ skip = Len(m.data))
           acked == (m.ack - PeerSeq(0)) % SeqSpace
           rcv == p.rcv \o SubSeq(m.data, skip + 1, skip + kept)
           fin == p.fin \/ ("FIN" \in m.flags /\ whole)
           ack == IF acked \in p.acked..p.snt THEN acked ELSE p.acked
           win == IF acked \in p.acked..p.snt THEN m.win ELSE p.win
           reset == [p EXCEPT !.state = "RESET"]
           syn == [p EXCEPT !.state = "SYN_RCVD", !.win = m.win]
           q == [p EXCEPT !.state = "OPEN", !.rcv = rcv, !.fin = fin, !.acked = ack,
                          !.win = win]
<1>1. /\ p \in Peers /\ Took(p) /\ m.win \in Nat /\ p.rcv \in Seq(Nat) /\ Len(p.rcv) \in Nat
      /\ p.fin \in BOOLEAN
  BY SegmentParts DEF Reached, Took, Peers
<1>2. /\ rcv \in Seq(Nat) /\ Counts(rcv, 0) /\ Len(p.rcv) <= Len(rcv)
      /\ Len(rcv) <= written /\ (fin => Len(rcv) = written)
  BY BytesTaken DEF Reached, Safe
<1>3. fin \in BOOLEAN /\ (p.fin => fin) /\ (fin => Sealed(s))
  BY <1>1 DEF Reached, Safe
<1>4. \/ PeerTakes(p, m, room) = p
      \/ PeerTakes(p, m, room) = reset
      \/ PeerTakes(p, m, room) = syn /\ p.state = "LISTEN"
      \/ /\ PeerTakes(p, m, room) = q /\ p.state \notin {"RESET", "LISTEN"}
         /\ "SYN" \notin m.flags /\ (p.state = "SYN_RCVD" => ~(acked > p.snt))
  <2> HIDE DEF Min, PeerRcvNxt, PeerSeq
  <2> QED BY <1>1 DEF PeerTakes, Peers
<1> HIDE DEF skip, fresh, kept, whole, rcv, fin, acked, ack, win
<1>5. CASE PeerTakes(p, m, room) = p
  BY <1>5
<1>6. ASSUME NEW t, Took(t), t.rcv = p.rcv, t.fin = p.fin, t.snt = p.snt,
             t.state = "RESET" \/ (t.state = "SYN_RCVD" /\ p.state = "LISTEN")
      PROVE  Reached(t, c, s, r)
  BY <1>6 DEF Reached, Got
<1>7. CASE PeerTakes(p, m, room) = reset
  <2>1. /\ reset \in Peers /\ reset.rcv = p.rcv /\ reset.fin = p.fin /\ reset.snt = p.snt
        /\ reset.state = "RESET"
    BY <1>1 DEF Peers
  <2> HIDE DEF reset
  <2> QED BY <1>1, <1>6, <1>7, <2>1 DEF Took
<1>8. CASE PeerTakes(p, m, room) = syn /\ p.state = "LISTEN"
  <2>1. /\ syn \in Peers /\ syn.rcv = p.rcv /\ syn.fin = p.fin /\ syn.snt = p.snt
        /\ syn.state = "SYN_RCVD"
    BY <1>1 DEF Peers
  <2> HIDE DEF syn
  <2> QED BY <1>1, <1>6, <1>8, <2>1 DEF Took
<1>9. CASE /\ PeerTakes(p, m, room) = q /\ p.state \notin {"RESET", "LISTEN"}
           /\ "SYN" \notin m.flags /\ (p.state = "SYN_RCVD" => ~(acked > p.snt))
  <2>1. q \in Peers
    BY <1>9, PeerTakesType, <1>1
  <2>2. /\ q.rcv = rcv /\ q.fin = fin /\ q.snt = p.snt /\ q.state = "OPEN"
    BY <1>1 DEF Peers
  <2> HIDE DEF q
  <2>3. Took(q)
    BY <1>2, <2>1, <2>2 DEF Took
  <2>4. Got(peer) <= Got(q)
    <3>1. Got(p) <= Got(q) /\ Got(p) \in Nat /\ Got(q) \in Nat
      BY <1>1, <1>2, <1>3, <2>1, <2>2, GotGrows
    <3>2. Got(peer) \in Nat /\ Got(peer) <= Got(p)
      BY GotGrows DEF Reached
    <3> QED BY <3>1, <3>2
  <2>5. ~Deaf(c, s, r)
    <3> SUFFICES ASSUME Deaf(c, s, r) PROVE FALSE
      OBVIOUS
    <3>1. p.state = "SYN_RCVD" /\ p.snt = 0
      BY <1>1, <1>9 DEF Reached, Peers, PeerExact
    <3>2. acked > 0
      BY <1>9, MuteIsFar DEF Safe, acked
    <3> QED BY <1>9, <3>1, <3>2
  <2> QED BY <1>3, <1>9, <2>2, <2>3, <2>4, <2>5 DEF Reached
<1> QED BY <1>4, <1>5, <1>7, <1>8, <1>9

(* However many of a handler's segments arrive. *)
LEMMA PeerAfterReached ==
  ASSUME peer \in Peers, PeerExact, written \in 0..AppBytes, NEW h, NEW r,
         h.out \in Seq(Segment), Exact(h, r), NEW arrive, NEW room \in Nat
  PROVE  Reached(PeerAfter(h.out, arrive, room), h.tcp, h.sock, r)
<1> DEFINE out == h.out
           after[i \in 0..Len(out)] ==
             IF i = 0 THEN peer
             ELSE IF i \in arrive THEN PeerTakes(after[i - 1], out[i], room)
             ELSE after[i - 1]
<1>1. PeerAfter(out, arrive, room) = after[Len(out)] /\ Len(out) \in Nat
  BY DEF PeerAfter
<1>2. TakenUpTo(peer, out, arrive, room, after, Len(out))
  <2>1. \E g : TakenUpTo(peer, out, arrive, room, g, Len(out))
    BY <1>1, TakenExists
  <2> QED BY <2>1 DEF after, TakenUpTo
<1> HIDE DEF after
<1>3. \A i \in 0..Len(out) :
        after[i] = IF i = 0 THEN peer
                   ELSE IF i \in arrive THEN PeerTakes(after[i - 1], out[i], room)
                   ELSE after[i - 1]
  BY <1>2 DEF TakenUpTo
<1> DEFINE Bad == {i \in 0..Len(out) : ~Reached(after[i], h.tcp, h.sock, r)}
<1>4. SUFFICES ASSUME Bad # {} PROVE FALSE
  BY <1>1
<1>5. PICK n \in Bad : \A k \in Bad : n <= k
  <2>1. Bad \in SUBSET Nat
    BY <1>1
  <2> HIDE DEF Bad
  <2> QED BY <1>4, <2>1, LeastNumber
<1>6. Reached(peer, h.tcp, h.sock, r)
  <2>1. Took(peer)
    BY DEF PeerExact, Took
  <2>2. Got(peer) <= Got(peer)
    <3>1. Len(peer.rcv) \in Nat
      BY DEF Peers
    <3> QED BY <3>1 DEF Got
  <2>3. peer.fin => Sealed(h.sock)
    BY DEF Exact, Queued
  <2>4. Deaf(h.tcp, h.sock, r) => peer.state # "OPEN"
    BY DEF Exact, Hears, Quiet
  <2> QED BY <2>1, <2>2, <2>3, <2>4 DEF Reached
<1>7. n \in 0..Len(out) /\ n # 0
  BY <1>3, <1>5, <1>6
<1>8. n - 1 \in 0..Len(out) /\ n \in 1..Len(out)
  BY <1>1, <1>7
<1>9. Reached(after[n - 1], h.tcp, h.sock, r)
  BY <1>1, <1>5, <1>8
<1>10. out[n] \in Segment /\ Safe(h.tcp, h.sock, r, out[n])
  BY <1>8 DEF Exact, Outgoing
<1>11. after[n] = IF n \in arrive THEN PeerTakes(after[n - 1], out[n], room)
                  ELSE after[n - 1]
  BY <1>3, <1>7
<1>12. Reached(after[n], h.tcp, h.sock, r)
  BY <1>9, <1>10, <1>11, TakesReached
<1> QED BY <1>5, <1>12
-----------------------------------------------------------------------------
(* Every step, again. *)

(* A handler starts from an exact record. *)
LEMMA HostExact ==
  ASSUME StreamInv, NEW ip \in {"sent", "held", "error"}
  PROVE  Good(Host(ip)) /\ Exact(Host(ip), read) /\ Host(ip).sock = sock /\ Host(ip).tcp = tcp
         /\ Host(ip) \in Hosts
<1>1. /\ Good(Host(ip)) /\ Host(ip).tcp = tcp /\ Host(ip).sock = sock
      /\ Host(ip).out = <<>>
  BY HostGood DEF StreamInv, Inv
<1>2. Host(ip) \in Hosts /\ Host(ip).log = {}
  BY <1>1 DEF Good, Sound, Host
<1>3. Outgoing(Host(ip), read)
  <2>1. Len(Host(ip).out) = 0
    BY <1>1
  <2> QED BY <1>1, <2>1 DEF Outgoing, StreamInv
<1>4. Reports(Host(ip))
  BY <1>1, <1>2 DEF Reports, StreamInv
<1> HIDE DEF Host
<1> QED BY <1>1, <1>2, <1>3, <1>4 DEF Exact, StreamInv

(* Nothing sent, nothing taken. *)
LEMMA PeerAfterNone ==
  ASSUME NEW out, Len(out) = 0, NEW arrive, NEW room
  PROVE  PeerAfter(out, arrive, room) = peer
<1> DEFINE after[i \in 0..Len(out)] ==
             IF i = 0 THEN peer
             ELSE IF i \in arrive THEN PeerTakes(after[i - 1], out[i], room)
             ELSE after[i - 1]
<1>1. PeerAfter(out, arrive, room) = after[Len(out)]
  BY DEF PeerAfter
<1>2. TakenUpTo(peer, out, arrive, room, after, Len(out))
  <2>1. \E g : TakenUpTo(peer, out, arrive, room, g, Len(out))
    BY TakenExists
  <2> QED BY <2>1 DEF after, TakenUpTo
<1> HIDE DEF after
<1>3. after[0] = peer
  BY <1>2 DEF TakenUpTo
<1> QED BY <1>1, <1>3

(* What the peer acknowledged before, it still may. *)
LEMMA FromStays ==
  ASSUME peer \in Peers, peer' \in Peers, Got(peer) <= Got(peer'), NEW m, From(m)
  PROVE  From(m)'
<1>1. Got(peer) \in Nat /\ Got(peer') \in Nat
  BY GotGrows
<1>2. PICK a \in 0..Got(peer) : m.ack = Plus(Isn, a)
  BY DEF From
<1>3. a \in 0..Got(peer')
  BY <1>1
<1> QED BY <1>2, <1>3 DEF From

(* It leaves an exact state, whatever arrives of what it sent. *)
LEMMA HostLeaves ==
  ASSUME StreamInv, NEW h, Good(h), Exact(h, read'), HostBecomes(h), toHost' \subseteq toHost,
         written' = written
  PROVE  StreamInv'
<1>1. Inv'
  BY HostStep DEF StreamInv
<1>2. /\ tcp' = h.tcp /\ sock' = h.sock /\ faults' = faults \cup (h.log \cap Faults)
      /\ ended' = IF sock.active /\ ~h.sock.active
                  THEN IF "CLOSED" \in h.log THEN "closed" ELSE "aborted"
                  ELSE ended
  BY DEF HostBecomes
<1>3. PICK arrive \in SUBSET DOMAIN h.out, room \in PeerRooms :
        peer' = PeerAfter(h.out, arrive, room)
  BY DEF HostBecomes
<1>4. /\ h.out \in Seq(Segment) /\ room \in Nat /\ peer \in Peers /\ peer' \in Peers
      /\ written \in 0..AppBytes /\ PeerExact
  BY <1>1, <1>3, HostParts, NetAssumption DEF Good, Sound, Inv, StreamInv
<1>5. Reached(peer', h.tcp, h.sock, read')
  BY <1>3, <1>4, PeerAfterReached
<1>6. PeerExact'
  <2>1. /\ Took(peer') /\ peer'.snt = peer.snt /\ Got(peer) <= Got(peer')
    BY <1>5 DEF Reached
  <2>2. \A m \in toHost : From(m)'
    BY <1>4, <2>1, FromStays DEF PeerExact
  <2>3. /\ Counts(peer'.rcv, 0) /\ Len(peer'.rcv) <= written
        /\ peer'.fin => Len(peer'.rcv) = written
    BY <2>1 DEF Took
  <2>4. /\ peer'.state \in {"LISTEN", "SYN_RCVD"} => peer'.snt = 0
        /\ peer'.snt <= PeerBytes + 1
        /\ peer'.state = "LISTEN" => toHost' = {}
    BY <1>4, <1>5, <2>1 DEF Reached, PeerExact
  <2> QED BY <2>2, <2>3, <2>4 DEF PeerExact
<1>7. Received(sock, read)'
  BY <1>2 DEF Exact, Received, Early, Awaited
<1>8. Hears(tcp, sock, read)'
  <2>1. Deaf(h.tcp, h.sock, read') => Quiet'
    BY <1>5 DEF Exact, Hears, Quiet, Reached
  <2> QED BY <1>2, <2>1 DEF Exact, Hears, Early, Awaited, Deaf
<1>9. Queued(tcp, sock)'
  BY <1>2, <1>5 DEF Exact, Queued, Sealed, Reached
<1>10. Numbered(tcp, sock)'
  <2>1. peer.fin => peer'.fin
    BY <1>5 DEF Reached
  <2> QED BY <1>2, <2>1 DEF Exact, Numbered, Slice
<1>11. (sock.active /\ sock.state = "OPEN" => peer.state = "LISTEN")'
  <2> SUFFICES ASSUME h.sock.active, h.sock.state = "OPEN" PROVE peer'.state = "LISTEN"
    BY <1>2
  <2>1. h.out = <<>> /\ peer.state = "LISTEN"
    BY DEF Exact, Outgoing
  <2>2. Len(h.out) = 0
    BY <2>1
  <2> QED BY <1>3, <2>1, <2>2, PeerAfterNone
<1>12. (tcp.state = "FAILED" => "ERROR" \in faults)'
  BY <1>2 DEF Exact, Reports, Faults
<1>13. (ended = "closed" => peer.fin \/ "ERROR" \in faults)'
  <2>1. peer.fin => peer'.fin
    BY <1>5 DEF Reached
  <2> QED BY <1>2, <2>1 DEF Exact, Reports, Faults, StreamInv
<1> QED BY <1>1, <1>6, <1>7, <1>8, <1>9, <1>10, <1>11, <1>12, <1>13 DEF StreamInv

(* Bytes move from the ring to the application. *)
LEMMA RingRead ==
  ASSUME NEW rx \in Seq(Nat), NEW r \in Seq(Nat), Counts(r, 0), Counts(rx, Len(r)),
         NEW n \in 1..Len(rx)
  PROVE  LET x == SubSeq(rx, n + 1, Len(rx))
             t == r \o SubSeq(rx, 1, n)
         IN /\ x \in Seq(Nat) /\ t \in Seq(Nat) /\ Counts(t, 0) /\ Counts(x, Len(t))
            /\ Len(t) = Len(r) + n /\ Len(x) = Len(rx) - n
<1> DEFINE x == SubSeq(rx, n + 1, Len(rx))
           y == SubSeq(rx, 1, n)
           t == r \o y
           k == Len(rx) - n
           e == Len(r)
<1>1. /\ n \in Nat /\ Len(rx) \in Nat /\ e \in Nat /\ k \in Nat /\ n + k = Len(rx)
      /\ 0 + n <= Len(rx) /\ 0 + 1 = 1 /\ 0 + n = n /\ e + 0 = e /\ 0 + e = e /\ 0 \in Nat
      /\ n + k <= Len(rx)
  OBVIOUS
<1>2. ASSUME NEW a \in Nat, NEW b \in Nat, a + b <= Len(rx)
      PROVE  LET s == SubSeq(rx, a + 1, a + b)
             IN Counts(s, e + a) /\ s \in Seq(Nat) /\ Len(s) = b
  <2>1. a + b <= Len(rx) \/ b = 0
    BY <1>2
  <2>2. ASSUME NEW d \in Nat, Counts(rx, d)
        PROVE  LET s == SubSeq(rx, a + 1, a + b)
               IN Counts(s, d + a) /\ s \in Seq(Nat) /\ Len(s) = b
    BY <2>1, <2>2, CountsPart, Zenon
  <2> QED BY <1>1, <2>2
<1>3. y \in Seq(Nat) /\ Len(y) = n /\ Counts(y, e)
  <2>1. SubSeq(rx, 0 + 1, 0 + n) = y
    OBVIOUS
  <2> HIDE DEF y, e
  <2> QED BY <1>1, <1>2, <2>1
<1>4. x \in Seq(Nat) /\ Len(x) = k /\ Counts(x, e + n)
  <2>1. SubSeq(rx, n + 1, n + k) = x
    BY <1>1
  <2> HIDE DEF x, e, k
  <2> QED BY <1>1, <1>2, <2>1
<1> HIDE DEF x, y
<1>5. Counts(y, 0 + Len(r))
  BY <1>1, <1>3
<1>6. Counts(t, 0) /\ t \in Seq(Nat) /\ Len(t) = Len(r) + Len(y)
  BY <1>1, <1>3, <1>5, CountsJoin
<1> HIDE DEF t
<1>7. Len(t) = e + n
  BY <1>3, <1>6
<1> QED BY <1>4, <1>6, <1>7 DEF x, y, t

(* A read of the application preserves StreamInv: the bytes it takes are   *)
(* the next of the peer's stream.                                          *)
LEMMA AppReceiveStream ==
  ASSUME StreamInv, NEW n \in Nat, NEW ip \in IpResults, AppReceive(n, ip)
  PROVE  StreamInv'
<1> DEFINE x == SubSeq(sock.rx, n + 1, Len(sock.rx))
           s == [sock EXCEPT !.rx = x]
           g == [Host(ip) EXCEPT !.sock = s]
           f == IF sock.handle THEN SetReceiveWindow(g, RxCapacity - Len(g.sock.rx)) ELSE g
<1>1. /\ sock \in Socket /\ sock.rx \in Seq(Nat) /\ ip \in {"sent", "held", "error"}
      /\ Len(sock.rx) \in Nat /\ Inv
  BY NetAssumption DEF StreamInv, Inv, Kept, Attended, Formed, Socket
<1>2. Good(g) /\ Good(f) /\ HostBecomes(f)
  BY <1>1, AppReceiveGood
<1>3. Exact(Host(ip), read) /\ Host(ip) \in Hosts /\ Host(ip).sock = sock /\ Host(ip).tcp = tcp
  BY <1>1, HostExact
<1>4. /\ n \in 1..Len(sock.rx) /\ toHost' = toHost /\ written' = written
      /\ read' = read \o SubSeq(sock.rx, 1, n)
  BY DEF AppReceive
<1>5. /\ read \in Seq(Nat) /\ Counts(read, 0) /\ Counts(sock.rx, Len(read))
      /\ Len(read) + Len(sock.rx) <= PeerBytes /\ Len(read) \in Nat
      /\ (sock.eof => Len(read) + Len(sock.rx) = PeerBytes)
      /\ Early(sock) => Awaited(sock, read) = 0 /\ written = 0
  BY DEF StreamInv, Received
<1>6. /\ x \in Seq(Nat) /\ read' \in Seq(Nat) /\ Counts(read', 0) /\ Counts(x, Len(read'))
      /\ Len(read') = Len(read) + n /\ Len(x) = Len(sock.rx) - n
  BY <1>1, <1>4, <1>5, RingRead
<1> HIDE DEF x
<1>7. Len(read') + Len(x) = Len(read) + Len(sock.rx)
  <2> DEFINE a == Len(read)
             b == Len(sock.rx)
  <2>1. a \in Nat /\ b \in Nat /\ Len(read') = a + n /\ Len(x) = b - n
    BY <1>1, <1>5, <1>6
  <2> HIDE DEF a, b
  <2>2. (a + n) + (b - n) = a + b
    BY <2>1
  <2> QED BY <2>1, <2>2 DEF a, b
<1>8. /\ s.active = sock.active /\ s.state = sock.state /\ s.eof = sock.eof /\ s.rx = x
      /\ s.closeRequested = sock.closeRequested /\ s.tx = sock.tx
  BY <1>1 DEF Socket
<1>9. /\ g.tcp = tcp /\ g.sock = s /\ g.out = Host(ip).out /\ g.log = Host(ip).log
      /\ g \in Hosts
  <2> HIDE DEF s
  <2> QED BY <1>2, <1>3 DEF Hosts, Good, Sound
<1> HIDE DEF s
<1>10. /\ Awaited(s, read') = Awaited(sock, read) /\ (Early(s) <=> Early(sock))
       /\ (Sealed(s) <=> Sealed(sock)) /\ (Deaf(tcp, s, read') <=> Deaf(tcp, sock, read))
  BY <1>7, <1>8 DEF Awaited, Early, Sealed, Deaf
<1>11. Received(s, read')
  BY <1>5, <1>6, <1>7, <1>8, <1>10 DEF Received
<1>12. Hears(tcp, s, read')
  BY <1>8, <1>10 DEF StreamInv, Hears
<1>13. Queued(tcp, s)
  BY <1>8, <1>10 DEF StreamInv, Queued
<1>14. Numbered(tcp, s)
  BY <1>8 DEF StreamInv, Numbered
<1>15. Outgoing(g, read') /\ Reports(g)
  <2> HIDE DEF g, Host
  <2>1. Reports(g)
    BY <1>3, <1>9 DEF Exact, Reports
  <2>2. \A m : Safe(tcp, sock, read, m) => Safe(tcp, s, read', m)
    BY <1>10 DEF Safe
  <2>3. Outgoing(g, read')
    BY <1>3, <1>8, <1>9, <2>2 DEF Exact, Outgoing
  <2> QED BY <2>1, <2>3
<1> HIDE DEF g
<1>16. Exact(g, read')
  BY <1>9, <1>11, <1>12, <1>13, <1>14, <1>15 DEF Exact
<1>17. Exact(f, read')
  <2>1. RxCapacity - Len(g.sock.rx) \in Nat
    BY <1>2, FreeSpaceIs DEF Good, Sound, Attended
  <2> QED BY <1>9, <1>16, <2>1, SetReceiveWindowExact
<1> HIDE DEF f
<1> QED BY <1>2, <1>4, <1>17, HostLeaves

(* A part without FIN stays one when more is written. *)
LEMMA SliceGrows ==
  ASSUME written \in Nat, NEW n \in Nat, written' = written + n, NEW seq, NEW flags,
         "FIN" \notin flags, NEW data \in Seq(Nat), Slice(seq, flags, data)
  PROVE  Slice(seq, flags, data)'
<1>1. PICK b \in 0..written :
        seq = Plus(Isn, 1 + b) /\ b + Len(data) <= written /\ Counts(data, b)
  BY DEF Slice
<1>2. Len(data) \in Nat
  OBVIOUS
<1>3. b \in 0..(written + n) /\ b + Len(data) <= written + n
  BY <1>1, <1>2
<1> QED BY <1>1, <1>3 DEF Slice

(* Bytes move from the application to the ring. *)
LEMMA RingWritten ==
  ASSUME NEW tx \in Seq(Nat), NEW w \in Nat, Len(tx) <= w, Counts(tx, w - Len(tx)),
         NEW n \in Nat, w + n <= AppBytes
  PROVE  LET x == tx \o SubSeq(Numbers(AppBytes), w + 1, w + n)
         IN /\ x \in Seq(Nat) /\ Len(x) = Len(tx) + n /\ Len(x) <= w + n
            /\ Counts(x, (w + n) - Len(x)) /\ (w + n) - Len(x) = w - Len(tx)
<1> DEFINE D == Numbers(AppBytes)
           y == SubSeq(D, w + 1, w + n)
           x == tx \o y
           l == Len(tx)
           b == w - l
<1>1. AppBytes \in Nat /\ l \in Nat /\ l <= w /\ b \in Nat /\ b + l = w /\ 0 + w = w /\ 0 \in Nat
  BY StreamSpace
<1>2. D \in Seq(Nat) /\ Counts(D, 0) /\ (w + n <= Len(D) \/ n = 0)
  BY <1>1, NumbersCount
<1> HIDE DEF D
<1>3. y \in Seq(Nat) /\ Len(y) = n /\ Counts(y, w)
  <2>1. ASSUME NEW d \in Nat, Counts(D, d)
        PROVE  LET s == SubSeq(D, w + 1, w + n)
               IN Counts(s, d + w) /\ s \in Seq(Nat) /\ Len(s) = n
    BY <1>2, <2>1, CountsPart, Zenon
  <2>2. LET s == SubSeq(D, w + 1, w + n)
        IN Counts(s, 0 + w) /\ s \in Seq(Nat) /\ Len(s) = n
    BY <1>1, <1>2, <2>1
  <2> QED BY <1>1, <2>2
<1> HIDE DEF y
<1>4. Counts(tx, b) /\ Counts(y, b + Len(tx))
  BY <1>1, <1>3
<1> HIDE DEF b
<1>5. Counts(x, b) /\ x \in Seq(Nat) /\ Len(x) = Len(tx) + Len(y)
  BY <1>1, <1>3, <1>4, CountsJoin
<1> HIDE DEF x
<1>6. Len(x) = l + n
  BY <1>3, <1>5
<1> HIDE DEF l
<1>7. Len(x) <= w + n /\ (w + n) - Len(x) = b
  BY <1>1, <1>6
<1> QED BY <1>5, <1>6, <1>7 DEF x, y, b, l, D

(* A write of the application preserves StreamInv.                         *)
LEMMA AppSendStream ==
  ASSUME StreamInv, NEW n \in 1..AppBytes, AppSend(n)
  PROVE  StreamInv'
<1> DEFINE x == sock.tx \o SubSeq(Numbers(AppBytes), written + 1, written + n)
<1>1. Inv'
  BY AppSendInv DEF StreamInv
<1>2. /\ sock \in Socket /\ sock.tx \in Seq(Nat) /\ tcp \in Connection /\ peer \in Peers
      /\ written \in Nat /\ written <= AppBytes /\ n \in Nat /\ AppBytes \in Nat
  BY StreamSpace DEF StreamInv, Inv, Kept, Attended, Formed, Socket
<1>3. /\ sock.active /\ sock.state = "CONNECTED" /\ n \in 1..(AppBytes - written)
      /\ sock' = [sock EXCEPT !.tx = x] /\ written' = written + n
      /\ UNCHANGED <<tcp, toHost, peer, read, faults, ended>>
  BY <1>2 DEF AppSend, Socket
<1>4. Queued(tcp, sock) /\ Numbered(tcp, sock) /\ PeerExact /\ Received(sock, read)
      /\ Hears(tcp, sock, read)
  BY DEF StreamInv
<1>5. ~sock.closeRequested /\ ~tcp.closeRequested /\ ~peer.fin /\ ~Early(sock)
  BY <1>3, <1>4 DEF Queued, Sealed, Early
<1>6. tcp.state \notin FinStates
  BY <1>4, <1>5 DEF Numbered
<1>8. /\ x \in Seq(Nat) /\ Len(x) <= written' /\ Counts(x, written' - Len(x))
      /\ written' - Len(x) = written - Len(sock.tx) /\ written' \in 0..AppBytes
  <2>1. written + n <= AppBytes /\ Len(sock.tx) <= written
        /\ Counts(sock.tx, written - Len(sock.tx))
    BY <1>2, <1>3, <1>4 DEF Queued
  <2>2. written' \in 0..AppBytes
    BY <1>2, <1>3, <2>1
  <2> QED BY <1>2, <1>3, <2>1, <2>2, RingWritten
<1> HIDE DEF x
<1>9. /\ sock'.active = sock.active /\ sock'.state = sock.state /\ sock'.eof = sock.eof
      /\ sock'.rx = sock.rx /\ sock'.closeRequested = sock.closeRequested /\ sock'.tx = x
  BY <1>2, <1>3 DEF Socket
<1>10. /\ Awaited(sock', read) = Awaited(sock, read) /\ (Early(sock') <=> Early(sock))
       /\ (Sealed(sock') <=> Sealed(sock)) /\ (Deaf(tcp, sock', read) <=> Deaf(tcp, sock, read))
  BY <1>9 DEF Awaited, Early, Sealed, Deaf
<1>11. PeerExact'
  <2>1. Len(peer.rcv) \in Nat /\ Len(peer.rcv) <= written
    BY <1>2, <1>4 DEF Peers, PeerExact
  <2>2. Len(peer.rcv) <= written'
    BY <1>2, <1>3, <2>1
  <2> QED BY <1>3, <1>4, <1>5, <2>2 DEF PeerExact, From, Got
<1>12. Received(sock, read)'
  <2>1. /\ read \in Seq(Nat) /\ Counts(read, 0) /\ Counts(sock'.rx, Len(read))
        /\ Len(read) + Len(sock'.rx) <= PeerBytes
        /\ (sock'.eof => Len(read) + Len(sock'.rx) = PeerBytes) /\ ~Early(sock')
    BY <1>4, <1>5, <1>9, <1>10 DEF Received
  <2>2. read' = read
    BY <1>3
  <2> QED BY <2>1, <2>2 DEF Received, Early
<1>13. Hears(tcp, sock, read)'
  BY <1>3, <1>4, <1>9, <1>10 DEF Hears, Quiet, Early, Awaited, Deaf
<1>14. Queued(tcp, sock)'
  BY <1>3, <1>5, <1>8, <1>9 DEF Queued
<1>15. Numbered(tcp, sock)'
  <2>1. tcp.state \in {"ESTABLISHED", "CLOSE_WAIT"} /\ tcp.pending.active =>
          Slice(tcp.pending.seq, tcp.pending.flags, tcp.pending.data)'
    <3> SUFFICES ASSUME tcp.state \in {"ESTABLISHED", "CLOSE_WAIT"}, tcp.pending.active
                 PROVE  Slice(tcp.pending.seq, tcp.pending.flags, tcp.pending.data)'
      OBVIOUS
    <3> DEFINE seq == tcp.pending.seq
               flags == tcp.pending.flags
               data == tcp.pending.data
    <3>1. flags = {"ACK"} /\ Slice(seq, flags, data)
      BY <1>4 DEF Numbered
    <3>2. data \in Seq(Nat) /\ "FIN" \notin flags /\ tcp' = tcp
      BY <1>2, <1>3, <3>1, ConnectionParts, PendingParts
    <3>3. seq' = seq /\ flags' = flags /\ data' = data
      BY <3>2
    <3>4. ASSUME NEW a, NEW d, NEW e \in Seq(Nat), "FIN" \notin d, Slice(a, d, e)
          PROVE  Slice(a, d, e)'
      BY <1>2, <1>3, <3>4, SliceGrows
    <3>5. Slice(seq, flags, data)'
      BY <3>1, <3>2, <3>3, <3>4 DEF Slice
    <3> QED BY <3>5
  <2>2. tcp' = tcp
    BY <1>3
  <2> QED BY <1>4, <1>6, <1>8, <1>9, <2>1, <2>2 DEF Numbered, FinStates
<1> QED BY <1>1, <1>3, <1>9, <1>11, <1>12, <1>13, <1>14, <1>15 DEF StreamInv

(* A step of the host that sends nothing. *)
LEMMA HostMoves ==
  ASSUME StreamInv, Inv', UNCHANGED <<toHost, peer, written, read>>,
         Received(sock', read), Hears(tcp', sock', read), Queued(tcp', sock'),
         Numbered(tcp', sock'), sock'.active /\ sock'.state = "OPEN" => peer.state = "LISTEN",
         tcp'.state = "FAILED" => "ERROR" \in faults',
         ended' = "closed" => peer.fin \/ "ERROR" \in faults'
  PROVE  StreamInv'
<1>1. PeerExact'
  BY DEF StreamInv, PeerExact, From, Got
<1>2. Received(sock, read)'
  BY DEF Received, Early, Awaited
<1>3. Hears(tcp, sock, read)'
  BY DEF Hears, Quiet, Early, Awaited, Deaf
<1>4. Queued(tcp, sock)'
  BY DEF Queued, Sealed
<1>5. Numbered(tcp, sock)'
  BY DEF Numbered, Slice
<1> QED BY <1>1, <1>2, <1>3, <1>4, <1>5 DEF StreamInv

(* net_socket_wait, and a woken task that runs. *)
LEMMA TasksStream ==
  ASSUME StreamInv, NEW t \in Waiters, TaskWaits(t) \/ TaskRuns(t)
  PROVE  StreamInv'
<1>1. Inv'
  BY TaskWaitsInv, TaskRunsInv DEF StreamInv
<1>2. UNCHANGED <<tcp, toHost, peer, written, read, faults, ended>>
  BY DEF TaskWaits, TaskRuns
<1>3. sock \in Socket
  BY DEF StreamInv, Inv, Kept, Attended, Formed
<1>4. SameEntry(sock', sock)
  BY <1>3 DEF TaskWaits, TaskRuns, SameEntry, Socket
<1>5. SameConn(tcp', tcp)
  BY <1>2 DEF SameConn
<1>6. /\ Received(sock', read) /\ Hears(tcp', sock', read) /\ Queued(tcp', sock')
      /\ Numbered(tcp', sock')
  BY <1>4, <1>5, SameFollows DEF StreamInv
<1> QED BY <1>1, <1>2, <1>4, <1>6, HostMoves DEF StreamInv, SameEntry

(* net_socket_reset. *)
LEMMA NetResetStream ==
  ASSUME StreamInv, NetReset
  PROVE  StreamInv'
<1> DEFINE h == Host("error")
           g == IF tcp.state # "CLOSED" THEN ClearConnection(h) ELSE h
           s == Release(sock)
           f == [h EXCEPT !.tcp = g.tcp, !.sock = s]
<1>1. Inv'
  BY NetResetInv DEF StreamInv
<1>2. /\ h \in Hosts /\ h.sock = sock /\ h.tcp = tcp /\ Exact(h, read) /\ h.log = {}
      /\ Len(h.out) = 0 /\ sock \in Socket
  <2>1. Exact(h, read) /\ h.sock = sock /\ h.tcp = tcp /\ h \in Hosts
    BY HostExact
  <2>2. h.log = {} /\ h.out = <<>>
    BY DEF Host
  <2> HIDE DEF h
  <2> QED BY <2>1, <2>2, HostParts
<1> HIDE DEF h
<1>3. g.tcp.state = "CLOSED" /\ (g.sock = s \/ g.sock = sock)
  <2>1. CASE tcp.state = "CLOSED"
    BY <1>2, <2>1
  <2>2. CASE tcp.state # "CLOSED"
    <3> DEFINE e == [h EXCEPT !.tcp = NoConnection]
    <3>1. e \in Hosts /\ e.sock = sock /\ e.tcp = NoConnection
      BY <1>2, WithTcp, EmptySegment
    <3>2. g = Emit(e, "CLOSED")
      BY <2>2 DEF ClearConnection
    <3> HIDE DEF e
    <3>3. g.sock = SocketEvent(sock, "CLOSED") /\ g.tcp = NoConnection
      BY <3>1, <3>2, EmitIs
    <3> QED BY <1>2, <3>3, EventIs, EmptySegment
  <2> QED BY <2>1, <2>2
<1>4. /\ sock.active /\ tcp' = g.tcp
      /\ sock' = IF g.sock.active THEN Release(g.sock) ELSE g.sock
      /\ faults' = faults /\ ended' = "aborted" /\ UNCHANGED <<toHost, peer, written, read>>
  BY DEF NetReset, h
<1> HIDE DEF g
<1>5. ~s.active
  BY <1>2, EventIs
<1>6. sock' = s
  BY <1>3, <1>4, <1>5
<1>7. f.tcp = tcp' /\ f.sock = Release(h.sock) /\ f.out = h.out /\ f.log = {}
  BY <1>2, <1>4 DEF Hosts
<1>8. f.tcp.state = "CLOSED" /\ f.sock = sock'
  BY <1>2, <1>3, <1>4, <1>6, <1>7
<1> HIDE DEF f
<1>9. Reports(f) /\ \A i \in 1..Len(f.out) : Carried(f.out[i])
  BY <1>2, <1>7, <1>8 DEF Reports
<1>10. Exact(f, read)
  BY <1>2, <1>7, <1>8, <1>9, ReleasedExact DEF Exact
<1>11. /\ Received(sock', read) /\ Hears(tcp', sock', read) /\ Queued(tcp', sock')
       /\ Numbered(tcp', sock')
  BY <1>7, <1>8, <1>10 DEF Exact
<1> QED BY <1>1, <1>3, <1>4, <1>5, <1>6, <1>11, HostMoves

(* A step of the peer: one more segment in flight. *)
LEMMA PeerMoves ==
  ASSUME StreamInv, Inv', NEW m, toHost' = toHost \cup {m}, From(m),
         peer'.rcv = peer.rcv, peer'.fin = peer.fin, peer'.snt <= PeerBytes + 1,
         \/ peer.state = "SYN_RCVD" /\ peer' = peer /\ "SYN" \in m.flags
         \/ peer.state = "OPEN" /\ peer'.state \in {"OPEN", "RESET"},
         UNCHANGED <<hostVars, written, read>>
  PROVE  StreamInv'
<1>1. UNCHANGED <<tcp, sock, faults, ended>>
  BY DEF hostVars
<1>2. PeerExact'
  <2>1. Got(peer') = Got(peer)
    BY DEF Got
  <2>2. \A k \in toHost' : From(k)'
    BY <2>1 DEF StreamInv, PeerExact, From
  <2> QED BY <2>2 DEF StreamInv, PeerExact
<1>3. Received(sock, read)'
  BY <1>1 DEF StreamInv, Received, Early, Awaited
<1>4. Hears(tcp, sock, read)'
  <2>1. Deaf(tcp, sock, read) => Quiet'
    BY DEF StreamInv, Hears, Quiet
  <2> QED BY <1>1, <2>1 DEF StreamInv, Hears, Early, Awaited, Deaf
<1>5. Queued(tcp, sock)'
  BY <1>1 DEF StreamInv, Queued, Sealed
<1>6. Numbered(tcp, sock)'
  BY <1>1 DEF StreamInv, Numbered, Slice
<1>7. ~(sock.active /\ sock.state = "OPEN")
  BY DEF StreamInv
<1> QED BY <1>1, <1>2, <1>3, <1>4, <1>5, <1>6, <1>7 DEF StreamInv

(* What it sends, but for the SYN. *)
LEMMA PeerSegmentFrom ==
  ASSUME peer \in Peers, NEW o \in 0..(PeerBytes + 1), NEW l \in Nat,
         l = 0 \/ o + l <= PeerBytes, NEW flags, "ACK" \in flags, "SYN" \notin flags,
         "FIN" \in flags => o + l = PeerBytes, NEW w
  PROVE  From(PeerSegment(o, l, flags, w))
<1> DEFINE D == Numbers(PeerBytes)
           y == SubSeq(D, o + 1, o + l)
           m == PeerSegment(o, l, flags, w)
<1>1. PeerBytes \in Nat /\ o \in Nat /\ 0 + o = o /\ 0 \in Nat /\ (o + l <= PeerBytes \/ l = 0)
  BY StreamSpace
<1>2. D \in Seq(Nat) /\ Counts(D, 0) /\ Len(D) = PeerBytes
  BY <1>1, NumbersCount
<1>3. /\ m.seq = PeerSeq(o) /\ m.ack = PeerRcvNxt(peer) /\ m.flags = flags /\ m.data = y
  BY DEF PeerSegment
<1> HIDE DEF D, m
<1>4. y \in Seq(Nat) /\ Len(y) = l /\ Counts(y, o)
  <2>1. ASSUME NEW d \in Nat, Counts(D, d), NEW a \in Nat, a + l <= Len(D) \/ l = 0
        PROVE  LET s == SubSeq(D, a + 1, a + l)
               IN Counts(s, d + a) /\ s \in Seq(Nat) /\ Len(s) = l
    BY <1>2, <2>1, CountsPart, ZenonT(60)
  <2>2. LET s == SubSeq(D, o + 1, o + l)
        IN Counts(s, 0 + o) /\ s \in Seq(Nat) /\ Len(s) = l
    BY <1>1, <1>2, <2>1
  <2> QED BY <1>1, <2>2
<1> HIDE DEF y
<1>5. y # <<>> => o + Len(y) <= PeerBytes
  BY <1>1, <1>4
<1>6. m.ack = Plus(Isn, Got(peer)) /\ Got(peer) \in 0..Got(peer)
  <2>1. m.ack = Plus(Isn, Got(peer))
    BY <1>3 DEF PeerRcvNxt, Got
  <2>2. Got(peer) \in Nat
    BY GotGrows
  <2> QED BY <2>1, <2>2
<1> QED BY <1>3, <1>4, <1>5, <1>6 DEF From, m

(* The peer's own steps preserve StreamInv: what it sends is a part of its *)
(* stream, at its place.                                                   *)
LEMMA PeerStream ==
  ASSUME StreamInv,
         \/ \E w \in PeerWindows : PeerAccepts(w)
         \/ \E o \in 0..(PeerBytes + 1), l \in 0..Mss, f \in BOOLEAN, w \in PeerWindows :
              PeerSends(o, l, f, w)
         \/ PeerResets
  PROVE  StreamInv'
<1>1. Inv'
  BY PeerInv DEF StreamInv
<1>2. /\ peer \in Peers /\ peer.snt \in Nat /\ peer.snt <= PeerBytes + 1 /\ PeerBytes \in Nat
      /\ Mss \in Nat
  BY StreamSpace, HalfSpace DEF StreamInv, Inv, PeerExact, Peers
<1>3. ASSUME NEW w \in PeerWindows, PeerAccepts(w) PROVE StreamInv'
  <2> DEFINE m == [seq |-> PeerIsn, ack |-> Plus(Isn, 1), flags |-> {"SYN", "ACK"},
                   win |-> w, data |-> <<>>]
  <2>1. /\ toHost' = toHost \cup {m} /\ peer.state = "SYN_RCVD" /\ peer' = peer
        /\ UNCHANGED <<hostVars, written, read>>
    BY <1>3 DEF PeerAccepts, Put
  <2>2. 1 \in 0..Got(peer)
    <3>1. written \in Nat /\ Len(peer.rcv) <= written /\ (peer.fin => Len(peer.rcv) = written)
      BY StreamSpace DEF StreamInv, Inv, PeerExact
    <3>2. Got(peer) \in 1..(written + 2)
      BY <1>2, <3>1, GotIs
    <3> QED BY <3>1, <3>2
  <2>3. From(m) /\ "SYN" \in m.flags
    BY <2>2 DEF From
  <2> HIDE DEF m
  <2> QED BY <1>1, <1>2, <2>1, <2>3, PeerMoves
<1>4. ASSUME NEW o \in 0..(PeerBytes + 1), NEW l \in 0..Mss, NEW f \in BOOLEAN,
             NEW w \in PeerWindows, PeerSends(o, l, f, w)
      PROVE  StreamInv'
  <2> DEFINE flags == IF f THEN {"FIN", "ACK"} ELSE {"ACK"}
             m == PeerSegment(o, l, flags, w)
             k == IF f THEN 1 ELSE 0
             e == o + l + k
             x == Max({peer.snt, e})
  <2>1. /\ toHost' = toHost \cup {m} /\ peer.state = "OPEN" /\ peer' = [peer EXCEPT !.snt = x]
        /\ UNCHANGED <<hostVars, written, read>>
    BY <1>2, <1>4 DEF PeerSends, Put, Peers
  <2>2. /\ o \in Nat /\ l \in Nat /\ (l = 0 \/ o + l <= PeerBytes)
        /\ (f => o + l = PeerBytes)
    BY <1>2, <1>4 DEF PeerSends
  <2>3. "ACK" \in flags /\ "SYN" \notin flags /\ ("FIN" \in flags => f)
    OBVIOUS
  <2> HIDE DEF flags
  <2>4. From(m)
    BY <1>2, <2>2, <2>3, PeerSegmentFrom
  <2> HIDE DEF m
  <2>5. k \in {0, 1} /\ (k = 1 => f)
    OBVIOUS
  <2> HIDE DEF k
  <2>6. e \in Nat /\ e <= PeerBytes + 1
    BY <1>2, <2>2, <2>5
  <2> HIDE DEF e
  <2>7. x \in Nat /\ x <= PeerBytes + 1
    <3>1. \E a \in {peer.snt, e} : \A b \in {peer.snt, e} : a >= b
      BY <1>2, <2>6
    <3>2. x \in {peer.snt, e}
      BY <3>1 DEF Max
    <3> QED BY <1>2, <2>6, <3>2
  <2> HIDE DEF x
  <2>8. /\ peer'.rcv = peer.rcv /\ peer'.fin = peer.fin /\ peer'.snt = x
        /\ peer'.state = peer.state
    BY <1>2, <2>1 DEF Peers
  <2> QED BY <1>1, <2>1, <2>4, <2>7, <2>8, PeerMoves
<1>5. CASE PeerResets
  <2> DEFINE F == {"RST", "ACK"}
             m == PeerSegment(peer.snt, 0, F, 0)
  <2>1. /\ toHost' = toHost \cup {m} /\ peer.state = "OPEN"
        /\ peer' = [peer EXCEPT !.state = "RESET"] /\ UNCHANGED <<hostVars, written, read>>
    BY <1>5 DEF PeerResets, Put
  <2>2. "ACK" \in F /\ "SYN" \notin F /\ "FIN" \notin F
    OBVIOUS
  <2> HIDE DEF F
  <2>3. From(m)
    BY <1>2, <2>2, PeerSegmentFrom
  <2> HIDE DEF m
  <2>4. /\ peer'.rcv = peer.rcv /\ peer'.fin = peer.fin /\ peer'.snt = peer.snt
        /\ peer'.state = "RESET"
    BY <1>2, <2>1 DEF Peers
  <2> QED BY <1>1, <1>2, <2>1, <2>3, <2>4, PeerMoves
<1> QED BY <1>3, <1>4, <1>5

(* The stream invariant holds at first... *)
LEMMA InitStream == Init => StreamInv
<1> SUFFICES ASSUME Init PROVE StreamInv
  OBVIOUS
<1>1. Inv
  BY InitInv
<1>2. /\ tcp.state = "CLOSED" /\ ~tcp.closeRequested /\ peer.state = "LISTEN"
      /\ ~peer.fin /\ peer.rcv = <<>> /\ peer.snt = 0
  BY EmptySegment DEF Init, NoConnection, PeerInit
<1>3. /\ sock.active /\ sock.state = "OPEN" /\ ~sock.eof /\ ~sock.closeRequested
      /\ sock.tx = <<>> /\ sock.rx = <<>>
  BY DEF Init, NewSocket
<1>4. /\ toHost = {} /\ written = 0 /\ read = <<>> /\ faults = {} /\ ended = "no"
  BY DEF Init
<1>5. /\ Len(read) = 0 /\ Len(sock.rx) = 0 /\ Len(sock.tx) = 0 /\ Len(peer.rcv) = 0
      /\ read \in Seq(Nat)
  BY <1>2, <1>3, <1>4
<1>6. PeerExact
  BY <1>2, <1>4, <1>5, CountsEmpty, StreamSpace DEF PeerExact
<1>7. Awaited(sock, read) = 0
  BY <1>3, <1>5 DEF Awaited
<1>8. Received(sock, read)
  BY <1>3, <1>4, <1>5, <1>7, CountsEmpty, StreamSpace DEF Received
<1>9. Hears(tcp, sock, read) /\ Numbered(tcp, sock)
  BY <1>2 DEF Hears, Deaf, Numbered, FinStates
<1>10. Queued(tcp, sock)
  BY <1>2, <1>3, <1>4, <1>5, CountsEmpty, StreamSpace DEF Queued
<1> QED BY <1>1, <1>2, <1>4, <1>6, <1>8, <1>9, <1>10 DEF StreamInv

(* ... and every step keeps it. *)
LEMMA NextStream == StreamInv /\ [Next]_vars => StreamInv'
<1> SUFFICES ASSUME StreamInv, [Next]_vars PROVE StreamInv'
  OBVIOUS
<1>0. \A ip \in IpResults : /\ Good(Host(ip)) /\ Exact(Host(ip), read) /\ Host(ip).sock = sock
                             /\ ip \in {"sent", "held", "error"}
  BY HostExact, NetAssumption
<1>1. ASSUME NEW ip \in IpResults, AppConnect(ip) PROVE StreamInv'
  <2>1. /\ sock.active /\ sock.state = "OPEN" /\ HostBecomes(SocketConnect(Host(ip)))
        /\ UNCHANGED <<toHost, written, read>>
    BY <1>1 DEF AppConnect
  <2>2. Good(SocketConnect(Host(ip)))
    BY <1>0, <2>1, SocketConnectGood
  <2>3. Exact(SocketConnect(Host(ip)), read)
    BY <1>0, <2>1, SocketConnectExact DEF StreamInv
  <2>4. read' = read
    BY <2>1
  <2> QED BY <2>1, <2>2, <2>3, <2>4, HostLeaves
<1>2. ASSUME NEW ip \in IpResults, AppClose(ip) PROVE StreamInv'
  <2>1. HostBecomes(SocketClose(Host(ip))) /\ UNCHANGED <<toHost, written, read>>
    BY <1>2 DEF AppClose
  <2>2. Good(SocketClose(Host(ip))) /\ Exact(SocketClose(Host(ip)), read)
    BY <1>0, SocketCloseGood, SocketCloseExact
  <2> QED BY <2>1, <2>2, HostLeaves
<1>3. ASSUME NEW ip \in IpResults, AppAbort(ip) PROVE StreamInv'
  <2> DEFINE h == Host(ip)
             g == IF h.sock.handle THEN Abort(h) ELSE h
             f == [g EXCEPT !.sock = Release(@)]
  <2>1. HostBecomes(f) /\ UNCHANGED <<toHost, written, read>>
    BY <1>0, <1>3 DEF AppAbort
  <2>2. Good(h) /\ Exact(h, read)
    BY <1>0
  <2> HIDE DEF h
  <2>3. Good(g) /\ g.tcp.state = "CLOSED"
    BY <2>2, AbortedGood
  <2>4. Exact(f, read)
    BY <2>2, AbortedExact
  <2> HIDE DEF g
  <2>5. Good(f)
    BY <2>3, ReleaseGood
  <2> HIDE DEF f
  <2> QED BY <2>1, <2>4, <2>5, HostLeaves
<1>4. ASSUME NEW ip \in IpResults, NEW n \in 1..RxCapacity, AppReceive(n, ip) PROVE StreamInv'
  BY <1>4, AppReceiveStream
<1>5. ASSUME NEW ip \in IpResults, NEW m \in toHost, NEW again \in BOOLEAN,
             HostReceives(m, ip, again)
      PROVE  StreamInv'
  <2>1. /\ HostBecomes(HandleIpv4(Host(ip), m)) /\ toHost' \subseteq toHost
        /\ UNCHANGED <<written, read>>
    BY <1>5 DEF HostReceives
  <2>2. m \in Segment /\ From(m) /\ Inv /\ PeerExact
    BY DEF StreamInv, Inv, PeerExact
  <2>3. Good(HandleIpv4(Host(ip), m)) /\ Exact(HandleIpv4(Host(ip), m), read)
    BY <1>0, <2>2, HandleIpv4Good, HandleIpv4Exact
  <2> QED BY <2>1, <2>3, HostLeaves
<1>6. ASSUME NEW ip \in IpResults, NEW elapsed \in Deadlines, NetPoll(ip, elapsed)
      PROVE  StreamInv'
  <2> DEFINE h == Maintain(Host(ip), elapsed)
  <2>1. HostBecomes(SocketMaintain(h)) /\ UNCHANGED <<toHost, written, read>>
    BY <1>6 DEF NetPoll
  <2>2. Good(h) /\ Exact(h, read)
    BY <1>0, MaintainGood, MaintainExact
  <2> HIDE DEF h
  <2>3. Good(SocketMaintain(h)) /\ Exact(SocketMaintain(h), read)
    BY <2>2, SocketMaintainGood, SocketMaintainExact
  <2> QED BY <2>1, <2>3, HostLeaves
<1>7. ASSUME NEW n \in 1..AppBytes, AppSend(n) PROVE StreamInv'
  BY <1>7, AppSendStream
<1>8. CASE NetReset
  BY <1>8, NetResetStream
<1>9. ASSUME NEW t \in Waiters, TaskWaits(t) \/ TaskRuns(t) PROVE StreamInv'
  BY <1>9, TasksStream
<1>10. CASE \/ \E w \in PeerWindows : PeerAccepts(w)
            \/ \E o \in 0..(PeerBytes + 1), l \in 0..Mss, f \in BOOLEAN, w \in PeerWindows :
                 PeerSends(o, l, f, w)
            \/ PeerResets
  BY <1>10, PeerStream
<1>11. CASE UNCHANGED vars
  <2>1. UNCHANGED <<tcp, sock, toHost, peer, written, read, faults, ended>>
    BY <1>11 DEF vars
  <2>2. Inv'
    BY <1>11, NextInv DEF StreamInv
  <2> QED BY <2>1, <2>2, HostMoves DEF StreamInv
<1> QED BY <1>1, <1>2, <1>3, <1>4, <1>5, <1>6, <1>7, <1>8, <1>9, <1>10, <1>11 DEF Next

(* StreamInv holds of every run.                                           *)
LEMMA StreamHolds == Spec => []StreamInv
BY InitStream, NextStream, PTL DEF Spec

(* Bytes numbered from 1 are a beginning of the stream. *)
LEMMA CountsPrefix ==
  ASSUME NEW q \in Seq(Nat), Counts(q, 0), NEW n \in Nat, Len(q) <= n
  PROVE  /\ IsPrefix(q, Numbers(n)) /\ (Len(q) = n => q = Numbers(n))
<1> DEFINE D == Numbers(n)
           l == Len(q)
<1>1. D \in Seq(Nat) /\ Len(D) = n /\ \A i \in 1..n : D[i] = i
  BY NumbersCount DEF Numbers
<1>2. l \in Nat /\ l <= n /\ \A i \in 1..l : q[i] = i
  BY DEF Counts
<1> HIDE DEF D
<1>3. SubSeq(q, 1, l) = SubSeq(D, 1, l)
  <2> DEFINE a == SubSeq(q, 1, l)
             b == SubSeq(D, 1, l)
  <2>1. a \in Seq(Nat) /\ Len(a) = l /\ \A i \in 1..l : a[i] = q[i]
    BY <1>2
  <2>2. b \in Seq(Nat) /\ Len(b) = l /\ \A i \in 1..l : b[i] = D[i]
    BY <1>1, <1>2
  <2> HIDE DEF a, b
  <2>3. \A i \in 1..l : a[i] = b[i]
    BY <1>1, <1>2, <2>1, <2>2
  <2> QED BY <2>1, <2>2, <2>3 DEF a, b
<1>4. l = n => q = D
  BY <1>1, <1>2
<1> QED BY <1>1, <1>2, <1>3, <1>4 DEF IsPrefix, D

(* Neither stream is ever damaged: for rings, windows, segments and         *)
(* sequence numbers of every size, and whatever the network loses,          *)
(* duplicates, delays or reorders, what tcp.c and net_socket.c give to the  *)
(* application is a prefix of what the peer wrote, and what the peer takes  *)
(* a prefix of what net_socket_send accepted.                               *)
THEOREM StreamsStayIntact == Spec => []StreamsAreIntact
<1>1. StreamInv => StreamsAreIntact
  <2> SUFFICES ASSUME StreamInv PROVE StreamsAreIntact
    OBVIOUS
  <2> DEFINE t == read \o sock.rx
  <2>1. /\ read \in Seq(Nat) /\ sock.rx \in Seq(Nat) /\ Counts(read, 0)
        /\ Counts(sock.rx, Len(read)) /\ Len(read) + Len(sock.rx) <= PeerBytes
        /\ PeerBytes \in Nat
    BY StreamSpace DEF StreamInv, Inv, Kept, Attended, Formed, Socket, Received
  <2>2. Len(read) = 0 + Len(read)
    BY <2>1
  <2>3. Counts(t, 0) /\ t \in Seq(Nat) /\ Len(t) = Len(read) + Len(sock.rx)
    BY <2>1, <2>2, CountsJoin
  <2> HIDE DEF t
  <2>4. IsPrefix(t, Numbers(PeerBytes))
    BY <2>1, <2>3, CountsPrefix
  <2>5. /\ peer.rcv \in Seq(Nat) /\ Counts(peer.rcv, 0) /\ Len(peer.rcv) <= written
        /\ written \in Nat
    BY StreamSpace DEF StreamInv, Inv, PeerExact, Peers
  <2>6. IsPrefix(peer.rcv, Numbers(written))
    BY <2>5, CountsPrefix
  <2> QED BY <2>4, <2>6 DEF StreamsAreIntact, t
<1> QED BY <1>1, StreamHolds, PTL

(* net_socket_poll and net_socket_receive report the end of file only when  *)
(* every byte the peer wrote before its FIN has been read or is in the RX   *)
(* ring: tcp_accept_fin takes no FIN ahead of its data.                     *)
THEOREM EofMeansAllData == Spec => []EofAfterAllData
<1>1. StreamInv => EofAfterAllData
  BY DEF StreamInv, Received, EofAfterAllData
<1> QED BY <1>1, StreamHolds, PTL

(* A socket that TCP closed without ever reporting an error has delivered   *)
(* every byte net_socket_send accepted, those still in the TX ring when     *)
(* net_socket_close was called too.                                         *)
THEOREM CleanCloseAlwaysDelivers == Spec => []CleanCloseDelivers
<1>1. StreamInv => CleanCloseDelivers
  <2> SUFFICES ASSUME StreamInv, ended = "closed", "ERROR" \notin faults
               PROVE  peer.rcv = Numbers(written)
    BY DEF CleanCloseDelivers
  <2>1. peer.fin
    BY DEF StreamInv
  <2>2. /\ peer.rcv \in Seq(Nat) /\ Counts(peer.rcv, 0) /\ Len(peer.rcv) = written
        /\ written \in Nat /\ Len(peer.rcv) <= written
    BY <2>1, StreamSpace DEF StreamInv, Inv, PeerExact, Peers
  <2> QED BY <2>2, CountsPrefix
<1> QED BY <1>1, StreamHolds, PTL
=============================================================================
