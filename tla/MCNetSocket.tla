--------------------------- MODULE MCNetSocket -------------------------------
(* A small instance of NetSocket: two readers, a ring of one byte, a       *)
(* sequence space that both streams wrap.                                   *)
EXTENDS NetSocket, TLC

CONSTANTS r1, r2
MCReaders == {r1, r2}
MCSymmetry == Permutations(MCReaders)
MCWants == [t \in Waiters |-> {"READABLE"}]
MCWindows == {2}
MCRooms == {1}
MCIp == {"sent", "error"}

\* A bound: a second byte travels in one direction only.
OneLongStream == written < AppBytes \/ peer.snt < PeerBytes
=============================================================================
