------------------------- MODULE MCFat32Transaction --------------------------
(* Small instances of Fat32Transaction.                                     *)
EXTENDS Fat32Transaction

CONSTANTS a, b, tmp
MCNames == {a, b, tmp}
MCShortNames == {a, tmp}
MCSizes == {0, 2}

\* The second name published lies across two neighbouring sectors; behind the
\* second sector the directory goes on elsewhere, where a name may cross once a
\* failed call has left half a name before it.
MCGaps == {6}
=============================================================================
