--------------------------- MODULE MCUpdateSlots -----------------------------
(* Small instances of UpdateSlots.                                          *)
EXTENDS UpdateSlots
=============================================================================
