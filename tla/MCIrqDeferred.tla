---------------------------- MODULE MCIrqDeferred ----------------------------
(* Three works and a ring of three slots, so that two works fill it and    *)
(* the indices wrap; a budget of one leaves works for the next activation. *)
EXTENDS IrqDeferred, TLC

CONSTANTS w1, w2, w3

MCWorks == {w1, w2, w3}
=============================================================================
