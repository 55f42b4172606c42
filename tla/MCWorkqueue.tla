----------------------------- MODULE MCWorkqueue -----------------------------
(* One HIGH and two NORMAL works, one work of each class per round.         *)
EXTENDS Workqueue, TLC

CONSTANTS h1, n1, n2

MCHigh      == {h1}
MCNormal    == {n1, n2}
=============================================================================
