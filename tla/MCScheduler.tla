----------------------------- MODULE MCScheduler -----------------------------
(* Idle and three slots for processes that are created, destroyed and      *)
(* created again, so that slots and PIDs are reused by new identities.     *)
EXTENDS Scheduler, TLC
=============================================================================
