--------------------------- MODULE BottomHalfQueue ---------------------------
(***************************************************************************)
(* What the bottom-half queue of src/core/irq_deferred.c promises to the   *)
(* drivers that use it, without the ring, the flags and the counters: a    *)
(* bounded FIFO of distinct works, at most one of them being executed, in  *)
(* which a work is either waiting or executing, never both.                *)
(***************************************************************************)
EXTENDS Naturals, Sequences, FiniteSets

CONSTANTS Works,      \* the static irq_deferred_work_t objects
          Usable,     \* how many works may wait at the same time
          NoWork      \* not a work: nothing is being executed

VARIABLES fifo,       \* the waiting works, oldest first
          busy        \* the work whose callback is being executed, or NoWork

absVars == <<fifo, busy>>

Waiting == { fifo[i] : i \in 1..Len(fifo) }

Init == fifo = <<>> /\ busy = NoWork

(* A work that neither waits nor executes joins the end of the queue. *)
Accept(w) ==
    /\ w \notin Waiting /\ w # busy
    /\ Len(fifo) < Usable
    /\ fifo' = Append(fifo, w)
    /\ UNCHANGED busy

(* The oldest waiting work starts executing. *)
Start ==
    /\ busy = NoWork /\ fifo # <<>>
    /\ busy' = Head(fifo)
    /\ fifo' = Tail(fifo)

(* The callback returns; the work may go back to the end of the queue. *)
Complete ==
    /\ busy # NoWork
    /\ busy' = NoWork
    /\ \/ fifo' = fifo
       \/ Len(fifo) < Usable /\ fifo' = Append(fifo, busy)

(* The work at place i is withdrawn; the others keep their order. *)
Withdraw(i) ==
    /\ fifo' = [j \in 1..(Len(fifo) - 1) |->
                  IF j < i THEN fifo[j] ELSE fifo[j + 1]]
    /\ UNCHANGED busy

Next ==
    \/ Start \/ Complete
    \/ \E w \in Works : Accept(w)
    \/ \E i \in 1..Len(fifo) : Withdraw(i)

Spec == Init /\ [][Next]_absVars
=============================================================================
