----------------------------- MODULE IrqDeferred -----------------------------
(***************************************************************************)
(* The bottom-half queue, src/core/irq_deferred.c, with the two ways it is *)
(* driven by src/kernel/kernel.c: interrupt handlers and polling code      *)
(* schedule static works at any time, and the kworker executes them with   *)
(* interrupts enabled, a budget of works per activation. The kworker is    *)
(* started by kernel_irq_work, a work of core/workqueue.c, whose power     *)
(* gate refuses it and whose power quiescence drops it.                    *)
(*                                                                         *)
(* Everything between irq_deferred_irq_save and _restore is one step.      *)
(* A callback runs with interrupts enabled, so any schedule or cancel may  *)
(* happen between DispatchPop and DispatchFinish.                          *)
(***************************************************************************)
EXTENDS Integers, Sequences, FiniteSets

CONSTANTS Works,      \* the static irq_deferred_work_t objects
          Capacity,   \* IRQ_DEFERRED_CAPACITY, the slots of the ring
          Budget,     \* KERNEL_DEFERRED_DISPATCH_BUDGET
          NoWork      \* the null pointer

ASSUME CapacityAssumption == Capacity \in Nat /\ Capacity > 1
ASSUME BudgetAssumption   == Budget \in Nat \ {0}
ASSUME NoWorkAssumption   == NoWork \notin Works

Usable == Capacity - 1    \* IRQ_DEFERRED_USABLE_CAPACITY

VARIABLES
  entries,    \* service.entries, the ring of pointers
  head, tail, count,
  work,       \* the flags of every work
  pc,         \* the dispatcher: idle, in its loop, or inside a callback
  current,    \* the work whose callback is being executed
  processed,  \* works finished by the current irq_deferred_dispatch
  kick,       \* kernel_irq_work is pending in the workqueue
  notifying,  \* calls of irq_deferred_schedule between restore and notifier
  quiescing,  \* workqueue_service.power_quiescing
  owed,       \* ghost: works scheduled with OK, not cancelled since, and
              \* whose callback has not started since
  missed      \* ghost: the workqueue refused or dropped kernel_irq_work and
              \* has not taken it again since

ring == <<entries, head, tail, count>>
gate == <<quiescing, missed>>
vars == <<entries, head, tail, count, work, pc, current, processed, kick,
          notifying, quiescing, owed, missed>>

Flags == [initialized : BOOLEAN, queued : BOOLEAN, running : BOOLEAN,
          cancelled : BOOLEAN, rerun : BOOLEAN]

Slots == 0..(Capacity - 1)

(* The ring arithmetic of the code: the slot k places after h, the next    *)
(* slot, and how far slot i is after h.                                    *)
Place(h, k)    == (h + k) % Capacity
Successor(i)   == (i + 1) % Capacity
Distance(h, i) == (i - h) % Capacity

Init ==
  /\ entries = [i \in Slots |-> NoWork]
  /\ head = 0 /\ tail = 0 /\ count = 0
  /\ work = [w \in Works |->
               [initialized |-> FALSE, queued |-> FALSE, running |-> FALSE,
                cancelled |-> FALSE, rerun |-> FALSE]]
  /\ pc = "idle" /\ current = NoWork /\ processed = 0
  /\ kick = FALSE /\ notifying = FALSE
  /\ quiescing = FALSE
  /\ owed = {} /\ missed = FALSE

-----------------------------------------------------------------------------
(* irq_deferred_work_init: refused for a work that is queued or running. *)
WorkInit(w) ==
  /\ ~work[w].queued /\ ~work[w].running
  /\ work' = [work EXCEPT ![w] =
                [initialized |-> TRUE, queued |-> FALSE, running |-> FALSE,
                 cancelled |-> FALSE, rerun |-> FALSE]]
  /\ UNCHANGED <<ring, pc, current, processed, kick, notifying, gate, owed>>

(* The store at tail that schedule_on and the rerun of dispatch_on share. *)
Push(w) ==
  /\ entries' = [entries EXCEPT ![tail] = w]
  /\ tail' = Successor(tail)
  /\ count' = count + 1
  /\ UNCHANGED head

(* Fault: a request that meets a running callback is only counted. *)
ScheduledFlagsFaulty(f) ==
  IF f.queued \/ f.running THEN f
  ELSE [f EXCEPT !.queued = TRUE, !.cancelled = FALSE]

(* What irq_deferred_schedule_on leaves in the flags of the work: the      *)
(* request joins one that is waiting, asks for a rerun of one that is      *)
(* running, or enters the ring.                                            *)
ScheduledFlags(f) ==
  IF f.queued THEN f
  ELSE IF f.running THEN [f EXCEPT !.rerun = TRUE]
  ELSE [f EXCEPT !.queued = TRUE, !.cancelled = FALSE]

(***************************************************************************)
(* schedule_work on kernel_irq_work: it becomes pending, or joins the      *)
(* request that is, unless the power gate is closed. The refusal also      *)
(* clears kernel_deferred_enabled, which only the dispatch without a       *)
(* workqueue reads; nobody tries again.                                    *)
(***************************************************************************)
ScheduleKworker ==
  /\ kick' = (kick \/ ~quiescing)
  /\ missed' = (quiescing /\ (missed \/ ~kick))
  /\ UNCHANGED quiescing

(* irq_deferred_schedule_on, on the path that returns OK. *)
ScheduleOn(w) ==
  /\ work[w].initialized
  /\ LET enters == ~work[w].queued /\ ~work[w].running
     IN /\ enters => count < Usable
        /\ IF enters THEN Push(w) ELSE UNCHANGED ring
  /\ work' = [work EXCEPT ![w] = ScheduledFlags(@)]
  /\ owed' = owed \cup {w}
  /\ UNCHANGED <<pc, current, processed>>

(* irq_deferred_schedule from an interrupt handler: no other step comes    *)
(* between the queue update and the notifier, which schedules              *)
(* kernel_irq_work.                                                        *)
ScheduleFromIrq(w) ==
  /\ ScheduleOn(w)
  /\ ScheduleKworker
  /\ UNCHANGED notifying

(* The same call from code that runs with interrupts enabled (a callback,  *)
(* a polling loop): the notifier is called after irq_restore.              *)
ScheduleFromPoll(w) ==
  /\ ~notifying
  /\ ScheduleOn(w)
  /\ notifying' = TRUE
  /\ UNCHANGED <<kick, gate>>

(* service.notifier, kernel_irq_work_notify. *)
Notify ==
  /\ notifying
  /\ notifying' = FALSE
  /\ ScheduleKworker
  /\ UNCHANGED <<ring, work, pc, current, processed, owed>>

-----------------------------------------------------------------------------
(* The ring after irq_deferred_cancel_on. The loop keeps the order of the  *)
(* other works; a queued work is in one slot (RingIsExact), so the works   *)
(* behind it move one slot towards head and the last slot is cleared.      *)
Offset(i) == Distance(head, i)

PositionOf(w) ==
  CHOOSE k \in 0..(count - 1) : entries[Place(head, k)] = w

(* Fault: the slots are moved and tail keeps its old place. *)
CompactRingFaulty(w) ==
  /\ entries' = [i \in Slots |->
                   IF Offset(i) < PositionOf(w) \/ Offset(i) >= count
                   THEN entries[i]
                   ELSE IF Offset(i) = count - 1 THEN NoWork
                   ELSE entries[Successor(i)]]
  /\ count' = count - 1
  /\ UNCHANGED <<head, tail>>

CompactRing(w) ==
  /\ entries' = [i \in Slots |->
                   IF Offset(i) < PositionOf(w) \/ Offset(i) >= count
                   THEN entries[i]
                   ELSE IF Offset(i) = count - 1 THEN NoWork
                   ELSE entries[Successor(i)]]
  /\ count' = count - 1
  /\ tail' = Place(head, count - 1)
  /\ UNCHANGED head

(* irq_deferred_cancel_on: a waiting work leaves the ring; a running one   *)
(* is marked so that its rerun is suppressed.                              *)
Cancel(w) ==
  /\ work[w].initialized
  /\ work[w].queued \/ work[w].running
  /\ IF work[w].queued THEN CompactRing(w) ELSE UNCHANGED ring
  /\ work' = [work EXCEPT ![w] =
                [@ EXCEPT !.queued = FALSE, !.cancelled = ~work[w].queued,
                          !.rerun = FALSE]]
  /\ owed' = owed \ {w}
  /\ UNCHANGED <<pc, current, processed, kick, notifying, gate>>

-----------------------------------------------------------------------------
(***************************************************************************)
(* workqueue_power_set_quiescing, by the notification of a shutdown and by *)
(* the abort that takes it back. workqueue_power_quiesce_until does the    *)
(* same when it finds a callback running, and fails.                       *)
(***************************************************************************)
SetQuiescing(active) ==
  /\ quiescing' = active
  /\ UNCHANGED <<ring, work, pc, current, processed, kick, notifying, owed,
                 missed>>

(* workqueue_power_quiesce_until drops the pending works, kernel_irq_work  *)
(* among them; the bottom halves in the ring stay.                         *)
Quiesce ==
  /\ pc = "idle"
  /\ quiescing' = TRUE
  /\ kick' = FALSE
  /\ missed' = (missed \/ kick)
  /\ UNCHANGED <<ring, work, pc, current, processed, notifying, owed>>

-----------------------------------------------------------------------------
(* The workqueue starts kernel_irq_work_callback. workqueue_dispatch looks *)
(* at the gate when it is entered only, so a dispatch that is under way    *)
(* may still start it behind a closed gate.                                *)
DispatchStart ==
  /\ pc = "idle" /\ kick
  /\ pc' = "loop" /\ processed' = 0 /\ kick' = FALSE
  /\ UNCHANGED <<ring, work, current, notifying, gate, owed>>

(* Fault: the newest work is taken instead of the oldest. *)
DispatchPopFaulty ==
  /\ pc = "loop" /\ processed < Budget /\ count > 0
  /\ LET last == Place(head, count - 1)
         w == entries[last]
     IN /\ entries' = [entries EXCEPT ![last] = NoWork]
        /\ tail' = last
        /\ work' = [work EXCEPT ![w] = [@ EXCEPT !.queued = FALSE,
                                                !.running = TRUE,
                                                !.cancelled = FALSE]]
        /\ current' = w
        /\ owed' = owed \ {w}
  /\ count' = count - 1
  /\ pc' = "callback"
  /\ UNCHANGED <<head, processed, kick, notifying, gate>>

(* One turn of the loop of irq_deferred_dispatch_on, up to the callback. *)
DispatchPop ==
  /\ pc = "loop" /\ processed < Budget /\ count > 0
  /\ entries' = [entries EXCEPT ![head] = NoWork]
  /\ head' = Successor(head)
  /\ count' = count - 1
  /\ LET w == entries[head]
         runs == w # NoWork /\ ~work[w].cancelled
     IN /\ work' = [v \in Works |->
                      IF v = w THEN [work[v] EXCEPT !.queued = FALSE,
                                                    !.running = runs,
                                                    !.cancelled = FALSE]
                      ELSE work[v]]
        /\ pc' = IF runs THEN "callback" ELSE "loop"
        /\ current' = IF runs THEN w ELSE NoWork
        /\ owed' = IF runs THEN owed \ {w} ELSE owed
  /\ UNCHANGED <<tail, processed, kick, notifying, gate>>

(* The callback has returned: a rerun that was requested and not cancelled *)
(* goes back to the ring, or is rejected when the ring is full.            *)
DispatchFinish ==
  /\ pc = "callback"
  /\ LET w == current
         again == work[w].rerun /\ ~work[w].cancelled
         fits == count < Usable
     IN /\ IF again /\ fits THEN Push(w) ELSE UNCHANGED ring
        /\ work' = [work EXCEPT ![w] =
                      [@ EXCEPT !.running = FALSE, !.rerun = FALSE,
                                !.queued = (again /\ fits),
                                !.cancelled = FALSE]]
        /\ owed' = IF again /\ fits THEN owed ELSE owed \ {w}
  /\ pc' = "loop" /\ current' = NoWork
  /\ processed' = processed + 1
  /\ UNCHANGED <<kick, notifying, gate>>

(* Fault: works left by a spent budget are not scheduled again. *)
DispatchEndFaulty ==
  /\ pc = "loop" /\ (processed = Budget \/ count = 0)
  /\ pc' = "idle" /\ processed' = 0
  /\ UNCHANGED <<ring, work, current, kick, notifying, gate, owed>>

(* The budget is spent or the ring is empty: kernel_irq_work_callback      *)
(* schedules itself again when works are left; it returns the refusal of a *)
(* closed gate and the works stay.                                         *)
DispatchEnd ==
  /\ pc = "loop" /\ (processed = Budget \/ count = 0)
  /\ pc' = "idle" /\ processed' = 0
  /\ IF count > 0 THEN ScheduleKworker ELSE UNCHANGED <<kick, gate>>
  /\ UNCHANGED <<ring, work, current, notifying, owed>>

Callbacks == DispatchPop \/ DispatchFinish \/ DispatchEnd
PowerSteps == Quiesce \/ \E active \in BOOLEAN : SetQuiescing(active)

Next ==
  \/ DispatchStart \/ Callbacks \/ Notify \/ PowerSteps
  \/ \E w \in Works : \/ WorkInit(w) \/ Cancel(w)
                      \/ ScheduleFromIrq(w) \/ ScheduleFromPoll(w)

(***************************************************************************)
(* A callback of the kworker returns, a call of irq_deferred_schedule that *)
(* was started reaches its notifier, and a shutdown that closed the gate   *)
(* ends: in an abort (Power!RequestsEnd), or with the machine off. Behind  *)
(* an open gate the kworker is a kernel thread the scheduler keeps running *)
(* and its turn comes between two requests of a shutdown, which are        *)
(* commands typed in the Shell: hence strong fairness.                     *)
(***************************************************************************)
Fairness ==
  /\ WF_vars(Callbacks) /\ WF_vars(Notify)
  /\ WF_vars(quiescing /\ SetQuiescing(FALSE))
  /\ SF_vars(~quiescing /\ DispatchStart)

Spec == Init /\ [][Next]_vars /\ Fairness

-----------------------------------------------------------------------------
TypeOK ==
  /\ entries \in [Slots -> Works \cup {NoWork}]
  /\ head \in Slots /\ tail \in Slots /\ count \in 0..Usable
  /\ work \in [Works -> Flags]
  /\ pc \in {"idle", "loop", "callback"}
  /\ current \in Works \cup {NoWork}
  /\ processed \in 0..Budget
  /\ kick \in BOOLEAN /\ notifying \in BOOLEAN /\ quiescing \in BOOLEAN
  /\ owed \subseteq Works /\ missed \in BOOLEAN

(* irq_deferred_validate_service, made exact: the slots from head to tail  *)
(* are the ones that hold a work, every queued work is in exactly one of   *)
(* them, and none that is running is, whatever cancellations compacted the *)
(* ring.                                                                   *)
RingIsExact ==
  /\ tail = Place(head, count)
  /\ \A i \in Slots : Offset(i) < count <=> entries[i] # NoWork
  /\ \A i, j \in Slots : entries[i] = entries[j] /\ entries[i] # NoWork => i = j
  /\ \A w \in Works : work[w].queued <=> \E i \in Slots : entries[i] = w
  /\ \A w \in Works : ~(work[w].queued /\ work[w].running)

(* At most one callback is in progress, and it is the one the dispatcher   *)
(* is executing (status.running is 0 or 1).                                *)
OneCallback ==
  \A w \in Works : work[w].running <=> (pc = "callback" /\ current = w)

(* A schedule that returned OK is never forgotten: until its callback      *)
(* starts, the work waits in the ring, or it is running with a rerun       *)
(* requested (a rerun rejected by a full ring is dropped from owed, and    *)
(* so is one suppressed by a cancel of the running callback).              *)
NoLostEvent ==
  \A w \in owed : work[w].queued \/ (work[w].running /\ work[w].rerun)

(***************************************************************************)
(* A shutdown is the only thing that strands events: while works wait in   *)
(* the ring the kworker is dispatching, or pending, or a notifier call is  *)
(* on its way, or the power gate refused or dropped kernel_irq_work and no *)
(* event has been accepted behind an open gate since. An abort does not    *)
(* schedule kernel_irq_work again (power_record_failure), so the ring may  *)
(* then wait for the next event, and that event is enough for all of it.   *)
(***************************************************************************)
NoStall == count > 0 => pc # "idle" \/ kick \/ notifying \/ missed

(***************************************************************************)
(* Every accepted event is served, withdrawn by a cancel or rejected by a  *)
(* full ring, and does not wait forever behind the others, unless a        *)
(* shutdown strands the ring; the events an aborted shutdown stranded are  *)
(* served once another is accepted.                                        *)
(***************************************************************************)
OwedIsServed == \A w \in Works : (w \in owed) ~> (w \notin owed \/ missed)

-----------------------------------------------------------------------------
(* The works of the ring in the order in which they will be taken out. *)
RingOrder == [i \in 1..count |-> entries[Place(head, i - 1)]]

(* The ring implements a bounded FIFO of distinct works. *)
Abstract == INSTANCE BottomHalfQueue WITH fifo <- RingOrder, busy <- current

ImplementsFifo == Abstract!Spec
=============================================================================
