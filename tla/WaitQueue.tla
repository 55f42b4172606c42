------------------------------ MODULE WaitQueue ------------------------------
(***************************************************************************)
(* Wait queues, core/wait.c, with the registry that names them and the     *)
(* waits of processes and threads built on them (process_wait,             *)
(* thread_wait, wait_event_timeout).                                       *)
(*                                                                         *)
(* Tasks of the kernel are cooperative, so one task at a time executes a   *)
(* step of its own; interrupts (the timer, a device that publishes an      *)
(* event) come between any two steps. Code under wait_irq_save is one      *)
(* step. In particular a signal can arrive between the snapshot of the     *)
(* condition and the moment the task is linked.                            *)
(*                                                                         *)
(* A waiter's condition is "something is ready": a Boolean per queue that  *)
(* producers set before they wake and that a woken waiter takes.           *)
(***************************************************************************)
EXTENDS Integers, Sequences, FiniteSets, KernelLists

CONSTANTS Tasks, Queues, NoQueue, NoTask,
          Capacity,      \* WAIT_QUEUE_REGISTRY_CAPACITY
          MaxGeneration, \* WAIT_QUEUE_ID_GENERATION_MAX
          Conditions,    \* 2^32: values of the event counter
          TickSpace,     \* 2^32: values of the clock
          MaxTimeout,    \* bound: the longest finite timeout
          Timeouts,      \* timeouts tasks ask for; Infinite is -1
          MaxBurst,      \* bound: events between a snapshot and a block
          MaxStall,      \* bound: ticks a task may read the clock too late
          MaxLate        \* bound: ticks a task may run after its deadline

Infinite == -1       \* WAIT_TIMEOUT_INFINITE
Past == -2           \* a deadline passed long ago: no one counts the ticks

ASSUME TimeoutsAssumption == Timeouts \subseteq {Infinite} \cup 0..MaxTimeout
ASSUME CapacityAssumption == Capacity \in Nat \ {0} /\ MaxGeneration \in Nat \ {0}
ASSUME ClockAssumption ==
  /\ MaxTimeout \in Nat /\ TickSpace \in Nat /\ MaxLate \in Nat
  /\ MaxStall \in Nat \ {0} /\ MaxLate >= MaxStall + MaxTimeout
  /\ TickSpace > 2 * (MaxTimeout + MaxLate)
\* The counter cannot come back to the value observed within one burst.
ASSUME BurstAssumption ==
  MaxBurst \in Nat /\ Conditions \in Nat /\ Conditions > MaxBurst + 1
ASSUME TasksAssumption == IsFiniteSet(Tasks)  \* the tables of processes and threads
ASSUME NoAssumption == NoQueue \notin Queues /\ NoTask \notin Tasks

Slots == 0..(Capacity - 1)
Ticks == 0..(TickSpace - 1)
Reasons == {"NONE", "EVENT", "TIMEOUT", "CANCELLED", "DEVICE_UNAVAILABLE",
            "ERR_STATE", "ERR_INVALID"}

VARIABLES
  now,
  registry, generations,         \* per slot
  slot, available, condition,    \* per queue; slot is -1 when not initialised
  fifo,                          \* per queue: the linked tasks
  active_waiters,                \* wait_service.stats
  ready,                         \* per queue: what its waiters wait for
  cpu,                           \* the task that runs, or NoTask
  task,                          \* per task: what it is doing
  burst,                         \* events since the snapshot of a task
  left                           \* ghost: ticks until a timed wait may end

regVars == <<registry, generations, slot>>
vars == <<now, registry, generations, slot, available, condition, fifo,
          active_waiters, ready, cpu, task, burst, left>>

TaskStates == [at : {"own", "waking", "loop", "check", "read", "block", "blocked"},
               queue : Queues \cup {NoQueue}, seen : 0..(Conditions - 1),
               deadline : Ticks \cup {Infinite, Past}, timer : Ticks \cup {Infinite},
               reason : Reasons]

Idle == [at |-> "own", queue |-> NoQueue, seen |-> 0, deadline |-> Infinite,
         timer |-> Infinite, reason |-> "NONE"]

Init ==
  /\ now = TickSpace - 1
  /\ registry = [s \in Slots |-> NoQueue]
  /\ generations = [s \in Slots |-> 0]
  /\ slot = [q \in Queues |-> -1]
  /\ available = [q \in Queues |-> FALSE]
  /\ condition = [q \in Queues |-> 0]
  /\ fifo = [q \in Queues |-> <<>>]
  /\ active_waiters = 0
  /\ ready = [q \in Queues |-> FALSE]
  /\ cpu = NoTask
  /\ task = [t \in Tasks |-> Idle]
  /\ burst = 0
  /\ left = [t \in Tasks |-> 0]

\* wait_queue_valid
Valid(q) == slot[q] \in Slots /\ registry[slot[q]] = q

Linked(t) == \E q \in Queues : t \in Members(fifo[q])
Runnable(t) == ~Linked(t)

\* (int32_t)(timer_get_ticks() - deadline) >= 0 at tick c
ReachedAt(c, deadline) == (c - deadline) % TickSpace < TickSpace \div 2

\* The task has taken its snapshot and is not linked yet.
Settling(t) == task[t].at \in {"check", "read", "block"}

-----------------------------------------------------------------------------
(* The registry.                                                           *)

\* wait_queue_register_locked takes the first free slot.
FreeSlots == {s \in Slots : registry[s] = NoQueue}

NextGeneration(g) == IF g + 1 > MaxGeneration THEN 1 ELSE g + 1

(***************************************************************************)
(* init_waitqueue_head; a full registry refuses.                           *)
(***************************************************************************)
InitQueue(q) ==
  /\ slot[q] = -1 /\ FreeSlots # {}
  /\ LET s == CHOOSE x \in FreeSlots : \A y \in FreeSlots : x <= y
     IN  /\ registry' = [registry EXCEPT ![s] = q]
         /\ generations' = [generations EXCEPT ![s] = NextGeneration(@)]
         /\ slot' = [slot EXCEPT ![q] = s]
  /\ available' = [available EXCEPT ![q] = TRUE]
  /\ condition' = [condition EXCEPT ![q] = 0]
  /\ UNCHANGED <<now, fifo, active_waiters, ready, cpu, task, burst, left>>

\* wait_queue_unregister_locked
Unregister(q) ==
  /\ registry' = [registry EXCEPT ![slot[q]] = NoQueue]
  /\ slot' = [slot EXCEPT ![q] = -1]

\* Fault: a queue with waiters is reset.
ResetQueueFaulty(q) ==
  /\ Valid(q)
  /\ Unregister(q)
  /\ available' = [available EXCEPT ![q] = FALSE]
  /\ condition' = [condition EXCEPT ![q] = 0]
  /\ ready' = [ready EXCEPT ![q] = FALSE]
  /\ UNCHANGED <<now, generations, fifo, active_waiters, cpu, task, burst, left>>

\* wait_channel_reset, refused while a task is linked. The owner of the
\* queue drops what its waiters were waiting for.
ResetQueue(q) ==
  /\ Valid(q) /\ fifo[q] = <<>>
  /\ Unregister(q)
  /\ available' = [available EXCEPT ![q] = FALSE]
  /\ condition' = [condition EXCEPT ![q] = 0]
  /\ ready' = [ready EXCEPT ![q] = FALSE]
  /\ UNCHANGED <<now, generations, fifo, active_waiters, cpu, task, burst, left>>

-----------------------------------------------------------------------------
(* Waking.                                                                 *)

\* queue->condition++, never 0 again.
Advance(c) == IF c + 1 = Conditions THEN 1 ELSE c + 1

\* The tasks woken run again from where they blocked, with their reason.
Woken(ts, reason) ==
  [t \in Tasks |-> IF t \in ts
                   THEN [task[t] EXCEPT !.reason = reason, !.timer = Infinite]
                   ELSE task[t]]

\* wait_queue_unlink_locked for the tasks ts of queue q, and their wake.
Unlink(q, ts, reason) ==
  /\ fifo' = [fifo EXCEPT ![q] = Without(@, ts)]
  /\ active_waiters' = active_waiters - Cardinality(ts)
  /\ task' = Woken(ts, reason)

\* wait_queue_wake_target: mode is "ONE" or "ALL".
Chosen(q, mode) ==
  CASE fifo[q] = <<>> -> {}
    [] mode = "ONE" /\ fifo[q] # <<>> -> {Head(fifo[q])}
    [] mode = "ALL" /\ fifo[q] # <<>> -> Members(fifo[q])

Wake(q, mode, reason) ==
  /\ condition' = [condition EXCEPT ![q] = Advance(@)]
  /\ available' = [available EXCEPT ![q] = @ /\ reason # "DEVICE_UNAVAILABLE"]
  /\ Unlink(q, Chosen(q, mode), reason)

\* wait_channel_set_available. Making a queue unavailable wakes everyone.
SetAvailable(q, value) ==
  /\ Valid(q)
  /\ \/ ~value /\ available[q] /\ Wake(q, "ALL", "DEVICE_UNAVAILABLE")
     \/ /\ value /\ ~available[q]
        /\ available' = [available EXCEPT ![q] = TRUE]
        /\ UNCHANGED <<condition, fifo, active_waiters, task>>
  /\ UNCHANGED <<now, regVars, ready, cpu, burst, left>>

(***************************************************************************)
(* An interrupt, or the bottom half it defers, publishes an event and      *)
(* wakes: wake_up or wake_up_all.                                          *)
(***************************************************************************)
Interrupt(q, mode) ==
  /\ Valid(q)
  /\ \/ (\E t \in Tasks : Settling(t)) /\ burst < MaxBurst /\ burst' = burst + 1
     \/ (\A t \in Tasks : ~Settling(t)) /\ UNCHANGED burst
  /\ ready' = [ready EXCEPT ![q] = TRUE]
  /\ Wake(q, mode, "EVENT")
  /\ UNCHANGED <<now, regVars, cpu, left>>

-----------------------------------------------------------------------------
(* Tasks.                                                                  *)

Dispatch(t) ==
  /\ cpu = NoTask /\ Runnable(t) /\ cpu' = t
  /\ UNCHANGED <<now, regVars, available, condition, fifo, active_waiters,
                 ready, task, burst, left>>

\* The caller of a wait has made use of its result.
YieldCpu ==
  /\ cpu # NoTask /\ task[cpu].at = "own" /\ cpu' = NoTask
  /\ task' = [task EXCEPT ![cpu] = Idle]
  /\ UNCHANGED <<now, regVars, available, condition, fifo, active_waiters,
                 ready, burst, left>>

\* The task that runs publishes an event (vfs_pipe_write copies the bytes
\* in); an interrupt may come before it calls wake_up or wake_up_all.
Publish(t, q) ==
  /\ cpu = t /\ task[t].at = "own" /\ Valid(q)
  /\ ready' = [ready EXCEPT ![q] = TRUE]
  /\ task' = [task EXCEPT ![t].at = "waking", ![t].queue = q]
  /\ UNCHANGED <<now, regVars, available, condition, fifo, active_waiters,
                 cpu, burst, left>>

PublishWake(t, mode) ==
  /\ cpu = t /\ task[t].at = "waking"
  /\ LET q == task[t].queue
         woken == Chosen(q, mode) IN
       /\ condition' = [condition EXCEPT ![q] = Advance(@)]
       /\ fifo' = [fifo EXCEPT ![q] = Without(@, woken)]
       /\ active_waiters' = active_waiters - Cardinality(woken)
       /\ task' = [Woken(woken, "EVENT") EXCEPT ![t] = Idle]
  /\ UNCHANGED <<now, regVars, available, ready, cpu, burst, left>>

\* wait_event_timeout is called.
WaitEvent(t, q, timeout) ==
  /\ cpu = t /\ task[t].at = "own"
  /\ task' = [task EXCEPT ![t] =
       [Idle EXCEPT !.at = "loop", !.queue = q,
          !.deadline = IF timeout = Infinite THEN Infinite
                       ELSE (now + timeout) % TickSpace]]
  /\ left' = [left EXCEPT ![t] = IF timeout = Infinite THEN 0 ELSE timeout]
  /\ UNCHANGED <<now, regVars, available, condition, fifo, active_waiters,
                 ready, cpu, burst>>

Return(t, reason) == task' = [task EXCEPT ![t] = [Idle EXCEPT !.reason = reason]]

(***************************************************************************)
(* The loop of wait_event_timeout: wait_condition_snapshot, and the way    *)
(* out when the queue is gone, the condition holds (the waiter takes what  *)
(* is ready) or the device is.                                             *)
(***************************************************************************)
Snapshot(t) ==
  /\ cpu = t /\ task[t].at = "loop"
  /\ LET q == task[t].queue IN
     \/ ~Valid(q) /\ Return(t, "ERR_STATE") /\ UNCHANGED ready
     \/ /\ Valid(q) /\ ready[q]
        /\ Return(t, "EVENT") /\ ready' = [ready EXCEPT ![q] = FALSE]
     \/ /\ Valid(q) /\ ~ready[q] /\ ~available[q]
        /\ Return(t, "DEVICE_UNAVAILABLE") /\ UNCHANGED ready
     \/ /\ Valid(q) /\ ~ready[q] /\ available[q]
        /\ task' = [task EXCEPT ![t].at = "check", ![t].seen = condition[q]]
        /\ UNCHANGED ready
  /\ UNCHANGED <<now, regVars, available, condition, fifo, active_waiters,
                 cpu, burst, left>>

\* Fault: the deadline is compared without regard to the wrap of the clock.
CheckDeadlineUnwrapped(t) ==
  /\ cpu = t /\ task[t].at = "check"
  /\ task' = [task EXCEPT ![t] =
       IF @.deadline = Infinite THEN [@ EXCEPT !.at = "block", !.timer = Infinite]
       ELSE IF now >= @.deadline THEN [@ EXCEPT !.at = "block", !.timer = 0]
       ELSE [@ EXCEPT !.at = "read"]]
  /\ UNCHANGED <<now, regVars, available, condition, fifo, active_waiters,
                 ready, cpu, burst, left>>

\* wait_queue_deadline_reached
DeadlineReached(t) == \/ task[t].deadline = Past
                      \/ task[t].deadline \in Ticks /\ ReachedAt(now, task[t].deadline)

(***************************************************************************)
(* wait_event_timeout, its interrupts enabled again, looks whether its     *)
(* deadline has come. timer holds what is passed on as remaining.          *)
(***************************************************************************)
CheckDeadline(t) ==
  /\ cpu = t /\ task[t].at = "check"
  /\ \/ /\ task[t].deadline = Infinite
        /\ task' = [task EXCEPT ![t].at = "block", ![t].timer = Infinite]
     \/ /\ DeadlineReached(t)
        /\ task' = [task EXCEPT ![t].at = "block", ![t].timer = 0]
     \/ /\ task[t].deadline # Infinite /\ ~DeadlineReached(t)
        /\ task' = [task EXCEPT ![t].at = "read"]
  /\ UNCHANGED <<now, regVars, available, condition, fifo, active_waiters,
                 ready, cpu, burst, left>>

\* A number of ticks as an argument: 2^32 - 1 is WAIT_TIMEOUT_INFINITE.
AsTimeout(ticks) == IF ticks = TickSpace - 1 THEN Infinite ELSE ticks

\* deadline - timer_get_ticks(), a second look at the clock.
Remaining(deadline) == AsTimeout((deadline - now) % TickSpace)

\* Ticks may have come since CheckDeadline: the difference may be negative.
ReadClock(t) ==
  /\ cpu = t /\ task[t].at = "read"
  /\ task' = [task EXCEPT ![t].at = "block",
                          ![t].timer = Remaining(task[t].deadline)]
  /\ UNCHANGED <<now, regVars, available, condition, fifo, active_waiters,
                 ready, cpu, burst, left>>

\* WAIT_MAX_TIMEOUT_TICKS
LongestTimeout == TickSpace \div 2 - 1

\* Fault: a deadline at tick 0 is taken for none.
EntryDeadlineFaulty(ticks) ==
  IF ticks = Infinite \/ (now + ticks) % TickSpace = 0
  THEN Infinite ELSE (now + ticks) % TickSpace

\* entry->deadline_tick, counted from the moment the task is linked.
EntryDeadline(ticks) ==
  IF ticks = Infinite THEN Infinite ELSE (now + ticks) % TickSpace

\* A finite wait whose time, read a tick too late, was taken as infinite.
KeptDeadline(t) == IF task[t].timer = Infinite /\ task[t].deadline # Infinite
                   THEN Past ELSE task[t].deadline

\* wait_queue_append_locked
Enlist(q, t) ==
  /\ fifo' = [fifo EXCEPT ![q] = Append(@, t)]
  /\ active_waiters' = active_waiters + 1

\* Fault: the task is linked without looking at the counter again.
BlockFaulty(t) ==
  /\ cpu = t /\ task[t].at = "block"
  /\ LET q == task[t].queue IN
     \/ /\ ~available[q]
        /\ Return(t, "DEVICE_UNAVAILABLE") /\ UNCHANGED <<fifo, active_waiters, cpu>>
     \/ /\ available[q]
        /\ task' = [task EXCEPT ![t].at = "blocked", ![t].seen = 0,
                                ![t].timer = EntryDeadline(@),
                                ![t].deadline = KeptDeadline(t)]
        /\ Enlist(q, t)
        /\ cpu' = NoTask
  /\ burst' = 0
  /\ UNCHANGED <<now, regVars, available, condition, ready, left>>

(***************************************************************************)
(* process_wait or thread_wait, and wait_queue_block: the task is not      *)
(* linked when the time asked for is too long, when the device has gone,   *)
(* when the counter has moved since the snapshot, or when no time is left. *)
(* Otherwise it is linked, BLOCKED and gives the CPU up.                   *)
(***************************************************************************)
Block(t) ==
  /\ cpu = t /\ task[t].at = "block"
  /\ LET q == task[t].queue IN
     \/ /\ task[t].timer > LongestTimeout
        /\ Return(t, "ERR_INVALID") /\ UNCHANGED <<fifo, active_waiters, cpu>>
     \/ /\ task[t].timer <= LongestTimeout /\ ~available[q]
        /\ Return(t, "DEVICE_UNAVAILABLE") /\ UNCHANGED <<fifo, active_waiters, cpu>>
     \/ /\ task[t].timer <= LongestTimeout /\ available[q]
        /\ condition[q] # task[t].seen
        /\ task' = [task EXCEPT ![t].at = "loop", ![t].seen = 0,
                                ![t].timer = Infinite]
        /\ UNCHANGED <<fifo, active_waiters, cpu>>
     \/ /\ task[t].timer <= LongestTimeout /\ available[q]
        /\ condition[q] = task[t].seen /\ task[t].timer = 0
        /\ Return(t, "TIMEOUT") /\ UNCHANGED <<fifo, active_waiters, cpu>>
     \/ /\ task[t].timer <= LongestTimeout /\ available[q]
        /\ condition[q] = task[t].seen /\ task[t].timer # 0
        /\ task' = [task EXCEPT ![t].at = "blocked", ![t].seen = 0,
                                ![t].timer = EntryDeadline(@),
                                ![t].deadline = KeptDeadline(t)]
        /\ Enlist(q, t)
        /\ cpu' = NoTask
  /\ burst' = 0
  /\ UNCHANGED <<now, regVars, available, condition, ready, left>>

\* The wait returns: an event sends the task round the loop again.
Resume(t) ==
  /\ cpu = t /\ task[t].at = "blocked"
  /\ IF task[t].reason = "EVENT"
     THEN task' = [task EXCEPT ![t].at = "loop", ![t].reason = "NONE"]
     ELSE Return(t, task[t].reason)
  /\ UNCHANGED <<now, regVars, available, condition, fifo, active_waiters,
                 ready, cpu, burst, left>>

\* process_cancel_wait, thread_cancel_wait and signals: wait_queue_remove.
CancelWait(t) ==
  /\ cpu \notin {NoTask, t} /\ Linked(t)
  /\ Unlink(task[t].queue, {t}, "CANCELLED")
  /\ UNCHANGED <<now, regVars, available, condition, ready, cpu, burst, left>>

\* scheduler_tick and thread_scheduler_tick end the waits that are over.
Expired(c) ==
  {t \in Tasks : Linked(t) /\ task[t].timer # Infinite
                 /\ ReachedAt(c, task[t].timer)}

(***************************************************************************)
(* The timer interrupt. A task leaves the loop or blocks within MaxStall   *)
(* ticks of its deadline and runs within MaxLate.                          *)
(***************************************************************************)
Late(t, c, ticks) == task[t].deadline \in Ticks
                     /\ ReachedAt(c, (task[t].deadline + ticks) % TickSpace)

Tick ==
  /\ \E t \in Tasks : task[t].deadline \in Ticks
  /\ LET c == (now + 1) % TickSpace IN
       /\ \A t \in Tasks : ~Late(t, c, IF Settling(t) THEN MaxStall ELSE MaxLate)
       /\ now' = c
       /\ fifo' = [q \in Queues |-> Without(fifo[q], Expired(c))]
       /\ active_waiters' = active_waiters - Cardinality(Expired(c))
       /\ task' = Woken(Expired(c), "TIMEOUT")
       /\ left' = [t \in Tasks |-> IF left[t] > 0 THEN left[t] - 1 ELSE 0]
  /\ UNCHANGED <<regVars, available, condition, ready, cpu, burst>>

-----------------------------------------------------------------------------
Modes == {"ONE", "ALL"}

\* The steps of a call that a task has begun.
CallStep(t) ==
  \/ Snapshot(t) \/ CheckDeadline(t) \/ ReadClock(t) \/ Block(t) \/ Resume(t)
  \/ \E mode \in Modes : PublishWake(t, mode)

TaskStep(t) ==
  \/ CallStep(t)
  \/ \E q \in Queues : Publish(t, q)
  \/ \E q \in Queues, timeout \in Timeouts : WaitEvent(t, q, timeout)

\* What the running task does with queues it owns.
Manage(q) ==
  /\ cpu # NoTask /\ task[cpu].at = "own"
  /\ InitQueue(q) \/ ResetQueue(q) \/ \E b \in BOOLEAN : SetAvailable(q, b)

Next ==
  \/ \E t \in Tasks : Dispatch(t) \/ TaskStep(t) \/ CancelWait(t)
  \/ YieldCpu \/ Tick
  \/ \E q \in Queues : Manage(q)
  \/ \E q \in Queues, mode \in Modes : Interrupt(q, mode)

(***************************************************************************)
(* The timer keeps interrupting (a tick that finds interrupts disabled is  *)
(* delivered when they are enabled again), a wait that can go on does,     *)
(* every kernel loop gives the CPU up now and then, and the scheduler is   *)
(* fair to a task that is ready again and again (BoundedOvertaking of      *)
(* Scheduler).                                                             *)
(***************************************************************************)
Fairness ==
  /\ SF_vars(Tick) /\ SF_vars(YieldCpu)
  /\ \A t \in Tasks : SF_vars(Dispatch(t))
                      /\ WF_vars(CallStep(t))

Spec == Init /\ [][Next]_vars /\ Fairness

-----------------------------------------------------------------------------
TypeOK ==
  /\ now \in Ticks
  /\ registry \in [Slots -> Queues \cup {NoQueue}]
  /\ generations \in [Slots -> 0..MaxGeneration]
  /\ slot \in [Queues -> Slots \cup {-1}]
  /\ available \in [Queues -> BOOLEAN] /\ ready \in [Queues -> BOOLEAN]
  /\ condition \in [Queues -> 0..(Conditions - 1)]
  /\ fifo \in [Queues -> Seq(Tasks)]
  /\ active_waiters \in 0..Cardinality(Tasks)
  /\ cpu \in Tasks \cup {NoTask}
  /\ task \in [Tasks -> TaskStates]
  /\ burst \in 0..MaxBurst /\ left \in [Tasks -> 0..MaxTimeout]

(***************************************************************************)
(* wait_validate_state: a task is linked at most once, in a queue that is  *)
(* registered and available, and only a blocked task is; the global count  *)
(* of waiters is the sum of the lists. So no reset, cancellation, timeout  *)
(* or wake leaves a task asleep where nothing will ever wake it.           *)
(***************************************************************************)
WaitersAreReachable ==
  /\ TypeOK
  /\ \A q \in Queues : fifo[q] # <<>> => Valid(q) /\ available[q]
  /\ \A q \in Queues, t \in Tasks : t \in Members(fifo[q]) =>
       task[t].at = "blocked" /\ task[t].queue = q /\ cpu # t
  /\ \A q \in Queues : \A i, j \in DOMAIN fifo[q] : fifo[q][i] = fifo[q][j] => i = j
  /\ active_waiters = Cardinality({t \in Tasks : Linked(t)})

\* The task will look at the condition of q before it sleeps.
Attentive(t, q) ==
  /\ task[t].queue = q /\ ~Linked(t)
  /\ \/ task[t].at \in {"waking", "loop"}
     \/ task[t].at = "blocked" /\ task[t].reason = "EVENT"

(***************************************************************************)
(* No lost wakeup: when something is ready in a queue on which tasks       *)
(* sleep, a producer is about to wake one of them or a waiter is already   *)
(* on its way to look (woken for the event, or in the loop of              *)
(* wait_event_timeout before its snapshot). A waiter between its snapshot  *)
(* and its block does not count: it may still leave without a look.        *)
(***************************************************************************)
NoLostWakeup ==
  \A q \in Queues : ready[q] /\ fifo[q] # <<>> =>
                      \E t \in Tasks : Attentive(t, q)

(***************************************************************************)
(* A wait never reports TIMEOUT before the ticks its caller asked for have *)
(* passed, however often it was woken and went to sleep again.             *)
(***************************************************************************)
NoEarlyTimeout ==
  [][\A t \in Tasks :
       task[t].at \in {"block", "blocked"} /\ task'[t].at = "own"
       /\ task'[t].reason = "TIMEOUT" => left'[t] = 0]_vars

\* A finite wait that sleeps without a deadline.
Overslept(t) == Linked(t) /\ task[t].deadline = Past

(***************************************************************************)
(* A wait with a finite timeout ends, whatever the queue goes through and  *)
(* however often it is woken for an event that another task takes, unless  *)
(* two ticks come between the two reads of the clock in the turn of the    *)
(* loop that precedes the deadline: the task then sleeps without one.      *)
(***************************************************************************)
TimedWaitsEnd ==
  \A t \in Tasks : task[t].deadline # Infinite
                    ~> task[t].at = "own" \/ Overslept(t)
=============================================================================
