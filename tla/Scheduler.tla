------------------------------ MODULE Scheduler ------------------------------
(***************************************************************************)
(* Processes and their scheduler, src/process/process.c, on one CPU. Slot  *)
(* 0 of the table is Idle. Kernel processes are cooperative; a process in  *)
(* ring 3 is preempted by the timer interrupt (src/drivers/timer.c).       *)
(*                                                                         *)
(* Code between process_wait_irq_save and _restore is one step, and so is  *)
(* kernel code that touches only what interrupt handlers leave alone. The  *)
(* one window interrupts can use is kept: a process that blocks is marked  *)
(* BLOCKED first and gives the CPU up later (process_yield polls the       *)
(* services and the threads before it calls scheduler_yield_internal).     *)
(* The waits are on one wait queue, modelled in full by WaitQueue.         *)
(***************************************************************************)
EXTENDS Integers, Sequences, FiniteSets, KernelLists

CONSTANTS N,              \* MAX_PROCESSES
          MaxTicks,       \* bound: the longest sleep or timeout
          MaxGeneration   \* bound: identities given by one behaviour

ASSUME NAssumption == N \in Nat /\ N > 1
ASSUME MaxTicksAssumption == MaxTicks \in Nat \ {0}
ASSUME MaxGenerationAssumption == MaxGeneration \in Nat \ {0}

Slots  == 0..(N - 1)
Others == 1..(N - 1)     \* every slot but Idle's; also the pool of PIDs

VARIABLES
  state, pid, user,      \* of the process in each slot
  generation,            \* event_generation, the identity behind a PID
  wait_active, wait_ticks, cancel_pending,
  current,               \* the slot of current_process
  last_scheduled_idx,
  free_pids,             \* the LIFO pool
  identities,            \* process_identity_generation
  fifo,                  \* the wait queue: slots whose wait_entry is linked
  available,             \* the queue's device is available
  cpu,                   \* what current_process is doing: its own code,
                         \* inside process_yield, or leaving as a zombie
  asked,                 \* ghost: identities whose end has been requested
  overtaken              \* ghost: elections lost by a process while READY

procVars == <<state, pid, user, generation>>
waitVars == <<wait_active, wait_ticks, fifo>>
poolVars == <<pid, generation, user, free_pids, identities>>
vars == <<state, pid, user, generation, wait_active, wait_ticks,
          cancel_pending, current, last_scheduled_idx, free_pids, identities,
          fifo, available, cpu, asked, overtaken>>

States == {"UNUSED", "READY", "RUNNING", "BLOCKED", "ZOMBIE"}
Alive  == {"READY", "RUNNING", "BLOCKED"}

Init ==
  /\ state = [p \in Slots |-> IF p = 0 THEN "RUNNING" ELSE "UNUSED"]
  /\ pid = [p \in Slots |-> 0]
  /\ user = [p \in Slots |-> FALSE]
  /\ generation = [p \in Slots |-> IF p = 0 THEN 1 ELSE 0]
  /\ wait_active = [p \in Slots |-> FALSE]
  /\ wait_ticks = [p \in Slots |-> 0]
  /\ cancel_pending = [p \in Slots |-> FALSE]
  /\ current = 0 /\ last_scheduled_idx = N - 1
  /\ free_pids = [i \in Others |-> N - i]
  /\ identities = 1
  /\ fifo = <<>> /\ available = TRUE
  /\ cpu = "run"
  /\ asked = {} /\ overtaken = [p \in Slots |-> 0]

-----------------------------------------------------------------------------
(* scheduler_find_next_ready and scheduler_select_next, on the process     *)
(* states st: the first READY slot after the last one chosen, else the     *)
(* current process if it may go on, else Idle.                             *)
Candidate(step) == 1 + ((last_scheduled_idx - 1 + step) % (N - 1))

Distance(p) ==
  CHOOSE step \in 1..(N - 1) : Candidate(step) = p

ReadySlots(st) == {p \in Others : st[p] = "READY"}

(* Fault: the search always starts at slot 1. *)
NextReadyFaulty(st) ==
  CHOOSE p \in ReadySlots(st) : \A q \in ReadySlots(st) : p <= q

NextReady(st) ==
  CHOOSE p \in ReadySlots(st) :
    \A q \in ReadySlots(st) : Distance(p) <= Distance(q)

SelectNext(st) ==
  IF ReadySlots(st) # {} THEN NextReady(st)
  ELSE IF current # 0 /\ st[current] = "RUNNING" THEN current
  ELSE 0

(* The bookkeeping of one election. *)
Elect(st) ==
  /\ last_scheduled_idx' = IF ReadySlots(st) # {} THEN NextReady(st)
                           ELSE last_scheduled_idx
  /\ overtaken' = [p \in Slots |->
                     IF p \in ReadySlots(st) /\ p # NextReady(st)
                     THEN overtaken[p] + 1 ELSE 0]

(* scheduler_yield_internal: the switch, from the process states st. When  *)
(* the process itself is elected nothing changes.                          *)
YieldInternal(st) ==
  /\ Elect(st)
  /\ LET next == SelectNext(st)
     IN /\ current' = next
        /\ state' = IF next = current THEN st
                    ELSE [p \in Slots |->
                            IF p = next THEN "RUNNING"
                            ELSE IF p = current /\ st[p] = "RUNNING"
                            THEN "READY" ELSE st[p]]

-----------------------------------------------------------------------------
(* process_block: a kernel process sleeps for t ticks. The call is refused *)
(* (a step that changes nothing) unless the process is RUNNING.            *)
Block(t) ==
  /\ cpu = "run" /\ current # 0 /\ ~user[current]
  /\ state[current] = "RUNNING"
  /\ state' = [state EXCEPT ![current] = "BLOCKED"]
  /\ wait_ticks' = [wait_ticks EXCEPT ![current] = t]
  /\ wait_active' = [wait_active EXCEPT ![current] = FALSE]
  /\ cpu' = "yield"
  /\ UNCHANGED <<poolVars, cancel_pending, current, last_scheduled_idx,
                 fifo, available, asked, overtaken>>

(* process_wait and wait_queue_block, on the path that sleeps: t is the    *)
(* timeout, 0 for none.                                                    *)
Wait(t) ==
  /\ cpu = "run" /\ current # 0 /\ state[current] = "RUNNING"
  /\ ~wait_active[current] /\ available
  /\ fifo' = Append(fifo, current)
  /\ wait_active' = [wait_active EXCEPT ![current] = TRUE]
  /\ wait_ticks' = [wait_ticks EXCEPT ![current] = t]
  /\ state' = [state EXCEPT ![current] = "BLOCKED"]
  /\ cpu' = "yield"
  /\ UNCHANGED <<poolVars, cancel_pending, current, last_scheduled_idx,
                 available, asked, overtaken>>

(* process_yield, up to scheduler_yield_internal. *)
Yield ==
  /\ cpu = "run" /\ state[current] \in Alive
  /\ cpu' = "yield"
  /\ UNCHANGED <<procVars, waitVars, cancel_pending, current,
                 last_scheduled_idx, free_pids, identities, available,
                 asked, overtaken>>

Switch ==
  /\ cpu = "yield"
  /\ YieldInternal(state)
  /\ cpu' = "run"
  /\ UNCHANGED <<poolVars, waitVars, cancel_pending, available, asked>>

-----------------------------------------------------------------------------
(* What a wake-up does to the processes of ws: process_wait_clear and      *)
(* process_wait_wake_transition.                                           *)
Woken(st, ws) ==
  [p \in Slots |-> IF p \in ws /\ st[p] = "BLOCKED" THEN "READY" ELSE st[p]]

WaitClear(ws) ==
  /\ fifo' = Without(fifo, ws)
  /\ wait_active' = [p \in Slots |-> p \notin ws /\ wait_active[p]]
  /\ wait_ticks' = [p \in Slots |-> IF p \in ws THEN 0 ELSE wait_ticks[p]]

(* wait_queue_wake_target with WAIT_REASON_EVENT: the oldest waiter, or    *)
(* all of them.                                                            *)
Wake(ws) ==
  /\ fifo # <<>>
  /\ ws \in {{fifo[1]}, Members(fifo)}
  /\ state' = Woken(state, ws)
  /\ WaitClear(ws)
  /\ UNCHANGED <<poolVars, cancel_pending, current, last_scheduled_idx,
                 available, cpu, asked, overtaken>>

(* wait_channel_set_available: a device that leaves wakes all its waiters. *)
SetAvailable ==
  /\ available' = ~available
  /\ LET ws == Members(fifo)
     IN /\ state' = Woken(state, ws)
        /\ WaitClear(ws)
  /\ UNCHANGED <<poolVars, cancel_pending, current, last_scheduled_idx, cpu,
                 asked, overtaken>>

(* The processes whose sleep or timeout ends with this tick. *)
Expired ==
  {p \in Slots : state[p] = "BLOCKED" /\ wait_ticks[p] = 1}

(* The loop of scheduler_tick. *)
TickCount ==
  /\ fifo' = Without(fifo, Expired)
  /\ wait_active' = [p \in Slots |-> p \notin Expired /\ wait_active[p]]
  /\ wait_ticks' = [p \in Slots |->
                      IF state[p] = "BLOCKED" /\ wait_ticks[p] > 0
                      THEN wait_ticks[p] - 1 ELSE wait_ticks[p]]

(* timer_handler interrupting kernel code. *)
TickInKernel ==
  /\ TickCount
  /\ state' = Woken(state, Expired)
  /\ UNCHANGED <<poolVars, cancel_pending, current, last_scheduled_idx,
                 available, cpu, asked, overtaken>>

(* timer_handler interrupting ring 3: scheduler_preempt_user gives the CPU *)
(* to the next READY process, but only when the current one is RUNNING.    *)
TickInUser ==
  /\ cpu = "run" /\ user[current]
  /\ TickCount
  /\ IF state[current] = "RUNNING" THEN YieldInternal(Woken(state, Expired))
     ELSE /\ state' = Woken(state, Expired)
          /\ UNCHANGED <<current, last_scheduled_idx, overtaken>>
  /\ UNCHANGED <<poolVars, cancel_pending, available, cpu, asked>>

-----------------------------------------------------------------------------
(* process_create_internal, and process_create_user_image with its process *)
(* suspended until process_start_user. The first free slot is used.        *)
FirstFree(p) ==
  /\ p \in Others /\ state[p] = "UNUSED"
  /\ \A q \in Others : q < p => state[q] # "UNUSED"

(* Fault: the PID is read from the top of the pool and left there. *)
CreateFaulty(p, isUser) ==
  /\ cpu = "run" /\ FirstFree(p) /\ free_pids # <<>>
  /\ identities < MaxGeneration
  /\ identities' = identities + 1
  /\ generation' = [generation EXCEPT ![p] = identities + 1]
  /\ pid' = [pid EXCEPT ![p] = free_pids[Len(free_pids)]]
  /\ UNCHANGED free_pids
  /\ user' = [user EXCEPT ![p] = isUser]
  /\ state' = [state EXCEPT ![p] = IF isUser THEN "BLOCKED" ELSE "READY"]
  /\ overtaken' = [overtaken EXCEPT ![p] = 0]
  /\ UNCHANGED <<waitVars, cancel_pending, current, last_scheduled_idx,
                 available, cpu, asked>>

Create(p, isUser) ==
  /\ cpu = "run" /\ FirstFree(p) /\ free_pids # <<>>
  /\ identities < MaxGeneration
  /\ identities' = identities + 1
  /\ generation' = [generation EXCEPT ![p] = identities + 1]
  /\ pid' = [pid EXCEPT ![p] = free_pids[Len(free_pids)]]
  /\ free_pids' = SubSeq(free_pids, 1, Len(free_pids) - 1)
  /\ user' = [user EXCEPT ![p] = isUser]
  /\ state' = [state EXCEPT ![p] = IF isUser THEN "BLOCKED" ELSE "READY"]
  /\ overtaken' = [overtaken EXCEPT ![p] = 0]
  /\ UNCHANGED <<waitVars, cancel_pending, current, last_scheduled_idx,
                 available, cpu, asked>>

(* process_start_user: only a process suspended by its creation. *)
StartUser(p) ==
  /\ cpu = "run" /\ user[p] /\ state[p] = "BLOCKED" /\ ~wait_active[p]
  /\ state' = [state EXCEPT ![p] = "READY"]
  /\ UNCHANGED <<poolVars, waitVars, cancel_pending, current,
                 last_scheduled_idx, available, cpu, asked, overtaken>>

-----------------------------------------------------------------------------
(* process_get_by_pid. *)
ByPid(q) == {p \in Others : state[p] # "UNUSED" /\ pid[p] = q}

(* Fault: a zombie keeps its place in the wait queue. *)
MarkZombieFaulty(p) ==
  /\ state' = [state EXCEPT ![p] = "ZOMBIE"]
  /\ wait_active' = [wait_active EXCEPT ![p] = FALSE]
  /\ UNCHANGED <<fifo, wait_ticks>>
  /\ cancel_pending' = [cancel_pending EXCEPT ![p] = FALSE]

(* process_mark_user_zombie: a wait is cancelled first. *)
MarkZombie(p) ==
  /\ state' = [state EXCEPT ![p] = "ZOMBIE"]
  /\ WaitClear(IF wait_active[p] THEN {p} ELSE {})
  /\ cancel_pending' = [cancel_pending EXCEPT ![p] = FALSE]

(* A request names a PID, here the slot p that holds it, and a generation. *)
(* Generation 0 stands for whoever holds the PID when the call is made:    *)
(* F12 and Ctrl+C, the kill command and the task manager pass only a PID.  *)
Names(p, g) == g # 0 => generation[p] = g
Meant(p, g) == IF g = 0 THEN generation[p] ELSE g

(* Fault: the identity behind the PID is not compared. *)
CancelFaulty(p, g) ==
  /\ cpu = "run" /\ p # current /\ user[p] /\ state[p] \in Alive
  /\ ~cancel_pending[p]
  /\ MarkZombie(p)
  /\ asked' = asked \cup {Meant(p, g)}
  /\ UNCHANGED <<poolVars, current, last_scheduled_idx, available, cpu,
                 overtaken>>

(* process_cancel_user_generation; process_cancel_user and                 *)
(* process_cancel_focused_user call it with generation 0. A process inside *)
(* a wait is woken and ends itself on its way back to ring 3; any other    *)
(* becomes a zombie at once.                                               *)
Cancel(p, g) ==
  /\ cpu = "run" /\ p # current /\ user[p] /\ state[p] \in Alive
  /\ Names(p, g) /\ ~cancel_pending[p]
  /\ IF state[p] = "BLOCKED" /\ wait_active[p]
     THEN /\ cancel_pending' = [cancel_pending EXCEPT ![p] = TRUE]
          /\ state' = Woken(state, {p})
          /\ WaitClear({p})
     ELSE MarkZombie(p)
  /\ asked' = asked \cup {Meant(p, g)}
  /\ UNCHANGED <<poolVars, current, last_scheduled_idx, available, cpu,
                 overtaken>>

(* process_terminate_user_signal_generation for another process, and       *)
(* process_terminate_user_signal, which passes generation 0.               *)
TerminateBySignal(p, g) ==
  /\ cpu = "run" /\ p # current /\ user[p] /\ state[p] \in Alive
  /\ Names(p, g)
  /\ MarkZombie(p)
  /\ asked' = asked \cup {Meant(p, g)}
  /\ UNCHANGED <<poolVars, current, last_scheduled_idx, available, cpu,
                 overtaken>>

(* process_exit_current, a fatal signal or a fault of the current process. *)
Exit ==
  /\ cpu = "run" /\ user[current] /\ state[current] \in Alive
  /\ MarkZombie(current)
  /\ asked' = asked \cup {generation[current]}
  /\ cpu' = "exit"
  /\ UNCHANGED <<poolVars, current, last_scheduled_idx, available, overtaken>>

(* process_apply_pending_cancel, on the way back to ring 3. *)
ApplyPendingCancel ==
  /\ cpu = "run" /\ user[current] /\ state[current] \in Alive
  /\ cancel_pending[current]
  /\ MarkZombie(current)
  /\ cpu' = "exit"
  /\ UNCHANGED <<poolVars, current, last_scheduled_idx, available, asked,
                 overtaken>>

(* process_finish_user_termination, process_switch_after_termination. *)
SwitchAfterTermination ==
  /\ cpu = "exit"
  /\ Elect(state)
  /\ LET next == SelectNext(state)
     IN /\ current' = next
        /\ state' = [state EXCEPT ![next] = "RUNNING"]
  /\ cpu' = "run"
  /\ UNCHANGED <<poolVars, waitVars, cancel_pending, available, asked>>

(* Fault: the current process is not excluded. *)
DestroyFaulty(p) ==
  /\ cpu = "run" /\ p \in Others /\ state[p] # "UNUSED"
  /\ state' = [state EXCEPT ![p] = "UNUSED"]
  /\ WaitClear({p})
  /\ cancel_pending' = [cancel_pending EXCEPT ![p] = FALSE]
  /\ user' = [user EXCEPT ![p] = FALSE]
  /\ generation' = [generation EXCEPT ![p] = 0]
  /\ pid' = [pid EXCEPT ![p] = 0]
  /\ free_pids' = Append(free_pids, pid[p])
  /\ UNCHANGED <<identities, current, last_scheduled_idx, available, cpu,
                 asked, overtaken>>

(* process_destroy, called for a zombie by the reapers (which loop over    *)
(* the table) and for any process by the task manager and the supervisor:  *)
(* the slot is cleared and the PID returns to the pool.                    *)
Destroy(p) ==
  /\ cpu = "run" /\ p \in Others /\ p # current /\ state[p] # "UNUSED"
  /\ state' = [state EXCEPT ![p] = "UNUSED"]
  /\ WaitClear({p})
  /\ cancel_pending' = [cancel_pending EXCEPT ![p] = FALSE]
  /\ user' = [user EXCEPT ![p] = FALSE]
  /\ generation' = [generation EXCEPT ![p] = 0]
  /\ pid' = [pid EXCEPT ![p] = 0]
  /\ free_pids' = Append(free_pids, pid[p])
  /\ UNCHANGED <<identities, current, last_scheduled_idx, available, cpu,
                 asked, overtaken>>

-----------------------------------------------------------------------------
Tick == TickInKernel \/ TickInUser

Next ==
  \/ Yield \/ Switch \/ Tick \/ SetAvailable
  \/ Exit \/ ApplyPendingCancel \/ SwitchAfterTermination
  \/ \E t \in 1..MaxTicks : Block(t)
  \/ \E t \in 0..MaxTicks : Wait(t)
  \/ \E ws \in SUBSET Slots : Wake(ws)
  \/ \E p \in Others : \/ \E isUser \in BOOLEAN : Create(p, isUser)
                       \/ StartUser(p)
                       \/ Destroy(p)
  \/ \E p \in Others, g \in 0..MaxGeneration :
       Cancel(p, g) \/ TerminateBySignal(p, g)

(* The timer keeps interrupting. *)
Spec == Init /\ [][Next]_vars /\ WF_vars(Tick)

-----------------------------------------------------------------------------
TypeOK ==
  /\ state \in [Slots -> States]
  /\ pid \in [Slots -> Slots]
  /\ user \in [Slots -> BOOLEAN]
  /\ generation \in [Slots -> 0..MaxGeneration]
  /\ wait_active \in [Slots -> BOOLEAN]
  /\ wait_ticks \in [Slots -> 0..MaxTicks]
  /\ cancel_pending \in [Slots -> BOOLEAN]
  /\ current \in Slots
  /\ last_scheduled_idx \in Others
  /\ free_pids \in Seq(Others)
  /\ identities \in 1..MaxGeneration
  /\ fifo \in Seq(Slots)
  /\ available \in BOOLEAN
  /\ cpu \in {"run", "yield", "exit"}
  /\ asked \subseteq 1..MaxGeneration
  /\ overtaken \in [Slots -> Nat]

(* scheduler_validate_pid_table and the free pool: the live PIDs and the   *)
(* free ones are together the whole pool, each exactly once, whatever      *)
(* order processes are created and destroyed in.                           *)
PidsArePartitioned ==
  /\ TypeOK
  /\ \A p, q \in Others :
       state[p] # "UNUSED" /\ state[q] # "UNUSED" /\ pid[p] = pid[q] => p = q
  /\ \A i, j \in DOMAIN free_pids : free_pids[i] = free_pids[j] => i = j
  /\ \A q \in Others :
       (\E i \in DOMAIN free_pids : free_pids[i] = q) <=> ByPid(q) = {}

(* scheduler_validate_states on waits, Idle and sleeps: a process is in    *)
(* the wait queue, once, exactly while its wait is active, and only while  *)
(* it is BLOCKED, so no wake-up reaches a process_t that is gone; a kernel *)
(* process that is BLOCKED has something that will wake it, a tick count   *)
(* or the queue; and Idle can always be elected.                           *)
WaitersAreLinked ==
  /\ \A i, j \in DOMAIN fifo : fifo[i] = fifo[j] => i = j
  /\ \A p \in Slots :
       /\ wait_active[p] <=> \E i \in DOMAIN fifo : fifo[i] = p
       /\ wait_active[p] => state[p] = "BLOCKED"
  /\ \A p \in Others :
       state[p] = "BLOCKED" /\ ~user[p] => wait_ticks[p] > 0 \/ wait_active[p]
  /\ state[0] \in {"READY", "RUNNING"} /\ ~user[0] /\ pid[0] = 0

(* scheduler_validate_states on RUNNING, and process_finish_user_termi-    *)
(* nation: through yields, preemptions and terminations only the current   *)
(* process is RUNNING, the CPU is never left on a slot that is free, is on *)
(* a zombie only while that zombie is on its way out, and executes no      *)
(* process that is BLOCKED (a READY one it may: section 5 of the README).  *)
CpuOnLiveProcess ==
  /\ \A p \in Slots : state[p] = "RUNNING" => p = current
  /\ state[current] # "UNUSED"
  /\ state[current] = "ZOMBIE" <=> cpu = "exit"
  /\ cpu = "run" => state[current] # "BLOCKED"

(* A process ends, or carries a pending cancellation, only if it was asked *)
(* to itself: by its own exit, by a request that names its generation, or  *)
(* by one that names only a PID, made while the process held that PID. So  *)
(* a request with a generation never falls on a later process that was     *)
(* given the same PID, and no cancellation that waits for the return to    *)
(* ring 3 is inherited by the next process of the slot. Nothing is claimed *)
(* of whom the caller of a PID alone had in mind.                          *)
EndsAreRequested ==
  \A p \in Others :
    state[p] = "ZOMBIE" \/ cancel_pending[p] => generation[p] \in asked

(* Round robin: a READY process is passed over by at most N - 2 elections, *)
(* because scheduler_find_next_ready starts after the last slot it chose.  *)
BoundedOvertaking ==
  \A p \in Others : state[p] = "READY" => overtaken[p] <= N - 2

=============================================================================
