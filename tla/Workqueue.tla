------------------------------ MODULE Workqueue ------------------------------
(***************************************************************************)
(* The kernel workqueue, src/core/workqueue.c, and its only worker, the    *)
(* kworker thread. Interrupt handlers and other tasks schedule works for   *)
(* immediate execution at any time; a callback may schedule its own work   *)
(* again, at once or after a delay (network, index and writeback polling   *)
(* in src/kernel/kernel.c and src/fs/block.c); delayed works are also      *)
(* scheduled at boot, before the kworker starts.                           *)
(*                                                                         *)
(* A deadline is kept as the ticks left until it, negative when it has     *)
(* passed. Deadlines are compared signed where the code subtracts and      *)
(* casts to int32_t, unsigned where it does not.                           *)
(***************************************************************************)
EXTENDS Integers, Sequences, KernelLists

CONSTANTS HighWorks, NormalWorks,
          HighBudget, NormalBudget,  \* WORKQUEUE_HIGH_BUDGET, _NORMAL_BUDGET
          MaxDelay,   \* bound: the longest delay requested
          MaxLate     \* bound: lateness is told apart up to this many ticks

ASSUME PriorityAssumption == HighWorks \cap NormalWorks = {}
ASSUME BudgetAssumption == HighBudget \in Nat \ {0} /\ NormalBudget \in Nat \ {0}
ASSUME DelayAssumption == MaxDelay \in Nat \ {0} /\ MaxLate \in Nat \ {0}

Works == HighWorks \cup NormalWorks
Wrap  == MaxDelay + MaxLate + 1   \* stands for 2^32
Never == -1                       \* WAIT_TIMEOUT_INFINITE

VARIABLES
  registered,
  st,          \* work->state
  left,        \* ticks until deadline_tick, 0 unless DELAYED
  rerun,       \* rerun_requested and rerun_delayed: "no", "now", "later"
  rerunLeft,   \* ticks until rerun_deadline_tick
  cancelled,   \* cancel_requested
  high, normal, delayed,   \* the three lists
  quiescing,   \* power_quiescing
  pc,          \* where the kworker is
  budget, executed,        \* of the current workqueue_dispatch
  sleep,       \* ticks until the deadline of wait_event_timeout, or Never
  signalled,   \* the wait queue's condition moved since it was observed
  owed,        \* ghost: works requested, not withdrawn, not started since
  due          \* ghost: ticks until the earliest of those requests

lists    == <<high, normal, delayed>>
workVars == <<st, left, rerun, rerunLeft, cancelled>>
loopVars == <<pc, budget, executed, sleep>>
vars == <<registered, st, left, rerun, rerunLeft, cancelled, high, normal,
          delayed, quiescing, pc, budget, executed, sleep, signalled, owed,
          due>>

Init ==
  /\ registered = Works
  /\ st = [w \in Works |-> "IDLE"]
  /\ left = [w \in Works |-> 0]
  /\ rerun = [w \in Works |-> "no"]
  /\ rerunLeft = [w \in Works |-> 0]
  /\ cancelled = [w \in Works |-> FALSE]
  /\ high = <<>> /\ normal = <<>> /\ delayed = <<>>
  /\ quiescing = FALSE
  /\ pc = "boot" /\ budget = 0 /\ executed = FALSE
  /\ sleep = Never /\ signalled = FALSE
  /\ owed = {} /\ due = [w \in Works |-> 0]

-----------------------------------------------------------------------------
(* The lists. A list transformation takes and returns a record, because    *)
(* one call of the code may move several works.                            *)
Lists == [high |-> high, normal |-> normal, delayed |-> delayed,
          st |-> st, left |-> left]

Install(l) ==
  /\ high' = l.high /\ normal' = l.normal /\ delayed' = l.delayed
  /\ st' = l.st /\ left' = l.left

(* workqueue_list_remove. *)
ListRemove(l, w) ==
  [l EXCEPT !.high = Without(@, {w}), !.normal = Without(@, {w}),
            !.delayed = Without(@, {w}), !.st[w] = "IDLE", !.left[w] = 0]

(* workqueue_ready_append. *)
ReadyAppend(l, w) ==
  IF w \in HighWorks
  THEN [l EXCEPT !.high = Append(@, w), !.st[w] = "READY"]
  ELSE [l EXCEPT !.normal = Append(@, w), !.st[w] = "READY"]

(* deadline_tick - now, as the unsigned number the code compares. *)
Remaining(n) == IF n < 0 THEN n + Wrap ELSE n

(* workqueue_delayed_insert: before the first work with more time left. *)
DelayedInsert(l, w, n) ==
  LET later  == {i \in DOMAIN l.delayed :
                   Remaining(l.left[l.delayed[i]]) > Remaining(n)}
      place  == IF later = {} THEN Len(l.delayed) + 1
                ELSE CHOOSE i \in later : \A j \in later : i <= j
  IN [l EXCEPT !.delayed = SubSeq(@, 1, place - 1) \o <<w>>
                           \o SubSeq(@, place, Len(@)),
               !.left[w] = n, !.st[w] = "DELAYED"]

(* workqueue_promote_due: the works at the front of the delayed list whose *)
(* deadline has passed become READY.                                       *)
DuePrefix(l) ==
  LET prefix == {n \in 0..Len(l.delayed) :
                   \A i \in 1..n : l.left[l.delayed[i]] <= 0}
  IN CHOOSE n \in prefix : \A m \in prefix : m <= n

PromoteDue(l) ==
  LET n    == DuePrefix(l)
      gone == SubSeq(l.delayed, 1, n)
  IN [l EXCEPT !.delayed = SubSeq(@, n + 1, Len(@)),
               !.high = @ \o Without(gone, NormalWorks),
               !.normal = @ \o Without(gone, HighWorks),
               !.st = [w \in Works |-> IF \E i \in 1..n : gone[i] = w
                                       THEN "READY" ELSE @[w]],
               !.left = [w \in Works |-> IF \E i \in 1..n : gone[i] = w
                                         THEN 0 ELSE @[w]]]

-----------------------------------------------------------------------------
(* workqueue_notify: the condition moves, which matters between the        *)
(* kworker's look at it and its block, and a sleeping kworker wakes and    *)
(* evaluates its condition again (the loop of wait_event_timeout).         *)
Notify ==
  /\ signalled' = (pc = "block")
  /\ pc' = IF pc = "asleep" THEN "snapshot" ELSE pc
  /\ UNCHANGED <<budget, executed, sleep>>

(* What one request leaves of the rerun of a running work. *)
RerunAfter(w, d) ==
  IF rerun[w] = "no" \/ d = 0
  THEN <<IF d = 0 THEN "now" ELSE "later", d>>
  ELSE IF rerun[w] = "later" /\ d < rerunLeft[w] THEN <<"later", d>>
  ELSE <<rerun[w], rerunLeft[w]>>

(* Fault: a nearer deadline does not move a work that is delayed already. *)
RescheduledFaulty(l, w, d) ==
  CASE l.st[w] \in {"READY", "RUNNING", "DELAYED"} -> l
    [] OTHER -> IF d = 0 THEN ReadyAppend(l, w) ELSE DelayedInsert(l, w, d)

(* The lists after workqueue_schedule_on, from the promoted lists l: a     *)
(* request joins a READY work, moves a DELAYED one to the nearer deadline, *)
(* leaves a RUNNING one to its rerun and queues an IDLE one.               *)
Rescheduled(l, w, d) ==
  CASE l.st[w] = "READY"   -> l
    [] l.st[w] = "RUNNING" -> l
    [] l.st[w] = "IDLE"    -> IF d = 0 THEN ReadyAppend(l, w)
                              ELSE DelayedInsert(l, w, d)
    [] OTHER -> IF d = 0 THEN ReadyAppend(ListRemove(l, w), w)
                ELSE IF d < l.left[w] THEN DelayedInsert(ListRemove(l, w), w, d)
                ELSE l

(* workqueue_schedule_on. A request made after a cancel of the running     *)
(* callback is accepted and dropped when it finishes; it is not counted as *)
(* owed.                                                                   *)
ScheduleOn(w, d) ==
  /\ w \in registered /\ ~quiescing
  /\ Install(Rescheduled(PromoteDue(Lists), w, d))
  /\ IF st[w] = "RUNNING"
     THEN /\ rerun' = [rerun EXCEPT ![w] = RerunAfter(w, d)[1]]
          /\ rerunLeft' = [rerunLeft EXCEPT ![w] = RerunAfter(w, d)[2]]
     ELSE UNCHANGED <<rerun, rerunLeft>>
  /\ cancelled' = [cancelled EXCEPT ![w] = st[w] = "RUNNING" /\ @]
  /\ owed' = IF st[w] = "RUNNING" /\ cancelled[w] THEN owed ELSE owed \cup {w}
  /\ due' = [due EXCEPT ![w] = IF w \in owed /\ @ < d THEN @ ELSE d]
  /\ Notify
  /\ UNCHANGED <<registered, quiescing>>

(* schedule_work from an interrupt handler or from another task. *)
Schedule(w) == ScheduleOn(w, 0)

(* schedule_work or schedule_delayed_work of a callback on its own work,   *)
(* and of the boot code.                                                   *)
ScheduleSelf(w, d) == pc = "callback" /\ st[w] = "RUNNING" /\ ScheduleOn(w, d)
ScheduleAtBoot(w, d) == pc = "boot" /\ ScheduleOn(w, d)

(* workqueue_cancel_on. *)
Cancel(w) ==
  /\ w \in registered
  /\ IF st[w] \in {"READY", "DELAYED"} THEN Install(ListRemove(Lists, w))
     ELSE UNCHANGED <<lists, st, left>>
  /\ cancelled' = [cancelled EXCEPT ![w] = @ \/ st[w] = "RUNNING"]
  /\ rerun' = [rerun EXCEPT ![w] = "no"]
  /\ rerunLeft' = [rerunLeft EXCEPT ![w] = 0]
  /\ owed' = owed \ {w}
  /\ due' = [due EXCEPT ![w] = 0]
  /\ UNCHANGED <<registered, quiescing, loopVars, signalled>>

(* work_destroy and work_init. *)
Destroy(w) ==
  /\ w \in registered /\ st[w] = "IDLE"
  /\ registered' = registered \ {w}
  /\ cancelled' = [cancelled EXCEPT ![w] = FALSE]
  /\ UNCHANGED <<lists, st, left, rerun, rerunLeft, quiescing, loopVars,
                 signalled, owed, due>>

Register(w) ==
  /\ w \notin registered /\ ~quiescing
  /\ registered' = registered \cup {w}
  /\ UNCHANGED <<lists, workVars, quiescing, loopVars, signalled, owed, due>>

(* workqueue_power_quiesce_until, refused while a callback is running;     *)
(* workqueue_power_set_quiescing closes and opens the gate alone.          *)
Quiesce ==
  /\ \A w \in Works : st[w] # "RUNNING"
  /\ quiescing' = TRUE
  /\ high' = <<>> /\ normal' = <<>> /\ delayed' = <<>>
  /\ st' = [w \in Works |-> "IDLE"]
  /\ rerun' = [w \in Works |-> "no"]
  /\ rerunLeft' = [w \in Works |-> 0]
  /\ cancelled' = [w \in Works |-> FALSE]
  /\ owed' = {} /\ due' = [w \in Works |-> 0]
  /\ left' = [w \in Works |-> 0]
  /\ UNCHANGED <<registered, loopVars, signalled>>

SetQuiescing ==
  /\ quiescing' = ~quiescing
  /\ UNCHANGED <<registered, workVars, lists, loopVars, signalled, owed, due>>

-----------------------------------------------------------------------------
(* workqueue_worker_main. *)
StartWorker ==
  /\ pc = "boot" /\ pc' = "loop"
  /\ UNCHANGED <<registered, workVars, lists, quiescing, budget, executed,
                 sleep, signalled, owed, due>>

(* workqueue_dispatch: nothing is executed while the gate is closed. *)
Dispatch ==
  /\ pc = "loop"
  /\ pc' = IF quiescing THEN "timeout" ELSE "high"
  /\ budget' = HighBudget /\ executed' = FALSE /\ sleep' = Never
  /\ UNCHANGED <<registered, workVars, lists, quiescing, signalled, owed, due>>

(* workqueue_execute_one up to the callback, on one of the two lists.      *)
(* ready is that list once the due works are promoted.                     *)
Take(l, w) ==
  /\ Install([ListRemove(l, w) EXCEPT !.st[w] = "RUNNING"])
  /\ pc' = "callback"
  /\ budget' = budget - 1 /\ executed' = TRUE
  /\ owed' = owed \ {w} /\ due' = [due EXCEPT ![w] = 0]

ExecuteHigh ==
  /\ pc = "high"
  /\ LET l == PromoteDue(Lists)
     IN IF budget > 0 /\ l.high # <<>> THEN Take(l, l.high[1])
        ELSE /\ Install(l) /\ pc' = "normal" /\ budget' = NormalBudget
             /\ UNCHANGED <<executed, owed, due>>
  /\ UNCHANGED <<registered, rerun, rerunLeft, cancelled, quiescing, sleep,
                 signalled>>

(* When the round executed something the kworker yields and starts again;  *)
(* otherwise it goes to sleep.                                             *)
ExecuteNormal ==
  /\ pc = "normal"
  /\ LET l == PromoteDue(Lists)
     IN IF budget > 0 /\ l.normal # <<>> THEN Take(l, l.normal[1])
        ELSE /\ Install(l) /\ pc' = IF executed THEN "loop" ELSE "timeout"
             /\ budget' = 0 /\ executed' = FALSE
             /\ UNCHANGED <<owed, due>>
  /\ UNCHANGED <<registered, rerun, rerunLeft, cancelled, quiescing, sleep,
                 signalled>>

Running(w) == st[w] = "RUNNING"

(* Fault: the finished work keeps the state RUNNING until it is taken. *)
FinishFaulty(w) ==
  /\ pc = "callback" /\ Running(w)
  /\ rerun' = [rerun EXCEPT ![w] = "no"]
  /\ rerunLeft' = [rerunLeft EXCEPT ![w] = 0]
  /\ cancelled' = [cancelled EXCEPT ![w] = FALSE]
  /\ pc' = IF w \in HighWorks THEN "high" ELSE "normal"
  /\ UNCHANGED <<registered, st, left, lists, quiescing, budget, executed,
                 sleep, signalled, owed, due>>

(* workqueue_finish, after the callback returned. *)
Finish(w) ==
  /\ pc = "callback" /\ Running(w)
  /\ LET idle  == [Lists EXCEPT !.st[w] = "IDLE"]
         again == ~cancelled[w] /\ rerun[w] # "no"
     IN Install(IF ~again THEN idle
                ELSE IF rerun[w] = "later" /\ rerunLeft[w] > 0
                THEN DelayedInsert(idle, w, rerunLeft[w])
                ELSE ReadyAppend(idle, w))
  /\ rerun' = [rerun EXCEPT ![w] = "no"]
  /\ rerunLeft' = [rerunLeft EXCEPT ![w] = 0]
  /\ cancelled' = [cancelled EXCEPT ![w] = FALSE]
  /\ pc' = IF w \in HighWorks THEN "high" ELSE "normal"
  /\ UNCHANGED <<registered, quiescing, budget, executed, sleep, signalled,
                 owed, due>>

(* workqueue_next_timeout. *)
NextTimeout ==
  IF high # <<>> \/ normal # <<>> THEN 0
  ELSE IF delayed = <<>> THEN Never
  ELSE IF left[delayed[1]] <= 0 THEN 0 ELSE left[delayed[1]]

ComputeTimeout ==
  /\ pc = "timeout" /\ pc' = "snapshot" /\ sleep' = NextTimeout
  /\ UNCHANGED <<registered, workVars, lists, quiescing, budget, executed,
                 signalled, owed, due>>

(* workqueue_wait_condition. *)
WaitCondition ==
  \/ high # <<>> \/ normal # <<>>
  \/ delayed # <<>> /\ left[delayed[1]] <= 0

(* One turn of wait_event_timeout: the condition and the wait queue's      *)
(* counter are read together, and the wait ends when the condition holds.  *)
Snapshot ==
  /\ pc = "snapshot"
  /\ signalled' = FALSE
  /\ pc' = IF WaitCondition THEN "loop" ELSE "block"
  /\ UNCHANGED <<registered, workVars, lists, quiescing, budget, executed,
                 sleep, owed, due>>

(* Fault: the counter is not compared before the thread is blocked. *)
BlockFaulty ==
  /\ pc = "block"
  /\ pc' = IF sleep = 0 THEN "loop" ELSE "asleep"
  /\ UNCHANGED <<registered, workVars, lists, quiescing, budget, executed,
                 sleep, signalled, owed, due>>

(* thread_wait, wait_queue_block: a counter that moved since it was read   *)
(* is an event, and a deadline that passed a timeout.                      *)
Block ==
  /\ pc = "block"
  /\ pc' = IF signalled THEN "snapshot"
           ELSE IF sleep = 0 THEN "loop" ELSE "asleep"
  /\ signalled' = FALSE
  /\ UNCHANGED <<registered, workVars, lists, quiescing, budget, executed,
                 sleep, owed, due>>

(* The timer: every deadline comes nearer, and a sleep whose deadline is   *)
(* reached ends with WAIT_REASON_TIMEOUT.                                  *)
Nearer(n) == IF n > -MaxLate THEN n - 1 ELSE n

Tick ==
  /\ left' = [w \in Works |-> IF st[w] = "DELAYED" THEN Nearer(left[w])
                              ELSE left[w]]
  /\ rerunLeft' = [w \in Works |-> IF rerun[w] = "later"
                                   THEN Nearer(rerunLeft[w]) ELSE rerunLeft[w]]
  /\ due' = [w \in Works |-> IF w \in owed THEN Nearer(due[w]) ELSE due[w]]
  /\ sleep' = IF sleep > 0 THEN sleep - 1 ELSE sleep
  /\ pc' = IF pc = "asleep" /\ sleep = 1 THEN "loop" ELSE pc
  /\ UNCHANGED <<registered, st, rerun, cancelled, lists, quiescing, budget,
                 executed, signalled, owed>>

-----------------------------------------------------------------------------
Worker ==
  \/ StartWorker \/ Dispatch \/ ExecuteHigh \/ ExecuteNormal
  \/ ComputeTimeout \/ Snapshot \/ Block
  \/ \E w \in Works : Finish(w)

Next ==
  \/ Worker \/ Tick \/ Quiesce \/ SetQuiescing
  \/ \E w \in Works : \/ Schedule(w) \/ Cancel(w)
                      \/ Destroy(w) \/ Register(w)
                      \/ \E d \in 0..MaxDelay : ScheduleSelf(w, d)
                      \/ \E d \in 1..MaxDelay : ScheduleAtBoot(w, d)

(* The kworker is a thread the scheduler keeps running, the callbacks of   *)
(* the kernel return, and the timer keeps interrupting.                    *)
Spec == Init /\ [][Next]_vars /\ WF_vars(Worker) /\ WF_vars(Tick)

-----------------------------------------------------------------------------
Times == (-MaxLate)..MaxDelay

TypeOK ==
  /\ registered \subseteq Works
  /\ st \in [Works -> {"IDLE", "READY", "DELAYED", "RUNNING"}]
  /\ left \in [Works -> Times] /\ rerunLeft \in [Works -> Times]
  /\ due \in [Works -> Times]
  /\ rerun \in [Works -> {"no", "now", "later"}]
  /\ cancelled \in [Works -> BOOLEAN]
  /\ high \in Seq(HighWorks) /\ normal \in Seq(NormalWorks)
  /\ delayed \in Seq(Works)
  /\ quiescing \in BOOLEAN /\ signalled \in BOOLEAN /\ executed \in BOOLEAN
  /\ pc \in {"boot", "loop", "high", "normal", "callback", "timeout",
             "snapshot", "block", "asleep"}
  /\ budget \in 0..(HighBudget + NormalBudget)
  /\ sleep \in Never..MaxDelay
  /\ owed \subseteq Works

(* workqueue_validate_on, but for the order of the delayed list: every     *)
(* work is in the one list its state names, once, through coalescing,      *)
(* promotion, rerun and cancel; only registered works are; and exactly the *)
(* work whose callback the kworker executes is RUNNING.                    *)
ListsMatchStates ==
  /\ TypeOK
  /\ \A s \in {high, normal, delayed} :
       \A i, j \in DOMAIN s : s[i] = s[j] => i = j
  /\ Members(high) \cup Members(normal) = {w \in Works : st[w] = "READY"}
  /\ Members(delayed) = {w \in Works : st[w] = "DELAYED"}
  /\ \A w \in Works : /\ st[w] # "IDLE" => w \in registered
                     /\ rerun[w] # "no" => st[w] = "RUNNING"
  /\ \A v, w \in Works : st[v] = "RUNNING" /\ st[w] = "RUNNING" => v = w
  /\ pc = "callback" <=> \E w \in Works : st[w] = "RUNNING"

(* The rest of workqueue_validate_on: the delayed list is in the order of  *)
(* its deadlines, as int32_t differences. It is not: when a deadline       *)
(* passes between a callback's delayed request and workqueue_finish, the   *)
(* rerun is linked in front of the overdue work, because                   *)
(* workqueue_delayed_insert compares the time left unsigned; the overdue   *)
(* work then waits for the deadline of the rerun.                          *)
DelayedIsOrdered ==
  \A i, j \in DOMAIN delayed :
     i < j => left[delayed[i]] <= left[delayed[j]]

\* What the code keeps for a request agrees with due, the earliest deadline.
Pending(w) ==
  \/ st[w] = "READY" /\ due[w] <= 0
  \/ st[w] = "DELAYED" /\ left[w] = due[w]
  \/ st[w] = "RUNNING" /\ rerun[w] = "now" /\ due[w] <= 0
  \/ st[w] = "RUNNING" /\ rerun[w] = "later" /\ rerunLeft[w] = due[w]

(* A request that was accepted is never lost, nor moved: until its         *)
(* callback starts, the work is queued or its running callback has a rerun *)
(* requested, and the deadline kept for it is the earliest one requested   *)
(* since its callback last started ("preserva o prazo mais proximo",       *)
(* kernel.md), neither earlier nor later.                                  *)
NoLostRequest == \A w \in owed : Pending(w)

(* The kworker never sleeps over a READY work, and never without a timeout *)
(* while a delayed one waits, although works are scheduled, cancelled and  *)
(* promoted while it decides to sleep.                                     *)
NoOversleep ==
  pc = "asleep" =>
    /\ high = <<>> /\ normal = <<>>
    /\ delayed # <<>> => sleep # Never
=============================================================================
