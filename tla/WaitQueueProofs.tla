--------------------------- MODULE WaitQueueProofs ---------------------------
(***************************************************************************)
(* Theorems about wait queues, for every number of tasks and queues, every *)
(* capacity of the registry, every timeout and every width of the counter  *)
(* and of the clock.                                                       *)
(***************************************************************************)
EXTENDS WaitQueue, KernelListsProofs

(* WaitersAreReachable beyond the types. A queue is available only while   *)
(* it is registered: that is what a task about to be linked relies on.     *)
Open == \A q \in Queues : fifo[q] # <<>> => available[q]

Registered == \A q \in Queues : available[q] => Valid(q)

Sleepers ==
  \A q \in Queues, t \in Tasks : t \in Members(fifo[q]) =>
    task[t].at = "blocked" /\ task[t].queue = q /\ cpu # t

LinkedTasks == {t \in Tasks : Linked(t)}

Listed ==
  /\ \A q \in Queues : Distinct(fifo[q])
  /\ active_waiters = Cardinality(LinkedTasks)

Reachable == Open /\ Registered /\ Sleepers /\ Listed

(* A task in the middle of a call has the CPU, and waits for a queue; it   *)
(* reads the clock a second time only for a deadline.                      *)
Calling == {"waking", "loop", "check", "read", "block"}
Calls ==
  \A t \in Tasks :
    /\ task[t].at \in Calling => cpu = t
    /\ task[t].at # "own" => task[t].queue \in Queues
    /\ task[t].at = "read" => task[t].deadline \in Ticks

(* The event counter n signals after it had the value c, 0 being skipped;  *)
(* n is less than one turn of the counter.                                 *)
Turned(c, n) == IF c + n < Conditions THEN c + n ELSE c + n - (Conditions - 1)

(* Between the snapshot and the block: the counter has moved by as many    *)
(* signals as came, and something became ready only with one of them.      *)
Counted ==
  \A t \in Tasks : Settling(t) =>
    \E n \in 0..burst :
      /\ condition[task[t].queue] = Turned(task[t].seen, n)
      /\ ready[task[t].queue] => n > 0

(* The clock d ticks after it showed c. *)
After(c, d) == (c + d) % TickSpace

(* A deadline is exactly as many ticks ahead as the caller still has, or   *)
(* it is past by less than MaxLate ticks.                                  *)
Deadline(t) ==
  /\ task[t].deadline \in Ticks =>
       \/ left[t] > 0 /\ task[t].deadline = After(now, left[t])
       \/ left[t] = 0 /\ \E m \in 0..(MaxLate - 1) : now = After(task[t].deadline, m)
  /\ task[t].deadline = Past => left[t] = 0

(* The timer of a task that is about to block is a number of ticks, that   *)
(* of a linked task a moment; neither comes before the caller's time is    *)
(* over. A number that came out of an underflow is infinite or too long.   *)
Timer(t) ==
  /\ task[t].at \in {"own", "waking"} => task[t].deadline = Infinite
  /\ task[t].at = "loop" \/ Settling(t) => task[t].reason = "NONE"
  /\ task[t].at = "block" =>
       /\ task[t].timer = Infinite /\ task[t].deadline # Infinite => left[t] = 0
       /\ task[t].timer # Infinite =>
            task[t].timer \in left[t]..MaxTimeout \/ task[t].timer > LongestTimeout
  /\ Linked(t) =>
       /\ task[t].reason = "NONE"
       /\ task[t].timer # Infinite =>
            \E d \in 1..MaxTimeout : task[t].timer = After(now, d) /\ left[t] <= d
  /\ task[t].reason = "TIMEOUT" => left[t] = 0

Times == \A t \in Tasks : Deadline(t) /\ Timer(t)

IInv == TypeOK /\ Reachable /\ Calls /\ Counted /\ NoLostWakeup
-----------------------------------------------------------------------------
(* The clock and the counter. *)
LEMMA TickTurn ==
  /\ TickSpace \in Nat /\ TickSpace > 0
  /\ \A x \in Int : x % TickSpace \in Ticks
  /\ \A x \in Int : 0 <= x /\ x < TickSpace => x % TickSpace = x
  /\ \A x \in Int : TickSpace <= x /\ x < 2 * TickSpace => x % TickSpace = x - TickSpace
  /\ \A x \in Int : 0 - TickSpace <= x /\ x < 0 => x % TickSpace = x + TickSpace
<1>1. TickSpace \in Nat /\ TickSpace > 0
  BY ClockAssumption, BurstAssumption
<1>2. \A x \in Int : x % TickSpace \in Ticks
  BY <1>1, Z3 DEF Ticks
<1>3. \A x \in Int : 0 <= x /\ x < TickSpace => x % TickSpace = x
  BY <1>1, Z3
<1>4. \A x \in Int : TickSpace <= x /\ x < 2 * TickSpace => x % TickSpace = x - TickSpace
  BY <1>1, Z3
<1>5. \A x \in Int : 0 - TickSpace <= x /\ x < 0 => x % TickSpace = x + TickSpace
  BY <1>1, Z3
<1> QED BY <1>1, <1>2, <1>3, <1>4, <1>5

(* The event counter stays in its range. *)
LEMMA AdvanceTypes ==
  /\ 0 \in 0..(Conditions - 1)
  /\ \A c \in 0..(Conditions - 1) : Advance(c) \in 0..(Conditions - 1)
BY BurstAssumption DEF Advance

(* A task outside of a wait. *)
LEMMA IdleTypes ==
  ASSUME NEW r \in Reasons
  PROVE  Idle \in TaskStates /\ [Idle EXCEPT !.reason = r] \in TaskStates
<1>1. Idle \in TaskStates
  BY AdvanceTypes DEF Idle, TaskStates, Reasons
<1>2. [Idle EXCEPT !.reason = r] \in TaskStates
  <2> HIDE DEF Idle
  <2> QED BY <1>1 DEF TaskStates
<1> QED BY <1>1, <1>2

-----------------------------------------------------------------------------
(* The tasks of ts leave their queues: a wake, a cancellation, a timeout. *)
Leave(ts) ==
  /\ ts \subseteq LinkedTasks
  /\ fifo' \in [Queues -> Seq(Tasks)]
  /\ \A q \in Queues : Members(fifo'[q]) = Members(fifo[q]) \ ts
  /\ \A q \in Queues : Distinct(fifo'[q])
  /\ active_waiters' = active_waiters - Cardinality(ts)

(* Tasks leave one queue (wake, removal). *)
LEMMA LeaveOne ==
  ASSUME TypeOK, Reachable, NEW q \in Queues, NEW ts, ts \subseteq Members(fifo[q]),
         fifo' = [fifo EXCEPT ![q] = Without(@, ts)],
         active_waiters' = active_waiters - Cardinality(ts)
  PROVE  Leave(ts)
<1>1. fifo[q] \in Seq(Tasks) /\ fifo \in [Queues -> Seq(Tasks)]
  BY DEF TypeOK
<1>2. /\ Without(fifo[q], ts) \in Seq(Tasks)
      /\ Members(Without(fifo[q], ts)) = Members(fifo[q]) \ ts
      /\ Distinct(Without(fifo[q], ts))
  BY <1>1, WithoutMembers DEF Reachable, Listed
<1>3. fifo' \in [Queues -> Seq(Tasks)] /\ fifo'[q] = Without(fifo[q], ts)
      /\ \A r \in Queues \ {q} : fifo'[r] = fifo[r]
  BY <1>1, <1>2
<1>4. Members(fifo[q]) \subseteq Tasks
  BY <1>1 DEF Members
<1>5. ASSUME NEW r \in Queues \ {q} PROVE Members(fifo[r]) \cap ts = {}
  BY <1>4 DEF Reachable, Sleepers
<1>6. ts \subseteq LinkedTasks
  BY <1>4 DEF LinkedTasks, Linked
<1>7. ASSUME NEW r \in Queues
      PROVE  Members(fifo'[r]) = Members(fifo[r]) \ ts /\ Distinct(fifo'[r])
  <2>1. CASE r = q
    BY <1>2, <1>3, <2>1
  <2>2. CASE r # q
    BY <1>3, <1>5, <2>2 DEF Reachable, Listed
  <2> QED BY <2>1, <2>2
<1> QED BY <1>3, <1>6, <1>7 DEF Leave

(* Tasks leave the queues they are in (the clock). *)
LEMMA LeaveAll ==
  ASSUME TypeOK, Reachable, NEW ts, ts \subseteq LinkedTasks,
         fifo' = [q \in Queues |-> Without(fifo[q], ts)],
         active_waiters' = active_waiters - Cardinality(ts)
  PROVE  Leave(ts)
<1>1. ASSUME NEW q \in Queues
      PROVE  /\ fifo'[q] \in Seq(Tasks)
             /\ Members(fifo'[q]) = Members(fifo[q]) \ ts /\ Distinct(fifo'[q])
  <2>1. fifo[q] \in Seq(Tasks) /\ fifo'[q] = Without(fifo[q], ts) /\ Distinct(fifo[q])
    BY DEF TypeOK, Reachable, Listed
  <2> QED BY <2>1, WithoutMembers
<1>2. fifo' \in [Queues -> Seq(Tasks)]
  BY <1>1
<1> QED BY <1>1, <1>2 DEF Leave

(* The sum of the lists, as tasks leave and one is appended. *)
LEMMA LinkedAreFinite ==
  /\ IsFiniteSet(LinkedTasks) /\ Cardinality(LinkedTasks) \in 0..Cardinality(Tasks)
  /\ \A ts : ts \subseteq LinkedTasks =>
       /\ IsFiniteSet(ts)
       /\ Cardinality(LinkedTasks \ ts) = Cardinality(LinkedTasks) - Cardinality(ts)
  /\ \A t \in Tasks \ LinkedTasks :
       Cardinality(LinkedTasks \cup {t}) = Cardinality(LinkedTasks) + 1
<1>1. LinkedTasks \subseteq Tasks /\ IsFiniteSet(Tasks)
  BY TasksAssumption DEF LinkedTasks
<1>2. IsFiniteSet(LinkedTasks) /\ Cardinality(LinkedTasks) <= Cardinality(Tasks)
  BY <1>1, FS_Subset
<1>3. Cardinality(LinkedTasks) \in Nat /\ Cardinality(Tasks) \in Nat
  BY <1>1, <1>2, FS_CardinalityType
<1>4. ASSUME NEW ts, ts \subseteq LinkedTasks
      PROVE  /\ IsFiniteSet(ts)
             /\ Cardinality(LinkedTasks \ ts) = Cardinality(LinkedTasks) - Cardinality(ts)
  <2>1. IsFiniteSet(ts)
    BY <1>2, <1>4, FS_Subset
  <2>2. Cardinality(LinkedTasks \ ts)
          = Cardinality(LinkedTasks) - Cardinality(LinkedTasks \cap ts)
    BY <1>2, FS_Difference
  <2>3. LinkedTasks \cap ts = ts
    BY <1>4
  <2> QED BY <2>1, <2>2, <2>3
<1>5. \A t \in Tasks \ LinkedTasks :
       Cardinality(LinkedTasks \cup {t}) = Cardinality(LinkedTasks) + 1
  BY <1>2, FS_AddElement
<1> QED BY <1>2, <1>3, <1>4, <1>5

(* Who is linked after tasks have left. *)
LEMMA LeaveLinked ==
  ASSUME TypeOK, Reachable, NEW ts, Leave(ts)
  PROVE  /\ \A t \in Tasks : Linked(t)' <=> Linked(t) /\ t \notin ts
         /\ LinkedTasks' = LinkedTasks \ ts
         /\ \A q \in Queues : fifo[q] = <<>> => fifo'[q] = <<>>
         /\ \A q \in Queues : Members(fifo[q]) \subseteq ts => fifo'[q] = <<>>
         /\ Listed'
         /\ active_waiters' \in 0..Cardinality(Tasks)
<1>1. \A t \in Tasks : Linked(t)' <=> Linked(t) /\ t \notin ts
  BY DEF Leave, Linked
<1>2. LinkedTasks' = LinkedTasks \ ts
  BY <1>1 DEF LinkedTasks
<1>3. ASSUME NEW q \in Queues
      PROVE  /\ fifo[q] = <<>> => fifo'[q] = <<>>
             /\ Members(fifo[q]) \subseteq ts => fifo'[q] = <<>>
  <2>1. fifo[q] \in Seq(Tasks) /\ fifo'[q] \in Seq(Tasks)
    BY DEF TypeOK, Leave
  <2>2. /\ Members(fifo[q]) = {} <=> fifo[q] = <<>>
        /\ Members(fifo'[q]) = {} <=> fifo'[q] = <<>>
    BY <2>1, EmptyList
  <2>3. Members(fifo'[q]) = Members(fifo[q]) \ ts
    BY DEF Leave
  <2> QED BY <2>2, <2>3
<1>4. active_waiters' = Cardinality(LinkedTasks \ ts)
  BY LinkedAreFinite DEF Leave, Reachable, Listed
<1>5. Listed'
  BY <1>2, <1>4 DEF Leave, Listed
<1>6. IsFiniteSet(LinkedTasks \ ts) /\ LinkedTasks \ ts \subseteq Tasks
  BY LinkedAreFinite, FS_Subset DEF LinkedTasks
<1>7. active_waiters' \in 0..Cardinality(Tasks)
  <2>1. Cardinality(LinkedTasks \ ts) \in Nat /\ Cardinality(Tasks) \in Nat
    BY <1>6, TasksAssumption, FS_CardinalityType
  <2>2. Cardinality(LinkedTasks \ ts) <= Cardinality(Tasks)
    BY <1>6, TasksAssumption, FS_Subset
  <2> QED BY <1>4, <2>1, <2>2
<1> QED BY <1>1, <1>2, <1>3, <1>5, <1>7

(* A wake-up changes the reason and the timer of the tasks woken. *)
LEMMA WokenTypes ==
  ASSUME TypeOK, NEW ts, NEW r \in Reasons
  PROVE  /\ Woken(ts, r) \in [Tasks -> TaskStates]
         /\ \A t \in Tasks : /\ Woken(ts, r)[t].at = task[t].at
                             /\ Woken(ts, r)[t].queue = task[t].queue
                             /\ Woken(ts, r)[t].seen = task[t].seen
                             /\ Woken(ts, r)[t].deadline = task[t].deadline
                             /\ t \notin ts => Woken(ts, r)[t] = task[t]
                             /\ t \in ts => Woken(ts, r)[t].reason = r
<1> SUFFICES ASSUME NEW t \in Tasks
             PROVE  /\ Woken(ts, r)[t] \in TaskStates
                    /\ Woken(ts, r)[t].at = task[t].at
                    /\ Woken(ts, r)[t].queue = task[t].queue
                    /\ Woken(ts, r)[t].seen = task[t].seen
                    /\ Woken(ts, r)[t].deadline = task[t].deadline
                    /\ t \notin ts => Woken(ts, r)[t] = task[t]
                    /\ t \in ts => Woken(ts, r)[t].reason = r
  BY DEF Woken
<1>1. task[t] \in TaskStates
  BY DEF TypeOK
<1>2. Woken(ts, r)[t] = IF t \in ts
                        THEN [task[t] EXCEPT !.reason = r, !.timer = Infinite]
                        ELSE task[t]
  BY DEF Woken
<1> QED BY <1>1, <1>2 DEF TaskStates

(* A wake chooses tasks of its queue, one of them at least if it has any. *)
LEMMA ChosenLeave ==
  ASSUME TypeOK, NEW q \in Queues, NEW mode \in Modes
  PROVE  /\ Chosen(q, mode) \subseteq Members(fifo[q])
         /\ fifo[q] # <<>> => Chosen(q, mode) # {}
         /\ mode = "ALL" => Chosen(q, mode) = Members(fifo[q])
<1>1. fifo[q] \in Seq(Tasks)
  BY DEF TypeOK
<1>2. Members(fifo[q]) = {} <=> fifo[q] = <<>>
  BY <1>1, EmptyList
<1>3. fifo[q] # <<>> => Head(fifo[q]) \in Members(fifo[q])
  BY <1>1 DEF Members
<1> QED BY <1>2, <1>3 DEF Chosen, Modes
-----------------------------------------------------------------------------
(* Steps that link and unlink nobody and leave the queues alone. *)
Quiet ==
  /\ UNCHANGED <<fifo, active_waiters, available, regVars>>
  /\ \A t \in Tasks : Linked(t) => cpu' # t
  /\ \A t \in Tasks : Linked(t) => task'[t] = task[t]

(* A step that leaves the lists and the linked tasks alone. *)
LEMMA QuietReachable ==
  ASSUME TypeOK, Reachable, Quiet
  PROVE  Reachable' /\ \A t \in Tasks : Linked(t)' <=> Linked(t)
<1>1. \A t \in Tasks : Linked(t)' <=> Linked(t)
  BY DEF Quiet, Linked
<1>2. LinkedTasks' = LinkedTasks
  BY <1>1 DEF LinkedTasks
<1>3. Open' /\ Registered'
  BY DEF Quiet, Reachable, Open, Registered, Valid, regVars
<1>4. Sleepers'
  BY DEF Quiet, Reachable, Sleepers, Linked
<1>5. Listed'
  BY <1>2 DEF Quiet, Reachable, Listed
<1> QED BY <1>1, <1>3, <1>4, <1>5 DEF Reachable

(* A task with the CPU, or one that is not blocked, is not linked. *)
LEMMA RunningIsFree ==
  ASSUME Reachable, NEW t \in Tasks, cpu = t \/ task[t].at # "blocked"
  PROVE  ~Linked(t)
BY DEF Reachable, Sleepers, Linked

(* Only the running task is in the middle of a call. *)
LEMMA OneCall ==
  ASSUME Calls, NEW t \in Tasks, NEW x \in Tasks, x # t, cpu = t \/ cpu = NoTask
  PROVE  task[x].at \notin Calling
BY NoAssumption DEF Calls

(* The scheduler gives the CPU to a task. *)
LEMMA DispatchStep ==
  ASSUME IInv, NEW t \in Tasks, Dispatch(t) PROVE IInv'
<1> USE DEF IInv
<1>1. TypeOK'
  BY BurstAssumption DEF Dispatch, TypeOK, regVars
<1>2. Quiet
  BY DEF Dispatch, Quiet, Runnable
<1>3. Calls' /\ Counted'
  BY NoAssumption DEF Dispatch, Calls, Counted, Settling, Turned
<1>4. NoLostWakeup'
  BY DEF Dispatch, NoLostWakeup, Attentive, Linked
<1> QED BY <1>1, <1>2, <1>3, <1>4, QuietReachable

(* A task gives the CPU up. *)
LEMMA YieldStep == ASSUME IInv, YieldCpu PROVE IInv'
<1> USE DEF IInv
<1>0. /\ cpu \in Tasks /\ task \in [Tasks -> TaskStates] /\ ~Linked(cpu)
      /\ task[cpu].at = "own"
  BY RunningIsFree DEF YieldCpu, TypeOK
<1>a. Idle \in TaskStates /\ Idle.at = "own"
  BY IdleTypes DEF Idle, Reasons
<1> HIDE DEF Idle
<1>b. /\ task' \in [Tasks -> TaskStates] /\ task'[cpu].at = "own"
      /\ \A x \in Tasks \ {cpu} : task'[x] = task[x]
  BY <1>0, <1>a DEF YieldCpu
<1>1. TypeOK'
  BY <1>b DEF YieldCpu, TypeOK, regVars
<1>2. Quiet
  BY <1>0, <1>b, NoAssumption DEF YieldCpu, Quiet
<1>3. Calls' /\ Counted'
  <2>1. \A x \in Tasks : task'[x].at \notin Calling
    BY <1>0, <1>b, OneCall DEF Calling
  <2>2. \A x \in Tasks : task'[x].at # "own" => task'[x].queue \in Queues
    BY <1>0, <1>b DEF Calls
  <2> QED BY <2>1, <2>2 DEF Calls, Counted, Settling, Calling
<1>4. NoLostWakeup'
  <2>1. ASSUME NEW r \in Queues, ready'[r], fifo'[r] # <<>>
        PROVE  \E x \in Tasks : Attentive(x, r)'
    <3>1. PICK x \in Tasks : Attentive(x, r)
      BY <2>1 DEF NoLostWakeup, YieldCpu
    <3>2. x # cpu
      BY <1>0, <3>1 DEF Attentive
    <3> QED BY <1>2, <1>b, <3>1, <3>2, QuietReachable DEF YieldCpu, Attentive
  <2> QED BY <2>1 DEF NoLostWakeup
<1> QED BY <1>1, <1>2, <1>3, <1>4, QuietReachable

(* The running task t changes nothing but its own state, the ready flag of *)
(* its queue and the count of the burst.                                   *)
Own(t) ==
  /\ cpu = t /\ cpu' = t
  /\ UNCHANGED <<now, regVars, available, condition, fifo, active_waiters>>
  /\ task' \in [Tasks -> TaskStates]
  /\ \A x \in Tasks \ {t} : task'[x] = task[x]

(* A step of the task on the CPU that changes itself only. *)
LEMMA OwnReachable ==
  ASSUME TypeOK, Reachable, NEW t \in Tasks, Own(t)
  PROVE  Reachable' /\ ~Linked(t) /\ \A x \in Tasks : Linked(x)' <=> Linked(x)
<1>1. ~Linked(t)
  BY RunningIsFree DEF Own
<1>2. Quiet
  BY <1>1 DEF Own, Quiet
<1> QED BY <1>1, <1>2, QuietReachable

(* A task makes something ready and is about to wake. *)
LEMMA PublishStep ==
  ASSUME IInv, NEW t \in Tasks, NEW q \in Queues, Publish(t, q) PROVE IInv'
<1> USE DEF IInv
<1>1. task[t] \in TaskStates /\ task \in [Tasks -> TaskStates]
  BY DEF TypeOK
<1>2. /\ task' = [task EXCEPT ![t] = [task[t] EXCEPT !.at = "waking", !.queue = q]]
      /\ [task[t] EXCEPT !.at = "waking", !.queue = q] \in TaskStates
  BY <1>1 DEF Publish, TaskStates
<1>3. task'[t].at = "waking" /\ task'[t].queue = q
  BY <1>1, <1>2 DEF TaskStates
<1>4. Own(t)
  BY <1>1, <1>2 DEF Publish, Own
<1>5. TypeOK'
  BY <1>4 DEF Publish, Own, TypeOK, regVars
<1>6. Calls' /\ Counted'
  <2>1. \A x \in Tasks \ {t} : task'[x].at \notin Calling
    BY <1>4, OneCall DEF Own
  <2> QED BY <1>3, <1>4, <2>1 DEF Own, Calls, Counted, Settling, Calling
<1>7. NoLostWakeup'
  <2>1. ASSUME NEW r \in Queues, ready'[r], fifo'[r] # <<>>
        PROVE  \E x \in Tasks : Attentive(x, r)'
    <3>1. CASE r = q
      BY <1>3, <1>4, <3>1, OwnReachable DEF Attentive
    <3>2. CASE r # q
      <4>1. ready[r] /\ fifo[r] # <<>>
        BY <1>4, <2>1, <3>2 DEF Publish, Own, TypeOK
      <4>2. PICK x \in Tasks : Attentive(x, r)
        BY <4>1 DEF NoLostWakeup
      <4>3. x # t
        BY <4>2 DEF Publish, Attentive
      <4> QED BY <1>4, <4>2, <4>3, OwnReachable DEF Own, Attentive
    <3> QED BY <3>1, <3>2
  <2> QED BY <2>1 DEF NoLostWakeup
<1> QED BY <1>4, <1>5, <1>6, <1>7, OwnReachable

(* Such a step, for the tasks in the middle of a call. *)
LEMMA OwnCalls ==
  ASSUME Calls, NEW t \in Tasks, Own(t),
         task'[t].at # "own" => task'[t].queue \in Queues,
         task'[t].at = "read" => task'[t].deadline \in Ticks
  PROVE  /\ Calls'
         /\ ~Settling(t)' => Counted'
<1>1. \A x \in Tasks \ {t} : task'[x].at \notin Calling
  BY OneCall DEF Own
<1>2. Calls'
  BY <1>1 DEF Own, Calls
<1>3. ~Settling(t)' => Counted'
  BY <1>1 DEF Own, Counted, Settling, Calling
<1> QED BY <1>2, <1>3

(* Such a step, for the tasks on their way to look. *)
LEMMA OwnAttention ==
  ASSUME TypeOK, Reachable, NoLostWakeup, NEW t \in Tasks, Own(t),
         \A r \in Queues : ready'[r] => ready[r],
         \A r \in Queues : Attentive(t, r) /\ ready'[r] /\ fifo[r] # <<>> => Attentive(t, r)'
  PROVE  NoLostWakeup'
<1>1. ASSUME NEW r \in Queues, ready'[r], fifo'[r] # <<>>
      PROVE  \E x \in Tasks : Attentive(x, r)'
  <2>1. ready[r] /\ fifo[r] # <<>>
    BY <1>1 DEF Own
  <2>2. PICK x \in Tasks : Attentive(x, r)
    BY <2>1 DEF NoLostWakeup
  <2>3. CASE x = t
    BY <1>1, <2>1, <2>2, <2>3
  <2>4. CASE x # t
    BY <2>2, <2>4, OwnReachable DEF Own, Attentive
  <2> QED BY <2>3, <2>4
<1> QED BY <1>1 DEF NoLostWakeup

(* wait_event_timeout is called. *)
LEMMA WaitEventStep ==
  ASSUME IInv, NEW t \in Tasks, NEW q \in Queues, NEW timeout \in Timeouts,
         WaitEvent(t, q, timeout)
  PROVE  IInv'
<1> USE DEF IInv
<1> DEFINE d == IF timeout = Infinite THEN Infinite ELSE (now + timeout) % TickSpace
           w == [Idle EXCEPT !.at = "loop", !.queue = q, !.deadline = d]
<1>1. timeout = Infinite \/ timeout \in 0..MaxTimeout
  BY TimeoutsAssumption
<1>2. d \in Ticks \cup {Infinite}
  BY <1>1, TickTurn, ClockAssumption DEF TypeOK, Ticks
<1> HIDE DEF d
<1>3. w \in TaskStates /\ w.at = "loop" /\ w.queue = q
  <2>1. Idle \in TaskStates
    BY IdleTypes DEF Reasons
  <2> HIDE DEF Idle
  <2> QED BY <1>2, <2>1 DEF TaskStates
<1>4. task' = [task EXCEPT ![t] = w]
  BY DEF WaitEvent, d
<1> HIDE DEF w
<1>5. task'[t] = w /\ Own(t)
  BY <1>3, <1>4 DEF WaitEvent, Own, TypeOK
<1>6. TypeOK'
  <2>1. left' \in [Tasks -> 0..MaxTimeout]
    BY <1>1, ClockAssumption DEF WaitEvent, TypeOK, Infinite
  <2> QED BY <1>5, <2>1 DEF WaitEvent, Own, TypeOK, regVars
<1>7. Calls' /\ Counted'
  BY <1>3, <1>5, OwnCalls DEF Settling
<1>8. NoLostWakeup'
  <2>1. \A r \in Queues : ~Attentive(t, r) /\ ready'[r] = ready[r]
    BY DEF WaitEvent, Attentive
  <2> QED BY <1>5, <2>1, OwnAttention
<1> QED BY <1>5, <1>6, <1>7, <1>8, OwnReachable

(* A wait returns to its caller. *)
LEMMA ReturnStates ==
  ASSUME TypeOK, NEW t \in Tasks, NEW r \in Reasons, Return(t, r)
  PROVE  /\ task' \in [Tasks -> TaskStates] /\ \A x \in Tasks \ {t} : task'[x] = task[x]
         /\ task'[t].at = "own" /\ task'[t].deadline = Infinite
         /\ task'[t].reason = r
<1> DEFINE w == [Idle EXCEPT !.reason = r]
<1>1. w \in TaskStates /\ w.at = "own" /\ w.reason = r /\ w.deadline = Infinite
  <2>1. w \in TaskStates
    BY IdleTypes
  <2> QED BY <2>1 DEF Idle
<1>2. task' = [task EXCEPT ![t] = w]
  BY DEF Return
<1> HIDE DEF w
<1> QED BY <1>1, <1>2 DEF TypeOK

(* What is left of a timeout is a number of ticks. *)
LEMMA RemainingTypes ==
  ASSUME TypeOK, NEW d \in Ticks
  PROVE  Remaining(d) \in Ticks \cup {Infinite}
<1>1. d - now \in Int
  BY TickTurn DEF TypeOK, Ticks
<1> QED BY <1>1, TickTurn DEF Remaining, AsTimeout

(* The snapshot that finds nothing ready. *)
Goes(t) == [task[t] EXCEPT !.at = "check", !.seen = condition[task[t].queue]]

(* The four ways out of the snapshot. *)
LEMMA SnapshotCases ==
  ASSUME TypeOK, Calls, NEW t \in Tasks, Snapshot(t)
  PROVE  LET q == task[t].queue
         IN /\ q \in Queues /\ Goes(t) \in TaskStates
            /\ Goes(t).at = "check" /\ Goes(t).queue = q /\ Goes(t).seen = condition[q]
            /\ Goes(t).deadline = task[t].deadline /\ Goes(t).reason = task[t].reason
            /\ \/ /\ task' = [task EXCEPT ![t] = Goes(t)]
                  /\ ~ready[q] /\ UNCHANGED ready
               \/ /\ task'[t].at = "own" /\ task'[t].deadline = Infinite
                  /\ task'[t].reason # "TIMEOUT"
                  /\ ~Valid(q) \/ ~ready'[q]
                  /\ ready' \in [Queues -> BOOLEAN]
                  /\ \A r \in Queues : ready'[r] => ready[r]
            /\ Own(t)
<1> DEFINE q == task[t].queue
<1>1. q \in Queues /\ task[t] \in TaskStates /\ task[t].at = "loop"
  BY DEF Snapshot, Calls, TypeOK
<1>2. Goes(t) \in TaskStates /\ Goes(t).at = "check" /\ Goes(t).queue = q
      /\ Goes(t).seen = condition[q]
      /\ Goes(t).deadline = task[t].deadline /\ Goes(t).reason = task[t].reason
  <2>1. condition[q] \in 0..(Conditions - 1)
    BY <1>1 DEF TypeOK
  <2> QED BY <1>1, <2>1 DEF Goes, TaskStates
<1>3. CASE task' = [task EXCEPT ![t].at = "check", ![t].seen = condition[q]]
           /\ ~ready[q] /\ UNCHANGED ready
  <2>1. task' = [task EXCEPT ![t] = Goes(t)]
    BY <1>1, <1>3 DEF TypeOK, Goes, TaskStates
  <2>2. Own(t)
    BY <1>2, <2>1 DEF Own, Snapshot, TypeOK
  <2> QED BY <1>1, <1>2, <1>3, <2>1, <2>2
<1>4. CASE \E r \in Reasons \ {"TIMEOUT"} :
             /\ Return(t, r) /\ (~Valid(q) \/ ~ready'[q])
             /\ UNCHANGED ready \/ ready' = [ready EXCEPT ![q] = FALSE]
  <2>1. PICK r \in Reasons \ {"TIMEOUT"} :
             /\ Return(t, r) /\ (~Valid(q) \/ ~ready'[q])
             /\ UNCHANGED ready \/ ready' = [ready EXCEPT ![q] = FALSE]
    BY <1>4
  <2>2. /\ task'[t].at = "own" /\ task'[t].deadline = Infinite /\ task'[t].reason = r
        /\ task' \in [Tasks -> TaskStates] /\ \A x \in Tasks \ {t} : task'[x] = task[x]
    <3>1. r \in Reasons /\ Return(t, r)
      BY <2>1
    <3> QED BY <3>1, ReturnStates
  <2>3. ready' \in [Queues -> BOOLEAN] /\ \A s \in Queues : ready'[s] => ready[s]
    BY <2>1 DEF TypeOK
  <2>4. Own(t)
    BY <2>2 DEF Own, Snapshot
  <2> QED BY <1>1, <1>2, <2>1, <2>2, <2>3, <2>4
<1>6. \/ task' = [task EXCEPT ![t].at = "check", ![t].seen = condition[q]]
         /\ ~ready[q] /\ UNCHANGED ready
      \/ Return(t, "ERR_STATE") /\ UNCHANGED ready /\ ~Valid(q)
      \/ Return(t, "EVENT") /\ ready' = [ready EXCEPT ![q] = FALSE]
      \/ Return(t, "DEVICE_UNAVAILABLE") /\ UNCHANGED ready /\ ~ready[q]
  BY DEF Snapshot
<1>7. {"ERR_STATE", "EVENT", "DEVICE_UNAVAILABLE"} \subseteq Reasons \ {"TIMEOUT"}
  BY DEF Reasons
<1>8. ready' = [ready EXCEPT ![q] = FALSE] => ~ready'[q]
  BY <1>1 DEF TypeOK
<1> HIDE DEF q
<1>9. \/ task' = [task EXCEPT ![t].at = "check", ![t].seen = condition[q]]
         /\ ~ready[q] /\ UNCHANGED ready
      \/ \E r \in Reasons \ {"TIMEOUT"} :
             /\ Return(t, r) /\ (~Valid(q) \/ ~ready'[q])
             /\ UNCHANGED ready \/ ready' = [ready EXCEPT ![q] = FALSE]
  BY <1>6, <1>7, <1>8
<1> QED BY <1>3, <1>4, <1>9 DEF q

(* The loop looks at the queue. *)
LEMMA SnapshotStep ==
  ASSUME IInv, NEW t \in Tasks, Snapshot(t) PROVE IInv'
<1> USE DEF IInv
<1> DEFINE q == task[t].queue
<1>1. q \in Queues /\ Own(t)
  BY SnapshotCases
<1>2. burst' = burst /\ task[t].at = "loop" /\ left' = left
  BY DEF Snapshot
<1>3. CASE task' = [task EXCEPT ![t] = Goes(t)] /\ ~ready[q] /\ UNCHANGED ready
  <2>1. task'[t] = Goes(t) /\ Goes(t).at = "check" /\ Goes(t).queue = q
        /\ Goes(t).seen = condition[q]
    BY <1>3, SnapshotCases DEF TypeOK
  <2>2. TypeOK'
    BY <1>1, <1>2, <1>3, BurstAssumption DEF Own, TypeOK, regVars
  <2>3. Calls'
    BY <1>1, <2>1, OwnCalls
  <2>4. Counted'
    <3>1. \A x \in Tasks \ {t} : ~Settling(x)'
      BY <1>1, OneCall DEF Own, Settling, Calling
    <3>2. condition[q] \in Int /\ condition[q] < Conditions /\ burst \in Nat
      BY <1>1, BurstAssumption DEF TypeOK
    <3>3. condition[q] = Turned(condition[q], 0) /\ 0 \in 0..burst
      BY <3>2 DEF Turned
    <3> QED BY <1>1, <1>2, <1>3, <2>1, <3>1, <3>3 DEF Own, Counted, Turned
  <2>5. \A r \in Queues : ready'[r] => ready[r]
    BY <1>3
  <2>6. \A r \in Queues : Attentive(t, r) => ~ready'[r]
    BY <1>3 DEF Attentive
  <2>7. NoLostWakeup'
    BY <1>1, <2>5, <2>6, OwnAttention
  <2> QED BY <1>1, <2>2, <2>3, <2>4, <2>7, OwnReachable
<1>4. CASE /\ task'[t].at = "own" /\ (~Valid(q) \/ ~ready'[q])
           /\ ready' \in [Queues -> BOOLEAN] /\ \A r \in Queues : ready'[r] => ready[r]
  <2>1. TypeOK'
    BY <1>1, <1>2, <1>4, BurstAssumption DEF Own, TypeOK, regVars
  <2>2. Calls' /\ Counted'
    BY <1>1, <1>4, OwnCalls DEF Settling
  <2>3. ~Valid(q) => fifo[q] = <<>>
    BY <1>1 DEF Reachable, Open, Registered
  <2>4. \A r \in Queues : Attentive(t, r) => r = q
    BY DEF Attentive
  <2>5. NoLostWakeup'
    BY <1>1, <1>4, <2>3, <2>4, OwnAttention
  <2> QED BY <1>1, <2>1, <2>2, <2>5, OwnReachable
<1> QED BY <1>3, <1>4, SnapshotCases

(* The task looks at the clock before it blocks: its snapshot is kept. *)
LEMMA SettlingStep ==
  ASSUME IInv, NEW t \in Tasks, NEW w \in TaskStates, cpu = t, Settling(t),
         w.at \in {"read", "block"}, w.queue = task[t].queue, w.seen = task[t].seen,
         w.at = "read" => w.deadline \in Ticks,
         task' = [task EXCEPT ![t] = w],
         UNCHANGED <<now, regVars, available, condition, fifo, active_waiters,
                     ready, cpu, burst, left>>
  PROVE  IInv' /\ Own(t) /\ task'[t] = w
<1> USE DEF IInv
<1>1. task'[t] = w /\ Own(t)
  BY DEF Own, TypeOK
<1>2. TypeOK'
  BY <1>1 DEF Own, TypeOK, regVars
<1>3. Calls'
  BY <1>1, OwnCalls DEF Calls, Settling
<1>4. Counted'
  <2>1. \A x \in Tasks \ {t} : ~Settling(x)'
    BY <1>1, OneCall DEF Own, Settling, Calling
  <2>2. PICK n \in 0..burst : /\ condition[task[t].queue] = Turned(task[t].seen, n)
                              /\ ready[task[t].queue] => n > 0
    BY DEF Counted
  <2> QED BY <1>1, <2>1, <2>2 DEF Counted, Turned
<1>5. \A r \in Queues : ~Attentive(t, r)
  BY DEF Attentive, Settling
<1>6. NoLostWakeup'
  BY <1>1, <1>5, OwnAttention
<1> QED BY <1>1, <1>2, <1>3, <1>4, <1>6, OwnReachable

(* What the task passes on after its first look at the clock. *)
LEMMA CheckCases ==
  ASSUME TypeOK, NEW t \in Tasks, CheckDeadline(t)
  PROVE  \E w \in TaskStates :
           /\ cpu = t /\ Settling(t) /\ task' = [task EXCEPT ![t] = w]
           /\ w.queue = task[t].queue /\ w.seen = task[t].seen
           /\ w.deadline = task[t].deadline /\ w.reason = task[t].reason
           /\ \/ /\ w.at = "block" /\ w.timer = Infinite
                 /\ task[t].deadline = Infinite
              \/ w.at = "block" /\ w.timer = 0 /\ DeadlineReached(t)
              \/ w.at = "read" /\ task[t].deadline \in Ticks
<1>1. task[t] \in TaskStates /\ task \in [Tasks -> TaskStates] /\ cpu = t /\ Settling(t)
  BY DEF CheckDeadline, TypeOK, Settling
<1>2. 0 \in Ticks
  BY TickTurn DEF Ticks
<1>3. CASE /\ task[t].deadline = Infinite
           /\ task' = [task EXCEPT ![t].at = "block", ![t].timer = Infinite]
  <2> DEFINE w == [task[t] EXCEPT !.at = "block", !.timer = Infinite]
  <2>1. /\ w \in TaskStates /\ w.at = "block" /\ w.timer = Infinite
        /\ w.queue = task[t].queue /\ w.seen = task[t].seen
        /\ w.deadline = task[t].deadline /\ w.reason = task[t].reason
    BY <1>1 DEF TaskStates
  <2>2. task' = [task EXCEPT ![t] = w]
    BY <1>1, <1>3 DEF TaskStates
  <2> HIDE DEF w
  <2> QED BY <1>1, <1>3, <2>1, <2>2
<1>4. CASE /\ DeadlineReached(t)
           /\ task' = [task EXCEPT ![t].at = "block", ![t].timer = 0]
  <2> DEFINE w == [task[t] EXCEPT !.at = "block", !.timer = 0]
  <2>1. /\ w \in TaskStates /\ w.at = "block" /\ w.timer = 0
        /\ w.queue = task[t].queue /\ w.seen = task[t].seen
        /\ w.deadline = task[t].deadline /\ w.reason = task[t].reason
    BY <1>1, <1>2 DEF TaskStates
  <2>2. task' = [task EXCEPT ![t] = w]
    BY <1>1, <1>4 DEF TaskStates
  <2> HIDE DEF w
  <2> QED BY <1>1, <1>4, <2>1, <2>2
<1>5. CASE /\ task[t].deadline # Infinite /\ ~DeadlineReached(t)
           /\ task' = [task EXCEPT ![t].at = "read"]
  <2> DEFINE w == [task[t] EXCEPT !.at = "read"]
  <2>1. /\ w \in TaskStates /\ w.at = "read"
        /\ w.queue = task[t].queue /\ w.seen = task[t].seen
        /\ w.deadline = task[t].deadline /\ w.reason = task[t].reason
    BY <1>1 DEF TaskStates
  <2>2. task' = [task EXCEPT ![t] = w]
    BY <1>1, <1>5 DEF TaskStates
  <2>3. task[t].deadline \in Ticks
    BY <1>1, <1>5 DEF TaskStates, DeadlineReached
  <2> HIDE DEF w
  <2> QED BY <1>1, <2>1, <2>2, <2>3
<1> QED BY <1>3, <1>4, <1>5 DEF CheckDeadline

(* wait_queue_deadline_reached. *)
LEMMA CheckStep == ASSUME IInv, NEW t \in Tasks, CheckDeadline(t) PROVE IInv'
<1>1. UNCHANGED <<now, regVars, available, condition, fifo, active_waiters,
                  ready, cpu, burst, left>>
  BY DEF CheckDeadline
<1>2. PICK w \in TaskStates :
           /\ cpu = t /\ Settling(t) /\ task' = [task EXCEPT ![t] = w]
           /\ w.queue = task[t].queue /\ w.seen = task[t].seen
           /\ w.at \in {"read", "block"} /\ (w.at = "read" => w.deadline \in Ticks)
  BY CheckCases DEF IInv
<1> QED BY <1>1, <1>2, SettlingStep

(* What the task passes on after its second look. *)
LEMMA ReadCases ==
  ASSUME TypeOK, NEW t \in Tasks, ReadClock(t), task[t].deadline \in Ticks
  PROVE  \E w \in TaskStates :
           /\ cpu = t /\ Settling(t) /\ task' = [task EXCEPT ![t] = w]
           /\ w.queue = task[t].queue /\ w.seen = task[t].seen
           /\ w.deadline = task[t].deadline /\ w.reason = task[t].reason
           /\ w.at = "block" /\ w.timer = Remaining(task[t].deadline)
<1>1. task[t] \in TaskStates /\ task \in [Tasks -> TaskStates] /\ cpu = t /\ Settling(t)
  BY DEF ReadClock, TypeOK, Settling
<1> DEFINE w == [task[t] EXCEPT !.at = "block", !.timer = Remaining(task[t].deadline)]
<1>2. Remaining(task[t].deadline) \in Ticks \cup {Infinite}
  BY RemainingTypes
<1>3. /\ w \in TaskStates /\ w.at = "block" /\ w.timer = Remaining(task[t].deadline)
      /\ w.queue = task[t].queue /\ w.seen = task[t].seen
      /\ w.deadline = task[t].deadline /\ w.reason = task[t].reason
  BY <1>1, <1>2 DEF TaskStates
<1>4. task' = [task EXCEPT ![t] = w]
  BY <1>1 DEF ReadClock, TaskStates
<1> HIDE DEF w
<1> QED BY <1>1, <1>3, <1>4

(* deadline - timer_get_ticks(). *)
LEMMA ReadStep == ASSUME IInv, NEW t \in Tasks, ReadClock(t) PROVE IInv'
<1>1. UNCHANGED <<now, regVars, available, condition, fifo, active_waiters,
                  ready, cpu, burst, left>>
  BY DEF ReadClock
<1>2. task[t].deadline \in Ticks
  BY DEF ReadClock, IInv, Calls
<1>3. PICK w \in TaskStates :
           /\ cpu = t /\ Settling(t) /\ task' = [task EXCEPT ![t] = w]
           /\ w.queue = task[t].queue /\ w.seen = task[t].seen /\ w.at = "block"
  BY <1>2, ReadCases DEF IInv
<1> QED BY <1>1, <1>3, SettlingStep

(* The counter still has the value of the snapshot: nothing became ready   *)
(* since, for the counter cannot have made a whole turn.                   *)
LEMMA NothingSince ==
  ASSUME TypeOK, Calls, Counted, NEW t \in Tasks, task[t].at = "block",
         condition[task[t].queue] = task[t].seen
  PROVE  ~ready[task[t].queue]
<1>1. PICK n \in 0..burst : /\ condition[task[t].queue] = Turned(task[t].seen, n)
                            /\ ready[task[t].queue] => n > 0
  BY DEF Counted, Settling
<1>2. task[t].seen \in 0..(Conditions - 1) /\ burst \in 0..MaxBurst
  BY DEF TypeOK, TaskStates
<1>3. n > 0 => Turned(task[t].seen, n) # task[t].seen
  BY <1>2, BurstAssumption DEF Turned
<1> QED BY <1>1, <1>3

(* The ways out of wait_queue_block that link nobody. *)
LEMMA BlockReturns ==
  ASSUME IInv, NEW t \in Tasks, cpu = t, task[t].at = "block",
         NEW r \in Reasons, Return(t, r), UNCHANGED <<fifo, active_waiters, cpu>>,
         burst' = 0, UNCHANGED <<now, regVars, available, condition, ready, left>>
  PROVE  IInv'
<1> USE DEF IInv
<1>2. /\ task' \in [Tasks -> TaskStates] /\ \A x \in Tasks \ {t} : task'[x] = task[x]
      /\ task'[t].at = "own"
  BY ReturnStates
<1>3. Own(t)
  BY <1>2 DEF Own
<1>4. TypeOK'
  BY <1>2, BurstAssumption DEF TypeOK, regVars
<1>5. Calls' /\ Counted'
  BY <1>2, <1>3, OwnCalls DEF Settling
<1>6. \A s \in Queues : ~Attentive(t, s)
  BY DEF Attentive
<1>7. NoLostWakeup'
  BY <1>3, <1>6, OwnAttention
<1> QED BY <1>3, <1>4, <1>5, <1>7, OwnReachable

(* The counter has moved: the loop looks again. *)
LEMMA BlockRetries ==
  ASSUME IInv, NEW t \in Tasks, cpu = t, task[t].at = "block",
         task' = [task EXCEPT ![t].at = "loop", ![t].seen = 0, ![t].timer = Infinite],
         UNCHANGED <<fifo, active_waiters, cpu>>,
         burst' = 0, UNCHANGED <<now, regVars, available, condition, ready, left>>
  PROVE  IInv'
<1> USE DEF IInv
<1> DEFINE w == [task[t] EXCEPT !.at = "loop", !.seen = 0, !.timer = Infinite]
<1>1. task[t] \in TaskStates /\ task[t].queue \in Queues
  BY DEF Calls, TypeOK
<1>2. w \in TaskStates /\ w.at = "loop" /\ w.queue = task[t].queue
  BY <1>1, AdvanceTypes DEF TaskStates
<1>3. task' = [task EXCEPT ![t] = w]
  BY <1>1 DEF TypeOK, TaskStates
<1> HIDE DEF w
<1>4. task'[t] = w /\ Own(t)
  BY ZenonT(60), <1>2, <1>3 DEF Own, TypeOK
<1>5. TypeOK'
  BY <1>4, BurstAssumption DEF Own, TypeOK, regVars
<1>6. Calls' /\ Counted'
  BY <1>1, <1>2, <1>4, OwnCalls DEF Settling
<1>7. \A r \in Queues : ~Attentive(t, r)
  BY DEF Attentive
<1>8. NoLostWakeup'
  BY <1>4, <1>7, OwnAttention
<1> QED BY <1>4, <1>5, <1>6, <1>8, OwnReachable

(* The deadline of an entry is a moment. *)
LEMMA EntryTypes ==
  ASSUME TypeOK, NEW d \in Ticks \cup {Infinite}
  PROVE  EntryDeadline(d) \in Ticks \cup {Infinite}
<1>1. d # Infinite => now + d \in Int
  BY DEF TypeOK, Ticks
<1> QED BY <1>1, TickTurn DEF EntryDeadline

(* The counter has not moved: nothing is ready, and the task is linked. *)
LEMMA BlockLinks ==
  ASSUME IInv, NEW t \in Tasks, cpu = t, task[t].at = "block",
         available[task[t].queue], condition[task[t].queue] = task[t].seen,
         task' = [task EXCEPT ![t].at = "blocked", ![t].seen = 0,
                              ![t].timer = EntryDeadline(@),
                              ![t].deadline = KeptDeadline(t)],
         Enlist(task[t].queue, t), cpu' = NoTask,
         burst' = 0, UNCHANGED <<now, regVars, available, condition, ready, left>>
  PROVE  IInv'
<1> USE DEF IInv
<1> DEFINE q == task[t].queue
           w == [task[t] EXCEPT !.at = "blocked", !.seen = 0,
                                !.timer = EntryDeadline(task[t].timer),
                                !.deadline = KeptDeadline(t)]
<1>1. q \in Queues /\ task[t] \in TaskStates
  BY DEF Calls, TypeOK
<1>2. w \in TaskStates /\ w.at = "blocked" /\ w.queue = q
  <2>1. EntryDeadline(task[t].timer) \in Ticks \cup {Infinite}
    BY <1>1, EntryTypes DEF TaskStates
  <2>2. KeptDeadline(t) \in Ticks \cup {Infinite, Past}
    BY <1>1 DEF KeptDeadline, TaskStates
  <2> QED BY <1>1, <2>1, <2>2, AdvanceTypes DEF TaskStates
<1>3. task' = [task EXCEPT ![t] = w]
  BY <1>1 DEF TypeOK, TaskStates
<1> HIDE DEF w
<1>4. /\ task'[t] = w /\ task' \in [Tasks -> TaskStates]
      /\ \A x \in Tasks \ {t} : task'[x] = task[x]
  <2>1. task \in [Tasks -> TaskStates] /\ w \in TaskStates
    BY <1>2 DEF TypeOK
  <2>2. ASSUME NEW f, NEW g, f \in [Tasks -> TaskStates], g = [f EXCEPT ![t] = w]
        PROVE  /\ g[t] = w /\ g \in [Tasks -> TaskStates]
               /\ \A x \in Tasks \ {t} : g[x] = f[x]
    BY <2>1, <2>2
  <2> QED BY <1>3, <2>1, <2>2, Zenon
<1>5. ~Linked(t)
  BY RunningIsFree
<1>6. fifo[q] \in Seq(Tasks) /\ Distinct(fifo[q]) /\ t \notin Members(fifo[q])
  BY <1>1, <1>5 DEF TypeOK, Reachable, Listed, Linked
<1>7. /\ Append(fifo[q], t) \in Seq(Tasks) /\ Distinct(Append(fifo[q], t))
      /\ Members(Append(fifo[q], t)) = Members(fifo[q]) \cup {t}
  BY <1>6, AppendMembers
<1>8. /\ fifo' \in [Queues -> Seq(Tasks)] /\ fifo'[q] = Append(fifo[q], t)
      /\ \A r \in Queues \ {q} : fifo'[r] = fifo[r]
  BY <1>1, <1>7 DEF TypeOK, Enlist
<1> HIDE DEF q
<1>0. /\ Members(fifo'[q]) = Members(fifo[q]) \cup {t}
      /\ \A r \in Queues \ {q} : Members(fifo'[r]) = Members(fifo[r])
  BY <1>7, <1>8
<1>9. \A x \in Tasks : Linked(x)' <=> Linked(x) \/ x = t
  BY <1>0, <1>1 DEF Linked
<1> USE DEF q
<1>10. LinkedTasks' = LinkedTasks \cup {t} /\ t \in Tasks \ LinkedTasks
  BY <1>5, <1>9 DEF LinkedTasks
<1>11. /\ active_waiters' = Cardinality(LinkedTasks')
       /\ active_waiters' \in 0..Cardinality(Tasks)
  <2>1. active_waiters' = Cardinality(LinkedTasks \cup {t})
    BY <1>10, LinkedAreFinite DEF Enlist, Reachable, Listed
  <2>2. LinkedTasks \cup {t} \subseteq Tasks
    BY DEF LinkedTasks
  <2>3. Cardinality(LinkedTasks \cup {t}) <= Cardinality(Tasks)
        /\ IsFiniteSet(LinkedTasks \cup {t})
    BY <2>2, TasksAssumption, FS_Subset
  <2>4. Cardinality(LinkedTasks \cup {t}) \in Nat /\ Cardinality(Tasks) \in Nat
    BY <2>3, TasksAssumption, FS_CardinalityType
  <2> QED BY <1>10, <2>1, <2>3, <2>4
<1>12. TypeOK'
  <2>1. burst' \in 0..MaxBurst
    BY BurstAssumption
  <2> QED BY <1>4, <1>8, <1>11, <2>1 DEF TypeOK, regVars
<1>13. Open' /\ Registered'
  BY <1>1, <1>8 DEF Reachable, Open, Registered, Valid, regVars
<1>14. Sleepers'
  <2>1. ASSUME NEW r \in Queues, NEW x \in Tasks, x \in Members(fifo'[r])
        PROVE  task'[x].at = "blocked" /\ task'[x].queue = r /\ cpu' # x
    <3>1. CASE x = t
      BY <1>2, <1>4, <1>5, <1>8, <2>1, <3>1, NoAssumption DEF Linked
    <3>2. CASE x # t
      <4>1. x \in Members(fifo[r])
        <5> HIDE DEF q
        <5> QED BY <1>0, <2>1, <3>2
      <4> QED BY <1>4, <3>2, <4>1, NoAssumption DEF Reachable, Sleepers
    <3> QED BY <3>1, <3>2
  <2> QED BY <2>1 DEF Sleepers
<1>15. Listed'
  BY <1>7, <1>8, <1>11 DEF Reachable, Listed
<1>16. Calls' /\ Counted'
  <2>1. \A x \in Tasks : task'[x].at \notin Calling
    BY <1>2, <1>4, OneCall DEF Calling
  <2>2. \A x \in Tasks : task'[x].at # "own" => task'[x].queue \in Queues
    BY <1>1, <1>2, <1>4 DEF Calls
  <2> QED BY <2>1, <2>2 DEF Calls, Counted, Settling, Calling
<1>17. NoLostWakeup'
  <2>1. ~ready[q]
    BY NothingSince
  <2>2. ASSUME NEW r \in Queues, ready'[r], fifo'[r] # <<>>
        PROVE  \E x \in Tasks : Attentive(x, r)'
    <3>1. r # q /\ ready[r] /\ fifo[r] # <<>>
      BY <1>8, <2>1, <2>2
    <3>2. PICK x \in Tasks : Attentive(x, r)
      BY <3>1 DEF NoLostWakeup
    <3>3. x # t
      BY <3>1, <3>2 DEF Attentive
    <3>4. ~Linked(x)'
      BY <1>9, <3>2, <3>3 DEF Attentive
    <3> QED BY <1>4, <3>2, <3>3, <3>4 DEF Attentive
  <2> QED BY <2>2 DEF NoLostWakeup
<1> QED BY <1>12, <1>13, <1>14, <1>15, <1>16, <1>17 DEF Reachable

(* wait_queue_block. *)
LEMMA BlockStep == ASSUME IInv, NEW t \in Tasks, Block(t) PROVE IInv'
<1>1. {"DEVICE_UNAVAILABLE", "TIMEOUT", "ERR_INVALID"} \subseteq Reasons
  BY DEF Reasons
<1> QED BY <1>1, BlockReturns, BlockRetries, BlockLinks DEF Block

(* A task that blocked runs again. *)
LEMMA ResumeStep == ASSUME IInv, NEW t \in Tasks, Resume(t) PROVE IInv'
<1> USE DEF IInv
<1>1. task[t] \in TaskStates /\ task[t].queue \in Queues /\ cpu = t /\ task[t].at = "blocked"
  BY DEF Resume, Calls, TypeOK
<1>2. /\ task' \in [Tasks -> TaskStates] /\ \A x \in Tasks \ {t} : task'[x] = task[x]
      /\ \/ task'[t].at = "own" /\ task[t].reason # "EVENT"
         \/ task'[t].at = "loop" /\ task'[t].queue = task[t].queue
  <2>1. CASE task[t].reason # "EVENT"
    <3>1. task[t].reason \in Reasons /\ Return(t, task[t].reason)
      BY <1>1, <2>1 DEF Resume, TaskStates
    <3> QED BY <2>1, <3>1, ReturnStates
  <2>2. CASE task[t].reason = "EVENT"
    <3> DEFINE w == [task[t] EXCEPT !.at = "loop", !.reason = "NONE"]
    <3>1. w \in TaskStates /\ w.at = "loop" /\ w.queue = task[t].queue
      BY <1>1 DEF TaskStates, Reasons
    <3>2. task' = [task EXCEPT ![t] = w]
      BY <1>1, <2>2 DEF Resume, TypeOK, TaskStates
    <3> HIDE DEF w
    <3> QED BY <3>1, <3>2 DEF TypeOK
  <2> QED BY <2>1, <2>2
<1>3. Own(t)
  BY <1>2 DEF Own, Resume
<1>4. TypeOK'
  BY <1>2 DEF Resume, TypeOK, regVars
<1>5. Calls' /\ Counted'
  BY <1>1, <1>2, <1>3, OwnCalls DEF Settling
<1>6. \A r \in Queues : Attentive(t, r) => Attentive(t, r)'
  BY <1>1, <1>2, <1>3, OwnReachable DEF Attentive
<1>7. NoLostWakeup'
  BY <1>3, <1>6, OwnAttention DEF Resume
<1> QED BY <1>3, <1>4, <1>5, <1>7, OwnReachable
-----------------------------------------------------------------------------
(* Steps by which tasks leave their queues. *)
LEMMA LeaveReachable ==
  ASSUME TypeOK, Reachable, NEW ts, Leave(ts), UNCHANGED regVars, UNCHANGED cpu,
         \A t \in LinkedTasks \ ts : task'[t].at = task[t].at /\ task'[t].queue = task[t].queue,
         \A q \in Queues : available'[q] => available[q],
         \A q \in Queues : available[q] /\ ~available'[q] => fifo'[q] = <<>>
  PROVE  Reachable'
<1>1. Listed' /\ \A q \in Queues : fifo[q] = <<>> => fifo'[q] = <<>>
  BY LeaveLinked
<1>2. Open' /\ Registered'
  BY <1>1 DEF Reachable, Open, Registered, Valid, regVars
<1>3. Sleepers'
  <2>1. ASSUME NEW q \in Queues, NEW t \in Tasks, t \in Members(fifo'[q])
        PROVE  task'[t].at = "blocked" /\ task'[t].queue = q /\ cpu' # t
    <3>1. t \in Members(fifo[q]) /\ t \notin ts
      BY <2>1 DEF Leave
    <3>2. t \in LinkedTasks \ ts
      BY <3>1 DEF LinkedTasks, Linked
    <3> QED BY <3>1, <3>2 DEF Reachable, Sleepers
  <2> QED BY <2>1 DEF Sleepers
<1> QED BY <1>1, <1>2, <1>3 DEF Reachable

(* What every wake, cancellation and timeout keeps: the tasks on their way *)
(* to look at a queue are not linked, so they are not touched.             *)
LEMMA WokenStep ==
  ASSUME TypeOK, Reachable, Calls, NEW ts, NEW r \in Reasons,
         Leave(ts), task' = Woken(ts, r), UNCHANGED regVars, UNCHANGED cpu,
         \A q \in Queues : available'[q] => available[q],
         \A q \in Queues : available[q] /\ ~available'[q] => fifo'[q] = <<>>
  PROVE  /\ Reachable' /\ Calls' /\ task' \in [Tasks -> TaskStates]
         /\ active_waiters' \in 0..Cardinality(Tasks)
         /\ \A q \in Queues, t \in Tasks : Attentive(t, q) => Attentive(t, q)'
<1>1. /\ task' \in [Tasks -> TaskStates]
      /\ \A t \in Tasks : /\ task'[t].at = task[t].at /\ task'[t].queue = task[t].queue
                          /\ task'[t].deadline = task[t].deadline
                          /\ t \notin ts => task'[t] = task[t]
  BY WokenTypes
<1>2. Reachable'
  BY <1>1, LeaveReachable DEF LinkedTasks
<1>3. Calls'
  BY <1>1 DEF Calls
<1>4. /\ active_waiters' \in 0..Cardinality(Tasks)
      /\ \A t \in Tasks : Linked(t)' <=> Linked(t) /\ t \notin ts
  BY LeaveLinked
<1>5. ASSUME NEW q \in Queues, NEW t \in Tasks, Attentive(t, q) PROVE Attentive(t, q)'
  <2>1. t \notin ts /\ ~Linked(t)'
    BY <1>4, <1>5 DEF Attentive, Leave, LinkedTasks
  <2>2. task'[t] = task[t]
    BY <1>1, <2>1
  <2> QED BY <1>5, <2>1, <2>2 DEF Attentive
<1> QED BY <1>1, <1>2, <1>3, <1>4, <1>5

(* A step that makes nothing ready. *)
LEMMA SilentStep ==
  ASSUME TypeOK, Reachable, Calls, NoLostWakeup, NEW ts, NEW r \in Reasons,
         Leave(ts), task' = Woken(ts, r), UNCHANGED regVars, UNCHANGED cpu,
         \A q \in Queues : available'[q] => available[q],
         \A q \in Queues : available[q] /\ ~available'[q] => fifo'[q] = <<>>,
         UNCHANGED ready
  PROVE  NoLostWakeup'
<1>1. ASSUME NEW q \in Queues, ready'[q], fifo'[q] # <<>>
      PROVE  \E x \in Tasks : Attentive(x, q)'
  <2>1. ready[q] /\ fifo[q] # <<>>
    BY <1>1, LeaveLinked
  <2>2. PICK x \in Tasks : Attentive(x, q)
    BY <2>1 DEF NoLostWakeup
  <2> QED BY <1>1, <2>2, WokenStep
<1> QED BY <1>1 DEF NoLostWakeup

(* One more signal, within one turn of the counter. *)
LEMMA TurnedAdvances ==
  ASSUME NEW c \in 0..(Conditions - 1), NEW n \in Nat, n < MaxBurst
  PROVE  Advance(Turned(c, n)) = Turned(c, n + 1)
BY BurstAssumption DEF Advance, Turned

(* An interrupt publishes and wakes. *)
LEMMA InterruptStep ==
  ASSUME IInv, NEW q \in Queues, NEW mode \in Modes, Interrupt(q, mode) PROVE IInv'
<1> USE DEF IInv
<1> DEFINE ts == Chosen(q, mode)
<1>1. ts \subseteq Members(fifo[q]) /\ (fifo[q] # <<>> => ts # {})
  BY ChosenLeave
<1> HIDE DEF ts
<1>2. Leave(ts)
  BY <1>1, LeaveOne DEF Interrupt, Wake, Unlink, ts
<1>3. /\ task' = Woken(ts, "EVENT") /\ UNCHANGED available /\ "EVENT" \in Reasons
      /\ UNCHANGED regVars /\ UNCHANGED cpu
  BY DEF Interrupt, Wake, Unlink, ts, TypeOK, Reasons
<1>4. /\ Reachable' /\ Calls' /\ task' \in [Tasks -> TaskStates]
      /\ active_waiters' \in 0..Cardinality(Tasks)
      /\ \A r \in Queues, t \in Tasks : Attentive(t, r) => Attentive(t, r)'
  BY <1>2, <1>3, WokenStep
<1>5. /\ condition' = [condition EXCEPT ![q] = Advance(@)]
      /\ ready' = [ready EXCEPT ![q] = TRUE]
      /\ \/ burst < MaxBurst /\ burst' = burst + 1
         \/ (\A t \in Tasks : ~Settling(t)) /\ UNCHANGED burst
      /\ UNCHANGED <<now, left>>
  BY DEF Interrupt, Wake
<1>6. TypeOK'
  <2>1. condition' \in [Queues -> 0..(Conditions - 1)]
    BY <1>5, AdvanceTypes DEF TypeOK
  <2>2. ready' \in [Queues -> BOOLEAN] /\ burst' \in 0..MaxBurst
    BY <1>5, BurstAssumption DEF TypeOK
  <2> QED BY <1>2, <1>3, <1>4, <1>5, <2>1, <2>2 DEF TypeOK, Leave, regVars
<1>7. Counted'
  <2> SUFFICES ASSUME NEW t \in Tasks, Settling(t)'
        PROVE  \E n \in 0..burst' :
                 /\ condition'[task'[t].queue] = Turned(task'[t].seen, n)
                 /\ ready'[task'[t].queue] => n > 0
    BY DEF Counted, Turned
  <2>1. /\ task'[t].queue = task[t].queue /\ task'[t].seen = task[t].seen
        /\ Settling(t) /\ burst < MaxBurst /\ burst' = burst + 1
    BY <1>3, <1>5, WokenTypes DEF Settling
  <2>2. PICK n \in 0..burst : /\ condition[task[t].queue] = Turned(task[t].seen, n)
                              /\ ready[task[t].queue] => n > 0
    BY <2>1 DEF Counted
  <2>3. burst \in Nat /\ MaxBurst \in Nat /\ task[t].queue \in Queues
        /\ task[t].seen \in 0..(Conditions - 1)
    BY <2>1, BurstAssumption DEF TypeOK, Calls, TaskStates, Settling
  <2>4. CASE task[t].queue = q
    <3>1. condition'[q] = Turned(task[t].seen, n + 1)
      BY <1>5, <2>1, <2>2, <2>3, <2>4, TurnedAdvances DEF TypeOK
    <3>2. n + 1 \in 0..burst' /\ n + 1 > 0
      BY <2>1, <2>2, <2>3
    <3> QED BY <2>1, <2>4, <3>1, <3>2
  <2>5. CASE task[t].queue # q
    <3>1. /\ condition'[task[t].queue] = condition[task[t].queue]
          /\ ready'[task[t].queue] = ready[task[t].queue]
      BY <1>5, <2>3, <2>5 DEF TypeOK
    <3>2. n \in 0..burst'
      BY <2>1, <2>2, <2>3
    <3> QED BY <2>1, <2>2, <3>1, <3>2
  <2> QED BY <2>4, <2>5
<1>8. NoLostWakeup'
  <2>1. ASSUME NEW r \in Queues, ready'[r], fifo'[r] # <<>>
        PROVE  \E x \in Tasks : Attentive(x, r)'
    <3>1. fifo[r] # <<>>
      BY <1>2, <2>1, LeaveLinked
    <3>2. CASE r = q
      <4>1. PICK x \in ts : x \in Members(fifo[q])
        BY <1>1, <3>1, <3>2
      <4>2. x \in Tasks /\ task[x].at = "blocked" /\ task[x].queue = q
        BY <1>2, <4>1 DEF Leave, LinkedTasks, Reachable, Sleepers
      <4>3. task'[x].at = "blocked" /\ task'[x].queue = q /\ task'[x].reason = "EVENT"
        BY <1>3, <4>1, <4>2, WokenTypes
      <4>4. ~Linked(x)'
        BY <1>2, <4>1, <4>2, LeaveLinked
      <4> QED BY <3>2, <4>2, <4>3, <4>4 DEF Attentive
    <3>3. CASE r # q
      <4>1. ready[r]
        BY <1>5, <2>1, <3>3 DEF TypeOK
      <4> QED BY <1>4, <3>1, <4>1 DEF NoLostWakeup
    <3> QED BY <3>2, <3>3
  <2> QED BY <2>1 DEF NoLostWakeup
<1> QED BY <1>4, <1>6, <1>7, <1>8

(* wait_queue_remove. *)
LEMMA CancelStep == ASSUME IInv, NEW t \in Tasks, CancelWait(t) PROVE IInv'
<1> USE DEF IInv
<1> DEFINE q == task[t].queue
<1>1. q \in Queues /\ t \in Members(fifo[q])
  BY DEF CancelWait, Linked, Reachable, Sleepers
<1>2. /\ fifo' = [fifo EXCEPT ![q] = Without(@, {t})]
      /\ active_waiters' = active_waiters - Cardinality({t})
      /\ task' = Woken({t}, "CANCELLED") /\ "CANCELLED" \in Reasons
      /\ UNCHANGED <<now, regVars, available, condition, ready, cpu, burst, left>>
  BY DEF CancelWait, Unlink, Reasons
<1> HIDE DEF q
<1>3. Leave({t})
  BY <1>1, <1>2, LeaveOne
<1>4. /\ Reachable' /\ Calls' /\ task' \in [Tasks -> TaskStates]
      /\ active_waiters' \in 0..Cardinality(Tasks)
  BY <1>2, <1>3, WokenStep
<1>5. TypeOK'
  BY <1>2, <1>3, <1>4 DEF TypeOK, Leave, regVars
<1>6. Counted'
  <2>1. \A x \in Tasks : /\ task'[x].at = task[x].at /\ task'[x].queue = task[x].queue
                         /\ task'[x].seen = task[x].seen
    BY <1>2, WokenTypes
  <2> QED BY <1>2, <2>1 DEF Counted, Turned, Settling
<1>7. NoLostWakeup'
  BY <1>2, <1>3, SilentStep
<1> QED BY <1>4, <1>5, <1>6, <1>7

(* The task that published wakes. *)
LEMMA PublishWakeStep ==
  ASSUME IInv, NEW t \in Tasks, NEW mode \in Modes, PublishWake(t, mode) PROVE IInv'
<1> USE DEF IInv
<1> DEFINE q == task[t].queue
           ts == Chosen(q, mode)
<1>1. q \in Queues /\ cpu = t /\ task[t].at = "waking" /\ ~Linked(t)
  BY RunningIsFree DEF PublishWake, Calls
<1>2. ts \subseteq Members(fifo[q]) /\ (fifo[q] # <<>> => ts # {})
  BY <1>1, ChosenLeave
<1>3. /\ fifo' = [fifo EXCEPT ![q] = Without(@, ts)]
      /\ active_waiters' = active_waiters - Cardinality(ts)
      /\ task' = [Woken(ts, "EVENT") EXCEPT ![t] = Idle]
      /\ condition' = [condition EXCEPT ![q] = Advance(@)]
      /\ UNCHANGED <<now, regVars, available, ready, cpu, burst, left>>
  BY DEF PublishWake
<1> HIDE DEF q, ts
<1>4. Leave(ts)
  BY <1>1, <1>2, <1>3, LeaveOne
<1>5. t \notin ts
  BY <1>1, <1>4 DEF Leave, LinkedTasks
<1>6. /\ Woken(ts, "EVENT") \in [Tasks -> TaskStates] /\ Idle \in TaskStates
      /\ Idle.at = "own"
  <2>1. "EVENT" \in Reasons
    BY DEF Reasons
  <2> QED BY <2>1, WokenTypes, IdleTypes DEF Idle
<1>7. /\ task' \in [Tasks -> TaskStates] /\ task'[t] = Idle
      /\ \A x \in Tasks \ {t} : task'[x] = Woken(ts, "EVENT")[x]
  <2> HIDE DEF Idle
  <2> QED BY <1>3, <1>6
<1>8. \A x \in Tasks \ {t} : /\ task'[x].at = task[x].at /\ task'[x].queue = task[x].queue
                             /\ x \notin ts => task'[x] = task[x]
                             /\ x \in ts => task'[x].reason = "EVENT"
  <2>1. "EVENT" \in Reasons
    BY DEF Reasons
  <2> QED BY <1>7, <2>1, WokenTypes
<1>9. Reachable'
  <2>1. \A x \in LinkedTasks \ ts : task'[x].at = task[x].at /\ task'[x].queue = task[x].queue
    BY <1>1, <1>8 DEF LinkedTasks
  <2> QED BY <1>3, <1>4, <2>1, LeaveReachable
<1>10. TypeOK'
  <2>1. condition' \in [Queues -> 0..(Conditions - 1)]
    BY <1>1, <1>3, AdvanceTypes DEF TypeOK
  <2>2. active_waiters' \in 0..Cardinality(Tasks)
    BY <1>4, LeaveLinked
  <2> QED BY <1>3, <1>4, <1>7, <2>1, <2>2 DEF TypeOK, Leave, regVars
<1>11. Calls' /\ Counted'
  <2>1. \A x \in Tasks : task'[x].at \notin Calling
    <3>1. \A x \in Tasks \ {t} : task[x].at \notin Calling
      BY <1>1, OneCall
    <3> QED BY <1>6, <1>7, <1>8, <3>1 DEF Calling
  <2>2. \A x \in Tasks : task'[x].at # "own" => task'[x].queue \in Queues
    BY <1>6, <1>7, <1>8 DEF Calls
  <2> QED BY <2>1, <2>2 DEF Calls, Counted, Settling, Calling
<1>12. NoLostWakeup'
  <2>1. ASSUME NEW r \in Queues, ready'[r], fifo'[r] # <<>>
        PROVE  \E x \in Tasks : Attentive(x, r)'
    <3>1. fifo[r] # <<>>
      BY <1>4, <2>1, LeaveLinked
    <3>2. CASE r = q
      <4>1. PICK x \in ts : x \in Members(fifo[q])
        BY <1>2, <3>1, <3>2
      <4>2. x \in Tasks \ {t} /\ task[x].at = "blocked" /\ task[x].queue = q
        BY <1>1, <1>4, <1>5, <4>1 DEF Leave, LinkedTasks, Reachable, Sleepers
      <4>3. task'[x].at = "blocked" /\ task'[x].queue = q /\ task'[x].reason = "EVENT"
        BY <1>8, <4>1, <4>2
      <4>4. ~Linked(x)'
        BY <1>4, <4>1, <4>2, LeaveLinked
      <4> QED BY <3>2, <4>2, <4>3, <4>4 DEF Attentive
    <3>3. CASE r # q
      <4>1. ready[r]
        BY <1>3, <2>1
      <4>2. PICK x \in Tasks : Attentive(x, r)
        BY <3>1, <4>1 DEF NoLostWakeup
      <4>3. x # t /\ x \notin ts /\ ~Linked(x)'
        BY <1>4, <3>3, <4>2, LeaveLinked DEF q, Attentive, Leave, LinkedTasks
      <4>4. task'[x] = task[x]
        BY <1>8, <4>3
      <4> QED BY <4>1, <4>2, <4>3, <4>4 DEF Attentive
    <3> QED BY <3>2, <3>3
  <2> QED BY <2>1 DEF NoLostWakeup
<1> QED BY <1>9, <1>10, <1>11, <1>12

(* The clock ends the waits that are over. *)
LEMMA TickStep == ASSUME IInv, Tick PROVE IInv'
<1> USE DEF IInv
<1> DEFINE c == (now + 1) % TickSpace
           ts == Expired(c)
<1>1. /\ fifo' = [q \in Queues |-> Without(fifo[q], ts)]
      /\ active_waiters' = active_waiters - Cardinality(ts)
      /\ task' = Woken(ts, "TIMEOUT") /\ "TIMEOUT" \in Reasons /\ now' = c
      /\ left' = [t \in Tasks |-> IF left[t] > 0 THEN left[t] - 1 ELSE 0]
      /\ UNCHANGED <<regVars, available, condition, ready, cpu, burst>>
  BY DEF Tick, Reasons
<1>2. ts \subseteq LinkedTasks
  BY DEF Expired, LinkedTasks
<1>3. c \in Ticks
  BY TickTurn DEF TypeOK, Ticks
<1> HIDE DEF c, ts
<1>4. Leave(ts)
  BY <1>1, <1>2, LeaveAll
<1>5. /\ Reachable' /\ Calls' /\ task' \in [Tasks -> TaskStates]
      /\ active_waiters' \in 0..Cardinality(Tasks)
  BY <1>1, <1>4, WokenStep
<1>6. TypeOK'
  <2>1. left' \in [Tasks -> 0..MaxTimeout]
    BY <1>1, ClockAssumption DEF TypeOK
  <2> QED BY <1>1, <1>3, <1>4, <1>5, <2>1 DEF TypeOK, Leave, regVars
<1>7. Counted'
  <2>1. \A x \in Tasks : /\ task'[x].at = task[x].at /\ task'[x].queue = task[x].queue
                         /\ task'[x].seen = task[x].seen
    BY <1>1, WokenTypes
  <2> QED BY <1>1, <2>1 DEF Counted, Turned, Settling
<1>8. NoLostWakeup'
  BY <1>1, <1>4, SilentStep
<1> QED BY <1>5, <1>6, <1>7, <1>8
-----------------------------------------------------------------------------
(* What the owner of a queue does with it. No task is in a call then. *)
LEMMA NobodyCalls ==
  ASSUME Calls, cpu # NoTask, cpu \in Tasks, task[cpu].at = "own"
  PROVE  \A t \in Tasks : task[t].at \notin Calling
BY DEF Calls, Calling

(* The registry and the lists after a step that moves no task. *)
LEMMA ManagedStep ==
  ASSUME IInv, \A t \in Tasks : task[t].at \notin Calling,
         UNCHANGED <<now, fifo, active_waiters, cpu, task, burst, left>>,
         generations' \in [Slots -> 0..MaxGeneration],
         registry' \in [Slots -> Queues \cup {NoQueue}],
         slot' \in [Queues -> Slots \cup {-1}],
         available' \in [Queues -> BOOLEAN], ready' \in [Queues -> BOOLEAN],
         condition' \in [Queues -> 0..(Conditions - 1)],
         NEW q \in Queues, fifo[q] = <<>>,
         \A r \in Queues \ {q} : /\ available'[r] = available[r] /\ ready'[r] = ready[r]
                                 /\ condition'[r] = condition[r]
                                 /\ Valid(r) => Valid(r)',
         available'[q] => Valid(q)'
  PROVE  IInv'
<1> USE DEF IInv
<1>1. TypeOK'
  BY DEF TypeOK
<1>2. \A t \in Tasks : Linked(t)' <=> Linked(t)
  BY DEF Linked
<1>3. LinkedTasks' = LinkedTasks
  BY <1>2 DEF LinkedTasks
<1>4. Open' /\ Registered'
  BY DEF Reachable, Open, Registered
<1>5. Sleepers' /\ Listed'
  BY <1>3 DEF Reachable, Sleepers, Listed
<1>6. Calls' /\ Counted'
  BY DEF Calls, Counted, Settling, Calling
<1>7. NoLostWakeup'
  <2>1. ASSUME NEW r \in Queues, ready'[r], fifo'[r] # <<>>
        PROVE  \E x \in Tasks : Attentive(x, r)'
    <3>1. r # q /\ ready[r] /\ fifo[r] # <<>>
      BY <2>1
    <3>2. PICK x \in Tasks : Attentive(x, r)
      BY <3>1 DEF NoLostWakeup
    <3> QED BY <1>2, <3>1, <3>2 DEF Attentive
  <2> QED BY <2>1 DEF NoLostWakeup
<1> QED BY <1>1, <1>4, <1>5, <1>6, <1>7 DEF Reachable

(* init_waitqueue_head. *)
LEMMA InitQueueStep ==
  ASSUME IInv, cpu # NoTask, task[cpu].at = "own", NEW q \in Queues, InitQueue(q)
  PROVE  IInv'
<1> USE DEF IInv
<1> DEFINE s == CHOOSE x \in FreeSlots : \A y \in FreeSlots : x <= y
<1>1. s \in FreeSlots
  <2>1. FreeSlots \in SUBSET Nat /\ FreeSlots # {}
    BY CapacityAssumption DEF FreeSlots, Slots, InitQueue
  <2>2. \E x \in FreeSlots : \A y \in FreeSlots : x <= y
    BY <2>1, LeastNumber
  <2> QED BY <2>2
<1>2. s \in Slots /\ registry[s] = NoQueue
  BY <1>1 DEF FreeSlots
<1>3. /\ registry' = [registry EXCEPT ![s] = q]
      /\ generations' = [generations EXCEPT ![s] = NextGeneration(@)]
      /\ slot' = [slot EXCEPT ![q] = s] /\ slot[q] = -1
      /\ available' = [available EXCEPT ![q] = TRUE]
      /\ condition' = [condition EXCEPT ![q] = 0]
      /\ UNCHANGED <<now, fifo, active_waiters, ready, cpu, task, burst, left>>
  BY DEF InitQueue
<1> HIDE DEF s
<1>4. /\ registry' \in [Slots -> Queues \cup {NoQueue}]
      /\ slot' \in [Queues -> Slots \cup {-1}]
      /\ available' \in [Queues -> BOOLEAN] /\ ready' \in [Queues -> BOOLEAN]
      /\ condition' \in [Queues -> 0..(Conditions - 1)]
  BY <1>2, <1>3, AdvanceTypes DEF TypeOK
<1>5. generations' \in [Slots -> 0..MaxGeneration]
  <2>1. \A g \in 0..MaxGeneration : NextGeneration(g) \in 0..MaxGeneration
    BY CapacityAssumption DEF NextGeneration
  <2> QED BY <1>2, <1>3, <2>1 DEF TypeOK
<1>6. fifo[q] = <<>>
  <2>1. ~Valid(q)
    BY <1>3, CapacityAssumption DEF Valid, Slots
  <2> QED BY <2>1 DEF Reachable, Open, Registered
<1>7. Valid(q)'
  BY <1>2, <1>3 DEF Valid, TypeOK
<1>8. \A r \in Queues \ {q} : /\ available'[r] = available[r] /\ ready'[r] = ready[r]
                              /\ condition'[r] = condition[r] /\ slot'[r] = slot[r]
  BY <1>3 DEF TypeOK
<1>9. ASSUME NEW r \in Queues \ {q}, Valid(r) PROVE Valid(r)'
  <2>1. slot[r] # s
    BY <1>2, <1>9, NoAssumption DEF Valid
  <2> QED BY <1>2, <1>3, <1>8, <1>9, <2>1 DEF Valid, TypeOK
<1>10. \A t \in Tasks : task[t].at \notin Calling
  BY NobodyCalls DEF TypeOK
<1> QED BY <1>3, <1>4, <1>5, <1>6, <1>7, <1>8, <1>9, <1>10, ManagedStep

(* wait_channel_reset. *)
LEMMA ResetQueueStep ==
  ASSUME IInv, cpu # NoTask, task[cpu].at = "own", NEW q \in Queues, ResetQueue(q)
  PROVE  IInv'
<1> USE DEF IInv
<1>1. slot[q] \in Slots /\ registry[slot[q]] = q /\ fifo[q] = <<>>
  BY DEF ResetQueue, Valid
<1>2. /\ registry' = [registry EXCEPT ![slot[q]] = NoQueue]
      /\ slot' = [slot EXCEPT ![q] = -1]
      /\ available' = [available EXCEPT ![q] = FALSE]
      /\ condition' = [condition EXCEPT ![q] = 0]
      /\ ready' = [ready EXCEPT ![q] = FALSE]
      /\ UNCHANGED <<now, generations, fifo, active_waiters, cpu, task, burst, left>>
  BY DEF ResetQueue, Unregister
<1>3. /\ registry' \in [Slots -> Queues \cup {NoQueue}]
      /\ slot' \in [Queues -> Slots \cup {-1}]
      /\ available' \in [Queues -> BOOLEAN] /\ ready' \in [Queues -> BOOLEAN]
      /\ condition' \in [Queues -> 0..(Conditions - 1)]
      /\ generations' \in [Slots -> 0..MaxGeneration]
  BY <1>1, <1>2, AdvanceTypes DEF TypeOK
<1>4. \A r \in Queues \ {q} : /\ available'[r] = available[r] /\ ready'[r] = ready[r]
                              /\ condition'[r] = condition[r] /\ slot'[r] = slot[r]
  BY <1>2 DEF TypeOK
<1>5. ASSUME NEW r \in Queues \ {q}, Valid(r) PROVE Valid(r)'
  <2>1. slot[r] # slot[q]
    BY <1>1, <1>5 DEF Valid
  <2> QED BY <1>1, <1>2, <1>4, <1>5, <2>1 DEF Valid, TypeOK
<1>6. ~available'[q]
  BY <1>2 DEF TypeOK
<1>7. \A t \in Tasks : task[t].at \notin Calling
  BY NobodyCalls DEF TypeOK
<1> QED BY <1>1, <1>2, <1>3, <1>4, <1>5, <1>6, <1>7, ManagedStep

(* wait_channel_set_available. *)
LEMMA SetAvailableStep ==
  ASSUME IInv, cpu # NoTask, task[cpu].at = "own", NEW q \in Queues,
         NEW b \in BOOLEAN, SetAvailable(q, b)
  PROVE  IInv'
<1> USE DEF IInv
<1>1. \A t \in Tasks : task[t].at \notin Calling
  BY NobodyCalls DEF TypeOK
<1>2. Valid(q) /\ UNCHANGED <<now, regVars, ready, cpu, burst, left>>
  BY DEF SetAvailable
<1>3. CASE /\ ~available[q] /\ available' = [available EXCEPT ![q] = TRUE]
           /\ UNCHANGED <<condition, fifo, active_waiters, task>>
  <2>1. fifo[q] = <<>>
    BY <1>3 DEF Reachable, Open
  <2>2. available' \in [Queues -> BOOLEAN]
        /\ \A r \in Queues \ {q} : available'[r] = available[r]
    BY <1>3 DEF TypeOK
  <2>3. \A r \in Queues : Valid(r) => Valid(r)'
    BY <1>2 DEF Valid, regVars
  <2>4. /\ generations' \in [Slots -> 0..MaxGeneration]
        /\ registry' \in [Slots -> Queues \cup {NoQueue}]
        /\ slot' \in [Queues -> Slots \cup {-1}] /\ ready' \in [Queues -> BOOLEAN]
        /\ condition' \in [Queues -> 0..(Conditions - 1)]
    BY <1>2, <1>3 DEF TypeOK, regVars
  <2> QED BY <1>1, <1>2, <1>3, <2>1, <2>2, <2>3, <2>4, ManagedStep
<1>4. CASE available[q] /\ Wake(q, "ALL", "DEVICE_UNAVAILABLE")
  <2> DEFINE ts == Chosen(q, "ALL")
  <2>1. ts = Members(fifo[q])
    BY ChosenLeave DEF Modes
  <2> HIDE DEF ts
  <2>2. Leave(ts)
    BY <1>4, <2>1, LeaveOne DEF Wake, Unlink, ts
  <2>3. /\ task' = Woken(ts, "DEVICE_UNAVAILABLE") /\ "DEVICE_UNAVAILABLE" \in Reasons
        /\ available' = [available EXCEPT ![q] = FALSE]
        /\ condition' = [condition EXCEPT ![q] = Advance(@)]
    BY <1>4 DEF Wake, Unlink, ts, Reasons, TypeOK
  <2>4. /\ available' \in [Queues -> BOOLEAN] /\ ~available'[q]
        /\ \A r \in Queues \ {q} : available'[r] = available[r] /\ condition'[r] = condition[r]
        /\ condition' \in [Queues -> 0..(Conditions - 1)]
    BY <2>3, AdvanceTypes DEF TypeOK
  <2>5. fifo'[q] = <<>>
    BY <2>1, <2>2, LeaveLinked
  <2>6. \A r \in Queues : /\ available'[r] => available[r]
                          /\ available[r] /\ ~available'[r] => fifo'[r] = <<>>
    BY <1>4, <2>4, <2>5
  <2>7. /\ Reachable' /\ Calls' /\ task' \in [Tasks -> TaskStates]
        /\ active_waiters' \in 0..Cardinality(Tasks)
    BY <1>2, <2>2, <2>3, <2>6, WokenStep
  <2>8. TypeOK'
    BY <1>2, <2>2, <2>4, <2>7 DEF TypeOK, Leave, regVars
  <2>9. Counted'
    BY <1>1, <2>3, WokenTypes DEF Counted, Settling, Calling
  <2>10. NoLostWakeup'
    BY <1>2, <2>2, <2>3, <2>6, SilentStep
  <2> QED BY <2>7, <2>8, <2>9, <2>10
<1> QED BY <1>3, <1>4 DEF SetAvailable
-----------------------------------------------------------------------------
(* wait_init. *)
LEMMA InitInv == Init => IInv
<1> SUFFICES ASSUME Init PROVE IInv
  OBVIOUS
<1> USE DEF Init
<1>0. Idle \in TaskStates /\ Idle.at = "own"
  BY IdleTypes DEF Idle, Reasons
<1> HIDE DEF Idle
<1>1. \A t \in Tasks : task[t] = Idle /\ task[t].at = "own" /\ ~Linked(t)
  BY <1>0 DEF Linked, Members
<1>2. LinkedTasks = {}
  BY <1>1 DEF LinkedTasks
<1>3. Cardinality(LinkedTasks) = 0 /\ Cardinality(Tasks) \in Nat
  BY <1>2, TasksAssumption, FS_EmptySet, FS_CardinalityType
<1>4. TypeOK
  <2>1. now \in Ticks
    BY TickTurn DEF Ticks
  <2>2. registry \in [Slots -> Queues \cup {NoQueue}]
        /\ slot \in [Queues -> Slots \cup {-1}]
        /\ available \in [Queues -> BOOLEAN] /\ ready \in [Queues -> BOOLEAN]
        /\ fifo \in [Queues -> Seq(Tasks)] /\ cpu \in Tasks \cup {NoTask}
    OBVIOUS
  <2>3. generations \in [Slots -> 0..MaxGeneration]
        /\ condition \in [Queues -> 0..(Conditions - 1)]
        /\ burst \in 0..MaxBurst /\ left \in [Tasks -> 0..MaxTimeout]
    BY CapacityAssumption, BurstAssumption, ClockAssumption
  <2>4. task \in [Tasks -> TaskStates] /\ active_waiters \in 0..Cardinality(Tasks)
    BY <1>0, <1>3
  <2> QED BY <2>1, <2>2, <2>3, <2>4 DEF TypeOK
<1>5. Reachable
  BY <1>1, <1>3 DEF Reachable, Open, Registered, Sleepers, Listed, Members, Distinct
<1>6. Calls /\ Counted /\ NoLostWakeup
  BY <1>1 DEF Calls, Counted, NoLostWakeup, Settling, Calling
<1> QED BY <1>4, <1>5, <1>6 DEF IInv

(* Every step keeps the invariant. *)
LEMMA NextInv == IInv /\ [Next]_vars => IInv'
<1> SUFFICES ASSUME IInv, [Next]_vars PROVE IInv'
  OBVIOUS
<1>1. CASE UNCHANGED vars
  BY <1>1 DEF vars, IInv, TypeOK, Reachable, Open, Registered, Valid, Sleepers, Listed,
     LinkedTasks, Linked, Calls, Counted, Turned, NoLostWakeup, Attentive, Settling
<1>2. ASSUME NEW t \in Tasks, Dispatch(t) \/ TaskStep(t) \/ CancelWait(t) PROVE IInv'
  BY <1>2, DispatchStep, PublishStep, PublishWakeStep, WaitEventStep, SnapshotStep,
     CheckStep, ReadStep, BlockStep, ResumeStep, CancelStep DEF TaskStep, CallStep
<1>3. ASSUME NEW q \in Queues, Manage(q) PROVE IInv'
  BY <1>3, InitQueueStep, ResetQueueStep, SetAvailableStep DEF Manage
<1> QED BY <1>1, <1>2, <1>3, YieldStep, TickStep, InterruptStep DEF Next

(* The inductive invariant of the lists, the calls and the counter. *)
THEOREM WaitInvariant == Spec => []IInv
BY InitInv, NextInv, PTL DEF Spec

(* wait_validate_state, for every number of tasks and queues: a task is    *)
(* linked once at most, in a registered and available queue, only while it *)
(* is blocked, and the counter of waiters is exact.                        *)
THEOREM WaitersStayReachable == Spec => []WaitersAreReachable
<1>1. IInv => WaitersAreReachable
  BY DEF IInv, Reachable, Open, Registered, Sleepers, Listed, LinkedTasks, Distinct,
         WaitersAreReachable
<1> QED BY <1>1, WaitInvariant, PTL

(* No wakeup is lost between the snapshot of the condition and the moment  *)
(* wait_queue_block links the task, for every number of waiters, producers *)
(* and interrupts, as long as fewer signals than the counter has values    *)
(* come in between.                                                        *)
THEOREM NoWakeupIsLost == Spec => []NoLostWakeup
<1>1. IInv => NoLostWakeup
  BY DEF IInv
<1> QED BY <1>1, WaitInvariant, PTL
-----------------------------------------------------------------------------
(* Moments of the clock, seen one tick later. *)
LEMMA ClockBounds ==
  /\ MaxTimeout \in Nat /\ MaxLate \in Nat /\ MaxLate > 0 /\ TickSpace \in Nat
  /\ TickSpace > 2 * (MaxTimeout + MaxLate)
  /\ TickSpace \div 2 \in Nat /\ TickSpace \div 2 > 0
  /\ TickSpace \div 2 >= MaxTimeout + MaxLate
  /\ TickSpace - MaxTimeout >= TickSpace \div 2
  /\ TickSpace - MaxLate >= TickSpace \div 2
  /\ MaxStall \in Nat \ {0} /\ MaxStall <= MaxLate
<1>1. /\ MaxTimeout \in Nat /\ MaxLate \in Nat /\ MaxLate > 0 /\ TickSpace \in Nat
      /\ TickSpace > 2 * (MaxTimeout + MaxLate)
      /\ MaxStall \in Nat \ {0} /\ MaxStall <= MaxLate
  BY ClockAssumption
<1> QED BY <1>1

(* The clock d ticks later, without the modulus. *)
LEMMA AfterIs ==
  ASSUME NEW a \in Ticks, NEW d \in Nat, d < TickSpace
  PROVE  /\ After(a, d) = IF a + d < TickSpace THEN a + d ELSE a + d - TickSpace
         /\ After(a, d) \in Ticks
<1> DEFINE x == a + d
<1>1. x \in Int /\ 0 <= x /\ x < 2 * TickSpace /\ TickSpace \in Nat
  BY TickTurn DEF Ticks
<1> HIDE DEF x
<1>2. x % TickSpace = IF x < TickSpace THEN x ELSE x - TickSpace
  BY <1>1, TickTurn
<1>3. x % TickSpace \in Ticks
  BY <1>1, TickTurn
<1>4. After(a, d) = x % TickSpace
  BY DEF After, x
<1>5. After(a, d) = (IF x < TickSpace THEN x ELSE x - TickSpace) /\ After(a, d) \in Ticks
  BY <1>2, <1>3, <1>4
<1>6. a \in Int /\ d \in Int /\ TickSpace \in Int
  BY <1>1 DEF Ticks
<1> QED BY <1>5, <1>6 DEF x

(* One tick more, from either end. *)
LEMMA AfterNext ==
  ASSUME NEW a \in Ticks, NEW d \in Nat, d + 1 < TickSpace
  PROVE  /\ After(After(a, 1), d) = After(a, d + 1)
         /\ After(After(a, d), 1) = After(a, d + 1)
<1>1. TickSpace \in Nat /\ 1 < TickSpace
  BY ClockBounds
<1>2. /\ After(a, 1) = IF a + 1 < TickSpace THEN a + 1 ELSE a + 1 - TickSpace
      /\ After(a, d) = IF a + d < TickSpace THEN a + d ELSE a + d - TickSpace
      /\ After(a, d + 1) = IF a + d + 1 < TickSpace THEN a + d + 1 ELSE a + d + 1 - TickSpace
      /\ After(a, 1) \in Ticks /\ After(a, d) \in Ticks
  <2>1. d + 1 \in Nat /\ d < TickSpace /\ a + (d + 1) = a + d + 1 /\ a \in Int
    BY <1>1 DEF Ticks
  <2>2. After(a, d + 1) = IF a + (d + 1) < TickSpace THEN a + (d + 1)
                          ELSE a + (d + 1) - TickSpace
    BY <2>1, AfterIs
  <2>3. /\ After(a, 1) = IF a + 1 < TickSpace THEN a + 1 ELSE a + 1 - TickSpace
        /\ After(a, 1) \in Ticks
    BY <1>1, AfterIs
  <2>4. /\ After(a, d) = IF a + d < TickSpace THEN a + d ELSE a + d - TickSpace
        /\ After(a, d) \in Ticks
    BY <2>1, AfterIs
  <2> QED BY <1>1, <2>1, <2>2, <2>3, <2>4
<1> DEFINE b == After(a, 1)
           e == After(a, d)
<1>3. b \in Ticks /\ e \in Ticks
  BY <1>2
<1> HIDE DEF b, e
<1>4. /\ After(b, d) = IF b + d < TickSpace THEN b + d ELSE b + d - TickSpace
      /\ After(e, 1) = IF e + 1 < TickSpace THEN e + 1 ELSE e + 1 - TickSpace
  BY <1>1, <1>3, AfterIs
<1>5. a \in Int /\ 0 <= a /\ a < TickSpace
  BY <1>1 DEF Ticks
<1>6. After(b, d) = After(a, d + 1)
  BY <1>1, <1>2, <1>4, <1>5 DEF b
<1>7. After(e, 1) = After(a, d + 1)
  BY <1>1, <1>2, <1>4, <1>5 DEF e
<1> QED BY <1>6, <1>7 DEF b, e

(* A moment d ticks ahead is reached at the next tick only if d is 1. *)
LEMMA ReachedNext ==
  ASSUME NEW a \in Ticks, NEW d \in 1..MaxTimeout
  PROVE  ReachedAt(After(a, 1), After(a, d)) <=> d = 1
<1> DEFINE c == After(a, 1)
           x == After(a, d)
<1>1. /\ d \in Nat /\ d < TickSpace /\ 1 < TickSpace /\ TickSpace \in Nat
      /\ TickSpace - d + 1 > TickSpace \div 2 /\ TickSpace \div 2 > 0
  BY ClockBounds
<1>2. /\ c = IF a + 1 < TickSpace THEN a + 1 ELSE a + 1 - TickSpace
      /\ x = IF a + d < TickSpace THEN a + d ELSE a + d - TickSpace
      /\ c \in Ticks /\ x \in Ticks
  BY <1>1, AfterIs
<1> HIDE DEF c, x
<1>3. CASE d = 1
  <2>1. c - x = 0
    BY <1>2, <1>3 DEF Ticks
  <2>2. (c - x) % TickSpace = 0
    BY <1>1, <2>1, TickTurn
  <2>3. ReachedAt(c, x)
    BY <1>1, <2>2 DEF ReachedAt
  <2> QED BY <1>3, <2>3 DEF c, x
<1>4. CASE d # 1
  <2>1. c - x = 1 - d \/ c - x = TickSpace + 1 - d
    BY <1>1, <1>2 DEF Ticks
  <2>2. (1 - d) % TickSpace = TickSpace + 1 - d
        /\ (TickSpace + 1 - d) % TickSpace = TickSpace + 1 - d
    <3>1. 1 - d \in Int /\ 0 - TickSpace <= 1 - d /\ 1 - d < 0
      BY <1>1, <1>4
    <3>2. TickSpace + 1 - d \in Int /\ 0 <= TickSpace + 1 - d /\ TickSpace + 1 - d < TickSpace
      BY <1>1, <1>4
    <3> QED BY <1>1, <3>1, <3>2, TickTurn
  <2>3. (c - x) % TickSpace = TickSpace + 1 - d
    BY <2>1, <2>2
  <2>4. ~ReachedAt(c, x)
    BY <1>1, <2>3 DEF ReachedAt
  <2> QED BY <1>4, <2>4 DEF c, x
<1> QED BY <1>3, <1>4

(* A task that is MaxLate ticks late is late by any smaller measure too. *)
LEMMA LateIsReached ==
  ASSUME NEW d \in Ticks, NEW k \in 1..MaxLate
  PROVE  ReachedAt(After(d, MaxLate), After(d, k))
<1> DEFINE c == After(d, MaxLate)
           x == After(d, k)
<1>1. /\ k \in Nat /\ k < TickSpace /\ MaxLate \in Nat /\ MaxLate < TickSpace
      /\ MaxLate - k < TickSpace \div 2 /\ TickSpace \in Nat /\ MaxLate - k >= 0
  BY ClockBounds
<1>2. /\ c = IF d + MaxLate < TickSpace THEN d + MaxLate ELSE d + MaxLate - TickSpace
      /\ x = IF d + k < TickSpace THEN d + k ELSE d + k - TickSpace
      /\ c \in Ticks /\ x \in Ticks
  BY <1>1, AfterIs
<1> HIDE DEF c, x
<1>3. c - x = MaxLate - k \/ c - x = MaxLate - k - TickSpace
  BY <1>1, <1>2 DEF Ticks
<1>4. /\ (MaxLate - k) % TickSpace = MaxLate - k
      /\ (MaxLate - k - TickSpace) % TickSpace = MaxLate - k
  <2>1. /\ MaxLate - k \in Int /\ MaxLate - k < TickSpace
        /\ MaxLate - k - TickSpace \in Int /\ MaxLate - k - TickSpace < 0
        /\ 0 - TickSpace <= MaxLate - k - TickSpace
    BY <1>1
  <2> QED BY <1>1, <2>1, TickTurn
<1>5. ReachedAt(c, x)
  BY <1>1, <1>3, <1>4 DEF ReachedAt
<1> QED BY <1>5 DEF c, x

(* The times of the waits. *)
LEMMA TimesKept ==
  ASSUME Times, NEW x \in Tasks, task'[x] = task[x], now' = now, left'[x] = left[x],
         Linked(x)' => Linked(x)
  PROVE  Deadline(x)' /\ Timer(x)'
<1>1. Deadline(x)'
  BY DEF Times, Deadline, After
<1>2. Timer(x)'
  BY DEF Times, Timer, After, Settling
<1> QED BY <1>1, <1>2

(* A task outside any wait. *)
LEMMA TimesOutside ==
  ASSUME NEW x \in Tasks, task'[x].at \in {"own", "waking"}, task'[x].deadline = Infinite,
         ~Linked(x)', task'[x].reason = "TIMEOUT" => left'[x] = 0
  PROVE  Deadline(x)' /\ Timer(x)'
BY TickTurn DEF Deadline, Timer, Settling, Ticks, Infinite, Past

(* A task that is woken, not by the clock, loses its timer. *)
LEMMA WokenTimes ==
  ASSUME TypeOK, Reachable, Times, NEW ts, NEW r \in Reasons \ {"TIMEOUT"},
         Leave(ts), NEW x \in Tasks, task'[x] = Woken(ts, r)[x], now' = now, left' = left
  PROVE  Deadline(x)' /\ Timer(x)'
<1>1. Linked(x)' <=> Linked(x) /\ x \notin ts
  BY LeaveLinked
<1>2. CASE x \notin ts
  <2>1. task'[x] = task[x]
    BY <1>2, WokenTypes
  <2> QED BY <1>1, <2>1, TimesKept
<1>3. CASE x \in ts
  <2>1. Linked(x) /\ task[x].at = "blocked"
    BY <1>3 DEF Leave, LinkedTasks, Reachable, Sleepers, Linked
  <2>2. task'[x].at = "blocked" /\ task'[x].reason = r /\ task'[x].deadline = task[x].deadline
    BY <1>3, <2>1, WokenTypes
  <2>3. Deadline(x)'
    BY <2>2 DEF Times, Deadline, After
  <2>4. Timer(x)'
    BY <1>1, <1>3, <2>2 DEF Timer, Settling
  <2> QED BY <2>3, <2>4
<1> QED BY <1>2, <1>3

(* Steps of a task that runs leave the others as they are. *)
LEMMA OwnTimes ==
  ASSUME IInv, Times, NEW t \in Tasks, Own(t), left' = left,
         Deadline(t)' /\ Timer(t)'
  PROVE  Times'
<1>1. ASSUME NEW x \in Tasks \ {t} PROVE Deadline(x)' /\ Timer(x)'
  BY TimesKept, OwnReachable DEF IInv, Own
<1> QED BY <1>1 DEF Times

(* Time does not pass while a task publishes. *)
LEMMA PublishTimes ==
  ASSUME IInv, Times, NEW t \in Tasks, NEW q \in Queues, Publish(t, q) PROVE Times'
<1>1. task \in [Tasks -> TaskStates] /\ task[t] \in TaskStates
  BY DEF IInv, TypeOK
<1>2. task' = [task EXCEPT ![t] = [task[t] EXCEPT !.at = "waking", !.queue = q]]
      /\ [task[t] EXCEPT !.at = "waking", !.queue = q] \in TaskStates
  BY <1>1 DEF Publish, TaskStates
<1>3. Own(t) /\ left' = left
  BY <1>1, <1>2 DEF Publish, Own
<1>4. /\ task'[t].at = "waking" /\ task'[t].deadline = Infinite
      /\ task'[t].reason = task[t].reason
  BY <1>1, <1>2 DEF Times, Timer, Publish, TaskStates
<1>5. ~Linked(t)'
  BY <1>3, OwnReachable DEF IInv
<1>6. task'[t].reason = "TIMEOUT" => left'[t] = 0
  BY <1>3, <1>4 DEF Times, Timer
<1> QED BY <1>3, <1>4, <1>5, <1>6, TimesOutside, OwnTimes

(* The deadline is the timeout away. *)
LEMMA WaitEventTimes ==
  ASSUME IInv, Times, NEW t \in Tasks, NEW q \in Queues, NEW timeout \in Timeouts,
         WaitEvent(t, q, timeout)
  PROVE  Times'
<1> DEFINE d == IF timeout = Infinite THEN Infinite ELSE (now + timeout) % TickSpace
           w == [Idle EXCEPT !.at = "loop", !.queue = q, !.deadline = d]
<1>1. timeout = Infinite \/ timeout \in 0..MaxTimeout
  BY TimeoutsAssumption
<1>2. now \in Ticks /\ task \in [Tasks -> TaskStates] /\ left \in [Tasks -> 0..MaxTimeout]
  BY DEF IInv, TypeOK
<1>3. task' = [task EXCEPT ![t] = w]
  BY DEF WaitEvent
<1> HIDE DEF d
<1>4. w.at = "loop" /\ w.reason = "NONE" /\ w.deadline = d
  BY DEF Idle
<1> HIDE DEF w
<1>5. task'[t] = w /\ \A x \in Tasks \ {t} : task'[x] = task[x] /\ left'[x] = left[x]
  BY <1>2, <1>3 DEF WaitEvent
<1>6. left'[t] = IF timeout = Infinite THEN 0 ELSE timeout
  BY <1>2 DEF WaitEvent
<1>7. now' = now /\ cpu = t /\ fifo' = fifo
  BY DEF WaitEvent
<1>8. \A x \in Tasks : Linked(x)' <=> Linked(x)
  BY <1>7 DEF Linked
<1>9. ~Linked(t)
  BY <1>7, RunningIsFree DEF IInv
<1>10. Deadline(t)'
  <2>1. CASE timeout = Infinite
    BY <1>4, <1>5, <2>1, TickTurn DEF Deadline, d, Ticks, Infinite, Past
  <2>2. CASE timeout # Infinite /\ timeout > 0
    <3>1. timeout \in Nat /\ d = (now + timeout) % TickSpace /\ left'[t] = timeout
      BY <1>1, <1>6, <2>2 DEF d, Infinite
    <3>2. d \in Ticks
      BY <1>2, <3>1, TickTurn DEF Ticks
    <3>3. d # Past
      BY <3>2, TickTurn DEF Ticks, Past
    <3> QED BY <1>4, <1>5, <1>7, <2>2, <3>1, <3>3 DEF Deadline, After
  <2>3. CASE timeout # Infinite /\ ~(timeout > 0)
    <3>1. timeout = 0 /\ left'[t] = 0
      BY <1>1, <1>6, <2>3
    <3>2. d = now
      BY <1>2, <3>1, TickTurn DEF d, Ticks, Infinite
    <3>3. now = After(now, 0) /\ 0 \in 0..(MaxLate - 1)
      BY <1>2, TickTurn, ClockBounds DEF After, Ticks
    <3>4. \E m \in 0..(MaxLate - 1) : now' = After(task'[t].deadline, m)
      BY <1>4, <1>5, <1>7, <3>2, <3>3
    <3> QED BY <3>1, <3>4 DEF Deadline, After
  <2> QED BY <2>1, <2>2, <2>3
<1>11. Timer(t)'
  BY <1>4, <1>5, <1>8, <1>9 DEF Timer, Settling
<1>12. ASSUME NEW x \in Tasks \ {t} PROVE Deadline(x)' /\ Timer(x)'
  BY <1>5, <1>7, <1>8, TimesKept
<1> QED BY <1>10, <1>11, <1>12 DEF Times

(* The time left as wait_event_timeout computes it is the caller's, unless *)
(* the deadline has passed: the difference is then infinite or too long.   *)
LEMMA RemainingIsLeft ==
  ASSUME IInv, Times, NEW t \in Tasks, task[t].deadline \in Ticks
  PROVE  /\ ReachedAt(now, task[t].deadline) => left[t] = 0
         /\ \/ Remaining(task[t].deadline) = left[t]
            \/ left[t] = 0 /\ Remaining(task[t].deadline) = Infinite
            \/ left[t] = 0 /\ Remaining(task[t].deadline) > LongestTimeout
<1> DEFINE d == task[t].deadline
<1>1. now \in Ticks /\ d \in Ticks /\ left[t] \in 0..MaxTimeout
  BY DEF IInv, TypeOK
<1>2. \/ left[t] > 0 /\ d = (now + left[t]) % TickSpace
      \/ left[t] = 0 /\ \E m \in 0..(MaxLate - 1) : now = (d + m) % TickSpace
  BY DEF Times, Deadline, After
<1> HIDE DEF d
<1>4. CASE left[t] > 0 /\ d = (now + left[t]) % TickSpace
  <2>1. d = IF now + left[t] < TickSpace THEN now + left[t] ELSE now + left[t] - TickSpace
    <3>1. left[t] \in Nat /\ left[t] < TickSpace
      BY <1>1, ClockBounds
    <3> QED BY <1>1, <1>4, <3>1, AfterIs DEF After
  <2>2. (now - d) % TickSpace = TickSpace - left[t]
    <3>1. now - d = 0 - left[t] \/ now - d = TickSpace - left[t]
      BY <1>1, ClockBounds, <2>1 DEF Ticks
    <3>2. /\ 0 - left[t] \in Int /\ TickSpace - left[t] \in Int /\ left[t] \in Int
          /\ left[t] < TickSpace
      BY <1>1, ClockBounds
    <3>3. (0 - left[t]) % TickSpace = TickSpace - left[t]
      BY <1>4, ClockBounds, <3>2, TickTurn
    <3>4. (TickSpace - left[t]) % TickSpace = TickSpace - left[t]
      BY <1>4, ClockBounds, <3>2, TickTurn
    <3> QED BY <3>1, <3>3, <3>4
  <2>3. (d - now) % TickSpace = left[t]
    <3>1. d - now = left[t] \/ d - now = left[t] - TickSpace
      BY <1>1, ClockBounds, <2>1 DEF Ticks
    <3>2. left[t] \in Int /\ left[t] - TickSpace \in Int /\ left[t] < TickSpace
      BY <1>1, ClockBounds
    <3> QED BY SMTT(30), <1>4, ClockBounds, <3>1, <3>2, TickTurn
  <2>4. ~ReachedAt(now, d)
    BY <1>1, ClockBounds, <2>2 DEF ReachedAt
  <2>5. left[t] # TickSpace - 1
    BY <1>1, ClockBounds
  <2>6. Remaining(d) = left[t]
    BY <2>3, <2>5 DEF Remaining, AsTimeout
  <2> QED BY <2>4, <2>6 DEF d
<1>5. CASE left[t] = 0 /\ \E m \in 0..(MaxLate - 1) : now = (d + m) % TickSpace
  <2>1. PICK m \in 0..(MaxLate - 1) : now = (d + m) % TickSpace
    BY <1>5
  <2>2. now = IF d + m < TickSpace THEN d + m ELSE d + m - TickSpace
    BY <1>1, ClockBounds, <2>1, TickTurn DEF Ticks
  <2>3. CASE m = 0
    <3>1. d - now = 0
      BY <1>1, <2>2, <2>3, ClockBounds DEF Ticks
    <3>2. (d - now) % TickSpace = 0 /\ TickSpace - 1 # 0
      BY <3>1, ClockBounds, TickTurn
    <3>3. Remaining(d) = 0
      BY <3>2 DEF Remaining, AsTimeout
    <3> QED BY <1>5, <3>3 DEF d
  <2>4. CASE m # 0
    <3>1. d - now = 0 - m \/ d - now = TickSpace - m
      BY <1>1, <2>2, ClockBounds DEF Ticks
    <3>2. /\ 0 - m \in Int /\ TickSpace - m \in Int /\ 0 - m < 0
          /\ 0 - TickSpace <= 0 - m /\ TickSpace - m < TickSpace /\ 0 <= TickSpace - m
      BY <2>4, ClockBounds
    <3>3. (0 - m) % TickSpace = TickSpace - m /\ (TickSpace - m) % TickSpace = TickSpace - m
      BY <3>2, ClockBounds, TickTurn
    <3>4. (d - now) % TickSpace = TickSpace - m
      BY <3>1, <3>3
    <3>5. TickSpace - m > LongestTimeout
      BY <2>4, ClockBounds DEF LongestTimeout
    <3>6. Remaining(d) = Infinite \/ Remaining(d) > LongestTimeout
      BY <3>4, <3>5 DEF Remaining, AsTimeout
    <3> QED BY <1>5, <3>6 DEF d
  <2> QED BY <2>3, <2>4
<1> QED BY <1>2, <1>4, <1>5

(* The loop looks at the queue: time does not pass. *)
LEMMA SnapshotTimes ==
  ASSUME IInv, Times, NEW t \in Tasks, Snapshot(t) PROVE Times'
<1>1. Own(t) /\ left' = left /\ now' = now
  BY SnapshotCases DEF IInv, Snapshot
<1>2. ~Linked(t)'
  BY <1>1, OwnReachable DEF IInv
<1>3. CASE task' = [task EXCEPT ![t] = Goes(t)]
  <2>1. /\ task'[t].at = "check" /\ task'[t].deadline = task[t].deadline
        /\ task'[t].reason = task[t].reason
    <3>1. task'[t] = Goes(t)
      BY <1>3 DEF IInv, TypeOK
    <3> QED BY <3>1, SnapshotCases DEF IInv
  <2>2. task[t].reason = "NONE"
    BY DEF Snapshot, Times, Timer
  <2>3. Deadline(t)'
    BY <1>1, <2>1 DEF Times, Deadline, After
  <2>4. Timer(t)'
    BY <1>2, <2>1, <2>2 DEF Timer
  <2> QED BY <1>1, <2>3, <2>4, OwnTimes
<1>4. CASE task'[t].at = "own" /\ task'[t].deadline = Infinite /\ task'[t].reason # "TIMEOUT"
  BY <1>1, <1>2, <1>4, TimesOutside, OwnTimes
<1> QED BY <1>3, <1>4, SnapshotCases DEF IInv

(* A look at the clock: what is passed on is at least what the caller has  *)
(* left.                                                                   *)
LEMMA SettlingTimes ==
  ASSUME IInv, Times, NEW t \in Tasks, NEW w \in TaskStates, cpu = t, Settling(t),
         w.at \in {"read", "block"}, w.queue = task[t].queue, w.seen = task[t].seen,
         w.at = "read" => w.deadline \in Ticks,
         w.deadline = task[t].deadline, w.reason = task[t].reason,
         w.at = "block" =>
           /\ w.timer = Infinite /\ w.deadline # Infinite => left[t] = 0
           /\ w.timer # Infinite =>
                w.timer \in left[t]..MaxTimeout \/ w.timer > LongestTimeout,
         task' = [task EXCEPT ![t] = w],
         UNCHANGED <<now, regVars, available, condition, fifo, active_waiters,
                     ready, cpu, burst, left>>
  PROVE  Times'
<1>1. Own(t) /\ task'[t] = w
  BY SettlingStep
<1>2. ~Linked(t)'
  BY <1>1, OwnReachable DEF IInv
<1>3. task[t].reason = "NONE"
  BY DEF Times, Timer
<1>4. Deadline(t)'
  BY <1>1 DEF Times, Deadline, After
<1>5. Timer(t)'
  BY <1>1, <1>2, <1>3 DEF Timer, Settling
<1> QED BY <1>1, <1>4, <1>5, OwnTimes

(* The first look at the clock. *)
LEMMA CheckTimes ==
  ASSUME IInv, Times, NEW t \in Tasks, CheckDeadline(t) PROVE Times'
<1>1. UNCHANGED <<now, regVars, available, condition, fifo, active_waiters,
                  ready, cpu, burst, left>>
  BY DEF CheckDeadline
<1>2. PICK w \in TaskStates :
           /\ cpu = t /\ Settling(t) /\ task' = [task EXCEPT ![t] = w]
           /\ w.queue = task[t].queue /\ w.seen = task[t].seen
           /\ w.deadline = task[t].deadline /\ w.reason = task[t].reason
           /\ \/ /\ w.at = "block" /\ w.timer = Infinite
                 /\ task[t].deadline = Infinite
              \/ w.at = "block" /\ w.timer = 0 /\ DeadlineReached(t)
              \/ w.at = "read" /\ task[t].deadline \in Ticks
  BY CheckCases DEF IInv
<1>3. DeadlineReached(t) => left[t] = 0
  BY RemainingIsLeft DEF DeadlineReached, Times, Deadline
<1>4. DeadlineReached(t) => 0 \in left[t]..MaxTimeout
  BY <1>3, ClockBounds
<1>5. w.at = "block" =>
           /\ w.timer = Infinite /\ w.deadline # Infinite => left[t] = 0
           /\ w.timer # Infinite =>
                w.timer \in left[t]..MaxTimeout \/ w.timer > LongestTimeout
  BY <1>2, <1>4 DEF Infinite
<1>6. w.at \in {"read", "block"} /\ (w.at = "read" => w.deadline \in Ticks)
  BY <1>2
<1> QED BY <1>1, <1>2, <1>5, <1>6, SettlingTimes

(* The second look. *)
LEMMA ReadTimes ==
  ASSUME IInv, Times, NEW t \in Tasks, ReadClock(t) PROVE Times'
<1>1. UNCHANGED <<now, regVars, available, condition, fifo, active_waiters,
                  ready, cpu, burst, left>>
  BY DEF ReadClock
<1>2. task[t].deadline \in Ticks /\ left[t] \in 0..MaxTimeout
  BY DEF ReadClock, IInv, Calls, TypeOK
<1>3. PICK w \in TaskStates :
           /\ cpu = t /\ Settling(t) /\ task' = [task EXCEPT ![t] = w]
           /\ w.queue = task[t].queue /\ w.seen = task[t].seen
           /\ w.deadline = task[t].deadline /\ w.reason = task[t].reason
           /\ w.at = "block" /\ w.timer = Remaining(task[t].deadline)
  BY <1>2, ReadCases DEF IInv
<1>4. left[t] \in left[t]..MaxTimeout /\ left[t] # Infinite
  BY <1>2, ClockBounds DEF Infinite
<1>5. /\ w.timer = Infinite /\ w.deadline # Infinite => left[t] = 0
      /\ w.timer # Infinite =>
           w.timer \in left[t]..MaxTimeout \/ w.timer > LongestTimeout
  BY <1>2, <1>3, <1>4, RemainingIsLeft
<1> QED BY <1>1, <1>3, <1>5, SettlingTimes

(* A timeout of zero ticks ends the wait only when no time is left. *)
LEMMA BlockTimes == ASSUME IInv, Times, NEW t \in Tasks, Block(t) PROVE Times'
<1>1. /\ task[t] \in TaskStates /\ task \in [Tasks -> TaskStates] /\ cpu = t
      /\ task[t].at = "block" /\ left[t] \in 0..MaxTimeout /\ now \in Ticks
      /\ task[t].queue \in Queues
  BY DEF Block, IInv, TypeOK, Calls
<1>2. /\ now' = now /\ left' = left
      /\ UNCHANGED <<regVars, available, condition>>
  BY DEF Block
<1>3. /\ task[t].reason = "NONE"
      /\ task[t].timer = Infinite /\ task[t].deadline # Infinite => left[t] = 0
      /\ task[t].timer # Infinite =>
           task[t].timer \in left[t]..MaxTimeout \/ task[t].timer > LongestTimeout
  BY <1>1 DEF Times, Timer, Settling
<1>0. /\ task[t].timer \in Ticks \cup {Infinite} /\ LongestTimeout \in Int
      /\ \A n \in Int : n <= LongestTimeout <=> ~(n > LongestTimeout)
  BY <1>1, ClockBounds DEF TaskStates, LongestTimeout
<1>4. ASSUME NEW r \in Reasons, Return(t, r), UNCHANGED <<fifo, active_waiters, cpu>>,
             r = "TIMEOUT" => left[t] = 0
      PROVE  Times'
  <2>1. /\ task' \in [Tasks -> TaskStates] /\ \A x \in Tasks \ {t} : task'[x] = task[x]
        /\ task'[t].at = "own" /\ task'[t].deadline = Infinite /\ task'[t].reason = r
    BY <1>4, ReturnStates DEF IInv
  <2>2. Own(t)
    BY <1>1, <1>2, <1>4, <2>1 DEF Own
  <2>3. ~Linked(t)'
    BY <2>2, OwnReachable DEF IInv
  <2> QED BY <1>2, <1>4, <2>1, <2>2, <2>3, TimesOutside, OwnTimes
<1>5. ASSUME task' = [task EXCEPT ![t].at = "loop", ![t].seen = 0, ![t].timer = Infinite],
             UNCHANGED <<fifo, active_waiters, cpu>>
      PROVE  Times'
  <2> DEFINE w == [task[t] EXCEPT !.at = "loop", !.seen = 0, !.timer = Infinite]
  <2>1. /\ w \in TaskStates /\ w.at = "loop" /\ w.reason = "NONE"
        /\ w.deadline = task[t].deadline
    BY <1>1, <1>3, AdvanceTypes DEF TaskStates
  <2>2. task' = [task EXCEPT ![t] = w]
    BY <1>1, <1>5 DEF TaskStates
  <2> HIDE DEF w
  <2>3. task'[t] = w /\ Own(t)
    BY <1>1, <1>2, <1>5, <2>1, <2>2 DEF Own
  <2>4. ~Linked(t)'
    BY <2>3, OwnReachable DEF IInv
  <2>5. Deadline(t)' /\ Timer(t)'
    BY <1>2, <2>1, <2>3, <2>4 DEF Times, Deadline, Timer, After, Settling
  <2> QED BY <1>2, <2>3, <2>5, OwnTimes
<1>6. ASSUME task[t].timer # 0, task[t].timer <= LongestTimeout,
             task' = [task EXCEPT ![t].at = "blocked", ![t].seen = 0,
                                  ![t].timer = EntryDeadline(@),
                                  ![t].deadline = KeptDeadline(t)],
             Enlist(task[t].queue, t)
      PROVE  Times'
  <2> DEFINE w == [task[t] EXCEPT !.at = "blocked", !.seen = 0,
                                  !.timer = EntryDeadline(task[t].timer),
                                  !.deadline = KeptDeadline(t)]
  <2>1. /\ w.at = "blocked" /\ w.reason = "NONE" /\ w.deadline = KeptDeadline(t)
        /\ w.timer = EntryDeadline(task[t].timer)
    BY <1>1, <1>3 DEF TaskStates
  <2>2. task' = [task EXCEPT ![t] = w]
    BY <1>1, <1>6 DEF TaskStates
  <2> HIDE DEF w
  <2>3. task'[t] = w /\ \A x \in Tasks \ {t} : task'[x] = task[x]
    <3>1. ASSUME NEW f, NEW g, f \in [Tasks -> TaskStates], g = [f EXCEPT ![t] = w]
          PROVE  g[t] = w /\ \A x \in Tasks \ {t} : g[x] = f[x]
      BY <3>1
    <3> QED BY <1>1, <2>2, <3>1, Zenon
  <2>4. ASSUME NEW x \in Tasks \ {t}, Linked(x)' PROVE Linked(x)
    <3> DEFINE q == task[t].queue
    <3>1. fifo \in [Queues -> Seq(Tasks)] /\ fifo[q] \in Seq(Tasks)
          /\ fifo' = [fifo EXCEPT ![q] = Append(@, t)]
      BY <1>1, <1>6 DEF IInv, TypeOK, Enlist
    <3> HIDE DEF q
    <3>2. \A r \in Queues : x \in Members(fifo'[r]) => x \in Members(fifo[r])
      BY <3>1, AppendMembers
    <3> QED BY <2>4, <3>2 DEF Linked
  <2>5. Deadline(t)'
    <3>1. CASE KeptDeadline(t) = task[t].deadline
      BY <1>2, <2>1, <2>3, <3>1 DEF Times, Deadline, After
    <3>2. CASE KeptDeadline(t) = Past /\ left[t] = 0
      BY <1>2, <2>1, <2>3, <3>2, TickTurn DEF Deadline, Ticks, Past
    <3> QED BY <1>3, <3>1, <3>2 DEF KeptDeadline
  <2>6. task'[t].timer # Infinite =>
          \E d \in 1..MaxTimeout : task'[t].timer = After(now', d) /\ left'[t] <= d
    <3>1. SUFFICES ASSUME task'[t].timer # Infinite
                   PROVE  \E d \in 1..MaxTimeout :
                            task'[t].timer = After(now', d) /\ left'[t] <= d
      OBVIOUS
    <3>2. task[t].timer # Infinite
      BY <2>1, <2>3, <3>1 DEF EntryDeadline
    <3>3. task[t].timer \in 1..MaxTimeout /\ left[t] <= task[t].timer
      BY <1>0, <1>1, <1>3, <1>6, <3>2, ClockBounds DEF Ticks
    <3>4. task'[t].timer = After(now, task[t].timer)
      BY <2>1, <2>3, <3>2 DEF EntryDeadline, After
    <3> QED BY <1>2, <3>3, <3>4
  <2>7. Timer(t)'
    BY <2>1, <2>3, <2>6 DEF Timer, After, Settling
  <2> QED BY <1>2, <2>3, <2>4, <2>5, <2>7, TimesKept DEF Times
<1>7. task[t].timer = 0 /\ task[t].timer <= LongestTimeout => left[t] = 0
  BY <1>0, <1>1, <1>3, ClockBounds DEF Infinite
<1>8. {"DEVICE_UNAVAILABLE", "TIMEOUT", "ERR_INVALID"} \subseteq Reasons
  BY DEF Reasons
<1> QED BY <1>4, <1>5, <1>6, <1>7, <1>8 DEF Block

(* A task that resumes by timeout had no time left. *)
LEMMA ResumeTimes == ASSUME IInv, Times, NEW t \in Tasks, Resume(t) PROVE Times'
<1>1. /\ task[t] \in TaskStates /\ task \in [Tasks -> TaskStates] /\ cpu = t
      /\ task[t].reason \in Reasons
  BY DEF Resume, IInv, TypeOK, TaskStates
<1>2. now' = now /\ left' = left
  BY DEF Resume
<1>3. CASE task[t].reason # "EVENT"
  <2>1. /\ task' \in [Tasks -> TaskStates] /\ \A x \in Tasks \ {t} : task'[x] = task[x]
        /\ task'[t].at = "own" /\ task'[t].deadline = Infinite
        /\ task'[t].reason = task[t].reason
    BY <1>1, <1>3, ReturnStates DEF IInv, Resume
  <2>2. Own(t)
    BY <2>1 DEF Own, Resume
  <2>3. ~Linked(t)'
    BY <2>2, OwnReachable DEF IInv
  <2>4. task'[t].reason = "TIMEOUT" => left'[t] = 0
    BY <1>2, <2>1 DEF Times, Timer
  <2> QED BY <1>2, <2>1, <2>2, <2>3, <2>4, TimesOutside, OwnTimes
<1>4. CASE task[t].reason = "EVENT"
  <2> DEFINE w == [task[t] EXCEPT !.at = "loop", !.reason = "NONE"]
  <2>1. /\ w \in TaskStates /\ w.at = "loop" /\ w.reason = "NONE"
        /\ w.deadline = task[t].deadline
    BY <1>1 DEF TaskStates, Reasons
  <2>2. task' = [task EXCEPT ![t] = w]
    BY <1>1, <1>4 DEF Resume, TaskStates
  <2> HIDE DEF w
  <2>3. task'[t] = w /\ Own(t)
    BY <1>1, <2>1, <2>2 DEF Own, Resume
  <2>4. ~Linked(t)'
    BY <2>3, OwnReachable DEF IInv
  <2>5. Deadline(t)' /\ Timer(t)'
    BY <1>2, <2>1, <2>3, <2>4 DEF Times, Deadline, Timer, After, Settling
  <2> QED BY <1>2, <2>3, <2>5, OwnTimes
<1> QED BY <1>3, <1>4

(* The wakes and the cancellation. *)
LEMMA LeaveTimes ==
  ASSUME IInv, Times,
         \/ \E q \in Queues, mode \in Modes : Interrupt(q, mode)
         \/ \E t \in Tasks : CancelWait(t)
         \/ \E q \in Queues : SetAvailable(q, FALSE)
  PROVE  Times'
<1>1. ASSUME NEW q \in Queues, NEW ts, NEW r \in Reasons \ {"TIMEOUT"},
             ts \subseteq Members(fifo[q]), Unlink(q, ts, r), now' = now, left' = left
      PROVE  Times'
  <2>1. Leave(ts)
    BY <1>1, LeaveOne DEF IInv, Unlink
  <2>2. \A x \in Tasks : task'[x] = Woken(ts, r)[x]
    BY <1>1 DEF Unlink
  <2> QED BY <1>1, <2>1, <2>2, WokenTimes DEF IInv, Times
<1>2. {"EVENT", "CANCELLED", "DEVICE_UNAVAILABLE"} \subseteq Reasons \ {"TIMEOUT"}
  BY DEF Reasons
<1>3. ASSUME NEW q \in Queues, NEW mode \in Modes, Interrupt(q, mode) PROVE Times'
  <2>1. Chosen(q, mode) \subseteq Members(fifo[q])
    BY ChosenLeave DEF IInv
  <2> QED BY <1>1, <1>2, <1>3, <2>1 DEF Interrupt, Wake
<1>4. ASSUME NEW t \in Tasks, CancelWait(t) PROVE Times'
  <2>1. task[t].queue \in Queues /\ {t} \subseteq Members(fifo[task[t].queue])
    BY <1>4 DEF CancelWait, Linked, IInv, Reachable, Sleepers
  <2> QED BY <1>1, <1>2, <1>4, <2>1 DEF CancelWait
<1>5. ASSUME NEW q \in Queues, SetAvailable(q, FALSE) PROVE Times'
  <2>1. Chosen(q, "ALL") \subseteq Members(fifo[q])
    BY ChosenLeave DEF IInv, Modes
  <2> QED BY <1>1, <1>2, <1>5, <2>1 DEF SetAvailable, Wake
<1> QED BY <1>3, <1>4, <1>5

(* Time does not pass while a task wakes others. *)
LEMMA PublishWakeTimes ==
  ASSUME IInv, Times, NEW t \in Tasks, NEW mode \in Modes, PublishWake(t, mode)
  PROVE  Times'
<1> DEFINE q == task[t].queue
           ts == Chosen(q, mode)
<1>1. q \in Queues /\ cpu = t /\ ~Linked(t)
  BY RunningIsFree DEF PublishWake, Calls, IInv
<1>2. ts \subseteq Members(fifo[q])
  BY <1>1, ChosenLeave DEF IInv
<1>3. /\ fifo' = [fifo EXCEPT ![q] = Without(@, ts)]
      /\ active_waiters' = active_waiters - Cardinality(ts)
      /\ task' = [Woken(ts, "EVENT") EXCEPT ![t] = Idle]
      /\ now' = now /\ left' = left
  BY DEF PublishWake
<1> HIDE DEF q, ts
<1>4. Leave(ts) /\ "EVENT" \in Reasons \ {"TIMEOUT"}
  BY <1>1, <1>2, <1>3, LeaveOne DEF IInv, Reasons
<1>5. task'[t] = Idle /\ \A x \in Tasks \ {t} : task'[x] = Woken(ts, "EVENT")[x]
  <2>1. Woken(ts, "EVENT") \in [Tasks -> TaskStates]
    BY <1>4, WokenTypes DEF IInv
  <2> HIDE DEF Idle
  <2> QED BY <1>3, <2>1
<1>6. ~Linked(t)'
  BY <1>1, <1>4, LeaveLinked DEF IInv
<1>7. Deadline(t)' /\ Timer(t)'
  BY <1>5, <1>6, TimesOutside DEF Idle
<1>8. ASSUME NEW x \in Tasks \ {t} PROVE Deadline(x)' /\ Timer(x)'
  BY <1>3, <1>4, <1>5, WokenTimes DEF IInv
<1> QED BY <1>7, <1>8 DEF Times

(* The clock wakes only those whose time is over. *)
LEMMA TickTimes == ASSUME IInv, Times, Tick PROVE Times'
<1> DEFINE c == (now + 1) % TickSpace
           ts == Expired(c)
<1>1. /\ fifo' = [q \in Queues |-> Without(fifo[q], ts)]
      /\ active_waiters' = active_waiters - Cardinality(ts)
      /\ task' = Woken(ts, "TIMEOUT") /\ "TIMEOUT" \in Reasons /\ now' = c
      /\ left' = [t \in Tasks |-> IF left[t] > 0 THEN left[t] - 1 ELSE 0]
      /\ \A t \in Tasks : ~Late(t, c, IF Settling(t) THEN MaxStall ELSE MaxLate)
  BY DEF Tick, Reasons
<1>2. ts \subseteq LinkedTasks
  BY DEF Expired, LinkedTasks
<1>3. c = After(now, 1) /\ now \in Ticks
  BY DEF After, IInv, TypeOK
<1>4. \A t \in Tasks : t \in ts <=> /\ Linked(t) /\ task[t].timer # Infinite
                                    /\ ReachedAt(c, task[t].timer)
  BY DEF Expired
<1> HIDE DEF c, ts
<1>5. Leave(ts)
  BY <1>1, <1>2, LeaveAll DEF IInv
<1> SUFFICES ASSUME NEW t \in Tasks PROVE Deadline(t)' /\ Timer(t)'
  BY DEF Times
<1>6. /\ task'[t].at = task[t].at /\ task'[t].deadline = task[t].deadline
      /\ t \notin ts => task'[t] = task[t]
      /\ t \in ts => task'[t].reason = "TIMEOUT"
      /\ Linked(t)' <=> Linked(t) /\ t \notin ts
  BY <1>1, <1>5, WokenTypes, LeaveLinked DEF IInv
<1>7. /\ left[t] \in 0..MaxTimeout /\ MaxTimeout \in Nat
      /\ left'[t] = IF left[t] > 0 THEN left[t] - 1 ELSE 0
  BY <1>1, ClockAssumption DEF IInv, TypeOK
<1>8. Deadline(t)'
  <2>0. task[t].deadline = Past => left'[t] = 0
    BY <1>7 DEF Times, Deadline
  <2> SUFFICES ASSUME task[t].deadline \in Ticks
               PROVE  \/ left'[t] > 0 /\ task[t].deadline = After(c, left'[t])
                      \/ /\ left'[t] = 0
                         /\ \E m \in 0..(MaxLate - 1) : c = After(task[t].deadline, m)
    BY <1>1, <1>6, <2>0 DEF Deadline, After
  <2> DEFINE d == task[t].deadline
  <2>1. d \in Ticks
    OBVIOUS
  <2>2. /\ MaxLate \in Nat /\ MaxLate > 0 /\ MaxTimeout < TickSpace /\ MaxLate < TickSpace
        /\ TickSpace \in Nat /\ TickSpace \div 2 > 0
    BY ClockBounds
  <2>3. CASE left[t] > 1 /\ d = After(now, left[t])
    <3>1. left'[t] = left[t] - 1 /\ left'[t] \in Nat /\ left'[t] > 0
          /\ left'[t] + 1 = left[t] /\ left'[t] + 1 < TickSpace
      BY <1>7, <2>2, <2>3
    <3>2. After(c, left'[t]) = After(now, left'[t] + 1)
      BY <1>3, <3>1, AfterNext
    <3> QED BY <2>3, <3>1, <3>2
  <2>4. CASE left[t] = 1 /\ d = After(now, left[t])
    <3>1. left'[t] = 0 /\ c = d
      BY <1>3, <1>7, <2>4
    <3>2. d = After(d, 0)
      BY <2>1, <2>2, AfterIs DEF Ticks
    <3>3. 0 \in 0..(MaxLate - 1)
      BY <2>2
    <3> QED BY <3>1, <3>2, <3>3
  <2>5. CASE left[t] = 0 /\ \E m \in 0..(MaxLate - 1) : now = After(d, m)
    <3>1. PICK m \in 0..(MaxLate - 1) : now = After(d, m)
      BY <2>5
    <3>2. m \in Nat /\ m + 1 < TickSpace /\ m + 1 <= MaxLate
      BY <2>2, <3>1
    <3>3. c = After(d, m + 1)
      BY <1>3, <2>1, <3>1, <3>2, AfterNext
    <3>4. m + 1 # MaxLate
      <4> SUFFICES ASSUME m + 1 = MaxLate PROVE FALSE
        OBVIOUS
      <4>1. c = After(d, MaxLate) /\ c \in Ticks
        BY <2>1, <2>2, <3>3, AfterIs
      <4>2. PICK k \in 1..MaxLate : ~ReachedAt(c, After(d, k))
        <5>1. MaxStall \in 1..MaxLate /\ MaxLate \in 1..MaxLate
          BY ClockBounds
        <5> QED BY <1>1, <5>1 DEF Late, After
      <4> QED BY <2>1, <4>1, <4>2, LateIsReached
    <3>5. m + 1 \in 0..(MaxLate - 1)
      BY <2>2, <3>2, <3>4
    <3> QED BY <1>7, <2>5, <3>3, <3>5
  <2>6. \/ left[t] > 0 /\ d = After(now, left[t])
        \/ left[t] = 0 /\ \E m \in 0..(MaxLate - 1) : now = After(d, m)
    BY DEF Times, Deadline
  <2> QED BY <1>7, <2>3, <2>4, <2>5, <2>6
<1>9. ASSUME Linked(t), task[t].timer # Infinite
      PROVE  \E d \in 1..MaxTimeout : /\ task[t].timer = After(now, d) /\ left[t] <= d
                                      /\ t \in ts <=> d = 1
  <2>1. PICK d \in 1..MaxTimeout : task[t].timer = After(now, d) /\ left[t] <= d
    BY <1>9 DEF Times, Timer
  <2>2. ReachedAt(c, task[t].timer) <=> d = 1
    BY <1>3, <2>1, ReachedNext
  <2> QED BY <1>4, <1>9, <2>1, <2>2
<1>10. ASSUME Linked(t)', task'[t].timer # Infinite
       PROVE  \E d \in 1..MaxTimeout : task'[t].timer = After(now', d) /\ left'[t] <= d
  <2>1. Linked(t) /\ t \notin ts /\ task'[t] = task[t]
    BY <1>6, <1>10
  <2>2. PICK d \in 1..MaxTimeout : /\ task[t].timer = After(now, d) /\ left[t] <= d
                                   /\ t \in ts <=> d = 1
    BY <1>9, <1>10, <2>1
  <2>3. d - 1 \in 1..MaxTimeout /\ d - 1 \in Nat /\ (d - 1) + 1 = d
        /\ d < TickSpace /\ left'[t] <= d - 1
    BY <1>7, <2>1, <2>2, ClockBounds
  <2>4. After(c, d - 1) = After(now, (d - 1) + 1)
    BY <1>3, <2>3, AfterNext
  <2> QED BY <1>1, <2>1, <2>2, <2>3, <2>4
<1>11. task'[t].reason = "TIMEOUT" => left'[t] = 0
  <2>1. CASE t \in ts
    <3>1. Linked(t) /\ task[t].timer # Infinite
      BY <1>4, <2>1
    <3>2. left[t] <= 1
      BY <1>9, <2>1, <3>1
    <3> QED BY <1>7, <3>2
  <2>2. CASE t \notin ts
    BY <1>6, <1>7, <2>2 DEF Times, Timer
  <2> QED BY <2>1, <2>2
<1>12. task[t].at = "loop" \/ Settling(t) => t \notin ts
  BY <1>5 DEF Leave, LinkedTasks, Linked, IInv, Reachable, Sleepers, Settling
<1>13. task'[t].at = "block" =>
         /\ task'[t].timer = Infinite /\ task'[t].deadline # Infinite => left'[t] = 0
         /\ task'[t].timer # Infinite =>
              task'[t].timer \in left'[t]..MaxTimeout \/ task'[t].timer > LongestTimeout
  <2> SUFFICES ASSUME task'[t].at = "block"
               PROVE  /\ task'[t].timer = Infinite /\ task'[t].deadline # Infinite
                            => left'[t] = 0
                      /\ task'[t].timer # Infinite =>
                           \/ task'[t].timer \in left'[t]..MaxTimeout
                           \/ task'[t].timer > LongestTimeout
    OBVIOUS
  <2>1. /\ task'[t] = task[t] /\ task[t].at = "block"
        /\ task[t].timer = Infinite /\ task[t].deadline # Infinite => left[t] = 0
        /\ task[t].timer # Infinite =>
              task[t].timer \in left[t]..MaxTimeout \/ task[t].timer > LongestTimeout
    BY <1>6, <1>12 DEF Times, Timer, Settling
  <2> QED BY <1>7, <2>1
<1>14. task'[t].at \in {"own", "waking"} => task'[t].deadline = Infinite
  BY <1>6 DEF Times, Timer
<1>15. task'[t].at = "loop" \/ Settling(t)' => task'[t].reason = "NONE"
  BY <1>6, <1>12 DEF Times, Timer, Settling
<1>16. Linked(t)' => task'[t].reason = "NONE"
  BY <1>6 DEF Times, Timer
<1>17. Timer(t)'
  BY <1>10, <1>11, <1>13, <1>14, <1>15, <1>16 DEF Timer, After
<1> QED BY <1>8, <1>17
-----------------------------------------------------------------------------
(* Nobody waits. *)
LEMMA InitTimes == Init => Times
<1> SUFFICES ASSUME Init, NEW t \in Tasks PROVE Deadline(t) /\ Timer(t)
  BY DEF Times
<1>1. task[t] = Idle /\ ~Linked(t)
  BY DEF Init, Linked, Members
<1> QED BY <1>1, TickTurn DEF Idle, Deadline, Timer, Settling, Ticks, Infinite, Past

(* The caller of a wait has made use of its result. *)
LEMMA YieldTimes == ASSUME IInv, Times, YieldCpu PROVE Times'
<1>1. PICK t \in Tasks : t = cpu
  BY DEF YieldCpu, IInv, TypeOK
<1>2. /\ task \in [Tasks -> TaskStates] /\ ~Linked(t)
      /\ now' = now /\ left' = left /\ fifo' = fifo
  BY <1>1, RunningIsFree DEF YieldCpu, IInv, TypeOK
<1>3. \A x \in Tasks : Linked(x)' <=> Linked(x)
  BY <1>2 DEF Linked
<1> HIDE DEF Idle
<1>4. task'[t] = Idle /\ \A x \in Tasks \ {t} : task'[x] = task[x]
  BY <1>1, <1>2 DEF YieldCpu
<1>5. Idle.at = "own" /\ Idle.deadline = Infinite /\ Idle.reason = "NONE"
  BY DEF Idle
<1>6. Deadline(t)' /\ Timer(t)'
  BY <1>2, <1>3, <1>4, <1>5, TimesOutside
<1>7. ASSUME NEW x \in Tasks \ {t} PROVE Deadline(x)' /\ Timer(x)'
  BY <1>2, <1>3, <1>4, TimesKept
<1> QED BY <1>6, <1>7 DEF Times

(* Every step keeps the times. *)
LEMMA NextTimes == IInv /\ Times /\ [Next]_vars => Times'
<1> SUFFICES ASSUME IInv, Times, [Next]_vars PROVE Times'
  OBVIOUS
<1>1. ASSUME UNCHANGED <<now, fifo, task, left>> PROVE Times'
  <2>1. \A t \in Tasks : Linked(t)' <=> Linked(t)
    BY <1>1 DEF Linked
  <2> QED BY <1>1, <2>1, TimesKept DEF Times
<1>2. CASE UNCHANGED vars
  BY <1>1, <1>2 DEF vars
<1>3. ASSUME NEW t \in Tasks, Dispatch(t) \/ TaskStep(t) \/ CancelWait(t) PROVE Times'
  <2>1. CASE Dispatch(t)
    BY <1>1, <2>1 DEF Dispatch
  <2>2. CASE TaskStep(t)
    BY <2>2, PublishTimes, PublishWakeTimes, WaitEventTimes, SnapshotTimes, CheckTimes,
       ReadTimes, BlockTimes, ResumeTimes DEF TaskStep, CallStep
  <2>3. CASE CancelWait(t)
    BY <2>3, LeaveTimes
  <2> QED BY <1>3, <2>1, <2>2, <2>3
<1>4. CASE YieldCpu
  BY <1>4, YieldTimes
<1>5. ASSUME NEW q \in Queues, Manage(q) PROVE Times'
  <2>1. CASE InitQueue(q) \/ ResetQueue(q) \/ SetAvailable(q, TRUE)
    BY <1>1, <2>1 DEF InitQueue, ResetQueue, SetAvailable
  <2>2. CASE SetAvailable(q, FALSE)
    BY <2>2, LeaveTimes
  <2> QED BY <1>5, <2>1, <2>2 DEF Manage
<1> QED BY <1>2, <1>3, <1>4, <1>5, TickTimes, LeaveTimes DEF Next

(* A wait reports TIMEOUT only when the ticks its caller asked for have    *)
(* passed, for every timeout, every width of the clock that is more than   *)
(* twice the longest timeout, and however often the wait was woken and     *)
(* went to sleep again: the deadline is kept and only what remains of it   *)
(* is passed to the next wait_queue_block.                                 *)
THEOREM TimeoutsAreNotEarly == Spec => NoEarlyTimeout
<1>1. Spec => []Times
  BY InitTimes, NextTimes, WaitInvariant, PTL DEF Spec
<1>2. Times' => [\A t \in Tasks :
         task[t].at \in {"block", "blocked"} /\ task'[t].at = "own"
         /\ task'[t].reason = "TIMEOUT" => left'[t] = 0]_vars
  BY DEF Times, Timer
<1> QED BY <1>1, <1>2, PTL DEF NoEarlyTimeout
=============================================================================
