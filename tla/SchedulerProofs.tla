--------------------------- MODULE SchedulerProofs ---------------------------
(***************************************************************************)
(* Theorems about processes and their scheduler, for every size of the     *)
(* process table and every length of sleep.                                *)
(***************************************************************************)
EXTENDS Scheduler, KernelListsProofs

(* What PidsArePartitioned says beyond the types, with the fact that makes *)
(* it inductive: a process has a PID of the pool, never Idle's.            *)
Pids ==
  /\ \A p \in Others : state[p] # "UNUSED" => pid[p] \in Others
  /\ \A p, q \in Others :
       state[p] # "UNUSED" /\ state[q] # "UNUSED" /\ pid[p] = pid[q] => p = q
  /\ Distinct(free_pids)
  /\ \A q \in Others :
       q \in Members(free_pids) <=> \A p \in Others : state[p] # "UNUSED" => pid[p] # q

(* The wait queue and the flags of the processes agree. *)
Links ==
  /\ Distinct(fifo)
  /\ \A p \in Slots : wait_active[p] <=> p \in Members(fifo)

Waits ==
  /\ \A p \in Slots : wait_active[p] => state[p] = "BLOCKED"
  /\ \A p \in Others :
       state[p] = "BLOCKED" /\ ~user[p] => wait_ticks[p] > 0 \/ wait_active[p]
  /\ state[0] \in {"READY", "RUNNING"} /\ ~user[0] /\ pid[0] = 0

(* A slot in use has an identity, and only such a slot has an end pending. *)
Identities ==
  \A p \in Slots :
    /\ state[p] # "UNUSED" => generation[p] \in 1..MaxGeneration
    /\ cancel_pending[p] => state[p] # "UNUSED"

IInv ==
  /\ TypeOK /\ Pids /\ Links /\ Waits /\ Identities
  /\ CpuOnLiveProcess /\ EndsAreRequested

(* How far a slot is behind the last one chosen, in elections. *)
Lag(p) == IF p > last_scheduled_idx THEN p - last_scheduled_idx
          ELSE p - last_scheduled_idx + (N - 1)

(* The elections lost by a process are paid for with places in the turn. *)
Turn == \A p \in Others : overtaken[p] + Lag(p) <= N - 1
-----------------------------------------------------------------------------
(* The round robin. *)
LEMMA PoolTurn ==
  \A x \in Int : 0 <= x /\ x < 2 * (N - 1) =>
     x % (N - 1) = IF x < N - 1 THEN x ELSE x - (N - 1)
<1> DEFINE M == N - 1
<1>1. M \in Nat /\ M > 0
  BY NAssumption
<1> HIDE DEF M
<1>2. \A x \in Int : 0 <= x /\ x < M => x % M = x
  BY <1>1, Z3
<1>3. \A x \in Int : M <= x /\ x < 2 * M => x % M = x - M
  BY <1>1, Z3
<1> QED BY <1>1, <1>2, <1>3 DEF M

(* The distance of the election is the lag, from 1 to N - 1. *)
LEMMA DistanceIsLag ==
  ASSUME last_scheduled_idx \in Others
  PROVE  \A p \in Others : Distance(p) = Lag(p) /\ Distance(p) \in 1..(N - 1)
<1> USE NAssumption DEF Others
<1>1. \A k \in 1..(N - 1) :
         Candidate(k) = IF last_scheduled_idx + k < N THEN last_scheduled_idx + k
                        ELSE last_scheduled_idx + k - (N - 1)
  <2> TAKE k \in 1..(N - 1)
  <2> DEFINE x == last_scheduled_idx - 1 + k
  <2>1. x \in Int /\ 0 <= x /\ x < 2 * (N - 1)
    OBVIOUS
  <2>2. x % (N - 1) = IF x < N - 1 THEN x ELSE x - (N - 1)
    <3> HIDE DEF x
    <3> QED BY <2>1, PoolTurn
  <2> QED BY <2>1, <2>2 DEF Candidate
<1>2. ASSUME NEW p \in Others
      PROVE  Distance(p) = Lag(p) /\ Distance(p) \in 1..(N - 1)
  <2>1. Lag(p) \in 1..(N - 1)
    BY DEF Lag
  <2>2. \A k \in 1..(N - 1) : Candidate(k) = p <=> k = Lag(p)
    BY <1>1 DEF Lag
  <2> QED BY <2>1, <2>2 DEF Distance
<1> QED BY <1>2

(* An election has a winner, the READY process that is next in turn. *)
LEMMA NextReadyIsNext ==
  ASSUME last_scheduled_idx \in Others, NEW st, ReadySlots(st) # {}
  PROVE  /\ NextReady(st) \in ReadySlots(st)
         /\ \A q \in ReadySlots(st) : Lag(NextReady(st)) <= Lag(q)
<1> DEFINE D == {Distance(q) : q \in ReadySlots(st)}
<1>1. \A q \in ReadySlots(st) : Distance(q) = Lag(q) /\ Distance(q) \in Nat
  BY DistanceIsLag DEF ReadySlots
<1>2. D \in SUBSET Nat /\ D # {}
  BY <1>1
<1>3. \E d \in D : \A e \in D : d <= e
  <2> HIDE DEF D
  <2> QED BY <1>2, LeastNumber
<1>4. \E p \in ReadySlots(st) : \A q \in ReadySlots(st) : Distance(p) <= Distance(q)
  BY <1>3
<1>5. /\ NextReady(st) \in ReadySlots(st)
      /\ \A q \in ReadySlots(st) : Distance(NextReady(st)) <= Distance(q)
  BY <1>4 DEF NextReady
<1> QED BY <1>1, <1>5

(* The slot elected is READY, is the current one, or is the idle process. *)
LEMMA SelectNextIsElectable ==
  ASSUME last_scheduled_idx \in Others, current \in Slots, NEW st
  PROVE  /\ SelectNext(st) \in Slots
         /\ \/ SelectNext(st) \in Others /\ st[SelectNext(st)] = "READY"
            \/ SelectNext(st) = current /\ st[current] = "RUNNING"
            \/ SelectNext(st) = 0
<1>1. Others \subseteq Slots /\ 0 \in Slots
  BY NAssumption DEF Others, Slots
<1>2. CASE ReadySlots(st) # {}
  <2>1. NextReady(st) \in ReadySlots(st)
    BY <1>2, NextReadyIsNext
  <2> QED BY <1>1, <1>2, <2>1 DEF SelectNext, ReadySlots
<1>3. CASE ReadySlots(st) = {}
  BY <1>1, <1>3 DEF SelectNext
<1> QED BY <1>2, <1>3

-----------------------------------------------------------------------------
(* The parts of the invariant that a step leaves alone because it leaves   *)
(* their variables alone.                                                  *)
LEMMA PidsKept ==
  ASSUME Pids, UNCHANGED <<pid, free_pids>>,
         \A p \in Others : state'[p] = "UNUSED" <=> state[p] = "UNUSED"
  PROVE  Pids'
BY DEF Pids

(* A step that leaves the queue alone. *)
LEMMA LinksKept ==
  ASSUME Links, UNCHANGED <<fifo, wait_active>>
  PROVE  Links'
BY DEF Links

(* Unlinking the processes of ws. *)
LEMMA LinksWithout ==
  ASSUME TypeOK, Links, NEW ws, fifo' = Without(fifo, ws),
         wait_active' = [p \in Slots |-> p \notin ws /\ wait_active[p]]
  PROVE  Links' /\ fifo' \in Seq(Slots) /\ wait_active' \in [Slots -> BOOLEAN]
<1>1. fifo \in Seq(Slots)
  BY DEF TypeOK
<1>2. /\ Without(fifo, ws) \in Seq(Slots)
      /\ Members(Without(fifo, ws)) = Members(fifo) \ ws
      /\ Distinct(fifo) => Distinct(Without(fifo, ws))
  BY <1>1, WithoutMembers
<1> QED BY <1>2 DEF Links, TypeOK

(* The queue holds slots of the table. *)
LEMMA MembersAreSlots ==
  ASSUME TypeOK PROVE Members(fifo) \subseteq Slots
BY DEF TypeOK, Members
(* Slot 0 is the idle process. *)
LEMMA SlotSets ==
  0 \in Slots /\ 0 \notin Others /\ \A p \in Slots : p \in Others <=> p # 0
BY NAssumption DEF Slots, Others

(* The other slots are slots. *)
LEMMA OthersAreSlots == Others \subseteq Slots
BY NAssumption DEF Slots, Others

-----------------------------------------------------------------------------
(* process_init. *)
LEMMA InitIInv == Init => IInv
<1> SUFFICES ASSUME Init PROVE IInv
  OBVIOUS
<1> USE NAssumption, MaxTicksAssumption, MaxGenerationAssumption
<1>1. 0 \in Slots /\ N - 1 \in Others /\ Others \subseteq Slots /\ 0 \notin Others
  BY DEF Slots, Others
<1>2. /\ free_pids \in Seq(Others) /\ DOMAIN free_pids = Others
      /\ \A i \in Others : free_pids[i] = N - i
  <2>1. free_pids \in [1..(N - 1) -> Others]
    BY DEF Init, Others
  <2>2. N - 1 \in Nat
    OBVIOUS
  <2> QED BY <2>1, <2>2 DEF Init, Others
<1>3. TypeOK
  <2>1. fifo \in Seq(Slots)
    BY DEF Init
  <2>2. generation \in [Slots -> 0..MaxGeneration] /\ identities \in 1..MaxGeneration
    BY DEF Init
  <2>3. wait_ticks \in [Slots -> 0..MaxTicks] /\ overtaken \in [Slots -> Nat]
    BY DEF Init
  <2> QED BY <1>1, <1>2, <2>1, <2>2, <2>3 DEF Init, TypeOK, States
<1>4. Pids
  <2>1. \A p \in Others : state[p] = "UNUSED"
    BY <1>1 DEF Init
  <2>2. Distinct(free_pids)
    BY <1>2 DEF Distinct, Others
  <2>3. \A q \in Others : q \in Members(free_pids)
    <3> TAKE q \in Others
    <3>1. N - q \in Others /\ N - (N - q) = q
      BY DEF Others
    <3> QED BY <1>2, <3>1 DEF Members
  <2> QED BY <2>1, <2>2, <2>3 DEF Pids
<1>5. Links
  BY DEF Init, Links, Distinct, Members
<1>6. Waits
  BY <1>1 DEF Init, Waits
<1>7. Identities /\ EndsAreRequested
  BY <1>1 DEF Init, Identities, EndsAreRequested
<1>8. CpuOnLiveProcess
  BY <1>1 DEF Init, CpuOnLiveProcess
<1> QED BY <1>3, <1>4, <1>5, <1>6, <1>7, <1>8 DEF IInv

(* process_block and process_wait: the current process goes to sleep. *)
LEMMA BlockKeepsIInv ==
  ASSUME IInv, NEW t \in 1..MaxTicks, Block(t)
  PROVE  IInv'
<1> USE NAssumption, MaxTicksAssumption DEF IInv
<1>1. /\ current \in Slots /\ state \in [Slots -> States]
      /\ state'= [state EXCEPT ![current] = "BLOCKED"] /\ state[current] = "RUNNING"
  BY DEF TypeOK, Block
<1>2. TypeOK'
  BY DEF Block, TypeOK, States, poolVars
<1>3. Pids'
  BY <1>1, PidsKept DEF Block, poolVars, Others, Slots
<1>4. ~wait_active[current]
  BY <1>1 DEF Waits
<1>5. wait_active' = wait_active
  BY <1>4 DEF Block, TypeOK
<1>6. Links'
  BY <1>5, LinksKept DEF Block
<1>7. Waits'
  <2>1. /\ UNCHANGED <<user, pid>> /\ current # 0
        /\ \A p \in Slots : p # current => state'[p] = state[p] /\ wait_ticks'[p] = wait_ticks[p]
        /\ state'[current] = "BLOCKED" /\ wait_ticks'[current] = t
    BY <1>1 DEF Block, TypeOK, poolVars
  <2>2. t > 0
    OBVIOUS
  <2> QED BY <1>4, <1>5, <2>1, <2>2, SlotSets, OthersAreSlots DEF Waits
<1>8. Identities' /\ EndsAreRequested'
  BY <1>1 DEF Identities, EndsAreRequested, Block, poolVars, Others, Slots
<1>9. CpuOnLiveProcess'
  BY <1>1 DEF CpuOnLiveProcess, Block
<1> QED BY <1>2, <1>3, <1>6, <1>7, <1>8, <1>9

(* process_wait links the process, BLOCKED. *)
LEMMA WaitKeepsIInv ==
  ASSUME IInv, NEW t \in 0..MaxTicks, Wait(t)
  PROVE  IInv'
<1> USE NAssumption, MaxTicksAssumption DEF IInv
<1>1. /\ current \in Slots /\ state \in [Slots -> States]
      /\ state'= [state EXCEPT ![current] = "BLOCKED"] /\ state[current] = "RUNNING"
  BY DEF TypeOK, Wait
<1>2. /\ Append(fifo, current) \in Seq(Slots)
      /\ Members(Append(fifo, current)) = Members(fifo) \cup {current}
      /\ Distinct(fifo) /\ current \notin Members(fifo)
            => Distinct(Append(fifo, current))
  BY AppendMembers DEF TypeOK
<1>3. TypeOK'
  BY <1>2 DEF Wait, TypeOK, States, poolVars
<1>4. Pids'
  BY <1>1, PidsKept DEF Wait, poolVars, Others, Slots
<1>5. Links'
  BY <1>1, <1>2 DEF Links, Wait, TypeOK
<1>6. Waits'
  <2>1. /\ UNCHANGED <<user, pid>> /\ current # 0
        /\ \A p \in Slots : p # current =>
             /\ state'[p] = state[p] /\ wait_ticks'[p] = wait_ticks[p]
             /\ wait_active'[p] = wait_active[p]
        /\ state'[current] = "BLOCKED" /\ wait_active'[current]
    BY <1>1 DEF Wait, TypeOK, poolVars
  <2> QED BY <2>1, SlotSets, OthersAreSlots DEF Waits
<1>7. Identities' /\ EndsAreRequested'
  BY <1>1 DEF Identities, EndsAreRequested, Wait, poolVars, Others, Slots
<1>8. CpuOnLiveProcess'
  BY <1>1 DEF CpuOnLiveProcess, Wait
<1> QED BY <1>3, <1>4, <1>5, <1>6, <1>7, <1>8

(* scheduler_yield. *)
LEMMA YieldKeepsIInv == ASSUME IInv, Yield PROVE IInv'
<1> USE DEF IInv
<1>1. /\ UNCHANGED <<state, pid, user, generation, wait_active, wait_ticks,
                     cancel_pending, current, last_scheduled_idx, free_pids,
                     identities, fifo, available, asked, overtaken>>
      /\ cpu = "run" /\ cpu' = "yield" /\ state[current] \in Alive
  BY DEF Yield, procVars, waitVars
<1>2. TypeOK'
  BY <1>1 DEF TypeOK
<1>3. Pids' /\ Links' /\ Waits' /\ Identities' /\ EndsAreRequested'
  BY <1>1 DEF Pids, Links, Waits, Identities, EndsAreRequested
<1>4. CpuOnLiveProcess'
  BY <1>1 DEF CpuOnLiveProcess, Alive
<1> QED BY <1>2, <1>3, <1>4
-----------------------------------------------------------------------------
(* Steps that end waits, those of ws, and move the CPU: no process is      *)
(* created, terminated or put to sleep.                                    *)
LEMMA LiveStepKeepsIInv ==
  ASSUME IInv, NEW ws,
         state' \in [Slots -> States],
         \A p \in Slots : /\ state'[p] = "UNUSED" <=> state[p] = "UNUSED"
                          /\ state'[p] = "ZOMBIE" <=> state[p] = "ZOMBIE"
                          /\ state'[p] = "BLOCKED" <=> state[p] = "BLOCKED" /\ p \notin ws,
         Links', fifo' \in Seq(Slots),
         wait_active' = [p \in Slots |-> p \notin ws /\ wait_active[p]],
         wait_ticks' \in [Slots -> 0..MaxTicks],
         \A p \in Slots : state[p] = "BLOCKED" /\ p \notin ws /\ wait_ticks[p] > 0
                             => wait_ticks'[p] > 0,
         UNCHANGED <<pid, user, generation, cancel_pending, free_pids,
                     identities, asked>>,
         available' \in BOOLEAN, current' \in Slots,
         last_scheduled_idx' \in Others, overtaken' \in [Slots -> Nat],
         cpu' \in {"run", "yield", "exit"}, CpuOnLiveProcess'
  PROVE  IInv'
<1> USE DEF IInv
<1>1. TypeOK'
  BY DEF TypeOK
<1>2. Pids'
  BY PidsKept, OthersAreSlots
<1>3. Waits'
  <2>1. \A p \in Slots : wait_active'[p] <=> p \notin ws /\ wait_active[p]
    OBVIOUS
  <2>2. \A p \in Slots : wait_active'[p] => state'[p] = "BLOCKED"
    BY <2>1 DEF Waits
  <2>3. \A p \in Others :
          state'[p] = "BLOCKED" /\ ~user'[p] => wait_ticks'[p] > 0 \/ wait_active'[p]
    BY <2>1, OthersAreSlots DEF Waits
  <2>4. state'[0] \in States /\ state'[0] \notin {"UNUSED", "ZOMBIE", "BLOCKED"}
    BY SlotSets DEF Waits
  <2> QED BY <2>2, <2>3, <2>4 DEF Waits, States
<1>4. Identities' /\ EndsAreRequested'
  BY OthersAreSlots DEF Identities, EndsAreRequested
<1> QED BY <1>1, <1>2, <1>3, <1>4

(* An election moves the index and counts who was passed over. *)
LEMMA ElectTypes ==
  ASSUME TypeOK, NEW st, Elect(st)
  PROVE  last_scheduled_idx' \in Others /\ overtaken' \in [Slots -> Nat]
<1>1. ReadySlots(st) # {} => NextReady(st) \in Others
  BY NextReadyIsNext DEF TypeOK, ReadySlots
<1> QED BY <1>1 DEF Elect, TypeOK

(* scheduler_yield_internal: the CPU goes to a process that may run, and   *)
(* READY and RUNNING are the only states that change.                      *)
LEMMA YieldInternalMoves ==
  ASSUME TypeOK, NEW st \in [Slots -> States], YieldInternal(st),
         st[0] \in {"READY", "RUNNING"},
         \A p \in Slots : st[p] = "RUNNING" => p = current
  PROVE  /\ current' \in Slots /\ state' \in [Slots -> States]
         /\ state'[current'] \in {"READY", "RUNNING"}
         /\ \A p \in Slots : state'[p] = "RUNNING" => p = current'
         /\ \A p \in Slots : \/ state'[p] = st[p]
                             \/ /\ st[p] \in {"READY", "RUNNING"}
                                /\ state'[p] \in {"READY", "RUNNING"}
<1> DEFINE next == SelectNext(st)
<1>1. /\ next \in Slots
      /\ \/ next \in Others /\ st[next] = "READY"
         \/ next = current /\ st[current] = "RUNNING"
         \/ next = 0
  BY SelectNextIsElectable DEF TypeOK
<1>2. st[next] \in {"READY", "RUNNING"}
  BY <1>1
<1>3. /\ current' = next
      /\ state' = IF next = current THEN st
                  ELSE [p \in Slots |->
                          IF p = next THEN "RUNNING"
                          ELSE IF p = current /\ st[p] = "RUNNING"
                          THEN "READY" ELSE st[p]]
  BY DEF YieldInternal
<1> HIDE DEF next
<1>4. CASE next = current
  BY <1>1, <1>2, <1>3, <1>4
<1>5. CASE next # current
  <2>1. \A p \in Slots : state'[p] = IF p = next THEN "RUNNING"
                                     ELSE IF p = current /\ st[p] = "RUNNING"
                                     THEN "READY" ELSE st[p]
    BY <1>3, <1>5
  <2>2. state' \in [Slots -> States]
    BY <1>3, <1>5 DEF States
  <2> QED BY <1>1, <1>2, <1>3, <1>5, <2>1, <2>2
<1> QED BY <1>4, <1>5

(* The switch to the process elected. *)
LEMMA SwitchKeepsIInv == ASSUME IInv, Switch PROVE IInv'
<1> DEFINE none == {}
<1>1. /\ TypeOK /\ state \in [Slots -> States] /\ state[0] \in {"READY", "RUNNING"}
      /\ \A p \in Slots : state[p] = "RUNNING" => p = current
      /\ current \in Slots /\ YieldInternal(state)
  BY DEF IInv, TypeOK, Waits, CpuOnLiveProcess, Switch
<1>2. /\ current' \in Slots /\ state' \in [Slots -> States]
      /\ state'[current'] \in {"READY", "RUNNING"}
      /\ \A p \in Slots : state'[p] = "RUNNING" => p = current'
      /\ \A p \in Slots : \/ state'[p] = state[p]
                          \/ /\ state[p] \in {"READY", "RUNNING"}
                             /\ state'[p] \in {"READY", "RUNNING"}
  BY <1>1, YieldInternalMoves
<1>3. last_scheduled_idx' \in Others /\ overtaken' \in [Slots -> Nat]
  BY <1>1, ElectTypes DEF YieldInternal
<1>4. /\ UNCHANGED <<pid, user, generation, cancel_pending, free_pids, identities,
                     asked, fifo, wait_active, wait_ticks, available>>
      /\ cpu' = "run"
  BY DEF Switch, poolVars, waitVars
<1>5. Links' /\ fifo' \in Seq(Slots) /\ wait_ticks' \in [Slots -> 0..MaxTicks]
      /\ available' \in BOOLEAN
  BY <1>4, LinksKept DEF IInv, TypeOK
<1>6. wait_active' = [p \in Slots |-> p \notin none /\ wait_active[p]]
  BY <1>4 DEF IInv, TypeOK
<1>7. CpuOnLiveProcess'
  BY <1>2, <1>4 DEF CpuOnLiveProcess
<1>8. \A p \in Slots : /\ state'[p] = "UNUSED" <=> state[p] = "UNUSED"
                       /\ state'[p] = "ZOMBIE" <=> state[p] = "ZOMBIE"
                       /\ state'[p] = "BLOCKED" <=> state[p] = "BLOCKED" /\ p \notin none
  BY <1>2
<1> HIDE DEF none
<1> QED BY <1>2, <1>3, <1>4, <1>5, <1>6, <1>7, <1>8, LiveStepKeepsIInv

(* The switch away from a process that ended. *)
LEMMA SwitchAfterTerminationKeepsIInv ==
  ASSUME IInv, SwitchAfterTermination PROVE IInv'
<1> DEFINE next == SelectNext(state)
           none == {}
<1>1. /\ TypeOK /\ state \in [Slots -> States] /\ state[0] \in {"READY", "RUNNING"}
      /\ \A p \in Slots : state[p] = "RUNNING" => p = current
      /\ current \in Slots /\ state[current] = "ZOMBIE"
  BY DEF IInv, TypeOK, Waits, CpuOnLiveProcess, SwitchAfterTermination
<1>2. next \in Slots /\ state[next] \in {"READY", "RUNNING"}
  BY <1>1, SelectNextIsElectable DEF TypeOK
<1>3. /\ current' = next /\ state' = [state EXCEPT ![next] = "RUNNING"]
      /\ UNCHANGED <<pid, user, generation, cancel_pending, free_pids, identities,
                     asked, fifo, wait_active, wait_ticks, available>>
      /\ cpu' = "run" /\ Elect(state)
  BY DEF SwitchAfterTermination, poolVars, waitVars
<1> HIDE DEF next
<1>4. last_scheduled_idx' \in Others /\ overtaken' \in [Slots -> Nat]
  BY <1>1, <1>3, ElectTypes
<1>5. Links' /\ fifo' \in Seq(Slots) /\ wait_ticks' \in [Slots -> 0..MaxTicks]
      /\ available' \in BOOLEAN
  BY <1>3, LinksKept DEF IInv, TypeOK
<1>6. wait_active' = [p \in Slots |-> p \notin none /\ wait_active[p]]
  BY <1>3 DEF IInv, TypeOK
<1>7. CpuOnLiveProcess'
  BY <1>1, <1>2, <1>3 DEF CpuOnLiveProcess
<1>8. /\ state' \in [Slots -> States]
      /\ \A p \in Slots : /\ state'[p] = "UNUSED" <=> state[p] = "UNUSED"
                          /\ state'[p] = "ZOMBIE" <=> state[p] = "ZOMBIE"
                          /\ state'[p] = "BLOCKED" <=> state[p] = "BLOCKED" /\ p \notin none
  BY <1>1, <1>2, <1>3 DEF States
<1> HIDE DEF none
<1> QED BY <1>2, <1>3, <1>4, <1>5, <1>6, <1>7, <1>8, LiveStepKeepsIInv

-----------------------------------------------------------------------------
(* A wake-up makes the BLOCKED among ws READY. *)
LEMMA WokenStates ==
  ASSUME state \in [Slots -> States], NEW ws
  PROVE  /\ Woken(state, ws) \in [Slots -> States]
         /\ \A p \in Slots :
              Woken(state, ws)[p] = IF p \in ws /\ state[p] = "BLOCKED" THEN "READY"
                                    ELSE state[p]
BY DEF Woken, States

(* wake_up, a device that leaves and a tick in kernel code. *)
LEMMA WakeStepKeepsIInv ==
  ASSUME IInv, NEW ws, state' = Woken(state, ws), fifo' = Without(fifo, ws),
         wait_active' = [p \in Slots |-> p \notin ws /\ wait_active[p]],
         wait_ticks' \in [Slots -> 0..MaxTicks],
         \A p \in Slots : state[p] = "BLOCKED" /\ p \notin ws /\ wait_ticks[p] > 0
                             => wait_ticks'[p] > 0,
         UNCHANGED <<pid, user, generation, cancel_pending, free_pids,
                     identities, asked, current, last_scheduled_idx, cpu,
                     overtaken>>,
         available' \in BOOLEAN
  PROVE  IInv'
<1>1. TypeOK /\ Links /\ state \in [Slots -> States]
  BY DEF IInv, TypeOK
<1>2. /\ state' \in [Slots -> States]
      /\ \A p \in Slots : state'[p] = IF p \in ws /\ state[p] = "BLOCKED" THEN "READY"
                                       ELSE state[p]
  BY <1>1, WokenStates
<1>3. Links' /\ fifo' \in Seq(Slots)
  BY <1>1, LinksWithout
<1>4. /\ current' \in Slots /\ last_scheduled_idx' \in Others
      /\ overtaken' \in [Slots -> Nat] /\ cpu' \in {"run", "yield", "exit"}
  BY <1>1 DEF TypeOK
<1>5. CpuOnLiveProcess'
  BY <1>2, <1>4 DEF IInv, CpuOnLiveProcess
<1>6. \A p \in Slots : /\ state'[p] = "UNUSED" <=> state[p] = "UNUSED"
                       /\ state'[p] = "ZOMBIE" <=> state[p] = "ZOMBIE"
                       /\ state'[p] = "BLOCKED" <=> state[p] = "BLOCKED" /\ p \notin ws
  BY <1>2
<1> QED BY <1>2, <1>3, <1>4, <1>5, <1>6, LiveStepKeepsIInv

(* process_wait_clear resets the timeouts of ws only. *)
LEMMA WaitClearTicks ==
  ASSUME TypeOK, NEW ws, WaitClear(ws)
  PROVE  /\ wait_ticks' \in [Slots -> 0..MaxTicks]
         /\ \A p \in Slots : p \notin ws => wait_ticks'[p] = wait_ticks[p]
BY MaxTicksAssumption DEF TypeOK, WaitClear

(* A tick does not take the last tick of a process it does not wake. *)
LEMMA TickCountTicks ==
  ASSUME TypeOK, TickCount
  PROVE  /\ wait_ticks' \in [Slots -> 0..MaxTicks]
         /\ \A p \in Slots :
              state[p] = "BLOCKED" /\ p \notin Expired /\ wait_ticks[p] > 0
                => wait_ticks'[p] > 0
BY MaxTicksAssumption DEF TypeOK, TickCount, Expired

(* Wake-ups, by an event, by the device and by the clock. *)
LEMMA WakesKeepIInv ==
  ASSUME IInv, NEW ws, Wake(ws) \/ SetAvailable \/ TickInKernel
  PROVE  IInv'
<1>1. TypeOK
  BY DEF IInv
<1>2. CASE Wake(ws)
  <2>1. WaitClear(ws) /\ state' = Woken(state, ws) /\ available' \in BOOLEAN
    BY <1>2 DEF Wake, IInv, TypeOK
  <2> QED BY <1>1, <1>2, <2>1, WaitClearTicks, WakeStepKeepsIInv
          DEF Wake, WaitClear, poolVars
<1>3. CASE SetAvailable
  <2> DEFINE fs == Members(fifo)
  <2>1. WaitClear(fs) /\ state' = Woken(state, fs) /\ available' \in BOOLEAN
    BY <1>3 DEF SetAvailable
  <2> HIDE DEF fs
  <2> QED BY <1>1, <1>3, <2>1, WaitClearTicks, WakeStepKeepsIInv
          DEF SetAvailable, WaitClear, poolVars
<1>4. CASE TickInKernel
  <2>1. TickCount /\ state' = Woken(state, Expired) /\ available' \in BOOLEAN
    BY <1>1, <1>4 DEF TickInKernel, TypeOK
  <2> QED BY <1>1, <1>4, <2>1, TickCountTicks, WakeStepKeepsIInv
          DEF TickInKernel, TickCount, poolVars
<1> QED BY <1>2, <1>3, <1>4

(* The tick that preempts ring 3. *)
LEMMA TickInUserKeepsIInv == ASSUME IInv, TickInUser PROVE IInv'
<1>1. TypeOK /\ TickCount /\ Links /\ state \in [Slots -> States]
  BY DEF IInv, TypeOK, TickInUser
<1>2. /\ UNCHANGED <<pid, user, generation, cancel_pending, free_pids, identities,
                     asked, available, cpu>>
      /\ cpu = "run" /\ available' \in BOOLEAN
  BY <1>1 DEF TickInUser, poolVars, TypeOK
<1>3. /\ wait_ticks' \in [Slots -> 0..MaxTicks]
      /\ \A p \in Slots :
           state[p] = "BLOCKED" /\ p \notin Expired /\ wait_ticks[p] > 0
             => wait_ticks'[p] > 0
  BY <1>1, TickCountTicks
<1>4. /\ fifo' = Without(fifo, Expired)
      /\ wait_active' = [p \in Slots |-> p \notin Expired /\ wait_active[p]]
  BY <1>1 DEF TickCount
<1>5. CASE state[current] # "RUNNING"
  BY <1>2, <1>3, <1>4, <1>5, WakeStepKeepsIInv DEF TickInUser
<1>6. CASE state[current] = "RUNNING"
  <2> DEFINE st == Woken(state, Expired)
  <2>1. /\ st \in [Slots -> States]
        /\ \A p \in Slots : st[p] = IF p \in Expired /\ state[p] = "BLOCKED"
                                     THEN "READY" ELSE state[p]
    BY <1>1, WokenStates
  <2>2. YieldInternal(st)
    BY <1>6 DEF TickInUser
  <2> HIDE DEF st
  <2>3. /\ st[0] \in {"READY", "RUNNING"}
        /\ \A p \in Slots : st[p] = "RUNNING" => p = current
    BY <2>1, SlotSets DEF IInv, Waits, CpuOnLiveProcess
  <2>4. /\ current' \in Slots /\ state' \in [Slots -> States]
        /\ state'[current'] \in {"READY", "RUNNING"}
        /\ \A p \in Slots : state'[p] = "RUNNING" => p = current'
        /\ \A p \in Slots : \/ state'[p] = st[p]
                            \/ /\ st[p] \in {"READY", "RUNNING"}
                               /\ state'[p] \in {"READY", "RUNNING"}
    BY <1>1, <2>1, <2>2, <2>3, YieldInternalMoves
  <2>5. last_scheduled_idx' \in Others /\ overtaken' \in [Slots -> Nat]
    BY <1>1, <2>2, ElectTypes DEF YieldInternal
  <2>6. CpuOnLiveProcess'
    BY <1>2, <2>4 DEF CpuOnLiveProcess
  <2>7. \A p \in Slots : /\ state'[p] = "UNUSED" <=> state[p] = "UNUSED"
                         /\ state'[p] = "ZOMBIE" <=> state[p] = "ZOMBIE"
                         /\ state'[p] = "BLOCKED" <=> state[p] = "BLOCKED" /\ p \notin Expired
    BY <2>1, <2>4
  <2>8. Links' /\ fifo' \in Seq(Slots)
    BY <1>1, <1>4, LinksWithout
  <2> QED BY <1>2, <1>3, <1>4, <2>4, <2>5, <2>6, <2>7, <2>8, LiveStepKeepsIInv
<1> QED BY <1>5, <1>6
-----------------------------------------------------------------------------
(* The end of a user process: process_mark_user_zombie on behalf of a      *)
(* request, recorded in asked.                                             *)
LEMMA MarkZombieKeepsIInv ==
  ASSUME IInv, NEW p \in Slots, user[p], state[p] \in Alive, MarkZombie(p),
         asked \subseteq asked', asked' \subseteq 1..MaxGeneration,
         generation[p] \in asked',
         UNCHANGED <<pid, user, generation, free_pids, identities, current,
                     last_scheduled_idx, available, overtaken>>,
         cpu' \in {"run", "yield", "exit"},
         p # current => cpu' = cpu, p = current => cpu' = "exit"
  PROVE  IInv'
<1> DEFINE ws == IF wait_active[p] THEN {p} ELSE {}
<1>1. /\ TypeOK /\ Links /\ state \in [Slots -> States] /\ current \in Slots
      /\ cancel_pending \in [Slots -> BOOLEAN]
  BY DEF IInv, TypeOK
<1>2. /\ state' = [state EXCEPT ![p] = "ZOMBIE"] /\ WaitClear(ws)
      /\ cancel_pending' = [cancel_pending EXCEPT ![p] = FALSE]
  BY DEF MarkZombie
<1>3. \A q \in Slots : q \in ws => q = p /\ wait_active[p]
  OBVIOUS
<1>4. wait_active[p] => p \in ws
  OBVIOUS
<1> HIDE DEF ws
<1>5. state[p] # "UNUSED" /\ p # 0 /\ p \in Others
  BY SlotSets DEF IInv, Waits, Alive
<1>6. /\ state' \in [Slots -> States] /\ state'[p] = "ZOMBIE"
      /\ \A q \in Slots : q # p => state'[q] = state[q]
      /\ cancel_pending' \in [Slots -> BOOLEAN] /\ ~cancel_pending'[p]
      /\ \A q \in Slots : q # p => cancel_pending'[q] = cancel_pending[q]
  BY <1>1, <1>2 DEF States
<1>7. /\ Links' /\ fifo' \in Seq(Slots) /\ wait_active' \in [Slots -> BOOLEAN]
      /\ \A q \in Slots : wait_active'[q] <=> q \notin ws /\ wait_active[q]
  BY <1>1, <1>2, LinksWithout DEF WaitClear
<1>8. /\ wait_ticks' \in [Slots -> 0..MaxTicks]
      /\ \A q \in Slots : q \notin ws => wait_ticks'[q] = wait_ticks[q]
  BY <1>1, <1>2, WaitClearTicks
<1>9. TypeOK'
  BY <1>1, <1>6, <1>7, <1>8 DEF TypeOK
<1>10. Pids'
  BY <1>5, <1>6, PidsKept, OthersAreSlots DEF IInv
<1>11. Waits'
  <2>1. \A q \in Slots : wait_active'[q] => q # p /\ wait_active[q]
    BY <1>4, <1>7
  <2>2. \A q \in Slots : wait_active'[q] => state'[q] = "BLOCKED"
    BY <1>6, <2>1 DEF IInv, Waits
  <2>3. \A q \in Others :
          state'[q] = "BLOCKED" /\ ~user'[q] => wait_ticks'[q] > 0 \/ wait_active'[q]
    <3> TAKE q \in Others
    <3>1. CASE q = p
      BY <3>1, <1>6
    <3>2. CASE q # p
      BY <3>2, <1>3, <1>6, <1>7, <1>8, OthersAreSlots DEF IInv, Waits
    <3> QED BY <3>1, <3>2
  <2> QED BY <2>2, <2>3, <1>5, <1>6, SlotSets DEF IInv, Waits
<1>12. Identities' /\ EndsAreRequested'
  BY <1>5, <1>6, OthersAreSlots DEF IInv, Identities, EndsAreRequested
<1>13. CpuOnLiveProcess'
  BY <1>1, <1>5, <1>6 DEF IInv, CpuOnLiveProcess, Alive
<1> QED BY <1>7, <1>9, <1>10, <1>11, <1>12, <1>13 DEF IInv

(* A request that gets past the check of the generation is meant for the   *)
(* process that holds the PID, whose identity is a valid one.              *)
LEMMA MeantIsHolder ==
  ASSUME IInv, NEW p \in Others, NEW g \in 0..MaxGeneration, Names(p, g),
         state[p] \in Alive
  PROVE  Meant(p, g) = generation[p] /\ generation[p] \in 1..MaxGeneration
BY OthersAreSlots DEF Names, Meant, IInv, Identities, Alive

(* The ends of a process: its own, a cancellation, a signal. *)
LEMMA TerminationsKeepIInv ==
  ASSUME IInv, Exit \/ ApplyPendingCancel
               \/ \E p \in Others, g \in 0..MaxGeneration : TerminateBySignal(p, g)
  PROVE  IInv'
<1>1. TypeOK /\ asked \subseteq 1..MaxGeneration /\ current \in Slots
  BY DEF IInv, TypeOK
<1>2. CASE Exit
  <2>1. generation[current] \in 1..MaxGeneration
    BY <1>1, <1>2 DEF IInv, Identities, Exit, Alive
  <2> QED BY <1>1, <1>2, <2>1, MarkZombieKeepsIInv DEF Exit, poolVars
<1>3. CASE ApplyPendingCancel
  <2>1. current \in Others
    BY <1>1, <1>3, SlotSets DEF IInv, Waits, ApplyPendingCancel
  <2>2. generation[current] \in asked
    BY <1>3, <2>1 DEF IInv, EndsAreRequested, ApplyPendingCancel
  <2> QED BY <1>1, <1>3, <2>2, MarkZombieKeepsIInv DEF ApplyPendingCancel, poolVars
<1>4. ASSUME NEW p \in Others, NEW g \in 0..MaxGeneration, TerminateBySignal(p, g)
      PROVE  IInv'
  <2>1. cpu' \in {"run", "yield", "exit"}
    BY <1>1, <1>4 DEF TerminateBySignal, TypeOK
  <2>2. Meant(p, g) = generation[p] /\ generation[p] \in 1..MaxGeneration
    BY <1>4, MeantIsHolder DEF TerminateBySignal
  <2> QED BY <1>1, <1>4, <2>1, <2>2, MarkZombieKeepsIInv, OthersAreSlots
          DEF TerminateBySignal, poolVars
<1> QED BY <1>2, <1>3, <1>4

(* process_cancel_user_generation. *)
LEMMA CancelKeepsIInv ==
  ASSUME IInv, NEW p \in Others, NEW g \in 0..MaxGeneration, Cancel(p, g)
  PROVE  IInv'
<1>1. /\ TypeOK /\ Links /\ asked \subseteq 1..MaxGeneration /\ p \in Slots /\ p # 0
      /\ state \in [Slots -> States] /\ cancel_pending \in [Slots -> BOOLEAN]
      /\ current \in Slots
  BY OthersAreSlots, SlotSets DEF IInv, TypeOK
<1>2. /\ UNCHANGED <<pid, user, generation, free_pids, identities, current,
                     last_scheduled_idx, available, cpu, overtaken>>
      /\ asked' = asked \cup {generation[p]} /\ user[p] /\ p # current
      /\ generation[p] \in 1..MaxGeneration
      /\ state[p] \in Alive /\ cpu = "run"
  BY MeantIsHolder DEF Cancel, poolVars
<1>3. CASE ~(state[p] = "BLOCKED" /\ wait_active[p])
  BY <1>1, <1>2, <1>3, MarkZombieKeepsIInv DEF Cancel
<1>4. CASE state[p] = "BLOCKED" /\ wait_active[p]
  <2> DEFINE ws == {p}
  <2>1. /\ state' = Woken(state, ws) /\ WaitClear(ws)
        /\ cancel_pending' = [cancel_pending EXCEPT ![p] = TRUE]
    BY <1>4 DEF Cancel
  <2>2. \A q \in Slots : q \in ws <=> q = p
    OBVIOUS
  <2> HIDE DEF ws
  <2>3. /\ state' \in [Slots -> States] /\ state'[p] = "READY"
        /\ \A q \in Slots : q # p => state'[q] = state[q]
    BY <1>1, <1>4, <2>1, <2>2, WokenStates
  <2>4. /\ cancel_pending' \in [Slots -> BOOLEAN]
        /\ \A q \in Slots : q # p => cancel_pending'[q] = cancel_pending[q]
    BY <1>1, <2>1
  <2>5. /\ Links' /\ fifo' \in Seq(Slots) /\ wait_active' \in [Slots -> BOOLEAN]
        /\ \A q \in Slots : wait_active'[q] <=> q \notin ws /\ wait_active[q]
    BY <1>1, <2>1, LinksWithout DEF WaitClear
  <2>6. /\ wait_ticks' \in [Slots -> 0..MaxTicks]
        /\ \A q \in Slots : q \notin ws => wait_ticks'[q] = wait_ticks[q]
    BY <1>1, <2>1, WaitClearTicks
  <2>7. TypeOK'
    BY <1>1, <1>2, <2>3, <2>4, <2>5, <2>6 DEF TypeOK
  <2>8. Pids'
    BY <1>2, <1>4, <2>3, PidsKept, OthersAreSlots DEF IInv
  <2>9. Waits'
    BY <1>1, <1>2, <2>2, <2>3, <2>5, <2>6, OthersAreSlots, SlotSets DEF IInv, Waits
  <2>10. Identities' /\ EndsAreRequested'
    BY <1>1, <1>2, <1>4, <2>3, <2>4, OthersAreSlots
       DEF IInv, Identities, EndsAreRequested
  <2>11. CpuOnLiveProcess'
    BY <1>1, <1>2, <2>3 DEF IInv, CpuOnLiveProcess
  <2> QED BY <2>5, <2>7, <2>8, <2>9, <2>10, <2>11 DEF IInv
<1> QED BY <1>3, <1>4

-----------------------------------------------------------------------------
(* process_create_internal and process_create_user_image. *)
LEMMA CreateKeepsIInv ==
  ASSUME IInv, NEW p \in Others, NEW isUser \in BOOLEAN, Create(p, isUser)
  PROVE  IInv'
<1> DEFINE top == free_pids[Len(free_pids)]
<1>1. /\ TypeOK /\ p \in Slots /\ p # 0 /\ state[p] = "UNUSED"
      /\ free_pids \in Seq(Others) /\ free_pids # <<>> /\ Distinct(free_pids)
  BY OthersAreSlots, SlotSets DEF IInv, TypeOK, Create, FirstFree, Pids
<1>2. /\ top \in Others /\ top \in Members(free_pids)
      /\ free_pids' \in Seq(Others)
      /\ Members(free_pids') = Members(free_pids) \ {top}
      /\ Distinct(free_pids')
  BY <1>1, FrontMembers DEF Create
<1>3. pid' = [pid EXCEPT ![p] = top]
  BY DEF Create
<1> HIDE DEF top
<1>4. /\ state' \in [Slots -> States] /\ state'[p] \in {"READY", "BLOCKED"}
      /\ isUser => user'[p]
      /\ ~isUser => state'[p] = "READY"
      /\ \A q \in Slots : q # p => state'[q] = state[q] /\ user'[q] = user[q]
      /\ user' \in [Slots -> BOOLEAN]
  BY <1>1 DEF TypeOK, Create, States
<1>5. /\ pid' \in [Slots -> Slots] /\ pid'[p] = top
      /\ \A q \in Slots : q # p => pid'[q] = pid[q]
  BY <1>1, <1>2, <1>3, OthersAreSlots DEF TypeOK
<1>6. /\ identities' \in 1..MaxGeneration
      /\ generation' \in [Slots -> 0..MaxGeneration]
      /\ generation'[p] \in 1..MaxGeneration
      /\ \A q \in Slots : q # p => generation'[q] = generation[q]
  BY <1>1, MaxGenerationAssumption DEF TypeOK, Create
<1>7. /\ UNCHANGED <<wait_active, wait_ticks, fifo, cancel_pending, current,
                     last_scheduled_idx, available, cpu, asked>>
      /\ overtaken' \in [Slots -> Nat]
  BY <1>1 DEF Create, waitVars, TypeOK
<1>8. TypeOK'
  BY <1>1, <1>2, <1>4, <1>5, <1>6, <1>7 DEF TypeOK
<1>9. Pids'
  <2>1. \A q \in Others : state[q] # "UNUSED" => pid[q] # top
    BY <1>2 DEF IInv, Pids
  <2>2. \A q \in Others : state'[q] # "UNUSED" => pid'[q] \in Others
    BY <1>2, <1>4, <1>5, OthersAreSlots DEF IInv, Pids
  <2>3. \A q, r \in Others :
         state'[q] # "UNUSED" /\ state'[r] # "UNUSED" /\ pid'[q] = pid'[r] => q = r
    BY <1>4, <1>5, <2>1, OthersAreSlots DEF IInv, Pids
  <2>4. \A x \in Others :
          x \in Members(free_pids') <=>
            \A q \in Others : state'[q] # "UNUSED" => pid'[q] # x
    <3> TAKE x \in Others
    <3>1. CASE x = top
      BY <3>1, <1>2, <1>4, <1>5
    <3>2. CASE x # top
      BY <3>2, <1>1, <1>2, <1>4, <1>5, OthersAreSlots DEF IInv, Pids
    <3> QED BY <3>1, <3>2
  <2> QED BY <1>2, <2>2, <2>3, <2>4 DEF Pids
<1>10. Links'
  BY <1>7, LinksKept DEF IInv
<1>11. Waits'
  <2>1. ~wait_active[p]
    BY <1>1 DEF IInv, Waits
  <2>2. \A q \in Slots : wait_active'[q] => state'[q] = "BLOCKED"
    BY <2>1, <1>4, <1>7 DEF IInv, Waits
  <2>3. \A q \in Others :
          state'[q] = "BLOCKED" /\ ~user'[q] => wait_ticks'[q] > 0 \/ wait_active'[q]
    BY <1>4, <1>7, OthersAreSlots DEF IInv, Waits
  <2> QED BY <2>2, <2>3, <1>1, <1>4, <1>5, SlotSets DEF IInv, Waits
<1>12. Identities' /\ EndsAreRequested'
  <2>1. ~cancel_pending'[p]
    BY <1>1, <1>7 DEF IInv, Identities
  <2> QED BY <2>1, <1>1, <1>4, <1>6, <1>7, OthersAreSlots
          DEF IInv, Identities, EndsAreRequested
<1>13. CpuOnLiveProcess'
  BY <1>1, <1>4, <1>7 DEF IInv, CpuOnLiveProcess, TypeOK
<1> QED BY <1>8, <1>9, <1>10, <1>11, <1>12, <1>13 DEF IInv

(* A prepared application becomes READY. *)
LEMMA StartUserKeepsIInv ==
  ASSUME IInv, NEW p \in Others, StartUser(p)
  PROVE  IInv'
<1>1. /\ TypeOK /\ p \in Slots /\ p # 0 /\ state[p] = "BLOCKED" /\ ~wait_active[p]
      /\ UNCHANGED <<pid, user, generation, free_pids, identities, wait_active,
                     wait_ticks, fifo, cancel_pending, current,
                     last_scheduled_idx, available, cpu, asked, overtaken>>
      /\ cpu = "run" /\ current \in Slots
  BY OthersAreSlots, SlotSets DEF IInv, TypeOK, StartUser, poolVars, waitVars
<1>2. /\ state' \in [Slots -> States] /\ state'[p] = "READY"
      /\ \A q \in Slots : q # p => state'[q] = state[q]
  BY <1>1 DEF TypeOK, StartUser, States
<1>3. TypeOK'
  BY <1>1, <1>2 DEF TypeOK
<1>4. Pids' /\ Links'
  BY <1>1, <1>2, PidsKept, LinksKept, OthersAreSlots DEF IInv
<1>5. Waits'
  BY <1>1, <1>2, OthersAreSlots, SlotSets DEF IInv, Waits
<1>6. Identities' /\ EndsAreRequested'
  BY <1>1, <1>2, OthersAreSlots DEF IInv, Identities, EndsAreRequested
<1>7. CpuOnLiveProcess'
  BY <1>1, <1>2 DEF IInv, CpuOnLiveProcess
<1> QED BY <1>3, <1>4, <1>5, <1>6, <1>7 DEF IInv

(* process_destroy. *)
LEMMA DestroyKeepsIInv ==
  ASSUME IInv, NEW p \in Others, Destroy(p)
  PROVE  IInv'
<1> DEFINE ws == {p}
<1>1. /\ TypeOK /\ Links /\ p \in Slots /\ p # 0 /\ state[p] # "UNUSED"
      /\ p # current /\ cpu = "run" /\ current \in Slots
      /\ pid[p] \in Others /\ free_pids \in Seq(Others) /\ Distinct(free_pids)
      /\ pid[p] \notin Members(free_pids)
  BY OthersAreSlots, SlotSets DEF IInv, TypeOK, Destroy, Pids
<1>2. /\ WaitClear(ws)
      /\ UNCHANGED <<identities, current, last_scheduled_idx, available, cpu,
                     asked, overtaken>>
  BY DEF Destroy
<1>3. \A q \in Slots : q \in ws <=> q = p
  OBVIOUS
<1> HIDE DEF ws
<1>4. /\ free_pids' \in Seq(Others) /\ Distinct(free_pids')
      /\ Members(free_pids') = Members(free_pids) \cup {pid[p]}
  BY <1>1, AppendMembers DEF Destroy
<1>5. /\ state' \in [Slots -> States] /\ state'[p] = "UNUSED"
      /\ pid' \in [Slots -> Slots]
      /\ user' \in [Slots -> BOOLEAN] /\ cancel_pending' \in [Slots -> BOOLEAN]
      /\ ~cancel_pending'[p]
      /\ \A q \in Slots : q # p =>
           /\ state'[q] = state[q] /\ pid'[q] = pid[q] /\ user'[q] = user[q]
           /\ cancel_pending'[q] = cancel_pending[q]
  BY <1>1, SlotSets DEF TypeOK, Destroy, States
<1>6. /\ generation' \in [Slots -> 0..MaxGeneration]
      /\ \A q \in Slots : q # p => generation'[q] = generation[q]
  BY <1>1, MaxGenerationAssumption DEF TypeOK, Destroy
<1>7. /\ Links' /\ fifo' \in Seq(Slots) /\ wait_active' \in [Slots -> BOOLEAN]
      /\ \A q \in Slots : wait_active'[q] <=> q \notin ws /\ wait_active[q]
  BY <1>1, <1>2, LinksWithout DEF WaitClear
<1>8. /\ wait_ticks' \in [Slots -> 0..MaxTicks]
      /\ \A q \in Slots : q \notin ws => wait_ticks'[q] = wait_ticks[q]
  BY <1>1, <1>2, WaitClearTicks
<1>9. TypeOK'
  BY <1>1, <1>2, <1>4, <1>5, <1>6, <1>7, <1>8 DEF TypeOK
<1>10. Pids'
  <2>1. \A q \in Others : state'[q] # "UNUSED" => pid'[q] \in Others
    BY <1>5, OthersAreSlots DEF IInv, Pids
  <2>2. \A q, r \in Others :
         state'[q] # "UNUSED" /\ state'[r] # "UNUSED" /\ pid'[q] = pid'[r] => q = r
    BY <1>5, OthersAreSlots DEF IInv, Pids
  <2>3. \A x \in Others :
          x \in Members(free_pids') <=>
            \A q \in Others : state'[q] # "UNUSED" => pid'[q] # x
    <3> TAKE x \in Others
    <3>1. CASE x = pid[p]
      <4>1. \A q \in Others : state'[q] # "UNUSED" => q # p /\ state[q] # "UNUSED"
                                                  /\ pid'[q] = pid[q]
        BY <1>5, OthersAreSlots
      <4>2. \A q \in Others : state'[q] # "UNUSED" => pid'[q] # pid[p]
        BY <4>1, <1>1 DEF IInv, Pids
      <4> QED BY <3>1, <4>2, <1>4
    <3>2. CASE x # pid[p]
      BY <3>2, <1>1, <1>4, <1>5, OthersAreSlots, SMTT(30) DEF IInv, Pids
    <3> QED BY <3>1, <3>2
  <2> QED BY <1>4, <2>1, <2>2, <2>3 DEF Pids
<1>11. Waits'
  BY <1>1, <1>3, <1>5, <1>7, <1>8, OthersAreSlots, SlotSets DEF IInv, Waits
<1>12. Identities' /\ EndsAreRequested'
  BY <1>2, <1>5, <1>6, OthersAreSlots DEF IInv, Identities, EndsAreRequested
<1>13. CpuOnLiveProcess'
  BY <1>1, <1>2, <1>5 DEF IInv, CpuOnLiveProcess
<1> QED BY <1>7, <1>9, <1>10, <1>11, <1>12, <1>13 DEF IInv

(* Every step of the processes, of the timer and of the code that wakes    *)
(* and ends processes keeps the inductive invariant.                       *)
LEMMA NextKeepsIInv == IInv /\ [Next]_vars => IInv'
<1> SUFFICES ASSUME IInv, [Next]_vars PROVE IInv'
  OBVIOUS
<1>1. CASE UNCHANGED vars
  <2>1. TypeOK' /\ Pids' /\ Links' /\ Waits' /\ Identities' /\ EndsAreRequested'
    BY <1>1 DEF vars, IInv, TypeOK, Pids, Links, Waits, Identities, EndsAreRequested
  <2>2. CpuOnLiveProcess'
    BY <1>1 DEF vars, IInv, CpuOnLiveProcess
  <2> QED BY <2>1, <2>2 DEF IInv
<1>2. CASE \/ Yield \/ Switch \/ Tick \/ SetAvailable
           \/ Exit \/ ApplyPendingCancel \/ SwitchAfterTermination
  BY <1>2, YieldKeepsIInv, SwitchKeepsIInv, WakesKeepIInv, TickInUserKeepsIInv,
     TerminationsKeepIInv, SwitchAfterTerminationKeepsIInv DEF Tick
<1>3. CASE \/ \E t \in 1..MaxTicks : Block(t)
           \/ \E t \in 0..MaxTicks : Wait(t)
           \/ \E ws \in SUBSET Slots : Wake(ws)
  BY <1>3, BlockKeepsIInv, WaitKeepsIInv, WakesKeepIInv
<1>4. CASE \E p \in Others : \/ \E isUser \in BOOLEAN : Create(p, isUser)
                             \/ StartUser(p) \/ Destroy(p)
  BY <1>4, CreateKeepsIInv, StartUserKeepsIInv, DestroyKeepsIInv
<1>5. CASE \E p \in Others, g \in 0..MaxGeneration :
             Cancel(p, g) \/ TerminateBySignal(p, g)
  BY <1>5, CancelKeepsIInv, TerminationsKeepIInv
<1> QED BY <1>1, <1>2, <1>3, <1>4, <1>5 DEF Next

-----------------------------------------------------------------------------
(* Through every order of creations, ends and destructions the live PIDs   *)
(* and the free pool of process.c partition the PIDs.                      *)
THEOREM PidPoolIsExact == Spec => []PidsArePartitioned
<1>1. IInv => PidsArePartitioned
  <2> SUFFICES ASSUME IInv PROVE PidsArePartitioned
    OBVIOUS
  <2>1. \A q \in Others :
          (\E i \in DOMAIN free_pids : free_pids[i] = q) <=> ByPid(q) = {}
    BY DEF IInv, Pids, Members, ByPid
  <2> QED BY <2>1 DEF IInv, Pids, Distinct, PidsArePartitioned
<1> QED BY InitIInv, NextKeepsIInv, <1>1, PTL DEF Spec

(* No wake-up reaches a process that is gone, and no kernel process sleeps *)
(* without something that will wake it: process_wait, the ticks and every  *)
(* end of a process keep the wait queue and the flags together.            *)
THEOREM WaitQueueIsExact == Spec => []WaitersAreLinked
<1>1. IInv => WaitersAreLinked
  BY DEF IInv, Links, Waits, Distinct, Members, WaitersAreLinked
<1> QED BY InitIInv, NextKeepsIInv, <1>1, PTL DEF Spec

(* scheduler_yield_internal, the preemption of ring 3 and the switch after *)
(* a termination leave the CPU with a process that exists and may run.     *)
THEOREM CpuIsOnLiveProcess == Spec => []CpuOnLiveProcess
<1>1. IInv => CpuOnLiveProcess
  BY DEF IInv
<1> QED BY InitIInv, NextKeepsIInv, <1>1, PTL DEF Spec

(* Whatever slots and PIDs are reused, a request of process_cancel_user_   *)
(* generation or process_terminate_user_signal_generation ends the         *)
(* identity it names or none, one made by PID alone ends the process that  *)
(* held the PID at the call, and no pending cancellation passes to the     *)
(* next process of the slot.                                               *)
THEOREM OnlyRequestedEnds == Spec => []EndsAreRequested
<1>1. IInv => EndsAreRequested
  BY DEF IInv
<1> QED BY InitIInv, NextKeepsIInv, <1>1, PTL DEF Spec
-----------------------------------------------------------------------------
(* One election, of the process states st: the one chosen goes to the back *)
(* of the turn, and every other one that is READY moves forward by at      *)
(* least the election it lost.                                             *)
LEMMA ElectKeepsTurn ==
  ASSUME TypeOK, Turn, NEW st, Elect(st)
  PROVE  Turn'
<1> USE NAssumption
<1>1. /\ last_scheduled_idx \in Others /\ overtaken \in [Slots -> Nat]
      /\ last_scheduled_idx' \in Others /\ overtaken' \in [Slots -> Nat]
  BY ElectTypes DEF TypeOK
<1>2. ASSUME NEW p \in Others PROVE Lag(p)' \in 1..(N - 1)
  <2> DEFINE l == last_scheduled_idx'
  <2>1. l \in 1..(N - 1) /\ p \in 1..(N - 1)
    BY <1>1 DEF Others
  <2>2. Lag(p)' = IF p > l THEN p - l ELSE p - l + (N - 1)
    BY DEF Lag
  <2> HIDE DEF l
  <2>3. (IF p > l THEN p - l ELSE p - l + (N - 1)) \in 1..(N - 1)
    BY <2>1
  <2> QED BY <2>2, <2>3
<1>3. ASSUME NEW p \in Others, ~(p \in ReadySlots(st) /\ p # NextReady(st))
      PROVE  overtaken'[p] + Lag(p)' <= N - 1
  BY <1>2, <1>3, OthersAreSlots DEF Elect
<1>4. ASSUME NEW p \in Others, p \in ReadySlots(st), p # NextReady(st)
      PROVE  overtaken'[p] + Lag(p)' <= N - 1
  <2> DEFINE w == NextReady(st)
  <2>1. w \in Others /\ Lag(w) <= Lag(p)
    BY <1>1, <1>4, NextReadyIsNext DEF ReadySlots
  <2>2. last_scheduled_idx' = w /\ overtaken'[p] = overtaken[p] + 1
    BY <1>4, OthersAreSlots DEF Elect
  <2>3. overtaken[p] \in Nat /\ overtaken[p] + Lag(p) <= N - 1
    BY <1>1, OthersAreSlots DEF Turn
  <2> HIDE DEF w
  <2>4. w # p
    BY <1>4 DEF w
  <2>5. Lag(p)' = Lag(p) - Lag(w) /\ Lag(w) \in 1..(N - 1) /\ Lag(p) \in 1..(N - 1)
    BY <1>1, <2>1, <2>2, <2>4 DEF Lag, Others
  <2> QED BY <2>2, <2>3, <2>5
<1> QED BY <1>3, <1>4 DEF Turn

(* Round robin for every number of processes: scheduler_find_next_ready    *)
(* passes a READY process over at most N - 2 times, through any number of  *)
(* creations, wake-ups and preemptions between the elections.              *)
THEOREM RoundRobinIsFair == Spec => []BoundedOvertaking
<1> USE NAssumption
<1>1. Init => Turn
  <2> SUFFICES ASSUME Init, NEW p \in Others PROVE overtaken[p] + Lag(p) <= N - 1
    BY DEF Turn
  <2>1. overtaken[p] = 0 /\ last_scheduled_idx = N - 1
    BY OthersAreSlots DEF Init
  <2> QED BY <2>1 DEF Lag, Others
<1>2. IInv /\ Turn /\ [Next]_vars => Turn'
  <2> SUFFICES ASSUME IInv, Turn, [Next]_vars PROVE Turn'
    OBVIOUS
  <2>1. TypeOK /\ overtaken \in [Slots -> Nat] /\ last_scheduled_idx \in Others
    BY DEF IInv, TypeOK
  <2>2. CASE Switch \/ SwitchAfterTermination
    BY <2>1, <2>2, ElectKeepsTurn DEF Switch, SwitchAfterTermination, YieldInternal
  <2>3. CASE TickInUser /\ state[current] = "RUNNING"
    BY <2>1, <2>3, ElectKeepsTurn DEF TickInUser, YieldInternal
  <2>4. CASE UNCHANGED <<last_scheduled_idx, overtaken>>
    BY <2>4 DEF Turn, Lag
  <2>5. ASSUME NEW p \in Others, NEW isUser \in BOOLEAN, Create(p, isUser)
        PROVE  Turn'
    <3>1. overtaken' = [overtaken EXCEPT ![p] = 0] /\ UNCHANGED last_scheduled_idx
      BY <2>5 DEF Create
    <3>2. ASSUME NEW q \in Others PROVE overtaken'[q] + Lag(q)' <= N - 1
      <4>1. Lag(q)' = Lag(q) /\ Lag(q) \in 1..(N - 1)
        BY <2>1, <3>1 DEF Lag, Others
      <4>2. overtaken'[q] = 0 \/ overtaken'[q] = overtaken[q]
        BY <2>1, <3>1, OthersAreSlots
      <4> QED BY <4>1, <4>2 DEF Turn
    <3> QED BY <3>2 DEF Turn
  <2>6. CASE TickInUser /\ state[current] # "RUNNING"
    BY <2>4, <2>6 DEF TickInUser
  <2>7. CASE \/ Yield \/ TickInKernel \/ SetAvailable
             \/ Exit \/ ApplyPendingCancel \/ UNCHANGED vars
    BY <2>4, <2>7 DEF Yield, TickInKernel, SetAvailable, Exit, ApplyPendingCancel, vars
  <2>8. CASE \/ \E t \in 1..MaxTicks : Block(t)
             \/ \E t \in 0..MaxTicks : Wait(t)
             \/ \E ws \in SUBSET Slots : Wake(ws)
    BY <2>4, <2>8 DEF Block, Wait, Wake
  <2>9. CASE \/ \E p \in Others : StartUser(p) \/ Destroy(p)
             \/ \E p \in Others, g \in 0..MaxGeneration :
                  Cancel(p, g) \/ TerminateBySignal(p, g)
    BY <2>4, <2>9 DEF StartUser, Destroy, Cancel, TerminateBySignal
  <2> QED BY <2>2, <2>3, <2>5, <2>6, <2>7, <2>8, <2>9 DEF Next, Tick
<1>3. IInv /\ Turn => BoundedOvertaking
  <2> SUFFICES ASSUME IInv, Turn, NEW p \in Others PROVE overtaken[p] <= N - 2
    BY DEF BoundedOvertaking
  <2>1. overtaken[p] \in Nat /\ last_scheduled_idx \in Others
    BY OthersAreSlots DEF IInv, TypeOK
  <2>2. Lag(p) \in 1..(N - 1)
    BY <2>1 DEF Lag, Others
  <2> QED BY <2>1, <2>2 DEF Turn
<1> QED BY InitIInv, NextKeepsIInv, <1>1, <1>2, <1>3, PTL DEF Spec
=============================================================================
