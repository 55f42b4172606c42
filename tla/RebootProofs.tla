----------------------------- MODULE RebootProofs ----------------------------
(***************************************************************************)
(* Theorems about a restart and what it comes back to.                     *)
(*                                                                         *)
(* Power: for every set of users, works and volumes and every budget, the  *)
(* machine is quiet when hardware is commanded and its cache clean unless  *)
(* a failed sync was taken as done, an abort leaves no gate closed and a   *)
(* commit is irrevocable.                                                  *)
(*                                                                         *)
(* UpdateSlots: for every number of images, updates, power cuts and disk   *)
(* errors and every limit of attempts, the loader that comes up finds a    *)
(* confirmed image to fall back to, a candidate it does not start too      *)
(* often and what the preflight approved.                                  *)
(***************************************************************************)
EXTENDS Power, UpdateSlots, TLAPS

-----------------------------------------------------------------------------
(* Places a request passes after each part of the chain.                   *)

AfterQuiescence == {"enter_commit", "commit", "ps2", "triple_fault", "reset"}
AfterSync == {"enter_quiescence", "quiesce"} \cup AfterQuiescence
AfterNotification == {"enter_sync", "sync"} \cup AfterSync

\* The n-th callback of the chain run at "at" has returned.
Past(at, n, later) == (pc = at /\ turn > n) \/ pc \in later

\* The request exists exactly while the transaction is active.
Admitted == /\ tx.active <=> pc # "none"
            /\ tx.phase = "IDLE" <=> ~tx.active

\* No gate is closed before the first callback.
StillOpen == pc \in {"none", "enter_notification"} => \A g \in Gates : gate[g] = FALSE

\* The wait for the users belongs to the first callback.
WaitIsFirst == pc = "wait_users" => turn = 1

\* The hardware is commanded by the last steps only.
CommittingLast == tx.commit_started => pc \in {"ps2", "triple_fault", "reset"}

\* What each callback, once it has returned, leaves behind.
ProcessesClosed ==
  pc = "wait_users" \/ Past("notify", 1, AfterNotification) =>
    gate["process"] = TRUE /\ gate["supervisor"] = TRUE
UsersGone ==
  Past("notify", 1, AfterNotification) => \A u \in Users : user[u] = "none"
WorkqueueClosed == Past("notify", 2, AfterNotification) => gate["workqueue"] = TRUE
VfsClosed == Past("notify", 3, AfterNotification) => gate["vfs"] = TRUE
CacheClean ==
  pc \in AfterSync => \/ dirty = FALSE
                      \/ tx.unsynced = TRUE /\ "boot_volume" \notin methods
WorksDropped ==
  Past("quiesce", 2, AfterQuiescence) => \A w \in Works : work[w] = "dropped"
VolumesGone ==
  Past("quiesce", 3, AfterQuiescence) => mounted = {} /\ operation = FALSE
NetworkClosed ==
  Past("quiesce", 5, AfterQuiescence) => gate["network"] = TRUE \/ tx.degraded = TRUE

(***************************************************************************)
(* The inductive invariant. CommitIsPrepared speaks of the end of the      *)
(* chain alone; each step needs what the callbacks before it left behind.  *)
(***************************************************************************)
Inv ==
  /\ TypeOK /\ Admitted /\ StillOpen /\ WaitIsFirst /\ CommittingLast
  /\ ProcessesClosed /\ UsersGone /\ WorkqueueClosed /\ VfsClosed
  /\ CacheClean /\ WorksDropped /\ VolumesGone /\ NetworkClosed

-----------------------------------------------------------------------------
(* Facts about the clock, the chain and the gates.                         *)

\* After stays on the clock face.
LEMMA AfterIsTick ==
  ASSUME now \in Ticks, NEW n \in Nat
  PROVE  After(n) \in Ticks
<1>1. TickSpace \in Nat /\ TickSpace > 0
  BY BudgetAssumption
<1>2. now + n \in Int
  BY <1>1 DEF Ticks
<1> QED
  BY <1>1, <1>2 DEF After, Ticks

\* The start of a transaction and the budgets of its phases.
LEMMA BudgetsAreNat ==
  /\ Start \in Ticks /\ TotalBudget \in Nat
  /\ NotificationBudget \in Nat /\ SyncBudget \in Nat
  /\ QuiescenceBudget \in Nat /\ CommitBudget \in Nat
BY BudgetAssumption DEF Ticks, TotalBudget

\* The place of each participant in power_notifier_expected_names.
LEMMA ChainOrder ==
  ASSUME turn \in 1..7
  PROVE  /\ Participants[turn] = "processes" => turn = 1
         /\ Participants[turn] = "workqueue" => turn = 2
         /\ Participants[turn] = "vfs-storage" => turn = 3
         /\ Participants[turn] = "audio" => turn = 4
         /\ Participants[turn] = "network" => turn = 5
         /\ Participants[turn] = "video" => turn = 6
         /\ Participants[turn] = "done" <=> turn = 7
BY DEF Participants

-----------------------------------------------------------------------------
(* Every action preserves the invariant.                                   *)

\* A request that fails before the commit opens every gate and is gone.
LEMMA FailPreserves ==
  ASSUME Inv, Fail, pc \notin {"ps2", "triple_fault", "reset"},
         UNCHANGED <<methods, work, mounted, busy, operation, dirty>>,
         user' \in [Users -> {"none", "running", "in_vfs", "zombie"}]
  PROVE  Inv'
<1>1. tx.commit_started = FALSE
  BY DEF Inv, TypeOK, Transactions, CommittingLast
<1>2. /\ gate' = [g \in Gates |-> FALSE]
      /\ tx' = [tx EXCEPT !.active = FALSE, !.phase = "IDLE", !.target = "NONE",
                          !.degraded = FALSE, !.unsynced = FALSE,
                          !.deadline = Start, !.phase_deadline = Start]
      /\ pc' = "none" /\ turn' = 1 /\ now' = Start
  BY <1>1 DEF Fail
<1>3. TypeOK'
  <2>1. tx' \in Transactions
    BY <1>2, BudgetsAreNat DEF Inv, TypeOK, Transactions, Phases
  <2>2. gate' \in [Gates -> BOOLEAN]
    BY <1>2
  <2> QED
    BY <1>2, <2>1, <2>2, BudgetsAreNat DEF Inv, TypeOK
<1>4. tx'.active = FALSE /\ tx'.phase = "IDLE" /\ tx'.commit_started = FALSE
  BY <1>1, <1>2 DEF Inv, TypeOK, Transactions
<1> QED
  BY <1>2, <1>3, <1>4 DEF Inv, Admitted, StillOpen, WaitIsFirst, CommittingLast,
      ProcessesClosed, UsersGone, WorkqueueClosed, VfsClosed, CacheClean,
      WorksDropped, VolumesGone, NetworkClosed, Past, AfterNotification,
      AfterSync, AfterQuiescence

\* Abort is such a failure.
LEMMA AbortPreserves ==
  ASSUME Inv, NEW from, Abort(from), pc \notin {"ps2", "triple_fault", "reset"}
  PROVE  Inv'
BY FailPreserves DEF Abort, world, Inv, TypeOK

\* power_transaction_begin.
LEMMA BeginPreserves ==
  ASSUME Inv, NEW reboot \in BOOLEAN, Begin(reboot)
  PROVE  Inv'
<1>1. TypeOK'
  BY BudgetsAreNat, AfterIsTick DEF Begin, Inv, TypeOK, Transactions, Phases, world
<1>2. pc = "none" /\ pc' = "enter_notification" /\ gate' = gate
  BY DEF Begin, Inv, TypeOK, Admitted
<1>3. tx'.active = TRUE /\ tx'.phase = "ADMISSION" /\ tx'.commit_started = FALSE
  BY DEF Begin
<1> QED
  BY <1>1, <1>2, <1>3 DEF Inv, Admitted, StillOpen, WaitIsFirst, CommittingLast,
      ProcessesClosed, UsersGone, WorkqueueClosed, VfsClosed, CacheClean,
      WorksDropped, VolumesGone, NetworkClosed, Past, AfterNotification,
      AfterSync, AfterQuiescence

\* power_phase_enter, for the four phases.
LEMMA PhaseEnterPreserves ==
  ASSUME Inv, NEW from, NEW phase \in Phases \ {"IDLE"}, NEW budget \in Nat, NEW to,
         PhaseEnter(from, phase, budget, to),
         \/ from = "enter_notification" /\ to = "notify"
         \/ from = "enter_sync" /\ to = "sync"
         \/ from = "enter_quiescence" /\ to = "quiesce"
         \/ from = "enter_commit" /\ to = "commit"
  PROVE  Inv'
<1>1. CASE Abort(from)
  BY <1>1, AbortPreserves DEF Abort
<1>2. CASE /\ pc = from /\ CanEnter(budget)
           /\ tx' = [tx EXCEPT !.phase = phase, !.phase_deadline = After(budget)]
           /\ pc' = to /\ turn' = 1
           /\ UNCHANGED <<now, methods, gate, world>>
  <2>1. After(budget) \in Ticks
    BY AfterIsTick DEF Inv, TypeOK
  <2>2. /\ tx' \in Transactions
        /\ tx'.active = tx.active /\ tx'.phase # "IDLE"
        /\ tx'.commit_started = tx.commit_started /\ tx'.degraded = tx.degraded
        /\ tx'.unsynced = tx.unsynced
    BY <1>2, <2>1 DEF Inv, TypeOK, Transactions
  <2>3. tx.active = TRUE
    BY <1>2 DEF CanEnter, Inv, TypeOK, Transactions
  <2>4. TypeOK'
    BY <1>2, <2>2 DEF Inv, TypeOK, world
  <2> QED
    BY <1>2, <2>2, <2>3, <2>4 DEF world, Inv, Admitted, StillOpen, WaitIsFirst, CommittingLast,
      ProcessesClosed, UsersGone, WorkqueueClosed, VfsClosed, CacheClean,
      WorksDropped, VolumesGone, NetworkClosed, Past, AfterNotification,
      AfterSync, AfterQuiescence
<1> QED
  BY <1>1, <1>2 DEF PhaseEnter

\* A callback that returns moves the chain on and keeps the transaction.
LEMMA DoneFields ==
  ASSUME Inv, NEW unavailable \in BOOLEAN, Done(unavailable),
         turn # 7
  PROVE  /\ tx' \in Transactions /\ turn' = turn + 1 /\ turn' \in 1..7
         /\ tx'.active = tx.active /\ tx'.phase = tx.phase
         /\ tx'.commit_started = tx.commit_started /\ tx'.unsynced = tx.unsynced
         /\ tx.degraded = TRUE \/ unavailable = TRUE => tx'.degraded = TRUE
         /\ now' = now /\ methods' = methods
BY DEF Done, Inv, TypeOK, Transactions

\* power_notify_processes.
LEMMA NotifyProcessesPreserves ==
  ASSUME Inv, NotifyProcesses
  PROVE  Inv'
<1>1. CASE Abort("notify")
  BY <1>1, AbortPreserves DEF Abort
<1>2. CASE /\ gate' = [gate EXCEPT !["process"] = TRUE, !["supervisor"] = TRUE]
           /\ pc' = "wait_users"
           /\ UNCHANGED <<now, methods, tx, turn, world>>
  <2>1. pc = "notify" /\ turn = 1
    BY ChainOrder DEF NotifyProcesses, Turn, Inv, TypeOK
  <2>2. /\ gate' \in [Gates -> BOOLEAN]
        /\ gate'["process"] = TRUE /\ gate'["supervisor"] = TRUE
    BY <1>2 DEF Inv, TypeOK, Gates
  <2>3. TypeOK'
    BY <1>2, <2>2 DEF Inv, TypeOK, world
  <2> QED
    BY <1>2, <2>1, <2>2, <2>3 DEF world, Inv, Admitted, StillOpen, WaitIsFirst, CommittingLast,
      ProcessesClosed, UsersGone, WorkqueueClosed, VfsClosed, CacheClean,
      WorksDropped, VolumesGone, NetworkClosed, Past, AfterNotification,
      AfterSync, AfterQuiescence
<1> QED
  BY <1>1, <1>2 DEF NotifyProcesses

\* The end of process_power_shutdown_users.
LEMMA KillUsersPreserves ==
  ASSUME Inv, KillUsers
  PROVE  Inv'
<1>1. CASE /\ user' = [u \in Users |-> "none"] /\ pc' = "notify" /\ Done(FALSE)
           /\ UNCHANGED <<gate, work, mounted, busy, operation, dirty>>
  <2>1. pc = "wait_users" /\ turn = 1 /\ turn # 7
    BY DEF KillUsers, Inv, WaitIsFirst
  <2>2. /\ tx' \in Transactions /\ turn' = turn + 1 /\ turn' \in 1..7
        /\ tx'.active = tx.active /\ tx'.phase = tx.phase
        /\ tx'.commit_started = tx.commit_started /\ tx'.unsynced = tx.unsynced
        /\ now' = now /\ methods' = methods
    BY <1>1, <2>1, DoneFields
  <2>3. /\ user' \in [Users -> {"none", "running", "in_vfs", "zombie"}]
        /\ \A u \in Users : user'[u] = "none"
    BY <1>1
  <2>4. TypeOK'
    BY <1>1, <2>2, <2>3 DEF Inv, TypeOK
  <2> QED
    BY <1>1, <2>1, <2>2, <2>3, <2>4 DEF Inv, Admitted, StillOpen, WaitIsFirst, CommittingLast,
      ProcessesClosed, UsersGone, WorkqueueClosed, VfsClosed, CacheClean,
      WorksDropped, VolumesGone, NetworkClosed, Past, AfterNotification,
      AfterSync, AfterQuiescence
<1>2. CASE /\ user' = [u \in Users |-> IF user[u] = "in_vfs" THEN "running"
                                       ELSE IF user[u] = "running" THEN "zombie"
                                       ELSE user[u]]
           /\ Fail
           /\ UNCHANGED <<methods, work, mounted, busy, operation, dirty>>
  <2>1. user' \in [Users -> {"none", "running", "in_vfs", "zombie"}]
    BY <1>2 DEF Inv, TypeOK
  <2>2. pc = "wait_users"
    BY DEF KillUsers
  <2> QED
    BY <1>2, <2>1, <2>2, FailPreserves
<1> QED
  BY <1>1, <1>2 DEF KillUsers

\* The gates of the workqueue and of the VFS are closed in their turns.
LEMMA NotifyGatePreserves ==
  ASSUME Inv, NotifyWorkqueue \/ NotifyVfs
  PROVE  Inv'
<1>1. pc = "notify" /\ turn # 7
  BY ChainOrder DEF NotifyWorkqueue, NotifyVfs, Turn, Inv, TypeOK
<1>2. /\ tx' \in Transactions /\ turn' = turn + 1 /\ turn' \in 1..7
      /\ tx'.active = tx.active /\ tx'.phase = tx.phase
      /\ tx'.commit_started = tx.commit_started /\ tx'.unsynced = tx.unsynced
      /\ tx.degraded = TRUE => tx'.degraded = TRUE
      /\ now' = now /\ methods' = methods
  BY <1>1, DoneFields DEF NotifyWorkqueue, NotifyVfs
<1>3. gate' \in [Gates -> BOOLEAN] /\ \A g \in Gates : gate[g] = TRUE => gate'[g] = TRUE
  BY ZenonT(60) DEF NotifyWorkqueue, NotifyVfs, Inv, TypeOK, Gates
<1>4. /\ turn = 2 => gate'["workqueue"] = TRUE
      /\ turn = 3 => gate'["vfs"] = TRUE
      /\ turn \in {2, 3}
  <2>1. CASE NotifyWorkqueue
    <3>1. turn = 2
      BY <2>1, ChainOrder DEF NotifyWorkqueue, Turn, Inv, TypeOK
    <3>2. gate'["workqueue"] = TRUE
      BY <2>1 DEF NotifyWorkqueue, Inv, TypeOK, Gates
    <3> QED
      BY <3>1, <3>2
  <2>2. CASE NotifyVfs
    <3>1. turn = 3
      BY <2>2, ChainOrder DEF NotifyVfs, Turn, Inv, TypeOK
    <3>2. gate'["vfs"] = TRUE
      BY <2>2 DEF NotifyVfs, Inv, TypeOK, Gates
    <3> QED
      BY <3>1, <3>2
  <2> QED
    BY <2>1, <2>2
<1>5. pc' = pc /\ UNCHANGED world
  BY DEF NotifyWorkqueue, NotifyVfs
<1>6. TypeOK'
  BY <1>2, <1>3, <1>5 DEF Inv, TypeOK, world
<1> QED
  BY <1>1, <1>2, <1>3, <1>4, <1>5, <1>6 DEF Gates, world, Inv,
      Admitted, StillOpen, WaitIsFirst, CommittingLast,
      ProcessesClosed, UsersGone, WorkqueueClosed, VfsClosed, CacheClean,
      WorksDropped, VolumesGone, NetworkClosed, Past, AfterNotification,
      AfterSync, AfterQuiescence

\* power_noop_notifier and the empty callback of the processes.
LEMMA NothingPreserves ==
  ASSUME Inv, NotifyNothing \/ QuiesceProcesses
  PROVE  Inv'
<1>1. /\ turn # 7
      /\ \/ pc = "notify" /\ turn \in 4..6
         \/ pc = "quiesce" /\ turn = 1
  <2>0. turn \in 1..7
    BY DEF Inv, TypeOK
  <2>1. CASE NotifyNothing
    <3>1. PICK p \in Optional : Turn("notify", p)
      BY <2>1 DEF NotifyNothing
    <3>2. pc = "notify" /\ Participants[turn] \in {"audio", "network", "video"}
      BY <3>1 DEF Turn, Optional
    <3> QED
      BY <2>0, <3>2, ChainOrder
  <2>2. CASE QuiesceProcesses
    BY <2>0, <2>2, ChainOrder DEF QuiesceProcesses, Turn
  <2> QED
    BY <2>1, <2>2
<1>2. /\ tx' \in Transactions /\ turn' = turn + 1 /\ turn' \in 1..7
      /\ tx'.active = tx.active /\ tx'.phase = tx.phase
      /\ tx'.commit_started = tx.commit_started /\ tx'.unsynced = tx.unsynced
      /\ tx.degraded = TRUE => tx'.degraded = TRUE
      /\ now' = now /\ methods' = methods
  BY <1>1, DoneFields DEF NotifyNothing, QuiesceProcesses
<1>3. UNCHANGED <<pc, gate, world>>
  BY DEF NotifyNothing, QuiesceProcesses
<1>4. TypeOK'
  BY <1>2, <1>3 DEF Inv, TypeOK, world
<1> QED
  BY <1>1, <1>2, <1>3, <1>4 DEF world, Inv,
      Admitted, StillOpen, WaitIsFirst, CommittingLast,
      ProcessesClosed, UsersGone, WorkqueueClosed, VfsClosed, CacheClean,
      WorksDropped, VolumesGone, NetworkClosed, Past, AfterNotification,
      AfterSync, AfterQuiescence

\* The end of each chain, and the flush between them.
LEMMA EndPreserves ==
  ASSUME Inv, EndNotification \/ SyncFlush \/ EndQuiescence \/ Overrun \/ NetworkFails
  PROVE  Inv'
<1>1. CASE Abort(pc) /\ pc \in {"notify", "sync", "quiesce"}
  BY <1>1, AbortPreserves
<1>2. CASE /\ UNCHANGED <<now, methods, tx, turn, gate, user, work, mounted, busy, operation>>
           /\ UNCHANGED dirty
           /\ \/ pc = "notify" /\ turn = 7 /\ pc' = "enter_sync"
              \/ pc = "quiesce" /\ turn = 7 /\ pc' = "enter_commit"
  <2>1. TypeOK'
    BY <1>2 DEF Inv, TypeOK
  <2>2. CASE pc = "notify" /\ turn = 7 /\ pc' = "enter_sync"
    BY <1>2, <2>1, <2>2 DEF Inv,
      Admitted, StillOpen, WaitIsFirst, CommittingLast,
      ProcessesClosed, UsersGone, WorkqueueClosed, VfsClosed, CacheClean,
      WorksDropped, VolumesGone, NetworkClosed, Past, AfterNotification,
      AfterSync, AfterQuiescence
  <2>3. CASE pc = "quiesce" /\ turn = 7 /\ pc' = "enter_commit"
    <3>1. dirty = FALSE \/ (tx.unsynced = TRUE /\ "boot_volume" \notin methods)
      BY <2>3 DEF Inv, CacheClean, AfterSync
    <3>2. /\ \A u \in Users : user[u] = "none"
          /\ gate["process"] = TRUE /\ gate["supervisor"] = TRUE
          /\ gate["workqueue"] = TRUE /\ gate["vfs"] = TRUE
      BY <2>3 DEF Inv, ProcessesClosed, UsersGone, WorkqueueClosed, VfsClosed,
                  Past, AfterNotification, AfterSync
    <3>3. /\ \A w \in Works : work[w] = "dropped"
          /\ mounted = {} /\ operation = FALSE
          /\ gate["network"] = TRUE \/ tx.degraded = TRUE
      BY <2>3 DEF Inv, WorksDropped, VolumesGone, NetworkClosed, Past
    <3> QED
      BY <1>2, <2>1, <2>3, <3>1, <3>2, <3>3 DEF Inv,
        Admitted, StillOpen, WaitIsFirst, CommittingLast,
        ProcessesClosed, UsersGone, WorkqueueClosed, VfsClosed, CacheClean,
        WorksDropped, VolumesGone, NetworkClosed, Past, AfterNotification,
        AfterSync, AfterQuiescence
  <2> QED
    BY <1>2, <2>2, <2>3
<1>3. CASE /\ pc = "sync" /\ pc' = "enter_quiescence"
           /\ UNCHANGED <<now, methods, turn, gate, user, work, mounted, busy, operation>>
           /\ \/ dirty' = FALSE /\ UNCHANGED tx
              \/ /\ "boot_volume" \notin methods
                 /\ dirty' \in {dirty, FALSE}
                 /\ tx' = [tx EXCEPT !.unsynced = TRUE]
  <2>1. /\ tx' \in Transactions
        /\ tx'.active = tx.active /\ tx'.phase = tx.phase
        /\ tx'.commit_started = tx.commit_started /\ tx'.degraded = tx.degraded
        /\ dirty' = FALSE \/ (tx'.unsynced = TRUE /\ "boot_volume" \notin methods)
    BY <1>3 DEF Inv, TypeOK, Transactions
  <2>2. TypeOK'
    BY <1>3, <2>1 DEF Inv, TypeOK
  <2> QED
    BY <1>3, <2>1, <2>2 DEF Inv,
      Admitted, StillOpen, WaitIsFirst, CommittingLast,
      ProcessesClosed, UsersGone, WorkqueueClosed, VfsClosed, CacheClean,
      WorksDropped, VolumesGone, NetworkClosed, Past, AfterNotification,
      AfterSync, AfterQuiescence
<1>4. CASE SyncFlush
  BY <1>1, <1>3, <1>4 DEF SyncFlush, Abort
<1>5. CASE EndNotification \/ EndQuiescence \/ Overrun \/ NetworkFails
  BY <1>1, <1>2, <1>5, ChainOrder
  DEF EndNotification, EndQuiescence, Overrun, NetworkFails, Turn,
      Abort, Inv, TypeOK, world
<1> QED
  BY <1>4, <1>5

\* workqueue_power_quiesce_until.
LEMMA QuiesceWorkqueuePreserves ==
  ASSUME Inv, QuiesceWorkqueue
  PROVE  Inv'
<1>0. CASE Abort("quiesce")
  BY <1>0, AbortPreserves DEF Abort
<1>a. CASE /\ work' = [w \in Works |-> "dropped"]
           /\ gate' = [gate EXCEPT !["workqueue"] = TRUE]
           /\ Done(FALSE)
           /\ UNCHANGED <<pc, user, mounted, busy, operation, dirty>>
  <2>1. pc = "quiesce" /\ turn = 2 /\ turn # 7
    BY ChainOrder DEF QuiesceWorkqueue, Turn, Inv, TypeOK
  <2>2. /\ tx' \in Transactions /\ turn' = turn + 1 /\ turn' \in 1..7
        /\ tx'.active = tx.active /\ tx'.phase = tx.phase
        /\ tx'.commit_started = tx.commit_started /\ tx'.unsynced = tx.unsynced
        /\ now' = now /\ methods' = methods
    BY <1>a, <2>1, DoneFields
  <2>3. gate' \in [Gates -> BOOLEAN] /\ \A g \in Gates : gate[g] = TRUE => gate'[g] = TRUE
    BY <1>a DEF Inv, TypeOK, Gates
  <2>4. /\ work' \in [Works -> {"scheduled", "running", "dropped"}]
        /\ \A w \in Works : work'[w] = "dropped"
    BY <1>a
  <2>5. TypeOK'
    BY <1>a, <2>2, <2>3, <2>4 DEF Inv, TypeOK
  <2> QED
    BY <1>a, <2>1, <2>2, <2>3, <2>4, <2>5 DEF Gates, Inv,
      Admitted, StillOpen, WaitIsFirst, CommittingLast,
      ProcessesClosed, UsersGone, WorkqueueClosed, VfsClosed, CacheClean,
      WorksDropped, VolumesGone, NetworkClosed, Past, AfterNotification,
      AfterSync, AfterQuiescence
<1> QED
  BY <1>0, <1>a DEF QuiesceWorkqueue

\* vfs_power_unmount_storage_until.
LEMMA QuiesceVfsPreserves ==
  ASSUME Inv, QuiesceVfs
  PROVE  Inv'
<1>0. pc = "quiesce" /\ turn = 3 /\ turn # 7
  BY ChainOrder DEF QuiesceVfs, Turn, Inv, TypeOK
<1>1. CASE Abort("quiesce")
  BY <1>0, <1>1, AbortPreserves
<1>2. CASE \E v \in mounted :
             /\ v \notin busy
             /\ mounted' = mounted \ {v}
             /\ UNCHANGED <<now, methods, tx, pc, turn, gate, user, work,
                            busy, operation, dirty>>
  <2>1. TypeOK'
    BY <1>2 DEF Inv, TypeOK
  <2> QED
    BY <1>0, <1>2, <2>1 DEF Inv,
      Admitted, StillOpen, WaitIsFirst, CommittingLast,
      ProcessesClosed, UsersGone, WorkqueueClosed, VfsClosed, CacheClean,
      WorksDropped, VolumesGone, NetworkClosed, Past, AfterNotification,
      AfterSync, AfterQuiescence
<1>3. CASE /\ ~operation /\ mounted = {}
           /\ Done(FALSE) /\ UNCHANGED <<pc, gate, world>>
  <2>1. /\ tx' \in Transactions /\ turn' = turn + 1 /\ turn' \in 1..7
        /\ tx'.active = tx.active /\ tx'.phase = tx.phase
        /\ tx'.commit_started = tx.commit_started /\ tx'.unsynced = tx.unsynced
        /\ now' = now /\ methods' = methods
    BY <1>0, <1>3, DoneFields
  <2>2. TypeOK'
    BY <1>3, <2>1 DEF Inv, TypeOK, world
  <2>3. operation' = FALSE /\ mounted' = {}
    BY <1>3 DEF world, Inv, TypeOK
  <2> QED
    BY <1>0, <1>3, <2>1, <2>2, <2>3 DEF world, Inv,
      Admitted, StillOpen, WaitIsFirst, CommittingLast,
      ProcessesClosed, UsersGone, WorkqueueClosed, VfsClosed, CacheClean,
      WorksDropped, VolumesGone, NetworkClosed, Past, AfterNotification,
      AfterSync, AfterQuiescence
<1> QED
  BY <1>1, <1>2, <1>3 DEF QuiesceVfs

\* power_quiesce_audio, the network and the video.
LEMMA QuiesceDevicesPreserves ==
  ASSUME Inv, QuiesceDevices
  PROVE  Inv'
<1>1. PICK p \in Optional, unavailable \in BOOLEAN, closed \in BOOLEAN :
        /\ Turn("quiesce", p)
        /\ closed \/ unavailable
        /\ gate' = [gate EXCEPT !["network"] = @ \/ (p = "network" /\ closed)]
        /\ Done(unavailable)
  BY DEF QuiesceDevices
<1>2. pc = "quiesce" /\ pc' = pc /\ UNCHANGED world
  BY <1>1 DEF QuiesceDevices, Turn
<1>3. /\ turn \in 4..6 /\ turn # 7
      /\ turn = 5 => p = "network"
  <2>1. turn \in 1..7 /\ Participants[turn] = p
    BY <1>1 DEF Turn, Inv, TypeOK
  <2>2. p \in {"audio", "network", "video"}
    BY DEF Optional
  <2> QED
    BY <2>1, <2>2, ChainOrder
<1>4. /\ tx' \in Transactions /\ turn' = turn + 1 /\ turn' \in 1..7
      /\ tx'.active = tx.active /\ tx'.phase = tx.phase
      /\ tx'.commit_started = tx.commit_started /\ tx'.unsynced = tx.unsynced
      /\ tx.degraded = TRUE \/ unavailable = TRUE => tx'.degraded = TRUE
      /\ now' = now /\ methods' = methods
  BY <1>1, <1>3, DoneFields
<1>5. gate' \in [Gates -> BOOLEAN] /\ \A g \in Gates : gate[g] = TRUE => gate'[g] = TRUE
  BY <1>1 DEF Inv, TypeOK, Gates
<1>6. turn = 5 => gate'["network"] = TRUE \/ tx'.degraded = TRUE
  BY <1>1, <1>3, <1>4 DEF Inv, TypeOK, Gates
<1>7. TypeOK'
  BY <1>2, <1>4, <1>5 DEF Inv, TypeOK, world
<1> QED
  BY <1>2, <1>3, <1>4, <1>5, <1>6, <1>7 DEF Gates, world, Inv,
      Admitted, StillOpen, WaitIsFirst, CommittingLast,
      ProcessesClosed, UsersGone, WorkqueueClosed, VfsClosed, CacheClean,
      WorksDropped, VolumesGone, NetworkClosed, Past, AfterNotification,
      AfterSync, AfterQuiescence

\* The commands to the hardware change nothing that was prepared.
LEMMA CommandPreserves ==
  ASSUME Inv, UNCHANGED <<now, methods, turn, gate, world>>,
         pc \in {"commit", "ps2", "triple_fault"},
         pc' \in {"ps2", "triple_fault", "reset"},
         tx' \in Transactions, tx'.active = tx.active, tx'.phase # "IDLE",
         tx'.degraded = tx.degraded, tx'.unsynced = tx.unsynced
  PROVE  Inv'
<1>1. TypeOK'
  BY DEF Inv, TypeOK, world
<1>2. tx.active = TRUE
  BY DEF Inv, TypeOK, Transactions, Admitted
<1> QED
  BY <1>1, <1>2 DEF world, Inv,
      Admitted, StillOpen, WaitIsFirst, CommittingLast,
      ProcessesClosed, UsersGone, WorkqueueClosed, VfsClosed, CacheClean,
      WorksDropped, VolumesGone, NetworkClosed, Past, AfterNotification,
      AfterSync, AfterQuiescence

\* power_reboot_commit.
LEMMA RebootCommitPreserves ==
  ASSUME Inv, RebootCommit
  PROVE  Inv'
<1>0. tx.phase # "IDLE" \/ pc = "none"
  BY DEF Inv, Admitted, TypeOK, Transactions
<1>1. ASSUME NEW method, NEW from \in {"commit", "ps2"},
             NEW to \in {"ps2", "triple_fault"}, Attempt(method, from, to)
      PROVE  Inv'
  <2>1. /\ tx' \in Transactions /\ tx'.active = tx.active
        /\ tx'.phase = tx.phase /\ tx'.degraded = tx.degraded
        /\ tx'.unsynced = tx.unsynced
    BY <1>1 DEF Attempt, Inv, TypeOK, Transactions
  <2>2. pc \in {"commit", "ps2"} /\ pc' \in {"ps2", "triple_fault", "reset"}
    BY <1>1 DEF Attempt
  <2>3. UNCHANGED <<now, methods, turn, gate, world>>
    BY <1>1 DEF Attempt
  <2> QED
    BY <1>0, <2>1, <2>2, <2>3, CommandPreserves
<1>2. CASE TripleFault
  <2>1. /\ tx' \in Transactions /\ tx'.active = tx.active
        /\ tx'.phase = "TERMINAL" /\ tx'.degraded = tx.degraded
        /\ tx'.unsynced = tx.unsynced
    BY <1>2 DEF TripleFault, Inv, TypeOK, Transactions, Phases
  <2>2. pc = "triple_fault" /\ pc' = "reset"
    BY <1>2 DEF TripleFault
  <2>3. UNCHANGED <<now, methods, turn, gate, world>>
    BY <1>2 DEF TripleFault
  <2> QED
    BY <2>1, <2>2, <2>3, CommandPreserves
<1> QED
  BY <1>1, <1>2 DEF RebootCommit

\* acpi_poweroff refuses or does not return.
LEMMA PowerOffPreserves ==
  ASSUME Inv, PowerOff
  PROVE  Inv'
<1>1. CASE Abort("commit")
  BY <1>1, AbortPreserves DEF Abort
<1>2. CASE pc = "commit" /\ pc' = "reset" /\ UNCHANGED <<now, methods, tx, turn, gate, world>>
  <2>1. tx \in Transactions /\ tx.phase # "IDLE"
    BY <1>2 DEF Inv, TypeOK, Transactions, Admitted
  <2> QED
    BY <1>2, <2>1, CommandPreserves
<1> QED
  BY <1>1, <1>2 DEF PowerOff

\* The other tasks have the CPU only where the invariant asks nothing of them.
LEMMA OthersPreserves ==
  ASSUME Inv, Others
  PROVE  Inv'
<1>1. pc \in {"none", "wait_users"} /\ UNCHANGED <<now, methods, tx, pc, turn, gate>>
  BY DEF Others, OthersRun
<1> DEFINE WorldOK ==
      /\ user' \in [Users -> {"none", "running", "in_vfs", "zombie"}]
      /\ work' \in [Works -> {"scheduled", "running", "dropped"}]
      /\ mounted' \subseteq Volumes /\ busy' \subseteq mounted'
      /\ operation' \in BOOLEAN /\ dirty' \in BOOLEAN
<1>2. WorldOK
  <2>1. ASSUME NEW u \in Users, Launch(u) \/ UserExit(u) \/ Reap(u) \/ UserVfs(u)
        PROVE  WorldOK
    BY <2>1 DEF Launch, UserExit, Reap, UserVfs, Inv, TypeOK
  <2>2. ASSUME NEW v \in Volumes, UseVolume(v) \/ Mount(v) \/ Unmount(v)
        PROVE  WorldOK
    BY <2>2 DEF UseVolume, Mount, Unmount, Inv, TypeOK
  <2>3. ASSUME KernelVfs \/ Write
        PROVE  WorldOK
    BY <2>3 DEF KernelVfs, Write, Inv, TypeOK
  <2>4. ASSUME NEW w \in Works, RunWork(w) \/ FinishWork(w)
        PROVE  WorldOK
    BY <2>4 DEF RunWork, FinishWork, Inv, TypeOK
  <2> QED
    BY <2>1, <2>2, <2>3, <2>4 DEF Others
<1>3. TypeOK'
  BY <1>1, <1>2 DEF Inv, TypeOK
<1> QED
  BY <1>1, <1>3 DEF Inv,
      Admitted, StillOpen, WaitIsFirst, CommittingLast,
      ProcessesClosed, UsersGone, WorkqueueClosed, VfsClosed, CacheClean,
      WorksDropped, VolumesGone, NetworkClosed, Past, AfterNotification,
      AfterSync, AfterQuiescence

\* The timer interrupt moves the clock only.
LEMMA TickPreserves ==
  ASSUME Inv, Tick
  PROVE  Inv'
<1>1. now' \in Ticks
  BY AfterIsTick DEF Tick, Inv, TypeOK
<1>2. UNCHANGED <<methods, tx, pc, turn, gate, world>>
  BY DEF Tick
<1>3. TypeOK'
  BY <1>1, <1>2 DEF Inv, TypeOK, world
<1> QED
  BY <1>2, <1>3 DEF world, Inv,
      Admitted, StillOpen, WaitIsFirst, CommittingLast,
      ProcessesClosed, UsersGone, WorkqueueClosed, VfsClosed, CacheClean,
      WorksDropped, VolumesGone, NetworkClosed, Past, AfterNotification,
      AfterSync, AfterQuiescence

-----------------------------------------------------------------------------
(* The theorems.                                                           *)

\* The machine starts with no transaction and every gate open.
LEMMA InitImpliesInv == Init => Inv
<1> SUFFICES ASSUME Init PROVE Inv
  OBVIOUS
<1>1. tx \in Transactions
  BY BudgetsAreNat DEF Init, Transactions, Phases
<1>2. TypeOK
  <2>1. gate \in [Gates -> BOOLEAN]
    BY DEF Init
  <2>2. user \in [Users -> {"none", "running", "in_vfs", "zombie"}]
    BY DEF Init
  <2>3. work \in [Works -> {"scheduled", "running", "dropped"}]
    BY DEF Init
  <2>4. now \in Ticks /\ methods \in Machines /\ turn \in 1..7
    BY BudgetsAreNat DEF Init
  <2>5. pc = "none" /\ mounted = Volumes /\ busy = {}
    BY DEF Init
  <2>6. operation = FALSE /\ dirty = FALSE
    BY DEF Init
  <2> QED
    BY <1>1, <2>1, <2>2, <2>3, <2>4, <2>5, <2>6 DEF TypeOK
<1> QED
  BY <1>2 DEF Init, Inv, Admitted, StillOpen, WaitIsFirst, CommittingLast,
      ProcessesClosed, UsersGone, WorkqueueClosed, VfsClosed, CacheClean,
      WorksDropped, VolumesGone, NetworkClosed, Past, AfterNotification,
      AfterSync, AfterQuiescence

\* Nothing the request, the other tasks or the timer do breaks the invariant.
LEMMA NextPreservesInv == Inv /\ [Next]_vars => Inv'
<1> SUFFICES ASSUME Inv, [Next]_vars PROVE Inv'
  OBVIOUS
<1>1. CASE \E reboot \in BOOLEAN : Begin(reboot)
  BY <1>1, BeginPreserves
<1>2. CASE EnterNotification \/ EnterSync \/ EnterQuiescence \/ EnterCommit
  <2>1. CASE EnterNotification
    BY <2>1, PhaseEnterPreserves, BudgetsAreNat DEF EnterNotification, Phases
  <2>2. CASE EnterSync
    BY <2>2, PhaseEnterPreserves, BudgetsAreNat DEF EnterSync, Phases
  <2>3. CASE EnterQuiescence
    BY <2>3, PhaseEnterPreserves, BudgetsAreNat DEF EnterQuiescence, Phases
  <2>4. CASE EnterCommit
    BY <2>4, PhaseEnterPreserves, BudgetsAreNat DEF EnterCommit, Phases
  <2> QED
    BY <1>2, <2>1, <2>2, <2>3, <2>4
<1>3. CASE NotifyProcesses
  BY <1>3, NotifyProcessesPreserves
<1>4. CASE KillUsers
  BY <1>4, KillUsersPreserves
<1>5. CASE NotifyWorkqueue \/ NotifyVfs
  BY <1>5, NotifyGatePreserves
<1>6. CASE NotifyNothing \/ QuiesceProcesses
  BY <1>6, NothingPreserves
<1>7. CASE EndNotification \/ SyncFlush \/ EndQuiescence \/ Overrun \/ NetworkFails
  BY <1>7, EndPreserves
<1>8. CASE QuiesceWorkqueue
  BY <1>8, QuiesceWorkqueuePreserves
<1>9. CASE QuiesceVfs
  BY <1>9, QuiesceVfsPreserves
<1>10. CASE QuiesceDevices
  BY <1>10, QuiesceDevicesPreserves
<1>11. CASE RebootCommit
  BY <1>11, RebootCommitPreserves
<1>12. CASE PowerOff
  BY <1>12, PowerOffPreserves
<1>13. CASE Others
  BY <1>13, OthersPreserves
<1>14. CASE Tick
  BY <1>14, TickPreserves
<1>15. CASE UNCHANGED vars
  <2>1. TypeOK'
    BY <1>15 DEF vars, Inv, TypeOK
  <2> QED
    BY <1>15, <2>1 DEF vars, Inv, Admitted, StillOpen, WaitIsFirst,
      CommittingLast, ProcessesClosed, UsersGone, WorkqueueClosed, VfsClosed,
      CacheClean, WorksDropped, VolumesGone, NetworkClosed, Past,
      AfterNotification, AfterSync, AfterQuiescence
<1> QED
  BY <1>1, <1>2, <1>3, <1>4, <1>5, <1>6, <1>7, <1>8, <1>9, <1>10, <1>11,
     <1>12, <1>13, <1>14, <1>15 DEF Next, Coordinator

\* The invariant holds in every state of every behaviour.
LEMMA InvHolds == Spec => []Inv
<1>1. Init => Inv
  BY InitImpliesInv
<1>2. Inv /\ [Next]_vars => Inv'
  BY NextPreservesInv
<1> QED
  BY <1>1, <1>2, PTL DEF Spec

\* At the end of the chain the invariant is what the commit asks for.
LEMMA InvImpliesPrepared == Inv => CommitIsPrepared
<1> SUFFICES ASSUME Inv, tx.commit_started \/ pc = "reset"
             PROVE  /\ \A g \in Gates : gate[g] \/ (g = "network" /\ tx.degraded)
                    /\ \A u \in Users : user[u] = "none"
                    /\ \A w \in Works : work[w] = "dropped"
                    /\ mounted = {} /\ ~operation
                    /\ dirty => tx.unsynced /\ "boot_volume" \notin methods
  BY DEF CommitIsPrepared
<1>1. pc \in {"ps2", "triple_fault", "reset"}
  BY DEF Inv, CommittingLast
<1>2. /\ gate["process"] = TRUE /\ gate["supervisor"] = TRUE
      /\ gate["workqueue"] = TRUE /\ gate["vfs"] = TRUE
      /\ \A u \in Users : user[u] = "none"
  BY <1>1 DEF Inv, ProcessesClosed, UsersGone, WorkqueueClosed, VfsClosed, Past,
              AfterNotification, AfterSync, AfterQuiescence
<1>3. /\ dirty = FALSE \/ (tx.unsynced = TRUE /\ "boot_volume" \notin methods)
      /\ mounted = {} /\ operation = FALSE
      /\ \A w \in Works : work[w] = "dropped"
      /\ gate["network"] = TRUE \/ tx.degraded = TRUE
  BY <1>1 DEF Inv, CacheClean, WorksDropped, VolumesGone, NetworkClosed, Past,
              AfterSync, AfterQuiescence
<1> QED
  BY <1>2, <1>3 DEF Gates

(***************************************************************************)
(* Whatever the number of users, works and volumes, the budgets and the    *)
(* tick the clock stood at, hardware is commanded by acpi_poweroff or      *)
(* after power_mark_commit_started on a machine that is quiet, and durable *)
(* unless power.c took a sync that ended in ERR_STATE as done, which needs *)
(* a machine without a pinned Storage volume.                              *)
(***************************************************************************)
THEOREM CommitOnPreparedMachine == Spec => []CommitIsPrepared
<1>1. Inv => CommitIsPrepared
  BY InvImpliesPrepared
<1> QED
  BY <1>1, InvHolds, PTL

(***************************************************************************)
(* An abort at any step opens every gate again: power_record_failure.      *)
(***************************************************************************)
THEOREM AbortReopensGates == Spec => []GatesFollowTheTransaction
<1>1. Inv => GatesFollowTheTransaction
  BY DEF Inv, Admitted, StillOpen, GatesFollowTheTransaction
<1> QED
  BY <1>1, InvHolds, PTL

\* The types of the state, for every value of the constants.
THEOREM PowerTypeCorrect == Spec => []TypeOK
<1>1. Inv => TypeOK
  BY DEF Inv
<1> QED
  BY <1>1, InvHolds, PTL

\* Once hardware was commanded only the commands and the timer are left.
LEMMA AfterCommand ==
  ASSUME Inv, Next, tx.commit_started \/ pc = "reset"
  PROVE  tx'.active /\ gate' = gate /\ (tx.commit_started => tx'.commit_started)
<1>1. pc \in {"ps2", "triple_fault", "reset"} /\ tx.active = TRUE
  BY DEF Inv, TypeOK, Transactions, CommittingLast, Admitted
<1>2. ~Others /\ ~(\E reboot \in BOOLEAN : Begin(reboot))
  BY <1>1 DEF Others, OthersRun, Begin
<1>3. ~(EnterNotification \/ EnterSync \/ EnterQuiescence \/ EnterCommit)
  BY <1>1 DEF EnterNotification, EnterSync, EnterQuiescence, EnterCommit, PhaseEnter
<1>4. ~(\/ NotifyProcesses \/ KillUsers \/ NotifyWorkqueue \/ NotifyVfs
        \/ NotifyNothing \/ EndNotification \/ Overrun \/ SyncFlush)
  BY <1>1 DEF NotifyProcesses, KillUsers, NotifyWorkqueue, NotifyVfs, NotifyNothing,
              EndNotification, Overrun, SyncFlush, Turn
<1>5. ~(\/ QuiesceProcesses \/ QuiesceWorkqueue \/ QuiesceVfs \/ QuiesceDevices
        \/ NetworkFails \/ EndQuiescence \/ PowerOff)
  BY <1>1 DEF QuiesceProcesses, QuiesceWorkqueue, QuiesceVfs, QuiesceDevices,
              NetworkFails, EndQuiescence, PowerOff, Turn
<1>6. CASE Tick
  BY <1>1, <1>6 DEF Tick
<1>7. CASE RebootCommit
  BY <1>1, <1>7 DEF RebootCommit, Attempt, TripleFault, Inv, TypeOK, Transactions
<1> QED
  BY <1>2, <1>3, <1>4, <1>5, <1>6, <1>7 DEF Next, Coordinator

(***************************************************************************)
(* No step after the first command to the hardware opens a gate or gives   *)
(* the transaction up: power_record_failure and the order of the methods   *)
(* in power_reboot_commit.                                                 *)
(***************************************************************************)
THEOREM NoReturnFromCommit == Spec => CommitIsIrrevocable
<1> DEFINE Kept == tx.commit_started \/ pc = "reset" =>
       tx'.active /\ gate' = gate /\ (tx.commit_started => tx'.commit_started)
<1>1. Inv /\ [Next]_vars => [Kept]_vars
  BY AfterCommand
<1>2. Spec => [][Kept]_vars
  BY <1>1, InvHolds, PTL DEF Spec
<1> QED
  BY <1>2 DEF CommitIsIrrevocable

-----------------------------------------------------------------------------

(***************************************************************************)
(* UpdateSlots: the inductive invariant SlotsInv. GeneralInv holds of      *)
(* every run, Copies while no state file is left with two entries, Calm    *)
(* while moreover the disk has reported no error.                          *)
(***************************************************************************)

(* What each file may hold, and the types of the rest of the state.        *)

StateEntries == States \cup {Torn}
WrittenJournals == [seq : Nat, phase : PREPARED..COMMITTED, target : Slots,
                    image : Images]
Contexts == [legacy : BOOLEAN, invalid : 0..NoSlot, noRetry : BOOLEAN,
             continue : BOOLEAN, slot : 0..NoSlot]
Boots == [slot : 0..NoSlot, handoff : StateEntries]

Kind(f) == CASE f \in {Sta(0), Sta(1)} -> StateEntries
             [] f \in {Jrn(0), Jrn(1)} -> WrittenJournals
             [] f \in {Slot(0), Slot(1)} -> Images \cup {Lost}
             [] f = Staging -> Images \cup {Partial}

\* The places of each operation.
StagePlaces == {"prepared", "staging", "begin", "data", "publish", "untemp",
                "verified", "abort"}
PendingPlaces == {"pending", "committed", "replicate"}
InitPlaces == {"republish", "discard", "unstage", "examine"}
ClearPlaces == {"clear0", "clear1"}
CancelPlaces == {"withdraw", "withdraw_copy"}
LoaderPlaces == {"loader", "attempt", "fail", "menu", "jump", "load"}
Session == StagePlaces \cup PendingPlaces \cup InitPlaces \cup ClearPlaces
             \cup CancelPlaces \cup {"confirm", "promote", "idle"}

\* Every entry of every file is of the file's kind.
DiskTyped(d) == DOMAIN d = Files /\ \A f \in Files : d[f] \in Seq(Kind(f))

Typed ==
  /\ DiskTyped(disk)
  /\ mem \in States /\ mj \in WrittenJournals \cup {NoJournal}
  /\ half \in {0, 1, 2, NothingOld}
  /\ bad \in BOOLEAN /\ failed \in BOOLEAN
  /\ run \in Boots /\ ctx \in Contexts
  /\ confirmed \in SUBSET Images /\ approved \in 0..MaxImage
  /\ starts \in Nat /\ errors \in Nat
  /\ doing \in Session \cup LoaderPlaces

\* The task and the journal in memory at each place.
Placed ==
  /\ doing \in StagePlaces \cup PendingPlaces => task = "stage"
  /\ doing \in InitPlaces => task = "init"
  /\ doing \in StagePlaces \cup PendingPlaces \cup (InitPlaces \ {"examine"}) =>
       mj \in WrittenJournals
  /\ doing \in LoaderPlaces => mj = NoJournal
  /\ doing \in {"confirm", "promote"} => mj = NoJournal /\ bad = FALSE
  /\ doing \in CancelPlaces => mj = NoJournal

(* A state file always has an entry, and a replacement between its halves  *)
(* has both, so that deleting the old entry never loses a state.           *)
Halved ==
  /\ \A i \in Slots : Len(disk[Sta(i)]) >= 1
  /\ half # 0 => doing \in Writes
  /\ half \in {1, 2} => Len(disk[Dest]) >= 2
  /\ half = NothingOld => doing \notin StateWrites \cup CopyWrites

(* What the loader found on the disk and still relies on: it attempts a    *)
(* candidate, or hands one over, only when both controls were read and no  *)
(* journal is left.                                                        *)
InLoader ==
  /\ doing \in {"attempt", "fail", "jump"} => ctx.legacy = FALSE
  /\ ctx.continue = TRUE => ctx.legacy = FALSE
  /\ (doing \in {"menu", "attempt", "fail", "jump"} /\ ctx.legacy = FALSE) =>
       ~JournalPresent(disk) /\ Readable(disk) # {}
  /\ doing \in {"attempt", "fail"} =>
       LET s == Selected(disk)
       IN ctx.slot \in Slots /\ (s.pending # NoSlot \/ s.boot # "NONE")
  /\ doing = "attempt" =>
       LET s == Selected(disk)
       IN s.attempts < AttemptLimit /\ s.rec[ctx.slot] > 0
  /\ (doing = "jump" /\ run.handoff.valid = TRUE) =>
        Selected(disk).boot # "NONE" /\ ctx.slot \in Slots
  /\ (run.handoff.valid = TRUE /\
       (doing \in InitPlaces \cup {"jump", "load", "confirm", "promote"}
         \/ (doing \in ClearPlaces /\ task = "init"))) => ~JournalPresent(disk)
  /\ doing = "promote" => run.handoff.valid = TRUE
  /\ run.handoff.valid = TRUE =>
       run.slot \in Slots /\ run.slot = run.handoff.attempt

(* An entry of a state file names as active an image of c, the confirmed   *)
(* ones, and as attempted one that has a record.                           *)
Entry(e, c) ==
  e.valid = TRUE =>
    /\ e.pending # e.active /\ e.rec[e.active] > 0 => e.rec[e.active] \in c
    /\ e.boot = "ATTEMPTED" => e.attempt \in Slots /\ e.rec[e.attempt] > 0

\* So does every entry of the state files, and the state in memory.
Entries ==
  /\ \A i \in Slots : \A n \in DOMAIN disk[Sta(i)] :
       Entry(disk[Sta(i)][n], confirmed)
  /\ mem.pending # mem.active /\ mem.rec[mem.active] > 0 =>
       mem.rec[mem.active] \in confirmed
  /\ mem.boot = "ATTEMPTED" /\ bad = FALSE =>
       mem.attempt \in Slots /\ mem.rec[mem.attempt] > 0

(* What staging, cancelling and confirming know of the slots: the target   *)
(* is the inactive one and what was verified, is pending or is promoted    *)
(* reads back from its slot.                                               *)
Staged ==
  /\ doing \in StagePlaces =>
       /\ mem.pending = NoSlot /\ mj.target = 1 - mem.active
       /\ mem.rec[mem.active] > 0
  /\ doing = "verified" => Holds(disk, mj.target, mj.image)
  /\ doing \in CancelPlaces \cup {"promote"} => mem.pending = NoSlot
  /\ doing \in CancelPlaces \cup PendingPlaces \cup {"promote", "republish"} =>
       mem.boot = "NONE"
  /\ (doing \in PendingPlaces \cup {"confirm", "idle"}
       \/ (doing \in ClearPlaces /\ task # "init")) =>
       (bad = FALSE /\ mem.pending \in Slots /\ mem.rec[mem.pending] > 0 =>
          Holds(disk, mem.pending, mem.rec[mem.pending]))
  /\ doing = "confirm" =>
       \A s \in Slots : mem.rec[s] > 0 => Holds(disk, s, mem.rec[s])
  /\ doing = "promote" => Holds(disk, mem.active, mem.rec[mem.active])
  /\ (doing = "loader" /\ approved # 0) => PreflightIsHonest

GeneralInv == Typed /\ Placed /\ Halved /\ InLoader /\ Entries /\ Staged

-----------------------------------------------------------------------------
(* The copies a reader can rely on: Copy(i) is state file i without the    *)
(* new entry of a replacement that is going on.                            *)

Writing(i) == half \in {1, 2} /\ Dest = Sta(i)
Copy(i) == IF Writing(i) THEN disk[Sta(i)][half] ELSE disk[Sta(i)][1]

\* No copy that can be read is newer.
NewestCopy(i) ==
  /\ Decodes(Copy(i))
  /\ \A j \in Slots : Decodes(Copy(j)) => Copy(j).seq <= Copy(i).seq

\* The starts a state accounts for, all of them when none is left to make.
Spent(e) == IF e.boot # "NONE" THEN e.attempts
            ELSE IF e.pending # NoSlot THEN 0 ELSE AttemptLimit

\* A start that is recorded and not yet made.
InFlight == IF doing = "jump" /\ run.handoff.valid = TRUE THEN 1 ELSE 0

\* The new entry of a state file is the state in memory.
NewEntryIsMem == \A i \in Slots : Writing(i) => disk[Sta(i)][3 - half] = mem

\* Copies of one sequence are the same.
CopiesAgree ==
  Decodes(Copy(0)) /\ Decodes(Copy(1)) /\ Copy(0).seq = Copy(1).seq =>
    Copy(0) = Copy(1)

\* The state in memory is no older than a copy, and newer until it is written.
MemIsNewest ==
  doing \in Session =>
    \A i \in Slots : Decodes(Copy(i)) =>
      /\ Copy(i).seq <= mem.seq
      /\ doing \in StateWrites => Copy(i).seq < mem.seq

\* The second copy is written over a first one that holds the same state.
FirstCopyWritten ==
  doing \in CopyWrites \cup {"committed"} => Copy(mem.seq % 2) = mem

(* What is about to be written decodes, and so does what the kernel runs   *)
(* with unless it found it bad or a journal it could not settle.           *)
MemDecodes ==
  /\ doing \in PendingPlaces \cup CancelPlaces \cup {"promote"} => Decodes(mem)
  /\ doing \in Session /\ bad = FALSE =>
       \/ Decodes(mem)
       \/ mj # NoJournal /\ doing \in {"republish", "examine", "idle"}

\* Every start of the candidate is counted in the newest copy.
StartsCounted ==
  /\ starts + InFlight <= AttemptLimit
  /\ \A i \in Slots : NewestCopy(i) => starts + InFlight <= Spent(Copy(i))
  /\ half # 0 /\ doing \in {"pending", "republish"} => starts = 0

Copies == /\ NewEntryIsMem /\ CopiesAgree /\ MemIsNewest
          /\ FirstCopyWritten /\ MemDecodes /\ StartsCounted

(* The newest copy's active slot holds its image, every journal targets    *)
(* the other slot and the state in memory names the same active image, but *)
(* for the promotion.                                                      *)
Calm ==
  /\ \E i \in Slots : Decodes(Copy(i))
  /\ doing = "republish" => Decodes(mem)
  /\ \A i \in Slots : NewestCopy(i) =>
       LET e == Copy(i)
       IN /\ Holds(disk, e.active, e.rec[e.active])
          /\ \A j \in Slots : \A n \in DOMAIN disk[Jrn(j)] :
               disk[Jrn(j)][n].target = 1 - e.active
          /\ mj # NoJournal => mj.target = 1 - e.active
          /\ doing \in Session \ {"promote"} =>
               mem.active = e.active /\ mem.rec[mem.active] = e.rec[e.active]

\* The inductive invariant.
SlotsInv ==
  /\ GeneralInv
  /\ Undoubled => Copies
  /\ Undoubled /\ errors = 0 => Calm

-----------------------------------------------------------------------------
(* Files and entries.                                                      *)

(* The seven files of the volume are apart: two state copies, two          *)
(* journals, two slots and the staging file.                               *)
LEMMA FileNames ==
  /\ Staging \in Files
  /\ \A i \in Slots : {Sta(i), Jrn(i), Slot(i)} \subseteq Files
  /\ \A i, j \in Slots :
       /\ Sta(i) # Jrn(j) /\ Sta(i) # Slot(j) /\ Jrn(i) # Slot(j)
       /\ Sta(i) # Staging /\ Jrn(i) # Staging /\ Slot(i) # Staging
       /\ Sta(i) = Sta(j) => i = j
       /\ Jrn(i) = Jrn(j) => i = j
       /\ Slot(i) = Slot(j) => i = j
  /\ \A f \in Files : f = Staging \/ \E i \in Slots : f \in {Sta(i), Jrn(i), Slot(i)}
  BY DEF Files, Sta, Jrn, Slot, Staging, Slots

\* What each file may hold.
LEMMA Kinds ==
  /\ Kind(Staging) = Images \cup {Partial}
  /\ \A i \in Slots : /\ Kind(Sta(i)) = StateEntries
                      /\ Kind(Jrn(i)) = WrittenJournals
                      /\ Kind(Slot(i)) = Images \cup {Lost}
  BY FileNames DEF Kind, Slots

\* What a concatenation holds at each place.
LEMMA Concat ==
  ASSUME NEW S, NEW a \in Seq(S), NEW b \in Seq(S)
  PROVE  /\ a \o b \in Seq(S) /\ Len(a \o b) = Len(a) + Len(b)
         /\ \A n \in 1..(Len(a) + Len(b)) :
              (a \o b)[n] = IF n <= Len(a) THEN a[n] ELSE b[n - Len(a)]
  OBVIOUS

(* What InsertAt leaves at each place: how a replacement's new directory   *)
(* entry goes before or after the old one.                                 *)
LEMMA Inserted ==
  ASSUME NEW S, NEW s \in Seq(S), NEW e \in S, NEW at \in 1..(Len(s) + 1)
  PROVE  /\ InsertAt(s, at, e) \in Seq(S)
         /\ Len(InsertAt(s, at, e)) = Len(s) + 1
         /\ \A n \in 1..(Len(s) + 1) : InsertAt(s, at, e)[n] =
               IF n < at THEN s[n] ELSE IF n = at THEN e ELSE s[n - 1]
<1> DEFINE a == SubSeq(s, 1, at - 1)
           b == SubSeq(s, at, Len(s))
           v == <<e>>
           u == a \o v
           t == u \o b
<1>1. /\ a \in Seq(S) /\ Len(a) = at - 1 /\ \A n \in 1..(at - 1) : a[n] = s[n]
      /\ b \in Seq(S) /\ Len(b) = Len(s) - at + 1
      /\ \A n \in 1..(Len(s) - at + 1) : b[n] = s[n + at - 1]
  OBVIOUS
<1>2. v \in Seq(S) /\ Len(v) = 1 /\ v[1] = e
  OBVIOUS
<1>3. InsertAt(s, at, e) = t
  BY DEF InsertAt
<1>4. Len(s) \in Nat /\ at \in Nat /\ at >= 1 /\ at <= Len(s) + 1
  OBVIOUS
<1> HIDE DEF a, b, v
<1>5. /\ u \in Seq(S) /\ Len(u) = Len(a) + Len(v)
      /\ \A n \in 1..(Len(a) + Len(v)) :
           u[n] = IF n <= Len(a) THEN a[n] ELSE v[n - Len(a)]
  <2>1. a \in Seq(S) /\ v \in Seq(S)
    BY <1>1, <1>2
  <2> QED BY <2>1, Concat, Zenon
<1> HIDE DEF u
<1>6. /\ t \in Seq(S) /\ Len(t) = Len(u) + Len(b)
      /\ \A n \in 1..(Len(u) + Len(b)) :
           t[n] = IF n <= Len(u) THEN u[n] ELSE b[n - Len(u)]
  <2>1. u \in Seq(S) /\ b \in Seq(S)
    BY <1>1, <1>5
  <2> QED BY <2>1, Concat, Zenon
<1> HIDE DEF t
<1>7. Len(u) = at /\ \A n \in 1..at : u[n] = IF n < at THEN s[n] ELSE e
  <2>1. Len(u) = at
    BY <1>1, <1>2, <1>4, <1>5
  <2>2. ASSUME NEW n \in 1..at, n < at PROVE u[n] = s[n]
    <3>1. n \in 1..(at - 1) /\ n \in 1..(Len(a) + Len(v)) /\ n <= Len(a)
      BY <1>1, <1>2, <1>4, <2>2
    <3>2. u[n] = a[n]
      BY <1>5, <3>1
    <3> QED BY <1>1, <3>1, <3>2
  <2>3. u[at] = e
    BY <1>1, <1>2, <1>4, <1>5
  <2> QED BY <1>4, <2>1, <2>2, <2>3
<1>8. Len(t) = Len(s) + 1
  BY <1>1, <1>4, <1>6, <1>7
<1>9. ASSUME NEW n \in 1..(Len(s) + 1)
      PROVE  t[n] = IF n < at THEN s[n] ELSE IF n = at THEN e ELSE s[n - 1]
  <2>1. n \in 1..(Len(u) + Len(b))
    BY <1>1, <1>4, <1>7
  <2>2. CASE n <= at
    BY <1>6, <1>7, <2>1, <2>2
  <2>3. CASE n > at
    <3>1. n - at \in 1..(Len(s) - at + 1) /\ (n - at) + at - 1 = n - 1
      BY <1>4, <2>3
    <3>2. t[n] = b[n - at]
      BY <1>4, <1>6, <1>7, <2>1, <2>3
    <3>3. b[n - at] = s[n - 1]
      BY <1>1, <3>1
    <3> QED BY <1>4, <2>3, <3>2, <3>3
  <2> QED BY <2>2, <2>3
<1> QED BY <1>3, <1>6, <1>8, <1>9

\* What RemoveAt leaves at each place: how the old directory entry goes.
LEMMA Removed ==
  ASSUME NEW S, NEW s \in Seq(S), NEW at \in 1..Len(s)
  PROVE  /\ RemoveAt(s, at) \in Seq(S) /\ Len(RemoveAt(s, at)) = Len(s) - 1
         /\ \A n \in 1..(Len(s) - 1) : RemoveAt(s, at)[n] =
              IF n < at THEN s[n] ELSE s[n + 1]
<1> DEFINE a == SubSeq(s, 1, at - 1)
           b == SubSeq(s, at + 1, Len(s))
           t == a \o b
<1>1. /\ a \in Seq(S) /\ Len(a) = at - 1 /\ \A n \in 1..(at - 1) : a[n] = s[n]
      /\ b \in Seq(S) /\ Len(b) = Len(s) - at
      /\ \A n \in 1..(Len(s) - at) : b[n] = s[n + at]
  OBVIOUS
<1>2. RemoveAt(s, at) = t
  BY DEF RemoveAt
<1>3. Len(s) \in Nat /\ at \in Nat /\ at >= 1 /\ at <= Len(s)
  OBVIOUS
<1> HIDE DEF a, b
<1>4. /\ t \in Seq(S) /\ Len(t) = Len(a) + Len(b)
      /\ \A n \in 1..(Len(a) + Len(b)) :
           t[n] = IF n <= Len(a) THEN a[n] ELSE b[n - Len(a)]
  BY <1>1, Concat, Zenon
<1> HIDE DEF t
<1>5. Len(t) = Len(s) - 1
  BY <1>1, <1>3, <1>4
<1>6. ASSUME NEW n \in 1..(Len(s) - 1)
      PROVE  t[n] = IF n < at THEN s[n] ELSE s[n + 1]
  BY <1>1, <1>3, <1>4, SMTT(30)
<1> QED BY <1>2, <1>4, <1>5, <1>6

\* A record that decodes is a state.
LEMMA DecodedIsState ==
  ASSUME NEW e \in StateEntries, Decodes(e)
  PROVE  e \in States
  BY DEF Decodes, StateEntries, Torn

(* The copy the loader and the kernel select is one they can read and none *)
(* is newer (recovery_controls_load).                                      *)
LEMMA Chosen ==
  ASSUME NEW d, DiskTyped(d), Readable(d) # {}
  PROVE  /\ Newest(d) \in Readable(d) /\ Newest(d) \in Slots
         /\ 1 - Newest(d) \in Slots
         /\ d[Sta(Newest(d))] # <<>>
         /\ Selected(d) = d[Sta(Newest(d))][1]
         /\ Selected(d) \in States /\ Decodes(Selected(d))
         /\ \A j \in Readable(d) : Head(d[Sta(j)]).seq <= Selected(d).seq
<1> DEFINE h(i) == Head(d[Sta(i)])
           Best(i) == \A j \in Readable(d) :
                        h(i).seq > h(j).seq \/ (h(i).seq = h(j).seq /\ i <= j)
<1>1. \A i \in Readable(d) : /\ i \in Slots /\ d[Sta(i)] \in Seq(StateEntries)
                             /\ d[Sta(i)] # <<>> /\ h(i) = d[Sta(i)][1]
                             /\ h(i) \in States /\ Decodes(h(i))
  <2> SUFFICES ASSUME NEW i \in Readable(d)
               PROVE  /\ i \in Slots /\ d[Sta(i)] \in Seq(StateEntries)
                      /\ d[Sta(i)] # <<>> /\ h(i) = d[Sta(i)][1]
                      /\ h(i) \in States /\ Decodes(h(i))
    OBVIOUS
  <2>1. i \in Slots /\ d[Sta(i)] # <<>> /\ Decodes(h(i))
    BY DEF Readable, Exists
  <2>2. d[Sta(i)] \in Seq(StateEntries)
    BY <2>1, FileNames, Kinds DEF DiskTyped
  <2>3. h(i) = d[Sta(i)][1] /\ h(i) \in StateEntries
    BY <2>1, <2>2
  <2> QED BY <2>1, <2>2, <2>3, DecodedIsState
<1>2. \A i \in Readable(d) : h(i).seq \in Nat
  BY <1>1 DEF States
<1>3. Readable(d) \subseteq {0, 1}
  BY DEF Readable, Slots
<1> HIDE DEF h
<1>4. \E i \in Readable(d) : Best(i)
  <2>1. CASE Readable(d) = {0}
    BY <2>1, <1>2
  <2>2. CASE Readable(d) = {1}
    BY <2>2, <1>2
  <2>3. CASE Readable(d) = {0, 1}
    BY <2>3, <1>2
  <2> QED BY <1>3, <2>1, <2>2, <2>3
<1>5. Newest(d) = CHOOSE i \in Readable(d) : Best(i)
  BY DEF Newest, h
<1>6. Newest(d) \in Readable(d) /\ Best(Newest(d))
  BY <1>4, <1>5, Zenon
<1>7. Selected(d) = h(Newest(d))
  BY DEF Selected, h
<1>8. \A j \in Readable(d) : h(j).seq <= Selected(d).seq
  BY <1>2, <1>6, <1>7
<1> QED
  BY <1>1, <1>6, <1>7, <1>8 DEF h, Slots

-----------------------------------------------------------------------------
(* The two halves of a replacement.                                        *)

\* A file that is written is one of the volume's, and so is what it gets.
LEMMA Destination ==
  ASSUME Typed, Placed, doing \in Writes
  PROVE  /\ Dest \in Files /\ Content \in Kind(Dest)
         /\ doing \in JournalWrites =>
              \E i \in Slots : Dest = Jrn(i) /\ Content = mj
         /\ doing \in StateWrites => /\ Dest = Sta(mem.seq % 2)
                                     /\ mem.seq % 2 \in Slots /\ Content = mem
         /\ doing \in CopyWrites => /\ Dest = Sta(1 - (mem.seq % 2))
                                    /\ 1 - (mem.seq % 2) \in Slots /\ Content = mem
         /\ doing = "publish" => Dest = Slot(mj.target) /\ Content = mj.image
<1>1. doing \in JournalWrites \/ doing \in StateWrites \/ doing \in CopyWrites
        \/ doing = "publish"
  BY DEF Writes
<1>2. mem.seq \in Nat /\ mem \in StateEntries
  BY DEF Typed, States, StateEntries
<1>3. mem.seq % 2 \in Slots /\ 1 - (mem.seq % 2) \in Slots
  <2>1. mem.seq % 2 = 0 \/ mem.seq % 2 = 1
    BY <1>2
  <2> QED BY <2>1 DEF Slots
<1>4. CASE doing \in JournalWrites
  <2>1. Dest = Jrn(mj.seq % 2) /\ Content = mj
    BY <1>4 DEF Dest, Content, StateWrites, JournalWrites, CopyWrites
  <2>2. mj \in WrittenJournals /\ mj.seq \in Nat
    BY <1>4
       DEF Placed, WrittenJournals, JournalWrites, StagePlaces, PendingPlaces
  <2>3. mj.seq % 2 \in Slots
    <3>1. mj.seq % 2 = 0 \/ mj.seq % 2 = 1
      BY <2>2
    <3> QED BY <3>1 DEF Slots
  <2> QED BY <1>4, <2>1, <2>2, <2>3, FileNames, Kinds
          DEF JournalWrites, StateWrites, CopyWrites
<1>5. CASE doing \in StateWrites
  <2>1. Dest = Sta(mem.seq % 2) /\ Content = mem
    BY <1>5 DEF Dest, Content, StateWrites, JournalWrites, CopyWrites
  <2> QED BY <1>2, <1>3, <1>5, <2>1, FileNames, Kinds
          DEF JournalWrites, StateWrites, CopyWrites
<1>6. CASE doing \in CopyWrites
  <2>1. Dest = Sta(1 - (mem.seq % 2)) /\ Content = mem
    BY <1>6 DEF Dest, Content, StateWrites, JournalWrites, CopyWrites
  <2> QED BY <1>2, <1>3, <1>6, <2>1, FileNames, Kinds
          DEF JournalWrites, StateWrites, CopyWrites
<1>7. CASE doing = "publish"
  <2>1. Dest = Slot(mj.target) /\ Content = mj.image
    BY <1>7 DEF Dest, Content, StateWrites, JournalWrites, CopyWrites
  <2>2. mj.target \in Slots /\ mj.image \in Images
    BY <1>7 DEF Placed, WrittenJournals, StagePlaces
  <2> QED BY <1>7, <2>1, <2>2, FileNames, Kinds
          DEF JournalWrites, StateWrites, CopyWrites
<1> QED BY <1>1, <1>4, <1>5, <1>6, <1>7

\* The entries of a file of the volume.
LEMMA EntriesOf ==
  ASSUME NEW d, DiskTyped(d), NEW f \in Files
  PROVE  /\ d[f] \in Seq(Kind(f)) /\ Len(d[f]) \in Nat
         /\ DOMAIN d[f] = 1..Len(d[f])
         /\ d[f] = <<>> <=> Len(d[f]) = 0
         /\ \A n \in 1..Len(d[f]) : d[f][n] \in Kind(f)
         /\ d[f] # <<>> => Head(d[f]) = d[f][1]
<1>1. d[f] \in Seq(Kind(f))
  BY DEF DiskTyped
<1> QED BY <1>1

(* storage_delete_file removes a file's first entry and leaves the other   *)
(* files.                                                                  *)
LEMMA DeletedFacts ==
  ASSUME NEW d, DiskTyped(d), NEW f \in Files
  PROVE  /\ DiskTyped(Deleted(d, f))
         /\ \A g \in Files : g # f => Deleted(d, f)[g] = d[g]
         /\ Len(Deleted(d, f)[f]) = IF d[f] = <<>> THEN 0 ELSE Len(d[f]) - 1
         /\ \A n \in 1..Len(Deleted(d, f)[f]) : Deleted(d, f)[f][n] = d[f][n + 1]
<1> DEFINE v == IF d[f] = <<>> THEN d[f] ELSE Tail(d[f])
<1>1. d[f] \in Seq(Kind(f))
  BY DEF DiskTyped
<1>2. /\ v \in Seq(Kind(f))
      /\ Len(v) = IF d[f] = <<>> THEN 0 ELSE Len(d[f]) - 1
      /\ \A n \in 1..Len(v) : v[n] = d[f][n + 1]
  BY <1>1
<1>3. Deleted(d, f) = [d EXCEPT ![f] = v]
  BY DEF Deleted
<1> HIDE DEF v
<1>4. /\ DiskTyped(Deleted(d, f)) /\ Deleted(d, f)[f] = v
      /\ \A g \in Files : g # f => Deleted(d, f)[g] = d[g]
  BY <1>2, <1>3 DEF DiskTyped
<1> QED BY <1>2, <1>4

\* What the removal of the entry found before a replacement leaves.
LEMMA OldRemovedFacts ==
  ASSUME Typed, Placed, Halved
  PROVE  /\ DiskTyped(OldRemoved)
         /\ \A g \in Files : g # Dest => OldRemoved[g] = disk[g]
         /\ half \notin {1, 2} => OldRemoved = disk
         /\ half \in {1, 2} =>
              /\ doing \in Writes /\ Dest \in Files /\ Len(disk[Dest]) >= 2
              /\ Len(OldRemoved[Dest]) = Len(disk[Dest]) - 1
              /\ \A n \in 1..(Len(disk[Dest]) - 1) :
                   OldRemoved[Dest][n] = IF n < half THEN disk[Dest][n]
                                         ELSE disk[Dest][n + 1]
<1>0. DiskTyped(disk) /\ half \in {0, 1, 2, NothingOld}
  BY DEF Typed
<1>1. CASE half \notin {1, 2}
  <2>1. OldRemoved = disk
    BY <1>0, <1>1 DEF OldRemoved
  <2> QED BY <1>0, <1>1, <2>1
<1>2. CASE half \in {1, 2}
  <2>1. doing \in Writes /\ Len(disk[Dest]) >= 2
    BY <1>2 DEF Halved
  <2>2. Dest \in Files
    BY <2>1, Destination
  <2> DEFINE v == RemoveAt(disk[Dest], half)
  <2>3. OldRemoved = [disk EXCEPT ![Dest] = v]
    BY <1>2 DEF OldRemoved, NothingOld
  <2>4. disk[Dest] \in Seq(Kind(Dest)) /\ half \in 1..Len(disk[Dest])
    BY <1>0, <1>2, <2>1, <2>2, EntriesOf
  <2>5. /\ v \in Seq(Kind(Dest)) /\ Len(v) = Len(disk[Dest]) - 1
        /\ \A n \in 1..(Len(disk[Dest]) - 1) :
             v[n] = IF n < half THEN disk[Dest][n] ELSE disk[Dest][n + 1]
    BY <2>4, Removed, Zenon
  <2> HIDE DEF v
  <2>6. /\ DiskTyped(OldRemoved) /\ OldRemoved[Dest] = v
        /\ \A g \in Files : g # Dest => OldRemoved[g] = disk[g]
    BY <1>0, <2>2, <2>3, <2>5 DEF DiskTyped
  <2> QED BY <1>2, <2>1, <2>2, <2>5, <2>6
<1> QED BY <1>1, <1>2

(* A replacement's first half adds an entry with the new content to the    *)
(* file it writes and leaves the others.                                   *)
LEMMA PublishFacts ==
  ASSUME Typed, Placed, PublishEntry
  PROVE  /\ doing \in Writes /\ half = 0 /\ Dest \in Files
         /\ DiskTyped(disk')
         /\ \A g \in Files : g # Dest => disk'[g] = disk[g]
         /\ Len(disk'[Dest]) = Len(disk[Dest]) + 1
         /\ \A n \in 1..(Len(disk[Dest]) + 1) :
              \/ disk'[Dest][n] = Content
              \/ \E m \in 1..Len(disk[Dest]) : disk'[Dest][n] = disk[Dest][m]
         /\ half' \in {1, 2, NothingOld}
         /\ half' = NothingOld <=> disk[Dest] = <<>>
         /\ half' = 2 => disk'[Dest][1] = Content /\ disk'[Dest][2] = disk[Dest][1]
         /\ half' = 1 => /\ disk'[Dest][1] = disk[Dest][1]
                         /\ Len(disk[Dest]) = 1 => disk'[Dest][2] = Content
<1>1. doing \in Writes /\ half = 0 /\ DiskTyped(disk)
  BY DEF PublishEntry, Typed
<1>2. Dest \in Files /\ Content \in Kind(Dest)
  BY <1>1, Destination
<1>3. PICK at \in 1..(Len(disk[Dest]) + 1) :
        /\ disk' = [disk EXCEPT ![Dest] = InsertAt(@, at, Content)]
        /\ half' = IF disk[Dest] = <<>> THEN NothingOld
                   ELSE IF at = 1 THEN 2 ELSE 1
  BY DEF PublishEntry
<1> DEFINE s == disk[Dest]
           v == InsertAt(s, at, Content)
<1>4. s \in Seq(Kind(Dest)) /\ Len(s) \in Nat /\ (s = <<>> <=> Len(s) = 0)
  BY <1>1, <1>2, EntriesOf
<1>a. at \in 1..(Len(s) + 1)
  OBVIOUS
<1> HIDE DEF s
<1>5. /\ v \in Seq(Kind(Dest)) /\ Len(v) = Len(s) + 1
      /\ \A n \in 1..(Len(s) + 1) :
           v[n] = IF n < at THEN s[n] ELSE IF n = at THEN Content ELSE s[n - 1]
  <2> DEFINE K == Kind(Dest)
             e == Content
  <2>1. s \in Seq(K) /\ e \in K /\ at \in 1..(Len(s) + 1)
    BY <1>2, <1>4, <1>a
  <2> HIDE DEF K, e
  <2>2. /\ InsertAt(s, at, e) \in Seq(K)
        /\ Len(InsertAt(s, at, e)) = Len(s) + 1
    BY <2>1, Inserted, Zenon
  <2>3. ASSUME NEW n \in 1..(Len(s) + 1)
        PROVE  InsertAt(s, at, e)[n] =
                 IF n < at THEN s[n] ELSE IF n = at THEN e ELSE s[n - 1]
    BY <2>1, Inserted
  <2> QED BY <2>2, <2>3 DEF K, e
<1>6. disk' = [disk EXCEPT ![Dest] = v]
  BY <1>3 DEF s
<1> HIDE DEF v
<1>7. /\ DiskTyped(disk') /\ disk'[Dest] = v
      /\ \A g \in Files : g # Dest => disk'[g] = disk[g]
  BY <1>1, <1>2, <1>5, <1>6 DEF DiskTyped
<1>8. /\ half' \in {1, 2, NothingOld}
      /\ half' = NothingOld <=> s = <<>>
      /\ half' = 2 <=> s # <<>> /\ at = 1
  BY <1>3 DEF NothingOld, s
<1>9. \A n \in 1..(Len(s) + 1) : v[n] = Content \/ \E m \in 1..Len(s) : v[n] = s[m]
  BY <1>4, <1>a, <1>5
<1>10. half' = 2 => v[1] = Content /\ v[2] = s[1]
  BY <1>4, <1>a, <1>5, <1>8 DEF NothingOld
<1>11. half' = 1 => v[1] = s[1] /\ (Len(s) = 1 => v[2] = Content)
  BY <1>4, <1>a, <1>5, <1>8 DEF NothingOld
<1> QED BY <1>1, <1>2, <1>5, <1>7, <1>8, <1>9, <1>10, <1>11 DEF s

-----------------------------------------------------------------------------
(* The loader's control write.                                             *)

(* Discarding what was staged touches the staging file and the journal's   *)
(* target only.                                                            *)
LEMMA StagingDeletedFacts ==
  ASSUME DiskTyped(disk), mj \in WrittenJournals, StagingDeleted
  PROVE  /\ DiskTyped(disk')
         /\ \A g \in Files : g # Staging /\ g # Slot(mj.target) => disk'[g] = disk[g]
<1> DEFINE D == Deleted(disk, Staging)
           f == Slot(mj.target)
<1>1. mj.target \in Slots /\ f \in Files /\ f # Staging /\ Staging \in Files
  BY FileNames DEF WrittenJournals
<1>2. /\ DiskTyped(D)
      /\ \A g \in Files : g # Staging => D[g] = disk[g]
  BY <1>1, DeletedFacts
<1> HIDE DEF D
<1>3. CASE disk' = D
  BY <1>2, <1>3
<1>4. CASE \E n \in DOMAIN disk[f] : disk' = [D EXCEPT ![f][n] = Lost]
  <2>1. PICK n \in DOMAIN disk[f] : disk' = [D EXCEPT ![f][n] = Lost]
    BY <1>4
  <2> DEFINE v == [D[f] EXCEPT ![n] = Lost]
  <2>2. D[f] = disk[f] /\ D[f] \in Seq(Images \cup {Lost})
    BY <1>1, <1>2, EntriesOf, Kinds
  <2>3. v \in Seq(Images \cup {Lost})
    BY <2>2
  <2>4. disk' = [D EXCEPT ![f] = v]
    BY <2>1
  <2>5. v \in Seq(Kind(f))
    BY <1>1, <2>3, Kinds
  <2> HIDE DEF v, f
  <2>6. DiskTyped(disk') /\ \A g \in Files : g # f => disk'[g] = D[g]
    BY <1>1, <1>2, <2>4, <2>5 DEF DiskTyped
  <2> QED BY <1>2, <2>6 DEF f
<1> QED BY <1>3, <1>4 DEF StagingDeleted, D

\* The loader's control write goes to the copy it did not select.
LEMMA SectorFacts ==
  ASSUME DiskTyped(disk), Halved, Readable(disk) # {}, NEW v \in StateEntries
  PROVE  LET n == Newest(disk)
             d == Sector(v)
         IN /\ n \in Slots /\ 1 - n \in Slots
            /\ DiskTyped(d)
            /\ d[Sta(1 - n)][1] = v
            /\ Len(d[Sta(1 - n)]) = Len(disk[Sta(1 - n)])
            /\ \A m \in 1..Len(disk[Sta(1 - n)]) :
                 m # 1 => d[Sta(1 - n)][m] = disk[Sta(1 - n)][m]
            /\ \A g \in Files : g # Sta(1 - n) => d[g] = disk[g]
<1> DEFINE n == Newest(disk)
           f == Sta(1 - n)
           w == [disk[f] EXCEPT ![1] = v]
           d == Sector(v)
<1>1. n \in Slots /\ 1 - n \in Slots
  BY Chosen
<1> HIDE DEF n
<1>2. f \in Files /\ disk[f] \in Seq(StateEntries) /\ Len(disk[f]) >= 1
  BY <1>1, FileNames, Kinds, EntriesOf DEF Halved
<1>3. d = [disk EXCEPT ![f] = w]
  BY DEF Sector, TargetCopy, Alternate, n
<1>4. /\ w \in Seq(StateEntries) /\ w[1] = v /\ Len(w) = Len(disk[f])
      /\ \A m \in 1..Len(disk[f]) : m # 1 => w[m] = disk[f][m]
  BY <1>2
<1>5. w \in Seq(Kind(f))
  BY <1>1, <1>4, Kinds
<1> HIDE DEF f, w, d
<1>6. DiskTyped(d) /\ d[f] = w /\ \A g \in Files : g # f => d[g] = disk[g]
  BY <1>2, <1>3, <1>5 DEF DiskTyped
<1> QED BY <1>1, <1>4, <1>6 DEF f, d, n

\* The copy that is not rewritten can still be read; a newer decodable value
\* is what the loader selects from then on.
LEMMA SectorReads ==
  ASSUME DiskTyped(disk), Halved, Readable(disk) # {}, NEW v \in StateEntries
  PROVE  /\ Readable(Sector(v)) # {}
         /\ Decodes(v) /\ v.seq > Selected(disk).seq => Selected(Sector(v)) = v
<1> DEFINE n == Newest(disk)
           d == Sector(v)
<1>1. /\ n \in Slots /\ 1 - n \in Slots /\ DiskTyped(d)
      /\ d[Sta(1 - n)][1] = v
      /\ Len(d[Sta(1 - n)]) = Len(disk[Sta(1 - n)])
      /\ \A g \in Files : g # Sta(1 - n) => d[g] = disk[g]
  BY SectorFacts
<1>2. /\ n \in Readable(disk) /\ disk[Sta(n)] # <<>>
      /\ Selected(disk) = disk[Sta(n)][1] /\ Selected(disk) \in States
      /\ Decodes(Selected(disk))
  BY Chosen
<1> HIDE DEF n, d
<1>3. n # 1 - n /\ Slots = {n, 1 - n}
  BY <1>1 DEF Slots
<1>4. d[Sta(n)] = disk[Sta(n)]
  BY <1>1, <1>3, FileNames
<1>5. Head(d[Sta(n)]) = Selected(disk) /\ Exists(d, Sta(n))
  BY <1>1, <1>2, <1>4, FileNames, EntriesOf DEF Exists
<1>6. n \in Readable(d)
  BY <1>1, <1>2, <1>5 DEF Readable
<1>7. ASSUME Decodes(v), v.seq > Selected(disk).seq
      PROVE  Selected(d) = v
  <2>1. d[Sta(1 - n)] # <<>> /\ Head(d[Sta(1 - n)]) = v
    <3>1. Len(disk[Sta(1 - n)]) >= 1
      BY <1>1 DEF Halved
    <3> QED BY <1>1, <3>1, FileNames, EntriesOf
  <2>2. 1 - n \in Readable(d)
    BY <1>1, <1>7, <2>1 DEF Readable, Exists
  <2>3. /\ Newest(d) \in Slots /\ Selected(d) = d[Sta(Newest(d))][1]
        /\ v.seq <= Selected(d).seq /\ Selected(d) \in States
    BY <1>1, <2>1, <2>2, Chosen
  <2>4. Newest(d) # n
    <3> SUFFICES ASSUME Newest(d) = n PROVE FALSE
      OBVIOUS
    <3>1. Selected(d) = Selected(disk)
      BY <1>2, <1>4, <2>3
    <3>2. v \in States /\ v.seq \in Nat /\ Selected(disk).seq \in Nat
      BY <1>2, <1>7, DecodedIsState DEF States
    <3> QED BY <1>7, <2>3, <3>1, <3>2
  <2> QED BY <1>1, <1>3, <2>3, <2>4
<1> QED BY <1>6, <1>7 DEF d

-----------------------------------------------------------------------------
(* The states the operations write.                                        *)

\* The names the C constants have here are plain numbers.
LEMMA Numbers ==
  /\ Slots = {0, 1} /\ NoSlot = 2 /\ NoSlot \notin Slots
  /\ MaxImage \in Nat /\ AttemptLimit \in Nat /\ AttemptLimit >= 1
  /\ 0 \in 0..AttemptLimit /\ 1 \in 0..AttemptLimit /\ 1 \in 1..AttemptLimit
  /\ 0 \in Invalid..MaxImage /\ 1 \in Invalid..MaxImage
  /\ \A i \in Images : i \in Nat /\ i > 0 /\ i \in Invalid..MaxImage
  BY BoundsAssumption DEF Slots, NoSlot, Images, Invalid

\* A state, field by field.
StateOf(q, a, p, v, t, b, n, r, c) ==
  [valid |-> TRUE, seq |-> q, active |-> a, pending |-> p, previous |-> v,
   attempt |-> t, boot |-> b, attempts |-> n, recovery |-> r, rec |-> c]

\* A record with fields of the right kind is a state.
LEMMA StateOfIsState ==
  ASSUME NEW q \in Nat, NEW a \in Slots, NEW p \in 0..NoSlot,
         NEW v \in 0..NoSlot, NEW t \in 0..NoSlot,
         NEW b \in {"NONE", "ATTEMPTED", "FAILED"}, NEW n \in 0..AttemptLimit,
         NEW r \in BOOLEAN, NEW c \in [Slots -> Invalid..MaxImage]
  PROVE  StateOf(q, a, p, v, t, b, n, r, c) \in States
  BY DEF StateOf, States

\* The fields of a state.
LEMMA StateFields ==
  ASSUME NEW s \in States
  PROVE  /\ s.valid = TRUE /\ s.seq \in Nat /\ s.active \in Slots
         /\ s.pending \in 0..NoSlot /\ s.previous \in 0..NoSlot
         /\ s.attempt \in 0..NoSlot
         /\ s.boot \in {"NONE", "ATTEMPTED", "FAILED"}
         /\ s.attempts \in 0..AttemptLimit /\ s.recovery \in BOOLEAN
         /\ s.rec \in [Slots -> Invalid..MaxImage]
         /\ \A o \in Slots : s.rec[o] \in Int
<1>1. /\ s.valid = TRUE /\ s.seq \in Nat /\ s.active \in Slots
      /\ s.pending \in 0..NoSlot /\ s.previous \in 0..NoSlot
      /\ s.attempt \in 0..NoSlot
      /\ s.boot \in {"NONE", "ATTEMPTED", "FAILED"}
      /\ s.attempts \in 0..AttemptLimit /\ s.recovery \in BOOLEAN
      /\ s.rec \in [Slots -> Invalid..MaxImage]
  BY DEF States
<1>2. Invalid..MaxImage \subseteq Int
  BY Numbers DEF Invalid
<1> QED BY <1>1, <1>2

(* The state of the factory image, the one of a kernel that read none, and *)
(* a torn sector.                                                          *)
LEMMA Factories ==
  /\ Factory \in States /\ Decodes(Factory) /\ Blank \in States
  /\ Blank.rec[Blank.active] = 0 /\ Blank.boot = "NONE" /\ Blank.seq = 0
  /\ Blank.pending = NoSlot
  /\ Factory.rec[Factory.active] = 1 /\ Factory.boot = "NONE"
  /\ Factory.pending = NoSlot /\ Factory.active = 0 /\ Factory.seq = 1
  /\ Torn \in StateEntries /\ ~Decodes(Torn) /\ Torn.valid = FALSE
<1> DEFINE c == [o \in Slots |-> IF o = 0 THEN 1 ELSE 0]
           z == [o \in Slots |-> 0]
<1>1. /\ c \in [Slots -> Invalid..MaxImage] /\ c[0] = 1 /\ c[1] = 0
      /\ z \in [Slots -> Invalid..MaxImage] /\ z[0] = 0
  BY Numbers DEF Slots
<1>2. /\ 0 \in Slots /\ 0 \in 0..NoSlot /\ NoSlot \in 0..NoSlot /\ NoSlot # 0
      /\ 0 \in 0..AttemptLimit
  BY Numbers
<1>3. Factory = StateOf(1, 0, NoSlot, 0, NoSlot, "NONE", 0, FALSE, c)
  BY DEF Factory, StateOf
<1>4. Blank = StateOf(0, 0, NoSlot, NoSlot, NoSlot, "NONE", 0, FALSE, z)
  <2>1. Blank = [Factory EXCEPT !.seq = 0, !.rec = z, !.previous = NoSlot]
    BY DEF Blank
  <2> HIDE DEF c, z
  <2> QED BY <1>3, <2>1 DEF StateOf
<1>5. Factory \in States /\ Blank \in States
  <2> HIDE DEF c, z
  <2>1. Factory \in States
    BY <1>1, <1>2, <1>3, StateOfIsState
  <2>2. Blank \in States
    BY <1>1, <1>2, <1>4, StateOfIsState
  <2> QED BY <2>1, <2>2
<1> HIDE DEF c, z
<1>6. Decodes(Factory)
  <2>1. \A o \in Slots : c[o] # Invalid
    BY <1>1 DEF Slots, Invalid
  <2> QED BY <1>1, <1>2, <1>3, <2>1 DEF StateOf, Decodes
<1>7. Torn \in StateEntries /\ ~Decodes(Torn) /\ Torn.valid = FALSE
  BY DEF Torn, StateEntries, Decodes
<1> QED BY <1>1, <1>3, <1>4, <1>5, <1>6, <1>7 DEF StateOf

(* Publishing a candidate leaves the active slot and its record, and       *)
(* decodes when the target is the other slot.                              *)
LEMMA WithPendingFields ==
  ASSUME NEW s \in States, NEW t \in Slots, NEW i \in Images
  PROVE  /\ WithPending(s, t, i) \in States
         /\ WithPending(s, t, i).seq = s.seq + 1
         /\ WithPending(s, t, i).active = s.active
         /\ WithPending(s, t, i).pending = t
         /\ WithPending(s, t, i).boot = "NONE"
         /\ WithPending(s, t, i).rec[t] = i
         /\ \A o \in Slots : o # t => WithPending(s, t, i).rec[o] = s.rec[o]
         /\ (t # s.active /\ s.rec[s.active] > 0) => Decodes(WithPending(s, t, i))
<1> DEFINE w == WithPending(s, t, i)
           rec2 == [s.rec EXCEPT ![t] = i]
<1>1. /\ s.rec \in [Slots -> Invalid..MaxImage] /\ s.seq \in Nat /\ s.active \in Slots
      /\ s.valid = TRUE
  BY DEF States
<1>2. i \in Invalid..MaxImage /\ i > 0 /\ t \in 0..NoSlot /\ s.active \in 0..NoSlot
      /\ NoSlot \in 0..NoSlot /\ t # NoSlot /\ 0 \in 0..AttemptLimit
  BY <1>1, BoundsAssumption DEF Images, Invalid, Slots, NoSlot
<1>3. /\ rec2 \in [Slots -> Invalid..MaxImage] /\ rec2[t] = i
      /\ \A o \in Slots : o # t => rec2[o] = s.rec[o]
  BY <1>1, <1>2
<1>4. w = [s EXCEPT !.seq = s.seq + 1, !.rec = rec2, !.pending = t,
                    !.previous = s.active, !.attempt = NoSlot, !.boot = "NONE",
                    !.attempts = 0, !.recovery = FALSE]
  BY DEF WithPending
<1> HIDE DEF rec2, w
<1>5. w \in States
  <2>1. w = StateOf(s.seq + 1, s.active, t, s.active, NoSlot, "NONE", 0, FALSE, rec2)
    BY <1>4 DEF States, StateOf
  <2>2. s.seq + 1 \in Nat
    BY <1>1
  <2> QED BY <1>1, <1>2, <1>3, <2>1, <2>2, StateOfIsState
<1>6. /\ w.seq = s.seq + 1 /\ w.active = s.active /\ w.pending = t /\ w.boot = "NONE"
      /\ w.rec = rec2 /\ w.attempt = NoSlot /\ w.attempts = 0 /\ w.valid = TRUE
  BY <1>1, <1>4 DEF States
<1>7. ASSUME t # s.active, s.rec[s.active] > 0 PROVE Decodes(w)
  <2>1. \A o \in Slots : o = t \/ o = s.active
    BY <1>1, <1>7 DEF Slots
  <2>2. \A o \in Slots : rec2[o] # Invalid
    BY <1>1, <1>2, <1>3, <1>7, <2>1 DEF Invalid
  <2>3. rec2[s.active] > 0 /\ rec2[t] > 0
    BY <1>1, <1>2, <1>3, <1>7
  <2> QED BY <1>1, <1>2, <1>6, <1>7, <2>2, <2>3 DEF Decodes
<1> QED BY <1>3, <1>5, <1>6, <1>7 DEF w

\* Promoting makes the attempted slot the active one and leaves the records.
LEMMA PromotionFields ==
  ASSUME mem \in States, mem.attempt \in Slots
  PROVE  /\ Promotion \in States
         /\ Promotion.seq = mem.seq + 1 /\ Promotion.active = mem.attempt
         /\ Promotion.pending = NoSlot /\ Promotion.boot = "NONE"
         /\ Promotion.rec = mem.rec
         /\ Decodes(mem) /\ mem.rec[mem.attempt] > 0 => Decodes(Promotion)
<1> DEFINE w == Promotion
<1>1. /\ mem.rec \in [Slots -> Invalid..MaxImage] /\ mem.seq \in Nat
      /\ mem.valid = TRUE
  BY DEF States
<1>2. NoSlot \in 0..NoSlot /\ mem.attempt # NoSlot /\ 0 \in 0..AttemptLimit
  BY BoundsAssumption DEF Slots, NoSlot
<1>3. w = [mem EXCEPT !.seq = mem.seq + 1, !.active = mem.attempt,
                      !.pending = NoSlot, !.attempt = NoSlot, !.boot = "NONE",
                      !.attempts = 0]
  BY DEF Promotion
<1> HIDE DEF w
<1>4. w \in States
  <2>1. w = StateOf(mem.seq + 1, mem.attempt, NoSlot, mem.previous, NoSlot, "NONE",
                    0, mem.recovery, mem.rec)
    BY <1>3 DEF States, StateOf
  <2>2. mem.seq + 1 \in Nat
    BY <1>1
  <2> QED BY <1>1, <1>2, <2>1, <2>2, StateFields, StateOfIsState
<1>5. /\ w.seq = mem.seq + 1 /\ w.active = mem.attempt /\ w.pending = NoSlot
      /\ w.boot = "NONE" /\ w.rec = mem.rec /\ w.attempt = NoSlot /\ w.attempts = 0
      /\ w.valid = TRUE
  BY <1>1, <1>3 DEF States
<1>6. ASSUME Decodes(mem), mem.rec[mem.attempt] > 0 PROVE Decodes(w)
  BY <1>1, <1>2, <1>5, <1>6 DEF Decodes
<1> QED BY <1>4, <1>5, <1>6 DEF w

(* The state cancelling a pending update writes                            *)
(* (update_system_slots_cancel_pending).                                   *)
Cancellation ==
  [mem EXCEPT !.seq = @ + 1, !.pending = NoSlot, !.previous = mem.active,
              !.attempt = NoSlot, !.boot = "NONE", !.attempts = 0]

\* Cancelling leaves the active slot and the records.
LEMMA CancellationFields ==
  ASSUME mem \in States
  PROVE  /\ Cancellation \in States
         /\ Cancellation.seq = mem.seq + 1 /\ Cancellation.active = mem.active
         /\ Cancellation.pending = NoSlot /\ Cancellation.boot = "NONE"
         /\ Cancellation.rec = mem.rec
         /\ Decodes(mem) => Decodes(Cancellation)
<1> DEFINE w == Cancellation
<1>1. /\ mem.rec \in [Slots -> Invalid..MaxImage] /\ mem.seq \in Nat
      /\ mem.valid = TRUE /\ mem.active \in Slots
  BY DEF States
<1>2. /\ NoSlot \in 0..NoSlot /\ mem.active # NoSlot /\ mem.active \in 0..NoSlot
      /\ 0 \in 0..AttemptLimit
  BY <1>1, BoundsAssumption DEF Slots, NoSlot
<1>3. w = [mem EXCEPT !.seq = mem.seq + 1, !.pending = NoSlot,
                      !.previous = mem.active, !.attempt = NoSlot,
                      !.boot = "NONE", !.attempts = 0]
  BY DEF Cancellation
<1> HIDE DEF w
<1>4. w \in States
  <2>1. w = StateOf(mem.seq + 1, mem.active, NoSlot, mem.active, NoSlot, "NONE",
                    0, mem.recovery, mem.rec)
    BY <1>3 DEF States, StateOf
  <2>2. mem.seq + 1 \in Nat
    BY <1>1
  <2> QED BY <1>1, <1>2, <2>1, <2>2, StateFields, StateOfIsState
<1>5. /\ w.seq = mem.seq + 1 /\ w.active = mem.active /\ w.pending = NoSlot
      /\ w.boot = "NONE" /\ w.rec = mem.rec /\ w.attempt = NoSlot /\ w.attempts = 0
      /\ w.valid = TRUE
  BY <1>1, <1>3 DEF States
<1>6. ASSUME Decodes(mem) PROVE Decodes(w)
  BY <1>1, <1>2, <1>5, <1>6 DEF Decodes
<1> QED BY <1>4, <1>5, <1>6 DEF w

\* The recovery flag does not decide whether a state can be read.
LEMMA FlaggedFields ==
  ASSUME NEW s \in States, NEW b \in BOOLEAN, NEW w,
         w = [s EXCEPT !.recovery = b]
  PROVE  /\ w \in States /\ w.seq = s.seq /\ w.active = s.active
         /\ w.pending = s.pending /\ w.boot = s.boot /\ w.rec = s.rec
         /\ w.attempt = s.attempt
         /\ Decodes(s) <=> Decodes(w)
<1>1. w \in States
  BY DEF States
<1>2. /\ w.seq = s.seq /\ w.active = s.active /\ w.pending = s.pending
      /\ w.boot = s.boot /\ w.rec = s.rec /\ w.attempt = s.attempt
      /\ w.attempts = s.attempts /\ w.valid = s.valid
  BY DEF States
<1> QED BY <1>1, <1>2 DEF Decodes

(* The loader's attempt record counts one more start and leaves the active *)
(* slot and the records.                                                   *)
LEMMA AttemptedFields ==
  ASSUME NEW s \in States, Decodes(s), NEW t \in Slots, s.attempts < AttemptLimit,
         s.rec[t] > 0
  PROVE  /\ Attempted(s, t) \in States /\ Decodes(Attempted(s, t))
         /\ Attempted(s, t).seq = s.seq + 1 /\ Attempted(s, t).active = s.active
         /\ Attempted(s, t).pending = s.pending
         /\ Attempted(s, t).boot = "ATTEMPTED" /\ Attempted(s, t).rec = s.rec
         /\ Attempted(s, t).attempt = t
         /\ Attempted(s, t).attempts = s.attempts + 1
         /\ Attempted(s, t).valid = TRUE
<1> DEFINE w == Attempted(s, t)
<1>1. /\ s.seq \in Nat /\ s.active \in Slots /\ s.attempts \in 0..AttemptLimit
      /\ s.valid = TRUE
  BY DEF States
<1>2. /\ t \in 0..NoSlot /\ t # NoSlot /\ s.active \in 0..NoSlot
      /\ s.attempts + 1 \in 0..AttemptLimit /\ s.attempts + 1 \in 1..AttemptLimit
  BY <1>1, BoundsAssumption DEF Slots, NoSlot
<1>3. w = [s EXCEPT !.seq = s.seq + 1, !.previous = s.active, !.attempt = t,
                    !.boot = "ATTEMPTED", !.attempts = s.attempts + 1]
  BY DEF Attempted
<1> HIDE DEF w
<1>4. w \in States
  <2>1. w = StateOf(s.seq + 1, s.active, s.pending, s.active, t, "ATTEMPTED",
                    s.attempts + 1, s.recovery, s.rec)
    BY <1>3 DEF States, StateOf
  <2>2. s.seq + 1 \in Nat
    BY <1>1
  <2> QED BY <1>1, <1>2, <2>1, <2>2, StateFields, StateOfIsState
<1>5. /\ w.seq = s.seq + 1 /\ w.active = s.active /\ w.pending = s.pending
      /\ w.boot = "ATTEMPTED" /\ w.rec = s.rec /\ w.attempt = t
      /\ w.attempts = s.attempts + 1 /\ w.valid = TRUE
  BY <1>1, <1>3 DEF States
<1>6. Decodes(w)
  BY <1>1, <1>2, <1>5 DEF Decodes
<1> QED BY <1>4, <1>5, <1>6 DEF w

(* The loader's failure record withdraws the candidate and leaves the      *)
(* active slot and the records.                                            *)
LEMMA AttemptFailedFields ==
  ASSUME NEW s \in States, Decodes(s), NEW t \in Slots
  PROVE  /\ AttemptFailed(s, t) \in States /\ Decodes(AttemptFailed(s, t))
         /\ AttemptFailed(s, t).seq = s.seq + 1
         /\ AttemptFailed(s, t).active = s.active
         /\ AttemptFailed(s, t).pending = NoSlot
         /\ AttemptFailed(s, t).boot = "FAILED" /\ AttemptFailed(s, t).rec = s.rec
         /\ AttemptFailed(s, t).attempts =
              IF s.boot # "NONE" THEN s.attempts ELSE 1
<1> DEFINE w == AttemptFailed(s, t)
<1>1. /\ s.seq \in Nat /\ s.active \in Slots /\ s.attempts \in 0..AttemptLimit
      /\ s.valid = TRUE /\ s.attempt \in 0..NoSlot
  BY DEF States
<1>2. /\ t \in 0..NoSlot /\ t # NoSlot /\ s.active \in 0..NoSlot
      /\ NoSlot \in 0..NoSlot /\ s.active # NoSlot
      /\ 1 \in 0..AttemptLimit /\ 1 \in 1..AttemptLimit
  BY <1>1, BoundsAssumption DEF Slots, NoSlot
<1>3. CASE s.boot # "NONE"
  <2>1. w = [s EXCEPT !.seq = s.seq + 1, !.pending = NoSlot, !.boot = "FAILED"]
    BY <1>3 DEF AttemptFailed
  <2>0. s.attempt # NoSlot /\ s.attempts \in 1..AttemptLimit
    BY <1>3 DEF Decodes
  <2> HIDE DEF w
  <2>2. w \in States
    <3>1. w = StateOf(s.seq + 1, s.active, NoSlot, s.previous, s.attempt, "FAILED",
                      s.attempts, s.recovery, s.rec)
      BY <2>1 DEF States, StateOf
    <3>2. s.seq + 1 \in Nat
      BY <1>1
    <3> QED BY <1>1, <1>2, <3>1, <3>2, StateFields, StateOfIsState
  <2>3. /\ w.seq = s.seq + 1 /\ w.active = s.active /\ w.pending = NoSlot
        /\ w.boot = "FAILED" /\ w.rec = s.rec /\ w.attempt = s.attempt
        /\ w.attempts = s.attempts /\ w.valid = TRUE
    BY <1>1, <2>1 DEF States
  <2>4. Decodes(w)
    BY <1>1, <1>2, <2>0, <2>3 DEF Decodes
  <2> QED BY <1>3, <2>2, <2>3, <2>4 DEF w
<1>4. CASE s.boot = "NONE"
  <2>1. w = [s EXCEPT !.seq = s.seq + 1, !.pending = NoSlot, !.boot = "FAILED",
                      !.previous = s.active, !.attempt = t, !.attempts = 1]
    BY <1>4 DEF AttemptFailed
  <2> HIDE DEF w
  <2>2. w \in States
    <3>1. w = StateOf(s.seq + 1, s.active, NoSlot, s.active, t, "FAILED",
                      1, s.recovery, s.rec)
      BY <2>1 DEF States, StateOf
    <3>2. s.seq + 1 \in Nat
      BY <1>1
    <3> QED BY <1>1, <1>2, <3>1, <3>2, StateFields, StateOfIsState
  <2>3. /\ w.seq = s.seq + 1 /\ w.active = s.active /\ w.pending = NoSlot
        /\ w.boot = "FAILED" /\ w.rec = s.rec /\ w.attempt = t
        /\ w.attempts = 1 /\ w.valid = TRUE
    BY <1>1, <2>1 DEF States
  <2>4. Decodes(w)
    BY <1>1, <1>2, <2>3 DEF Decodes
  <2> QED BY <1>4, <2>2, <2>3, <2>4 DEF w
<1> QED BY <1>3, <1>4

-----------------------------------------------------------------------------
(* Journals, and what the kernel loads.                                    *)

\* A journal that goes to another phase keeps its target and image.
LEMMA JournalPhases ==
  ASSUME NEW j \in WrittenJournals, NEW p \in PREPARED..COMMITTED
  PROVE  /\ [j EXCEPT !.phase = p] \in WrittenJournals
         /\ [j EXCEPT !.phase = p].target = j.target
         /\ [j EXCEPT !.phase = p].image = j.image
  BY DEF WrittenJournals

\* The phases of a written journal.
LEMMA PhaseNames ==
  /\ {PREPARED, STAGING, VERIFIED, COMMITTED} \subseteq PREPARED..COMMITTED
  /\ NoPhase \notin PREPARED..COMMITTED
  /\ NoJournal.phase = NoPhase
  /\ \A j \in WrittenJournals :
       /\ j.phase # NoPhase /\ j # NoJournal
       /\ j.target \in Slots /\ j.image \in Images /\ j.seq \in Nat
       /\ j.phase \in PREPARED..COMMITTED
<1>1. /\ {PREPARED, STAGING, VERIFIED, COMMITTED} \subseteq PREPARED..COMMITTED
      /\ NoPhase \notin PREPARED..COMMITTED
  BY DEF PREPARED, STAGING, VERIFIED, COMMITTED, NoPhase
<1>2. NoJournal.phase = NoPhase
  BY DEF NoJournal
<1>3. \A j \in WrittenJournals :
        /\ j.target \in Slots /\ j.image \in Images /\ j.seq \in Nat
        /\ j.phase \in PREPARED..COMMITTED
  BY DEF WrittenJournals
<1> QED BY <1>1, <1>2, <1>3

\* Only the absent journal has no phase.
LEMMA NoPhaseIsNoJournal ==
  ASSUME Typed
  PROVE  mj.phase = NoPhase <=> mj = NoJournal
  BY PhaseNames DEF Typed

(* The journal recovery reads is an entry of a journal file, and absent    *)
(* only when both files are.                                               *)
LEMMA NewestJournalFacts ==
  ASSUME NEW d, DiskTyped(d)
  PROVE  \/ ~JournalPresent(d) /\ NewestJournal(d) = NoJournal
         \/ /\ JournalPresent(d) /\ NewestJournal(d) \in WrittenJournals
            /\ \E i \in Slots : \E n \in DOMAIN d[Jrn(i)] :
                 NewestJournal(d) = d[Jrn(i)][n]
<1>1. CASE ~JournalPresent(d)
  BY <1>1 DEF NewestJournal
<1>2. CASE JournalPresent(d)
  <2> DEFINE q(i) == Head(d[Jrn(i)]).seq
             Best(i) == /\ Exists(d, Jrn(i))
                        /\ \A j \in Slots : Exists(d, Jrn(j)) =>
                             q(i) > q(j) \/ (q(i) = q(j) /\ i <= j)
             c == CHOOSE i \in Slots : Best(i)
  <2>1. \A i \in Slots : Exists(d, Jrn(i)) =>
          /\ d[Jrn(i)] \in Seq(WrittenJournals) /\ d[Jrn(i)] # <<>>
          /\ Head(d[Jrn(i)]) = d[Jrn(i)][1] /\ d[Jrn(i)][1] \in WrittenJournals
          /\ 1 \in DOMAIN d[Jrn(i)] /\ q(i) \in Nat
    <3> SUFFICES ASSUME NEW i \in Slots, Exists(d, Jrn(i))
                 PROVE  /\ d[Jrn(i)] \in Seq(WrittenJournals) /\ d[Jrn(i)] # <<>>
                        /\ Head(d[Jrn(i)]) = d[Jrn(i)][1]
                        /\ d[Jrn(i)][1] \in WrittenJournals
                        /\ 1 \in DOMAIN d[Jrn(i)] /\ q(i) \in Nat
      OBVIOUS
    <3>1. Jrn(i) \in Files /\ d[Jrn(i)] # <<>>
      BY FileNames DEF Exists
    <3>2. d[Jrn(i)] \in Seq(WrittenJournals)
      BY <3>1, Kinds DEF DiskTyped
    <3>3. /\ Head(d[Jrn(i)]) = d[Jrn(i)][1] /\ 1 \in DOMAIN d[Jrn(i)]
          /\ d[Jrn(i)][1] \in WrittenJournals
      BY <3>1, <3>2
    <3> QED BY <3>1, <3>2, <3>3, PhaseNames
  <2>2. \E i \in Slots : Exists(d, Jrn(i))
    BY <1>2 DEF JournalPresent
  <2> HIDE DEF q
  <2>3. \E i \in Slots : Best(i)
    <3>1. CASE Exists(d, Jrn(0)) /\ ~Exists(d, Jrn(1))
      BY <2>1, <3>1 DEF Slots
    <3>2. CASE ~Exists(d, Jrn(0)) /\ Exists(d, Jrn(1))
      BY <2>1, <3>2 DEF Slots
    <3>3. CASE Exists(d, Jrn(0)) /\ Exists(d, Jrn(1))
      <4>1. q(0) \in Nat /\ q(1) \in Nat
        BY <2>1, <3>3 DEF Slots
      <4>2. CASE q(0) >= q(1)
        <5>1. Best(0)
          BY <3>3, <4>1, <4>2 DEF Slots
        <5> QED BY <5>1 DEF Slots
      <4>3. CASE q(0) < q(1)
        <5>1. Best(1)
          BY <3>3, <4>1, <4>3 DEF Slots
        <5> QED BY <5>1 DEF Slots
      <4> QED BY <4>1, <4>2, <4>3
    <3> QED BY <2>2, <3>1, <3>2, <3>3 DEF Slots
  <2>4. NewestJournal(d) = Head(d[Jrn(c)])
    BY <1>2 DEF NewestJournal, q
  <2>5. c \in Slots /\ Exists(d, Jrn(c))
    BY <2>3
  <2> HIDE DEF c
  <2> QED BY <1>2, <2>1, <2>4, <2>5
<1> QED BY <1>1, <1>2

\* What the kernel loads is the newest state it can read, or the blank one.
LEMMA LoadedFacts ==
  ASSUME NEW d, DiskTyped(d)
  PROVE  /\ LoadedState(d) \in States
         /\ Readable(d) = {} => LoadedState(d) = Blank
         /\ Readable(d) # {} => /\ LoadedState(d) = Selected(d)
                                /\ Decodes(LoadedState(d))
  BY Chosen, Factories DEF LoadedState

\* What init finds and decides.
LEMMA LoadControlsFacts ==
  ASSUME Typed, LoadControls
  PROVE  LET s == LoadedState(disk)
         IN \/ /\ ~JournalPresent(disk) /\ mj' = NoJournal
               /\ mem' = s /\ doing' = "examine"
            \/ /\ JournalPresent(disk) /\ mj' \in WrittenJournals
               /\ mj' = NewestJournal(disk)
               /\ \/ /\ doing' = "republish"
                     /\ mem' = WithPending(s, mj'.target, mj'.image)
                     /\ s.pending \in {NoSlot, mj'.target}
                  \/ doing' \in {"discard", "unstage"} /\ mem' = s
                  \/ doing' = "examine" /\ mem' = [s EXCEPT !.recovery = TRUE]
<1> DEFINE s == LoadedState(disk)
           j == NewestJournal(disk)
           p == RecoveryStep(s, j)
<1>1. DiskTyped(disk)
  BY DEF Typed
<1>2. /\ mj' = j
      /\ mem' = CASE p = "republish" -> WithPending(s, j.target, j.image)
                  [] p = "refused" -> [s EXCEPT !.recovery = TRUE]
                  [] OTHER -> s
      /\ doing' = IF p = "refused" THEN "examine" ELSE p
  BY DEF LoadControls
<1>3. CASE ~JournalPresent(disk)
  <2>1. j = NoJournal
    BY <1>1, <1>3, NewestJournalFacts
  <2>2. p = "examine"
    BY <2>1, PhaseNames DEF RecoveryStep
  <2> HIDE DEF s, j, p
  <2> QED BY <1>2, <1>3, <2>1, <2>2 DEF s
<1>4. CASE JournalPresent(disk)
  <2>1. j \in WrittenJournals
    BY <1>1, <1>4, NewestJournalFacts
  <2>2. \/ p = "republish" /\ s.pending \in {NoSlot, j.target}
        \/ p = "discard" \/ p = "unstage" \/ p = "refused"
    <3>1. j.phase # NoPhase /\ j.phase \in PREPARED..COMMITTED
      BY <2>1, PhaseNames
    <3> HIDE DEF s, j
    <3>2. ~(j.phase >= VERIFIED /\ j.phase <= STAGING)
      BY <3>1 DEF PREPARED, COMMITTED, VERIFIED, STAGING
    <3> QED BY <3>1, <3>2 DEF RecoveryStep
  <2> HIDE DEF s, j, p
  <2> QED BY <1>2, <1>4, <2>1, <2>2 DEF s, j
<1> QED BY <1>3, <1>4

-----------------------------------------------------------------------------
(* What the loader chooses.                                                *)

\* Where the loader may go from here: the menu, or a slot of the state on disk.
LoaderGoes ==
  /\ ctx' \in Contexts
  /\ ctx'.continue = TRUE => ctx'.legacy = FALSE
  /\ run' = run \/ \E x \in 0..NoSlot : run' = [NoBoot EXCEPT !.slot = x]
  /\ \/ /\ doing' = "menu"
        /\ ctx'.legacy = FALSE => ~JournalPresent(disk) /\ Readable(disk) # {}
     \/ /\ ctx'.legacy = FALSE /\ ~JournalPresent(disk) /\ Readable(disk) # {}
        /\ \/ /\ doing' \in {"fail", "attempt"} /\ ctx'.slot \in Slots
              /\ \/ Selected(disk).pending # NoSlot
                 \/ Selected(disk).boot # "NONE"
              /\ doing' = "attempt" =>
                   /\ Selected(disk).attempts < AttemptLimit
                   /\ Selected(disk).rec[ctx'.slot] > 0
           \/ /\ doing' = "jump"
              /\ \E x \in 0..NoSlot : run' = [NoBoot EXCEPT !.slot = x]

\* The fields of the loader's context.
LEMMA ContextFields ==
  ASSUME NEW c \in Contexts
  PROVE  /\ c.legacy \in BOOLEAN /\ c.invalid \in 0..NoSlot
         /\ c.noRetry \in BOOLEAN /\ c.continue \in BOOLEAN
         /\ c.slot \in 0..NoSlot
         /\ Legacy(c) \in Contexts /\ Legacy(c).legacy = TRUE
         /\ Legacy(c).continue = FALSE
  BY DEF Contexts, Legacy

\* The context the loader starts with.
LEMMA NoContextIsOne ==
  /\ NoContext \in Contexts /\ NoContext.legacy = FALSE
  /\ NoContext.continue = FALSE
  BY Numbers DEF NoContext, Contexts

\* A start without a handoff carries no valid one.
LEMMA NoBootIsOne ==
  /\ NoBoot \in Boots /\ NoBoot.handoff = Torn
  /\ NoBoot = [NoBoot EXCEPT !.slot = NoSlot]
  /\ NoSlot \in 0..NoSlot /\ Torn.valid = FALSE
  /\ \A x \in 0..NoSlot : /\ [NoBoot EXCEPT !.slot = x] \in Boots
                          /\ [NoBoot EXCEPT !.slot = x].handoff = Torn
<1>1. NoSlot \in 0..NoSlot /\ Torn \in StateEntries
  BY Factories DEF NoSlot
<1> HIDE DEF Torn
<1> QED BY <1>1, Factories DEF NoBoot, Boots

\* Opening the menu is a choice of the loader.
LEMMA MenuGoes ==
  ASSUME NEW c \in Contexts, c.continue = TRUE => c.legacy = FALSE, Menu(c),
         c.legacy = FALSE => ~JournalPresent(disk) /\ Readable(disk) # {}
  PROVE  LoaderGoes
  BY DEF Menu, LoaderGoes

\* So is starting a slot without an attempt record,
LEMMA JumpGoes ==
  ASSUME NEW c \in Contexts, NEW s \in 0..NoSlot, Jump(s, c),
         c.legacy = FALSE, ~JournalPresent(disk), Readable(disk) # {}
  PROVE  LoaderGoes
<1>1. /\ ctx' \in Contexts /\ ctx'.legacy = FALSE
  BY DEF Jump, Contexts
<1>2. doing' = "jump" /\ \E x \in 0..NoSlot : run' = [NoBoot EXCEPT !.slot = x]
  BY DEF Jump
<1> QED BY <1>1, <1>2 DEF LoaderGoes

\* marking the candidate failed,
LEMMA MarkFailedGoes ==
  ASSUME NEW c \in Contexts, NEW s \in Slots, MarkFailed(s, c),
         c.legacy = FALSE, ~JournalPresent(disk), Readable(disk) # {},
         Selected(disk).pending # NoSlot \/ Selected(disk).boot # "NONE"
  PROVE  LoaderGoes
<1>1. s \in 0..NoSlot
  BY DEF Slots, NoSlot
<1>2. CASE AlternateReady
  <2>1. /\ ctx' \in Contexts /\ ctx'.legacy = FALSE /\ ctx'.slot = s
    BY <1>1, <1>2 DEF MarkFailed, Contexts
  <2>2. doing' = "fail" /\ run' = NoBoot
    BY <1>2 DEF MarkFailed
  <2> HIDE DEF NoBoot
  <2> QED BY <2>1, <2>2, NoBootIsOne DEF LoaderGoes
<1>3. CASE ~AlternateReady
  BY <1>3, ContextFields, MenuGoes DEF MarkFailed
<1> QED BY <1>2, <1>3

\* trying the candidate,
LEMMA TryCandidateGoes ==
  ASSUME NEW c \in Contexts, NEW s \in Slots, TryCandidate(s, c),
         c.legacy = FALSE, ~JournalPresent(disk), Readable(disk) # {},
         Selected(disk).pending # NoSlot \/ Selected(disk).boot # "NONE",
         Selected(disk).rec[s] > 0
  PROVE  LoaderGoes
<1>1. s \in 0..NoSlot
  BY DEF Slots, NoSlot
<1>2. CASE AlternateReady /\ Selected(disk).attempts < AttemptLimit
  <2>1. /\ ctx' \in Contexts /\ ctx'.legacy = FALSE /\ ctx'.slot = s
    BY <1>1, <1>2 DEF TryCandidate, Contexts
  <2> QED BY <1>2, <2>1 DEF TryCandidate, LoaderGoes
<1>3. CASE ~(AlternateReady /\ Selected(disk).attempts < AttemptLimit)
  BY <1>3, ContextFields, MenuGoes DEF TryCandidate
<1> QED BY <1>2, <1>3

\* the automatic choice,
LEMMA AutomaticGoes ==
  ASSUME Typed, NEW c \in Contexts, Automatic(c), c.legacy = FALSE,
         ~JournalPresent(disk), Readable(disk) # {}
  PROVE  LoaderGoes
<1> DEFINE s == Selected(disk)
           slot == IF s.pending # NoSlot THEN s.pending ELSE s.active
<1>1. s \in States
  BY Chosen DEF Typed
<1>2. s.pending \in 0..NoSlot /\ s.active \in Slots
  BY <1>1, StateFields
<1> HIDE DEF s
<1>3. slot \in Slots /\ slot \in 0..NoSlot
  BY <1>2 DEF Slots, NoSlot
<1>4. /\ s.pending # NoSlot => \/ /\ Holds(disk, slot, s.rec[slot])
                                  /\ TryCandidate(slot, c)
                               \/ MarkFailed(slot, c)
      /\ s.pending = NoSlot => \/ Jump(slot, c)
                               \/ Menu([c EXCEPT !.invalid = slot])
  BY DEF Automatic, s
<1> HIDE DEF slot
<1>5. CASE s.pending # NoSlot
  <2>1. CASE Holds(disk, slot, s.rec[slot]) /\ TryCandidate(slot, c)
    <3>1. s.rec[slot] > 0
      BY <2>1 DEF Holds
    <3> QED BY <1>3, <1>5, <2>1, <3>1, TryCandidateGoes DEF s
  <2>2. CASE MarkFailed(slot, c)
    BY <1>3, <1>5, <2>2, MarkFailedGoes DEF s
  <2> QED BY <1>4, <1>5, <2>1, <2>2
<1>6. CASE s.pending = NoSlot
  <2>1. CASE Jump(slot, c)
    BY <1>3, <2>1, JumpGoes
  <2>2. CASE Menu([c EXCEPT !.invalid = slot])
    <3> DEFINE w == [c EXCEPT !.invalid = slot]
    <3>1. /\ w \in Contexts /\ w.legacy = FALSE /\ w.continue = c.continue
      BY <1>3 DEF Contexts
    <3> HIDE DEF w
    <3>2. Menu(w)
      BY <2>2 DEF w
    <3> QED BY <3>1, <3>2, MenuGoes
  <2> QED BY <1>4, <1>6, <2>1, <2>2
<1> QED BY <1>5, <1>6

\* the loader's first pass,
LEMMA LoaderStartGoes ==
  ASSUME Typed, LoaderStart
  PROVE  LoaderGoes
<1>1. CASE Restricted
  <2>1. Menu(Legacy(NoContext))
    BY <1>1 DEF LoaderStart
  <2> QED BY <2>1, NoContextIsOne, ContextFields, MenuGoes
<1>2. CASE ~Restricted
  <2> DEFINE s == Selected(disk)
  <2>1. ~JournalPresent(disk) /\ Readable(disk) # {}
    BY <1>2 DEF Restricted, Trusted
  <2>2. s \in States /\ Decodes(s)
    BY <2>1, Chosen DEF Typed
  <2>3. /\ s.attempt \in 0..NoSlot /\ s.previous \in 0..NoSlot
        /\ s.boot \in {"NONE", "ATTEMPTED", "FAILED"}
    BY <2>2, StateFields
  <2>4. NoContext \in Contexts /\ NoContext.legacy = FALSE
        /\ NoContext.continue = FALSE
    BY NoContextIsOne
  <2>5. \/ /\ s.boot = "ATTEMPTED"
           /\ \/ /\ doing' = "fail" /\ UNCHANGED run
                 /\ ctx' = [NoContext EXCEPT !.slot = s.attempt]
              \/ Menu(Legacy(NoContext))
        \/ Jump(s.previous, NoContext)
        \/ Menu([NoContext EXCEPT !.invalid = s.previous])
        \/ Menu(NoContext)
        \/ Automatic(NoContext)
        \/ Menu([NoContext EXCEPT !.continue = TRUE])
    <3> HIDE DEF NoContext
    <3>1. CASE s.boot = "ATTEMPTED"
      BY <1>2, <3>1 DEF LoaderStart
    <3>2. CASE s.boot = "FAILED"
      BY <1>2, <3>2 DEF LoaderStart
    <3>3. CASE s.boot = "NONE"
      BY <1>2, <3>3 DEF LoaderStart
    <3> QED BY <2>3, <3>1, <3>2, <3>3
  <2>6. s.boot = "ATTEMPTED" => s.attempt \in Slots
    BY <2>2, <2>3 DEF Decodes, Slots, NoSlot
  <2> HIDE DEF s
  <2>7. CASE Menu(Legacy(NoContext))
    BY <2>4, <2>7, ContextFields, MenuGoes
  <2>8. CASE Jump(s.previous, NoContext)
    BY <2>1, <2>3, <2>4, <2>8, JumpGoes
  <2>9. CASE Menu([NoContext EXCEPT !.invalid = s.previous])
    <3> DEFINE w == [NoContext EXCEPT !.invalid = s.previous]
    <3> HIDE DEF NoContext
    <3>1. /\ w \in Contexts /\ w.legacy = FALSE
      BY <2>3, <2>4 DEF Contexts
    <3> HIDE DEF w
    <3>2. Menu(w)
      BY <2>9 DEF w
    <3> QED BY <2>1, <3>1, <3>2, MenuGoes
  <2>10. CASE Menu(NoContext)
    BY <2>1, <2>4, <2>10, MenuGoes
  <2>11. CASE Automatic(NoContext)
    BY <2>1, <2>4, <2>11, AutomaticGoes
  <2>12. CASE Menu([NoContext EXCEPT !.continue = TRUE])
    <3> DEFINE w == [NoContext EXCEPT !.continue = TRUE]
    <3> HIDE DEF NoContext
    <3>1. /\ w \in Contexts /\ w.legacy = FALSE
      BY <2>4 DEF Contexts
    <3> HIDE DEF w
    <3>2. Menu(w)
      BY <2>12 DEF w
    <3> QED BY <2>1, <3>1, <3>2, MenuGoes
  <2>13. CASE /\ s.boot = "ATTEMPTED" /\ doing' = "fail" /\ UNCHANGED run
              /\ ctx' = [NoContext EXCEPT !.slot = s.attempt]
    <3>1. /\ ctx' \in Contexts /\ ctx'.legacy = FALSE
          /\ ctx'.continue = FALSE /\ ctx'.slot = s.attempt
      <4> HIDE DEF NoContext
      <4> QED BY <2>3, <2>4, <2>13 DEF Contexts
    <3> QED BY <2>1, <2>6, <2>13, <3>1 DEF LoaderGoes, s
  <2> QED BY <2>5, <2>7, <2>8, <2>9, <2>10, <2>11, <2>12, <2>13
<1> QED BY <1>1, <1>2

\* the return from a chain that did not start,
LEMMA ChainReturnsGoes ==
  ASSUME Typed, InLoader, ChainReturns
  PROVE  LoaderGoes
<1>1. /\ doing = "jump" /\ ctx \in Contexts /\ ctx.legacy = FALSE
      /\ ~JournalPresent(disk) /\ Readable(disk) # {} /\ ctx.slot \in 0..NoSlot
      /\ ctx.continue \in BOOLEAN
  BY ContextFields DEF Typed, InLoader, ChainReturns
<1>2. CASE run.handoff.valid = TRUE
  <2>1. ctx.slot \in Slots /\ Selected(disk).boot # "NONE"
    BY <1>1, <1>2 DEF InLoader
  <2>2. MarkFailed(ctx.slot, ctx)
    BY <1>2 DEF ChainReturns
  <2> QED BY <1>1, <2>1, <2>2, MarkFailedGoes
<1>3. CASE run.handoff.valid # TRUE
  <2>1. run.handoff.valid = FALSE
    BY <1>3, StateFields, Factories DEF Typed, Boots, StateEntries
  <2>2. /\ doing' = "menu" /\ ctx' = [ctx EXCEPT !.invalid = ctx.slot]
        /\ run' = NoBoot
    BY <2>1 DEF ChainReturns
  <2>3. /\ ctx' \in Contexts /\ ctx'.legacy = FALSE
    BY <1>1, <2>2 DEF Contexts
  <2> HIDE DEF NoBoot
  <2> QED BY <1>1, <2>2, <2>3, NoBootIsOne DEF LoaderGoes
<1> QED BY <1>2, <1>3

\* the menu's continue,
LEMMA MenuContinueGoes ==
  ASSUME Typed, InLoader, MenuContinue
  PROVE  LoaderGoes
<1> DEFINE c == [ctx EXCEPT !.continue = FALSE]
<1>1. /\ doing = "menu" /\ ctx \in Contexts /\ ctx.continue = TRUE
      /\ ctx.legacy = FALSE /\ ~JournalPresent(disk) /\ Readable(disk) # {}
  BY ContextFields DEF Typed, InLoader, MenuContinue, Contexts
<1>2. c \in Contexts /\ c.legacy = FALSE
  BY <1>1 DEF Contexts
<1>3. Automatic(c)
  BY DEF MenuContinue
<1> HIDE DEF c
<1> QED BY <1>1, <1>2, <1>3, AutomaticGoes

\* its previous system,
LEMMA MenuPreviousGoes ==
  ASSUME Typed, InLoader, MenuPrevious
  PROVE  LoaderGoes
<1>1. /\ doing = "menu" /\ ctx \in Contexts
      /\ ctx.legacy = FALSE /\ ~JournalPresent(disk) /\ Readable(disk) # {}
  BY DEF Typed, InLoader, MenuPrevious, Contexts
<1>2. Selected(disk).previous \in 0..NoSlot
  BY <1>1, Chosen, StateFields DEF Typed
<1>3. \/ Jump(Selected(disk).previous, ctx)
      \/ Menu([ctx EXCEPT !.invalid = Selected(disk).previous])
  BY DEF MenuPrevious
<1> DEFINE w == [ctx EXCEPT !.invalid = Selected(disk).previous]
<1>4. /\ w \in Contexts /\ w.legacy = FALSE
  BY <1>1, <1>2 DEF Contexts
<1> HIDE DEF w
<1>5. Jump(Selected(disk).previous, ctx) \/ Menu(w)
  BY <1>3 DEF w
<1> QED BY <1>1, <1>2, <1>4, <1>5, JumpGoes, MenuGoes

\* and its retry.
LEMMA MenuRetryGoes ==
  ASSUME Typed, InLoader, MenuRetry
  PROVE  LoaderGoes
<1> DEFINE s == Selected(disk)
           c == [ctx EXCEPT !.noRetry = TRUE, !.continue = FALSE]
<1>1. /\ doing = "menu" /\ ctx \in Contexts
      /\ ctx.legacy = FALSE /\ ~JournalPresent(disk) /\ Readable(disk) # {}
  BY DEF Typed, InLoader, MenuRetry, Contexts
<1>2. s.attempt \in 0..NoSlot
  BY <1>1, Chosen, StateFields DEF Typed
<1>3. c \in Contexts /\ c.legacy = FALSE
  BY <1>1 DEF Contexts
<1>4. /\ s.boot = "FAILED" /\ s.attempt # NoSlot /\ s.rec[s.attempt] > 0
      /\ TryCandidate(s.attempt, c) \/ MarkFailed(s.attempt, c)
  BY DEF MenuRetry, RetryAllowed
<1> HIDE DEF c
<1>5. s.attempt \in Slots
  BY <1>2, <1>4 DEF Slots, NoSlot
<1> QED BY <1>1, <1>3, <1>4, <1>5, TryCandidateGoes, MarkFailedGoes

-----------------------------------------------------------------------------
(* What a step leaves on the disk.                                         *)

\* The steps at which the loader chooses where to go.
LoaderChoice ==
  \/ LoaderStart \/ ChainReturns \/ MenuContinue \/ MenuPrevious \/ MenuRetry

(* Whatever the loader chooses it leaves the disk, the counts and what was *)
(* confirmed.                                                              *)
LEMMA LoaderChoiceFacts ==
  ASSUME Typed, InLoader, LoaderChoice
  PROVE  /\ LoaderGoes /\ UNCHANGED loaderRest
         /\ doing \in {"loader", "jump", "menu"}
         /\ doing' \in {"menu", "fail", "attempt", "jump"}
         /\ approved' \in {0, approved}
<1>1. LoaderGoes
  BY LoaderStartGoes, ChainReturnsGoes, MenuContinueGoes, MenuPreviousGoes,
     MenuRetryGoes DEF LoaderChoice
<1>2. doing' \in {"menu", "fail", "attempt", "jump"}
  BY <1>1 DEF LoaderGoes
<1> QED
  BY <1>1, <1>2 DEF LoaderChoice, LoaderStart, ChainReturns, MenuContinue,
                    MenuPrevious, MenuRetry

\* What the loader is about to write.
LEMMA ControlFacts ==
  ASSUME Typed, InLoader, doing \in {"attempt", "fail"}
  PROVE  LET s == Selected(disk)
             v == ControlValue
         IN /\ Readable(disk) # {} /\ ~JournalPresent(disk)
            /\ s \in States /\ Decodes(s)
            /\ v \in States /\ Decodes(v) /\ v.valid = TRUE /\ v.seq = s.seq + 1
            /\ v.seq > s.seq
            /\ v.active = s.active /\ v.rec = s.rec /\ v.boot # "NONE"
            /\ v.pending # v.active
            /\ v.boot = "ATTEMPTED" => v.attempt \in Slots /\ v.rec[v.attempt] > 0
            /\ doing = "attempt" => /\ v.attempts = s.attempts + 1
                                    /\ v.attempt = ctx.slot
                                    /\ ctx.slot \in Slots
            /\ doing = "fail" =>
                 v.attempts = IF s.boot # "NONE" THEN s.attempts ELSE 1
<1> DEFINE s == Selected(disk)
           v == ControlValue
<1>1. Readable(disk) # {} /\ ~JournalPresent(disk) /\ ctx.slot \in Slots
  BY DEF InLoader
<1>2. s \in States /\ Decodes(s)
  BY <1>1, Chosen DEF Typed
<1>3. s.pending # s.active /\ s.seq \in Nat /\ s.active \in Slots
  BY <1>2, StateFields DEF Decodes
<1> HIDE DEF s
<1>4. CASE doing = "attempt"
  <2>1. s.attempts < AttemptLimit /\ s.rec[ctx.slot] > 0
    BY <1>4 DEF InLoader, s
  <2>2. v = Attempted(s, ctx.slot)
    BY <1>4 DEF ControlValue, s
  <2> HIDE DEF v
  <2>3. /\ v \in States /\ Decodes(v) /\ v.seq = s.seq + 1
        /\ v.active = s.active /\ v.rec = s.rec /\ v.boot = "ATTEMPTED"
        /\ v.pending = s.pending /\ v.attempt = ctx.slot /\ v.valid = TRUE
        /\ v.attempts = s.attempts + 1
    BY <1>1, <1>2, <2>1, <2>2, AttemptedFields
  <2> QED BY <1>1, <1>2, <1>3, <1>4, <2>1, <2>3 DEF v, s
<1>5. CASE doing = "fail"
  <2>2. v = AttemptFailed(s, ctx.slot)
    BY <1>5 DEF ControlValue, s
  <2> HIDE DEF v
  <2>3. /\ v \in States /\ Decodes(v) /\ v.seq = s.seq + 1
        /\ v.active = s.active /\ v.rec = s.rec /\ v.boot = "FAILED"
        /\ v.pending = NoSlot
        /\ v.attempts = IF s.boot # "NONE" THEN s.attempts ELSE 1
    BY <1>1, <1>2, <2>2, AttemptFailedFields
  <2>4. v.valid = TRUE /\ v.active # NoSlot
    BY <2>3, StateFields, Numbers
  <2> QED BY <1>1, <1>2, <1>3, <1>5, <2>3, <2>4 DEF v, s
<1> QED BY <1>4, <1>5

\* The steps that write to the disk, and what each may change.
LEMMA DiskNext ==
  ASSUME Typed, Placed, Halved, InLoader, SlotsNext
  PROVE  /\ half' # 0 => PublishEntry
         /\ \/ PublishEntry
            \/ disk' = disk
            \/ disk' = OldRemoved /\ doing \in Writes
            \/ /\ doing \in {"begin", "data"}
               /\ \E e \in Images \cup {Partial} :
                    disk' = [disk EXCEPT ![Staging] = <<e>>]
            \/ doing = "untemp" /\ disk' = Deleted(disk, Staging)
            \/ doing \in {"abort", "unstage"} /\ StagingDeleted
            \/ /\ doing \in ClearPlaces
               /\ \E i \in Slots : disk' = Deleted(disk, Jrn(i))
            \/ doing = "discard" /\ disk' = Deleted(disk, Slot(mj.target))
            \/ /\ doing \in {"attempt", "fail"}
               /\ \E v \in {ControlValue, Torn} : disk' = Sector(v)
<1> USE DEF Writes, JournalWrites, StateWrites, CopyWrites, kernel, history,
       counts
<1>1. CASE PublishEntry
  BY <1>1
<1>2. CASE \E i \in Images : Stage(i)
  BY <1>2 DEF Stage, Halved
<1>3. CASE JournalPrepared
  BY <1>3 DEF JournalPrepared, Succeeds, OldEntryDeleted, Halved
<1>4. CASE PrepareFails
  BY <1>4 DEF PrepareFails, WriteFails, DiskError, Return, Halved
<1>5. CASE JournalStaging
  BY <1>5 DEF JournalStaging, Succeeds, OldEntryDeleted, Halved
<1>6. CASE WriterBegin
  BY <1>6, Numbers DEF WriterBegin, Halved, Partial
<1>7. CASE WriterEnd
  <2>1. mj.image \in Images
    BY <1>7, PhaseNames DEF Placed, WriterEnd, StagePlaces
  <2> QED BY <1>7, <2>1 DEF WriterEnd, Halved
<1>8. CASE WriterCancel
  BY <1>8 DEF WriterCancel, Halved
<1>9. CASE WriterFails
  BY <1>9 DEF WriterFails, WriteFails, DiskError, Halved
<1>10. CASE SlotPublished
  BY <1>10 DEF SlotPublished, Succeeds, OldEntryDeleted, Halved
<1>11. CASE WriterFinish
  BY <1>11 DEF WriterFinish, Return, Halved
<1>12. CASE JournalVerified
  BY <1>12 DEF JournalVerified, Succeeds, OldEntryDeleted, Halved
<1>13. CASE StagedNotPublished
  BY <1>13
     DEF StagedNotPublished, Fails, WriteFails, DiskError, OldEntryDeleted,
         Return, Halved
<1>14. CASE PendingWritten
  BY <1>14 DEF PendingWritten, Succeeds, OldEntryDeleted, Halved
<1>15. CASE JournalCommitted
  BY <1>15 DEF JournalCommitted, Succeeds, OldEntryDeleted, Halved
<1>16. CASE Replicated
  BY <1>16 DEF Replicated, Succeeds, OldEntryDeleted, Halved
<1>17. CASE CommitFails
  BY <1>17
     DEF CommitFails, Fails, WriteFails, DiskError, OldEntryDeleted, Return,
         Halved
<1>18. CASE AbortStaging
  BY <1>18 DEF AbortStaging, DiskError, Halved
<1>19. CASE ClearFirst
  BY <1>19 DEF ClearFirst, DiskError, Halved, ClearPlaces, Slots
<1>20. CASE ClearSecond
  BY <1>20 DEF ClearSecond, DiskError, Return, Halved, ClearPlaces, Slots
<1>21. CASE LoadControls
  BY <1>21 DEF LoadControls, Halved
<1>22. CASE Republished
  BY <1>22 DEF Republished, Succeeds, OldEntryDeleted, Halved
<1>23. CASE DiscardTarget
  BY <1>23 DEF DiscardTarget, Halved
<1>24. CASE Unstage
  BY <1>24 DEF Unstage, Halved
<1>25. CASE RecoveryFails
  BY <1>25
     DEF RecoveryFails, Fails, WriteFails, DiskError, OldEntryDeleted, Halved
<1>26. CASE Examine
  BY <1>26 DEF Examine, Return, Halved
<1>27. CASE BootConfirm
  BY <1>27 DEF BootConfirm, Return, Halved
<1>28. CASE Promoted
  BY <1>28 DEF Promoted, Succeeds, OldEntryDeleted, Return, Halved
<1>29. CASE PromoteFails
  BY <1>29
     DEF PromoteFails, Fails, WriteFails, DiskError, OldEntryDeleted, Return,
         Halved
<1>30. CASE CancelPending
  BY <1>30 DEF CancelPending, Halved
<1>31. CASE Withdrawn
  BY <1>31 DEF Withdrawn, Succeeds, OldEntryDeleted, Halved
<1>32. CASE Cancelled
  BY <1>32 DEF Cancelled, Succeeds, OldEntryDeleted, Return, Halved
<1>33. CASE CancelFails
  BY <1>33
     DEF CancelFails, Fails, WriteFails, DiskError, OldEntryDeleted, Return,
         Halved
<1>34. CASE LoaderChoice
  BY <1>34, LoaderChoiceFacts DEF loaderRest, Halved
<1>35. CASE AttemptWritten
  BY <1>35 DEF AttemptWritten, Halved
<1>36. CASE FailureWritten
  BY <1>36 DEF FailureWritten, Halved
<1>37. CASE ControlWriteFails
  BY <1>37 DEF ControlWriteFails, DiskError, Legacy, NoBoot, Halved
<1>38. CASE KernelStarts
  BY <1>38 DEF KernelStarts, Halved
<1>39. CASE MenuLegacy
  BY <1>39
     DEF MenuLegacy, Menu, Legacy, Jump, MarkFailed, TryCandidate, loaderRest,
         NoContext, NoBoot, Halved
<1>40. CASE RebootIntoCandidate
  BY <1>40 DEF RebootIntoCandidate, PowerOn, Halved
<1>41. CASE Restart
  BY <1>41 DEF Restart, PowerOn, Halved
<1>42. CASE PowerCut
  BY <1>42 DEF PowerCut, PowerOn, Crash, Halved
<1>43. CASE LoaderPowerCut
  BY <1>43 DEF LoaderPowerCut, PowerOn, Crash, Halved
<1> QED
  BY <1>1, <1>2, <1>3, <1>4, <1>5, <1>6, <1>7, <1>8, <1>9, <1>10, <1>11,
     <1>12, <1>13, <1>14, <1>15, <1>16, <1>17, <1>18, <1>19, <1>20, <1>21,
     <1>22, <1>23, <1>24, <1>25, <1>26, <1>27, <1>28, <1>29, <1>30, <1>31,
     <1>32, <1>33, <1>34, <1>35, <1>36, <1>37, <1>38, <1>39, <1>40, <1>41,
     <1>42, <1>43
     DEF SlotsNext, KernelStep, LoaderStep, LoaderChoice

\* Every step leaves in each file entries of the file's kind.
LEMMA DiskTypedNext ==
  ASSUME Typed, Placed, Halved, InLoader, SlotsNext
  PROVE  DiskTyped(disk')
<1>1. DiskTyped(disk)
  BY DEF Typed
<1>2. CASE PublishEntry
  BY <1>2, PublishFacts
<1>3. CASE disk' = OldRemoved
  BY <1>3, OldRemovedFacts
<1>4. CASE \E e \in Images \cup {Partial} :
             disk' = [disk EXCEPT ![Staging] = <<e>>]
  <2>1. PICK e \in Images \cup {Partial} :
          disk' = [disk EXCEPT ![Staging] = <<e>>]
    BY <1>4
  <2>2. <<e>> \in Seq(Kind(Staging)) /\ Staging \in Files
    BY Kinds, FileNames
  <2> QED BY <1>1, <2>1, <2>2 DEF DiskTyped
<1>5. CASE disk' = Deleted(disk, Staging)
  BY <1>1, <1>5, DeletedFacts, FileNames
<1>6. CASE doing \in {"abort", "unstage"} /\ StagingDeleted
  <2>1. mj \in WrittenJournals
    BY <1>6 DEF Placed, StagePlaces, InitPlaces
  <2> QED BY <1>1, <1>6, <2>1, StagingDeletedFacts
<1>7. CASE \E i \in Slots : disk' = Deleted(disk, Jrn(i))
  BY <1>1, <1>7, DeletedFacts, FileNames
<1>8. CASE doing = "discard" /\ disk' = Deleted(disk, Slot(mj.target))
  <2>1. mj.target \in Slots
    BY <1>8, PhaseNames DEF Placed, InitPlaces
  <2> QED BY <1>1, <1>8, <2>1, DeletedFacts, FileNames
<1>9. CASE /\ doing \in {"attempt", "fail"}
           /\ \E v \in {ControlValue, Torn} : disk' = Sector(v)
  <2>1. Readable(disk) # {} /\ {ControlValue, Torn} \subseteq StateEntries
    BY <1>9, ControlFacts, Factories DEF StateEntries
  <2>2. PICK v \in StateEntries : disk' = Sector(v)
    BY <1>9, <2>1
  <2> QED BY <1>1, <2>1, <2>2, SectorFacts
<1> QED
  BY <1>1, <1>2, <1>3, <1>4, <1>5, <1>6, <1>7, <1>8, <1>9, DiskNext

-----------------------------------------------------------------------------
(* Types.                                                                  *)

(* Every step leaves the journal in memory where the place of the run      *)
(* needs it.                                                               *)
LEMMA PlacedNext ==
  ASSUME Typed, Placed, InLoader, SlotsNext
  PROVE  Placed'
<1> USE DEF StagePlaces, PendingPlaces, InitPlaces, ClearPlaces, CancelPlaces,
       LoaderPlaces, Session, kernel, history, counts
<1>1. CASE PublishEntry
  BY <1>1 DEF PublishEntry, Typed, Placed
<1>2. CASE \E i \in Images : Stage(i)
  <2>1. PICK i \in Images : Stage(i)
    BY <1>2
  <2>2. mj' \in WrittenJournals
    <3>1. mem.seq \in Nat /\ mem.active \in Slots
      BY StateFields DEF Typed
    <3>2. mem.seq + 1 \in Nat /\ StageTarget \in Slots
      BY <3>1 DEF StageTarget, Slots
    <3> QED BY <2>1, <3>2, PhaseNames DEF Stage, WrittenJournals
  <2>3. doing' = "prepared" /\ task' = "stage"
    BY <2>1 DEF Stage
  <2> QED BY <2>2, <2>3 DEF Placed
<1>3. CASE JournalPrepared
  <2>1. mj \in WrittenJournals /\ doing = "prepared"
    BY <1>3 DEF JournalPrepared, Succeeds, OldEntryDeleted, Placed
  <2>2. mj' \in WrittenJournals
    BY <1>3, <2>1, PhaseNames DEF JournalPrepared, WrittenJournals
  <2> QED BY <1>3, <2>1, <2>2 DEF JournalPrepared, Placed
<1>4. CASE PrepareFails
  BY <1>4 DEF PrepareFails, WriteFails, DiskError, Return, Typed, Placed
<1>5. CASE JournalStaging
  BY <1>5 DEF JournalStaging, Succeeds, OldEntryDeleted, Typed, Placed
<1>6. CASE WriterBegin
  BY <1>6 DEF WriterBegin, Typed, Placed
<1>7. CASE WriterEnd
  BY <1>7 DEF WriterEnd, Typed, Placed
<1>8. CASE WriterCancel
  BY <1>8 DEF WriterCancel, Typed, Placed
<1>9. CASE WriterFails
  BY <1>9 DEF WriterFails, WriteFails, DiskError, Typed, Placed
<1>10. CASE SlotPublished
  BY <1>10 DEF SlotPublished, Succeeds, OldEntryDeleted, Typed, Placed
<1>11. CASE WriterFinish
  <2>1. mj \in WrittenJournals /\ doing = "untemp" /\ task = "stage"
    BY <1>11 DEF WriterFinish, Placed
  <2>2. mj' \in WrittenJournals
    BY <1>11, <2>1, PhaseNames DEF WriterFinish, WrittenJournals
  <2>3. doing' \in {"verified", "idle"} /\ (doing' = "verified" => task' = task)
    BY <1>11 DEF WriterFinish, Return
  <2> QED BY <1>11, <2>1, <2>2, <2>3 DEF Placed
<1>12. CASE JournalVerified
  BY <1>12 DEF JournalVerified, Succeeds, OldEntryDeleted, Typed, Placed
<1>13. CASE StagedNotPublished
  BY <1>13
     DEF StagedNotPublished, Fails, WriteFails, DiskError, OldEntryDeleted,
         Return, Typed, Placed
<1>14. CASE PendingWritten
  <2>1. mj \in WrittenJournals /\ doing = "pending"
    BY <1>14 DEF PendingWritten, Succeeds, OldEntryDeleted, Placed
  <2>2. mj' \in WrittenJournals
    BY <1>14, <2>1, PhaseNames DEF PendingWritten, WrittenJournals
  <2> QED BY <1>14, <2>1, <2>2 DEF PendingWritten, Placed
<1>15. CASE JournalCommitted
  BY <1>15 DEF JournalCommitted, Succeeds, OldEntryDeleted, Typed, Placed
<1>16. CASE Replicated
  BY <1>16 DEF Replicated, Succeeds, OldEntryDeleted, Typed, Placed
<1>17. CASE CommitFails
  BY <1>17
     DEF CommitFails, Fails, WriteFails, DiskError, OldEntryDeleted, Return,
         Typed, Placed
<1>18. CASE AbortStaging
  BY <1>18 DEF AbortStaging, DiskError, Typed, Placed
<1>19. CASE ClearFirst
  BY <1>19 DEF ClearFirst, DiskError, Typed, Placed
<1>20. CASE ClearSecond
  BY <1>20 DEF ClearSecond, DiskError, Return, Typed, Placed
<1>21. CASE LoadControls
  <2>1. task' = "init" /\ doing' \in InitPlaces
    BY <1>21, LoadControlsFacts DEF LoadControls
  <2>2. doing' \in InitPlaces \ {"examine"} => mj' \in WrittenJournals
    BY <1>21, LoadControlsFacts
  <2> QED BY <2>1, <2>2 DEF Placed
<1>22. CASE Republished
  BY <1>22 DEF Republished, Succeeds, OldEntryDeleted, Typed, Placed
<1>23. CASE DiscardTarget
  BY <1>23 DEF DiscardTarget, Typed, Placed
<1>24. CASE Unstage
  BY <1>24 DEF Unstage, Typed, Placed
<1>25. CASE RecoveryFails
  BY <1>25
     DEF RecoveryFails, Fails, WriteFails, DiskError, OldEntryDeleted, Typed,
         Placed
<1>26. CASE Examine
  <2>1. /\ doing' \in {"idle", "confirm"} /\ mj' = mj
        /\ doing' = "confirm" => bad' = FALSE /\ mj.phase = NoPhase
    <3>1. bad' \in BOOLEAN
      BY <1>26 DEF Examine, Typed
    <3> QED BY <1>26, <3>1 DEF Examine, Return
  <2> QED BY <2>1, NoPhaseIsNoJournal DEF Placed
<1>27. CASE BootConfirm
  BY <1>27 DEF BootConfirm, Return, Typed, Placed
<1>28. CASE Promoted
  BY <1>28 DEF Promoted, Succeeds, OldEntryDeleted, Return, Typed, Placed
<1>29. CASE PromoteFails
  BY <1>29
     DEF PromoteFails, Fails, WriteFails, DiskError, OldEntryDeleted, Return,
         Typed, Placed
<1>30. CASE CancelPending
  BY <1>30, NoPhaseIsNoJournal DEF CancelPending, Typed, Placed
<1>31. CASE Withdrawn
  BY <1>31 DEF Withdrawn, Succeeds, OldEntryDeleted, Typed, Placed
<1>32. CASE Cancelled
  BY <1>32 DEF Cancelled, Succeeds, OldEntryDeleted, Return, Typed, Placed
<1>33. CASE CancelFails
  BY <1>33
     DEF CancelFails, Fails, WriteFails, DiskError, OldEntryDeleted, Return,
         Typed, Placed
<1>34. CASE LoaderChoice
  BY <1>34, LoaderChoiceFacts DEF loaderRest, Placed
<1>35. CASE AttemptWritten
  BY <1>35 DEF AttemptWritten, Typed, Placed
<1>36. CASE FailureWritten
  BY <1>36 DEF FailureWritten, Typed, Placed
<1>37. CASE ControlWriteFails
  BY <1>37 DEF ControlWriteFails, DiskError, Legacy, NoBoot, Typed, Placed
<1>38. CASE KernelStarts
  BY <1>38 DEF KernelStarts, Typed, Placed
<1>39. CASE MenuLegacy
  BY <1>39
     DEF MenuLegacy, Menu, Legacy, Jump, MarkFailed, TryCandidate, loaderRest,
         NoContext, NoBoot, Typed, Placed
<1>40. CASE RebootIntoCandidate
  BY <1>40 DEF RebootIntoCandidate, PowerOn, Typed, Placed
<1>41. CASE Restart
  BY <1>41 DEF Restart, PowerOn, Typed, Placed
<1>42. CASE PowerCut
  BY <1>42 DEF PowerCut, PowerOn, Crash, Typed, Placed
<1>43. CASE LoaderPowerCut
  BY <1>43 DEF LoaderPowerCut, PowerOn, Crash, Typed, Placed
<1> QED
  BY <1>1, <1>2, <1>3, <1>4, <1>5, <1>6, <1>7, <1>8, <1>9, <1>10, <1>11,
     <1>12, <1>13, <1>14, <1>15, <1>16, <1>17, <1>18, <1>19, <1>20, <1>21,
     <1>22, <1>23, <1>24, <1>25, <1>26, <1>27, <1>28, <1>29, <1>30, <1>31,
     <1>32, <1>33, <1>34, <1>35, <1>36, <1>37, <1>38, <1>39, <1>40, <1>41,
     <1>42, <1>43
     DEF SlotsNext, KernelStep, LoaderStep, LoaderChoice

\* The handoff is torn or a state.
LEMMA HandoffTyped ==
  ASSUME Typed
  PROVE  /\ run.handoff.valid \in BOOLEAN /\ run.slot \in 0..NoSlot
         /\ run.handoff.valid = TRUE => run.handoff \in States
  BY StateFields, Factories DEF Typed, Boots, StateEntries

\* The end of init, field by field.
LEMMA ExamineFacts ==
  ASSUME Typed, Examine
  PROVE  /\ mem' \in States /\ mem'.seq = mem.seq /\ mem'.active = mem.active
         /\ mem'.pending = mem.pending /\ mem'.boot = mem.boot
         /\ mem'.attempt = mem.attempt /\ mem'.attempts = mem.attempts
         /\ \A s \in Slots :
              mem'.rec[s] = IF mem.rec[s] > 0 /\ ~Holds(disk, s, mem.rec[s])
                            THEN Invalid ELSE mem.rec[s]
         /\ bad' \in BOOLEAN
         /\ bad = TRUE => bad' = TRUE
         /\ bad' = FALSE => mem'.rec = mem.rec
         /\ \/ doing' = "idle"
            \/ doing' = "confirm" /\ bad' = FALSE /\ mj = NoJournal
<1> DEFINE rec2 == [s \in Slots |->
                      IF mem.rec[s] > 0 /\ ~Holds(disk, s, mem.rec[s])
                      THEN Invalid ELSE mem.rec[s]]
           r == mem.recovery \/ (mj.phase = NoPhase /\ Exists(disk, Staging))
<1>1. mem \in States
  BY DEF Typed
<1>2. /\ mem.valid = TRUE /\ mem.seq \in Nat /\ mem.active \in Slots
      /\ mem.pending \in 0..NoSlot /\ mem.previous \in 0..NoSlot
      /\ mem.attempt \in 0..NoSlot
      /\ mem.boot \in {"NONE", "ATTEMPTED", "FAILED"}
      /\ mem.attempts \in 0..AttemptLimit
      /\ mem.rec \in [Slots -> Invalid..MaxImage]
  BY <1>1, StateFields
<1>3. r \in BOOLEAN /\ rec2 \in [Slots -> Invalid..MaxImage]
  <2>1. Invalid \in Invalid..MaxImage
    BY BoundsAssumption DEF Invalid
  <2> HIDE DEF Invalid
  <2> QED BY <1>2, <2>1
<1>4. mem' = [mem EXCEPT !.recovery = r, !.rec = rec2]
  BY <1>2 DEF Examine
<1>5. mem' = StateOf(mem.seq, mem.active, mem.pending, mem.previous, mem.attempt,
                     mem.boot, mem.attempts, r, rec2)
  <2> HIDE DEF rec2, r
  <2> QED BY <1>1, <1>4 DEF StateOf, States
<1>6. mem' \in States
  <2> HIDE DEF rec2, r
  <2> QED BY <1>2, <1>3, <1>5, StateOfIsState, SMTT(30)
<1>7. /\ mem'.seq = mem.seq /\ mem'.active = mem.active
      /\ mem'.pending = mem.pending /\ mem'.boot = mem.boot
      /\ mem'.attempt = mem.attempt /\ mem'.attempts = mem.attempts
      /\ mem'.rec = rec2
  <2> HIDE DEF rec2, r
  <2> QED BY <1>5 DEF StateOf
<1>8. /\ bad' \in BOOLEAN
      /\ bad = TRUE => bad' = TRUE
      /\ bad' = FALSE =>
           \A s \in Slots : ~(mem.rec[s] > 0 /\ ~Holds(disk, s, mem.rec[s]))
  BY DEF Examine, Typed
<1>9. bad' = FALSE => rec2 = mem.rec
  BY <1>2, <1>8
<1>10. \/ doing' = "idle"
       \/ doing' = "confirm" /\ bad' = FALSE /\ mj = NoJournal
  <2>1. \/ doing' = "idle"
        \/ doing' = "confirm" /\ bad' # TRUE /\ mj.phase = NoPhase
    BY DEF Examine, Return
  <2>2. CASE doing' = "confirm" /\ bad' # TRUE /\ mj.phase = NoPhase
    <3>1. mj = NoJournal
      BY <2>2, NoPhaseIsNoJournal
    <3>2. bad' = FALSE
      BY <1>8, <2>2
    <3> QED BY <2>2, <3>1, <3>2
  <2> QED BY <2>1, <2>2
<1> QED BY <1>6, <1>7, <1>8, <1>9, <1>10

(* Clearing the journals changes nothing of the state in memory but the    *)
(* recovery flag.                                                          *)
LEMMA ClearSecondFacts ==
  ASSUME Typed, ClearSecond
  PROVE  /\ mem' \in States /\ mem'.seq = mem.seq /\ mem'.active = mem.active
         /\ mem'.pending = mem.pending /\ mem'.boot = mem.boot
         /\ mem'.rec = mem.rec /\ mem'.attempt = mem.attempt
         /\ Decodes(mem) <=> Decodes(mem')
<1>1. PICK error \in BOOLEAN :
        mem' = [mem EXCEPT !.recovery =
                  mem.recovery \/ (~(~error /\ ~failed)
                                   /\ (task = "init" \/ mj.phase = COMMITTED))]
  BY DEF ClearSecond
<1> DEFINE b == IF \/ mem.recovery
                   \/ /\ ~(~error /\ ~failed)
                      /\ task = "init" \/ mj.phase = COMMITTED
                THEN TRUE ELSE FALSE
<1>2. mem \in States
  BY DEF Typed
<1>3. mem.recovery \in BOOLEAN
  BY <1>2, StateFields
<1>4. b \in BOOLEAN /\ mem' = [mem EXCEPT !.recovery = b]
  BY <1>1, <1>3
<1> HIDE DEF b
<1> QED BY <1>2, <1>4, FlaggedFields

\* Every step leaves a state in memory.
LEMMA MemNext ==
  ASSUME Typed, Placed, Halved, InLoader, SlotsNext
  PROVE  mem' \in States
<1>1. CASE PublishEntry
  BY <1>1 DEF Typed, PublishEntry, kernel, loaderRest
<1>2. CASE \E i \in Images : Stage(i)
  BY <1>2 DEF Typed, Stage, kernel, loaderRest
<1>3. CASE JournalPrepared
  BY <1>3 DEF Typed, JournalPrepared, kernel, loaderRest
<1>4. CASE PrepareFails
  BY <1>4 DEF Typed, PrepareFails, kernel, loaderRest
<1>5. CASE JournalStaging
  BY <1>5 DEF Typed, JournalStaging, kernel, loaderRest
<1>6. CASE WriterBegin
  BY <1>6 DEF Typed, WriterBegin, kernel, loaderRest
<1>7. CASE WriterEnd
  BY <1>7 DEF Typed, WriterEnd, kernel, loaderRest
<1>8. CASE WriterCancel
  BY <1>8 DEF Typed, WriterCancel, kernel, loaderRest
<1>9. CASE WriterFails
  BY <1>9 DEF Typed, WriterFails, kernel, loaderRest
<1>10. CASE SlotPublished
  BY <1>10 DEF Typed, SlotPublished, kernel, loaderRest
<1>11. CASE WriterFinish
  BY <1>11 DEF Typed, WriterFinish, kernel, loaderRest
<1>12. CASE JournalVerified
  <2>1. /\ mem \in States /\ mj.target \in Slots /\ mj.image \in Images
        /\ mem' = WithPending(mem, mj.target, mj.image)
    BY <1>12, PhaseNames DEF JournalVerified, Succeeds, OldEntryDeleted, Typed,
                         Placed, StagePlaces
  <2> QED BY <2>1, WithPendingFields
<1>13. CASE StagedNotPublished
  BY <1>13 DEF Typed, StagedNotPublished, kernel, loaderRest
<1>14. CASE PendingWritten
  BY <1>14 DEF Typed, PendingWritten, kernel, loaderRest
<1>15. CASE JournalCommitted
  BY <1>15 DEF Typed, JournalCommitted, kernel, loaderRest
<1>16. CASE Replicated
  BY <1>16 DEF Typed, Replicated, kernel, loaderRest
<1>17. CASE CommitFails
  <2>1. mem' = [mem EXCEPT !.recovery = TRUE] /\ mem \in States
    BY <1>17 DEF CommitFails, Typed
  <2> QED BY <2>1, FlaggedFields
<1>18. CASE AbortStaging
  BY <1>18 DEF Typed, AbortStaging, kernel, loaderRest
<1>19. CASE ClearFirst
  BY <1>19 DEF Typed, ClearFirst, kernel, loaderRest
<1>20. CASE ClearSecond
  BY <1>20, ClearSecondFacts
<1>21. CASE LoadControls
  <2> DEFINE s == LoadedState(disk)
  <2>1. s \in States
    BY LoadedFacts DEF Typed
  <2>2. \/ mem' = s
        \/ /\ mem' = WithPending(s, mj'.target, mj'.image)
           /\ mj'.target \in Slots /\ mj'.image \in Images
        \/ mem' = [s EXCEPT !.recovery = TRUE]
    BY <1>21, LoadControlsFacts, PhaseNames
  <2> HIDE DEF s
  <2>3. CASE mem' = [s EXCEPT !.recovery = TRUE]
    BY <2>1, <2>3, FlaggedFields
  <2> QED BY <2>1, <2>2, <2>3, WithPendingFields
<1>22. CASE Republished
  BY <1>22 DEF Typed, Republished, kernel, loaderRest
<1>23. CASE DiscardTarget
  BY <1>23 DEF Typed, DiscardTarget, kernel, loaderRest
<1>24. CASE Unstage
  BY <1>24 DEF Typed, Unstage, kernel, loaderRest
<1>25. CASE RecoveryFails
  <2>1. mem' = [mem EXCEPT !.recovery = TRUE] /\ mem \in States
    BY <1>25 DEF RecoveryFails, Typed
  <2> QED BY <2>1, FlaggedFields
<1>26. CASE Examine
  BY <1>26, ExamineFacts
<1>27. CASE BootConfirm
  <2>1. CASE HandoffMatches
    <3>1. mem' = Promotion /\ mem.attempt = run.handoff.attempt
          /\ run.handoff.valid = TRUE
      BY <1>27, <2>1, HandoffTyped DEF BootConfirm, HandoffMatches
    <3>2. mem.attempt \in Slots /\ mem \in States
      BY <3>1 DEF InLoader, Typed
    <3> QED BY <3>1, <3>2, PromotionFields
  <2>2. CASE ~HandoffMatches
    BY <1>27, <2>2 DEF BootConfirm, Typed
  <2> QED BY <2>1, <2>2
<1>28. CASE Promoted
  BY <1>28 DEF Typed, Promoted, kernel, loaderRest
<1>29. CASE PromoteFails
  BY <1>29 DEF Typed, PromoteFails, kernel, loaderRest
<1>30. CASE CancelPending
  <2>1. mem' = Cancellation
    BY <1>30 DEF CancelPending, Cancellation
  <2> QED BY <2>1, CancellationFields DEF Typed
<1>31. CASE Withdrawn
  BY <1>31 DEF Typed, Withdrawn, kernel, loaderRest
<1>32. CASE Cancelled
  BY <1>32 DEF Typed, Cancelled, kernel, loaderRest
<1>33. CASE CancelFails
  <2>1. mem' = LoadedState(disk')
    BY <1>33 DEF CancelFails
  <2>2. DiskTyped(disk')
    BY DiskTypedNext
  <2> QED BY <2>1, <2>2, LoadedFacts
<1>34. CASE LoaderChoice
  BY <1>34, LoaderChoiceFacts DEF Typed, loaderRest
<1>35. CASE AttemptWritten
  BY <1>35 DEF Typed, AttemptWritten, kernel, loaderRest
<1>36. CASE FailureWritten
  BY <1>36 DEF Typed, FailureWritten, kernel, loaderRest
<1>37. CASE ControlWriteFails
  BY <1>37 DEF Typed, ControlWriteFails, kernel, loaderRest
<1>38. CASE KernelStarts
  BY <1>38 DEF Typed, KernelStarts, kernel, loaderRest
<1>39. CASE MenuLegacy
  BY <1>39 DEF Typed, MenuLegacy, kernel, loaderRest
<1>40. CASE RebootIntoCandidate
  BY <1>40, Factories DEF RebootIntoCandidate, PowerOn
<1>41. CASE Restart
  BY <1>41, Factories DEF Restart, PowerOn
<1>42. CASE PowerCut
  BY <1>42, Factories DEF PowerCut, PowerOn
<1>43. CASE LoaderPowerCut
  BY <1>43, Factories DEF LoaderPowerCut, PowerOn
<1> QED
  BY <1>1, <1>2, <1>3, <1>4, <1>5, <1>6, <1>7, <1>8, <1>9, <1>10, <1>11, <1>12,
     <1>13, <1>14, <1>15, <1>16, <1>17, <1>18, <1>19, <1>20, <1>21, <1>22,
     <1>23, <1>24, <1>25, <1>26, <1>27, <1>28, <1>29, <1>30, <1>31, <1>32,
     <1>33, <1>34, <1>35, <1>36, <1>37, <1>38, <1>39, <1>40, <1>41, <1>42,
     <1>43
     DEF SlotsNext, KernelStep, LoaderStep, LoaderChoice

-----------------------------------------------------------------------------
(* State files.                                                            *)

\* Every step preserves the types.
LEMMA TypedNext ==
  ASSUME Typed, Placed, Halved, InLoader, Entries, SlotsNext
  PROVE  Typed'
<1> USE DEF StagePlaces, PendingPlaces, InitPlaces, ClearPlaces, CancelPlaces,
       LoaderPlaces, Session, kernel, history, counts
<1> DEFINE Rest ==
             /\ mj' \in WrittenJournals \cup {NoJournal}
             /\ bad' \in BOOLEAN /\ failed' \in BOOLEAN
             /\ run' \in Boots /\ ctx' \in Contexts
             /\ confirmed' \in SUBSET Images /\ approved' \in 0..MaxImage
             /\ starts' \in Nat /\ errors' \in Nat
             /\ doing' \in Session \cup LoaderPlaces
<1> HIDE DEF Rest
<1>a. DiskTyped(disk') /\ mem' \in States
  BY DiskTypedNext, MemNext
<1>b. half' \in {0, 1, 2, NothingOld}
  BY DiskNext, PublishFacts
<1> SUFFICES Rest
  BY <1>a, <1>b DEF Typed, Rest
<1>1. CASE PublishEntry
  BY <1>1, Destination
     DEF PublishEntry, Typed, Rest, Writes, JournalWrites, StateWrites,
         CopyWrites
<1>2. CASE \E i \in Images : Stage(i)
  <2>1. PICK i \in Images : Stage(i)
    BY <1>2
  <2>2. mj' \in WrittenJournals
    <3>1. mem.seq \in Nat /\ mem.active \in Slots
      BY StateFields DEF Typed
    <3>2. mem.seq + 1 \in Nat /\ StageTarget \in Slots
      BY <3>1 DEF StageTarget, Slots
    <3> QED BY <2>1, <3>2, PhaseNames DEF Stage, WrittenJournals
  <2> QED BY <2>1, <2>2 DEF Stage, Typed, Rest
<1>3. CASE JournalPrepared
  <2>1. mj \in WrittenJournals
    BY <1>3 DEF JournalPrepared, Succeeds, OldEntryDeleted, Placed
  <2>2. mj' \in WrittenJournals
    BY <1>3, <2>1, PhaseNames DEF JournalPrepared, WrittenJournals
  <2> QED BY <1>3, <2>2
             DEF JournalPrepared, Succeeds, OldEntryDeleted, Return, Typed,
                 Rest
<1>4. CASE PrepareFails
  BY <1>4 DEF PrepareFails, WriteFails, DiskError, Return, Typed, Rest
<1>5. CASE JournalStaging
  BY <1>5 DEF JournalStaging, Succeeds, OldEntryDeleted, Typed, Rest
<1>6. CASE WriterBegin
  BY <1>6 DEF WriterBegin, Typed, Rest
<1>7. CASE WriterEnd
  BY <1>7 DEF WriterEnd, Typed, Rest
<1>8. CASE WriterCancel
  BY <1>8 DEF WriterCancel, Typed, Rest
<1>9. CASE WriterFails
  BY <1>9 DEF WriterFails, WriteFails, DiskError, Typed, Rest
<1>10. CASE SlotPublished
  BY <1>10 DEF SlotPublished, Succeeds, OldEntryDeleted, Typed, Rest
<1>11. CASE WriterFinish
  <2>1. mj \in WrittenJournals
    BY <1>11 DEF WriterFinish, Succeeds, OldEntryDeleted, Placed
  <2>2. mj' \in WrittenJournals
    BY <1>11, <2>1, PhaseNames DEF WriterFinish, WrittenJournals
  <2> QED BY <1>11, <2>2
             DEF WriterFinish, Succeeds, OldEntryDeleted, Return, Typed, Rest
<1>12. CASE JournalVerified
  BY <1>12 DEF JournalVerified, Succeeds, OldEntryDeleted, Typed, Rest
<1>13. CASE StagedNotPublished
  BY <1>13
     DEF StagedNotPublished, Fails, WriteFails, DiskError, OldEntryDeleted,
         Return, Typed, Rest
<1>14. CASE PendingWritten
  <2>1. mj \in WrittenJournals
    BY <1>14 DEF PendingWritten, Succeeds, OldEntryDeleted, Placed
  <2>2. mj' \in WrittenJournals
    BY <1>14, <2>1, PhaseNames DEF PendingWritten, WrittenJournals
  <2> QED BY <1>14, <2>2
             DEF PendingWritten, Succeeds, OldEntryDeleted, Return, Typed,
                 Rest
<1>15. CASE JournalCommitted
  BY <1>15 DEF JournalCommitted, Succeeds, OldEntryDeleted, Typed, Rest
<1>16. CASE Replicated
  BY <1>16 DEF Replicated, Succeeds, OldEntryDeleted, Typed, Rest
<1>17. CASE CommitFails
  BY <1>17
     DEF CommitFails, Fails, WriteFails, DiskError, OldEntryDeleted, Return,
         Typed, Rest
<1>18. CASE AbortStaging
  BY <1>18 DEF AbortStaging, DiskError, Typed, Rest
<1>19. CASE ClearFirst
  <2>1. errors' \in Nat
    BY <1>19 DEF ClearFirst, DiskError, Typed
  <2>2. failed' \in BOOLEAN /\ doing' = "clear1"
    BY <1>19 DEF ClearFirst
  <2> QED BY <1>19, <2>1, <2>2 DEF ClearFirst, Typed, Rest
<1>20. CASE ClearSecond
  <2>1. errors' \in Nat /\ failed' = FALSE /\ doing' \in {"idle", "examine"}
    BY <1>20 DEF ClearSecond, DiskError, Typed, Return
  <2>2. mj' \in {NoJournal, mj}
    BY <1>20 DEF ClearSecond
  <2> HIDE DEF NoJournal
  <2> QED BY <1>20, <2>1, <2>2 DEF ClearSecond, Typed, Rest
<1>21. CASE LoadControls
  <2>1. mj' \in WrittenJournals \cup {NoJournal} /\ doing' \in InitPlaces
    BY <1>21, LoadControlsFacts
  <2>2. bad' \in BOOLEAN
    BY <1>21 DEF LoadControls
  <2> QED BY <1>21, <2>1, <2>2 DEF LoadControls, Typed, Rest
<1>22. CASE Republished
  BY <1>22 DEF Republished, Succeeds, OldEntryDeleted, Typed, Rest
<1>23. CASE DiscardTarget
  BY <1>23 DEF DiscardTarget, Typed, Rest
<1>24. CASE Unstage
  BY <1>24 DEF Unstage, Typed, Rest
<1>25. CASE RecoveryFails
  BY <1>25
     DEF RecoveryFails, Fails, WriteFails, DiskError, OldEntryDeleted, Typed,
         Rest
<1>26. CASE Examine
  <2>1. bad' \in BOOLEAN /\ doing' \in {"idle", "confirm"}
    BY <1>26, ExamineFacts
  <2> QED BY <1>26, <2>1 DEF Examine, Typed, Rest
<1>27. CASE BootConfirm
  <2>1. run.slot # NoSlot /\ HandoffMatches => mem.rec[run.slot] \in Images
    <3> SUFFICES ASSUME run.slot # NoSlot, HandoffMatches
                 PROVE  mem.rec[run.slot] \in Images
      OBVIOUS
    <3>1. mem.boot = "ATTEMPTED" /\ mem.attempt = run.handoff.attempt
          /\ run.handoff.valid = TRUE
      BY HandoffTyped DEF HandoffMatches
    <3>2. run.slot \in Slots /\ run.slot = mem.attempt
      BY <3>1 DEF InLoader
    <3>3. mem.rec[run.slot] > 0
      BY <1>27, <3>1, <3>2 DEF Entries, BootConfirm, Placed
    <3>4. mem.rec[run.slot] \in Invalid..MaxImage
      BY <3>2, StateFields DEF Typed
    <3> QED BY <3>3, <3>4, BoundsAssumption DEF Images, Invalid
  <2>2. confirmed' \in SUBSET Images
    BY <1>27, <2>1 DEF BootConfirm, Typed
  <2> QED BY <1>27, <2>2 DEF BootConfirm, Return, Typed, Rest
<1>28. CASE Promoted
  <2>1. run' \in Boots
    BY <1>28, Factories DEF Promoted, Typed, Boots
  <2> QED BY <1>28, <2>1
             DEF Promoted, Succeeds, OldEntryDeleted, Return, Typed, Rest
<1>29. CASE PromoteFails
  BY <1>29
     DEF PromoteFails, Fails, WriteFails, DiskError, OldEntryDeleted, Return,
         Typed, Rest
<1>30. CASE CancelPending
  BY <1>30 DEF CancelPending, Typed, Rest
<1>31. CASE Withdrawn
  BY <1>31 DEF Withdrawn, Succeeds, OldEntryDeleted, Typed, Rest
<1>32. CASE Cancelled
  BY <1>32 DEF Cancelled, Succeeds, OldEntryDeleted, Return, Typed, Rest
<1>33. CASE CancelFails
  BY <1>33
     DEF CancelFails, Fails, WriteFails, DiskError, OldEntryDeleted, Return,
         Typed, Rest
<1>34. CASE LoaderChoice
  <2>1. LoaderGoes /\ UNCHANGED loaderRest /\ approved' \in {0, approved}
    BY <1>34, LoaderChoiceFacts
  <2>2. run' \in Boots
    BY <2>1, NoBootIsOne DEF LoaderGoes, Typed
  <2>3. 0 \in 0..MaxImage
    BY Numbers
  <2>4. doing' \in LoaderPlaces
    BY <1>34, LoaderChoiceFacts
  <2>5. ctx' \in Contexts
    BY <2>1 DEF LoaderGoes
  <2> QED BY <2>1, <2>2, <2>3, <2>4, <2>5 DEF loaderRest, Typed, Rest
<1>35. CASE AttemptWritten
  <2>1. ControlValue \in StateEntries
    BY <1>35, ControlFacts DEF AttemptWritten, StateEntries
  <2>2. ctx.slot \in 0..NoSlot
    BY ContextFields DEF Typed
  <2>3. run' \in Boots
    <3> HIDE DEF ControlValue
    <3> QED BY <1>35, <2>1, <2>2 DEF AttemptWritten, Boots
  <2> QED BY <1>35, <2>3 DEF AttemptWritten, Typed, Rest
<1>36. CASE FailureWritten
  BY <1>36 DEF FailureWritten, Typed, Rest
<1>37. CASE ControlWriteFails
  <2>1. run' \in Boots /\ ctx' \in Contexts
    BY <1>37, ContextFields, NoBootIsOne DEF ControlWriteFails, Typed
  <2> QED BY <1>37, <2>1 DEF ControlWriteFails, DiskError, Typed, Rest
<1>38. CASE KernelStarts
  <2>1. NoBoot \in Boots /\ NoContext \in Contexts
    BY NoContextIsOne, NoBootIsOne
  <2> HIDE DEF NoBoot, NoContext
  <2> QED BY <1>38, <2>1 DEF KernelStarts, loaderRest, Typed, Rest
<1>39. CASE MenuLegacy
  <2>1. NoBoot \in Boots /\ NoContext \in Contexts
    BY NoContextIsOne, NoBootIsOne
  <2> HIDE DEF NoBoot, NoContext
  <2> QED BY <1>39, <2>1 DEF MenuLegacy, loaderRest, Typed, Rest
<1>40. CASE RebootIntoCandidate
  <2>1. NoBoot \in Boots /\ NoContext \in Contexts
    BY NoContextIsOne, NoBootIsOne
  <2>2. 0 \in 0..MaxImage
    BY Numbers
  <2> HIDE DEF NoBoot, NoContext
  <2>3. mem.rec[mem.pending] \in 0..MaxImage
    <3>1. mem.pending \in Slots /\ mem.rec[mem.pending] > 0
      <4>1. mem.pending \in 0..NoSlot
        BY StateFields DEF Typed
      <4>2. mem.pending # NoSlot /\ mem.rec[mem.pending] > 0
        BY <1>40 DEF RebootIntoCandidate, Preflight
      <4> QED BY <4>1, <4>2 DEF Slots, NoSlot
    <3>2. mem.rec[mem.pending] \in Invalid..MaxImage
      BY <3>1, StateFields DEF Typed
    <3> QED BY <3>1, <3>2, BoundsAssumption DEF Invalid
  <2> QED BY <1>40, <2>1, <2>2, <2>3
             DEF RebootIntoCandidate, PowerOn, Crash, Typed, Rest
<1>41. CASE Restart
  <2>1. NoBoot \in Boots /\ NoContext \in Contexts
    BY NoContextIsOne, NoBootIsOne
  <2>2. 0 \in 0..MaxImage
    BY Numbers
  <2> HIDE DEF NoBoot, NoContext
  <2> QED BY <1>41, <2>1, <2>2 DEF Restart, PowerOn, Crash, Typed, Rest
<1>42. CASE PowerCut
  <2>1. NoBoot \in Boots /\ NoContext \in Contexts
    BY NoContextIsOne, NoBootIsOne
  <2>2. 0 \in 0..MaxImage
    BY Numbers
  <2> HIDE DEF NoBoot, NoContext
  <2> QED BY <1>42, <2>1, <2>2 DEF PowerCut, PowerOn, Crash, Typed, Rest
<1>43. CASE LoaderPowerCut
  <2>1. NoBoot \in Boots /\ NoContext \in Contexts
    BY NoContextIsOne, NoBootIsOne
  <2>2. 0 \in 0..MaxImage
    BY Numbers
  <2> HIDE DEF NoBoot, NoContext
  <2> QED BY <1>43, <2>1, <2>2 DEF LoaderPowerCut, PowerOn, Crash, Typed, Rest
<1> QED
  BY <1>1, <1>2, <1>3, <1>4, <1>5, <1>6, <1>7, <1>8, <1>9, <1>10, <1>11,
     <1>12, <1>13, <1>14, <1>15, <1>16, <1>17, <1>18, <1>19, <1>20, <1>21,
     <1>22, <1>23, <1>24, <1>25, <1>26, <1>27, <1>28, <1>29, <1>30, <1>31,
     <1>32, <1>33, <1>34, <1>35, <1>36, <1>37, <1>38, <1>39, <1>40, <1>41,
     <1>42, <1>43
     DEF SlotsNext, KernelStep, LoaderStep, LoaderChoice


\* Steps other than the writes of a state leave the state files alone.
StatesKept == \A i \in Slots : disk'[Sta(i)] = disk[Sta(i)]

\* The state files are none of the others.
LEMMA StateNames ==
  ASSUME NEW i \in Slots
  PROVE  /\ Sta(i) \in Files /\ Sta(i) # Staging
         /\ \A j \in Slots : Sta(i) # Jrn(j) /\ Sta(i) # Slot(j)
  BY FileNames

(* The steps that change a state file: the two halves of a replacement and *)
(* the loader's control write.                                             *)
LEMMA StatesNext ==
  ASSUME Typed, Placed, Halved, InLoader, SlotsNext
  PROVE  /\ half' # 0 => PublishEntry
         /\ \/ PublishEntry
            \/ StatesKept
            \/ disk' = OldRemoved /\ doing \in Writes
            \/ /\ doing \in {"attempt", "fail"}
               /\ \E v \in {ControlValue, Torn} : disk' = Sector(v)
<1>1. DiskTyped(disk) /\ (half' # 0 => PublishEntry)
  BY DiskNext DEF Typed
<1>2. CASE \E e \in Images \cup {Partial} :
             disk' = [disk EXCEPT ![Staging] = <<e>>]
  BY <1>1, <1>2, StateNames DEF StatesKept, DiskTyped
<1>3. CASE disk' = Deleted(disk, Staging)
  BY <1>1, <1>3, DeletedFacts, StateNames, FileNames DEF StatesKept
<1>4. CASE doing \in {"abort", "unstage"} /\ StagingDeleted
  <2>1. mj \in WrittenJournals /\ mj.target \in Slots
    BY <1>4, PhaseNames DEF Placed, StagePlaces, InitPlaces
  <2> QED BY <1>1, <1>4, <2>1, StagingDeletedFacts, StateNames DEF StatesKept
<1>5. CASE \E i \in Slots : disk' = Deleted(disk, Jrn(i))
  <2>1. PICK i \in Slots : disk' = Deleted(disk, Jrn(i))
    BY <1>5
  <2>2. Jrn(i) \in Files
    BY FileNames
  <2> QED BY <1>1, <2>1, <2>2, DeletedFacts, StateNames DEF StatesKept
<1>6. CASE doing = "discard" /\ disk' = Deleted(disk, Slot(mj.target))
  <2>1. mj.target \in Slots
    BY <1>6, PhaseNames DEF Placed, InitPlaces
  <2>2. Slot(mj.target) \in Files
    BY <2>1, FileNames
  <2> QED BY <1>1, <1>6, <2>1, <2>2, DeletedFacts, StateNames DEF StatesKept
<1> QED BY <1>2, <1>3, <1>4, <1>5, <1>6, DiskNext DEF StatesKept

\* Every step preserves Halved: no state file is ever without an entry.
LEMMA HalvedNext ==
  ASSUME Typed, Placed, Halved, InLoader, SlotsNext
  PROVE  Halved'
<1>1. /\ DiskTyped(disk) /\ \A i \in Slots : Sta(i) \in Files
      /\ \A i \in Slots : Len(disk[Sta(i)]) \in Nat /\ Len(disk[Sta(i)]) >= 1
  BY StateNames, EntriesOf DEF Typed, Halved
<1>2. CASE PublishEntry
  <2>1. /\ doing \in Writes /\ doing' = doing /\ Dest' = Dest /\ Dest \in Files
        /\ half' \in {1, 2, NothingOld}
        /\ half' = NothingOld <=> disk[Dest] = <<>>
        /\ Len(disk'[Dest]) = Len(disk[Dest]) + 1
        /\ \A g \in Files : g # Dest => disk'[g] = disk[g]
    BY <1>2, PublishFacts DEF PublishEntry, Dest, kernel
  <2>2. Len(disk[Dest]) \in Nat /\ (disk[Dest] # <<>> => Len(disk[Dest]) >= 1)
    BY <1>1, <2>1, EntriesOf
  <2>3. ASSUME NEW i \in Slots PROVE Len(disk'[Sta(i)]) >= 1
    BY <1>1, <2>1, <2>2
  <2>4. half' \in {1, 2} => Len(disk'[Dest']) >= 2
    BY <2>1, <2>2 DEF NothingOld
  <2>5. half' = NothingOld => doing \notin StateWrites \cup CopyWrites
    <3> SUFFICES ASSUME doing \in StateWrites \cup CopyWrites
                 PROVE  disk[Dest] # <<>>
      BY <2>1
    <3>1. \E i \in Slots : Dest = Sta(i)
      BY Destination, <2>1
    <3> QED BY <1>1, <3>1, EntriesOf
  <2> QED BY <2>1, <2>3, <2>4, <2>5 DEF Halved
<1>3. CASE StatesKept
  <2>1. \A i \in Slots : Len(disk'[Sta(i)]) >= 1
    BY <1>1, <1>3 DEF StatesKept
  <2>2. CASE half' = 0
    BY <2>1, <2>2 DEF Halved, NothingOld
  <2> QED BY <1>2, <2>2, StatesNext
<1>4. CASE disk' = OldRemoved /\ doing \in Writes /\ ~PublishEntry
  <2>1. half' = 0
    BY <1>4, StatesNext
  <2>2. ASSUME NEW i \in Slots PROVE Len(disk'[Sta(i)]) >= 1
    <3>1. CASE Sta(i) # Dest \/ half \notin {1, 2}
      BY <1>1, <1>4, <3>1, OldRemovedFacts
    <3>2. CASE Sta(i) = Dest /\ half \in {1, 2}
      BY <1>1, <1>4, <3>2, OldRemovedFacts
    <3> QED BY <3>1, <3>2
  <2> QED BY <2>1, <2>2 DEF Halved, NothingOld
<1>5. CASE /\ doing \in {"attempt", "fail"} /\ ~PublishEntry
           /\ \E v \in {ControlValue, Torn} : disk' = Sector(v)
  <2>1. half' = 0
    BY <1>5, StatesNext
  <2>2. Readable(disk) # {} /\ {ControlValue, Torn} \subseteq StateEntries
    BY <1>5, ControlFacts, Factories DEF StateEntries
  <2>3. PICK v \in StateEntries : disk' = Sector(v)
    BY <1>5, <2>2
  <2> DEFINE k == Newest(disk)
  <2>4. /\ k \in Slots /\ 1 - k \in Slots
        /\ Len(disk'[Sta(1 - k)]) = Len(disk[Sta(1 - k)])
        /\ \A g \in Files : g # Sta(1 - k) => disk'[g] = disk[g]
    BY <1>1, <2>2, <2>3, SectorFacts
  <2> HIDE DEF k
  <2>5. ASSUME NEW i \in Slots PROVE Len(disk'[Sta(i)]) >= 1
    BY <1>1, <2>4
  <2> QED BY <2>1, <2>5 DEF Halved, NothingOld
<1> QED BY <1>2, <1>3, <1>4, <1>5, StatesNext

-----------------------------------------------------------------------------
(* Journals and images.                                                    *)

\* The journals are none of the others.
LEMMA JournalNames ==
  ASSUME NEW i \in Slots
  PROVE  /\ Jrn(i) \in Files /\ Jrn(i) # Staging
         /\ \A j \in Slots : Jrn(i) # Sta(j) /\ Jrn(i) # Slot(j)
         /\ \A j \in Slots : Jrn(i) = Jrn(j) => i = j
  BY FileNames

\* The slots are none of the others.
LEMMA ImageNames ==
  ASSUME NEW i \in Slots
  PROVE  /\ Slot(i) \in Files /\ Slot(i) # Staging
         /\ \A j \in Slots : Slot(i) # Sta(j) /\ Slot(i) # Jrn(j)
         /\ \A j \in Slots : Slot(i) = Slot(j) => i = j
  BY FileNames

\* Where a replacement goes, for the files it leaves alone.
LEMMA DestinationKind ==
  ASSUME Typed, Placed, doing \in Writes
  PROVE  /\ doing \notin JournalWrites => \A i \in Slots : Dest # Jrn(i)
         /\ doing \notin StateWrites \cup CopyWrites =>
              \A i \in Slots : Dest # Sta(i)
         /\ doing # "publish" => \A i \in Slots : Dest # Slot(i)
         /\ doing = "publish" => Dest = Slot(mj.target) /\ mj.target \in Slots
<1>1. doing = "publish" => mj.target \in Slots
  BY PhaseNames DEF Placed, StagePlaces
<1>2. CASE doing \in JournalWrites
  <2>1. \E i \in Slots : Dest = Jrn(i)
    BY <1>2, Destination
  <2> QED BY <1>2, <2>1, JournalNames DEF JournalWrites
<1>3. CASE doing \in StateWrites \cup CopyWrites
  <2>1. \E i \in Slots : Dest = Sta(i)
    BY <1>3, Destination
  <2> QED BY <1>3, <2>1, StateNames DEF StateWrites, CopyWrites
<1>4. CASE doing = "publish"
  <2>1. Dest = Slot(mj.target)
    BY <1>4, Destination
  <2> QED BY <1>1, <1>4, <2>1, ImageNames
<1> QED BY <1>2, <1>3, <1>4 DEF Writes

\* A journal file holds the journals it held and the one being written.
LEMMA JournalsNext ==
  ASSUME Typed, Placed, Halved, InLoader, SlotsNext, NEW i \in Slots,
         NEW n \in 1..Len(disk'[Jrn(i)])
  PROVE  \/ \E m \in 1..Len(disk[Jrn(i)]) : disk'[Jrn(i)][n] = disk[Jrn(i)][m]
         \/ doing \in JournalWrites /\ disk'[Jrn(i)][n] = mj
<1> DEFINE f == Jrn(i)
<1>1. DiskTyped(disk)
  BY DEF Typed
<1>2. /\ f \in Files /\ f # Staging
      /\ \A j \in Slots : f # Sta(j) /\ f # Slot(j)
      /\ Len(disk[f]) \in Nat
  BY <1>1, JournalNames, EntriesOf
<1> HIDE DEF f
<1> SUFFICES \/ disk'[f] = disk[f]
             \/ \E m \in 1..Len(disk[f]) : disk'[f][n] = disk[f][m]
             \/ doing \in JournalWrites /\ disk'[f][n] = mj
  BY DEF f
<1>3. CASE PublishEntry
  <2>1. /\ doing \in Writes /\ Dest \in Files
        /\ \A g \in Files : g # Dest => disk'[g] = disk[g]
        /\ Len(disk'[Dest]) = Len(disk[Dest]) + 1
        /\ \A k \in 1..(Len(disk[Dest]) + 1) :
             \/ disk'[Dest][k] = Content
             \/ \E m \in 1..Len(disk[Dest]) : disk'[Dest][k] = disk[Dest][m]
    BY <1>3, PublishFacts
  <2>2. CASE f = Dest
    <3>1. doing \in JournalWrites
      BY <2>1, <2>2, DestinationKind DEF f
    <3>2. Content = mj
      BY <2>1, <3>1, Destination
    <3> QED BY <2>1, <2>2, <3>1, <3>2 DEF f
  <2> QED BY <1>2, <2>1, <2>2
<1>4. CASE disk' = OldRemoved
  <2>1. CASE f # Dest \/ half \notin {1, 2}
    BY <1>2, <1>4, <2>1, OldRemovedFacts
  <2>2. CASE f = Dest /\ half \in {1, 2}
    <3>1. /\ Len(disk'[f]) = Len(disk[f]) - 1
          /\ \A k \in 1..(Len(disk[f]) - 1) :
               disk'[f][k] = IF k < half THEN disk[f][k] ELSE disk[f][k + 1]
      BY <1>4, <2>2, OldRemovedFacts
    <3>2. n \in 1..(Len(disk[f]) - 1)
      BY <3>1 DEF f
    <3>3. half \in {1, 2} /\ n \in Int /\ 1 <= n /\ Len(disk[f]) \in Int
          /\ n <= Len(disk[f]) - 1
      BY <1>2, <2>2, <3>2
    <3>4. CASE n < half
      <4>1. disk'[f][n] = disk[f][n]
        BY <3>1, <3>2, <3>4
      <4>2. n \in 1..Len(disk[f])
        BY <3>3
      <4> QED BY <4>1, <4>2
    <3>5. CASE ~(n < half)
      <4>1. disk'[f][n] = disk[f][n + 1]
        BY <3>1, <3>2, <3>5
      <4>2. n + 1 \in 1..Len(disk[f])
        BY <3>3
      <4> QED BY <4>1, <4>2
    <3> QED BY <3>4, <3>5
  <2> QED BY <2>1, <2>2
<1>5. CASE \E e \in Images \cup {Partial} :
             disk' = [disk EXCEPT ![Staging] = <<e>>]
  BY <1>1, <1>2, <1>5 DEF DiskTyped
<1>6. CASE disk' = Deleted(disk, Staging)
  BY <1>1, <1>2, <1>6, DeletedFacts, FileNames, ZenonT(60)
<1>7. CASE doing \in {"abort", "unstage"} /\ StagingDeleted
  <2>1. mj \in WrittenJournals /\ mj.target \in Slots
    BY <1>7, PhaseNames DEF Placed, StagePlaces, InitPlaces
  <2> QED BY <1>1, <1>2, <1>7, <2>1, StagingDeletedFacts
<1>8. CASE \E j \in Slots : disk' = Deleted(disk, Jrn(j))
  <2>1. PICK j \in Slots : disk' = Deleted(disk, Jrn(j))
    BY <1>8
  <2>2. Jrn(j) \in Files
    BY JournalNames
  <2>3. CASE f # Jrn(j)
    BY <1>1, <1>2, <2>1, <2>2, <2>3, DeletedFacts
  <2>4. CASE f = Jrn(j)
    <3>1. /\ Len(disk'[f]) = IF disk[f] = <<>> THEN 0 ELSE Len(disk[f]) - 1
          /\ \A k \in 1..Len(disk'[f]) : disk'[f][k] = disk[f][k + 1]
      BY <1>1, <2>1, <2>2, <2>4, DeletedFacts
    <3>2. n \in 1..Len(disk'[f])
      BY DEF f
    <3>3. n + 1 \in 1..Len(disk[f])
      BY <1>2, <3>1, <3>2
    <3> QED BY <3>1, <3>2, <3>3
  <2> QED BY <2>3, <2>4
<1>9. CASE doing = "discard" /\ disk' = Deleted(disk, Slot(mj.target))
  <2>1. mj.target \in Slots
    BY <1>9, PhaseNames DEF Placed, InitPlaces
  <2>2. Slot(mj.target) \in Files
    BY <2>1, FileNames
  <2> QED BY <1>1, <1>2, <1>9, <2>1, <2>2, DeletedFacts
<1>10. CASE /\ doing \in {"attempt", "fail"}
            /\ \E v \in {ControlValue, Torn} : disk' = Sector(v)
  <2>1. Readable(disk) # {} /\ {ControlValue, Torn} \subseteq StateEntries
    BY <1>10, ControlFacts, Factories DEF StateEntries
  <2>2. PICK v \in StateEntries : disk' = Sector(v)
    BY <1>10, <2>1
  <2>3. /\ 1 - Newest(disk) \in Slots
        /\ \A g \in Files : g # Sta(1 - Newest(disk)) => disk'[g] = disk[g]
    BY <1>1, <2>1, <2>2, SectorFacts
  <2> QED BY <1>2, <2>3
<1> QED
  BY <1>3, <1>4, <1>5, <1>6, <1>7, <1>8, <1>9, <1>10, DiskNext

\* Only a journal write makes a journal appear.
LEMMA JournalPresence ==
  ASSUME Typed, Placed, Halved, InLoader, SlotsNext,
         doing \notin JournalWrites, JournalPresent(disk')
  PROVE  JournalPresent(disk)
<1>1. DiskTyped(disk) /\ DiskTyped(disk')
  BY DiskTypedNext DEF Typed
<1>2. PICK i \in Slots : disk'[Jrn(i)] # <<>>
  BY DEF JournalPresent, Exists
<1>3. /\ Len(disk'[Jrn(i)]) \in Nat /\ Len(disk'[Jrn(i)]) # 0
      /\ Len(disk[Jrn(i)]) = 0 <=> disk[Jrn(i)] = <<>>
  BY <1>1, <1>2, JournalNames, EntriesOf
<1>4. 1 \in 1..Len(disk'[Jrn(i)])
  BY <1>3
<1>5. \E m \in 1..Len(disk[Jrn(i)]) : TRUE
  BY <1>4, JournalsNext
<1>6. disk[Jrn(i)] # <<>>
  BY <1>3, <1>5
<1> QED BY <1>6 DEF JournalPresent, Exists

\* The images change only where the journal in memory says.
LEMMA ImagesNext ==
  ASSUME Typed, Placed, Halved, InLoader, SlotsNext, NEW i \in Slots,
         \/ i # mj.target
         \/ doing \notin {"publish", "discard", "abort", "unstage"}
  PROVE  disk'[Slot(i)] = disk[Slot(i)]
<1> DEFINE f == Slot(i)
<1>1. DiskTyped(disk)
  BY DEF Typed
<1>2. /\ f \in Files /\ f # Staging
      /\ \A j \in Slots : f # Sta(j) /\ f # Jrn(j)
      /\ \A j \in Slots : f = Slot(j) => i = j
  BY ImageNames
<1> HIDE DEF f
<1> SUFFICES disk'[f] = disk[f]
  BY DEF f
<1>a. doing \in Writes => f # Dest
  BY <1>2, DestinationKind DEF f
<1>3. CASE PublishEntry
  BY <1>2, <1>3, <1>a, PublishFacts
<1>4. CASE disk' = OldRemoved /\ doing \in Writes
  BY <1>2, <1>4, <1>a, OldRemovedFacts
<1>5. CASE \E e \in Images \cup {Partial} :
             disk' = [disk EXCEPT ![Staging] = <<e>>]
  BY <1>1, <1>2, <1>5 DEF DiskTyped
<1>6. CASE disk' = Deleted(disk, Staging)
  BY <1>1, <1>2, <1>6, DeletedFacts, FileNames
<1>7. CASE doing \in {"abort", "unstage"} /\ StagingDeleted
  <2>1. mj \in WrittenJournals /\ mj.target \in Slots
    BY <1>7, PhaseNames DEF Placed, StagePlaces, InitPlaces
  <2> QED BY <1>1, <1>2, <1>7, <2>1, StagingDeletedFacts
<1>8. CASE \E j \in Slots : disk' = Deleted(disk, Jrn(j))
  BY <1>1, <1>2, <1>8, JournalNames, DeletedFacts
<1>9. CASE doing = "discard" /\ disk' = Deleted(disk, Slot(mj.target))
  <2>1. mj.target \in Slots
    BY <1>9, PhaseNames DEF Placed, InitPlaces
  <2>2. Slot(mj.target) \in Files /\ f # Slot(mj.target)
    BY <1>2, <1>9, <2>1, FileNames
  <2> QED BY <1>1, <1>2, <1>9, <2>1, <2>2, DeletedFacts
<1>10. CASE /\ doing \in {"attempt", "fail"}
            /\ \E v \in {ControlValue, Torn} : disk' = Sector(v)
  <2>1. Readable(disk) # {} /\ {ControlValue, Torn} \subseteq StateEntries
    BY <1>10, ControlFacts, Factories DEF StateEntries
  <2>2. PICK v \in StateEntries : disk' = Sector(v)
    BY <1>10, <2>1
  <2>3. /\ 1 - Newest(disk) \in Slots
        /\ \A g \in Files : g # Sta(1 - Newest(disk)) => disk'[g] = disk[g]
    BY <1>1, <2>1, <2>2, SectorFacts
  <2> QED BY <1>2, <2>3
<1> QED
  BY <1>3, <1>4, <1>5, <1>6, <1>7, <1>8, <1>9, <1>10, DiskNext

\* A state file holds the states it held, and the one being written.
LEMMA StateEntriesNext ==
  ASSUME Typed, Placed, Halved, InLoader, SlotsNext, NEW i \in Slots,
         NEW n \in 1..Len(disk'[Sta(i)])
  PROVE  \/ \E m \in 1..Len(disk[Sta(i)]) : disk'[Sta(i)][n] = disk[Sta(i)][m]
         \/ doing \in StateWrites \cup CopyWrites /\ disk'[Sta(i)][n] = mem
         \/ /\ doing \in {"attempt", "fail"}
            /\ disk'[Sta(i)][n] \in {ControlValue, Torn}
<1> DEFINE f == Sta(i)
<1>1. DiskTyped(disk)
  BY DEF Typed
<1>2. f \in Files /\ Len(disk[f]) \in Nat
  BY <1>1, StateNames, EntriesOf
<1> HIDE DEF f
<1>n. n \in 1..Len(disk'[f])
  BY DEF f
<1> SUFFICES \/ disk'[f] = disk[f]
             \/ \E m \in 1..Len(disk[f]) : disk'[f][n] = disk[f][m]
             \/ doing \in StateWrites \cup CopyWrites /\ disk'[f][n] = mem
             \/ /\ doing \in {"attempt", "fail"}
                /\ disk'[f][n] \in {ControlValue, Torn}
  BY <1>n DEF f
<1>3. CASE PublishEntry
  <2>1. /\ doing \in Writes /\ Dest \in Files
        /\ \A g \in Files : g # Dest => disk'[g] = disk[g]
        /\ Len(disk'[Dest]) = Len(disk[Dest]) + 1
        /\ \A k \in 1..(Len(disk[Dest]) + 1) :
             \/ disk'[Dest][k] = Content
             \/ \E m \in 1..Len(disk[Dest]) : disk'[Dest][k] = disk[Dest][m]
    BY <1>3, PublishFacts
  <2>2. CASE f = Dest
    <3>1. doing \in StateWrites \cup CopyWrites
      BY <2>1, <2>2, DestinationKind DEF f
    <3>2. Content = mem
      BY <2>1, <3>1, Destination
    <3> QED BY <1>n, <2>1, <2>2, <3>1, <3>2
  <2> QED BY <1>2, <2>1, <2>2
<1>4. CASE disk' = OldRemoved
  <2>1. CASE f # Dest \/ half \notin {1, 2}
    BY <1>2, <1>4, <2>1, OldRemovedFacts
  <2>2. CASE f = Dest /\ half \in {1, 2}
    <3>1. /\ Len(disk'[f]) = Len(disk[f]) - 1
          /\ \A k \in 1..(Len(disk[f]) - 1) :
               disk'[f][k] = IF k < half THEN disk[f][k] ELSE disk[f][k + 1]
      BY <1>4, <2>2, OldRemovedFacts
    <3>2. n \in 1..(Len(disk[f]) - 1)
      BY <1>n, <3>1
    <3>3. half \in {1, 2} /\ n \in Int /\ 1 <= n /\ Len(disk[f]) \in Int
          /\ n <= Len(disk[f]) - 1
      BY <1>2, <2>2, <3>2
    <3>4. CASE n < half
      <4>1. disk'[f][n] = disk[f][n]
        BY <3>1, <3>2, <3>4
      <4>2. n \in 1..Len(disk[f])
        BY <3>3
      <4> QED BY <4>1, <4>2
    <3>5. CASE ~(n < half)
      <4>1. disk'[f][n] = disk[f][n + 1]
        BY <3>1, <3>2, <3>5
      <4>2. n + 1 \in 1..Len(disk[f])
        BY <3>3
      <4> QED BY <4>1, <4>2
    <3> QED BY <3>4, <3>5
  <2> QED BY <2>1, <2>2
<1>5. CASE StatesKept
  BY <1>5 DEF StatesKept, f
<1>6. CASE /\ doing \in {"attempt", "fail"}
           /\ \E v \in {ControlValue, Torn} : disk' = Sector(v)
  <2>1. Readable(disk) # {} /\ {ControlValue, Torn} \subseteq StateEntries
    BY <1>6, ControlFacts, Factories DEF StateEntries
  <2>2. PICK v \in {ControlValue, Torn} : disk' = Sector(v)
    BY <1>6
  <2> DEFINE w == Sta(1 - Newest(disk))
  <2>3. /\ \A g \in Files : g # w => disk'[g] = disk[g]
        /\ disk'[w][1] = v /\ Len(disk'[w]) = Len(disk[w])
        /\ \A m \in 1..Len(disk[w]) : m # 1 => disk'[w][m] = disk[w][m]
    BY <1>1, <2>1, <2>2, SectorFacts
  <2> HIDE DEF w
  <2>4. CASE f # w
    BY <1>2, <2>3, <2>4
  <2>5. CASE f = w
    BY <1>6, <1>n, <2>2, <2>3, <2>5
  <2> QED BY <2>4, <2>5
<1> QED BY <1>3, <1>4, <1>5, <1>6, StatesNext

-----------------------------------------------------------------------------
(* What the loader found, and the entries of the state files.              *)

(* Every step preserves InLoader: what the loader's pass found on the disk *)
(* is still there when it acts.                                            *)
LEMMA InLoaderNext ==
  ASSUME Typed, Placed, Halved, InLoader, SlotsNext
  PROVE  InLoader'
<1> USE DEF StagePlaces, PendingPlaces, InitPlaces, ClearPlaces, CancelPlaces,
       LoaderPlaces, Session, Writes, JournalWrites, StateWrites, CopyWrites,
       kernel, history, counts
<1>a. doing \notin JournalWrites /\ ~JournalPresent(disk) =>
        ~JournalPresent(disk')
  BY JournalPresence
<1>b. /\ run.handoff.valid \in BOOLEAN /\ Torn.valid = FALSE
      /\ NoBoot.handoff = Torn
  BY HandoffTyped, NoBootIsOne
<1> HIDE DEF Torn, NoBoot
<1>1. CASE PublishEntry
  BY <1>1, <1>a, <1>b DEF PublishEntry, InLoader, Placed
<1>2. CASE \E i \in Images : Stage(i)
  BY <1>2, <1>a, <1>b DEF Stage, InLoader, Placed
<1>3. CASE JournalPrepared
  BY <1>3, <1>a, <1>b
     DEF JournalPrepared, Succeeds, OldEntryDeleted, InLoader, Placed
<1>4. CASE PrepareFails
  BY <1>4, <1>a, <1>b
     DEF PrepareFails, WriteFails, DiskError, Return, InLoader, Placed
<1>5. CASE JournalStaging
  BY <1>5, <1>a, <1>b
     DEF JournalStaging, Succeeds, OldEntryDeleted, InLoader, Placed
<1>6. CASE WriterBegin
  BY <1>6, <1>a, <1>b DEF WriterBegin, InLoader, Placed
<1>7. CASE WriterEnd
  BY <1>7, <1>a, <1>b DEF WriterEnd, InLoader, Placed
<1>8. CASE WriterCancel
  BY <1>8, <1>a, <1>b DEF WriterCancel, InLoader, Placed
<1>9. CASE WriterFails
  BY <1>9, <1>a, <1>b DEF WriterFails, WriteFails, DiskError, InLoader, Placed
<1>10. CASE SlotPublished
  BY <1>10, <1>a, <1>b
     DEF SlotPublished, Succeeds, OldEntryDeleted, InLoader, Placed
<1>11. CASE WriterFinish
  BY <1>11, <1>a, <1>b DEF WriterFinish, Return, InLoader, Placed
<1>12. CASE JournalVerified
  BY <1>12, <1>a, <1>b
     DEF JournalVerified, Succeeds, OldEntryDeleted, InLoader, Placed
<1>13. CASE StagedNotPublished
  BY <1>13, <1>a, <1>b
     DEF StagedNotPublished, Fails, WriteFails, DiskError, OldEntryDeleted,
         Return, InLoader, Placed
<1>14. CASE PendingWritten
  BY <1>14, <1>a, <1>b
     DEF PendingWritten, Succeeds, OldEntryDeleted, InLoader, Placed
<1>15. CASE JournalCommitted
  BY <1>15, <1>a, <1>b
     DEF JournalCommitted, Succeeds, OldEntryDeleted, InLoader, Placed
<1>16. CASE Replicated
  BY <1>16, <1>a, <1>b
     DEF Replicated, Succeeds, OldEntryDeleted, InLoader, Placed
<1>17. CASE CommitFails
  BY <1>17, <1>a, <1>b
     DEF CommitFails, Fails, WriteFails, DiskError, OldEntryDeleted, Return,
         InLoader, Placed
<1>18. CASE AbortStaging
  BY <1>18, <1>a, <1>b DEF AbortStaging, DiskError, InLoader, Placed
<1>19. CASE ClearFirst
  BY <1>19, <1>a, <1>b DEF ClearFirst, DiskError, InLoader, Placed
<1>20. CASE ClearSecond
  BY <1>20, <1>a, <1>b DEF ClearSecond, DiskError, Return, InLoader, Placed
<1>21. CASE LoadControls
  <2>1. doing' \in InitPlaces /\ doing = "load"
    BY <1>21, LoadControlsFacts DEF LoadControls
  <2> QED BY <1>21, <1>a, <2>1 DEF LoadControls, InLoader
<1>22. CASE Republished
  BY <1>22, <1>a, <1>b
     DEF Republished, Succeeds, OldEntryDeleted, InLoader, Placed
<1>23. CASE DiscardTarget
  BY <1>23, <1>a, <1>b DEF DiscardTarget, InLoader, Placed
<1>24. CASE Unstage
  BY <1>24, <1>a, <1>b DEF Unstage, InLoader, Placed
<1>25. CASE RecoveryFails
  BY <1>25, <1>a, <1>b
     DEF RecoveryFails, Fails, WriteFails, DiskError, OldEntryDeleted,
         InLoader, Placed
<1>26. CASE Examine
  <2>1. doing' \in {"idle", "confirm"} /\ doing = "examine"
    BY <1>26, ExamineFacts DEF Examine
  <2> QED BY <1>26, <1>a, <2>1 DEF Examine, InLoader
<1>27. CASE BootConfirm
  <2>1. /\ doing' \in {"idle", "promote"} /\ doing = "confirm"
        /\ doing' = "promote" => run.handoff.valid = TRUE
    BY <1>27, <1>b DEF BootConfirm, HandoffMatches, Return
  <2> QED BY <1>27, <1>a, <2>1 DEF BootConfirm, InLoader
<1>28. CASE Promoted
  <2>1. run'.handoff = Torn /\ doing' = "idle" /\ ctx' = ctx
    BY <1>28 DEF Promoted, Return, Typed, Boots
  <2> QED BY <1>b, <2>1 DEF InLoader
<1>29. CASE PromoteFails
  BY <1>29, <1>a, <1>b
     DEF PromoteFails, Fails, WriteFails, DiskError, OldEntryDeleted, Return,
         InLoader, Placed
<1>30. CASE CancelPending
  BY <1>30, <1>a, <1>b DEF CancelPending, InLoader, Placed
<1>31. CASE Withdrawn
  BY <1>31, <1>a, <1>b
     DEF Withdrawn, Succeeds, OldEntryDeleted, InLoader, Placed
<1>32. CASE Cancelled
  BY <1>32, <1>a, <1>b
     DEF Cancelled, Succeeds, OldEntryDeleted, Return, InLoader, Placed
<1>33. CASE CancelFails
  BY <1>33, <1>a, <1>b
     DEF CancelFails, Fails, WriteFails, DiskError, OldEntryDeleted, Return,
         InLoader, Placed
<1>34. CASE LoaderChoice
  <2>1. /\ LoaderGoes /\ UNCHANGED loaderRest
        /\ doing' \in {"menu", "fail", "attempt", "jump"}
    BY <1>34, LoaderChoiceFacts
  <2>2. run' = run \/ run'.handoff = Torn
    BY <2>1, NoBootIsOne DEF LoaderGoes
  <2>3. doing' = "jump" => run'.handoff = Torn
    BY <2>1, NoBootIsOne DEF LoaderGoes
  <2>4. disk' = disk
    BY <2>1 DEF loaderRest
  <2> QED BY <1>b, <2>1, <2>2, <2>3, <2>4 DEF LoaderGoes, InLoader
<1>35. CASE AttemptWritten
  <2> DEFINE v == ControlValue
  <2>1. /\ Readable(disk) # {} /\ ~JournalPresent(disk) /\ v \in States
        /\ Decodes(v) /\ v.seq > Selected(disk).seq /\ v.boot # "NONE"
        /\ v.attempt = ctx.slot /\ ctx.slot \in Slots
    BY <1>35, ControlFacts DEF AttemptWritten
  <2>2. /\ disk' = Sector(v) /\ run' = [slot |-> ctx.slot, handoff |-> v]
        /\ doing' = "jump" /\ ctx' = ctx
    BY <1>35 DEF AttemptWritten
  <2> HIDE DEF v
  <2>3. Readable(disk') # {} /\ Selected(disk') = v
    BY <2>1, <2>2, SectorReads DEF Typed, StateEntries
  <2>4. ~JournalPresent(disk')
    BY <1>35, <1>a, <2>1 DEF AttemptWritten
  <2>5. run'.handoff = v /\ run'.slot = ctx.slot
    BY <2>2
  <2>6. ctx.legacy = FALSE
    BY <1>35 DEF InLoader, AttemptWritten
  <2> QED BY <2>1, <2>2, <2>3, <2>4, <2>5, <2>6 DEF InLoader
<1>36. CASE FailureWritten
  <2> DEFINE v == ControlValue
  <2>1. /\ Readable(disk) # {} /\ ~JournalPresent(disk) /\ v \in States
        /\ disk' = Sector(v) /\ doing' = "menu" /\ ctx' = ctx /\ run' = run
    BY <1>36, ControlFacts DEF FailureWritten
  <2> HIDE DEF v
  <2>3. Readable(disk') # {}
    BY <2>1, SectorReads DEF Typed, StateEntries
  <2>4. ~JournalPresent(disk')
    BY <1>36, <1>a, <2>1 DEF FailureWritten
  <2> QED BY <2>1, <2>3, <2>4 DEF InLoader
<1>37. CASE ControlWriteFails
  <2>1. /\ doing' = "menu" /\ ctx'.legacy = TRUE /\ ctx'.continue = FALSE
        /\ run'.handoff = Torn
    BY <1>37, <1>b, ContextFields DEF ControlWriteFails, Typed
  <2> QED BY <1>b, <2>1 DEF InLoader
<1>38. CASE KernelStarts
  <2>1. doing = "jump" /\ doing' = "load" /\ disk' = disk /\ run' = run
        /\ ctx'.continue = FALSE
    BY <1>38, NoContextIsOne DEF KernelStarts
  <2> QED BY <2>1 DEF InLoader
<1>39. CASE MenuLegacy
  <2>1. doing' = "load" /\ run'.handoff = Torn /\ ctx'.continue = FALSE
    BY <1>39, <1>b, NoContextIsOne DEF MenuLegacy
  <2> QED BY <1>b, <2>1 DEF InLoader
<1>40. CASE RebootIntoCandidate
  <2>1. doing' = "loader" /\ run'.handoff = Torn /\ ctx'.continue = FALSE
    BY <1>40, <1>b, NoContextIsOne DEF RebootIntoCandidate, PowerOn
  <2> QED BY <1>b, <2>1 DEF InLoader
<1>41. CASE Restart
  <2>1. doing' = "loader" /\ run'.handoff = Torn /\ ctx'.continue = FALSE
    BY <1>41, <1>b, NoContextIsOne DEF Restart, PowerOn
  <2> QED BY <1>b, <2>1 DEF InLoader
<1>42. CASE PowerCut
  <2>1. doing' = "loader" /\ run'.handoff = Torn /\ ctx'.continue = FALSE
    BY <1>42, <1>b, NoContextIsOne DEF PowerCut, PowerOn
  <2> QED BY <1>b, <2>1 DEF InLoader
<1>43. CASE LoaderPowerCut
  <2>1. doing' = "loader" /\ run'.handoff = Torn /\ ctx'.continue = FALSE
    BY <1>43, <1>b, NoContextIsOne DEF LoaderPowerCut, PowerOn
  <2> QED BY <1>b, <2>1 DEF InLoader
<1> QED
  BY <1>1, <1>2, <1>3, <1>4, <1>5, <1>6, <1>7, <1>8, <1>9, <1>10, <1>11,
     <1>12, <1>13, <1>14, <1>15, <1>16, <1>17, <1>18, <1>19, <1>20, <1>21,
     <1>22, <1>23, <1>24, <1>25, <1>26, <1>27, <1>28, <1>29, <1>30, <1>31,
     <1>32, <1>33, <1>34, <1>35, <1>36, <1>37, <1>38, <1>39, <1>40, <1>41,
     <1>42, <1>43
     DEF SlotsNext, KernelStep, LoaderStep, LoaderChoice

\* An entry stays good when more images are confirmed.
LEMMA EntryGrows ==
  ASSUME NEW e, NEW a, NEW b, Entry(e, a), a \subseteq b
  PROVE  Entry(e, b)
  BY DEF Entry

\* A confirmed image stays confirmed.
LEMMA ConfirmedGrows ==
  ASSUME Typed, InLoader, SlotsNext
  PROVE  confirmed \subseteq confirmed'
<1>1. CASE PublishEntry
  BY <1>1
     DEF PublishEntry, kernel, history, counts
<1>2. CASE \E i \in Images : Stage(i)
  BY <1>2
     DEF Stage, kernel, history, counts
<1>3. CASE JournalPrepared
  BY <1>3
     DEF JournalPrepared, Succeeds, OldEntryDeleted, kernel, history, counts
<1>4. CASE PrepareFails
  BY <1>4
     DEF PrepareFails, WriteFails, DiskError, Return, kernel, history, counts
<1>5. CASE JournalStaging
  BY <1>5
     DEF JournalStaging, Succeeds, OldEntryDeleted, kernel, history, counts
<1>6. CASE WriterBegin
  BY <1>6
     DEF WriterBegin, kernel, history, counts
<1>7. CASE WriterEnd
  BY <1>7
     DEF WriterEnd, kernel, history, counts
<1>8. CASE WriterCancel
  BY <1>8
     DEF WriterCancel, kernel, history, counts
<1>9. CASE WriterFails
  BY <1>9
     DEF WriterFails, WriteFails, DiskError, kernel, history, counts
<1>10. CASE SlotPublished
  BY <1>10
     DEF SlotPublished, Succeeds, OldEntryDeleted, kernel, history, counts
<1>11. CASE WriterFinish
  BY <1>11
     DEF WriterFinish, Return, kernel, history, counts
<1>12. CASE JournalVerified
  BY <1>12
     DEF JournalVerified, Succeeds, OldEntryDeleted, kernel, history, counts
<1>13. CASE StagedNotPublished
  BY <1>13
     DEF StagedNotPublished, Fails, WriteFails, DiskError, OldEntryDeleted,
         Return, kernel, history, counts
<1>14. CASE PendingWritten
  BY <1>14
     DEF PendingWritten, Succeeds, OldEntryDeleted, kernel, history, counts
<1>15. CASE JournalCommitted
  BY <1>15
     DEF JournalCommitted, Succeeds, OldEntryDeleted, kernel, history, counts
<1>16. CASE Replicated
  BY <1>16
     DEF Replicated, Succeeds, OldEntryDeleted, kernel, history, counts
<1>17. CASE CommitFails
  BY <1>17
     DEF CommitFails, Fails, WriteFails, DiskError, OldEntryDeleted, Return,
         kernel, history, counts
<1>18. CASE AbortStaging
  BY <1>18
     DEF AbortStaging, DiskError, kernel, history, counts
<1>19. CASE ClearFirst
  BY <1>19
     DEF ClearFirst, DiskError, kernel, history, counts
<1>20. CASE ClearSecond
  BY <1>20
     DEF ClearSecond, DiskError, Return, kernel, history, counts
<1>21. CASE LoadControls
  BY <1>21
     DEF LoadControls, kernel, history, counts
<1>22. CASE Republished
  BY <1>22
     DEF Republished, Succeeds, OldEntryDeleted, kernel, history, counts
<1>23. CASE DiscardTarget
  BY <1>23
     DEF DiscardTarget, kernel, history, counts
<1>24. CASE Unstage
  BY <1>24
     DEF Unstage, kernel, history, counts
<1>25. CASE RecoveryFails
  BY <1>25
     DEF RecoveryFails, Fails, WriteFails, DiskError, OldEntryDeleted, kernel,
         history, counts
<1>26. CASE Examine
  BY <1>26
     DEF Examine, Return, kernel, history, counts
<1>27. CASE BootConfirm
  BY <1>27
     DEF BootConfirm, Return, kernel, history, counts
<1>28. CASE Promoted
  BY <1>28
     DEF Promoted, Succeeds, OldEntryDeleted, Return, kernel, history, counts
<1>29. CASE PromoteFails
  BY <1>29
     DEF PromoteFails, Fails, WriteFails, DiskError, OldEntryDeleted, Return,
         kernel, history, counts
<1>30. CASE CancelPending
  BY <1>30
     DEF CancelPending, kernel, history, counts
<1>31. CASE Withdrawn
  BY <1>31
     DEF Withdrawn, Succeeds, OldEntryDeleted, kernel, history, counts
<1>32. CASE Cancelled
  BY <1>32
     DEF Cancelled, Succeeds, OldEntryDeleted, Return, kernel, history, counts
<1>33. CASE CancelFails
  BY <1>33
     DEF CancelFails, Fails, WriteFails, DiskError, OldEntryDeleted, Return,
         kernel, history, counts
<1>34. CASE LoaderChoice
  BY <1>34, LoaderChoiceFacts DEF loaderRest
<1>35. CASE AttemptWritten
  BY <1>35
     DEF AttemptWritten, kernel, history, counts
<1>36. CASE FailureWritten
  BY <1>36
     DEF FailureWritten, kernel, history, counts
<1>37. CASE ControlWriteFails
  BY <1>37
     DEF ControlWriteFails, DiskError, Legacy, NoBoot, kernel, history, counts
<1>38. CASE KernelStarts
  BY <1>38
     DEF KernelStarts, kernel, history, counts
<1>39. CASE MenuLegacy
  BY <1>39
     DEF MenuLegacy, Menu, Legacy, Jump, MarkFailed, TryCandidate, loaderRest,
         NoContext, NoBoot, kernel, history, counts
<1>40. CASE RebootIntoCandidate
  BY <1>40
     DEF RebootIntoCandidate, PowerOn, kernel, history, counts
<1>41. CASE Restart
  BY <1>41
     DEF Restart, PowerOn, kernel, history, counts
<1>42. CASE PowerCut
  BY <1>42
     DEF PowerCut, PowerOn, Crash, kernel, history, counts
<1>43. CASE LoaderPowerCut
  BY <1>43
     DEF LoaderPowerCut, PowerOn, Crash, kernel, history, counts
<1> QED
  BY <1>1, <1>2, <1>3, <1>4, <1>5, <1>6, <1>7, <1>8, <1>9, <1>10, <1>11, <1>12,
     <1>13, <1>14, <1>15, <1>16, <1>17, <1>18, <1>19, <1>20, <1>21, <1>22,
     <1>23, <1>24, <1>25, <1>26, <1>27, <1>28, <1>29, <1>30, <1>31, <1>32,
     <1>33, <1>34, <1>35, <1>36, <1>37, <1>38, <1>39, <1>40, <1>41, <1>42,
     <1>43
     DEF SlotsNext, KernelStep, LoaderStep, LoaderChoice


\* A state that was read is one of the entries.
LEMMA LoadedEntry ==
  ASSUME NEW d, NEW c, DiskTyped(d),
         \A i \in Slots : \A n \in 1..Len(d[Sta(i)]) : Entry(d[Sta(i)][n], c)
  PROVE  LET s == LoadedState(d)
         IN /\ s.rec[s.active] > 0 => s.rec[s.active] \in c
            /\ s.boot = "ATTEMPTED" => s.attempt \in Slots /\ s.rec[s.attempt] > 0
<1> DEFINE s == LoadedState(d)
<1>1. CASE Readable(d) = {}
  BY <1>1, LoadedFacts, Factories
<1>2. CASE Readable(d) # {}
  <2>1. /\ s = d[Sta(Newest(d))][1] /\ Newest(d) \in Slots
        /\ d[Sta(Newest(d))] # <<>> /\ s \in States /\ Decodes(s)
    BY <1>2, LoadedFacts, Chosen
  <2>2. 1 \in 1..Len(d[Sta(Newest(d))])
    BY <2>1, StateNames, EntriesOf
  <2>3. Entry(s, c)
    BY <2>1, <2>2
  <2>4. s.valid = TRUE /\ s.pending # s.active
    BY <2>1, StateFields DEF Decodes
  <2> HIDE DEF s
  <2> QED BY <2>3, <2>4 DEF Entry, s
<1> QED BY <1>1, <1>2

\* What a state write puts on the disk is a good entry.
LEMMA WrittenEntry ==
  ASSUME Typed, Entries, Staged, doing \in StateWrites \cup CopyWrites
  PROVE  Entry(mem, confirmed)
<1>1. mem.boot = "NONE"
  BY DEF Staged, CancelPlaces, PendingPlaces, StateWrites, CopyWrites
<1> QED BY <1>1 DEF Entries, Entry

\* Every step leaves good entries in the state files.
LEMMA DiskEntriesNext ==
  ASSUME GeneralInv, SlotsNext, NEW i \in Slots,
         NEW n \in 1..Len(disk'[Sta(i)])
  PROVE  Entry(disk'[Sta(i)][n], confirmed')
<1> USE DEF GeneralInv
<1>1. /\ DiskTyped(disk) /\ confirmed \subseteq confirmed'
      /\ DOMAIN disk[Sta(i)] = 1..Len(disk[Sta(i)])
  BY ConfirmedGrows, StateNames, EntriesOf DEF Typed
<1>2. \A m \in 1..Len(disk[Sta(i)]) : Entry(disk[Sta(i)][m], confirmed)
  BY <1>1 DEF Entries
<1> DEFINE e == disk'[Sta(i)][n]
<1> HIDE DEF e
<1>3. CASE \E m \in 1..Len(disk[Sta(i)]) : e = disk[Sta(i)][m]
  BY <1>1, <1>2, <1>3, EntryGrows DEF e
<1>4. CASE doing \in StateWrites \cup CopyWrites /\ e = mem
  BY <1>1, <1>4, WrittenEntry, EntryGrows DEF e
<1>5. CASE doing \in {"attempt", "fail"} /\ e \in {ControlValue, Torn}
  <2>1. CASE e = Torn
    BY <2>1, Factories DEF Entry, e
  <2>2. CASE e = ControlValue
    <3> DEFINE s == Selected(disk)
    <3>1. /\ Readable(disk) # {}
          /\ e.active = s.active /\ e.rec = s.rec
          /\ e.boot = "ATTEMPTED" => e.attempt \in Slots /\ e.rec[e.attempt] > 0
      BY <1>5, <2>2, ControlFacts
    <3>2. s = LoadedState(disk)
      BY <1>1, <3>1, LoadedFacts
    <3>3. \A j \in Slots : \A m \in 1..Len(disk[Sta(j)]) :
            Entry(disk[Sta(j)][m], confirmed)
      BY StateNames, EntriesOf, <1>1 DEF Entries
    <3>4. s.rec[s.active] > 0 => s.rec[s.active] \in confirmed
      BY <1>1, <3>2, <3>3, LoadedEntry
    <3> HIDE DEF s
    <3> QED BY <1>1, <3>1, <3>4 DEF Entry, e
  <2> QED BY <1>5, <2>1, <2>2
<1> QED BY <1>3, <1>4, <1>5, StateEntriesNext DEF e

-----------------------------------------------------------------------------
(* The state in memory.                                                    *)

\* The state in memory, as Entries constrains it.
MemEntry(m, b, c) ==
  /\ m.pending # m.active /\ m.rec[m.active] > 0 => m.rec[m.active] \in c
  /\ m.boot = "ATTEMPTED" /\ b = FALSE =>
       m.attempt \in Slots /\ m.rec[m.attempt] > 0

\* Every step leaves a good state in memory.
LEMMA MemEntryNext ==
  ASSUME GeneralInv, SlotsNext
  PROVE  MemEntry(mem', bad', confirmed')
<1> USE DEF GeneralInv
<1>a. /\ MemEntry(mem, bad, confirmed) /\ confirmed \subseteq confirmed'
  BY ConfirmedGrows DEF Entries, MemEntry
<1>b. DiskTyped(disk')
  BY DiskTypedNext
<1>1. CASE PublishEntry
  BY <1>1, <1>a DEF PublishEntry, kernel, loaderRest, MemEntry
<1>2. CASE \E i \in Images : Stage(i)
  BY <1>2, <1>a DEF Stage, kernel, loaderRest, MemEntry
<1>3. CASE JournalPrepared
  BY <1>3, <1>a DEF JournalPrepared, kernel, loaderRest, MemEntry
<1>4. CASE PrepareFails
  BY <1>4, <1>a DEF PrepareFails, kernel, loaderRest, MemEntry
<1>5. CASE JournalStaging
  BY <1>5, <1>a DEF JournalStaging, kernel, loaderRest, MemEntry
<1>6. CASE WriterBegin
  BY <1>6, <1>a DEF WriterBegin, kernel, loaderRest, MemEntry
<1>7. CASE WriterEnd
  BY <1>7, <1>a DEF WriterEnd, kernel, loaderRest, MemEntry
<1>8. CASE WriterCancel
  BY <1>8, <1>a DEF WriterCancel, kernel, loaderRest, MemEntry
<1>9. CASE WriterFails
  BY <1>9, <1>a DEF WriterFails, kernel, loaderRest, MemEntry
<1>10. CASE SlotPublished
  BY <1>10, <1>a DEF SlotPublished, kernel, loaderRest, MemEntry
<1>11. CASE WriterFinish
  BY <1>11, <1>a DEF WriterFinish, kernel, loaderRest, MemEntry
<1>12. CASE JournalVerified
  <2>1. /\ mj.target \in Slots /\ mj.image \in Images /\ mem \in States
        /\ mem' = WithPending(mem, mj.target, mj.image)
        /\ mem.pending = NoSlot /\ mj.target = 1 - mem.active
    BY <1>12, PhaseNames DEF JournalVerified, Succeeds, OldEntryDeleted, Typed,
                         Placed, Staged, StagePlaces
  <2>2. mem.active \in Slots /\ mem.active # mj.target /\ mem.active # NoSlot
    <3>1. mem.active \in Slots
      BY <2>1, StateFields
    <3> QED BY <2>1, <3>1 DEF Slots, NoSlot
  <2>3. /\ mem'.active = mem.active /\ mem'.boot = "NONE"
        /\ mem'.rec[mem.active] = mem.rec[mem.active]
    BY <2>1, <2>2, WithPendingFields
  <2> QED BY <1>a, <2>1, <2>2, <2>3 DEF MemEntry
<1>13. CASE StagedNotPublished
  BY <1>13, <1>a DEF StagedNotPublished, kernel, loaderRest, MemEntry
<1>14. CASE PendingWritten
  BY <1>14, <1>a DEF PendingWritten, kernel, loaderRest, MemEntry
<1>15. CASE JournalCommitted
  BY <1>15, <1>a DEF JournalCommitted, kernel, loaderRest, MemEntry
<1>16. CASE Replicated
  BY <1>16, <1>a DEF Replicated, kernel, loaderRest, MemEntry
<1>17. CASE CommitFails
  <2>1. mem' = [mem EXCEPT !.recovery = TRUE] /\ mem \in States /\ bad' = bad
    BY <1>17 DEF CommitFails, Typed
  <2>2. /\ mem'.active = mem.active /\ mem'.pending = mem.pending
        /\ mem'.boot = mem.boot /\ mem'.rec = mem.rec /\ mem'.attempt = mem.attempt
    BY <2>1, FlaggedFields
  <2> QED BY <1>a, <2>1, <2>2 DEF MemEntry
<1>18. CASE AbortStaging
  BY <1>18, <1>a DEF AbortStaging, kernel, loaderRest, MemEntry
<1>19. CASE ClearFirst
  BY <1>19, <1>a DEF ClearFirst, kernel, loaderRest, MemEntry
<1>20. CASE ClearSecond
  <2>1. /\ mem'.active = mem.active /\ mem'.pending = mem.pending /\ bad' = bad
        /\ mem'.boot = mem.boot /\ mem'.rec = mem.rec /\ mem'.attempt = mem.attempt
    BY <1>20, ClearSecondFacts DEF ClearSecond
  <2> QED BY <1>a, <2>1 DEF MemEntry
<1>21. CASE LoadControls
  <2> DEFINE s == LoadedState(disk)
  <2>1. s \in States /\ DiskTyped(disk)
    BY LoadedFacts DEF Typed
  <2>2. \A j \in Slots : \A m \in 1..Len(disk[Sta(j)]) :
          Entry(disk[Sta(j)][m], confirmed)
    BY <2>1, StateNames, EntriesOf DEF Entries
  <2>3. /\ s.rec[s.active] > 0 => s.rec[s.active] \in confirmed
        /\ s.boot = "ATTEMPTED" => s.attempt \in Slots /\ s.rec[s.attempt] > 0
    BY <2>1, <2>2, LoadedEntry
  <2>4. confirmed' = confirmed
    BY <1>21 DEF LoadControls, history
  <2> HIDE DEF s
  <2>5. CASE mem' = s
    BY <2>3, <2>4, <2>5 DEF MemEntry
  <2>6. CASE mem' = [s EXCEPT !.recovery = TRUE]
    <3>1. /\ mem'.active = s.active /\ mem'.pending = s.pending
          /\ mem'.boot = s.boot /\ mem'.rec = s.rec /\ mem'.attempt = s.attempt
      BY <2>1, <2>6, FlaggedFields
    <3> QED BY <2>3, <2>4, <3>1 DEF MemEntry
  <2>7. CASE /\ mem' = WithPending(s, mj'.target, mj'.image)
             /\ mj' \in WrittenJournals
    <3>1. mj'.target \in Slots /\ mj'.image \in Images /\ s.active \in Slots
      BY <2>1, <2>7, PhaseNames, StateFields
    <3>2. /\ mem'.active = s.active /\ mem'.boot = "NONE"
          /\ mem'.pending = mj'.target
          /\ s.active # mj'.target => mem'.rec[s.active] = s.rec[s.active]
      BY <2>1, <2>7, <3>1, WithPendingFields
    <3> QED BY <2>3, <2>4, <3>2 DEF MemEntry
  <2> QED BY <1>21, <2>5, <2>6, <2>7, LoadControlsFacts DEF s
<1>22. CASE Republished
  BY <1>22, <1>a DEF Republished, kernel, loaderRest, MemEntry
<1>23. CASE DiscardTarget
  BY <1>23, <1>a DEF DiscardTarget, kernel, loaderRest, MemEntry
<1>24. CASE Unstage
  BY <1>24, <1>a DEF Unstage, kernel, loaderRest, MemEntry
<1>25. CASE RecoveryFails
  <2>1. mem' = [mem EXCEPT !.recovery = TRUE] /\ mem \in States /\ bad' = bad
    BY <1>25 DEF RecoveryFails, Typed
  <2>2. /\ mem'.active = mem.active /\ mem'.pending = mem.pending
        /\ mem'.boot = mem.boot /\ mem'.rec = mem.rec /\ mem'.attempt = mem.attempt
    BY <2>1, FlaggedFields
  <2> QED BY <1>a, <2>1, <2>2 DEF MemEntry
<1>26. CASE Examine
  <2>1. /\ mem'.active = mem.active /\ mem'.pending = mem.pending
        /\ mem'.boot = mem.boot /\ mem'.attempt = mem.attempt
        /\ \A s \in Slots :
              mem'.rec[s] = IF mem.rec[s] > 0 /\ ~Holds(disk, s, mem.rec[s])
                            THEN Invalid ELSE mem.rec[s]
        /\ bad' \in BOOLEAN
        /\ bad = TRUE => bad' = TRUE
        /\ bad' = FALSE => mem'.rec = mem.rec
    BY <1>26, ExamineFacts
  <2>2. mem.active \in Slots /\ bad \in BOOLEAN /\ confirmed' = confirmed
    BY <1>26, StateFields DEF Typed, Examine, history
  <2>3. mem'.rec[mem.active] > 0 => mem'.rec[mem.active] = mem.rec[mem.active]
    BY <2>1, <2>2 DEF Invalid
  <2> QED BY <1>a, <2>1, <2>2, <2>3 DEF MemEntry
<1>27. CASE BootConfirm
  <2>1. CASE HandoffMatches
    <3>1. /\ mem' = Promotion /\ mem.attempt = run.handoff.attempt
          /\ run.handoff.valid = TRUE
      BY <1>27, <2>1, HandoffTyped DEF BootConfirm, HandoffMatches
    <3>2. mem.attempt \in Slots /\ mem \in States /\ run.slot = mem.attempt
      BY <3>1 DEF InLoader, Typed
    <3>3. /\ Promotion.active = mem.attempt /\ Promotion.boot = "NONE"
          /\ Promotion.rec = mem.rec
      BY <3>2, PromotionFields
    <3>4. mem.rec[mem.attempt] \in confirmed'
      <4>1. run.slot # NoSlot
        BY <3>2 DEF Slots, NoSlot
      <4> QED BY <1>27, <2>1, <3>2, <4>1 DEF BootConfirm
    <3> HIDE DEF Promotion
    <3> QED BY <3>1, <3>3, <3>4 DEF MemEntry
  <2>2. CASE ~HandoffMatches
    BY <1>27, <1>a, <2>2 DEF BootConfirm, MemEntry
  <2> QED BY <2>1, <2>2
<1>28. CASE Promoted
  BY <1>28, <1>a DEF Promoted, kernel, loaderRest, MemEntry
<1>29. CASE PromoteFails
  BY <1>29, <1>a DEF PromoteFails, kernel, loaderRest, MemEntry
<1>30. CASE CancelPending
  <2>1. /\ mem' = Cancellation /\ mem.pending # mem.active
        /\ confirmed' = confirmed
    BY <1>30 DEF CancelPending, Cancellation, history
  <2>2. /\ Cancellation.active = mem.active /\ Cancellation.boot = "NONE"
        /\ Cancellation.rec = mem.rec
    BY CancellationFields DEF Typed
  <2> HIDE DEF Cancellation
  <2> QED BY <1>a, <2>1, <2>2 DEF MemEntry
<1>31. CASE Withdrawn
  BY <1>31, <1>a DEF Withdrawn, kernel, loaderRest, MemEntry
<1>32. CASE Cancelled
  BY <1>32, <1>a DEF Cancelled, kernel, loaderRest, MemEntry
<1>33. CASE CancelFails
  <2> DEFINE s == LoadedState(disk')
  <2>1. mem' = s /\ bad' = TRUE
    BY <1>33 DEF CancelFails
  <2>2. s.rec[s.active] > 0 => s.rec[s.active] \in confirmed'
    BY <1>b, DiskEntriesNext, LoadedEntry
  <2> HIDE DEF s
  <2> QED BY <2>1, <2>2 DEF MemEntry
<1>34. CASE LoaderChoice
  BY <1>34, <1>a, LoaderChoiceFacts DEF loaderRest, MemEntry
<1>35. CASE AttemptWritten
  BY <1>35, <1>a DEF AttemptWritten, kernel, loaderRest, MemEntry
<1>36. CASE FailureWritten
  BY <1>36, <1>a DEF FailureWritten, kernel, loaderRest, MemEntry
<1>37. CASE ControlWriteFails
  BY <1>37, <1>a DEF ControlWriteFails, kernel, loaderRest, MemEntry
<1>38. CASE KernelStarts
  BY <1>38, <1>a DEF KernelStarts, kernel, loaderRest, MemEntry
<1>39. CASE MenuLegacy
  BY <1>39, <1>a DEF MenuLegacy, kernel, loaderRest, MemEntry
<1>40. CASE RebootIntoCandidate
  BY <1>40, Factories DEF RebootIntoCandidate, PowerOn, MemEntry
<1>41. CASE Restart
  BY <1>41, Factories DEF Restart, PowerOn, MemEntry
<1>42. CASE PowerCut
  BY <1>42, Factories DEF PowerCut, PowerOn, MemEntry
<1>43. CASE LoaderPowerCut
  BY <1>43, Factories DEF LoaderPowerCut, PowerOn, MemEntry
<1> QED
  BY <1>1, <1>2, <1>3, <1>4, <1>5, <1>6, <1>7, <1>8, <1>9, <1>10, <1>11, <1>12,
     <1>13, <1>14, <1>15, <1>16, <1>17, <1>18, <1>19, <1>20, <1>21, <1>22,
     <1>23, <1>24, <1>25, <1>26, <1>27, <1>28, <1>29, <1>30, <1>31, <1>32,
     <1>33, <1>34, <1>35, <1>36, <1>37, <1>38, <1>39, <1>40, <1>41, <1>42,
     <1>43
     DEF SlotsNext, KernelStep, LoaderStep, LoaderChoice

\* Every step preserves Entries.
LEMMA EntriesNext ==
  ASSUME GeneralInv, SlotsNext
  PROVE  Entries'
<1>1. DiskTyped(disk')
  BY DiskTypedNext DEF GeneralInv
<1>2. ASSUME NEW i \in Slots, NEW n \in DOMAIN disk'[Sta(i)]
      PROVE  Entry(disk'[Sta(i)][n], confirmed')
  <2>1. n \in 1..Len(disk'[Sta(i)])
    BY <1>1, StateNames, EntriesOf
  <2> QED BY <2>1, DiskEntriesNext
<1> QED BY <1>2, MemEntryNext DEF Entries, MemEntry

-----------------------------------------------------------------------------
(* What was staged.                                                        *)

\* A slot the journal does not target keeps its image.
LEMMA HoldsKept ==
  ASSUME GeneralInv, SlotsNext, NEW i \in Slots, NEW k,
         \/ i # mj.target
         \/ doing \notin {"publish", "discard", "abort", "unstage"}
  PROVE  Holds(disk', i, k) <=> Holds(disk, i, k)
<1>1. disk'[Slot(i)] = disk[Slot(i)]
  BY ImagesNext DEF GeneralInv
<1> QED BY <1>1 DEF Holds, Exists

\* What a preflight that approves has seen.
LEMMA PreflightFacts ==
  ASSUME GeneralInv, doing = "idle", Preflight
  PROVE  /\ mem.pending \in Slots /\ mem.rec[mem.pending] > 0
         /\ Trusted(disk) /\ ~Restricted /\ AlternateReady
         /\ Selected(disk) = mem
         /\ mem.boot = "NONE" /\ mem.attempts < AttemptLimit
         /\ Holds(disk, mem.pending, mem.rec[mem.pending])
<1> USE DEF GeneralInv
<1>1. /\ mem \in States /\ mem.pending # NoSlot /\ mem.rec[mem.pending] > 0
      /\ mem.boot = "NONE" /\ mem.attempts = 0 /\ mem.recovery # TRUE
      /\ ~JournalPresent(disk) /\ bad # TRUE
      /\ \A i \in Slots : /\ Exists(disk, Sta(i)) /\ Decodes(Head(disk[Sta(i)]))
                          /\ Head(disk[Sta(i)]) = mem
  BY DEF Preflight, Typed
<1>2. mem.pending \in Slots /\ bad = FALSE /\ mem.recovery = FALSE
  <2>1. mem.pending \in 0..NoSlot /\ mem.recovery \in BOOLEAN
    BY <1>1, StateFields
  <2>2. mem.pending \in Slots
    BY <1>1, <2>1 DEF Slots, NoSlot
  <2> QED BY <1>1, <2>1, <2>2 DEF Typed
<1>3. Readable(disk) = Slots
  BY <1>1 DEF Readable
<1>4. Readable(disk) # {}
  BY <1>3 DEF Slots
<1>5. /\ Newest(disk) \in Slots /\ 1 - Newest(disk) \in Slots
  BY <1>4, Chosen DEF Typed
<1>6. Selected(disk) = mem /\ AlternateReady
  BY <1>1, <1>5 DEF Selected, AlternateReady, Alternate
<1>7. Trusted(disk)
  BY <1>1, <1>4 DEF Trusted, Slots
<1>8. ~Restricted
  BY <1>1, <1>2, <1>6, <1>7 DEF Restricted
<1>9. Holds(disk, mem.pending, mem.rec[mem.pending])
  BY <1>1, <1>2 DEF Staged
<1>10. mem.attempts < AttemptLimit
  BY <1>1, Numbers
<1> QED BY <1>1, <1>2, <1>6, <1>7, <1>8, <1>9, <1>10

\* The parts of Staged, one by one.
StagedMem ==
  /\ doing \in StagePlaces =>
       /\ mem.pending = NoSlot /\ mj.target = 1 - mem.active
       /\ mem.rec[mem.active] > 0
  /\ doing \in CancelPlaces \cup {"promote"} => mem.pending = NoSlot
  /\ doing \in CancelPlaces \cup PendingPlaces \cup {"promote", "republish"} =>
       mem.boot = "NONE"

\* Every step preserves what Staged says of the state in memory.
LEMMA StagedMemNext ==
  ASSUME GeneralInv, SlotsNext
  PROVE  StagedMem'
<1> USE DEF StagePlaces, PendingPlaces, InitPlaces, ClearPlaces, CancelPlaces,
       LoaderPlaces, Session, kernel, history, counts
<1> USE DEF GeneralInv
<1>a. StagedMem /\ Placed
  BY DEF Staged, StagedMem
<1>1. CASE PublishEntry
  BY <1>1, <1>a DEF PublishEntry, StagedMem, Placed
<1>2. CASE \E i \in Images : Stage(i)
  <2>1. PICK i \in Images : Stage(i)
    BY <1>2
  <2>2. /\ mem' = mem /\ mem.pending = NoSlot /\ mem.rec[mem.active] > 0
        /\ mj'.target = 1 - mem.active /\ doing' = "prepared"
    BY <2>1 DEF Stage, StageTarget
  <2> QED BY <2>2 DEF StagedMem, Placed
<1>3. CASE JournalPrepared
  <2>1. /\ mj \in WrittenJournals /\ doing = "prepared"
    BY <1>3 DEF JournalPrepared, Succeeds, OldEntryDeleted, Placed
  <2>2. mj'.target = mj.target
    BY <1>3, <2>1 DEF JournalPrepared, WrittenJournals
  <2> QED BY <1>3, <1>a, <2>1, <2>2
             DEF JournalPrepared, Return, StagedMem, Placed
<1>4. CASE PrepareFails
  BY <1>4, <1>a
     DEF PrepareFails, WriteFails, DiskError, Return, StagedMem, Placed
<1>5. CASE JournalStaging
  BY <1>5, <1>a
     DEF JournalStaging, Succeeds, OldEntryDeleted, StagedMem, Placed
<1>6. CASE WriterBegin
  BY <1>6, <1>a DEF WriterBegin, StagedMem, Placed
<1>7. CASE WriterEnd
  BY <1>7, <1>a DEF WriterEnd, StagedMem, Placed
<1>8. CASE WriterCancel
  BY <1>8, <1>a DEF WriterCancel, StagedMem, Placed
<1>9. CASE WriterFails
  BY <1>9, <1>a DEF WriterFails, WriteFails, DiskError, StagedMem, Placed
<1>10. CASE SlotPublished
  BY <1>10, <1>a
     DEF SlotPublished, Succeeds, OldEntryDeleted, StagedMem, Placed
<1>11. CASE WriterFinish
  <2>1. /\ mj \in WrittenJournals /\ doing = "untemp"
    BY <1>11 DEF WriterFinish, Succeeds, OldEntryDeleted, Placed
  <2>2. mj'.target = mj.target
    BY <1>11, <2>1 DEF WriterFinish, WrittenJournals
  <2> QED BY <1>11, <1>a, <2>1, <2>2
             DEF WriterFinish, Return, StagedMem, Placed
<1>12. CASE JournalVerified
  <2>1. /\ mj.target \in Slots /\ mj.image \in Images /\ mem \in States
        /\ mem' = WithPending(mem, mj.target, mj.image) /\ doing' = "pending"
    BY <1>12, PhaseNames
       DEF JournalVerified, Succeeds, OldEntryDeleted, Typed, Placed
  <2>2. mem'.boot = "NONE"
    BY <2>1, WithPendingFields
  <2> QED BY <2>1, <2>2 DEF StagedMem, Placed
<1>13. CASE StagedNotPublished
  BY <1>13, <1>a
     DEF StagedNotPublished, Fails, WriteFails, DiskError, OldEntryDeleted,
         Return, StagedMem, Placed
<1>14. CASE PendingWritten
  <2>1. /\ mj \in WrittenJournals /\ doing = "pending"
    BY <1>14 DEF PendingWritten, Succeeds, OldEntryDeleted, Placed
  <2>2. mj'.target = mj.target
    BY <1>14, <2>1 DEF PendingWritten, WrittenJournals
  <2> QED BY <1>14, <1>a, <2>1, <2>2
             DEF PendingWritten, Return, StagedMem, Placed
<1>15. CASE JournalCommitted
  BY <1>15, <1>a
     DEF JournalCommitted, Succeeds, OldEntryDeleted, StagedMem, Placed
<1>16. CASE Replicated
  BY <1>16, <1>a DEF Replicated, Succeeds, OldEntryDeleted, StagedMem, Placed
<1>17. CASE CommitFails
  BY <1>17 DEF CommitFails, Return, StagedMem, Placed
<1>18. CASE AbortStaging
  BY <1>18, <1>a DEF AbortStaging, DiskError, StagedMem, Placed
<1>19. CASE ClearFirst
  BY <1>19, <1>a DEF ClearFirst, DiskError, StagedMem, Placed
<1>20. CASE ClearSecond
  <2>1. doing' \in {"idle", "examine"}
    BY <1>20 DEF ClearSecond, Return
  <2> QED BY <2>1 DEF StagedMem, Placed
<1>21. CASE LoadControls
  <2>1. doing' \in InitPlaces
    BY <1>21, LoadControlsFacts
  <2>2. CASE doing' = "republish"
    <3>1. /\ mem' = WithPending(LoadedState(disk), mj'.target, mj'.image)
          /\ mj' \in WrittenJournals
      BY <1>21, <2>2, LoadControlsFacts
    <3>2. mem'.boot = "NONE"
      BY <3>1, PhaseNames, LoadedFacts, WithPendingFields DEF Typed
    <3> QED BY <2>2, <3>2 DEF StagedMem, Placed
  <2>3. CASE doing' # "republish"
    BY <2>1, <2>3 DEF StagedMem, Placed
  <2> QED BY <2>2, <2>3
<1>22. CASE Republished
  BY <1>22, <1>a DEF Republished, Succeeds, OldEntryDeleted, StagedMem, Placed
<1>23. CASE DiscardTarget
  BY <1>23, <1>a DEF DiscardTarget, StagedMem, Placed
<1>24. CASE Unstage
  BY <1>24, <1>a DEF Unstage, StagedMem, Placed
<1>25. CASE RecoveryFails
  BY <1>25 DEF RecoveryFails, StagedMem, Placed
<1>26. CASE Examine
  BY <1>26, ExamineFacts DEF StagedMem, Placed
<1>27. CASE BootConfirm
  <2>1. CASE HandoffMatches
    <3>1. /\ mem' = Promotion /\ mem.attempt = run.handoff.attempt
          /\ run.handoff.valid = TRUE /\ doing' = "promote"
      BY <1>27, <2>1, HandoffTyped DEF BootConfirm, HandoffMatches
    <3>2. mem.attempt \in Slots /\ mem \in States
      BY <3>1 DEF InLoader, Typed
    <3>3. mem'.pending = NoSlot /\ mem'.boot = "NONE"
      BY <3>1, <3>2, PromotionFields
    <3> QED BY <3>1, <3>3 DEF StagedMem, Placed
  <2>2. CASE ~HandoffMatches
    BY <1>27, <2>2 DEF BootConfirm, Return, StagedMem, Placed
  <2> QED BY <2>1, <2>2
<1>28. CASE Promoted
  BY <1>28, <1>a
     DEF Promoted, Succeeds, OldEntryDeleted, Return, StagedMem, Placed
<1>29. CASE PromoteFails
  BY <1>29, <1>a
     DEF PromoteFails, Fails, WriteFails, DiskError, OldEntryDeleted, Return,
         StagedMem, Placed
<1>30. CASE CancelPending
  <2>1. mem' = Cancellation /\ doing' = "withdraw"
    BY <1>30 DEF CancelPending, Cancellation
  <2>2. mem'.pending = NoSlot /\ mem'.boot = "NONE"
    BY <2>1, CancellationFields DEF Typed
  <2> QED BY <2>1, <2>2 DEF StagedMem, Placed
<1>31. CASE Withdrawn
  BY <1>31, <1>a DEF Withdrawn, Succeeds, OldEntryDeleted, StagedMem, Placed
<1>32. CASE Cancelled
  BY <1>32, <1>a
     DEF Cancelled, Succeeds, OldEntryDeleted, Return, StagedMem, Placed
<1>33. CASE CancelFails
  BY <1>33 DEF CancelFails, Return, StagedMem, Placed
<1>34. CASE LoaderChoice
  BY <1>34, LoaderChoiceFacts DEF StagedMem
<1>35. CASE AttemptWritten
  BY <1>35, <1>a DEF AttemptWritten, StagedMem, Placed
<1>36. CASE FailureWritten
  BY <1>36, <1>a DEF FailureWritten, StagedMem, Placed
<1>37. CASE ControlWriteFails
  BY <1>37, <1>a
     DEF ControlWriteFails, DiskError, Legacy, NoBoot, StagedMem, Placed
<1>38. CASE KernelStarts
  BY <1>38, <1>a DEF KernelStarts, StagedMem, Placed
<1>39. CASE MenuLegacy
  BY <1>39, <1>a
     DEF MenuLegacy, Menu, Legacy, Jump, MarkFailed, TryCandidate, loaderRest,
         NoContext, NoBoot, StagedMem, Placed
<1>40. CASE RebootIntoCandidate
  BY <1>40 DEF RebootIntoCandidate, PowerOn, StagedMem, Placed
<1>41. CASE Restart
  BY <1>41 DEF Restart, PowerOn, StagedMem, Placed
<1>42. CASE PowerCut
  BY <1>42 DEF PowerCut, PowerOn, StagedMem, Placed
<1>43. CASE LoaderPowerCut
  BY <1>43 DEF LoaderPowerCut, PowerOn, StagedMem, Placed
<1> QED
  BY <1>1, <1>2, <1>3, <1>4, <1>5, <1>6, <1>7, <1>8, <1>9, <1>10, <1>11,
     <1>12, <1>13, <1>14, <1>15, <1>16, <1>17, <1>18, <1>19, <1>20, <1>21,
     <1>22, <1>23, <1>24, <1>25, <1>26, <1>27, <1>28, <1>29, <1>30, <1>31,
     <1>32, <1>33, <1>34, <1>35, <1>36, <1>37, <1>38, <1>39, <1>40, <1>41,
     <1>42, <1>43
     DEF SlotsNext, KernelStep, LoaderStep, LoaderChoice

-----------------------------------------------------------------------------
(* Images that are still there.                                            *)

\* The image a state in memory records as pending is in its slot.
PendingHeld ==
  bad = FALSE /\ mem.pending \in Slots /\ mem.rec[mem.pending] > 0 =>
    Holds(disk, mem.pending, mem.rec[mem.pending])

\* The places where a pending image was found in its slot.
HeldPlace ==
  \/ doing \in PendingPlaces \cup {"confirm", "idle"}
  \/ doing \in ClearPlaces /\ task # "init"

\* While the images stay where they are, a pending image does.
LEMMA PendingHeldKept ==
  ASSUME GeneralInv, SlotsNext, PendingHeld,
         doing \notin {"publish", "discard", "abort", "unstage"},
         mem'.pending = mem.pending, mem'.rec = mem.rec, bad' = bad
  PROVE  PendingHeld'
  BY HoldsKept DEF PendingHeld

\* With nothing pending there is no image to hold.
LEMMA NonePending ==
  ASSUME mem'.pending = NoSlot
  PROVE  PendingHeld'
  BY Numbers DEF PendingHeld

\* Every step to such a place finds the pending image in its slot.
LEMMA PendingHeldNext ==
  ASSUME GeneralInv, SlotsNext
  PROVE  HeldPlace' => PendingHeld'
<1> USE DEF StagePlaces, PendingPlaces, InitPlaces, ClearPlaces, CancelPlaces,
       LoaderPlaces, Session, Writes, JournalWrites, StateWrites, CopyWrites,
       kernel
<1> USE DEF GeneralInv
<1>a. HeldPlace => PendingHeld
  BY DEF Staged, HeldPlace, PendingHeld
<1>b. doing \in StagePlaces \cup CancelPlaces \cup {"promote"} =>
        mem.pending = NoSlot
  BY DEF Staged
<1>c. Placed
  OBVIOUS
<1> SUFFICES ASSUME HeldPlace' PROVE PendingHeld'
  OBVIOUS
<1>1. CASE PublishEntry
  <2>1. mem' = mem /\ bad' = bad
    BY <1>1 DEF PublishEntry
  <2>2. \/ ~HeldPlace'
        \/ HeldPlace /\ doing \notin {"publish", "discard", "abort", "unstage"}
        \/ doing \in StagePlaces \cup CancelPlaces \cup {"promote"}
    BY <1>1, <1>c DEF PublishEntry, Placed, HeldPlace
  <2> QED BY <1>a, <1>b, <2>1, <2>2, PendingHeldKept, NonePending
<1>2. CASE \E i \in Images : Stage(i)
  <2>1. mem' = mem /\ bad' = bad
    BY <1>2 DEF Stage
  <2>2. \/ ~HeldPlace'
        \/ HeldPlace /\ doing \notin {"publish", "discard", "abort", "unstage"}
        \/ doing \in StagePlaces \cup CancelPlaces \cup {"promote"}
    BY <1>2, <1>c DEF Stage, Placed, HeldPlace
  <2> QED BY <1>a, <1>b, <2>1, <2>2, PendingHeldKept, NonePending
<1>3. CASE JournalPrepared
  <2>1. mem' = mem /\ bad' = bad
    BY <1>3 DEF JournalPrepared
  <2>2. \/ ~HeldPlace'
        \/ HeldPlace /\ doing \notin {"publish", "discard", "abort", "unstage"}
        \/ doing \in StagePlaces \cup CancelPlaces \cup {"promote"}
    BY <1>3, <1>c
       DEF JournalPrepared, Succeeds, OldEntryDeleted, Placed, HeldPlace
  <2> QED BY <1>a, <1>b, <2>1, <2>2, PendingHeldKept, NonePending
<1>4. CASE PrepareFails
  <2>1. mem' = mem /\ bad' = bad
    BY <1>4 DEF PrepareFails
  <2>2. \/ ~HeldPlace'
        \/ HeldPlace /\ doing \notin {"publish", "discard", "abort", "unstage"}
        \/ doing \in StagePlaces \cup CancelPlaces \cup {"promote"}
    BY <1>4, <1>c
       DEF PrepareFails, WriteFails, DiskError, Return, Placed, HeldPlace
  <2> QED BY <1>a, <1>b, <2>1, <2>2, PendingHeldKept, NonePending
<1>5. CASE JournalStaging
  <2>1. mem' = mem /\ bad' = bad
    BY <1>5 DEF JournalStaging
  <2>2. \/ ~HeldPlace'
        \/ HeldPlace /\ doing \notin {"publish", "discard", "abort", "unstage"}
        \/ doing \in StagePlaces \cup CancelPlaces \cup {"promote"}
    BY <1>5, <1>c
       DEF JournalStaging, Succeeds, OldEntryDeleted, Placed, HeldPlace
  <2> QED BY <1>a, <1>b, <2>1, <2>2, PendingHeldKept, NonePending
<1>6. CASE WriterBegin
  <2>1. mem' = mem /\ bad' = bad
    BY <1>6 DEF WriterBegin
  <2>2. \/ ~HeldPlace'
        \/ HeldPlace /\ doing \notin {"publish", "discard", "abort", "unstage"}
        \/ doing \in StagePlaces \cup CancelPlaces \cup {"promote"}
    BY <1>6, <1>c DEF WriterBegin, Placed, HeldPlace
  <2> QED BY <1>a, <1>b, <2>1, <2>2, PendingHeldKept, NonePending
<1>7. CASE WriterEnd
  <2>1. mem' = mem /\ bad' = bad
    BY <1>7 DEF WriterEnd
  <2>2. \/ ~HeldPlace'
        \/ HeldPlace /\ doing \notin {"publish", "discard", "abort", "unstage"}
        \/ doing \in StagePlaces \cup CancelPlaces \cup {"promote"}
    BY <1>7, <1>c DEF WriterEnd, Placed, HeldPlace
  <2> QED BY <1>a, <1>b, <2>1, <2>2, PendingHeldKept, NonePending
<1>8. CASE WriterCancel
  <2>1. mem' = mem /\ bad' = bad
    BY <1>8 DEF WriterCancel
  <2>2. \/ ~HeldPlace'
        \/ HeldPlace /\ doing \notin {"publish", "discard", "abort", "unstage"}
        \/ doing \in StagePlaces \cup CancelPlaces \cup {"promote"}
    BY <1>8, <1>c DEF WriterCancel, Placed, HeldPlace
  <2> QED BY <1>a, <1>b, <2>1, <2>2, PendingHeldKept, NonePending
<1>9. CASE WriterFails
  <2>1. mem' = mem /\ bad' = bad
    BY <1>9 DEF WriterFails
  <2>2. \/ ~HeldPlace'
        \/ HeldPlace /\ doing \notin {"publish", "discard", "abort", "unstage"}
        \/ doing \in StagePlaces \cup CancelPlaces \cup {"promote"}
    BY <1>9, <1>c DEF WriterFails, WriteFails, DiskError, Placed, HeldPlace
  <2> QED BY <1>a, <1>b, <2>1, <2>2, PendingHeldKept, NonePending
<1>10. CASE SlotPublished
  <2>1. mem' = mem /\ bad' = bad
    BY <1>10 DEF SlotPublished
  <2>2. \/ ~HeldPlace'
        \/ HeldPlace /\ doing \notin {"publish", "discard", "abort", "unstage"}
        \/ doing \in StagePlaces \cup CancelPlaces \cup {"promote"}
    BY <1>10, <1>c
       DEF SlotPublished, Succeeds, OldEntryDeleted, Placed, HeldPlace
  <2> QED BY <1>a, <1>b, <2>1, <2>2, PendingHeldKept, NonePending
<1>11. CASE WriterFinish
  <2>1. mem' = mem /\ bad' = bad
    BY <1>11 DEF WriterFinish
  <2>2. \/ ~HeldPlace'
        \/ HeldPlace /\ doing \notin {"publish", "discard", "abort", "unstage"}
        \/ doing \in StagePlaces \cup CancelPlaces \cup {"promote"}
    BY <1>11, <1>c DEF WriterFinish, Return, Placed, HeldPlace
  <2> QED BY <1>a, <1>b, <2>1, <2>2, PendingHeldKept, NonePending
<1>12. CASE JournalVerified
  <2>1. /\ mj.target \in Slots /\ mj.image \in Images /\ mem \in States
        /\ mem' = WithPending(mem, mj.target, mj.image) /\ doing = "verified"
    BY <1>12, PhaseNames
       DEF JournalVerified, Succeeds, OldEntryDeleted, Typed, Placed
  <2>2. mem'.pending = mj.target /\ mem'.rec[mj.target] = mj.image
    BY <2>1, WithPendingFields
  <2>3. Holds(disk', mj.target, mj.image)
    BY <2>1, HoldsKept DEF Staged
  <2> QED BY <2>2, <2>3 DEF PendingHeld
<1>13. CASE StagedNotPublished
  <2>1. mem' = mem /\ bad' = bad
    BY <1>13 DEF StagedNotPublished
  <2>2. \/ ~HeldPlace'
        \/ HeldPlace /\ doing \notin {"publish", "discard", "abort", "unstage"}
        \/ doing \in StagePlaces \cup CancelPlaces \cup {"promote"}
    BY <1>13, <1>c
       DEF StagedNotPublished, Fails, WriteFails, DiskError, OldEntryDeleted,
           Return, Placed, HeldPlace
  <2> QED BY <1>a, <1>b, <2>1, <2>2, PendingHeldKept, NonePending
<1>14. CASE PendingWritten
  <2>1. mem' = mem /\ bad' = bad
    BY <1>14 DEF PendingWritten
  <2>2. \/ ~HeldPlace'
        \/ HeldPlace /\ doing \notin {"publish", "discard", "abort", "unstage"}
        \/ doing \in StagePlaces \cup CancelPlaces \cup {"promote"}
    BY <1>14, <1>c
       DEF PendingWritten, Succeeds, OldEntryDeleted, Placed, HeldPlace
  <2> QED BY <1>a, <1>b, <2>1, <2>2, PendingHeldKept, NonePending
<1>15. CASE JournalCommitted
  <2>1. mem' = mem /\ bad' = bad
    BY <1>15 DEF JournalCommitted
  <2>2. \/ ~HeldPlace'
        \/ HeldPlace /\ doing \notin {"publish", "discard", "abort", "unstage"}
        \/ doing \in StagePlaces \cup CancelPlaces \cup {"promote"}
    BY <1>15, <1>c
       DEF JournalCommitted, Succeeds, OldEntryDeleted, Placed, HeldPlace
  <2> QED BY <1>a, <1>b, <2>1, <2>2, PendingHeldKept, NonePending
<1>16. CASE Replicated
  <2>1. mem' = mem /\ bad' = bad
    BY <1>16 DEF Replicated
  <2>2. \/ ~HeldPlace'
        \/ HeldPlace /\ doing \notin {"publish", "discard", "abort", "unstage"}
        \/ doing \in StagePlaces \cup CancelPlaces \cup {"promote"}
    BY <1>16, <1>c DEF Replicated, Succeeds, OldEntryDeleted, Placed, HeldPlace
  <2> QED BY <1>a, <1>b, <2>1, <2>2, PendingHeldKept, NonePending
<1>17. CASE CommitFails
  <2>1. /\ mem' = [mem EXCEPT !.recovery = TRUE] /\ mem \in States /\ bad' = bad
        /\ doing \in {"committed", "replicate"}
    BY <1>17 DEF CommitFails, Typed, Fails, WriteFails, OldEntryDeleted
  <2>2. mem'.pending = mem.pending /\ mem'.rec = mem.rec
    BY <2>1, FlaggedFields
  <2>3. PendingHeld
    BY <1>a, <2>1 DEF HeldPlace
  <2> QED BY <2>1, <2>2, <2>3, PendingHeldKept
<1>18. CASE AbortStaging
  <2>1. mem' = mem /\ bad' = bad
    BY <1>18 DEF AbortStaging
  <2>2. \/ ~HeldPlace'
        \/ HeldPlace /\ doing \notin {"publish", "discard", "abort", "unstage"}
        \/ doing \in StagePlaces \cup CancelPlaces \cup {"promote"}
    BY <1>18, <1>c DEF AbortStaging, Placed, HeldPlace
  <2> QED BY <1>a, <1>b, <2>1, <2>2, PendingHeldKept, NonePending
<1>19. CASE ClearFirst
  <2>1. mem' = mem /\ bad' = bad
    BY <1>19 DEF ClearFirst
  <2>2. \/ ~HeldPlace'
        \/ HeldPlace /\ doing \notin {"publish", "discard", "abort", "unstage"}
        \/ doing \in StagePlaces \cup CancelPlaces \cup {"promote"}
    BY <1>19, <1>c DEF ClearFirst, Placed, HeldPlace
  <2> QED BY <1>a, <1>b, <2>1, <2>2, PendingHeldKept, NonePending
<1>20. CASE ClearSecond
  <2>1. /\ mem'.pending = mem.pending /\ mem'.rec = mem.rec /\ bad' = bad
        /\ doing = "clear1"
        /\ task = "init" => doing' = "examine"
    BY <1>20, ClearSecondFacts DEF ClearSecond
  <2>2. CASE task = "init"
    BY <2>1, <2>2 DEF HeldPlace
  <2>3. CASE task # "init"
    <3>1. PendingHeld
      BY <1>a, <2>1, <2>3 DEF HeldPlace
    <3> QED BY <2>1, <3>1, PendingHeldKept
  <2> QED BY <2>2, <2>3
<1>21. CASE LoadControls
  <2>1. doing' \in InitPlaces
    BY <1>21, LoadControlsFacts
  <2> QED BY <2>1 DEF HeldPlace
<1>22. CASE Republished
  <2>1. mem' = mem /\ bad' = bad
    BY <1>22 DEF Republished
  <2>2. \/ ~HeldPlace'
        \/ HeldPlace /\ doing \notin {"publish", "discard", "abort", "unstage"}
        \/ doing \in StagePlaces \cup CancelPlaces \cup {"promote"}
    BY <1>22, <1>c
       DEF Republished, Succeeds, OldEntryDeleted, Placed, HeldPlace
  <2> QED BY <1>a, <1>b, <2>1, <2>2, PendingHeldKept, NonePending
<1>23. CASE DiscardTarget
  <2>1. mem' = mem /\ bad' = bad
    BY <1>23 DEF DiscardTarget
  <2>2. \/ ~HeldPlace'
        \/ HeldPlace /\ doing \notin {"publish", "discard", "abort", "unstage"}
        \/ doing \in StagePlaces \cup CancelPlaces \cup {"promote"}
    BY <1>23, <1>c DEF DiscardTarget, Placed, HeldPlace
  <2> QED BY <1>a, <1>b, <2>1, <2>2, PendingHeldKept, NonePending
<1>24. CASE Unstage
  <2>1. mem' = mem /\ bad' = bad
    BY <1>24 DEF Unstage
  <2>2. \/ ~HeldPlace'
        \/ HeldPlace /\ doing \notin {"publish", "discard", "abort", "unstage"}
        \/ doing \in StagePlaces \cup CancelPlaces \cup {"promote"}
    BY <1>24, <1>c DEF Unstage, Placed, HeldPlace
  <2> QED BY <1>a, <1>b, <2>1, <2>2, PendingHeldKept, NonePending
<1>25. CASE RecoveryFails
  BY <1>25 DEF RecoveryFails, HeldPlace
<1>26. CASE Examine
  <2>1. /\ bad' = FALSE => mem'.rec = mem.rec
        /\ \A s \in Slots :
              mem'.rec[s] = IF mem.rec[s] > 0 /\ ~Holds(disk, s, mem.rec[s])
                            THEN Invalid ELSE mem.rec[s]
        /\ disk' = disk
    BY <1>26, ExamineFacts DEF Examine
  <2>2. bad' = FALSE => \A s \in Slots : mem'.rec[s] > 0 =>
                          Holds(disk', s, mem'.rec[s])
    BY <2>1 DEF Invalid
  <2> QED BY <2>2 DEF PendingHeld
<1>27. CASE BootConfirm
  <2>1. CASE HandoffMatches
    BY <1>27, <2>1 DEF BootConfirm, HeldPlace
  <2>2. CASE ~HandoffMatches
    <3>1. mem' = mem /\ bad' = bad /\ doing = "confirm"
      BY <1>27, <2>2 DEF BootConfirm
    <3>2. PendingHeld
      BY <1>a, <3>1 DEF HeldPlace
    <3> QED BY <3>1, <3>2, PendingHeldKept
  <2> QED BY <2>1, <2>2
<1>28. CASE Promoted
  <2>1. mem' = mem /\ bad' = bad
    BY <1>28 DEF Promoted
  <2>2. \/ ~HeldPlace'
        \/ HeldPlace /\ doing \notin {"publish", "discard", "abort", "unstage"}
        \/ doing \in StagePlaces \cup CancelPlaces \cup {"promote"}
    BY <1>28, <1>c
       DEF Promoted, Succeeds, OldEntryDeleted, Return, Placed, HeldPlace
  <2> QED BY <1>a, <1>b, <2>1, <2>2, PendingHeldKept, NonePending
<1>29. CASE PromoteFails
  <2>1. mem' = mem /\ bad' = bad
    BY <1>29 DEF PromoteFails
  <2>2. \/ ~HeldPlace'
        \/ HeldPlace /\ doing \notin {"publish", "discard", "abort", "unstage"}
        \/ doing \in StagePlaces \cup CancelPlaces \cup {"promote"}
    BY <1>29, <1>c
       DEF PromoteFails, Fails, WriteFails, DiskError, OldEntryDeleted,
           Return, Placed, HeldPlace
  <2> QED BY <1>a, <1>b, <2>1, <2>2, PendingHeldKept, NonePending
<1>30. CASE CancelPending
  BY <1>30 DEF CancelPending, HeldPlace
<1>31. CASE Withdrawn
  <2>1. mem' = mem /\ bad' = bad
    BY <1>31 DEF Withdrawn
  <2>2. \/ ~HeldPlace'
        \/ HeldPlace /\ doing \notin {"publish", "discard", "abort", "unstage"}
        \/ doing \in StagePlaces \cup CancelPlaces \cup {"promote"}
    BY <1>31, <1>c DEF Withdrawn, Succeeds, OldEntryDeleted, Placed, HeldPlace
  <2> QED BY <1>a, <1>b, <2>1, <2>2, PendingHeldKept, NonePending
<1>32. CASE Cancelled
  <2>1. mem' = mem /\ bad' = bad
    BY <1>32 DEF Cancelled
  <2>2. \/ ~HeldPlace'
        \/ HeldPlace /\ doing \notin {"publish", "discard", "abort", "unstage"}
        \/ doing \in StagePlaces \cup CancelPlaces \cup {"promote"}
    BY <1>32, <1>c
       DEF Cancelled, Succeeds, OldEntryDeleted, Return, Placed, HeldPlace
  <2> QED BY <1>a, <1>b, <2>1, <2>2, PendingHeldKept, NonePending
<1>33. CASE CancelFails
  BY <1>33 DEF CancelFails, PendingHeld
<1>34. CASE LoaderChoice
  BY <1>34, LoaderChoiceFacts DEF HeldPlace
<1>35. CASE AttemptWritten
  BY <1>35 DEF AttemptWritten, HeldPlace
<1>36. CASE FailureWritten
  BY <1>36 DEF FailureWritten, HeldPlace
<1>37. CASE ControlWriteFails
  BY <1>37 DEF ControlWriteFails, HeldPlace
<1>38. CASE KernelStarts
  BY <1>38 DEF KernelStarts, HeldPlace
<1>39. CASE MenuLegacy
  BY <1>39 DEF MenuLegacy, HeldPlace
<1>40. CASE RebootIntoCandidate
  BY <1>40 DEF RebootIntoCandidate, PowerOn, HeldPlace
<1>41. CASE Restart
  BY <1>41 DEF Restart, PowerOn, HeldPlace
<1>42. CASE PowerCut
  BY <1>42 DEF PowerCut, PowerOn, HeldPlace
<1>43. CASE LoaderPowerCut
  BY <1>43 DEF LoaderPowerCut, PowerOn, HeldPlace
<1> QED
  BY <1>1, <1>2, <1>3, <1>4, <1>5, <1>6, <1>7, <1>8, <1>9, <1>10, <1>11,
     <1>12, <1>13, <1>14, <1>15, <1>16, <1>17, <1>18, <1>19, <1>20, <1>21,
     <1>22, <1>23, <1>24, <1>25, <1>26, <1>27, <1>28, <1>29, <1>30, <1>31,
     <1>32, <1>33, <1>34, <1>35, <1>36, <1>37, <1>38, <1>39, <1>40, <1>41,
     <1>42, <1>43
     DEF SlotsNext, KernelStep, LoaderStep, LoaderChoice


\* The journal goes to VERIFIED only over an image that reads back.
LEMMA VerifiedNext ==
  ASSUME GeneralInv, SlotsNext, doing' = "verified"
  PROVE  Holds(disk', mj'.target, mj'.image)
<1> USE DEF GeneralInv
<1>1. \/ PublishEntry /\ doing = "verified" /\ mj' = mj
      \/ WriterFinish /\ Holds(disk, mj.target, mj.image) /\ doing = "untemp"
  <2>1. CASE PublishEntry
    BY <2>1 DEF PublishEntry, Return, PowerOn, kernel
  <2>2. CASE \E i \in Images : Stage(i)
    BY <2>2 DEF Stage, Return, PowerOn, kernel
  <2>3. CASE JournalPrepared
    BY <2>3 DEF JournalPrepared, Return, PowerOn, kernel
  <2>4. CASE PrepareFails
    BY <2>4 DEF PrepareFails, Return, PowerOn, kernel
  <2>5. CASE JournalStaging
    BY <2>5 DEF JournalStaging, Return, PowerOn, kernel
  <2>6. CASE WriterBegin
    BY <2>6 DEF WriterBegin, Return, PowerOn, kernel
  <2>7. CASE WriterEnd
    BY <2>7 DEF WriterEnd, Return, PowerOn, kernel
  <2>8. CASE WriterCancel
    BY <2>8 DEF WriterCancel, Return, PowerOn, kernel
  <2>9. CASE WriterFails
    BY <2>9 DEF WriterFails, Return, PowerOn, kernel
  <2>10. CASE SlotPublished
    BY <2>10 DEF SlotPublished, Return, PowerOn, kernel
  <2>11. CASE WriterFinish
    BY <2>11 DEF WriterFinish, Return, PowerOn, kernel
  <2>12. CASE JournalVerified
    BY <2>12 DEF JournalVerified, Return, PowerOn, kernel
  <2>13. CASE StagedNotPublished
    BY <2>13 DEF StagedNotPublished, Return, PowerOn, kernel
  <2>14. CASE PendingWritten
    BY <2>14 DEF PendingWritten, Return, PowerOn, kernel
  <2>15. CASE JournalCommitted
    BY <2>15 DEF JournalCommitted, Return, PowerOn, kernel
  <2>16. CASE Replicated
    BY <2>16 DEF Replicated, Return, PowerOn, kernel
  <2>17. CASE CommitFails
    BY <2>17 DEF CommitFails, Return, PowerOn, kernel
  <2>18. CASE AbortStaging
    BY <2>18 DEF AbortStaging, Return, PowerOn, kernel
  <2>19. CASE ClearFirst
    BY <2>19 DEF ClearFirst, Return, PowerOn, kernel
  <2>20. CASE ClearSecond
    BY <2>20 DEF ClearSecond, Return, PowerOn, kernel
  <2>21. CASE LoadControls
    BY <2>21, LoadControlsFacts
  <2>22. CASE Republished
    BY <2>22 DEF Republished, Return, PowerOn, kernel
  <2>23. CASE DiscardTarget
    BY <2>23 DEF DiscardTarget, Return, PowerOn, kernel
  <2>24. CASE Unstage
    BY <2>24 DEF Unstage, Return, PowerOn, kernel
  <2>25. CASE RecoveryFails
    BY <2>25 DEF RecoveryFails, Return, PowerOn, kernel
  <2>26. CASE Examine
    BY <2>26, ExamineFacts
  <2>27. CASE BootConfirm
    BY <2>27 DEF BootConfirm, Return, PowerOn, kernel
  <2>28. CASE Promoted
    BY <2>28 DEF Promoted, Return, PowerOn, kernel
  <2>29. CASE PromoteFails
    BY <2>29 DEF PromoteFails, Return, PowerOn, kernel
  <2>30. CASE CancelPending
    BY <2>30 DEF CancelPending, Return, PowerOn, kernel
  <2>31. CASE Withdrawn
    BY <2>31 DEF Withdrawn, Return, PowerOn, kernel
  <2>32. CASE Cancelled
    BY <2>32 DEF Cancelled, Return, PowerOn, kernel
  <2>33. CASE CancelFails
    BY <2>33 DEF CancelFails, Return, PowerOn, kernel
  <2>34. CASE LoaderChoice
    BY <2>34, LoaderChoiceFacts
  <2>35. CASE AttemptWritten
    BY <2>35 DEF AttemptWritten, Return, PowerOn, kernel
  <2>36. CASE FailureWritten
    BY <2>36 DEF FailureWritten, Return, PowerOn, kernel
  <2>37. CASE ControlWriteFails
    BY <2>37 DEF ControlWriteFails, Return, PowerOn, kernel
  <2>38. CASE KernelStarts
    BY <2>38 DEF KernelStarts, Return, PowerOn, kernel
  <2>39. CASE MenuLegacy
    BY <2>39 DEF MenuLegacy, Return, PowerOn, kernel
  <2>40. CASE RebootIntoCandidate
    BY <2>40 DEF RebootIntoCandidate, Return, PowerOn, kernel
  <2>41. CASE Restart
    BY <2>41 DEF Restart, Return, PowerOn, kernel
  <2>42. CASE PowerCut
    BY <2>42 DEF PowerCut, Return, PowerOn, kernel
  <2>43. CASE LoaderPowerCut
    BY <2>43 DEF LoaderPowerCut, Return, PowerOn, kernel
  <2> QED
    BY <2>1, <2>2, <2>3, <2>4, <2>5, <2>6, <2>7, <2>8, <2>9, <2>10, <2>11,
       <2>12,
       <2>13, <2>14, <2>15, <2>16, <2>17, <2>18, <2>19, <2>20, <2>21, <2>22,
       <2>23, <2>24, <2>25, <2>26, <2>27, <2>28, <2>29, <2>30, <2>31, <2>32,
       <2>33, <2>34, <2>35, <2>36, <2>37, <2>38, <2>39, <2>40, <2>41, <2>42,
       <2>43
       DEF SlotsNext, KernelStep, LoaderStep, LoaderChoice
<1>2. CASE PublishEntry /\ doing = "verified" /\ mj' = mj
  <2>1. mj.target \in Slots /\ Holds(disk, mj.target, mj.image)
    BY <1>2, PhaseNames DEF Placed, Staged, StagePlaces
  <2> QED BY <1>2, <2>1, HoldsKept
<1>3. CASE WriterFinish /\ Holds(disk, mj.target, mj.image) /\ doing = "untemp"
  <2>1. mj \in WrittenJournals /\ mj.target \in Slots
    BY <1>3, PhaseNames DEF Placed, StagePlaces
  <2>2. mj'.target = mj.target /\ mj'.image = mj.image
    BY <1>3, <2>1 DEF WriterFinish, WrittenJournals
  <2> QED BY <1>3, <2>1, <2>2, HoldsKept
<1> QED BY <1>1, <1>2, <1>3

\* The kernel confirms only after it has read every recorded image.
LEMMA ConfirmNext ==
  ASSUME GeneralInv, SlotsNext, doing' = "confirm", NEW s \in Slots,
         mem'.rec[s] > 0
  PROVE  Holds(disk', s, mem'.rec[s])
<1> USE DEF Writes, JournalWrites, StateWrites, CopyWrites, Return, PowerOn
<1> USE DEF GeneralInv
<1>1. Examine
  <2>1. CASE PublishEntry
    BY <2>1 DEF PublishEntry
  <2>2. CASE \E i \in Images : Stage(i)
    BY <2>2 DEF Stage
  <2>3. CASE JournalPrepared
    BY <2>3 DEF JournalPrepared
  <2>4. CASE PrepareFails
    BY <2>4 DEF PrepareFails
  <2>5. CASE JournalStaging
    BY <2>5 DEF JournalStaging
  <2>6. CASE WriterBegin
    BY <2>6 DEF WriterBegin
  <2>7. CASE WriterEnd
    BY <2>7 DEF WriterEnd
  <2>8. CASE WriterCancel
    BY <2>8 DEF WriterCancel
  <2>9. CASE WriterFails
    BY <2>9 DEF WriterFails
  <2>10. CASE SlotPublished
    BY <2>10 DEF SlotPublished
  <2>11. CASE WriterFinish
    BY <2>11 DEF WriterFinish
  <2>12. CASE JournalVerified
    BY <2>12 DEF JournalVerified
  <2>13. CASE StagedNotPublished
    BY <2>13 DEF StagedNotPublished
  <2>14. CASE PendingWritten
    BY <2>14 DEF PendingWritten
  <2>15. CASE JournalCommitted
    BY <2>15 DEF JournalCommitted
  <2>16. CASE Replicated
    BY <2>16 DEF Replicated
  <2>17. CASE CommitFails
    BY <2>17 DEF CommitFails
  <2>18. CASE AbortStaging
    BY <2>18 DEF AbortStaging
  <2>19. CASE ClearFirst
    BY <2>19 DEF ClearFirst
  <2>20. CASE ClearSecond
    BY <2>20 DEF ClearSecond
  <2>21. CASE LoadControls
    BY <2>21, LoadControlsFacts
  <2>22. CASE Republished
    BY <2>22 DEF Republished
  <2>23. CASE DiscardTarget
    BY <2>23 DEF DiscardTarget
  <2>24. CASE Unstage
    BY <2>24 DEF Unstage
  <2>25. CASE RecoveryFails
    BY <2>25 DEF RecoveryFails
  <2>26. CASE Examine
    BY <2>26
  <2>27. CASE BootConfirm
    BY <2>27 DEF BootConfirm
  <2>28. CASE Promoted
    BY <2>28 DEF Promoted
  <2>29. CASE PromoteFails
    BY <2>29 DEF PromoteFails
  <2>30. CASE CancelPending
    BY <2>30 DEF CancelPending
  <2>31. CASE Withdrawn
    BY <2>31 DEF Withdrawn
  <2>32. CASE Cancelled
    BY <2>32 DEF Cancelled
  <2>33. CASE CancelFails
    BY <2>33 DEF CancelFails
  <2>34. CASE LoaderChoice
    BY <2>34, LoaderChoiceFacts
  <2>35. CASE AttemptWritten
    BY <2>35 DEF AttemptWritten
  <2>36. CASE FailureWritten
    BY <2>36 DEF FailureWritten
  <2>37. CASE ControlWriteFails
    BY <2>37 DEF ControlWriteFails
  <2>38. CASE KernelStarts
    BY <2>38 DEF KernelStarts
  <2>39. CASE MenuLegacy
    BY <2>39 DEF MenuLegacy
  <2>40. CASE RebootIntoCandidate
    BY <2>40 DEF RebootIntoCandidate
  <2>41. CASE Restart
    BY <2>41 DEF Restart
  <2>42. CASE PowerCut
    BY <2>42 DEF PowerCut
  <2>43. CASE LoaderPowerCut
    BY <2>43 DEF LoaderPowerCut
  <2> QED
    BY <2>1, <2>2, <2>3, <2>4, <2>5, <2>6, <2>7, <2>8, <2>9, <2>10, <2>11,
       <2>12, <2>13, <2>14, <2>15, <2>16, <2>17, <2>18, <2>19, <2>20, <2>21,
       <2>22, <2>23, <2>24, <2>25, <2>26, <2>27, <2>28, <2>29, <2>30, <2>31,
       <2>32, <2>33, <2>34, <2>35, <2>36, <2>37, <2>38, <2>39, <2>40, <2>41,
       <2>42, <2>43
       DEF SlotsNext, KernelStep, LoaderStep, LoaderChoice
<1>2. /\ mem'.rec[s] = IF mem.rec[s] > 0 /\ ~Holds(disk, s, mem.rec[s])
                       THEN Invalid ELSE mem.rec[s]
      /\ disk' = disk
  BY <1>1, ExamineFacts DEF Examine
<1> QED BY <1>2 DEF Invalid

\* The slot it promotes holds the recorded image.
LEMMA PromoteNext ==
  ASSUME GeneralInv, SlotsNext, doing' = "promote"
  PROVE  Holds(disk', mem'.active, mem'.rec[mem'.active])
<1> USE DEF GeneralInv
<1>1. \/ PublishEntry /\ doing = "promote" /\ mem' = mem
      \/ BootConfirm /\ HandoffMatches
  <2>1. CASE PublishEntry
    BY <2>1 DEF PublishEntry, Return, PowerOn, kernel
  <2>2. CASE \E i \in Images : Stage(i)
    BY <2>2 DEF Stage, Return, PowerOn, kernel
  <2>3. CASE JournalPrepared
    BY <2>3 DEF JournalPrepared, Return, PowerOn, kernel
  <2>4. CASE PrepareFails
    BY <2>4 DEF PrepareFails, Return, PowerOn, kernel
  <2>5. CASE JournalStaging
    BY <2>5 DEF JournalStaging, Return, PowerOn, kernel
  <2>6. CASE WriterBegin
    BY <2>6 DEF WriterBegin, Return, PowerOn, kernel
  <2>7. CASE WriterEnd
    BY <2>7 DEF WriterEnd, Return, PowerOn, kernel
  <2>8. CASE WriterCancel
    BY <2>8 DEF WriterCancel, Return, PowerOn, kernel
  <2>9. CASE WriterFails
    BY <2>9 DEF WriterFails, Return, PowerOn, kernel
  <2>10. CASE SlotPublished
    BY <2>10 DEF SlotPublished, Return, PowerOn, kernel
  <2>11. CASE WriterFinish
    BY <2>11 DEF WriterFinish, Return, PowerOn, kernel
  <2>12. CASE JournalVerified
    BY <2>12 DEF JournalVerified, Return, PowerOn, kernel
  <2>13. CASE StagedNotPublished
    BY <2>13 DEF StagedNotPublished, Return, PowerOn, kernel
  <2>14. CASE PendingWritten
    BY <2>14 DEF PendingWritten, Return, PowerOn, kernel
  <2>15. CASE JournalCommitted
    BY <2>15 DEF JournalCommitted, Return, PowerOn, kernel
  <2>16. CASE Replicated
    BY <2>16 DEF Replicated, Return, PowerOn, kernel
  <2>17. CASE CommitFails
    BY <2>17 DEF CommitFails, Return, PowerOn, kernel
  <2>18. CASE AbortStaging
    BY <2>18 DEF AbortStaging, Return, PowerOn, kernel
  <2>19. CASE ClearFirst
    BY <2>19 DEF ClearFirst, Return, PowerOn, kernel
  <2>20. CASE ClearSecond
    BY <2>20 DEF ClearSecond, Return, PowerOn, kernel
  <2>21. CASE LoadControls
    BY <2>21, LoadControlsFacts
  <2>22. CASE Republished
    BY <2>22 DEF Republished, Return, PowerOn, kernel
  <2>23. CASE DiscardTarget
    BY <2>23 DEF DiscardTarget, Return, PowerOn, kernel
  <2>24. CASE Unstage
    BY <2>24 DEF Unstage, Return, PowerOn, kernel
  <2>25. CASE RecoveryFails
    BY <2>25 DEF RecoveryFails, Return, PowerOn, kernel
  <2>26. CASE Examine
    BY <2>26, ExamineFacts
  <2>27. CASE BootConfirm
    BY <2>27 DEF BootConfirm, Return, PowerOn, kernel
  <2>28. CASE Promoted
    BY <2>28 DEF Promoted, Return, PowerOn, kernel
  <2>29. CASE PromoteFails
    BY <2>29 DEF PromoteFails, Return, PowerOn, kernel
  <2>30. CASE CancelPending
    BY <2>30 DEF CancelPending, Return, PowerOn, kernel
  <2>31. CASE Withdrawn
    BY <2>31 DEF Withdrawn, Return, PowerOn, kernel
  <2>32. CASE Cancelled
    BY <2>32 DEF Cancelled, Return, PowerOn, kernel
  <2>33. CASE CancelFails
    BY <2>33 DEF CancelFails, Return, PowerOn, kernel
  <2>34. CASE LoaderChoice
    BY <2>34, LoaderChoiceFacts
  <2>35. CASE AttemptWritten
    BY <2>35 DEF AttemptWritten, Return, PowerOn, kernel
  <2>36. CASE FailureWritten
    BY <2>36 DEF FailureWritten, Return, PowerOn, kernel
  <2>37. CASE ControlWriteFails
    BY <2>37 DEF ControlWriteFails, Return, PowerOn, kernel
  <2>38. CASE KernelStarts
    BY <2>38 DEF KernelStarts, Return, PowerOn, kernel
  <2>39. CASE MenuLegacy
    BY <2>39 DEF MenuLegacy, Return, PowerOn, kernel
  <2>40. CASE RebootIntoCandidate
    BY <2>40 DEF RebootIntoCandidate, Return, PowerOn, kernel
  <2>41. CASE Restart
    BY <2>41 DEF Restart, Return, PowerOn, kernel
  <2>42. CASE PowerCut
    BY <2>42 DEF PowerCut, Return, PowerOn, kernel
  <2>43. CASE LoaderPowerCut
    BY <2>43 DEF LoaderPowerCut, Return, PowerOn, kernel
  <2> QED
    BY <2>1, <2>2, <2>3, <2>4, <2>5, <2>6, <2>7, <2>8, <2>9, <2>10, <2>11,
       <2>12,
       <2>13, <2>14, <2>15, <2>16, <2>17, <2>18, <2>19, <2>20, <2>21, <2>22,
       <2>23, <2>24, <2>25, <2>26, <2>27, <2>28, <2>29, <2>30, <2>31, <2>32,
       <2>33, <2>34, <2>35, <2>36, <2>37, <2>38, <2>39, <2>40, <2>41, <2>42,
       <2>43
       DEF SlotsNext, KernelStep, LoaderStep, LoaderChoice
<1>2. CASE PublishEntry /\ doing = "promote" /\ mem' = mem
  <2>1. mem.active \in Slots /\ Holds(disk, mem.active, mem.rec[mem.active])
    BY <1>2, StateFields DEF Typed, Staged
  <2> QED BY <1>2, <2>1, HoldsKept
<1>3. CASE BootConfirm /\ HandoffMatches
  <2>1. /\ mem' = Promotion /\ mem.attempt = run.handoff.attempt
        /\ run.handoff.valid = TRUE /\ doing = "confirm" /\ disk' = disk
        /\ mem.boot = "ATTEMPTED"
    BY <1>3, HandoffTyped DEF BootConfirm, HandoffMatches
  <2>2. mem.attempt \in Slots /\ mem \in States /\ bad = FALSE
    BY <2>1 DEF InLoader, Typed, Placed
  <2>3. mem'.active = mem.attempt /\ mem'.rec = mem.rec
    BY <2>1, <2>2, PromotionFields
  <2>4. mem.rec[mem.attempt] > 0
    BY <2>1, <2>2 DEF Entries
  <2>5. Holds(disk, mem.attempt, mem.rec[mem.attempt])
    BY <2>1, <2>2, <2>4 DEF Staged
  <2> QED BY <2>1, <2>3, <2>5
<1> QED BY <1>1, <1>2, <1>3

\* A restart that a preflight approved.
LEMMA HonestNext ==
  ASSUME GeneralInv, SlotsNext, doing' = "loader", approved' # 0
  PROVE  PreflightIsHonest'
<1> USE DEF Writes, JournalWrites, StateWrites, CopyWrites, Return, PowerOn
<1> USE DEF GeneralInv
<1>1. RebootIntoCandidate
  <2>1. CASE PublishEntry
    BY <2>1 DEF PublishEntry
  <2>2. CASE \E i \in Images : Stage(i)
    BY <2>2 DEF Stage
  <2>3. CASE JournalPrepared
    BY <2>3 DEF JournalPrepared
  <2>4. CASE PrepareFails
    BY <2>4 DEF PrepareFails
  <2>5. CASE JournalStaging
    BY <2>5 DEF JournalStaging
  <2>6. CASE WriterBegin
    BY <2>6 DEF WriterBegin
  <2>7. CASE WriterEnd
    BY <2>7 DEF WriterEnd
  <2>8. CASE WriterCancel
    BY <2>8 DEF WriterCancel
  <2>9. CASE WriterFails
    BY <2>9 DEF WriterFails
  <2>10. CASE SlotPublished
    BY <2>10 DEF SlotPublished
  <2>11. CASE WriterFinish
    BY <2>11 DEF WriterFinish
  <2>12. CASE JournalVerified
    BY <2>12 DEF JournalVerified
  <2>13. CASE StagedNotPublished
    BY <2>13 DEF StagedNotPublished
  <2>14. CASE PendingWritten
    BY <2>14 DEF PendingWritten
  <2>15. CASE JournalCommitted
    BY <2>15 DEF JournalCommitted
  <2>16. CASE Replicated
    BY <2>16 DEF Replicated
  <2>17. CASE CommitFails
    BY <2>17 DEF CommitFails
  <2>18. CASE AbortStaging
    BY <2>18 DEF AbortStaging
  <2>19. CASE ClearFirst
    BY <2>19 DEF ClearFirst
  <2>20. CASE ClearSecond
    BY <2>20 DEF ClearSecond
  <2>21. CASE LoadControls
    BY <2>21, LoadControlsFacts
  <2>22. CASE Republished
    BY <2>22 DEF Republished
  <2>23. CASE DiscardTarget
    BY <2>23 DEF DiscardTarget
  <2>24. CASE Unstage
    BY <2>24 DEF Unstage
  <2>25. CASE RecoveryFails
    BY <2>25 DEF RecoveryFails
  <2>26. CASE Examine
    BY <2>26, ExamineFacts
  <2>27. CASE BootConfirm
    BY <2>27 DEF BootConfirm
  <2>28. CASE Promoted
    BY <2>28 DEF Promoted
  <2>29. CASE PromoteFails
    BY <2>29 DEF PromoteFails
  <2>30. CASE CancelPending
    BY <2>30 DEF CancelPending
  <2>31. CASE Withdrawn
    BY <2>31 DEF Withdrawn
  <2>32. CASE Cancelled
    BY <2>32 DEF Cancelled
  <2>33. CASE CancelFails
    BY <2>33 DEF CancelFails
  <2>34. CASE LoaderChoice
    BY <2>34, LoaderChoiceFacts
  <2>35. CASE AttemptWritten
    BY <2>35 DEF AttemptWritten
  <2>36. CASE FailureWritten
    BY <2>36 DEF FailureWritten
  <2>37. CASE ControlWriteFails
    BY <2>37 DEF ControlWriteFails
  <2>38. CASE KernelStarts
    BY <2>38 DEF KernelStarts
  <2>39. CASE MenuLegacy
    BY <2>39 DEF MenuLegacy
  <2>40. CASE RebootIntoCandidate
    BY <2>40 DEF RebootIntoCandidate
  <2>41. CASE Restart
    BY <2>41 DEF Restart
  <2>42. CASE PowerCut
    BY <2>42 DEF PowerCut
  <2>43. CASE LoaderPowerCut
    BY <2>43 DEF LoaderPowerCut
  <2> QED
    BY <2>1, <2>2, <2>3, <2>4, <2>5, <2>6, <2>7, <2>8, <2>9, <2>10, <2>11,
       <2>12, <2>13, <2>14, <2>15, <2>16, <2>17, <2>18, <2>19, <2>20, <2>21,
       <2>22, <2>23, <2>24, <2>25, <2>26, <2>27, <2>28, <2>29, <2>30, <2>31,
       <2>32, <2>33, <2>34, <2>35, <2>36, <2>37, <2>38, <2>39, <2>40, <2>41,
       <2>42, <2>43
       DEF SlotsNext, KernelStep, LoaderStep, LoaderChoice
<1>2. doing = "idle" /\ Preflight /\ disk' = disk
      /\ approved' = mem.rec[mem.pending]
  BY <1>1 DEF RebootIntoCandidate
<1>3. /\ ~Restricted /\ AlternateReady /\ Selected(disk) = mem
      /\ mem.pending \in Slots /\ mem.boot = "NONE"
      /\ mem.attempts < AttemptLimit
      /\ Holds(disk, mem.pending, mem.rec[mem.pending])
  BY <1>2, PreflightFacts
<1>4. Restricted' = Restricted /\ AlternateReady' = AlternateReady
  BY <1>2 DEF Restricted, AlternateReady
<1>5. mem.pending # NoSlot
  BY <1>3, Numbers
<1> QED BY <1>2, <1>3, <1>4, <1>5 DEF PreflightIsHonest

\* Every step preserves Staged.
LEMMA StagedNext ==
  ASSUME GeneralInv, SlotsNext
  PROVE  Staged'
  BY StagedMemNext, VerifiedNext, PendingHeldNext, ConfirmNext, PromoteNext,
     HonestNext DEF Staged, StagedMem, HeldPlace, PendingHeld

\* GeneralInv is inductive.
LEMMA GeneralNext ==
  ASSUME GeneralInv, SlotsNext
  PROVE  GeneralInv'
  BY TypedNext, PlacedNext, HalvedNext, InLoaderNext, EntriesNext, StagedNext
     DEF GeneralInv

-----------------------------------------------------------------------------
(* The general invariant, and what follows from it.                        *)

\* The disk of the factory image.
LEMMA FactoryDisk ==
  ASSUME SlotsInit
  PROVE  /\ DOMAIN disk = Files
         /\ disk[Sta(0)] = <<Factory>> /\ disk[Sta(1)] = <<Factory>>
         /\ disk[Slot(0)] = <<1>> /\ disk[Slot(1)] = <<>>
         /\ disk[Jrn(0)] = <<>> /\ disk[Jrn(1)] = <<>> /\ disk[Staging] = <<>>
<1>1. 0 \in Slots /\ 1 \in Slots
  BY DEF Slots
<1> DEFINE v(f) == CASE f = Slot(0) -> <<1>>
                     [] f \in {Sta(0), Sta(1)} -> <<Factory>>
                     [] OTHER -> <<>>
<1>2. disk = [f \in Files |-> v(f)]
  BY DEF SlotsInit
<1>3. /\ v(Slot(0)) = <<1>> /\ v(Slot(1)) = <<>>
  BY <1>1, ImageNames
<1>4. v(Sta(0)) = <<Factory>> /\ v(Sta(1)) = <<Factory>>
  BY <1>1, StateNames
<1>5. v(Jrn(0)) = <<>> /\ v(Jrn(1)) = <<>>
  BY <1>1, JournalNames
<1>6. v(Staging) = <<>>
  BY <1>1, StateNames, ImageNames
<1> HIDE DEF v
<1> QED BY <1>1, <1>2, <1>3, <1>4, <1>5, <1>6, FileNames, StateNames,
           JournalNames, ImageNames

\* The factory image satisfies GeneralInv.
LEMMA GeneralInit ==
  ASSUME SlotsInit
  PROVE  GeneralInv
<1>1. 0 \in Slots /\ 1 \in Slots /\ \A i \in Slots : i = 0 \/ i = 1
  BY DEF Slots
<1>2. 1 \in Images /\ 0 \in 0..MaxImage
  BY BoundsAssumption DEF Images
<1>3. Factory \in StateEntries
  BY Factories DEF StateEntries
<1> HIDE DEF Factory, Blank, NoJournal, NoContext, NoBoot
<1>4. ASSUME NEW f \in Files PROVE disk[f] \in Seq(Kind(f))
  <2>1. CASE f = Staging
    BY <2>1, FactoryDisk
  <2>2. ASSUME NEW i \in Slots, f = Sta(i) PROVE disk[f] \in Seq(Kind(f))
    <3>1. disk[f] = <<Factory>> /\ Kind(f) = StateEntries
      BY <1>1, <2>2, FactoryDisk, Kinds
    <3> QED BY <1>3, <3>1
  <2>3. ASSUME NEW i \in Slots, f = Slot(i) PROVE disk[f] \in Seq(Kind(f))
    <3>1. disk[f] \in {<<1>>, <<>>} /\ Kind(f) = Images \cup {Lost}
      BY <1>1, <2>3, FactoryDisk, Kinds
    <3>2. <<1>> \in Seq(Images \cup {Lost}) /\ <<>> \in Seq(Images \cup {Lost})
      BY <1>2
    <3> QED BY <3>1, <3>2
  <2>4. ASSUME NEW i \in Slots, f = Jrn(i) PROVE disk[f] \in Seq(Kind(f))
    <3>1. disk[f] = <<>>
      BY <1>1, <2>4, FactoryDisk
    <3> QED BY <3>1
  <2>5. f = Staging \/ \E i \in Slots : f = Sta(i) \/ f = Jrn(i) \/ f = Slot(i)
    BY FileNames
  <2> QED BY <2>1, <2>2, <2>3, <2>4, <2>5
<1>5. DiskTyped(disk)
  BY <1>4, FactoryDisk DEF DiskTyped
<1>6. Typed
  BY <1>2, <1>5, Factories, NoContextIsOne, NoBootIsOne
     DEF SlotsInit, Typed, LoaderPlaces
<1>7. Placed
  BY DEF SlotsInit, Placed, StagePlaces, PendingPlaces, InitPlaces,
         CancelPlaces
<1>8. Halved
  <2>1. ASSUME NEW i \in Slots PROVE Len(disk[Sta(i)]) >= 1
    <3>1. disk[Sta(i)] = <<Factory>>
      BY <1>1, FactoryDisk
    <3> QED BY <3>1
  <2> QED BY <2>1 DEF SlotsInit, Halved, NothingOld
<1>9. InLoader
  <2>1. doing = "loader" /\ ctx.continue = FALSE /\ run.handoff.valid = FALSE
    BY NoContextIsOne, NoBootIsOne DEF SlotsInit
  <2> QED BY <2>1 DEF InLoader, InitPlaces, ClearPlaces
<1>10. Entries
  <2>1. /\ Factory.rec[Factory.active] = 1 /\ Factory.boot = "NONE"
        /\ Blank.rec[Blank.active] = 0 /\ Blank.boot = "NONE"
    BY Factories
  <2>2. Entry(Factory, confirmed)
    BY <2>1 DEF Entry, SlotsInit
  <2>3. ASSUME NEW i \in Slots, NEW n \in DOMAIN disk[Sta(i)]
        PROVE  Entry(disk[Sta(i)][n], confirmed)
    <3>1. disk[Sta(i)] = <<Factory>>
      BY <1>1, FactoryDisk
    <3>2. disk[Sta(i)][n] = Factory
      BY <3>1
    <3> QED BY <2>2, <3>2
  <2> QED BY <2>1, <2>3 DEF Entries, SlotsInit
<1>11. Staged
  BY DEF SlotsInit, Staged, StagePlaces, PendingPlaces, ClearPlaces,
         CancelPlaces
<1> QED BY <1>6, <1>7, <1>8, <1>9, <1>10, <1>11 DEF GeneralInv

\* GeneralInv is a state predicate of slotsVars.
LEMMA GeneralStutters ==
  ASSUME GeneralInv, UNCHANGED slotsVars
  PROVE  GeneralInv'
<1> USE DEF GeneralInv
<1>1. /\ disk' = disk /\ doing' = doing /\ task' = task /\ half' = half
      /\ mem' = mem /\ mj' = mj /\ bad' = bad /\ run' = run /\ failed' = failed
      /\ ctx' = ctx /\ confirmed' = confirmed /\ starts' = starts
      /\ approved' = approved /\ errors' = errors
  BY DEF slotsVars, kernel, history, counts
<1>2. Dest' = Dest /\ PreflightIsHonest' = PreflightIsHonest
  BY <1>1 DEF Dest, PreflightIsHonest, Restricted, AlternateReady
<1>3. Typed'
  BY <1>1 DEF Typed
<1>4. Placed'
  BY <1>1 DEF Placed
<1>5. Halved'
  BY <1>1, <1>2 DEF Halved
<1>6. InLoader'
  BY <1>1 DEF InLoader
<1>7. Entries'
  BY <1>1 DEF Entries
<1>8. Staged'
  BY <1>1, <1>2 DEF Staged
<1> QED BY <1>3, <1>4, <1>5, <1>6, <1>7, <1>8

\* GeneralInv holds of every run, whatever fails.
LEMMA GeneralHolds == SlotsSpec => []GeneralInv
<1>1. SlotsInit => GeneralInv
  BY GeneralInit
<1>2. GeneralInv /\ [SlotsNext]_slotsVars => GeneralInv'
  BY GeneralNext, GeneralStutters
<1> QED BY <1>1, <1>2, PTL DEF SlotsSpec

(* The active slot's record was confirmed: what Entries says of the entry  *)
(* selected.                                                               *)
LEMMA ConfirmedActive ==
  ASSUME GeneralInv
  PROVE  ActiveWasConfirmed
<1> SUFFICES ASSUME Trusted(disk)
             PROVE  Selected(disk).rec[Selected(disk).active] \in confirmed
  BY DEF ActiveWasConfirmed
<1>1. DiskTyped(disk) /\ Readable(disk) # {}
  BY DEF GeneralInv, Typed, Trusted
<1>2. \A j \in Slots : \A m \in 1..Len(disk[Sta(j)]) :
        Entry(disk[Sta(j)][m], confirmed)
  BY <1>1, StateNames, EntriesOf DEF GeneralInv, Entries
<1>3. LoadedState(disk) = Selected(disk) /\ Decodes(Selected(disk))
  BY <1>1, LoadedFacts
<1> DEFINE s == Selected(disk)
<1>4. s.rec[s.active] > 0 => s.rec[s.active] \in confirmed
  BY <1>1, <1>2, <1>3, LoadedEntry
<1>5. s.rec[s.active] > 0
  BY <1>3 DEF Decodes
<1> QED BY <1>4, <1>5

(* The slot a state that can be read calls active holds an image some      *)
(* kernel has confirmed from inside (update_system_slots_boot_confirm) or  *)
(* the factory one: neither power cuts, torn control sectors, failed       *)
(* writes nor the journal's recovery make an untried candidate the active  *)
(* system.                                                                 *)
THEOREM ActiveAlwaysConfirmed == SlotsSpec => []ActiveWasConfirmed
<1>1. GeneralInv => ActiveWasConfirmed
  BY ConfirmedActive
<1> QED BY <1>1, GeneralHolds, PTL

(* A restart the preflight approved (update_system_slots_reboot_preflight) *)
(* reaches the loader in a state whose automatic boot attempts that very   *)
(* candidate: the controls agree, no journal is left, the pending slot     *)
(* holds the approved image and an attempt is left.                        *)
THEOREM PreflightAlwaysHonest == SlotsSpec => []PreflightIsHonest
<1>1. GeneralInv => PreflightIsHonest
  BY DEF GeneralInv, Staged, PreflightIsHonest
<1> QED BY <1>1, GeneralHolds, PTL

\* Typed has the run's type invariant in it.
LEMMA TypesOfGeneral ==
  ASSUME GeneralInv
  PROVE  SlotsTypeOK
<1>1. /\ DiskTyped(disk) /\ mem \in States
      /\ mj \in WrittenJournals \cup {NoJournal}
      /\ half \in {0, 1, 2, NothingOld}
      /\ bad \in BOOLEAN /\ failed \in BOOLEAN
      /\ run \in Boots /\ confirmed \in SUBSET Images /\ approved \in 0..MaxImage
  BY DEF GeneralInv, Typed
<1>2. WrittenJournals \subseteq Journals /\ NoJournal \in Journals
  <2>1. /\ PREPARED..COMMITTED \subseteq NoPhase..COMMITTED
        /\ Slots \subseteq 0..NoSlot /\ Images \subseteq 0..MaxImage
        /\ NoPhase \in NoPhase..COMMITTED /\ NoSlot \in 0..NoSlot
        /\ 0 \in 0..MaxImage
    BY BoundsAssumption
       DEF PREPARED, COMMITTED, NoPhase, Slots, NoSlot, Images
  <2>2. WrittenJournals \subseteq Journals
    BY <2>1 DEF WrittenJournals, Journals
  <2>3. NoJournal \in Journals
    BY <2>1 DEF NoJournal, Journals
  <2> QED BY <2>2, <2>3
<1>3. ASSUME NEW i \in Slots
      PROVE  /\ \A n \in DOMAIN disk[Sta(i)] :
                  disk[Sta(i)][n] \in States \cup {Torn}
             /\ \A n \in DOMAIN disk[Jrn(i)] : disk[Jrn(i)][n] \in Journals
             /\ \A n \in DOMAIN disk[Slot(i)] :
                  disk[Slot(i)][n] \in Images \cup {Lost}
  <2>1. \A n \in DOMAIN disk[Sta(i)] : disk[Sta(i)][n] \in StateEntries
    BY <1>1, StateNames, Kinds, EntriesOf
  <2>2. \A n \in DOMAIN disk[Jrn(i)] : disk[Jrn(i)][n] \in WrittenJournals
    BY <1>1, JournalNames, Kinds, EntriesOf
  <2>3. \A n \in DOMAIN disk[Slot(i)] : disk[Slot(i)][n] \in Images \cup {Lost}
    BY <1>1, ImageNames, Kinds, EntriesOf
  <2> QED BY <1>2, <2>1, <2>2, <2>3 DEF StateEntries
<1>4. \A n \in DOMAIN disk[Staging] : disk[Staging][n] \in Images \cup {Partial}
  BY <1>1, FileNames, Kinds, EntriesOf
<1>5. run.slot \in 0..NoSlot /\ run.handoff \in States \cup {Torn}
  BY <1>1 DEF Boots, StateEntries
<1> HIDE DEF NoJournal
<1> QED BY <1>1, <1>2, <1>3, <1>4, <1>5 DEF SlotsTypeOK

-----------------------------------------------------------------------------
(* Copies of undoubled state files.                                        *)

\* The two slots.
LEMMA SlotPair ==
  /\ 0 \in Slots /\ 1 \in Slots
  /\ \A i \in Slots : /\ 1 - i \in Slots /\ 1 - i # i /\ 1 - (1 - i) = i
                      /\ \A j \in Slots : j = i \/ j = 1 - i
  BY DEF Slots

\* The numbers of a replacement's entries.
LEMMA OneMore ==
  /\ \A a \in Nat : a + 1 = 2 => a = 1
  /\ \A a \in Nat : a - 1 = 1 => a = 2
  /\ 1 # 2
  OBVIOUS

\* A state file has an entry, and its first one is what a reader sees.
LEMMA StateLengths ==
  ASSUME GeneralInv, NEW i \in Slots
  PROVE  /\ DiskTyped(disk) /\ Sta(i) \in Files
         /\ Len(disk[Sta(i)]) \in Nat /\ Len(disk[Sta(i)]) >= 1
         /\ disk[Sta(i)] # <<>> /\ Head(disk[Sta(i)]) = disk[Sta(i)][1]
         /\ \A n \in 1..Len(disk[Sta(i)]) : disk[Sta(i)][n] \in StateEntries
         /\ Exists(disk, Sta(i))
<1>1. DiskTyped(disk) /\ Sta(i) \in Files /\ Len(disk[Sta(i)]) >= 1
  BY StateNames DEF GeneralInv, Typed, Halved
<1>2. /\ Len(disk[Sta(i)]) \in Nat
      /\ disk[Sta(i)] = <<>> <=> Len(disk[Sta(i)]) = 0
      /\ \A n \in 1..Len(disk[Sta(i)]) : disk[Sta(i)][n] \in Kind(Sta(i))
      /\ disk[Sta(i)] # <<>> => Head(disk[Sta(i)]) = disk[Sta(i)][1]
  BY <1>1, EntriesOf
<1>3. disk[Sta(i)] # <<>>
  BY <1>1, <1>2
<1> QED BY <1>1, <1>2, <1>3, Kinds DEF Exists

\* A replacement of a state file goes on only in the writes of a state.
LEMMA WritingFacts ==
  ASSUME GeneralInv, NEW i \in Slots, Writing(i)
  PROVE  /\ half \in {1, 2} /\ Dest = Sta(i)
         /\ doing \in StateWrites \cup CopyWrites
         /\ \A j \in Slots : Writing(j) => j = i
<1>1. half \in {1, 2} /\ Dest = Sta(i) /\ doing \in Writes
  BY DEF Writing, GeneralInv, Halved
<1>2. doing \in StateWrites \cup CopyWrites
  BY <1>1, DestinationKind DEF GeneralInv
<1>3. \A j \in Slots : Writing(j) => j = i
  BY <1>1, FileNames DEF Writing
<1> QED BY <1>1, <1>2, <1>3

\* The copy a state write goes to.
LEMMA WritesOfAState ==
  ASSUME GeneralInv, doing \in StateWrites \cup CopyWrites
  PROVE  /\ doing \in Writes
         /\ \E d \in Slots :
              /\ Dest = Sta(d)
              /\ doing \in StateWrites => d = mem.seq % 2
              /\ doing \in CopyWrites => d = 1 - (mem.seq % 2)
<1>1. doing \in Writes /\ Typed /\ Placed
  BY DEF Writes, GeneralInv
<1>2. ~(doing \in StateWrites /\ doing \in CopyWrites)
  BY DEF StateWrites, CopyWrites
<1>3. CASE doing \in StateWrites
  BY <1>1, <1>2, <1>3, Destination
<1>4. CASE doing \in CopyWrites
  BY <1>1, <1>2, <1>4, Destination
<1> QED BY <1>1, <1>3, <1>4

(* An undoubled state file has one entry, and two between the halves of    *)
(* its replacement.                                                        *)
LEMMA UndoubledLengths ==
  ASSUME GeneralInv, Undoubled, NEW i \in Slots
  PROVE  Len(disk[Sta(i)]) = IF Writing(i) THEN 2 ELSE 1
  BY DEF Undoubled, Writing

\* What is a copy outside the replacement of its file.
LEMMA CopyIsHead ==
  ASSUME GeneralInv, NEW i \in Slots
  PROVE  /\ ~Writing(i) => /\ Copy(i) = disk[Sta(i)][1]
                           /\ Copy(i) = Head(disk[Sta(i)])
         /\ Writing(i) => Copy(i) = disk[Sta(i)][half]
         /\ Copy(i) \in StateEntries
<1>1. /\ Len(disk[Sta(i)]) \in Nat /\ Len(disk[Sta(i)]) >= 1
      /\ Head(disk[Sta(i)]) = disk[Sta(i)][1]
      /\ \A n \in 1..Len(disk[Sta(i)]) : disk[Sta(i)][n] \in StateEntries
  BY StateLengths
<1>2. CASE ~Writing(i)
  BY <1>1, <1>2 DEF Copy
<1>3. CASE Writing(i)
  <2>1. half \in {1, 2} /\ Len(disk[Sta(i)]) >= 2
    BY <1>3 DEF Writing, GeneralInv, Halved
  <2>2. Copy(i) = disk[Sta(i)][half]
    BY <1>3 DEF Copy
  <2>3. half \in 1..Len(disk[Sta(i)])
    BY <1>1, <2>1
  <2> QED BY <1>1, <1>3, <2>2, <2>3
<1> QED BY <1>2, <1>3

\* Only the publication of an entry starts a replacement.
LEMMA WritingNext ==
  ASSUME GeneralInv, SlotsNext, NEW i \in Slots
  PROVE  /\ ~PublishEntry => half' = 0 /\ ~Writing(i)'
         /\ PublishEntry => /\ half = 0 /\ ~Writing(i) /\ Dest' = Dest
                            /\ Writing(i)' <=> Dest = Sta(i)
<1>1. CASE ~PublishEntry
  <2>1. half' = 0
    BY <1>1, StatesNext DEF GeneralInv
  <2> QED BY <1>1, <2>1 DEF Writing
<1>2. CASE PublishEntry
  <2>1. half = 0 /\ Dest' = Dest /\ doing \in Writes
    BY <1>2 DEF PublishEntry, Dest, kernel
  <2>2. /\ half' \in {1, 2, NothingOld}
        /\ half' = NothingOld <=> disk[Dest] = <<>>
    BY <1>2, PublishFacts DEF GeneralInv
  <2>3. Dest = Sta(i) => half' \in {1, 2}
    BY <2>2, StateLengths
  <2> QED BY <1>2, <2>1, <2>3 DEF Writing
<1> QED BY <1>1, <1>2

\* A doubled state file stays doubled.
LEMMA UndoubledBefore ==
  ASSUME GeneralInv, SlotsNext, Undoubled'
  PROVE  Undoubled
<1> SUFFICES ASSUME NEW i \in Slots
             PROVE  Len(disk[Sta(i)]) = IF Writing(i) THEN 2 ELSE 1
  BY DEF Undoubled, Writing
<1> DEFINE f == Sta(i)
<1>1. f \in Files /\ Len(disk[f]) \in Nat /\ Len(disk[f]) >= 1
      /\ Len(disk'[f]) = IF Writing(i)' THEN 2 ELSE 1
  BY StateLengths DEF Undoubled, Writing
<1> HIDE DEF f
<1>2. CASE PublishEntry
  <2>1. ~Writing(i) /\ (Writing(i)' <=> Dest = f)
    BY <1>2, WritingNext DEF f
  <2>2. /\ \A g \in Files : g # Dest => disk'[g] = disk[g]
        /\ Len(disk'[Dest]) = Len(disk[Dest]) + 1
    BY <1>2, PublishFacts DEF GeneralInv
  <2>3. CASE Dest = f
    <3>1. Len(disk'[f]) = 2
      BY <1>1, <2>1, <2>3
    <3>2. Len(disk[f]) = 1
      <4>1. Len(disk'[f]) = Len(disk[f]) + 1
        BY <2>2, <2>3, Zenon
      <4> QED BY <1>1, <3>1, <4>1, OneMore
    <3> QED BY <2>1, <3>2 DEF f
  <2>4. CASE Dest # f
    BY <1>1, <1>2, <2>2, <2>4, WritingNext DEF f
  <2> QED BY <2>3, <2>4
<1>3. CASE ~PublishEntry
  <2>1. Len(disk'[f]) = 1
    BY <1>1, <1>3, WritingNext
  <2>2. Writing(i) => Len(disk[f]) >= 2 /\ Dest = f /\ half \in {1, 2}
    BY DEF Writing, GeneralInv, Halved, f
  <2>3. CASE StatesKept
    <3>1. Len(disk[f]) = 1
      BY <2>1, <2>3 DEF StatesKept, f
    <3>2. ~Writing(i)
      BY <2>2, <3>1
    <3> QED BY <3>1, <3>2 DEF f
  <2>4. CASE disk' = OldRemoved
    <3>1. CASE Writing(i)
      <4>1. Len(disk'[f]) = Len(disk[f]) - 1
        BY <2>2, <2>4, <3>1, OldRemovedFacts DEF GeneralInv
      <4>2. Len(disk[f]) = 2
        BY <1>1, <2>1, <4>1, OneMore
      <4> QED BY <3>1, <4>2 DEF f
    <3>2. CASE ~Writing(i)
      <4>1. disk'[f] = disk[f]
        BY <1>1, <2>4, <3>2, OldRemovedFacts DEF GeneralInv, Writing, f
      <4> QED BY <2>1, <3>2, <4>1 DEF f
    <3> QED BY <3>1, <3>2
  <2>5. CASE /\ doing \in {"attempt", "fail"}
             /\ \E v \in {ControlValue, Torn} : disk' = Sector(v)
    <3>1. Readable(disk) # {} /\ {ControlValue, Torn} \subseteq StateEntries
      BY <2>5, ControlFacts, Factories DEF StateEntries, GeneralInv
    <3>2. PICK v \in StateEntries : disk' = Sector(v)
      BY <2>5, <3>1
    <3> DEFINE w == Sta(1 - Newest(disk))
    <3>3. /\ Len(disk'[w]) = Len(disk[w])
          /\ \A g \in Files : g # w => disk'[g] = disk[g]
      BY <3>1, <3>2, SectorFacts DEF GeneralInv, Typed
    <3> HIDE DEF w
    <3>4. Len(disk'[f]) = Len(disk[f])
      BY <1>1, <3>3
    <3>5. ~Writing(i)
      BY <2>5, WritingFacts DEF StateWrites, CopyWrites
    <3> QED BY <2>1, <3>4, <3>5 DEF f
  <2> QED BY <1>3, <2>3, <2>4, <2>5, StatesNext DEF GeneralInv
<1> QED BY <1>2, <1>3

\* What a step may do to the two copies while the files are undoubled.
CopiesKept == \A i \in Slots : Copy(i)' = Copy(i)

\* The copy d is replaced by its new entry.
CopyReplaced(d) ==
  /\ d \in Slots /\ Writing(d) /\ half' = 0 /\ disk' = OldRemoved
  /\ disk'[Sta(d)] # <<>> /\ Head(disk'[Sta(d)]) = Copy(d)'
  /\ Copy(d)' = disk[Sta(d)][3 - half]
  /\ Copy(1 - d)' = Copy(1 - d)

\* The loader marks the copy other than k, the selected one, with v.
CopyMarked(k, v) ==
  /\ k \in Slots /\ k = Newest(disk) /\ doing \in {"attempt", "fail"}
  /\ v \in {ControlValue, Torn} /\ disk' = Sector(v)
  /\ Copy(1 - k)' = v /\ Copy(k)' = Copy(k)

\* A replacement that ends with the files undoubled leaves the new entry.
LEMMA Replacing ==
  ASSUME GeneralInv, SlotsNext, GeneralInv', Undoubled, Undoubled',
         NEW d \in Slots, Writing(d), ~PublishEntry
  PROVE  CopyReplaced(d)
<1>1. half' = 0 /\ \A i \in Slots : /\ Copy(i)' = disk'[Sta(i)][1]
                                    /\ Len(disk'[Sta(i)]) = 1
  <2>1. half' = 0
    BY WritingNext
  <2>2. ASSUME NEW i \in Slots PROVE Copy(i)' = disk'[Sta(i)][1]
    BY WritingNext DEF Copy
  <2> QED BY <2>1, <2>2 DEF Undoubled
<1>2. /\ half \in {1, 2} /\ Dest = Sta(d) /\ ~Writing(1 - d)
      /\ doing \in StateWrites \cup CopyWrites
      /\ 1 - d \in Slots /\ 1 - d # d /\ Len(disk[Sta(d)]) = 2
  BY WritingFacts, SlotPair, UndoubledLengths
<1>3. disk' = OldRemoved
  <2>1. ~StatesKept
    BY <1>1, <1>2, OneMore DEF StatesKept
  <2> QED BY <1>2, <2>1, StatesNext DEF GeneralInv, StateWrites, CopyWrites
<1>4. disk'[Sta(d)][1] = disk[Sta(d)][3 - half]
  <2>1. \A n \in 1..(Len(disk[Dest]) - 1) :
          disk'[Dest][n] = IF n < half THEN disk[Dest][n] ELSE disk[Dest][n + 1]
    BY <1>2, <1>3, OldRemovedFacts DEF GeneralInv
  <2>2. disk'[Dest][1] = IF 1 < half THEN disk[Dest][1] ELSE disk[Dest][2]
    BY <1>2, <2>1
  <2> QED BY <1>2, <2>2
<1>5. disk'[Sta(1 - d)] = disk[Sta(1 - d)]
  BY <1>2, <1>3, OldRemovedFacts, FileNames, StateNames DEF GeneralInv
<1>6. Copy(1 - d)' = Copy(1 - d)
  BY <1>1, <1>2, <1>5, CopyIsHead
<1>7. disk'[Sta(d)] # <<>> /\ Head(disk'[Sta(d)]) = disk'[Sta(d)][1]
  <2>1. DiskTyped(disk') /\ Sta(d) \in Files /\ Len(disk'[Sta(d)]) = 1
    BY <1>1, StateNames DEF GeneralInv, Typed
  <2>2. /\ disk'[Sta(d)] = <<>> <=> Len(disk'[Sta(d)]) = 0
        /\ disk'[Sta(d)] # <<>> => Head(disk'[Sta(d)]) = disk'[Sta(d)][1]
    BY <2>1, EntriesOf
  <2> QED BY <2>1, <2>2
<1> QED BY <1>1, <1>3, <1>4, <1>6, <1>7 DEF CopyReplaced

(* The steps that change a copy: the end of a replacement and the loader's *)
(* control write.                                                          *)
LEMMA CopiesNext ==
  ASSUME GeneralInv, SlotsNext, GeneralInv', Undoubled, Undoubled'
  PROVE  \/ CopiesKept
         \/ \E d \in Slots : CopyReplaced(d)
         \/ \E k \in Slots : \E v \in {ControlValue, Torn} : CopyMarked(k, v)
<1>a. ASSUME NEW i \in Slots
      PROVE  Copy(i)' = IF Writing(i)' THEN disk'[Sta(i)][half']
                        ELSE disk'[Sta(i)][1]
  BY DEF Copy
<1>1. CASE PublishEntry
  <2>1. ASSUME NEW i \in Slots PROVE Copy(i)' = Copy(i)
    <3>1. ~Writing(i) /\ (Writing(i)' <=> Dest = Sta(i))
      BY <1>1, WritingNext
    <3>2. Copy(i) = disk[Sta(i)][1] /\ Sta(i) \in Files
      BY <1>1, CopyIsHead, WritingNext, StateNames
    <3>3. CASE Dest = Sta(i)
      <4>1. half' \in {1, 2}
        BY <1>1, <3>3, WritingNext DEF Writing
      <4>2. /\ half' = 2 => disk'[Dest][2] = disk[Dest][1]
            /\ half' = 1 => disk'[Dest][1] = disk[Dest][1]
        BY <1>1, PublishFacts DEF GeneralInv
      <4> QED BY <1>1, <1>a, <3>2, <3>3, <4>1, <4>2, WritingNext
    <3>4. CASE Dest # Sta(i)
      <4>1. disk'[Sta(i)] = disk[Sta(i)]
        BY <1>1, <3>2, <3>4, PublishFacts DEF GeneralInv
      <4> QED BY <1>1, <1>a, <3>2, <3>4, <4>1, WritingNext
    <3> QED BY <3>3, <3>4
  <2> QED BY <2>1 DEF CopiesKept
<1>2. CASE ~PublishEntry
  <2>1. half' = 0 /\ \A i \in Slots : /\ Copy(i)' = disk'[Sta(i)][1]
                                      /\ Len(disk'[Sta(i)]) = 1
    <3>1. half' = 0
      BY <1>2, WritingNext, SlotPair
    <3> QED BY <1>2, <1>a, <3>1, WritingNext DEF Undoubled
  <2>2. CASE StatesKept
    <3>1. ASSUME NEW i \in Slots PROVE Copy(i)' = Copy(i)
      <4>1. ~Writing(i)
        <5>1. Len(disk[Sta(i)]) = 1
          BY <2>1, <2>2 DEF StatesKept
        <5>2. Len(disk[Sta(i)]) = IF Writing(i) THEN 2 ELSE 1
          BY UndoubledLengths
        <5> QED BY <5>1, <5>2, OneMore
      <4> QED BY <2>1, <2>2, <4>1, CopyIsHead DEF StatesKept
    <3> QED BY <3>1 DEF CopiesKept
  <2>3. CASE disk' = OldRemoved
    <3>1. CASE \E d \in Slots : Writing(d)
      BY <1>2, <3>1, Replacing
    <3>2. CASE \A d \in Slots : ~Writing(d)
      <4>1. ASSUME NEW i \in Slots PROVE Copy(i)' = Copy(i)
        <5>1. disk'[Sta(i)] = disk[Sta(i)]
          BY <2>3, <3>2, OldRemovedFacts, StateNames DEF GeneralInv, Writing
        <5> QED BY <2>1, <3>2, <5>1, CopyIsHead
      <4> QED BY <4>1 DEF CopiesKept
    <3> QED BY <3>1, <3>2
  <2>4. CASE /\ doing \in {"attempt", "fail"}
             /\ \E v \in {ControlValue, Torn} : disk' = Sector(v)
    <3>1. Readable(disk) # {} /\ {ControlValue, Torn} \subseteq StateEntries
      BY <2>4, ControlFacts, Factories DEF StateEntries, GeneralInv
    <3>2. PICK v \in {ControlValue, Torn} : disk' = Sector(v)
      BY <2>4
    <3>k. PICK k \in Slots : k = Newest(disk)
      BY <3>1, Chosen DEF GeneralInv, Typed
    <3>3. /\ k \in Slots /\ 1 - k \in Slots
          /\ disk'[Sta(1 - k)][1] = v
          /\ \A g \in Files : g # Sta(1 - k) => disk'[g] = disk[g]
      BY <3>1, <3>2, <3>k, SectorFacts DEF GeneralInv, Typed
    <3>4. disk'[Sta(k)] = disk[Sta(k)]
      BY <3>3, SlotPair, FileNames, StateNames
    <3>5. ~Writing(k)
      BY <2>4, <3>3, WritingFacts DEF StateWrites, CopyWrites
    <3>6. Copy(k)' = Copy(k) /\ Copy(1 - k)' = v
      <4>1. Copy(k)' = disk'[Sta(k)][1] /\ Copy(1 - k)' = disk'[Sta(1 - k)][1]
        BY <2>1, <3>3
      <4>2. Copy(k) = disk[Sta(k)][1]
        BY <3>3, <3>5, CopyIsHead
      <4> QED BY <3>3, <3>4, <4>1, <4>2
    <3>7. CopyMarked(k, v)
      BY <2>4, <3>2, <3>3, <3>6, <3>k DEF CopyMarked
    <3> QED BY <3>2, <3>3, <3>7
  <2> QED BY <1>2, <2>2, <2>3, <2>4, StatesNext DEF GeneralInv
<1> QED BY <1>1, <1>2

-----------------------------------------------------------------------------
(* The copies agree.                                                       *)

\* A step between two undoubled states.
QuietStep ==
  /\ GeneralInv /\ SlotsNext /\ GeneralInv' /\ Undoubled /\ Undoubled'
  /\ Copies

\* A copy that can be read is a state whose active slot has a record.
LEMMA CopyStates ==
  ASSUME GeneralInv, NEW i \in Slots
  PROVE  /\ Copy(i) \in StateEntries
         /\ Decodes(Copy(i)) => /\ Copy(i) \in States /\ Copy(i).seq \in Nat
                                /\ Copy(i).active \in Slots
                                /\ Copy(i).rec[Copy(i).active] > 0
                                /\ Copy(i).pending # Copy(i).active
<1>1. Copy(i) \in StateEntries
  BY CopyIsHead
<1>2. Decodes(Copy(i)) => Copy(i) \in States
  BY <1>1, DecodedIsState
<1> QED BY <1>1, <1>2, StateFields DEF Decodes

\* Between the writes a lookup finds the copies.
LEMMA ReadCopies ==
  ASSUME GeneralInv, \A i \in Slots : ~Writing(i)
  PROVE  /\ \A i \in Slots : i \in Readable(disk) <=> Decodes(Copy(i))
         /\ Readable(disk) # {} =>
              /\ Newest(disk) \in Slots /\ NewestCopy(Newest(disk))
              /\ Selected(disk) = Copy(Newest(disk))
<1>1. \A i \in Slots : /\ Exists(disk, Sta(i))
                       /\ Head(disk[Sta(i)]) = Copy(i)
                       /\ Copy(i) = disk[Sta(i)][1]
  BY StateLengths, CopyIsHead
<1>2. \A i \in Slots : i \in Readable(disk) <=> Decodes(Copy(i))
  BY <1>1 DEF Readable
<1>3. ASSUME Readable(disk) # {}
      PROVE  /\ Newest(disk) \in Slots /\ NewestCopy(Newest(disk))
             /\ Selected(disk) = Copy(Newest(disk))
  <2>1. /\ Newest(disk) \in Slots /\ Selected(disk) = disk[Sta(Newest(disk))][1]
        /\ Decodes(Selected(disk))
        /\ \A j \in Readable(disk) : Head(disk[Sta(j)]).seq <= Selected(disk).seq
    BY <1>3, Chosen DEF GeneralInv, Typed
  <2>2. Selected(disk) = Copy(Newest(disk))
    BY <1>1, <2>1
  <2> QED BY <1>1, <1>2, <2>1, <2>2 DEF NewestCopy
<1> QED BY <1>2, <1>3

\* Two newest copies are one.
LEMMA NewestCopiesEqual ==
  ASSUME GeneralInv, CopiesAgree, NEW i \in Slots, NEW j \in Slots,
         NewestCopy(i), NewestCopy(j)
  PROVE  Copy(i) = Copy(j)
<1>1. /\ Decodes(Copy(i)) /\ Decodes(Copy(j))
      /\ Copy(i).seq <= Copy(j).seq /\ Copy(j).seq <= Copy(i).seq
  BY DEF NewestCopy
<1>2. Copy(i).seq \in Nat /\ Copy(j).seq \in Nat
  BY <1>1, CopyStates
<1>3. Copy(i).seq = Copy(j).seq
  BY <1>1, <1>2
<1> QED BY <1>1, <1>3 DEF CopiesAgree, Slots

\* When a copy can be read one is newest.
LEMMA SomeCopyIsNewest ==
  ASSUME GeneralInv, NEW i \in Slots, Decodes(Copy(i))
  PROVE  \E j \in Slots : NewestCopy(j)
<1>1. \A j \in Slots : Decodes(Copy(j)) => Copy(j).seq \in Nat
  BY CopyStates
<1>2. 1 - i \in Slots /\ \A j \in Slots : j = i \/ j = 1 - i
  BY SlotPair
<1>3. CASE Decodes(Copy(1 - i)) /\ Copy(1 - i).seq > Copy(i).seq
  BY <1>1, <1>2, <1>3 DEF NewestCopy
<1>4. CASE ~(Decodes(Copy(1 - i)) /\ Copy(1 - i).seq > Copy(i).seq)
  BY <1>1, <1>2, <1>4 DEF NewestCopy
<1> QED BY <1>3, <1>4

\* Outside the state writes no copy is between two halves.
LEMMA NotWriting ==
  ASSUME GeneralInv, doing \notin StateWrites \cup CopyWrites
  PROVE  \A i \in Slots : ~Writing(i)
  BY WritingFacts

\* A completed replacement of a state file.
LEMMA ReplacedFacts ==
  ASSUME QuietStep, NEW d \in Slots, CopyReplaced(d)
  PROVE  /\ Copy(d)' = mem /\ Copy(1 - d)' = Copy(1 - d)
         /\ Head(disk'[Sta(d)]) = mem /\ Dest = Sta(d)
         /\ doing \in StateWrites \cup CopyWrites /\ half \in {1, 2}
         /\ doing \in StateWrites => d = mem.seq % 2
         /\ doing \in CopyWrites =>
              d = 1 - (mem.seq % 2) /\ Copy(1 - d) = mem
<1>1. /\ Writing(d) /\ Copy(d)' = disk[Sta(d)][3 - half]
      /\ Head(disk'[Sta(d)]) = Copy(d)' /\ Copy(1 - d)' = Copy(1 - d)
  BY DEF CopyReplaced
<1>2. Copy(d)' = mem
  BY <1>1 DEF QuietStep, Copies, NewEntryIsMem
<1>3. half \in {1, 2} /\ Dest = Sta(d) /\ doing \in StateWrites \cup CopyWrites
  BY <1>1, WritingFacts DEF QuietStep
<1>4. PICK c \in Slots : /\ Dest = Sta(c)
                         /\ doing \in StateWrites => c = mem.seq % 2
                         /\ doing \in CopyWrites => c = 1 - (mem.seq % 2)
  BY <1>3, WritesOfAState DEF QuietStep
<1>5. c = d
  BY <1>3, <1>4, FileNames
<1>6. doing \in CopyWrites => Copy(1 - d) = mem
  <2>1. doing \in CopyWrites => Copy(mem.seq % 2) = mem
    BY DEF QuietStep, Copies, FirstCopyWritten
  <2>2. mem.seq \in Nat
    BY StateFields DEF QuietStep, GeneralInv, Typed
  <2>3. mem.seq % 2 \in Int
    BY <2>2
  <2>4. doing \in CopyWrites => 1 - d = mem.seq % 2
    BY <1>4, <1>5, <2>3
  <2> QED BY <2>1, <2>4
<1> QED BY <1>1, <1>2, <1>3, <1>4, <1>5, <1>6

(* The loader marks the older copy, with a newer sequence or with a torn   *)
(* sector.                                                                 *)
LEMMA MarkedFacts ==
  ASSUME QuietStep, NEW k \in Slots, NEW v \in {ControlValue, Torn},
         CopyMarked(k, v)
  PROVE  /\ NewestCopy(k) /\ Copy(k) = Selected(disk) /\ k = Newest(disk)
         /\ Copy(k)' = Copy(k) /\ Copy(1 - k)' = v
         /\ doing \in {"attempt", "fail"}
         /\ Decodes(v) => v = ControlValue /\ v.seq > Copy(k).seq
         /\ v = ControlValue => Decodes(v) /\ v.seq = Copy(k).seq + 1
<1>1. /\ k = Newest(disk) /\ doing \in {"attempt", "fail"}
      /\ Copy(1 - k)' = v /\ Copy(k)' = Copy(k)
  BY DEF CopyMarked
<1>2. /\ Readable(disk) # {} /\ Decodes(ControlValue)
      /\ ControlValue.seq = Selected(disk).seq + 1
      /\ ControlValue.seq > Selected(disk).seq
  BY <1>1, ControlFacts DEF QuietStep, GeneralInv
<1>3. \A i \in Slots : ~Writing(i)
  BY <1>1, NotWriting DEF QuietStep, StateWrites, CopyWrites
<1>4. NewestCopy(k) /\ Copy(k) = Selected(disk)
  BY <1>1, <1>2, <1>3, ReadCopies DEF QuietStep
<1>5. ~Decodes(Torn)
  BY Factories
<1> QED BY <1>1, <1>2, <1>4, <1>5

\* The three things that may happen to the copies.
LEMMA CopyStep ==
  ASSUME QuietStep
  PROVE  \/ CopiesKept
         \/ \E d \in Slots : CopyReplaced(d)
         \/ \E k \in Slots : \E v \in {ControlValue, Torn} : CopyMarked(k, v)
  BY CopiesNext DEF QuietStep

\* A write of a state that ends without a fault.
LEMMA WriteDone ==
  ASSUME QuietStep, NEW p \in StateWrites \cup CopyWrites, OldEntryDeleted(p)
  PROVE  \E d \in Slots : CopyReplaced(d)
<1>1. /\ GeneralInv /\ doing = p /\ half # 0 /\ half \in {0, 1, 2, NothingOld}
      /\ half' = 0
  BY DEF QuietStep, OldEntryDeleted, GeneralInv, Typed
<1>2. half \in {1, 2}
  BY <1>1 DEF GeneralInv, Halved
<1>3. PICK d \in Slots : Dest = Sta(d)
  BY <1>1, WritesOfAState
<1>4. Writing(d)
  BY <1>2, <1>3 DEF Writing
<1>5. ~PublishEntry
  BY <1>1 DEF PublishEntry
<1> QED BY <1>4, <1>5, Replacing DEF QuietStep

\* A step that is not the end of a write of a state, nor the loader's.
LEMMA KeptOtherwise ==
  ASSUME QuietStep,
         PublishEntry \/ doing \notin StateWrites \cup CopyWrites,
         doing \notin {"attempt", "fail"}
  PROVE  CopiesKept
<1>1. ~\E k \in Slots : \E v \in {ControlValue, Torn} : CopyMarked(k, v)
  BY DEF CopyMarked
<1>2. ASSUME NEW d \in Slots PROVE ~CopyReplaced(d)
  BY WritingNext, WritingFacts DEF CopyReplaced, QuietStep
<1> QED BY <1>1, <1>2, CopyStep

\* Every quiet step preserves NewEntryIsMem.
LEMMA NewEntryIsMemNext ==
  ASSUME QuietStep
  PROVE  NewEntryIsMem'
<1> SUFFICES ASSUME NEW i \in Slots, Writing(i)'
             PROVE  disk'[Sta(i)][3 - half'] = mem'
  BY DEF NewEntryIsMem
<1>1. PublishEntry
  BY WritingNext DEF QuietStep
<1>2. /\ half = 0 /\ ~Writing(i) /\ Dest = Sta(i) /\ half' \in {1, 2}
      /\ doing \in Writes /\ mem' = mem
  BY <1>1, WritingNext DEF QuietStep, Writing, PublishEntry, kernel
<1>3. doing \in StateWrites \cup CopyWrites
  BY <1>2, DestinationKind DEF QuietStep, GeneralInv
<1>4. Content = mem
  BY <1>2, <1>3, Destination DEF QuietStep, GeneralInv
<1>5. Len(disk[Dest]) = 1
  BY <1>2, UndoubledLengths DEF QuietStep
<1>6. /\ half' = 2 => disk'[Dest][1] = Content
      /\ half' = 1 => disk'[Dest][2] = Content
  BY <1>1, <1>5, PublishFacts DEF QuietStep, GeneralInv
<1> QED BY <1>2, <1>4, <1>6

\* Every quiet step preserves CopiesAgree.
LEMMA CopiesAgreeNext ==
  ASSUME QuietStep
  PROVE  CopiesAgree'
<1> DEFINE Agree(a, b) == Decodes(a) /\ Decodes(b) /\ a.seq = b.seq => a = b
<1>0. 0 \in Slots /\ 1 \in Slots
  BY SlotPair
<1>1. Agree(Copy(0), Copy(1))
  BY DEF QuietStep, Copies, CopiesAgree
<1> SUFFICES Agree(Copy(0)', Copy(1)')
  BY DEF CopiesAgree
<1>2. CASE CopiesKept
  BY <1>0, <1>1, <1>2 DEF CopiesKept
<1>3. ASSUME NEW d \in Slots, CopyReplaced(d) PROVE Agree(Copy(d)', Copy(1 - d)')
  <2>1. /\ Copy(d)' = mem /\ Copy(1 - d)' = Copy(1 - d)
        /\ doing \in StateWrites \cup CopyWrites
        /\ doing \in CopyWrites => Copy(1 - d) = mem
    BY <1>3, ReplacedFacts
  <2>2. CASE doing \in CopyWrites
    BY <2>1, <2>2
  <2>3. CASE doing \in StateWrites
    <3>1. doing \in Session
      BY <2>3 DEF StateWrites, Session, PendingPlaces, InitPlaces, CancelPlaces
    <3>2. Decodes(Copy(1 - d)) => Copy(1 - d).seq < mem.seq
      BY <2>3, <3>1, SlotPair DEF QuietStep, Copies, MemIsNewest
    <3>3. Decodes(Copy(1 - d)) => Copy(1 - d).seq \in Nat
      BY SlotPair, CopyStates DEF QuietStep
    <3>4. mem.seq \in Nat
      BY StateFields DEF QuietStep, GeneralInv, Typed
    <3> QED BY <2>1, <3>2, <3>3, <3>4
  <2> QED BY <2>1, <2>2, <2>3
<1>4. ASSUME NEW k \in Slots, NEW v \in {ControlValue, Torn}, CopyMarked(k, v)
      PROVE  Agree(Copy(1 - k)', Copy(k)')
  <2>1. /\ Copy(k)' = Copy(k) /\ Copy(1 - k)' = v /\ Decodes(Copy(k))
        /\ Decodes(v) => v.seq > Copy(k).seq
        /\ Decodes(v) => v.seq = Copy(k).seq + 1
    BY <1>4, MarkedFacts DEF NewestCopy
  <2>2. Copy(k).seq \in Nat
    BY <2>1, CopyStates DEF QuietStep
  <2> QED BY <2>1, <2>2
<1>5. ASSUME NEW d \in Slots, Agree(Copy(d)', Copy(1 - d)')
      PROVE  Agree(Copy(0)', Copy(1)')
  <2>1. CASE d = 0
    BY <1>5, <2>1
  <2>2. CASE d = 1
    BY <1>5, <2>2
  <2> QED BY <2>1, <2>2 DEF Slots
<1>6. ASSUME NEW d \in Slots, Agree(Copy(1 - d)', Copy(d)')
      PROVE  Agree(Copy(0)', Copy(1)')
  <2>1. CASE d = 0
    BY <1>6, <2>1
  <2>2. CASE d = 1
    BY <1>6, <2>2
  <2> QED BY <2>1, <2>2 DEF Slots
<1> QED BY <1>2, <1>3, <1>4, <1>5, <1>6, CopyStep

-----------------------------------------------------------------------------
(* The state in memory is the newest.                                      *)

\* The loader's places are not the kernel's.
LEMMA PlaceNames ==
  /\ \A p \in LoaderPlaces : p \notin Session
  /\ StateWrites \cup CopyWrites \cup {"committed", "confirm", "idle",
       "verified"} \subseteq Session
  /\ Writes \subseteq Session
  /\ \A p \in StateWrites : p \notin CopyWrites
  BY DEF LoaderPlaces, Session, Writes, JournalWrites, StateWrites, CopyWrites,
         StagePlaces, PendingPlaces, InitPlaces, ClearPlaces, CancelPlaces

\* How a step changes the sequence of the state in memory.
MemStep ==
  \/ doing' \in LoaderPlaces
  \/ PublishEntry /\ mem' = mem /\ doing' = doing
  \/ doing \in Session /\ mem'.seq = mem.seq /\ doing' \notin StateWrites
  \/ /\ doing \in {"verified", "confirm", "idle"} /\ mem'.seq = mem.seq + 1
     /\ ~PublishEntry /\ doing' # "republish"
  \/ LoadControls
  \/ CancelFails

\* Every step of the kernel is one of these.
LEMMA MemStepNext ==
  ASSUME GeneralInv, SlotsNext
  PROVE  MemStep
<1> USE DEF StagePlaces, PendingPlaces, InitPlaces, ClearPlaces, CancelPlaces,
       LoaderPlaces, Session, kernel, history, counts
<1> USE DEF GeneralInv
<1>1. CASE PublishEntry
  BY <1>1 DEF PublishEntry, MemStep
<1>2. CASE \E i \in Images : Stage(i)
  <2>1. doing \in Session /\ mem' = mem /\ doing' \notin StateWrites
    BY <1>2 DEF Stage, StateWrites
  <2> QED BY <2>1 DEF MemStep
<1>3. CASE JournalPrepared
  <2>1. doing \in Session /\ mem' = mem /\ doing' \notin StateWrites
    BY <1>3 DEF JournalPrepared, Succeeds, OldEntryDeleted, StateWrites
  <2> QED BY <2>1 DEF MemStep
<1>4. CASE PrepareFails
  <2>1. doing \in Session /\ mem' = mem /\ doing' \notin StateWrites
    BY <1>4 DEF PrepareFails, WriteFails, DiskError, Return, StateWrites
  <2> QED BY <2>1 DEF MemStep
<1>5. CASE JournalStaging
  <2>1. doing \in Session /\ mem' = mem /\ doing' \notin StateWrites
    BY <1>5 DEF JournalStaging, Succeeds, OldEntryDeleted, StateWrites
  <2> QED BY <2>1 DEF MemStep
<1>6. CASE WriterBegin
  <2>1. doing \in Session /\ mem' = mem /\ doing' \notin StateWrites
    BY <1>6 DEF WriterBegin, StateWrites
  <2> QED BY <2>1 DEF MemStep
<1>7. CASE WriterEnd
  <2>1. doing \in Session /\ mem' = mem /\ doing' \notin StateWrites
    BY <1>7 DEF WriterEnd, StateWrites
  <2> QED BY <2>1 DEF MemStep
<1>8. CASE WriterCancel
  <2>1. doing \in Session /\ mem' = mem /\ doing' \notin StateWrites
    BY <1>8 DEF WriterCancel, StateWrites
  <2> QED BY <2>1 DEF MemStep
<1>9. CASE WriterFails
  <2>1. doing \in Session /\ mem' = mem /\ doing' \notin StateWrites
    BY <1>9 DEF WriterFails, WriteFails, DiskError, StateWrites
  <2> QED BY <2>1 DEF MemStep
<1>10. CASE SlotPublished
  <2>1. doing \in Session /\ mem' = mem /\ doing' \notin StateWrites
    BY <1>10 DEF SlotPublished, Succeeds, OldEntryDeleted, StateWrites
  <2> QED BY <2>1 DEF MemStep
<1>11. CASE WriterFinish
  <2>1. doing \in Session /\ mem' = mem /\ doing' \notin StateWrites
    BY <1>11 DEF WriterFinish, Return, StateWrites
  <2> QED BY <2>1 DEF MemStep
<1>12. CASE JournalVerified
  <2>1. /\ doing = "verified" /\ half # 0 /\ doing' # "republish"
        /\ mem' = WithPending(mem, mj.target, mj.image)
        /\ mj.target \in Slots /\ mj.image \in Images /\ mem \in States
    BY <1>12, PhaseNames
       DEF JournalVerified, Succeeds, OldEntryDeleted, Typed, Placed
  <2>2. mem'.seq = mem.seq + 1
    BY <2>1, WithPendingFields
  <2> QED BY <2>1, <2>2 DEF MemStep, PublishEntry
<1>13. CASE StagedNotPublished
  <2>1. doing \in Session /\ mem' = mem /\ doing' \notin StateWrites
    BY <1>13
       DEF StagedNotPublished, Fails, WriteFails, DiskError, OldEntryDeleted,
           Return, StateWrites
  <2> QED BY <2>1 DEF MemStep
<1>14. CASE PendingWritten
  <2>1. doing \in Session /\ mem' = mem /\ doing' \notin StateWrites
    BY <1>14 DEF PendingWritten, Succeeds, OldEntryDeleted, StateWrites
  <2> QED BY <2>1 DEF MemStep
<1>15. CASE JournalCommitted
  <2>1. doing \in Session /\ mem' = mem /\ doing' \notin StateWrites
    BY <1>15 DEF JournalCommitted, Succeeds, OldEntryDeleted, StateWrites
  <2> QED BY <2>1 DEF MemStep
<1>16. CASE Replicated
  <2>1. doing \in Session /\ mem' = mem /\ doing' \notin StateWrites
    BY <1>16 DEF Replicated, Succeeds, OldEntryDeleted, StateWrites
  <2> QED BY <2>1 DEF MemStep
<1>17. CASE CommitFails
  <2>1. /\ doing \in Session /\ mem' = [mem EXCEPT !.recovery = TRUE]
        /\ doing' \notin StateWrites
    BY <1>17
       DEF CommitFails, Fails, WriteFails, DiskError, OldEntryDeleted, Return,
           StateWrites
  <2>2. mem'.seq = mem.seq
    BY <2>1, FlaggedFields DEF Typed
  <2> QED BY <2>1, <2>2 DEF MemStep
<1>18. CASE AbortStaging
  <2>1. doing \in Session /\ mem' = mem /\ doing' \notin StateWrites
    BY <1>18 DEF AbortStaging, DiskError, StateWrites
  <2> QED BY <2>1 DEF MemStep
<1>19. CASE ClearFirst
  <2>1. doing \in Session /\ mem' = mem /\ doing' \notin StateWrites
    BY <1>19 DEF ClearFirst, DiskError, StateWrites
  <2> QED BY <2>1 DEF MemStep
<1>20. CASE ClearSecond
  <2>1. doing \in Session /\ doing' \notin StateWrites
    BY <1>20 DEF ClearSecond, Return, StateWrites
  <2>2. mem'.seq = mem.seq
    BY <1>20, ClearSecondFacts
  <2> QED BY <2>1, <2>2 DEF MemStep
<1>21. CASE LoadControls
  BY <1>21 DEF MemStep
<1>22. CASE Republished
  <2>1. doing \in Session /\ mem' = mem /\ doing' \notin StateWrites
    BY <1>22 DEF Republished, Succeeds, OldEntryDeleted, StateWrites
  <2> QED BY <2>1 DEF MemStep
<1>23. CASE DiscardTarget
  <2>1. doing \in Session /\ mem' = mem /\ doing' \notin StateWrites
    BY <1>23 DEF DiscardTarget, StateWrites
  <2> QED BY <2>1 DEF MemStep
<1>24. CASE Unstage
  <2>1. doing \in Session /\ mem' = mem /\ doing' \notin StateWrites
    BY <1>24 DEF Unstage, StateWrites
  <2> QED BY <2>1 DEF MemStep
<1>25. CASE RecoveryFails
  <2>1. /\ doing \in Session /\ mem' = [mem EXCEPT !.recovery = TRUE]
        /\ doing' \notin StateWrites
    BY <1>25
       DEF RecoveryFails, Fails, WriteFails, DiskError, OldEntryDeleted,
           StateWrites
  <2>2. mem'.seq = mem.seq
    BY <2>1, FlaggedFields DEF Typed
  <2> QED BY <2>1, <2>2 DEF MemStep
<1>26. CASE Examine
  <2>1. doing \in Session /\ doing' \notin StateWrites
    BY <1>26 DEF Examine, Return, StateWrites
  <2>2. mem'.seq = mem.seq
    BY <1>26, ExamineFacts
  <2> QED BY <2>1, <2>2 DEF MemStep
<1>27. CASE BootConfirm
  <2>1. CASE HandoffMatches
    <3>1. /\ doing = "confirm" /\ mem' = Promotion /\ mem \in States
          /\ doing' # "republish"
          /\ run.handoff.valid = TRUE /\ mem.attempt = run.handoff.attempt
      BY <1>27, <2>1, HandoffTyped DEF BootConfirm, HandoffMatches, Typed
    <3>2. mem.attempt \in Slots
      BY <3>1 DEF InLoader
    <3>3. mem'.seq = mem.seq + 1
      BY <3>1, <3>2, PromotionFields
    <3> QED BY <3>1, <3>3
               DEF MemStep, PublishEntry, Writes, JournalWrites, StateWrites,
                   CopyWrites
  <2>2. CASE ~HandoffMatches
    <3>1. doing \in Session /\ mem' = mem /\ doing' \notin StateWrites
      BY <1>27, <2>2 DEF BootConfirm, Return, StateWrites
    <3> QED BY <3>1 DEF MemStep
  <2> QED BY <2>1, <2>2
<1>28. CASE Promoted
  <2>1. doing \in Session /\ mem' = mem /\ doing' \notin StateWrites
    BY <1>28 DEF Promoted, Succeeds, OldEntryDeleted, Return, StateWrites
  <2> QED BY <2>1 DEF MemStep
<1>29. CASE PromoteFails
  <2>1. doing \in Session /\ mem' = mem /\ doing' \notin StateWrites
    BY <1>29
       DEF PromoteFails, Fails, WriteFails, DiskError, OldEntryDeleted,
           Return, StateWrites
  <2> QED BY <2>1 DEF MemStep
<1>30. CASE CancelPending
  <2>1. /\ doing = "idle" /\ mem' = Cancellation /\ mem \in States
        /\ doing' # "republish"
    BY <1>30 DEF CancelPending, Cancellation, Typed
  <2>2. mem'.seq = mem.seq + 1
    BY <2>1, CancellationFields
  <2> QED BY <2>1, <2>2
             DEF MemStep, PublishEntry, Writes, JournalWrites, StateWrites,
                 CopyWrites
<1>31. CASE Withdrawn
  <2>1. doing \in Session /\ mem' = mem /\ doing' \notin StateWrites
    BY <1>31 DEF Withdrawn, Succeeds, OldEntryDeleted, StateWrites
  <2> QED BY <2>1 DEF MemStep
<1>32. CASE Cancelled
  <2>1. doing \in Session /\ mem' = mem /\ doing' \notin StateWrites
    BY <1>32 DEF Cancelled, Succeeds, OldEntryDeleted, Return, StateWrites
  <2> QED BY <2>1 DEF MemStep
<1>33. CASE CancelFails
  BY <1>33 DEF MemStep
<1>34. CASE LoaderChoice
  BY <1>34, LoaderChoiceFacts DEF MemStep
<1>35. CASE AttemptWritten
  BY <1>35 DEF AttemptWritten, MemStep
<1>36. CASE FailureWritten
  BY <1>36 DEF FailureWritten, MemStep
<1>37. CASE ControlWriteFails
  BY <1>37 DEF ControlWriteFails, MemStep
<1>38. CASE KernelStarts
  BY <1>38 DEF KernelStarts, MemStep
<1>39. CASE MenuLegacy
  BY <1>39 DEF MenuLegacy, MemStep
<1>40. CASE RebootIntoCandidate
  BY <1>40 DEF RebootIntoCandidate, PowerOn, MemStep
<1>41. CASE Restart
  BY <1>41 DEF Restart, PowerOn, MemStep
<1>42. CASE PowerCut
  BY <1>42 DEF PowerCut, PowerOn, MemStep
<1>43. CASE LoaderPowerCut
  BY <1>43 DEF LoaderPowerCut, PowerOn, MemStep
<1> QED
  BY <1>1, <1>2, <1>3, <1>4, <1>5, <1>6, <1>7, <1>8, <1>9, <1>10, <1>11,
     <1>12, <1>13, <1>14, <1>15, <1>16, <1>17, <1>18, <1>19, <1>20, <1>21,
     <1>22, <1>23, <1>24, <1>25, <1>26, <1>27, <1>28, <1>29, <1>30, <1>31,
     <1>32, <1>33, <1>34, <1>35, <1>36, <1>37, <1>38, <1>39, <1>40, <1>41,
     <1>42, <1>43
     DEF SlotsNext, KernelStep, LoaderStep, LoaderChoice

\* In a session no copy outruns the state in memory.
LEMMA CopiesBehind ==
  ASSUME QuietStep, doing \in Session, NEW i \in Slots, Decodes(Copy(i)')
  PROVE  /\ Copy(i)'.seq <= mem.seq
         /\ CopiesKept /\ doing \in StateWrites => Copy(i)'.seq < mem.seq
<1>1. Decodes(Copy(i)) =>
        /\ Copy(i).seq <= mem.seq
        /\ doing \in StateWrites => Copy(i).seq < mem.seq
  BY DEF QuietStep, Copies, MemIsNewest
<1>2. mem.seq \in Nat
  BY StateFields DEF QuietStep, GeneralInv, Typed
<1>3. CASE CopiesKept
  BY <1>1, <1>3 DEF CopiesKept
<1>4. ASSUME NEW d \in Slots, CopyReplaced(d) PROVE Copy(i)'.seq <= mem.seq
  <2>1. Copy(d)' = mem /\ Copy(1 - d)' = Copy(1 - d)
    BY <1>4, ReplacedFacts
  <2>2. i = d \/ i = 1 - d
    BY SlotPair
  <2> QED BY <1>1, <1>2, <2>1, <2>2
<1>5. ~\E k \in Slots : \E v \in {ControlValue, Torn} : CopyMarked(k, v)
  <2>1. doing \notin {"attempt", "fail"}
    BY PlaceNames DEF LoaderPlaces
  <2> QED BY <2>1 DEF CopyMarked
<1> QED BY <1>1, <1>3, <1>4, <1>5, CopyStep

(* The sequence of what the kernel loads: one more when the pending state  *)
(* is published again.                                                     *)
LEMMA LoadedSeq ==
  ASSUME GeneralInv, LoadControls
  PROVE  LET s == LoadedState(disk)
         IN /\ s \in States /\ s.seq \in Nat
            /\ doing' = "republish" => mem'.seq = s.seq + 1
            /\ doing' # "republish" => mem'.seq = s.seq /\ doing' \notin StateWrites
<1> DEFINE s == LoadedState(disk)
<1>1. s \in States /\ s.seq \in Nat
  BY LoadedFacts, StateFields DEF GeneralInv, Typed
<1>2. \/ mem' = s /\ doing' \in {"examine", "discard", "unstage"}
      \/ /\ doing' = "republish" /\ mj' \in WrittenJournals
         /\ mem' = WithPending(s, mj'.target, mj'.image)
      \/ doing' = "examine" /\ mem' = [s EXCEPT !.recovery = TRUE]
  BY LoadControlsFacts DEF GeneralInv
<1> HIDE DEF s
<1>3. CASE mem' = s /\ doing' \in {"examine", "discard", "unstage"}
  BY <1>1, <1>3 DEF s, StateWrites
<1>4. CASE /\ doing' = "republish" /\ mj' \in WrittenJournals
           /\ mem' = WithPending(s, mj'.target, mj'.image)
  <2>1. mem'.seq = s.seq + 1
    BY <1>1, <1>4, PhaseNames, WithPendingFields
  <2> QED BY <1>1, <1>4, <2>1 DEF s
<1>5. CASE doing' = "examine" /\ mem' = [s EXCEPT !.recovery = TRUE]
  <2>1. mem'.seq = s.seq
    BY <1>1, <1>5, FlaggedFields
  <2> QED BY <1>1, <1>5, <2>1 DEF s, StateWrites
<1> QED BY <1>2, <1>3, <1>4, <1>5

\* What the kernel loads is at least as new as each copy.
LEMMA LoadedIsNewest ==
  ASSUME GeneralInv, \A i \in Slots : ~Writing(i), NEW i \in Slots,
         Decodes(Copy(i))
  PROVE  /\ Copy(i).seq <= LoadedState(disk).seq
         /\ \E k \in Slots : NewestCopy(k) /\ LoadedState(disk) = Copy(k)
<1>1. Readable(disk) # {} /\ Newest(disk) \in Slots /\ NewestCopy(Newest(disk))
      /\ Selected(disk) = Copy(Newest(disk))
  BY ReadCopies
<1>2. LoadedState(disk) = Copy(Newest(disk))
  BY <1>1 DEF LoadedState
<1> QED BY <1>1, <1>2 DEF NewestCopy

\* The same of the state after a step.
LEMMA CopySeqAfter ==
  ASSUME NEW i \in Slots
  PROVE  GeneralInv' /\ Decodes(Copy(i)') => Copy(i)'.seq \in Nat
<1>1. GeneralInv /\ Decodes(Copy(i)) => Copy(i).seq \in Nat
  BY CopyStates
<1>2. (GeneralInv /\ Decodes(Copy(i)) => Copy(i).seq \in Nat)'
  BY <1>1, PTL
<1> QED BY <1>2

\* LoadedIsNewest, of the state after a step.
LEMMA LoadedAfter ==
  ASSUME NEW i \in Slots
  PROVE  GeneralInv' /\ (\A j \in Slots : ~Writing(j)') /\ Decodes(Copy(i)') =>
           Copy(i)'.seq <= LoadedState(disk').seq
<1>1. GeneralInv /\ (\A j \in Slots : ~Writing(j)) /\ Decodes(Copy(i)) =>
        Copy(i).seq <= LoadedState(disk).seq
  BY LoadedIsNewest
<1>2. (GeneralInv /\ (\A j \in Slots : ~Writing(j)) /\ Decodes(Copy(i)) =>
        Copy(i).seq <= LoadedState(disk).seq)'
  BY <1>1, PTL
<1> QED BY <1>2

\* Every quiet step preserves MemIsNewest.
LEMMA MemIsNewestNext ==
  ASSUME QuietStep
  PROVE  MemIsNewest'
<1> SUFFICES ASSUME doing' \in Session, NEW i \in Slots, Decodes(Copy(i)')
             PROVE  /\ Copy(i)'.seq <= mem'.seq
                    /\ doing' \in StateWrites => Copy(i)'.seq < mem'.seq
  BY DEF MemIsNewest
<1> USE DEF QuietStep
<1>0. /\ Copy(i)'.seq \in Nat /\ mem.seq \in Nat /\ mem'.seq \in Nat
  <2>1. Copy(i)'.seq \in Nat
    BY CopySeqAfter
  <2> QED BY <2>1, StateFields DEF GeneralInv, Typed
<1>1. CASE doing' \in LoaderPlaces
  BY <1>1, PlaceNames
<1>2. CASE PublishEntry /\ mem' = mem /\ doing' = doing
  <2>1. doing \notin {"attempt", "fail"}
    BY <1>2, PlaceNames DEF LoaderPlaces
  <2>2. CopiesKept
    BY <1>2, <2>1, KeptOtherwise
  <2> QED BY <1>2, <2>2, CopiesBehind
<1>3. CASE doing \in Session /\ mem'.seq = mem.seq /\ doing' \notin StateWrites
  BY <1>3, CopiesBehind
<1>4. CASE /\ doing \in {"verified", "confirm", "idle"}
           /\ mem'.seq = mem.seq + 1 /\ ~PublishEntry /\ doing' # "republish"
  <2>1. Copy(i)'.seq <= mem.seq
    BY <1>4, CopiesBehind, PlaceNames
  <2> QED BY <1>0, <1>4, <2>1
<1>5. CASE LoadControls
  <2>1. /\ doing = "load" /\ doing \notin StateWrites \cup CopyWrites
        /\ doing \notin {"attempt", "fail"}
    BY <1>5 DEF LoadControls, StateWrites, CopyWrites
  <2>2. CopiesKept /\ \A j \in Slots : ~Writing(j)
    BY <2>1, KeptOtherwise, NotWriting
  <2>3. Copy(i)' = Copy(i)
    BY <2>2 DEF CopiesKept
  <2>4. Copy(i).seq <= LoadedState(disk).seq
    BY <2>2, <2>3, LoadedIsNewest
  <2> QED BY <1>0, <1>5, <2>3, <2>4, LoadedSeq
<1>6. CASE CancelFails
  <2>1. mem' = LoadedState(disk') /\ doing' = "idle"
    BY <1>6 DEF CancelFails, Return
  <2>2. \A j \in Slots : ~Writing(j)'
    BY <1>6, WritingNext
       DEF CancelFails, Return, PublishEntry, Fails, WriteFails,
                   OldEntryDeleted, Writing
  <2>3. Copy(i)'.seq <= LoadedState(disk').seq
    BY <2>2, LoadedAfter
  <2> QED BY <2>1, <2>3 DEF StateWrites
<1> QED BY <1>1, <1>2, <1>3, <1>4, <1>5, <1>6, MemStepNext
     DEF MemStep

-----------------------------------------------------------------------------
(* What is written can be read.                                            *)

\* Every quiet step preserves FirstCopyWritten.
LEMMA FirstCopyWrittenNext ==
  ASSUME QuietStep
  PROVE  FirstCopyWritten'
<1> USE DEF Return, PowerOn, kernel, CopyWrites, Succeeds, OldEntryDeleted
<1> SUFFICES ASSUME doing' \in CopyWrites \cup {"committed"}
             PROVE  (Copy(mem.seq % 2) = mem)'
  BY DEF FirstCopyWritten
<1> USE DEF QuietStep, GeneralInv
<1>0. mem.seq \in Nat
  BY StateFields DEF Typed
<1>k. PICK k \in Slots : k = mem.seq % 2
  BY <1>0 DEF Slots
<1>q. ASSUME mem' = mem, Copy(k)' = mem PROVE (Copy(mem.seq % 2) = mem)'
  BY <1>k, <1>q DEF Copy, Writing
<1>1. \/ PublishEntry /\ doing' = doing /\ mem' = mem
      \/ JournalCommitted /\ doing = "committed" /\ mem' = mem
      \/ PendingWritten \/ Withdrawn
  <2>1. CASE PublishEntry
    BY <2>1 DEF PublishEntry
  <2>2. CASE \E i \in Images : Stage(i)
    BY <2>2 DEF Stage
  <2>3. CASE JournalPrepared
    BY <2>3 DEF JournalPrepared
  <2>4. CASE PrepareFails
    BY <2>4 DEF PrepareFails
  <2>5. CASE JournalStaging
    BY <2>5 DEF JournalStaging
  <2>6. CASE WriterBegin
    BY <2>6 DEF WriterBegin
  <2>7. CASE WriterEnd
    BY <2>7 DEF WriterEnd
  <2>8. CASE WriterCancel
    BY <2>8 DEF WriterCancel
  <2>9. CASE WriterFails
    BY <2>9 DEF WriterFails
  <2>10. CASE SlotPublished
    BY <2>10 DEF SlotPublished
  <2>11. CASE WriterFinish
    BY <2>11 DEF WriterFinish
  <2>12. CASE JournalVerified
    BY <2>12 DEF JournalVerified
  <2>13. CASE StagedNotPublished
    BY <2>13 DEF StagedNotPublished
  <2>14. CASE PendingWritten
    BY <2>14 DEF PendingWritten
  <2>15. CASE JournalCommitted
    BY <2>15 DEF JournalCommitted
  <2>16. CASE Replicated
    BY <2>16 DEF Replicated
  <2>17. CASE CommitFails
    BY <2>17 DEF CommitFails
  <2>18. CASE AbortStaging
    BY <2>18 DEF AbortStaging
  <2>19. CASE ClearFirst
    BY <2>19 DEF ClearFirst
  <2>20. CASE ClearSecond
    BY <2>20 DEF ClearSecond
  <2>21. CASE LoadControls
    BY <2>21, LoadControlsFacts DEF PendingPlaces, CancelPlaces
  <2>22. CASE Republished
    BY <2>22 DEF Republished
  <2>23. CASE DiscardTarget
    BY <2>23 DEF DiscardTarget
  <2>24. CASE Unstage
    BY <2>24 DEF Unstage
  <2>25. CASE RecoveryFails
    BY <2>25 DEF RecoveryFails
  <2>26. CASE Examine
    BY <2>26 DEF Examine
  <2>27. CASE BootConfirm
    BY <2>27 DEF BootConfirm
  <2>28. CASE Promoted
    BY <2>28 DEF Promoted
  <2>29. CASE PromoteFails
    BY <2>29 DEF PromoteFails
  <2>30. CASE CancelPending
    BY <2>30 DEF CancelPending
  <2>31. CASE Withdrawn
    BY <2>31 DEF Withdrawn
  <2>32. CASE Cancelled
    BY <2>32 DEF Cancelled
  <2>33. CASE CancelFails
    BY <2>33 DEF CancelFails
  <2>34. CASE LoaderChoice
    BY <2>34, LoaderChoiceFacts DEF PendingPlaces, CancelPlaces
  <2>35. CASE AttemptWritten
    BY <2>35 DEF AttemptWritten
  <2>36. CASE FailureWritten
    BY <2>36 DEF FailureWritten
  <2>37. CASE ControlWriteFails
    BY <2>37 DEF ControlWriteFails
  <2>38. CASE KernelStarts
    BY <2>38 DEF KernelStarts
  <2>39. CASE MenuLegacy
    BY <2>39 DEF MenuLegacy
  <2>40. CASE RebootIntoCandidate
    BY <2>40 DEF RebootIntoCandidate
  <2>41. CASE Restart
    BY <2>41 DEF Restart
  <2>42. CASE PowerCut
    BY <2>42 DEF PowerCut
  <2>43. CASE LoaderPowerCut
    BY <2>43 DEF LoaderPowerCut
  <2> QED
    BY <2>1, <2>2, <2>3, <2>4, <2>5, <2>6, <2>7, <2>8, <2>9, <2>10, <2>11,
       <2>12, <2>13, <2>14, <2>15, <2>16, <2>17, <2>18, <2>19, <2>20, <2>21,
       <2>22, <2>23, <2>24, <2>25, <2>26, <2>27, <2>28, <2>29, <2>30, <2>31,
       <2>32, <2>33, <2>34, <2>35, <2>36, <2>37, <2>38, <2>39, <2>40, <2>41,
       <2>42, <2>43
       DEF SlotsNext, KernelStep, LoaderStep, LoaderChoice
<1>2. CASE \/ PublishEntry /\ doing' = doing /\ mem' = mem
           \/ JournalCommitted /\ doing = "committed" /\ mem' = mem
  <2>1. Copy(k) = mem
    BY <1>2, <1>k DEF Copies, FirstCopyWritten
  <2>2. CopiesKept
    BY <1>2, KeptOtherwise DEF StateWrites
  <2> QED BY <1>2, <1>q, <2>1, <2>2 DEF CopiesKept
<1>3. CASE PendingWritten \/ Withdrawn
  <2>1. PICK p \in {"pending", "withdraw"} : OldEntryDeleted(p) /\ mem' = mem
    BY <1>3 DEF PendingWritten, Withdrawn
  <2>2. PICK d \in Slots : CopyReplaced(d)
    BY <2>1, WriteDone DEF StateWrites
  <2>3. doing \in StateWrites
    BY <2>1 DEF StateWrites
  <2>4. Copy(d)' = mem /\ d = mem.seq % 2
    BY <2>2, <2>3, ReplacedFacts
  <2> QED BY <1>k, <1>q, <2>1, <2>4
<1> QED BY <1>1, <1>2, <1>3

\* A readable state in memory, or one that waits for the journal.
MemReads(m, b, j, p) ==
  b = FALSE => Decodes(m)
               \/ (j # NoJournal /\ p \in {"republish", "examine", "idle"})

\* Where no journal excuses it the state in memory decodes.
LEMMA ReadsBecause ==
  ASSUME MemDecodes, doing \in Session, bad = FALSE,
         doing \notin {"republish", "examine", "idle"} \/ mj = NoJournal
  PROVE  Decodes(mem)
  BY DEF MemDecodes

\* A state about to be written, or written, can be read back.
LEMMA WrittenDecodes ==
  ASSUME QuietStep, doing' \in PendingPlaces \cup CancelPlaces \cup {"promote"}
  PROVE  Decodes(mem')
<1> USE DEF Return, PowerOn, kernel, PendingPlaces, CancelPlaces, Succeeds,
       OldEntryDeleted
<1> USE DEF QuietStep, GeneralInv
<1>1. \/ /\ PublishEntry \/ PendingWritten \/ JournalCommitted \/ Withdrawn
         /\ mem' = mem
         /\ doing \in PendingPlaces \cup CancelPlaces \cup {"promote"}
      \/ JournalVerified \/ CancelPending
      \/ BootConfirm /\ HandoffMatches
  <2>1. CASE PublishEntry
    BY <2>1 DEF PublishEntry
  <2>2. CASE \E i \in Images : Stage(i)
    BY <2>2 DEF Stage
  <2>3. CASE JournalPrepared
    BY <2>3 DEF JournalPrepared
  <2>4. CASE PrepareFails
    BY <2>4 DEF PrepareFails
  <2>5. CASE JournalStaging
    BY <2>5 DEF JournalStaging
  <2>6. CASE WriterBegin
    BY <2>6 DEF WriterBegin
  <2>7. CASE WriterEnd
    BY <2>7 DEF WriterEnd
  <2>8. CASE WriterCancel
    BY <2>8 DEF WriterCancel
  <2>9. CASE WriterFails
    BY <2>9 DEF WriterFails
  <2>10. CASE SlotPublished
    BY <2>10 DEF SlotPublished
  <2>11. CASE WriterFinish
    BY <2>11 DEF WriterFinish
  <2>12. CASE JournalVerified
    BY <2>12 DEF JournalVerified
  <2>13. CASE StagedNotPublished
    BY <2>13 DEF StagedNotPublished
  <2>14. CASE PendingWritten
    BY <2>14 DEF PendingWritten
  <2>15. CASE JournalCommitted
    BY <2>15 DEF JournalCommitted
  <2>16. CASE Replicated
    BY <2>16 DEF Replicated
  <2>17. CASE CommitFails
    BY <2>17 DEF CommitFails
  <2>18. CASE AbortStaging
    BY <2>18 DEF AbortStaging
  <2>19. CASE ClearFirst
    BY <2>19 DEF ClearFirst
  <2>20. CASE ClearSecond
    BY <2>20 DEF ClearSecond
  <2>21. CASE LoadControls
    BY <2>21, LoadControlsFacts DEF CopyWrites
  <2>22. CASE Republished
    BY <2>22 DEF Republished
  <2>23. CASE DiscardTarget
    BY <2>23 DEF DiscardTarget
  <2>24. CASE Unstage
    BY <2>24 DEF Unstage
  <2>25. CASE RecoveryFails
    BY <2>25 DEF RecoveryFails
  <2>26. CASE Examine
    BY <2>26 DEF Examine
  <2>27. CASE BootConfirm
    BY <2>27 DEF BootConfirm
  <2>28. CASE Promoted
    BY <2>28 DEF Promoted
  <2>29. CASE PromoteFails
    BY <2>29 DEF PromoteFails
  <2>30. CASE CancelPending
    BY <2>30 DEF CancelPending
  <2>31. CASE Withdrawn
    BY <2>31 DEF Withdrawn
  <2>32. CASE Cancelled
    BY <2>32 DEF Cancelled
  <2>33. CASE CancelFails
    BY <2>33 DEF CancelFails
  <2>34. CASE LoaderChoice
    BY <2>34, LoaderChoiceFacts DEF CopyWrites
  <2>35. CASE AttemptWritten
    BY <2>35 DEF AttemptWritten
  <2>36. CASE FailureWritten
    BY <2>36 DEF FailureWritten
  <2>37. CASE ControlWriteFails
    BY <2>37 DEF ControlWriteFails
  <2>38. CASE KernelStarts
    BY <2>38 DEF KernelStarts
  <2>39. CASE MenuLegacy
    BY <2>39 DEF MenuLegacy
  <2>40. CASE RebootIntoCandidate
    BY <2>40 DEF RebootIntoCandidate
  <2>41. CASE Restart
    BY <2>41 DEF Restart
  <2>42. CASE PowerCut
    BY <2>42 DEF PowerCut
  <2>43. CASE LoaderPowerCut
    BY <2>43 DEF LoaderPowerCut
  <2> QED
    BY <2>1, <2>2, <2>3, <2>4, <2>5, <2>6, <2>7, <2>8, <2>9, <2>10, <2>11,
       <2>12, <2>13, <2>14, <2>15, <2>16, <2>17, <2>18, <2>19, <2>20, <2>21,
       <2>22, <2>23, <2>24, <2>25, <2>26, <2>27, <2>28, <2>29, <2>30, <2>31,
       <2>32, <2>33, <2>34, <2>35, <2>36, <2>37, <2>38, <2>39, <2>40, <2>41,
       <2>42, <2>43
       DEF SlotsNext, KernelStep, LoaderStep, LoaderChoice
<1>2. CASE /\ mem' = mem
           /\ doing \in PendingPlaces \cup CancelPlaces \cup {"promote"}
  BY <1>2 DEF Copies, MemDecodes
<1>3. CASE JournalVerified
  <2>1. /\ doing = "verified" /\ mem' = WithPending(mem, mj.target, mj.image)
    BY <1>3 DEF JournalVerified
  <2>2. /\ mj.target \in Slots /\ mj.image \in Images /\ mem \in States
        /\ mj.target = 1 - mem.active /\ mem.rec[mem.active] > 0
    BY <2>1, PhaseNames DEF Typed, Placed, Staged, StagePlaces
  <2>3. mj.target # mem.active
    BY <2>2, SlotPair, StateFields
  <2> QED BY <2>1, <2>2, <2>3, WithPendingFields
<1>4. CASE CancelPending
  <2>1. /\ doing = "idle" /\ bad = FALSE /\ mj = NoJournal
        /\ mem' = Cancellation /\ mem \in States
    BY <1>4, NoPhaseIsNoJournal DEF CancelPending, Cancellation, Typed
  <2>2. Decodes(mem)
    BY <2>1, PlaceNames, ReadsBecause DEF Copies
  <2> QED BY <2>1, <2>2, CancellationFields
<1>5. CASE BootConfirm /\ HandoffMatches
  <2>1. /\ doing = "confirm" /\ mem' = Promotion /\ mem \in States
        /\ run.handoff.valid = TRUE /\ mem.attempt = run.handoff.attempt
        /\ bad = FALSE /\ mem.boot = "ATTEMPTED"
    BY <1>5, HandoffTyped DEF BootConfirm, HandoffMatches, Typed, Placed
  <2>2. mem.attempt \in Slots /\ mem.rec[mem.attempt] > 0
    BY <2>1 DEF Entries
  <2>3. Decodes(mem)
    BY <2>1, PlaceNames, ReadsBecause DEF Copies
  <2> QED BY <2>1, <2>2, <2>3, PromotionFields
<1> QED BY <1>1, <1>2, <1>3, <1>4, <1>5

\* Every quiet step preserves MemReads.
LEMMA MemReadsNext ==
  ASSUME QuietStep
  PROVE  doing' \in Session => MemReads(mem', bad', mj', doing')
<1> USE DEF StagePlaces, PendingPlaces, InitPlaces, ClearPlaces, CancelPlaces,
       LoaderPlaces, Session, kernel, history, counts
<1>b. GeneralInv
  BY DEF QuietStep
<1>a. doing' \in PendingPlaces \cup CancelPlaces \cup {"promote"} =>
        Decodes(mem')
  BY WrittenDecodes
<1>c. Typed /\ Placed /\ Staged /\ InLoader
  BY <1>b DEF GeneralInv
<1> USE <1>b, <1>c
<1> SUFFICES ASSUME doing' \in Session PROVE MemReads(mem', bad', mj', doing')
  OBVIOUS
<1>1. CASE PublishEntry
  <2>1. /\ doing \in Session /\ mem' = mem /\ bad' = bad /\ mj' = mj
        /\ doing' = doing
    BY <1>1, PlaceNames DEF PublishEntry
  <2> QED BY <2>1 DEF MemReads, MemDecodes, QuietStep, Copies
<1>2. CASE \E i \in Images : Stage(i)
  <2>1. doing = "idle" /\ mem' = mem /\ bad' = bad /\ mj = NoJournal
    BY <1>2, NoPhaseIsNoJournal DEF Stage
  <2> QED BY <2>1, PlaceNames, ReadsBecause DEF MemReads, QuietStep, Copies
<1>3. CASE JournalPrepared
  <2>1. /\ doing \in Session /\ mem' = mem /\ bad' = bad
        /\ doing \notin {"republish", "examine", "idle"}
    BY <1>3 DEF JournalPrepared, Succeeds, OldEntryDeleted
  <2> QED BY <2>1, ReadsBecause DEF MemReads, QuietStep, Copies
<1>4. CASE PrepareFails
  <2>1. /\ doing \in Session /\ mem' = mem /\ bad' = bad
        /\ doing \notin {"republish", "examine", "idle"}
    BY <1>4 DEF PrepareFails, WriteFails, DiskError, Return
  <2> QED BY <2>1, ReadsBecause DEF MemReads, QuietStep, Copies
<1>5. CASE JournalStaging
  <2>1. /\ doing \in Session /\ mem' = mem /\ bad' = bad
        /\ doing \notin {"republish", "examine", "idle"}
    BY <1>5 DEF JournalStaging, Succeeds, OldEntryDeleted
  <2> QED BY <2>1, ReadsBecause DEF MemReads, QuietStep, Copies
<1>6. CASE WriterBegin
  <2>1. /\ doing \in Session /\ mem' = mem /\ bad' = bad
        /\ doing \notin {"republish", "examine", "idle"}
    BY <1>6 DEF WriterBegin
  <2> QED BY <2>1, ReadsBecause DEF MemReads, QuietStep, Copies
<1>7. CASE WriterEnd
  <2>1. /\ doing \in Session /\ mem' = mem /\ bad' = bad
        /\ doing \notin {"republish", "examine", "idle"}
    BY <1>7 DEF WriterEnd
  <2> QED BY <2>1, ReadsBecause DEF MemReads, QuietStep, Copies
<1>8. CASE WriterCancel
  <2>1. /\ doing \in Session /\ mem' = mem /\ bad' = bad
        /\ doing \notin {"republish", "examine", "idle"}
    BY <1>8 DEF WriterCancel
  <2> QED BY <2>1, ReadsBecause DEF MemReads, QuietStep, Copies
<1>9. CASE WriterFails
  <2>1. /\ doing \in Session /\ mem' = mem /\ bad' = bad
        /\ doing \notin {"republish", "examine", "idle"}
    BY <1>9 DEF WriterFails, WriteFails, DiskError
  <2> QED BY <2>1, ReadsBecause DEF MemReads, QuietStep, Copies
<1>10. CASE SlotPublished
  <2>1. /\ doing \in Session /\ mem' = mem /\ bad' = bad
        /\ doing \notin {"republish", "examine", "idle"}
    BY <1>10 DEF SlotPublished, Succeeds, OldEntryDeleted
  <2> QED BY <2>1, ReadsBecause DEF MemReads, QuietStep, Copies
<1>11. CASE WriterFinish
  <2>1. /\ doing \in Session /\ mem' = mem /\ bad' = bad
        /\ doing \notin {"republish", "examine", "idle"}
    BY <1>11 DEF WriterFinish, Return
  <2> QED BY <2>1, ReadsBecause DEF MemReads, QuietStep, Copies
<1>12. CASE JournalVerified
  <2>1. Decodes(mem')
    BY <1>12, <1>a DEF JournalVerified
  <2> QED BY <2>1 DEF MemReads
<1>13. CASE StagedNotPublished
  <2>1. /\ doing \in Session /\ mem' = mem /\ bad' = bad
        /\ doing \notin {"republish", "examine", "idle"}
    BY <1>13
       DEF StagedNotPublished, Fails, WriteFails, DiskError, OldEntryDeleted,
           Return
  <2> QED BY <2>1, ReadsBecause DEF MemReads, QuietStep, Copies
<1>14. CASE PendingWritten
  <2>1. /\ doing \in Session /\ mem' = mem /\ bad' = bad
        /\ doing \notin {"republish", "examine", "idle"}
    BY <1>14 DEF PendingWritten, Succeeds, OldEntryDeleted
  <2> QED BY <2>1, ReadsBecause DEF MemReads, QuietStep, Copies
<1>15. CASE JournalCommitted
  <2>1. /\ doing \in Session /\ mem' = mem /\ bad' = bad
        /\ doing \notin {"republish", "examine", "idle"}
    BY <1>15 DEF JournalCommitted, Succeeds, OldEntryDeleted
  <2> QED BY <2>1, ReadsBecause DEF MemReads, QuietStep, Copies
<1>16. CASE Replicated
  <2>1. /\ doing \in Session /\ mem' = mem /\ bad' = bad
        /\ doing \notin {"republish", "examine", "idle"}
    BY <1>16 DEF Replicated, Succeeds, OldEntryDeleted
  <2> QED BY <2>1, ReadsBecause DEF MemReads, QuietStep, Copies
<1>17. CASE CommitFails
  <2>1. /\ doing \in Session /\ mem' = [mem EXCEPT !.recovery = TRUE]
        /\ bad' = bad /\ doing \notin {"republish", "examine", "idle"}
    BY <1>17
       DEF CommitFails, Fails, WriteFails, DiskError, OldEntryDeleted, Return
  <2>2. Decodes(mem) => Decodes(mem')
    BY <2>1, FlaggedFields DEF Typed
  <2> QED BY <2>1, <2>2, ReadsBecause DEF MemReads, QuietStep, Copies
<1>18. CASE AbortStaging
  <2>1. /\ doing \in Session /\ mem' = mem /\ bad' = bad
        /\ doing \notin {"republish", "examine", "idle"}
    BY <1>18 DEF AbortStaging, DiskError
  <2> QED BY <2>1, ReadsBecause DEF MemReads, QuietStep, Copies
<1>19. CASE ClearFirst
  <2>1. /\ doing \in Session /\ mem' = mem /\ bad' = bad
        /\ doing \notin {"republish", "examine", "idle"}
    BY <1>19 DEF ClearFirst, DiskError
  <2> QED BY <2>1, ReadsBecause DEF MemReads, QuietStep, Copies
<1>20. CASE ClearSecond
  <2>1. doing = "clear1" /\ bad' = bad /\ (Decodes(mem) <=> Decodes(mem'))
    BY <1>20, ClearSecondFacts DEF ClearSecond
  <2>2. doing \in Session
    BY <2>1
  <2> QED BY <2>1, <2>2, ReadsBecause DEF MemReads, QuietStep, Copies
<1>21. CASE LoadControls
  <2> DEFINE s == LoadedState(disk)
  <2>1. bad' = FALSE => Decodes(s)
    <3>1. \A i \in Slots : Exists(disk, Sta(i))
      BY StateLengths DEF QuietStep
    <3>2. bad' = FALSE => Readable(disk) # {}
      BY <1>21, <3>1 DEF LoadControls
    <3> QED BY <3>2, LoadedFacts DEF Typed
  <2>2. s \in States
    BY LoadedFacts DEF Typed
  <2>3. \/ mem' = s
        \/ doing' = "republish" /\ mj' \in WrittenJournals
        \/ mem' = [s EXCEPT !.recovery = TRUE]
    BY <1>21, LoadControlsFacts
  <2> HIDE DEF s
  <2>4. mem' = [s EXCEPT !.recovery = TRUE] => (Decodes(s) => Decodes(mem'))
    BY <2>2, FlaggedFields
  <2> QED BY <2>1, <2>3, <2>4, PhaseNames DEF MemReads
<1>22. CASE Republished
  <2>1. /\ OldEntryDeleted("republish") /\ Confirms /\ mem' = mem
    BY <1>22 DEF Republished, Succeeds, StateWrites
  <2>2. PICK d \in Slots : CopyReplaced(d)
    BY <2>1, WriteDone DEF StateWrites
  <2>3. Head(disk'[Dest]) = mem
    BY <2>2, ReplacedFacts
  <2>4. Decodes(mem)
    BY <2>1, <2>3 DEF Confirms
  <2> QED BY <2>1, <2>4 DEF MemReads
<1>23. CASE DiscardTarget
  <2>1. /\ doing \in Session /\ mem' = mem /\ bad' = bad
        /\ doing \notin {"republish", "examine", "idle"}
    BY <1>23 DEF DiscardTarget
  <2> QED BY <2>1, ReadsBecause DEF MemReads, QuietStep, Copies
<1>24. CASE Unstage
  <2>1. /\ doing \in Session /\ mem' = mem /\ bad' = bad
        /\ doing \notin {"republish", "examine", "idle"}
    BY <1>24 DEF Unstage
  <2> QED BY <2>1, ReadsBecause DEF MemReads, QuietStep, Copies
<1>25. CASE RecoveryFails
  <2>1. /\ doing' = "examine" /\ mj' = mj
        /\ doing \in {"republish", "discard", "unstage"}
    BY <1>25 DEF RecoveryFails, Fails, WriteFails, DiskError, OldEntryDeleted
  <2>2. mj \in WrittenJournals
    BY <2>1 DEF Placed
  <2>3. mj # NoJournal
    BY <2>2, PhaseNames
  <2> QED BY <2>1, <2>3 DEF MemReads
<1>26. CASE Examine
  <2>1. /\ mem' \in States /\ mem \in States /\ mem'.seq = mem.seq
        /\ mem'.active = mem.active /\ mem'.pending = mem.pending
        /\ mem'.boot = mem.boot /\ mem'.attempt = mem.attempt
        /\ mem'.attempts = mem.attempts
        /\ bad' = FALSE => mem'.rec = mem.rec /\ bad = FALSE
    BY <1>26, ExamineFacts DEF Typed
  <2>2. mem'.valid = TRUE /\ mem.valid = TRUE
    BY <2>1, StateFields
  <2>3. bad' = FALSE => (Decodes(mem) => Decodes(mem'))
    BY <2>1, <2>2 DEF Decodes
  <2>4. /\ doing = "examine" /\ mj' = mj
        /\ mj.phase # NoPhase => doing' = "idle"
    BY <1>26 DEF Examine, Return
  <2>5. doing \in Session
    BY <2>4
  <2>6. mj # NoJournal => doing' = "idle"
    BY <2>4, NoPhaseIsNoJournal
  <2> QED BY <2>1, <2>3, <2>4, <2>5, <2>6, ReadsBecause
             DEF MemReads, QuietStep, Copies
<1>27. CASE BootConfirm
  <2>1. CASE HandoffMatches
    <3>1. Decodes(mem')
      BY <1>27, <1>a, <2>1 DEF BootConfirm
    <3> QED BY <3>1 DEF MemReads
  <2>2. CASE ~HandoffMatches
    <3>1. doing = "confirm" /\ mem' = mem /\ bad' = bad
      BY <1>27, <2>2 DEF BootConfirm
    <3> QED BY <3>1, PlaceNames, ReadsBecause DEF MemReads, QuietStep, Copies
  <2> QED BY <2>1, <2>2
<1>28. CASE Promoted
  <2>1. /\ doing \in Session /\ mem' = mem /\ bad' = bad
        /\ doing \notin {"republish", "examine", "idle"}
    BY <1>28 DEF Promoted, Succeeds, OldEntryDeleted, Return
  <2> QED BY <2>1, ReadsBecause DEF MemReads, QuietStep, Copies
<1>29. CASE PromoteFails
  <2>1. /\ doing \in Session /\ mem' = mem /\ bad' = bad
        /\ doing \notin {"republish", "examine", "idle"}
    BY <1>29
       DEF PromoteFails, Fails, WriteFails, DiskError, OldEntryDeleted, Return
  <2> QED BY <2>1, ReadsBecause DEF MemReads, QuietStep, Copies
<1>30. CASE CancelPending
  <2>1. Decodes(mem')
    BY <1>30, <1>a DEF CancelPending
  <2> QED BY <2>1 DEF MemReads
<1>31. CASE Withdrawn
  <2>1. /\ doing \in Session /\ mem' = mem /\ bad' = bad
        /\ doing \notin {"republish", "examine", "idle"}
    BY <1>31 DEF Withdrawn, Succeeds, OldEntryDeleted
  <2> QED BY <2>1, ReadsBecause DEF MemReads, QuietStep, Copies
<1>32. CASE Cancelled
  <2>1. /\ doing \in Session /\ mem' = mem /\ bad' = bad
        /\ doing \notin {"republish", "examine", "idle"}
    BY <1>32 DEF Cancelled, Succeeds, OldEntryDeleted, Return
  <2> QED BY <2>1, ReadsBecause DEF MemReads, QuietStep, Copies
<1>33. CASE CancelFails
  BY <1>33 DEF CancelFails, MemReads
<1>34. CASE LoaderChoice
  BY <1>34, LoaderChoiceFacts, PlaceNames
<1>35. CASE AttemptWritten
  BY <1>35, PlaceNames DEF AttemptWritten
<1>36. CASE FailureWritten
  BY <1>36, PlaceNames DEF FailureWritten
<1>37. CASE ControlWriteFails
  BY <1>37, PlaceNames DEF ControlWriteFails
<1>38. CASE KernelStarts
  BY <1>38, PlaceNames DEF KernelStarts
<1>39. CASE MenuLegacy
  BY <1>39, PlaceNames DEF MenuLegacy
<1>40. CASE RebootIntoCandidate
  BY <1>40, PlaceNames DEF RebootIntoCandidate, PowerOn
<1>41. CASE Restart
  BY <1>41, PlaceNames DEF Restart, PowerOn
<1>42. CASE PowerCut
  BY <1>42, PlaceNames DEF PowerCut, PowerOn
<1>43. CASE LoaderPowerCut
  BY <1>43, PlaceNames DEF LoaderPowerCut, PowerOn
<1> QED
  BY <1>1, <1>2, <1>3, <1>4, <1>5, <1>6, <1>7, <1>8, <1>9, <1>10, <1>11,
     <1>12, <1>13, <1>14, <1>15, <1>16, <1>17, <1>18, <1>19, <1>20, <1>21,
     <1>22, <1>23, <1>24, <1>25, <1>26, <1>27, <1>28, <1>29, <1>30, <1>31,
     <1>32, <1>33, <1>34, <1>35, <1>36, <1>37, <1>38, <1>39, <1>40, <1>41,
     <1>42, <1>43
     DEF QuietStep, SlotsNext, KernelStep, LoaderStep, LoaderChoice

\* Every quiet step preserves MemDecodes.
LEMMA MemDecodesNext ==
  ASSUME QuietStep
  PROVE  MemDecodes'
  BY WrittenDecodes, MemReadsNext DEF MemDecodes, MemReads

-----------------------------------------------------------------------------
(* Every start is counted.                                                 *)

\* The attempts a state accounts for.
LEMMA SpentFacts ==
  ASSUME NEW e \in States
  PROVE  /\ Spent(e) \in 0..AttemptLimit
         /\ e.boot = "NONE" /\ e.pending = NoSlot => Spent(e) = AttemptLimit
         /\ e.boot # "NONE" => Spent(e) = e.attempts
         /\ e.boot = "NONE" /\ e.pending # NoSlot => Spent(e) = 0
<1>1. AttemptLimit \in Nat
  BY BoundsAssumption
<1>2. e.attempts \in 0..AttemptLimit
  BY StateFields
<1>3. 0 \in 0..AttemptLimit /\ AttemptLimit \in 0..AttemptLimit
  BY <1>1
<1>4. /\ e.boot = "NONE" /\ e.pending = NoSlot => Spent(e) = AttemptLimit
      /\ e.boot # "NONE" => Spent(e) = e.attempts
      /\ e.boot = "NONE" /\ e.pending # NoSlot => Spent(e) = 0
  BY DEF Spent
<1> QED BY <1>2, <1>3, <1>4

\* Less or equal is transitive.
LEMMA AtMost ==
  ASSUME NEW a \in Int, NEW b \in Int, NEW c \in Int, a <= b, b <= c
  PROVE  a <= c
  OBVIOUS

\* Starts made and under way: no step but the loader's attempt adds one.
LEMMA FlightNext ==
  ASSUME GeneralInv, SlotsNext
  PROVE  AttemptWritten \/ starts' + InFlight' <= starts + InFlight
<1>a. starts \in Nat /\ InFlight \in {0, 1}
  BY DEF GeneralInv, Typed, InFlight
<1>b. Typed /\ InLoader
  BY DEF GeneralInv
<1>c. starts \in Nat /\ InFlight \in Nat
  BY <1>a
<1>1. CASE PublishEntry
  <2>1. /\ starts' = 0 \/ starts' = starts
        /\ doing' # "jump"
    BY <1>1 DEF PublishEntry, Writes, JournalWrites, StateWrites, CopyWrites
  <2>2. InFlight' = 0
    BY <2>1 DEF InFlight
  <2> QED BY <1>c, <2>1, <2>2
<1>2. CASE \E i \in Images : Stage(i)
  <2>1. starts' = starts /\ doing' # "jump"
    BY <1>2
       DEF Stage, kernel, history, counts, loaderRest, Return, PowerOn
  <2> QED BY <2>1, <1>a DEF InFlight
<1>3. CASE JournalPrepared
  <2>1. starts' = starts /\ doing' # "jump"
    BY <1>3
       DEF JournalPrepared, kernel, history, counts, loaderRest, Return,
           PowerOn
  <2> QED BY <2>1, <1>a DEF InFlight
<1>4. CASE PrepareFails
  <2>1. starts' = starts /\ doing' # "jump"
    BY <1>4
       DEF PrepareFails, kernel, history, counts, loaderRest, Return, PowerOn
  <2> QED BY <2>1, <1>a DEF InFlight
<1>5. CASE JournalStaging
  <2>1. starts' = starts /\ doing' # "jump"
    BY <1>5
       DEF JournalStaging, kernel, history, counts, loaderRest, Return, PowerOn
  <2> QED BY <2>1, <1>a DEF InFlight
<1>6. CASE WriterBegin
  <2>1. starts' = starts /\ doing' # "jump"
    BY <1>6
       DEF WriterBegin, kernel, history, counts, loaderRest, Return, PowerOn
  <2> QED BY <2>1, <1>a DEF InFlight
<1>7. CASE WriterEnd
  <2>1. starts' = starts /\ doing' # "jump"
    BY <1>7
       DEF WriterEnd, kernel, history, counts, loaderRest, Return, PowerOn
  <2> QED BY <2>1, <1>a DEF InFlight
<1>8. CASE WriterCancel
  <2>1. starts' = starts /\ doing' # "jump"
    BY <1>8
       DEF WriterCancel, kernel, history, counts, loaderRest, Return, PowerOn
  <2> QED BY <2>1, <1>a DEF InFlight
<1>9. CASE WriterFails
  <2>1. starts' = starts /\ doing' # "jump"
    BY <1>9
       DEF WriterFails, kernel, history, counts, loaderRest, Return, PowerOn
  <2> QED BY <2>1, <1>a DEF InFlight
<1>10. CASE SlotPublished
  <2>1. starts' = starts /\ doing' # "jump"
    BY <1>10
       DEF SlotPublished, kernel, history, counts, loaderRest, Return, PowerOn
  <2> QED BY <2>1, <1>a DEF InFlight
<1>11. CASE WriterFinish
  <2>1. starts' = starts /\ doing' # "jump"
    BY <1>11
       DEF WriterFinish, kernel, history, counts, loaderRest, Return, PowerOn
  <2> QED BY <2>1, <1>a DEF InFlight
<1>12. CASE JournalVerified
  <2>1. starts' = starts /\ doing' # "jump"
    BY <1>12
       DEF JournalVerified, kernel, history, counts, loaderRest, Return,
           PowerOn
  <2> QED BY <2>1, <1>a DEF InFlight
<1>13. CASE StagedNotPublished
  <2>1. starts' = starts /\ doing' # "jump"
    BY <1>13
       DEF StagedNotPublished, kernel, history, counts, loaderRest, Return,
           PowerOn
  <2> QED BY <2>1, <1>a DEF InFlight
<1>14. CASE PendingWritten
  <2>1. starts' = starts /\ doing' # "jump"
    BY <1>14
       DEF PendingWritten, kernel, history, counts, loaderRest, Return, PowerOn
  <2> QED BY <2>1, <1>a DEF InFlight
<1>15. CASE JournalCommitted
  <2>1. starts' = starts /\ doing' # "jump"
    BY <1>15
       DEF JournalCommitted, kernel, history, counts, loaderRest, Return,
           PowerOn
  <2> QED BY <2>1, <1>a DEF InFlight
<1>16. CASE Replicated
  <2>1. starts' = starts /\ doing' # "jump"
    BY <1>16
       DEF Replicated, kernel, history, counts, loaderRest, Return, PowerOn
  <2> QED BY <2>1, <1>a DEF InFlight
<1>17. CASE CommitFails
  <2>1. starts' = starts /\ doing' # "jump"
    BY <1>17
       DEF CommitFails, kernel, history, counts, loaderRest, Return, PowerOn
  <2> QED BY <2>1, <1>a DEF InFlight
<1>18. CASE AbortStaging
  <2>1. starts' = starts /\ doing' # "jump"
    BY <1>18
       DEF AbortStaging, kernel, history, counts, loaderRest, Return, PowerOn
  <2> QED BY <2>1, <1>a DEF InFlight
<1>19. CASE ClearFirst
  <2>1. starts' = starts /\ doing' # "jump"
    BY <1>19
       DEF ClearFirst, kernel, history, counts, loaderRest, Return, PowerOn
  <2> QED BY <2>1, <1>a DEF InFlight
<1>20. CASE ClearSecond
  <2>1. starts' = starts /\ doing' # "jump"
    BY <1>20
       DEF ClearSecond, kernel, history, counts, loaderRest, Return, PowerOn
  <2> QED BY <2>1, <1>a DEF InFlight
<1>21. CASE LoadControls
  <2>1. starts' = starts /\ doing' # "jump"
    BY <1>21, <1>b, LoadControlsFacts DEF LoadControls, history
  <2> QED BY <2>1, <1>a DEF InFlight
<1>22. CASE Republished
  <2>1. starts' = starts /\ doing' # "jump"
    BY <1>22
       DEF Republished, kernel, history, counts, loaderRest, Return, PowerOn
  <2> QED BY <2>1, <1>a DEF InFlight
<1>23. CASE DiscardTarget
  <2>1. starts' = starts /\ doing' # "jump"
    BY <1>23
       DEF DiscardTarget, kernel, history, counts, loaderRest, Return, PowerOn
  <2> QED BY <2>1, <1>a DEF InFlight
<1>24. CASE Unstage
  <2>1. starts' = starts /\ doing' # "jump"
    BY <1>24
       DEF Unstage, kernel, history, counts, loaderRest, Return, PowerOn
  <2> QED BY <2>1, <1>a DEF InFlight
<1>25. CASE RecoveryFails
  <2>1. starts' = starts /\ doing' # "jump"
    BY <1>25
       DEF RecoveryFails, kernel, history, counts, loaderRest, Return, PowerOn
  <2> QED BY <2>1, <1>a DEF InFlight
<1>26. CASE Examine
  <2>1. starts' = starts /\ doing' # "jump"
    BY <1>26
       DEF Examine, kernel, history, counts, loaderRest, Return, PowerOn
  <2> QED BY <2>1, <1>a DEF InFlight
<1>27. CASE BootConfirm
  <2>1. starts' = starts /\ doing' # "jump"
    BY <1>27
       DEF BootConfirm, kernel, history, counts, loaderRest, Return, PowerOn
  <2> QED BY <2>1, <1>a DEF InFlight
<1>28. CASE Promoted
  <2>1. starts' = starts /\ doing' # "jump"
    BY <1>28
       DEF Promoted, kernel, history, counts, loaderRest, Return, PowerOn
  <2> QED BY <2>1, <1>a DEF InFlight
<1>29. CASE PromoteFails
  <2>1. starts' = starts /\ doing' # "jump"
    BY <1>29
       DEF PromoteFails, kernel, history, counts, loaderRest, Return, PowerOn
  <2> QED BY <2>1, <1>a DEF InFlight
<1>30. CASE CancelPending
  <2>1. starts' = starts /\ doing' # "jump"
    BY <1>30
       DEF CancelPending, kernel, history, counts, loaderRest, Return, PowerOn
  <2> QED BY <2>1, <1>a DEF InFlight
<1>31. CASE Withdrawn
  <2>1. starts' = starts /\ doing' # "jump"
    BY <1>31
       DEF Withdrawn, kernel, history, counts, loaderRest, Return, PowerOn
  <2> QED BY <2>1, <1>a DEF InFlight
<1>32. CASE Cancelled
  <2>1. starts' = starts /\ doing' # "jump"
    BY <1>32
       DEF Cancelled, kernel, history, counts, loaderRest, Return, PowerOn
  <2> QED BY <2>1, <1>a DEF InFlight
<1>33. CASE CancelFails
  <2>1. starts' = starts /\ doing' # "jump"
    BY <1>33
       DEF CancelFails, kernel, history, counts, loaderRest, Return, PowerOn
  <2> QED BY <2>1, <1>a DEF InFlight
<1>34. CASE LoaderChoice
  <2>1. /\ starts' = starts
        /\ doing' = "jump" => \E x \in 0..NoSlot : run' = [NoBoot EXCEPT !.slot = x]
    BY <1>34, <1>b, LoaderChoiceFacts DEF loaderRest, LoaderGoes
  <2>2. doing' = "jump" => run'.handoff.valid = FALSE
    BY <2>1, NoBootIsOne
  <2>3. InFlight' = 0
    BY <2>2 DEF InFlight
  <2> QED BY <1>a, <2>1, <2>3
<1>35. CASE AttemptWritten
  BY <1>35
<1>36. CASE FailureWritten
  <2>1. starts' = starts /\ doing' # "jump"
    BY <1>36
       DEF FailureWritten, kernel, history, counts, loaderRest, Return, PowerOn
  <2> QED BY <2>1, <1>a DEF InFlight
<1>37. CASE ControlWriteFails
  <2>1. starts' = starts /\ doing' # "jump"
    BY <1>37
       DEF ControlWriteFails, kernel, history, counts, loaderRest, Return,
           PowerOn
  <2> QED BY <2>1, <1>a DEF InFlight
<1>38. CASE KernelStarts
  <2>1. /\ starts' = starts \/ (run.handoff.valid = TRUE /\ starts' = starts + 1)
        /\ doing' = "load" /\ doing = "jump"
    BY <1>38, <1>b, HandoffTyped DEF KernelStarts
  <2>2. InFlight' = 0
    BY <2>1 DEF InFlight
  <2>3. run.handoff.valid = TRUE => InFlight = 1
    BY <2>1 DEF InFlight
  <2> QED BY <1>a, <2>1, <2>2, <2>3
<1>39. CASE MenuLegacy
  <2>1. starts' = starts /\ doing' # "jump"
    BY <1>39
       DEF MenuLegacy, kernel, history, counts, loaderRest, Return, PowerOn
  <2> QED BY <2>1, <1>a DEF InFlight
<1>40. CASE RebootIntoCandidate
  <2>1. starts' = starts /\ doing' # "jump"
    BY <1>40
       DEF RebootIntoCandidate, kernel, history, counts, loaderRest, Return,
           PowerOn
  <2> QED BY <2>1, <1>a DEF InFlight
<1>41. CASE Restart
  <2>1. starts' = starts /\ doing' # "jump"
    BY <1>41
       DEF Restart, kernel, history, counts, loaderRest, Return, PowerOn
  <2> QED BY <2>1, <1>a DEF InFlight
<1>42. CASE PowerCut
  <2>1. starts' = starts /\ doing' # "jump"
    BY <1>42
       DEF PowerCut, kernel, history, counts, loaderRest, Return, PowerOn
  <2> QED BY <2>1, <1>a DEF InFlight
<1>43. CASE LoaderPowerCut
  <2>1. starts' = starts /\ doing' # "jump"
    BY <1>43
       DEF LoaderPowerCut, kernel, history, counts, loaderRest, Return, PowerOn
  <2> QED BY <2>1, <1>a DEF InFlight
<1> QED
  BY <1>1, <1>2, <1>3, <1>4, <1>5, <1>6, <1>7, <1>8, <1>9, <1>10, <1>11, <1>12,
     <1>13, <1>14, <1>15, <1>16, <1>17, <1>18, <1>19, <1>20, <1>21, <1>22,
     <1>23, <1>24, <1>25, <1>26, <1>27, <1>28, <1>29, <1>30, <1>31, <1>32,
     <1>33, <1>34, <1>35, <1>36, <1>37, <1>38, <1>39, <1>40, <1>41, <1>42,
     <1>43
     DEF SlotsNext, KernelStep, LoaderStep, LoaderChoice

\* The loader's write, with what it makes of the count.
LEMMA ControlSpent ==
  ASSUME QuietStep, NEW k \in Slots, CopyMarked(k, ControlValue)
  PROVE  LET v == ControlValue
         IN /\ v \in States /\ starts + InFlight <= Spent(v)
            /\ doing = "attempt" => starts + InFlight + 1 <= Spent(v)
<1> DEFINE v == ControlValue
           s == Selected(disk)
<1> USE DEF QuietStep
<1>1. /\ NewestCopy(k) /\ Copy(k) = s /\ doing \in {"attempt", "fail"}
  BY MarkedFacts
<1>2. /\ s \in States /\ Decodes(s) /\ v \in States /\ Decodes(v)
      /\ v.boot # "NONE"
      /\ doing = "attempt" => v.attempts = s.attempts + 1
      /\ doing = "fail" => v.attempts = IF s.boot # "NONE" THEN s.attempts ELSE 1
  BY <1>1, ControlFacts DEF GeneralInv
<1>3. s.pending # NoSlot \/ s.boot # "NONE"
  BY <1>1 DEF GeneralInv, InLoader
<1>4. starts + InFlight <= Spent(s)
  BY <1>1 DEF Copies, StartsCounted
<1>5. starts \in Nat /\ InFlight \in {0, 1}
  BY DEF GeneralInv, Typed, InFlight
<1> HIDE DEF v, s
<1>6. Spent(v) = v.attempts /\ v.attempts \in Nat /\ s.attempts \in Nat
  <2>1. AttemptLimit \in Nat /\ Spent(v) = v.attempts
    BY <1>2, SpentFacts, BoundsAssumption
  <2>2. v.attempts \in 0..AttemptLimit /\ s.attempts \in 0..AttemptLimit
    BY <1>2, StateFields
  <2> QED BY <2>1, <2>2
<1>7. Spent(s) = s.attempts
  <2>1. CASE s.boot # "NONE"
    BY <1>2, <2>1, SpentFacts
  <2>2. CASE s.boot = "NONE"
    <3>1. Spent(s) = 0
      BY <1>2, <1>3, <2>2, SpentFacts
    <3>2. s.attempts = 0
      BY <1>2, <2>2 DEF Decodes
    <3> QED BY <3>1, <3>2
  <2> QED BY <2>1, <2>2
<1>8. s.boot = "NONE" => s.attempts = 0
  BY <1>2 DEF Decodes
<1> QED BY <1>1, <1>2, <1>4, <1>5, <1>6, <1>7, <1>8 DEF v

\* An entry just replaced never counts less than was started.
LEMMA ReplacedSpent ==
  ASSUME QuietStep, NEW d \in Slots, CopyReplaced(d), NEW i \in Slots,
         NewestCopy(i)'
  PROVE  starts + InFlight <= Spent(Copy(i)')
<1> USE DEF QuietStep
<1>1. /\ Copy(d)' = mem /\ Copy(1 - d)' = Copy(1 - d) /\ half \in {1, 2}
      /\ doing \in StateWrites \cup CopyWrites
      /\ doing \in CopyWrites => Copy(1 - d) = mem
  BY ReplacedFacts
<1>2. /\ InFlight = 0 /\ starts \in Nat /\ mem \in States /\ mem.seq \in Nat
      /\ doing \in Session
  <2>1. doing # "jump" /\ doing \in Session
    BY <1>1, PlaceNames DEF LoaderPlaces
  <2> QED BY <2>1, StateFields DEF GeneralInv, Typed, InFlight
<1>3. /\ starts + InFlight <= AttemptLimit
      /\ \A j \in Slots : NewestCopy(j) => starts + InFlight <= Spent(Copy(j))
      /\ half # 0 /\ doing \in {"pending", "republish"} => starts = 0
  BY DEF Copies, StartsCounted
<1>4. /\ Decodes(Copy(i)') /\ i \in {d, 1 - d}
      /\ \A j \in Slots : Decodes(Copy(j)') => Copy(j)'.seq <= Copy(i)'.seq
  BY SlotPair DEF NewestCopy
<1>5. Copy(i)' \in States
  <2>1. Copy(i) \in StateEntries /\ Copy(1 - d) \in StateEntries
    BY CopyStates, SlotPair
  <2>2. Copy(i)' \in {mem, Copy(1 - d)}
    BY <1>1, <1>4
  <2> QED BY <1>2, <1>4, <2>1, <2>2, DecodedIsState
<1>6. CASE doing \in {"pending", "republish"}
  <2>1. starts = 0
    BY <1>1, <1>3, <1>6
  <2>2. Spent(Copy(i)') \in 0..AttemptLimit
    BY <1>5, SpentFacts
  <2> QED BY <1>2, <2>1, <2>2, BoundsAssumption
<1>7. CASE doing \in {"promote", "withdraw"}
  <2>1. mem.pending = NoSlot /\ mem.boot = "NONE"
    BY <1>7 DEF GeneralInv, Staged, CancelPlaces
  <2>2. Spent(mem) = AttemptLimit
    BY <1>2, <2>1, SpentFacts
  <2>3. Decodes(mem)
    BY <1>7 DEF Copies, MemDecodes, CancelPlaces
  <2>4. i = d
    <3>1. ASSUME i = 1 - d PROVE FALSE
      <4>1. Copy(i)' = Copy(i) /\ Decodes(Copy(i))
        BY <1>1, <1>4, <3>1
      <4>2. Copy(i).seq < mem.seq
        BY <1>2, <1>7, <4>1 DEF Copies, MemIsNewest, StateWrites
      <4>3. mem.seq <= Copy(i).seq
        BY <1>1, <1>4, <2>3, <4>1
      <4>4. Copy(i).seq \in Nat
        BY <4>1, CopyStates
      <4> QED BY <1>2, <4>2, <4>3, <4>4
    <3> QED BY <1>4, <3>1
  <2> QED BY <1>1, <1>3, <2>2, <2>4
<1>8. CASE doing \in CopyWrites
  <2>1. Copy(i)' = mem /\ Copy(1 - d) = mem
    BY <1>1, <1>4, <1>8
  <2>2. 1 - d \in Slots /\ \A j \in Slots : Decodes(Copy(j)) => Copy(j).seq <= mem.seq
    BY <1>2, SlotPair DEF Copies, MemIsNewest
  <2>3. NewestCopy(1 - d)
    BY <1>4, <2>1, <2>2 DEF NewestCopy
  <2> QED BY <1>3, <2>1, <2>2, <2>3
<1> QED BY <1>1, <1>6, <1>7, <1>8 DEF StateWrites

\* CopyStates, of the state after a step.
LEMMA CopyStateAfter ==
  ASSUME NEW i \in Slots
  PROVE  GeneralInv' /\ Decodes(Copy(i)') => Copy(i)' \in States
<1>1. GeneralInv /\ Decodes(Copy(i)) => Copy(i) \in States
  BY CopyStates
<1>2. (GeneralInv /\ Decodes(Copy(i)) => Copy(i) \in States)'
  BY <1>1, PTL
<1> QED BY <1>2

(* Every quiet step preserves StartsCounted: a start goes through the      *)
(* attempt record the loader wrote before it jumped.                       *)
LEMMA StartsCountedNext ==
  ASSUME QuietStep
  PROVE  StartsCounted'
<1> USE DEF QuietStep
<1>1. /\ starts + InFlight <= AttemptLimit
      /\ \A j \in Slots : NewestCopy(j) => starts + InFlight <= Spent(Copy(j))
  BY DEF Copies, StartsCounted
<1>2. /\ starts \in Nat /\ InFlight \in {0, 1} /\ starts' \in Nat
      /\ InFlight' \in {0, 1} /\ AttemptLimit \in Nat
  BY BoundsAssumption DEF GeneralInv, Typed, InFlight
<1>t. starts + InFlight \in Int /\ starts' + InFlight' \in Int /\ AttemptLimit \in Int
  BY <1>2
<1>3. half' # 0 /\ doing' \in {"pending", "republish"} => starts' = 0
  <2>1. half' # 0 => PublishEntry
    BY StatesNext DEF GeneralInv
  <2> QED BY <2>1 DEF PublishEntry
<1>4. CASE AttemptWritten
  <2>1. PICK k \in Slots : CopyMarked(k, ControlValue)
    <3>1. /\ doing = "attempt" /\ disk' = Sector(ControlValue)
          /\ Readable(disk) # {}
      BY <1>4, ControlFacts DEF AttemptWritten, GeneralInv
    <3>k. PICK k \in Slots : k = Newest(disk)
      BY <3>1, Chosen DEF GeneralInv, Typed
    <3>2. \A i \in Slots : ~Writing(i) /\ ~Writing(i)'
      BY <1>4, <3>1, NotWriting, WritingNext DEF AttemptWritten, PublishEntry,
                      StateWrites, CopyWrites, Writes, JournalWrites,
           StateWrites, CopyWrites
    <3>3. /\ 1 - k \in Slots /\ disk'[Sta(1 - k)][1] = ControlValue
          /\ \A g \in Files : g # Sta(1 - k) => disk'[g] = disk[g]
      BY <3>1, <3>k, ControlFacts, SectorFacts
         DEF GeneralInv, Typed, StateEntries
    <3>4. disk'[Sta(k)] = disk[Sta(k)]
      BY <3>3, SlotPair, FileNames, StateNames
    <3>5. \A i \in Slots : Copy(i) = disk[Sta(i)][1] /\ Copy(i)' = disk'[Sta(i)][1]
      BY <3>2 DEF Copy
    <3>6. Copy(1 - k)' = ControlValue /\ Copy(k)' = Copy(k)
      BY <3>3, <3>4, <3>5
    <3> QED BY <3>1, <3>k, <3>6 DEF CopyMarked
  <2>2. /\ NewestCopy(k) /\ Copy(k)' = Copy(k) /\ Copy(1 - k)' = ControlValue
        /\ Decodes(ControlValue) /\ ControlValue.seq = Copy(k).seq + 1
    BY <2>1, MarkedFacts
  <2>3. /\ ControlValue \in States
        /\ starts + InFlight + 1 <= Spent(ControlValue)
    BY <1>4, <2>1, ControlSpent DEF AttemptWritten
  <2>4. starts' = starts /\ InFlight = 0
    BY <1>4 DEF AttemptWritten, history, InFlight
  <2>5. ASSUME NEW i \in Slots, NewestCopy(i)' PROVE i = 1 - k
    <3>1. ASSUME i = k PROVE FALSE
      <4>1. Decodes(Copy(1 - k)') => Copy(1 - k)'.seq <= Copy(k)'.seq
        BY <2>5, <3>1, SlotPair DEF NewestCopy
      <4>2. Copy(k).seq + 1 <= Copy(k).seq
        BY <2>2, <4>1
      <4>3. Copy(k).seq \in Nat
        BY <2>2, CopyStates DEF NewestCopy
      <4> QED BY <4>2, <4>3
    <3> QED BY <3>1, SlotPair
  <2>6. Spent(ControlValue) \in 0..AttemptLimit
    BY <2>3, SpentFacts
  <2>7. starts' + InFlight' <= Spent(ControlValue)
    BY <1>2, <2>3, <2>4, <2>6
  <2>8. \A i \in Slots : NewestCopy(i)' => starts' + InFlight' <= Spent(Copy(i)')
    BY <2>2, <2>5, <2>7
  <2>9. starts' + InFlight' <= AttemptLimit
    <3>1. Spent(ControlValue) <= AttemptLimit /\ Spent(ControlValue) \in Int
      BY <1>2, <2>6
    <3> QED BY <1>2, <1>t, <2>7, <3>1, AtMost
  <2> QED BY <1>3, <2>8, <2>9 DEF StartsCounted, Spent
<1>5. CASE ~AttemptWritten
  <2>1. starts' + InFlight' <= starts + InFlight
    BY <1>5, FlightNext
  <2>2. starts' + InFlight' <= AttemptLimit
    BY <1>1, <1>2, <1>t, <2>1, AtMost
  <2>3. ASSUME NEW i \in Slots, NewestCopy(i)'
        PROVE  starts + InFlight <= Spent(Copy(i)')
    <3>1. CASE CopiesKept
      <4>1. NewestCopy(i) /\ Copy(i)' = Copy(i)
        BY <2>3, <3>1 DEF NewestCopy, CopiesKept
      <4> QED BY <1>1, <4>1
    <3>2. CASE \E d \in Slots : CopyReplaced(d)
      BY <2>3, <3>2, ReplacedSpent
    <3>3. ASSUME NEW k \in Slots, NEW v \in {ControlValue, Torn}, CopyMarked(k, v)
          PROVE  starts + InFlight <= Spent(Copy(i)')
      <4>1. /\ NewestCopy(k) /\ Copy(k)' = Copy(k) /\ Copy(1 - k)' = v
            /\ Decodes(v) => v = ControlValue
        BY <3>3, MarkedFacts
      <4>2. CASE i = k
        BY <1>1, <4>1, <4>2
      <4>3. CASE i = 1 - k
        <5>1. v = ControlValue
          BY <2>3, <4>1, <4>3 DEF NewestCopy
        <5> QED BY <3>3, <4>1, <4>3, <5>1, ControlSpent
      <4> QED BY <4>2, <4>3, SlotPair
    <3> QED BY <3>1, <3>2, <3>3, CopyStep
  <2>4. ASSUME NEW i \in Slots, NewestCopy(i)'
        PROVE  starts' + InFlight' <= Spent(Copy(i)')
    <3>1. Spent(Copy(i)') \in Nat
      <4>1. Copy(i)' \in States
        BY <2>4, CopyStateAfter DEF NewestCopy
      <4>2. Spent(Copy(i)') \in 0..AttemptLimit
        BY <4>1, SpentFacts
      <4> QED BY <1>2, <4>2
    <3>2. starts + InFlight <= Spent(Copy(i)')
      BY <2>3, <2>4
    <3> QED BY <1>t, <2>1, <3>1, <3>2, AtMost
  <2> QED BY <1>3, <2>2, <2>4 DEF StartsCounted, Spent
<1> QED BY <1>4, <1>5

\* Copies is inductive while the files stay undoubled.
LEMMA CopiesInvNext ==
  ASSUME QuietStep
  PROVE  Copies'
  BY NewEntryIsMemNext, CopiesAgreeNext, MemIsNewestNext, FirstCopyWrittenNext,
     MemDecodesNext, StartsCountedNext DEF Copies

-----------------------------------------------------------------------------
(* Without a disk error.                                                   *)

\* The disk reported no error in this step.
LEMMA ErrorsNext ==
  ASSUME GeneralInv, SlotsNext
  PROVE  errors' = errors \/ DiskError
<1> USE DEF kernel, history, counts, loaderRest, PowerOn, Succeeds, Fails,
       WriteFails, Crash
<1>a. Typed /\ InLoader
  BY DEF GeneralInv
<1>1. CASE PublishEntry
  BY <1>1 DEF PublishEntry
<1>2. CASE \E i \in Images : Stage(i)
  BY <1>2 DEF Stage
<1>3. CASE JournalPrepared
  BY <1>3 DEF JournalPrepared
<1>4. CASE PrepareFails
  BY <1>4 DEF PrepareFails
<1>5. CASE JournalStaging
  BY <1>5 DEF JournalStaging
<1>6. CASE WriterBegin
  BY <1>6 DEF WriterBegin
<1>7. CASE WriterEnd
  BY <1>7 DEF WriterEnd
<1>8. CASE WriterCancel
  BY <1>8 DEF WriterCancel
<1>9. CASE WriterFails
  BY <1>9 DEF WriterFails
<1>10. CASE SlotPublished
  BY <1>10 DEF SlotPublished
<1>11. CASE WriterFinish
  BY <1>11 DEF WriterFinish
<1>12. CASE JournalVerified
  BY <1>12 DEF JournalVerified
<1>13. CASE StagedNotPublished
  BY <1>13 DEF StagedNotPublished
<1>14. CASE PendingWritten
  BY <1>14 DEF PendingWritten
<1>15. CASE JournalCommitted
  BY <1>15 DEF JournalCommitted
<1>16. CASE Replicated
  BY <1>16 DEF Replicated
<1>17. CASE CommitFails
  BY <1>17 DEF CommitFails
<1>18. CASE AbortStaging
  BY <1>18 DEF AbortStaging
<1>19. CASE ClearFirst
  BY <1>19 DEF ClearFirst
<1>20. CASE ClearSecond
  BY <1>20 DEF ClearSecond
<1>21. CASE LoadControls
  BY <1>21 DEF LoadControls
<1>22. CASE Republished
  BY <1>22 DEF Republished
<1>23. CASE DiscardTarget
  BY <1>23 DEF DiscardTarget
<1>24. CASE Unstage
  BY <1>24 DEF Unstage
<1>25. CASE RecoveryFails
  BY <1>25 DEF RecoveryFails
<1>26. CASE Examine
  BY <1>26 DEF Examine
<1>27. CASE BootConfirm
  BY <1>27 DEF BootConfirm
<1>28. CASE Promoted
  BY <1>28 DEF Promoted
<1>29. CASE PromoteFails
  BY <1>29 DEF PromoteFails
<1>30. CASE CancelPending
  BY <1>30 DEF CancelPending
<1>31. CASE Withdrawn
  BY <1>31 DEF Withdrawn
<1>32. CASE Cancelled
  BY <1>32 DEF Cancelled
<1>33. CASE CancelFails
  BY <1>33 DEF CancelFails
<1>34. CASE LoaderChoice
  BY <1>34, <1>a, LoaderChoiceFacts
<1>35. CASE AttemptWritten
  BY <1>35 DEF AttemptWritten
<1>36. CASE FailureWritten
  BY <1>36 DEF FailureWritten
<1>37. CASE ControlWriteFails
  BY <1>37 DEF ControlWriteFails
<1>38. CASE KernelStarts
  BY <1>38 DEF KernelStarts
<1>39. CASE MenuLegacy
  BY <1>39 DEF MenuLegacy
<1>40. CASE RebootIntoCandidate
  BY <1>40 DEF RebootIntoCandidate
<1>41. CASE Restart
  BY <1>41 DEF Restart
<1>42. CASE PowerCut
  BY <1>42 DEF PowerCut
<1>43. CASE LoaderPowerCut
  BY <1>43 DEF LoaderPowerCut
<1> QED
  BY <1>1, <1>2, <1>3, <1>4, <1>5, <1>6, <1>7, <1>8, <1>9, <1>10, <1>11,
     <1>12, <1>13, <1>14, <1>15, <1>16, <1>17, <1>18, <1>19, <1>20, <1>21,
     <1>22, <1>23, <1>24, <1>25, <1>26, <1>27, <1>28, <1>29, <1>30, <1>31,
     <1>32, <1>33, <1>34, <1>35, <1>36, <1>37, <1>38, <1>39, <1>40, <1>41,
     <1>42, <1>43
     DEF SlotsNext, KernelStep, LoaderStep, LoaderChoice

\* While the disk has reported no error no step is one.
LEMMA ErrorFree ==
  ASSUME GeneralInv, SlotsNext, errors' = 0
  PROVE  errors = 0 /\ ~DiskError
<1>1. errors \in Nat
  BY DEF GeneralInv, Typed
<1>2. ~DiskError
  BY <1>1 DEF DiskError
<1> QED BY <1>2, ErrorsNext

\* Where the journal in memory comes from.
LEMMA JournalInMemoryNext ==
  ASSUME GeneralInv, SlotsNext
  PROVE  \/ mj' = NoJournal
         \/ mj # NoJournal /\ mj'.target = mj.target
         \/ doing = "idle" /\ mj'.target = 1 - mem.active
         \/ LoadControls
<1>a. Typed /\ Placed /\ InLoader
  BY DEF GeneralInv
<1>1. CASE PublishEntry
  <2>1. mj' = mj
    BY <1>1
       DEF PublishEntry, kernel, loaderRest
  <2> QED BY <2>1
<1>2. CASE \E i \in Images : Stage(i)
  BY <1>2 DEF Stage, StageTarget
<1>3. CASE JournalPrepared
  <2>1. mj \in WrittenJournals /\ mj' = [mj EXCEPT !.phase = STAGING]
    BY <1>3, <1>a
       DEF JournalPrepared, Succeeds, OldEntryDeleted, Placed, StagePlaces,
                   PendingPlaces
  <2>2. mj'.target = mj.target /\ mj # NoJournal
    BY <2>1, PhaseNames, JournalPhases
  <2> QED BY <2>2
<1>4. CASE PrepareFails
  <2>1. mj' = mj
    BY <1>4
       DEF PrepareFails, kernel, loaderRest
  <2> QED BY <2>1
<1>5. CASE JournalStaging
  <2>1. mj' = mj
    BY <1>5
       DEF JournalStaging, kernel, loaderRest
  <2> QED BY <2>1
<1>6. CASE WriterBegin
  <2>1. mj' = mj
    BY <1>6
       DEF WriterBegin, kernel, loaderRest
  <2> QED BY <2>1
<1>7. CASE WriterEnd
  <2>1. mj' = mj
    BY <1>7
       DEF WriterEnd, kernel, loaderRest
  <2> QED BY <2>1
<1>8. CASE WriterCancel
  <2>1. mj' = mj
    BY <1>8
       DEF WriterCancel, kernel, loaderRest
  <2> QED BY <2>1
<1>9. CASE WriterFails
  <2>1. mj' = mj
    BY <1>9
       DEF WriterFails, kernel, loaderRest
  <2> QED BY <2>1
<1>10. CASE SlotPublished
  <2>1. mj' = mj
    BY <1>10
       DEF SlotPublished, kernel, loaderRest
  <2> QED BY <2>1
<1>11. CASE WriterFinish
  <2>1. mj \in WrittenJournals /\ mj' = [mj EXCEPT !.phase = VERIFIED]
    BY <1>11, <1>a
       DEF WriterFinish, Succeeds, OldEntryDeleted, Placed, StagePlaces,
                   PendingPlaces
  <2>2. mj'.target = mj.target /\ mj # NoJournal
    BY <2>1, PhaseNames, JournalPhases
  <2> QED BY <2>2
<1>12. CASE JournalVerified
  <2>1. mj' = mj
    BY <1>12
       DEF JournalVerified, kernel, loaderRest
  <2> QED BY <2>1
<1>13. CASE StagedNotPublished
  <2>1. mj' = mj
    BY <1>13
       DEF StagedNotPublished, kernel, loaderRest
  <2> QED BY <2>1
<1>14. CASE PendingWritten
  <2>1. mj \in WrittenJournals /\ mj' = [mj EXCEPT !.phase = COMMITTED]
    BY <1>14, <1>a
       DEF PendingWritten, Succeeds, OldEntryDeleted, Placed, StagePlaces,
                   PendingPlaces
  <2>2. mj'.target = mj.target /\ mj # NoJournal
    BY <2>1, PhaseNames, JournalPhases
  <2> QED BY <2>2
<1>15. CASE JournalCommitted
  <2>1. mj' = mj
    BY <1>15
       DEF JournalCommitted, kernel, loaderRest
  <2> QED BY <2>1
<1>16. CASE Replicated
  <2>1. mj' = mj
    BY <1>16
       DEF Replicated, kernel, loaderRest
  <2> QED BY <2>1
<1>17. CASE CommitFails
  <2>1. mj' = mj
    BY <1>17
       DEF CommitFails, kernel, loaderRest
  <2> QED BY <2>1
<1>18. CASE AbortStaging
  <2>1. mj' = mj
    BY <1>18
       DEF AbortStaging, kernel, loaderRest
  <2> QED BY <2>1
<1>19. CASE ClearFirst
  <2>1. mj' = mj
    BY <1>19
       DEF ClearFirst, kernel, loaderRest
  <2> QED BY <2>1
<1>20. CASE ClearSecond
  <2>1. mj' = NoJournal \/ mj' = mj
    BY <1>20 DEF ClearSecond
  <2> QED BY <2>1
<1>21. CASE LoadControls
  BY <1>21
<1>22. CASE Republished
  <2>1. mj' = mj
    BY <1>22
       DEF Republished, kernel, loaderRest
  <2> QED BY <2>1
<1>23. CASE DiscardTarget
  <2>1. mj' = mj
    BY <1>23
       DEF DiscardTarget, kernel, loaderRest
  <2> QED BY <2>1
<1>24. CASE Unstage
  <2>1. mj' = mj
    BY <1>24
       DEF Unstage, kernel, loaderRest
  <2> QED BY <2>1
<1>25. CASE RecoveryFails
  <2>1. mj' = mj
    BY <1>25
       DEF RecoveryFails, kernel, loaderRest
  <2> QED BY <2>1
<1>26. CASE Examine
  <2>1. mj' = mj
    BY <1>26
       DEF Examine, kernel, loaderRest
  <2> QED BY <2>1
<1>27. CASE BootConfirm
  <2>1. mj' = mj
    BY <1>27
       DEF BootConfirm, kernel, loaderRest
  <2> QED BY <2>1
<1>28. CASE Promoted
  <2>1. mj' = mj
    BY <1>28
       DEF Promoted, kernel, loaderRest
  <2> QED BY <2>1
<1>29. CASE PromoteFails
  <2>1. mj' = mj
    BY <1>29
       DEF PromoteFails, kernel, loaderRest
  <2> QED BY <2>1
<1>30. CASE CancelPending
  <2>1. mj' = mj
    BY <1>30
       DEF CancelPending, kernel, loaderRest
  <2> QED BY <2>1
<1>31. CASE Withdrawn
  <2>1. mj' = mj
    BY <1>31
       DEF Withdrawn, kernel, loaderRest
  <2> QED BY <2>1
<1>32. CASE Cancelled
  <2>1. mj' = mj
    BY <1>32
       DEF Cancelled, kernel, loaderRest
  <2> QED BY <2>1
<1>33. CASE CancelFails
  <2>1. mj' = mj
    BY <1>33
       DEF CancelFails, kernel, loaderRest
  <2> QED BY <2>1
<1>34. CASE LoaderChoice
  <2>1. mj' = mj
    BY <1>34, <1>a, LoaderChoiceFacts DEF loaderRest
  <2> QED BY <2>1
<1>35. CASE AttemptWritten
  <2>1. mj' = mj
    BY <1>35
       DEF AttemptWritten, kernel, loaderRest
  <2> QED BY <2>1
<1>36. CASE FailureWritten
  <2>1. mj' = mj
    BY <1>36
       DEF FailureWritten, kernel, loaderRest
  <2> QED BY <2>1
<1>37. CASE ControlWriteFails
  <2>1. mj' = mj
    BY <1>37
       DEF ControlWriteFails, kernel, loaderRest
  <2> QED BY <2>1
<1>38. CASE KernelStarts
  <2>1. mj' = mj
    BY <1>38
       DEF KernelStarts, kernel, loaderRest
  <2> QED BY <2>1
<1>39. CASE MenuLegacy
  <2>1. mj' = mj
    BY <1>39
       DEF MenuLegacy, kernel, loaderRest
  <2> QED BY <2>1
<1>40. CASE RebootIntoCandidate
  BY <1>40 DEF RebootIntoCandidate, PowerOn
<1>41. CASE Restart
  BY <1>41 DEF Restart, PowerOn
<1>42. CASE PowerCut
  BY <1>42 DEF PowerCut, PowerOn
<1>43. CASE LoaderPowerCut
  BY <1>43 DEF LoaderPowerCut, PowerOn
<1> QED
  BY <1>1, <1>2, <1>3, <1>4, <1>5, <1>6, <1>7, <1>8, <1>9, <1>10, <1>11, <1>12,
     <1>13, <1>14, <1>15, <1>16, <1>17, <1>18, <1>19, <1>20, <1>21, <1>22,
     <1>23, <1>24, <1>25, <1>26, <1>27, <1>28, <1>29, <1>30, <1>31, <1>32,
     <1>33, <1>34, <1>35, <1>36, <1>37, <1>38, <1>39, <1>40, <1>41, <1>42,
     <1>43
     DEF SlotsNext, KernelStep, LoaderStep, LoaderChoice

\* What a session does to the active slot in memory, short of a promotion.
LEMMA MemActiveNext ==
  ASSUME GeneralInv, SlotsNext, doing \in Session, doing' \in Session,
         doing' # "promote", Holds(disk, mem.active, mem.rec[mem.active])
  PROVE  \/ mem'.active = mem.active /\ mem'.rec[mem.active] = mem.rec[mem.active]
         \/ CancelFails
<1>a. Typed /\ Placed /\ InLoader /\ Staged
  BY DEF GeneralInv
<1>1. CASE PublishEntry
  <2>1. mem' = mem
    BY <1>1 DEF PublishEntry, kernel
  <2> QED BY <2>1
<1>2. CASE \E i \in Images : Stage(i)
  <2>1. mem' = mem
    BY <1>2 DEF Stage, kernel
  <2> QED BY <2>1
<1>3. CASE JournalPrepared
  <2>1. mem' = mem
    BY <1>3 DEF JournalPrepared, kernel
  <2> QED BY <2>1
<1>4. CASE PrepareFails
  <2>1. mem' = mem
    BY <1>4 DEF PrepareFails, kernel
  <2> QED BY <2>1
<1>5. CASE JournalStaging
  <2>1. mem' = mem
    BY <1>5 DEF JournalStaging, kernel
  <2> QED BY <2>1
<1>6. CASE WriterBegin
  <2>1. mem' = mem
    BY <1>6 DEF WriterBegin, kernel
  <2> QED BY <2>1
<1>7. CASE WriterEnd
  <2>1. mem' = mem
    BY <1>7 DEF WriterEnd, kernel
  <2> QED BY <2>1
<1>8. CASE WriterCancel
  <2>1. mem' = mem
    BY <1>8 DEF WriterCancel, kernel
  <2> QED BY <2>1
<1>9. CASE WriterFails
  <2>1. mem' = mem
    BY <1>9 DEF WriterFails, kernel
  <2> QED BY <2>1
<1>10. CASE SlotPublished
  <2>1. mem' = mem
    BY <1>10 DEF SlotPublished, kernel
  <2> QED BY <2>1
<1>11. CASE WriterFinish
  <2>1. mem' = mem
    BY <1>11 DEF WriterFinish, kernel
  <2> QED BY <2>1
<1>12. CASE JournalVerified
  <2>1. /\ doing = "verified" /\ mem' = WithPending(mem, mj.target, mj.image)
    BY <1>12 DEF JournalVerified, Succeeds, OldEntryDeleted
  <2>2. /\ mj.target \in Slots /\ mj.image \in Images /\ mem \in States
        /\ mj.target = 1 - mem.active /\ mem.active \in Slots
    BY <1>a, <2>1, PhaseNames, StateFields
       DEF Typed, Placed, Staged, StagePlaces
  <2>3. mj.target # mem.active
    BY <2>2, SlotPair
  <2> QED BY <2>1, <2>2, <2>3, WithPendingFields
<1>13. CASE StagedNotPublished
  <2>1. mem' = mem
    BY <1>13 DEF StagedNotPublished, kernel
  <2> QED BY <2>1
<1>14. CASE PendingWritten
  <2>1. mem' = mem
    BY <1>14 DEF PendingWritten, kernel
  <2> QED BY <2>1
<1>15. CASE JournalCommitted
  <2>1. mem' = mem
    BY <1>15 DEF JournalCommitted, kernel
  <2> QED BY <2>1
<1>16. CASE Replicated
  <2>1. mem' = mem
    BY <1>16 DEF Replicated, kernel
  <2> QED BY <2>1
<1>17. CASE CommitFails
  <2>1. mem' = [mem EXCEPT !.recovery = TRUE] /\ mem \in States
    BY <1>17, <1>a DEF CommitFails, Typed
  <2> QED BY <2>1, FlaggedFields
<1>18. CASE AbortStaging
  <2>1. mem' = mem
    BY <1>18 DEF AbortStaging, kernel
  <2> QED BY <2>1
<1>19. CASE ClearFirst
  <2>1. mem' = mem
    BY <1>19 DEF ClearFirst, kernel
  <2> QED BY <2>1
<1>20. CASE ClearSecond
  BY <1>20, <1>a, ClearSecondFacts
<1>21. CASE LoadControls
  BY <1>21, PlaceNames DEF LoadControls, LoaderPlaces
<1>22. CASE Republished
  <2>1. mem' = mem
    BY <1>22 DEF Republished, kernel
  <2> QED BY <2>1
<1>23. CASE DiscardTarget
  <2>1. mem' = mem
    BY <1>23 DEF DiscardTarget, kernel
  <2> QED BY <2>1
<1>24. CASE Unstage
  <2>1. mem' = mem
    BY <1>24 DEF Unstage, kernel
  <2> QED BY <2>1
<1>25. CASE RecoveryFails
  <2>1. mem' = [mem EXCEPT !.recovery = TRUE] /\ mem \in States
    BY <1>25, <1>a DEF RecoveryFails, Typed
  <2> QED BY <2>1, FlaggedFields
<1>26. CASE Examine
  <2>1. mem.active \in Slots
    BY <1>a, StateFields DEF Typed
  <2> QED BY <1>26, <1>a, <2>1, ExamineFacts
<1>27. CASE BootConfirm
  <2>1. mem' = mem
    BY <1>27 DEF BootConfirm
  <2> QED BY <2>1
<1>28. CASE Promoted
  <2>1. mem' = mem
    BY <1>28 DEF Promoted, kernel
  <2> QED BY <2>1
<1>29. CASE PromoteFails
  <2>1. mem' = mem
    BY <1>29 DEF PromoteFails, kernel
  <2> QED BY <2>1
<1>30. CASE CancelPending
  <2>1. mem' = Cancellation /\ mem \in States
    BY <1>30, <1>a DEF CancelPending, Cancellation, Typed
  <2> QED BY <2>1, CancellationFields
<1>31. CASE Withdrawn
  <2>1. mem' = mem
    BY <1>31 DEF Withdrawn, kernel
  <2> QED BY <2>1
<1>32. CASE Cancelled
  <2>1. mem' = mem
    BY <1>32 DEF Cancelled, kernel
  <2> QED BY <2>1
<1>33. CASE CancelFails
  BY <1>33
<1>34. CASE LoaderChoice
  BY <1>34, <1>a, LoaderChoiceFacts, PlaceNames DEF LoaderPlaces
<1>35. CASE AttemptWritten
  BY <1>35, PlaceNames DEF AttemptWritten, LoaderPlaces
<1>36. CASE FailureWritten
  BY <1>36, PlaceNames DEF FailureWritten, LoaderPlaces
<1>37. CASE ControlWriteFails
  BY <1>37, PlaceNames DEF ControlWriteFails, LoaderPlaces
<1>38. CASE KernelStarts
  BY <1>38, PlaceNames DEF KernelStarts, LoaderPlaces
<1>39. CASE MenuLegacy
  BY <1>39, PlaceNames DEF MenuLegacy, LoaderPlaces
<1>40. CASE RebootIntoCandidate
  BY <1>40, PlaceNames DEF RebootIntoCandidate, PowerOn, LoaderPlaces
<1>41. CASE Restart
  BY <1>41, PlaceNames DEF Restart, PowerOn, LoaderPlaces
<1>42. CASE PowerCut
  BY <1>42, PlaceNames DEF PowerCut, PowerOn, LoaderPlaces
<1>43. CASE LoaderPowerCut
  BY <1>43, PlaceNames DEF LoaderPowerCut, PowerOn, LoaderPlaces
<1> QED
  BY <1>1, <1>2, <1>3, <1>4, <1>5, <1>6, <1>7, <1>8, <1>9, <1>10, <1>11, <1>12,
     <1>13, <1>14, <1>15, <1>16, <1>17, <1>18, <1>19, <1>20, <1>21, <1>22,
     <1>23, <1>24, <1>25, <1>26, <1>27, <1>28, <1>29, <1>30, <1>31, <1>32,
     <1>33, <1>34, <1>35, <1>36, <1>37, <1>38, <1>39, <1>40, <1>41, <1>42,
     <1>43
     DEF SlotsNext, KernelStep, LoaderStep, LoaderChoice

-----------------------------------------------------------------------------
(* The newest state after a step.                                          *)

\* A step between two undoubled states of a disk that reported no error.
CalmStep == QuietStep /\ Calm /\ errors' = 0 /\ Copies'

\* What Calm says of the newest copy e.
CalmAt(e) ==
  /\ Holds(disk, e.active, e.rec[e.active])
  /\ \A j \in Slots : \A n \in DOMAIN disk[Jrn(j)] :
       disk[Jrn(j)][n].target = 1 - e.active
  /\ mj # NoJournal => mj.target = 1 - e.active
  /\ doing \in Session \ {"promote"} =>
       mem.active = e.active /\ mem.rec[mem.active] = e.rec[e.active]

\* Two states with one active slot and one record for it.
SameActive(a, b) == a.active = b.active /\ a.rec[a.active] = b.rec[b.active]

\* What Calm says, of the one newest state.
LEMMA CalmNewest ==
  ASSUME GeneralInv, Copies, Calm
  PROVE  \E e \in States :
           /\ CalmAt(e) /\ Decodes(e) /\ e.active \in Slots
           /\ e.rec[e.active] > 0
           /\ \A i \in Slots : NewestCopy(i) => Copy(i) = e
           /\ \E i \in Slots : NewestCopy(i)
<1>1. PICK k \in Slots : Decodes(Copy(k))
  BY DEF Calm
<1>2. PICK i \in Slots : NewestCopy(i)
  BY <1>1, SomeCopyIsNewest
<1>3. /\ Decodes(Copy(i)) /\ Copy(i) \in States /\ Copy(i).active \in Slots
      /\ Copy(i).rec[Copy(i).active] > 0
  BY <1>2, CopyStates DEF NewestCopy
<1>4. CalmAt(Copy(i))
  BY <1>2 DEF Calm, CalmAt
<1>5. \A j \in Slots : NewestCopy(j) => Copy(j) = Copy(i)
  BY <1>2, NewestCopiesEqual DEF Copies
<1> QED BY <1>2, <1>3, <1>4, <1>5

\* Every state that is being written can be read back.
LEMMA WritesDecode ==
  ASSUME Copies, Calm, doing \in StateWrites \cup CopyWrites
  PROVE  Decodes(mem)
  BY DEF Copies, MemDecodes, Calm, StateWrites, CopyWrites, PendingPlaces,
         CancelPlaces

\* Without an error of the disk no write of a state fails.
LEMMA NoFailure ==
  ASSUME CalmStep, NEW p \in StateWrites \cup CopyWrites, Fails(p)
  PROVE  FALSE
<1>1. GeneralInv /\ QuietStep /\ Copies /\ Calm /\ ~DiskError
  BY ErrorFree DEF CalmStep, QuietStep
<1>2. OldEntryDeleted(p) /\ ~Confirms /\ doing = p
  BY <1>1 DEF Fails, WriteFails, OldEntryDeleted
<1>3. PICK d \in Slots : CopyReplaced(d)
  BY <1>1, <1>2, WriteDone
<1>4. Head(disk'[Dest]) = mem
  BY <1>1, <1>3, ReplacedFacts
<1>5. Decodes(mem)
  BY <1>1, <1>2, WritesDecode
<1> QED BY <1>2, <1>4, <1>5 DEF Confirms

\* The end of a promotion.
Promotes == doing = "promote" /\ \E d \in Slots : CopyReplaced(d)

\* Without a disk error the promotion ends with its first copy written.
LEMMA PromoteEnds ==
  ASSUME CalmStep, doing = "promote", doing' \in Session, doing' # "promote"
  PROVE  Promotes /\ mem' = mem
<1>1. QuietStep /\ SlotsNext /\ GeneralInv
  BY DEF CalmStep, QuietStep
<1>2. Promoted \/ PromoteFails
  <2>1. doing' \notin LoaderPlaces
    BY PlaceNames
  <2>2. ~LoaderChoice
    BY <1>1, LoaderChoiceFacts DEF GeneralInv
  <2> QED BY <1>1, <2>1, <2>2
         DEF SlotsNext, KernelStep, LoaderStep, LoaderChoice, LoaderPlaces,
                          PublishEntry, Stage, JournalPrepared, PrepareFails,
             JournalStaging,
             WriterBegin, WriterEnd, WriterCancel, WriterFails, SlotPublished,
             WriterFinish, JournalVerified, StagedNotPublished, PendingWritten,
                          JournalCommitted, Replicated, CommitFails,
             AbortStaging, ClearFirst,
             ClearSecond, LoadControls, Republished, DiscardTarget, Unstage,
             RecoveryFails, Examine, BootConfirm, CancelPending, Withdrawn,
             Cancelled, CancelFails, AttemptWritten, FailureWritten,
             ControlWriteFails, KernelStarts, MenuLegacy, RebootIntoCandidate,
             Restart, PowerCut, LoaderPowerCut, PowerOn, Succeeds, Fails,
             WriteFails, OldEntryDeleted
<1>3. ~PromoteFails
  BY NoFailure DEF PromoteFails, StateWrites
<1>4. OldEntryDeleted("promote") /\ mem' = mem
  BY <1>2, <1>3 DEF Promoted, Succeeds
<1>5. \E d \in Slots : CopyReplaced(d)
  BY <1>1, <1>4, WriteDone DEF StateWrites
<1> QED BY <1>4, <1>5 DEF Promotes

\* A copy can be read after every step.
LEMMA SomeCopyAfter ==
  ASSUME CalmStep
  PROVE  \E i \in Slots : Decodes(Copy(i)')
<1> USE DEF CalmStep, QuietStep
<1>1. CASE CopiesKept
  BY <1>1 DEF CopiesKept, Calm
<1>2. ASSUME NEW d \in Slots, CopyReplaced(d) PROVE Decodes(Copy(d)')
  BY <1>2, ReplacedFacts, WritesDecode
<1>3. ASSUME NEW k \in Slots, NEW v \in {ControlValue, Torn}, CopyMarked(k, v)
      PROVE  Decodes(Copy(k)')
  BY <1>3, MarkedFacts DEF NewestCopy
<1> QED BY <1>1, <1>2, <1>3, CopyStep

\* The newest copy after a step names the same active slot, or is a promotion.
LEMMA NewestAfter ==
  ASSUME CalmStep, NEW e \in States, CalmAt(e),
         \A i \in Slots : NewestCopy(i) => Copy(i) = e,
         NEW i \in Slots, NewestCopy(i)'
  PROVE  IF Promotes THEN Copy(i)' = mem ELSE SameActive(Copy(i)', e)
<1> USE DEF CalmStep, QuietStep
<1>1. CASE CopiesKept /\ ~Promotes
  <2>1. NewestCopy(i) /\ Copy(i)' = Copy(i)
    BY <1>1 DEF CopiesKept, NewestCopy
  <2> QED BY <1>1, <2>1 DEF SameActive
<1>2. ASSUME NEW d \in Slots, CopyReplaced(d)
      PROVE  IF Promotes THEN Copy(i)' = mem ELSE SameActive(Copy(i)', e)
  <2>1. /\ Copy(d)' = mem /\ Copy(1 - d)' = Copy(1 - d)
        /\ doing \in StateWrites \cup CopyWrites
        /\ doing \in CopyWrites => Copy(1 - d) = mem
    BY <1>2, ReplacedFacts
  <2>2. Decodes(mem) /\ mem.seq \in Nat /\ doing \in Session
    BY <2>1, WritesDecode, PlaceNames, StateFields DEF GeneralInv, Typed
  <2>3. Copy(i)' = mem
    <3>1. CASE doing \in CopyWrites
      BY <2>1, <3>1, SlotPair
    <3>2. CASE doing \in StateWrites
      <4>1. i = d
        <5>1. ASSUME i = 1 - d PROVE FALSE
          <6>1. Copy(i)' = Copy(i) /\ Decodes(Copy(i))
            BY <2>1, <5>1 DEF NewestCopy
          <6>2. mem.seq <= Copy(i).seq
            BY <2>1, <2>2, <6>1 DEF NewestCopy
          <6>3. Copy(i).seq < mem.seq
            BY <2>2, <3>2, <6>1 DEF Copies, MemIsNewest
          <6>4. Copy(i).seq \in Nat
            BY <6>1, CopyStates
          <6> QED BY <2>2, <6>2, <6>3, <6>4
        <5> QED BY <5>1, SlotPair
      <4> QED BY <2>1, <4>1
    <3> QED BY <2>1, <3>1, <3>2
  <2>4. doing # "promote" => SameActive(mem, e)
    BY <2>2 DEF CalmAt, SameActive
  <2>5. doing = "promote" => Promotes
    BY <1>2 DEF Promotes
  <2> QED BY <2>3, <2>4, <2>5 DEF Promotes
<1>3. ASSUME NEW k \in Slots, NEW v \in {ControlValue, Torn}, CopyMarked(k, v)
      PROVE  ~Promotes /\ SameActive(Copy(i)', e)
  <2>1. /\ NewestCopy(k) /\ Copy(k) = Selected(disk)
        /\ Copy(k)' = Copy(k) /\ Copy(1 - k)' = v
        /\ doing \in {"attempt", "fail"}
        /\ Decodes(v) => v = ControlValue
    BY <1>3, MarkedFacts
  <2>2. Copy(k) = e
    BY <2>1
  <2>3. ControlValue.active = e.active /\ ControlValue.rec = e.rec
    BY <2>1, <2>2, ControlFacts DEF GeneralInv
  <2>4. ~Promotes
    BY <2>1 DEF Promotes
  <2>5. CASE i = k
    BY <2>1, <2>2, <2>4, <2>5 DEF SameActive
  <2>6. CASE i = 1 - k
    <3>1. Copy(i)' = ControlValue
      BY <2>1, <2>6 DEF NewestCopy
    <3> QED BY <2>3, <2>4, <3>1 DEF SameActive
  <2> QED BY <2>5, <2>6, SlotPair
<1>4. Promotes => \E d \in Slots : CopyReplaced(d)
  BY DEF Promotes
<1> QED BY <1>1, <1>2, <1>3, <1>4, CopyStep

-----------------------------------------------------------------------------
(* The active slot keeps its image.                                        *)

\* What init loads is the newest copy.
LEMMA LoadsNewest ==
  ASSUME CalmStep, LoadControls, NEW e \in States, CalmAt(e), Decodes(e),
         \A i \in Slots : NewestCopy(i) => Copy(i) = e
  PROVE  /\ LoadedState(disk) = e
         /\ mj' # NoJournal => mj'.target = 1 - e.active
         /\ mj' # NoJournal => mj' \in WrittenJournals
         /\ SameActive(mem', e) /\ (doing' = "republish" => Decodes(mem'))
<1> USE DEF CalmStep, QuietStep
<1>1. doing = "load" /\ \A j \in Slots : ~Writing(j)
  <2>1. doing = "load"
    BY DEF LoadControls
  <2> QED BY <2>1, NotWriting DEF StateWrites, CopyWrites
<1>2. LoadedState(disk) = e
  <2>1. PICK k \in Slots : Decodes(Copy(k))
    BY DEF Calm
  <2> QED BY <1>1, <2>1, LoadedIsNewest
<1>3. /\ mj' # NoJournal => mj'.target = 1 - e.active
      /\ mj' # NoJournal => mj' \in WrittenJournals
  <2>1. mj' = NewestJournal(disk)
    BY DEF LoadControls
  <2>2. DiskTyped(disk)
    BY DEF GeneralInv, Typed
  <2> QED BY <2>1, <2>2, NewestJournalFacts DEF CalmAt
<1>4. \/ mem' = e
      \/ /\ doing' = "republish" /\ mj' \in WrittenJournals
         /\ mem' = WithPending(e, mj'.target, mj'.image)
      \/ mem' = [e EXCEPT !.recovery = TRUE]
  BY <1>2, LoadControlsFacts DEF GeneralInv
<1>5. doing' = "republish" =>
        /\ mj' \in WrittenJournals
        /\ mem' = WithPending(e, mj'.target, mj'.image)
  BY <1>2, LoadControlsFacts DEF GeneralInv
<1>6. CASE mj' \in WrittenJournals /\ mem' = WithPending(e, mj'.target, mj'.image)
  <2>1. /\ mj'.target \in Slots /\ mj'.image \in Images /\ e.active \in Slots
        /\ mj'.target = 1 - e.active
    BY <1>3, <1>6, PhaseNames, StateFields
  <2>2. mj'.target # e.active
    BY <2>1, SlotPair
  <2>3. e.rec[e.active] > 0
    BY DEF Decodes
  <2>4. /\ mem'.active = e.active /\ mem'.rec[e.active] = e.rec[e.active]
        /\ Decodes(mem')
    BY <1>6, <2>1, <2>2, <2>3, WithPendingFields
  <2> QED BY <1>2, <1>3, <2>4 DEF SameActive
<1>7. CASE doing' # "republish" /\ mem' = [e EXCEPT !.recovery = TRUE]
  <2>1. mem'.active = e.active /\ mem'.rec = e.rec
    BY <1>7, FlaggedFields
  <2> QED BY <1>2, <1>3, <1>7, <2>1 DEF SameActive
<1>8. CASE doing' # "republish" /\ mem' = e
  BY <1>2, <1>3, <1>8 DEF SameActive
<1> QED BY <1>4, <1>5, <1>6, <1>7, <1>8

(* A journal that targets the inactive slot is published again as a state  *)
(* that decodes.                                                           *)
LEMMA RepublishDecodes ==
  ASSUME CalmStep, doing' = "republish"
  PROVE  Decodes(mem')
<1> USE DEF CalmStep, QuietStep
<1>1. PICK e \in States :
           /\ CalmAt(e) /\ Decodes(e)
           /\ \A i \in Slots : NewestCopy(i) => Copy(i) = e
  BY CalmNewest
<1>2. CASE LoadControls
  BY <1>1, <1>2, LoadsNewest
<1>3. CASE PublishEntry /\ mem' = mem /\ doing' = doing
  BY <1>3 DEF Calm
<1> QED BY <1>2, <1>3, MemStepNext, PlaceNames
     DEF MemStep, LoaderPlaces, StateWrites, CancelFails, Return,
         SlotsNext

\* The image of the slot that stays active.
LEMMA ActiveKept ==
  ASSUME CalmStep, NEW e \in States, CalmAt(e), NEW a \in Slots, NEW k,
         a = e.active \/ doing = "promote"
  PROVE  Holds(disk', a, k) <=> Holds(disk, a, k)
<1> USE DEF CalmStep, QuietStep
<1>1. doing \in {"publish", "discard", "abort", "unstage"} => a # mj.target
  <2>1. doing \in {"publish", "discard", "abort", "unstage"} =>
          mj # NoJournal /\ doing # "promote"
    BY PhaseNames DEF GeneralInv, Placed, StagePlaces, InitPlaces
  <2>2. mj # NoJournal => mj.target = 1 - e.active
    BY DEF CalmAt
  <2>3. e.active \in Slots /\ 1 - e.active # e.active
    BY StateFields, SlotPair
  <2> QED BY <2>1, <2>2, <2>3
<1> QED BY <1>1, HoldsKept

\* Every step leaves the newest copy as Calm wants it.
LEMMA CalmAtNext ==
  ASSUME CalmStep, NEW e \in States, CalmAt(e), Decodes(e),
         \A i \in Slots : NewestCopy(i) => Copy(i) = e,
         NEW i \in Slots, NewestCopy(i)'
  PROVE  CalmAt(Copy(i))'
<1> USE DEF CalmStep, QuietStep
<1> DEFINE Held(a, r) ==
      /\ Holds(disk', a, r)
      /\ \A j \in Slots : \A n \in DOMAIN disk'[Jrn(j)] :
           disk'[Jrn(j)][n].target = 1 - a
      /\ mj' # NoJournal => mj'.target = 1 - a
      /\ doing' \in Session \ {"promote"} =>
           mem'.active = a /\ mem'.rec[mem'.active] = r
<1>0. PICK c : c = Copy(i)'
  OBVIOUS
<1> SUFFICES Held(c.active, c.rec[c.active])
  BY <1>0 DEF CalmAt
<1>1. IF Promotes THEN c = mem ELSE SameActive(c, e)
  BY <1>0, NewestAfter
<1>2. e.active \in Slots /\ mem \in States /\ mem.active \in Slots
  BY StateFields DEF GeneralInv, Typed
<1>3. ASSUME NEW j \in Slots
      PROVE  /\ DOMAIN disk'[Jrn(j)] = 1..Len(disk'[Jrn(j)])
             /\ DOMAIN disk[Jrn(j)] = 1..Len(disk[Jrn(j)])
             /\ disk'[Jrn(j)] = <<>> <=> Len(disk'[Jrn(j)]) = 0
  BY JournalNames, EntriesOf DEF GeneralInv, Typed
<1>4. CASE ~Promotes
  <2>1. c.active = e.active /\ c.rec[c.active] = e.rec[e.active]
    BY <1>1, <1>4 DEF SameActive
  <2>2. Holds(disk', e.active, e.rec[e.active])
    BY <1>2, ActiveKept DEF CalmAt
  <2>3. ASSUME NEW j \in Slots, NEW n \in DOMAIN disk'[Jrn(j)]
        PROVE  disk'[Jrn(j)][n].target = 1 - e.active
    <3>1. \/ \E m \in DOMAIN disk[Jrn(j)] : disk'[Jrn(j)][n] = disk[Jrn(j)][m]
          \/ doing \in JournalWrites /\ disk'[Jrn(j)][n] = mj
      BY <1>3, <2>3, JournalsNext DEF GeneralInv
    <3>2. doing \in JournalWrites => mj # NoJournal
      BY PhaseNames DEF GeneralInv, Placed, JournalWrites, StagePlaces,
                        PendingPlaces
    <3> QED BY <3>1, <3>2 DEF CalmAt
  <2>4. mj' # NoJournal => mj'.target = 1 - e.active
    <3>1. CASE LoadControls
      BY <3>1, LoadsNewest
    <3>2. CASE doing = "idle" /\ mj'.target = 1 - mem.active
      BY <3>2, PlaceNames DEF CalmAt
    <3>3. CASE mj # NoJournal /\ mj'.target = mj.target
      BY <3>3 DEF CalmAt
    <3> QED BY <3>1, <3>2, <3>3, JournalInMemoryNext
  <2>5. ASSUME doing' \in Session, doing' # "promote"
        PROVE  mem'.active = e.active /\ mem'.rec[e.active] = e.rec[e.active]
    <3>1. CASE LoadControls
      BY <3>1, LoadsNewest DEF SameActive
    <3>2. CASE doing \in Session
      <4>1. doing # "promote"
        BY <1>4, <2>5, PromoteEnds
      <4>2. /\ mem.active = e.active /\ mem.rec[mem.active] = e.rec[e.active]
            /\ Holds(disk, mem.active, mem.rec[mem.active])
        BY <3>2, <4>1 DEF CalmAt
      <4>3. ~CancelFails
        BY NoFailure DEF CancelFails, StateWrites, CopyWrites
      <4> QED BY <2>5, <3>2, <4>2, <4>3, MemActiveNext
    <3>3. doing \in Session \/ LoadControls
      BY <2>5, MemStepNext, PlaceNames DEF MemStep, PublishEntry, CancelFails,
           Fails, WriteFails, OldEntryDeleted, StateWrites, CopyWrites
    <3> QED BY <3>1, <3>2, <3>3
  <2> QED BY <2>1, <2>2, <2>3, <2>4, <2>5
<1>5. CASE Promotes
  <2>1. c = mem /\ doing = "promote" /\ mj = NoJournal
    BY <1>1, <1>5 DEF Promotes, GeneralInv, Placed
  <2>2. Holds(disk', mem.active, mem.rec[mem.active])
    BY <1>2, <2>1, ActiveKept DEF GeneralInv, Staged
  <2>3. ~JournalPresent(disk')
    <3>1. ~JournalPresent(disk)
      BY <2>1 DEF GeneralInv, InLoader
    <3> QED BY <2>1, <3>1, JournalPresence DEF GeneralInv, JournalWrites
  <2>4. ASSUME NEW j \in Slots PROVE DOMAIN disk'[Jrn(j)] = {}
    <3>1. disk'[Jrn(j)] = <<>>
      BY <2>3 DEF JournalPresent, Exists
    <3> QED BY <3>1
  <2>5. mj' = NoJournal
    BY <2>1, JournalInMemoryNext DEF LoadControls
  <2>6. doing' \in Session \ {"promote"} => mem' = mem
    BY <2>1, PromoteEnds
  <2> QED BY <2>1, <2>2, <2>4, <2>5, <2>6
<1> QED BY <1>4, <1>5

\* Calm is inductive while the disk reports no error.
LEMMA CalmNext ==
  ASSUME CalmStep
  PROVE  Calm'
<1>1. PICK e \in States :
           /\ CalmAt(e) /\ Decodes(e)
           /\ \A i \in Slots : NewestCopy(i) => Copy(i) = e
  BY CalmNewest DEF CalmStep, QuietStep
<1>2. \A i \in Slots : NewestCopy(i)' => CalmAt(Copy(i))'
  BY <1>1, CalmAtNext
<1>3. (\E i \in Slots : Decodes(Copy(i)))'
  BY SomeCopyAfter
<1>4. (doing = "republish" => Decodes(mem))'
  BY RepublishDecodes
<1> QED BY <1>2, <1>3, <1>4 DEF Calm, CalmAt

-----------------------------------------------------------------------------
(* The invariant, and what follows from it.                                *)

\* The factory image satisfies Copies and Calm.
LEMMA FactoryCopies ==
  ASSUME SlotsInit
  PROVE  Copies /\ Calm
<1>1. GeneralInv /\ half = 0 /\ doing = "loader" /\ starts = 0 /\ mj = NoJournal
  BY GeneralInit DEF SlotsInit
<1>2. \A i \in Slots : ~Writing(i)
  BY <1>1 DEF Writing
<1>3. ASSUME NEW i \in Slots PROVE Copy(i) = Factory
  <2>1. disk[Sta(i)] = <<Factory>>
    BY FactoryDisk DEF Slots
  <2> HIDE DEF Factory
  <2> QED BY <1>2, <2>1 DEF Copy
<1>4. doing \notin Session
  BY <1>1, PlaceNames DEF LoaderPlaces
<1>5. /\ Factory.active = 0 /\ Factory.rec[0] = 1 /\ Factory.boot = "NONE"
      /\ Factory.pending = NoSlot /\ Factory \in States
  BY Factories
<1>6. Decodes(Factory)
  BY Factories
<1> HIDE DEF Factory
<1>7. NewEntryIsMem /\ CopiesAgree /\ MemIsNewest /\ FirstCopyWritten
  <2>1. 0 \in Slots /\ 1 \in Slots
    BY SlotPair
  <2>2. doing \notin CopyWrites \cup {"committed"}
    BY <1>1 DEF CopyWrites
  <2> QED BY <1>2, <1>3, <1>4, <2>1, <2>2
       DEF NewEntryIsMem, CopiesAgree, MemIsNewest, FirstCopyWritten
<1>8. MemDecodes
  BY <1>1, <1>4 DEF MemDecodes, PendingPlaces, CancelPlaces
<1>9. StartsCounted
  <2>1. InFlight = 0
    BY <1>1 DEF InFlight
  <2>2. Spent(Factory) = AttemptLimit
    BY <1>5, SpentFacts
  <2>3. 0 <= AttemptLimit
    BY BoundsAssumption
  <2> QED BY <1>1, <1>3, <2>1, <2>2, <2>3 DEF StartsCounted
<1>10. Calm
  <2>1. Holds(disk, 0, 1)
    <3>1. disk[Slot(0)] = <<1>>
      BY FactoryDisk
    <3>2. disk[Slot(0)] # <<>> /\ Head(disk[Slot(0)]) = 1
      BY <3>1
    <3> QED BY <3>2 DEF Holds, Exists
  <2>2. ASSUME NEW j \in Slots PROVE DOMAIN disk[Jrn(j)] = {}
    <3>1. disk[Jrn(j)] = <<>>
      BY FactoryDisk DEF Slots
    <3> QED BY <3>1
  <2> QED BY <1>1, <1>3, <1>4, <1>5, <1>6, <2>1, <2>2, SlotPair DEF Calm
<1> QED BY <1>7, <1>8, <1>9, <1>10 DEF Copies

\* SlotsInv is a state predicate of slotsVars.
LEMMA SlotsInvStutters ==
  ASSUME SlotsInv, UNCHANGED slotsVars
  PROVE  SlotsInv'
<1>1. /\ disk' = disk /\ doing' = doing /\ half' = half /\ mem' = mem
      /\ mj' = mj /\ bad' = bad /\ run' = run /\ starts' = starts
      /\ errors' = errors
  BY DEF slotsVars, kernel, history, counts
<1>2. GeneralInv'
  BY GeneralStutters DEF SlotsInv
<1>3. Dest' = Dest /\ InFlight' = InFlight
  BY <1>1 DEF Dest, InFlight
<1>4. \A i \in Slots : Writing(i)' = Writing(i)
  BY <1>1, <1>3 DEF Writing
<1>5. \A i \in Slots : Copy(i)' = Copy(i)
  BY <1>1, <1>4 DEF Copy
<1>6. \A i \in Slots : NewestCopy(i)' = NewestCopy(i)
  BY <1>5 DEF NewestCopy
<1>7. Undoubled' = Undoubled
  BY <1>1, <1>3 DEF Undoubled
<1>8. NewEntryIsMem' = NewEntryIsMem
  BY <1>1, <1>4 DEF NewEntryIsMem
<1>9. CopiesAgree' = CopiesAgree
  BY <1>5, SlotPair DEF CopiesAgree
<1>10. MemIsNewest' = MemIsNewest
  BY <1>1, <1>5 DEF MemIsNewest
<1>11. FirstCopyWritten' = FirstCopyWritten
  BY <1>1, <1>3 DEF FirstCopyWritten, Copy, Writing
<1>12. MemDecodes' = MemDecodes
  BY <1>1 DEF MemDecodes
<1>13. StartsCounted' = StartsCounted
  BY <1>1, <1>3, <1>5, <1>6 DEF StartsCounted, Spent
<1>14. Calm' = Calm
  BY <1>1, <1>5, <1>6 DEF Calm
<1> QED BY <1>1, <1>2, <1>7, <1>8, <1>9, <1>10, <1>11, <1>12, <1>13, <1>14
     DEF SlotsInv, Copies

\* SlotsInv is inductive.
LEMMA SlotsInvNext ==
  ASSUME SlotsInv, SlotsNext
  PROVE  SlotsInv'
<1>1. GeneralInv /\ GeneralInv'
  BY GeneralNext DEF SlotsInv
<1>2. ASSUME Undoubled' PROVE QuietStep /\ Copies'
  <2>1. QuietStep
    BY <1>1, <1>2, UndoubledBefore DEF SlotsInv, QuietStep
  <2> QED BY <2>1, CopiesInvNext
<1>3. ASSUME Undoubled', errors' = 0 PROVE Calm'
  <2>1. errors = 0 /\ Undoubled
    BY <1>1, <1>3, ErrorFree, UndoubledBefore
  <2>2. CalmStep
    BY <1>2, <1>3, <2>1 DEF CalmStep, SlotsInv
  <2> QED BY <2>2, CalmNext
<1> QED BY <1>1, <1>2, <1>3 DEF SlotsInv

\* The inductive invariant of the update slots.
LEMMA SlotsInvHolds == SlotsSpec => []SlotsInv
<1>1. SlotsInit => SlotsInv
  BY GeneralInit, FactoryCopies DEF SlotsInv
<1>2. SlotsInv /\ [SlotsNext]_slotsVars => SlotsInv'
  BY SlotsInvNext, SlotsInvStutters
<1> QED BY <1>1, <1>2, PTL DEF SlotsSpec

\* What a lookup finds under a state's name, replacements included.
LEMMA Heads ==
  ASSUME GeneralInv, Copies, NEW i \in Slots
  PROVE  /\ Exists(disk, Sta(i))
         /\ \/ Head(disk[Sta(i)]) = Copy(i)
            \/ Head(disk[Sta(i)]) = mem /\ Writing(i)
<1>1. Exists(disk, Sta(i)) /\ Head(disk[Sta(i)]) = disk[Sta(i)][1]
  BY StateLengths
<1>2. CASE ~Writing(i)
  BY <1>1, <1>2, CopyIsHead
<1>3. CASE Writing(i)
  <2>1. half \in {1, 2} /\ Copy(i) = disk[Sta(i)][half]
        /\ disk[Sta(i)][3 - half] = mem
    BY <1>3 DEF Writing, Copy, Copies, NewEntryIsMem
  <2>2. CASE half = 1
    BY <1>1, <2>1, <2>2
  <2>3. CASE half = 2
    BY <1>1, <1>3, <2>1, <2>3
  <2> QED BY <2>1, <2>2, <2>3
<1> QED BY <1>2, <1>3

(* What a reader selects is the newest copy or the state being written:    *)
(* its active slot holds its image.                                        *)
LEMMA BootableActive ==
  ASSUME GeneralInv, Copies, Calm
  PROVE  /\ Trusted(disk)
         /\ LET s == Selected(disk) IN Holds(disk, s.active, s.rec[s.active])
<1> DEFINE h(i) == Head(disk[Sta(i)])
<1>1. ASSUME NEW i \in Slots
      PROVE  /\ Exists(disk, Sta(i))
             /\ h(i) = Copy(i) \/ (h(i) = mem /\ Writing(i))
  BY Heads
<1>2. ASSUME NEW d \in Slots, Writing(d)
      PROVE  /\ doing \in StateWrites \cup CopyWrites /\ doing \in Session
             /\ ~Writing(1 - d) /\ Decodes(mem) /\ mem.seq \in Nat
             /\ doing \in CopyWrites => Copy(1 - d) = mem
             /\ \A j \in Slots : Decodes(Copy(j)) =>
                  /\ Copy(j).seq \in Nat /\ Copy(j).seq <= mem.seq
                  /\ doing \in StateWrites => Copy(j).seq < mem.seq
  <2>1. /\ doing \in StateWrites \cup CopyWrites /\ Dest = Sta(d)
        /\ ~Writing(1 - d) /\ doing \in Session
    BY <1>2, WritingFacts, SlotPair, PlaceNames
  <2>2. Decodes(mem) /\ mem.seq \in Nat
    BY <2>1, WritesDecode, StateFields DEF GeneralInv, Typed
  <2>3. \A j \in Slots : Decodes(Copy(j)) =>
                  /\ Copy(j).seq \in Nat /\ Copy(j).seq <= mem.seq
                  /\ doing \in StateWrites => Copy(j).seq < mem.seq
    BY <2>1, CopyStates DEF Copies, MemIsNewest
  <2>4. doing \in CopyWrites => Copy(1 - d) = mem
    <3>1. PICK c \in Slots : /\ Dest = Sta(c)
                             /\ doing \in CopyWrites => c = 1 - (mem.seq % 2)
      BY <2>1, WritesOfAState
    <3>2. c = d
      BY <2>1, <3>1, FileNames
    <3>3. mem.seq % 2 \in Int
      BY <2>2
    <3>4. doing \in CopyWrites => 1 - d = mem.seq % 2
      BY <3>1, <3>2, <3>3
    <3> QED BY <3>4 DEF Copies, FirstCopyWritten
  <2> QED BY <2>1, <2>2, <2>3, <2>4
<1>3. Readable(disk) # {}
  <2>1. PICK k \in Slots : Decodes(Copy(k))
    BY DEF Calm
  <2>2. Decodes(h(k))
    BY <1>1, <1>2, <2>1
  <2> QED BY <1>1, <2>2 DEF Readable
<1>4. Decodes(h(0)) /\ Decodes(h(1)) /\ h(0).seq = h(1).seq => h(0) = h(1)
  <2> SUFFICES ASSUME Decodes(h(0)), Decodes(h(1)), h(0).seq = h(1).seq
               PROVE  h(0) = h(1)
    OBVIOUS
  <2>1. CASE h(0) = Copy(0) /\ h(1) = Copy(1)
    BY <2>1 DEF Copies, CopiesAgree
  <2>2. ASSUME NEW d \in Slots, h(d) = mem, Writing(d),
               h(1 - d) = Copy(1 - d)
        PROVE  h(d) = h(1 - d)
    <3>1. Decodes(Copy(1 - d)) /\ Copy(1 - d).seq = mem.seq
      BY <2>2 DEF Slots
    <3>2. CASE doing \in CopyWrites
      BY <1>2, <2>2, <3>2
    <3>3. CASE doing \in StateWrites
      <4>1. Copy(1 - d).seq < mem.seq /\ mem.seq \in Nat
        BY <1>2, <2>2, <3>1, <3>3, SlotPair
      <4> QED BY <3>1, <4>1
    <3> QED BY <1>2, <2>2, <3>2, <3>3
  <2> HIDE DEF h
  <2>3. CASE h(0) # Copy(0)
    <3>1. h(0) = mem /\ Writing(0) /\ 0 \in Slots
      BY <1>1, <2>3, SlotPair
    <3>2. ~Writing(1) /\ 1 - 0 = 1
      BY <1>2, <3>1
    <3>3. h(1) = Copy(1)
      BY <1>1, <3>2, SlotPair
    <3> QED BY <2>2, <3>1, <3>2, <3>3
  <2>4. CASE h(1) # Copy(1)
    <3>1. h(1) = mem /\ Writing(1) /\ 1 \in Slots
      BY <1>1, <2>4, SlotPair
    <3>2. ~Writing(0) /\ 1 - 1 = 0
      BY <1>2, <3>1
    <3>3. h(0) = Copy(0)
      BY <1>1, <3>2, SlotPair
    <3> QED BY <2>2, <3>1, <3>2, <3>3
  <2> QED BY <2>1, <2>3, <2>4
<1>5. Trusted(disk)
  <2>1. Readable(disk) = Slots => Decodes(h(0)) /\ Decodes(h(1))
    BY SlotPair DEF Readable
  <2> QED BY <1>3, <1>4, <2>1 DEF Trusted
<1>6. PICK n \in Slots : n = Newest(disk)
  BY <1>3, Chosen DEF GeneralInv, Typed
<1>7. /\ Selected(disk) = h(n) /\ Decodes(h(n))
      /\ \A j \in Readable(disk) : h(j).seq <= h(n).seq
  <2>1. Selected(disk) = h(n)
    BY <1>6 DEF Selected
  <2>2. /\ Decodes(Selected(disk))
        /\ \A j \in Readable(disk) : Head(disk[Sta(j)]).seq <= Selected(disk).seq
    BY <1>3, Chosen DEF GeneralInv, Typed
  <2> QED BY <2>1, <2>2
<1>8. \A j \in Slots : Decodes(h(j)) => h(j).seq <= h(n).seq
  BY <1>1, <1>7 DEF Readable
<1> HIDE DEF h
<1>9. CASE h(n) = Copy(n)
  <2>1. ASSUME NEW j \in Slots, Decodes(Copy(j))
        PROVE  Copy(j).seq <= Copy(n).seq
    <3>1. CASE h(j) = Copy(j)
      BY <1>8, <1>9, <2>1, <3>1
    <3>2. CASE h(j) = mem /\ Writing(j)
      <4>1. Decodes(mem) /\ mem.seq \in Nat /\ Copy(j).seq \in Nat
            /\ Copy(j).seq <= mem.seq
        BY <1>2, <2>1, <3>2
      <4>2. mem.seq <= Copy(n).seq
        BY <1>8, <1>9, <3>2, <4>1
      <4>3. Copy(n).seq \in Nat
        BY <1>7, <1>9, CopyStates
      <4> QED BY <4>1, <4>2, <4>3
    <3> QED BY <1>1, <3>1, <3>2
  <2>2. NewestCopy(n)
    BY <1>7, <1>9, <2>1 DEF NewestCopy
  <2> QED BY <1>5, <1>7, <1>9, <2>2 DEF Calm
<1>10. CASE h(n) = mem /\ Writing(n)
  <2>1. Holds(disk, mem.active, mem.rec[mem.active])
    <3>1. CASE doing = "promote"
      BY <3>1 DEF GeneralInv, Staged
    <3>2. CASE doing # "promote"
      <4>1. PICK e \in States : CalmAt(e)
        BY CalmNewest
      <4>2. doing \in Session
        BY <1>2, <1>10
      <4> QED BY <3>2, <4>1, <4>2 DEF CalmAt
    <3> QED BY <3>1, <3>2
  <2> QED BY <1>5, <1>7, <1>10, <2>1
<1> QED BY <1>1, <1>9, <1>10

(* While the state files are undoubled and the disk has reported no error, *)
(* in every state, a power cut in any write included, a copy of the state  *)
(* can be read, two copies of one sequence are the same                    *)
(* (recovery_controls_load finds no divergence) and the slot the loader    *)
(* falls back to holds the recorded image: no power cut of a staging, a    *)
(* promotion or a cancellation leaves a machine that does not start.       *)
THEOREM ActiveAlwaysBootable == SlotsSpec => []ActiveIsBootable
<1>1. SlotsInv => ActiveIsBootable
  BY TypesOfGeneral, BootableActive DEF SlotsInv, ActiveIsBootable
<1> QED BY <1>1, SlotsInvHolds, PTL

(* While the state files are undoubled the candidate is started at most    *)
(* AttemptLimit times, however often the power is cut: the loader writes   *)
(* the attempt before it jumps (recovery_publish_attempt) and publishing   *)
(* the candidate is what sets the count back.                              *)
THEOREM AttemptsStayBounded == SlotsSpec => []AttemptsAreBounded
<1>1. SlotsInv => AttemptsAreBounded
  <2> SUFFICES ASSUME SlotsInv, Undoubled PROVE starts <= AttemptLimit
    BY DEF AttemptsAreBounded
  <2>1. starts + InFlight <= AttemptLimit
    BY DEF SlotsInv, Copies, StartsCounted
  <2>2. starts \in Nat /\ InFlight \in {0, 1} /\ AttemptLimit \in Nat
    BY BoundsAssumption DEF SlotsInv, GeneralInv, Typed, InFlight
  <2> QED BY <2>1, <2>2
<1> QED BY <1>1, SlotsInvHolds, PTL
=============================================================================
