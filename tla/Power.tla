-------------------------------- MODULE Power --------------------------------
(***************************************************************************)
(* The shutdown and reboot transaction: core/power.c, the participants'    *)
(* chain core/power_notifier.c and the quiescence gates it closes and      *)
(* reopens in the processes, the workqueue, the VFS and the network.       *)
(*                                                                         *)
(* Kernel code is cooperative: once a request is admitted its task gives   *)
(* the CPU up in one place only, process_block(1) in                       *)
(* process_power_shutdown_users. Elsewhere only the timer interrupt comes  *)
(* between two steps, so it is always the clock that may have moved.       *)
(* Ticks are modulo TickSpace and deadlines are compared as the code does, *)
(* by the sign of the difference.                                          *)
(***************************************************************************)
EXTENDS Integers, FiniteSets

CONSTANTS Machines,          \* what a machine may offer: see methods
          Users,             \* ring 3 processes that may exist
          Works,             \* works that schedule themselves again
          Volumes,           \* Storage mounts that are not pinned
          NotificationBudget, SyncBudget, QuiescenceBudget, CommitBudget,
          ProcessGuard,      \* POWER_PROCESS_DEADLINE_GUARD_TICKS
          TickSpace,         \* 2^32 in the code
          Start,             \* tick at which a request finds the clock
          MaxLate            \* bound: ticks a transaction may run over

ASSUME MachinesAssumption == Machines \subseteq 
  SUBSET {"s5", "acpi_reset", "ps2", "boot_volume"}
ASSUME BudgetAssumption ==
  /\ {NotificationBudget, SyncBudget, QuiescenceBudget, CommitBudget,
      ProcessGuard, MaxLate} \subseteq Nat
  /\ ProcessGuard < NotificationBudget /\ CommitBudget > 0
  /\ TickSpace \in Nat /\ Start \in 0..(TickSpace - 1)
  /\ TickSpace > 2 * (NotificationBudget + SyncBudget + QuiescenceBudget
                      + CommitBudget + MaxLate)

TotalBudget == NotificationBudget + SyncBudget + QuiescenceBudget + CommitBudget

Gates == {"process", "supervisor", "workqueue", "vfs", "network"}

\* The order of power_notifier_expected_names, ended by "done".
Participants == <<"processes", "workqueue", "vfs-storage", "audio",
                  "network", "video", "done">>
Optional == {"audio", "network", "video"}

VARIABLES
  now,       \* timer_get_ticks
  methods,   \* what this machine offers: "s5", "acpi_reset", "ps2", and
             \* "boot_volume", a pinned Storage mount that no one unmounts
  tx,        \* power_transaction_active, the deadlines and power_status;
             \* unsynced (auxiliary): the sync failed and was taken as done
  pc,        \* where the admitted request is
  turn,      \* index of the participant whose callback is next
  gate,      \* the quiescing flags
  user,      \* ring 3 processes
  work,      \* periodic works
  mounted,   \* volumes that are mounted
  busy,      \* volumes with an open file or a working directory
  operation, \* a kernel task is blocked inside a normal VFS operation
  dirty      \* the block cache holds blocks that are not on the disk

vars == <<now, methods, tx, pc, turn, gate, user, work, mounted, busy,
          operation, dirty>>
world == <<user, work, mounted, busy, operation, dirty>>

Phases == {"IDLE", "ADMISSION", "NOTIFICATION", "SYNC_FLUSH", "QUIESCENCE",
           "HARDWARE_COMMIT", "TERMINAL"}
Ticks == 0..(TickSpace - 1)

\* (int32_t)(now - deadline) >= 0
Reached(deadline) == (now - deadline) % TickSpace < TickSpace \div 2
After(ticks) == (now + ticks) % TickSpace
Left(deadline) == (deadline - now) % TickSpace

Init ==
  /\ now = Start
  /\ methods \in Machines
  /\ tx = [active |-> FALSE, phase |-> "IDLE", target |-> "NONE",
           commit_started |-> FALSE, degraded |-> FALSE, unsynced |-> FALSE,
           deadline |-> Start, phase_deadline |-> Start]
  /\ pc = "none" /\ turn = 1
  /\ gate = [g \in Gates |-> FALSE]
  /\ user = [u \in Users |-> "none"]
  /\ work = [w \in Works |-> "scheduled"]
  /\ mounted = Volumes /\ busy = {}
  /\ operation = FALSE /\ dirty = FALSE

-----------------------------------------------------------------------------
(* Admission.                                                              *)

\* Fault: a request is admitted over another one.
BeginFaulty(reboot) ==
  /\ reboot \/ "s5" \in methods
  /\ tx' = [active |-> TRUE, phase |-> "ADMISSION",
            target |-> IF reboot THEN "REBOOT" ELSE "SHUTDOWN",
            commit_started |-> FALSE, degraded |-> FALSE, unsynced |-> FALSE,
            deadline |-> After(TotalBudget), phase_deadline |-> now]
  /\ pc' = "enter_notification"
  /\ UNCHANGED <<now, methods, turn, gate, world>>

\* power_transaction_begin admits the request. TRUE asks for a reboot.
Begin(reboot) ==
  /\ ~tx.active
  /\ reboot \/ "s5" \in methods
  /\ tx' = [active |-> TRUE, phase |-> "ADMISSION",
            target |-> IF reboot THEN "REBOOT" ELSE "SHUTDOWN",
            commit_started |-> FALSE, degraded |-> FALSE, unsynced |-> FALSE,
            deadline |-> After(TotalBudget), phase_deadline |-> now]
  /\ pc' = "enter_notification"
  /\ UNCHANGED <<now, methods, turn, gate, world>>

\* Fault: the VFS gate stays closed after an abort.
FailFaulty ==
  /\ IF tx.commit_started
     THEN tx' = [tx EXCEPT !.phase = "TERMINAL"] /\ UNCHANGED gate
     ELSE /\ gate' = [g \in Gates |-> g = "vfs" /\ gate[g]]
          /\ tx' = [tx EXCEPT !.active = FALSE, !.phase = "IDLE",
                              !.target = "NONE", !.degraded = FALSE,
                              !.unsynced = FALSE,
                              !.deadline = Start, !.phase_deadline = Start]
  /\ pc' = "none" /\ turn' = 1 /\ now' = Start

(***************************************************************************)
(* power_record_failure: before the commit every gate is opened again and  *)
(* the transaction is withdrawn; after it the phase becomes TERMINAL and   *)
(* nothing is undone. The ticks between transactions decide nothing, so    *)
(* every transaction starts at the same one.                               *)
(***************************************************************************)
Fail ==
  /\ IF tx.commit_started
     THEN tx' = [tx EXCEPT !.phase = "TERMINAL"] /\ UNCHANGED gate
     ELSE /\ gate' = [g \in Gates |-> FALSE]
          /\ tx' = [tx EXCEPT !.active = FALSE, !.phase = "IDLE",
                              !.target = "NONE", !.degraded = FALSE,
                              !.unsynced = FALSE,
                              !.deadline = Start, !.phase_deadline = Start]
  /\ pc' = "none" /\ turn' = 1 /\ now' = Start

Abort(from) == pc = from /\ Fail /\ UNCHANGED <<methods, world>>

(***************************************************************************)
(* power_phase_enter: a phase is entered when the total deadline has not   *)
(* been reached and leaves room for the whole budget of the phase.         *)
(***************************************************************************)
CanEnter(budget) == tx.active /\ ~Reached(tx.deadline)
                    /\ Left(tx.deadline) >= budget

PhaseEnter(from, phase, budget, to) ==
  /\ pc = from
  /\ \/ /\ CanEnter(budget)
        /\ tx' = [tx EXCEPT !.phase = phase, !.phase_deadline = After(budget)]
        /\ pc' = to /\ turn' = 1
        /\ UNCHANGED <<now, methods, gate, world>>
     \/ ~CanEnter(budget) /\ Abort(from)

EnterNotification ==
  PhaseEnter("enter_notification", "NOTIFICATION", NotificationBudget, "notify")
EnterSync == PhaseEnter("enter_sync", "SYNC_FLUSH", SyncBudget, "sync")
EnterQuiescence ==
  PhaseEnter("enter_quiescence", "QUIESCENCE", QuiescenceBudget, "quiesce")
EnterCommit ==
  PhaseEnter("enter_commit", "HARDWARE_COMMIT", CommitBudget, "commit")

PhaseExpired == Reached(tx.phase_deadline) \/ Reached(tx.deadline)

-----------------------------------------------------------------------------
(* power_notifier_run, first over the notification callbacks.              *)

\* The participant's callback returns OK, or ERR_UNAVAILABLE when optional.
Done(unavailable) ==
  /\ turn' = turn + 1
  /\ tx' = [tx EXCEPT !.degraded = @ \/ unavailable]
  /\ UNCHANGED <<now, methods>>

Turn(at, participant) == pc = at /\ Participants[turn] = participant
                         /\ ~Reached(tx.phase_deadline)

\* The chain is over time, or a callback found its deadline reached.
Overrun ==
  /\ pc \in {"notify", "quiesce"} /\ Participants[turn] # "done"
  /\ Reached(tx.phase_deadline)
  /\ Abort(pc)

(***************************************************************************)
(* power_notify_processes closes the two gates and, when more than the     *)
(* guard is left, sends SIGTERM and starts to wait.                        *)
(***************************************************************************)
NotifyProcesses ==
  /\ Turn("notify", "processes")
  /\ \/ /\ Left(tx.phase_deadline) > ProcessGuard
        /\ gate' = [gate EXCEPT !["process"] = TRUE, !["supervisor"] = TRUE]
        /\ pc' = "wait_users"
        /\ UNCHANGED <<now, methods, tx, turn, world>>
     \/ Left(tx.phase_deadline) <= ProcessGuard /\ Abort("notify")

ActiveUsers == {u \in Users : user[u] \in {"running", "in_vfs"}}
UserDeadline == (tx.phase_deadline - ProcessGuard) % TickSpace

\* Fault: users that survived SIGTERM are left alone.
KillUsersFaulty ==
  /\ pc = "wait_users"
  /\ ActiveUsers = {} \/ Reached(UserDeadline)
  /\ user' = [u \in Users |-> IF user[u] = "zombie" THEN "none" ELSE user[u]]
  /\ pc' = "notify"
  /\ Done(FALSE)
  /\ UNCHANGED <<gate, work, mounted, busy, operation, dirty>>

\* Fault: the wait for the users has no end.
KillUsersWaits ==
  /\ pc = "wait_users"
  /\ ActiveUsers = {}
  /\ user' = [u \in Users |-> "none"]
  /\ pc' = "notify"
  /\ Done(FALSE)
  /\ UNCHANGED <<gate, work, mounted, busy, operation, dirty>>

(***************************************************************************)
(* The wait is over: no user is active or the deadline has come. SIGKILL   *)
(* ends a user at once unless it is blocked inside a VFS operation, whose  *)
(* descriptor cannot be released: the signal then fails and the request    *)
(* with it. Zombies are reaped.                                            *)
(***************************************************************************)
KillUsers ==
  /\ pc = "wait_users"
  /\ ActiveUsers = {} \/ Reached(UserDeadline)
  /\ \/ /\ \A u \in ActiveUsers : user[u] # "in_vfs"
        /\ user' = [u \in Users |-> "none"]
        /\ pc' = "notify"
        /\ Done(FALSE)
        /\ UNCHANGED <<gate, work, mounted, busy, operation, dirty>>
     \/ /\ \E u \in ActiveUsers : user[u] = "in_vfs"
        /\ user' = [u \in Users |-> IF user[u] = "in_vfs" THEN "running"
                                    ELSE IF user[u] = "running" THEN "zombie"
                                    ELSE user[u]]
        /\ Fail
        /\ UNCHANGED <<methods, work, mounted, busy, operation, dirty>>

NotifyWorkqueue ==
  /\ Turn("notify", "workqueue")
  /\ gate' = [gate EXCEPT !["workqueue"] = TRUE]
  /\ Done(FALSE) /\ UNCHANGED <<pc, world>>

\* vfs_power_set_quiescing; no mount or unmount is under way here, because
\* those never give the CPU up.
NotifyVfs ==
  /\ Turn("notify", "vfs-storage")
  /\ gate' = [gate EXCEPT !["vfs"] = TRUE]
  /\ Done(FALSE) /\ UNCHANGED <<pc, world>>

\* power_noop_notifier
NotifyNothing ==
  /\ \E p \in Optional : Turn("notify", p)
  /\ Done(FALSE) /\ UNCHANGED <<pc, gate, world>>

EndNotification ==
  /\ pc = "notify" /\ Participants[turn] = "done"
  /\ \/ /\ ~PhaseExpired
        /\ pc' = "enter_sync" /\ UNCHANGED <<now, methods, tx, turn, gate, world>>
     \/ PhaseExpired /\ Abort("notify")

-----------------------------------------------------------------------------
(***************************************************************************)
(* storage_sync_all_until: every block reaches its disk, or an error or    *)
(* the deadline ends it. ERR_STATE (another task is inside a sync, or the  *)
(* writeback made no progress) counts as success when no Storage volume is *)
(* in the mount table.                                                     *)
(***************************************************************************)
SyncFlush ==
  /\ pc = "sync"
  /\ \/ /\ ~PhaseExpired
        /\ dirty' = FALSE /\ pc' = "enter_quiescence"
        /\ UNCHANGED <<now, methods, tx, turn, gate, user, work, mounted, busy,
                       operation>>
     \/ /\ ~PhaseExpired
        /\ mounted = {} /\ "boot_volume" \notin methods
        /\ dirty' \in {dirty, FALSE} /\ pc' = "enter_quiescence"
        /\ tx' = [tx EXCEPT !.unsynced = TRUE]
        /\ UNCHANGED <<now, methods, turn, gate, user, work, mounted, busy,
                       operation>>
     \/ Abort("sync")

-----------------------------------------------------------------------------
(* power_notifier_run over the quiescence callbacks.                       *)

QuiesceProcesses ==
  /\ Turn("quiesce", "processes")
  /\ Done(FALSE) /\ UNCHANGED <<pc, gate, world>>

\* workqueue_power_quiesce_until drops every work unless a callback runs.
QuiesceWorkqueue ==
  /\ Turn("quiesce", "workqueue")
  /\ \/ /\ \A w \in Works : work[w] # "running"
        /\ work' = [w \in Works |-> "dropped"]
        /\ gate' = [gate EXCEPT !["workqueue"] = TRUE]
        /\ Done(FALSE)
        /\ UNCHANGED <<pc, user, mounted, busy, operation, dirty>>
     \/ (\E w \in Works : work[w] = "running") /\ Abort("quiesce")

(***************************************************************************)
(* vfs_power_unmount_storage_until, one volume a step; the deadline is     *)
(* looked at before each.                                                  *)
(***************************************************************************)
QuiesceVfs ==
  /\ Turn("quiesce", "vfs-storage")
  /\ \/ operation /\ Abort("quiesce")
     \/ /\ ~operation /\ mounted # {}
        /\ \E v \in mounted :
             \/ v \in busy /\ Abort("quiesce")
             \/ /\ v \notin busy
                /\ mounted' = mounted \ {v}
                /\ UNCHANGED <<now, methods, tx, pc, turn, gate, user, work,
                               busy, operation, dirty>>
     \/ /\ ~operation /\ mounted = {}
        /\ Done(FALSE) /\ UNCHANGED <<pc, gate, world>>

(***************************************************************************)
(* power_quiesce_audio cannot fail. The network and the video may be       *)
(* absent (ERR_UNAVAILABLE); a network manager that was never initialised  *)
(* has no gate to close.                                                   *)
(***************************************************************************)
QuiesceDevices ==
  /\ \E p \in Optional, unavailable, closed \in BOOLEAN :
       /\ Turn("quiesce", p)
       /\ p = "audio" => ~unavailable
       /\ closed \/ unavailable
       /\ gate' = [gate EXCEPT !["network"] = @ \/ (p = "network" /\ closed)]
       /\ Done(unavailable)
  /\ UNCHANGED <<pc, world>>

NetworkFails == Turn("quiesce", "network") /\ Abort("quiesce")

EndQuiescence ==
  /\ pc = "quiesce" /\ Participants[turn] = "done"
  /\ \/ /\ ~PhaseExpired
        /\ pc' = "enter_commit"
        /\ UNCHANGED <<now, methods, tx, turn, gate, world>>
     \/ PhaseExpired /\ Abort("quiesce")

-----------------------------------------------------------------------------
(***************************************************************************)
(* power_reboot_commit: each attempt that the machine offers is marked as  *)
(* the commit before it is made; it may return without effect. The triple  *)
(* fault is always offered and never returns.                              *)
(***************************************************************************)
Attempt(method, from, to) ==
  /\ pc = from /\ tx.target = "REBOOT"
  /\ tx' = [tx EXCEPT !.commit_started = @ \/ method \in methods]
  /\ \/ pc' = to
     \/ method \in methods /\ pc' = "reset"
  /\ UNCHANGED <<now, methods, turn, gate, world>>

TripleFault ==
  /\ pc = "triple_fault"
  /\ tx' = [tx EXCEPT !.commit_started = TRUE, !.phase = "TERMINAL"]
  /\ pc' = "reset"
  /\ UNCHANGED <<now, methods, turn, gate, world>>

RebootCommit ==
  \/ Attempt("acpi_reset", "commit", "ps2")
  \/ Attempt("ps2", "ps2", "triple_fault")
  \/ TripleFault

(***************************************************************************)
(* power_shutdown_request calls acpi_poweroff: its checks may refuse       *)
(* before anything is written; after the first write it never returns,     *)
(* whether the machine went off or is halted.                              *)
(***************************************************************************)
PowerOff ==
  /\ pc = "commit" /\ tx.target = "SHUTDOWN"
  /\ \/ pc' = "reset" /\ UNCHANGED <<now, methods, tx, turn, gate, world>>
     \/ Abort("commit")

-----------------------------------------------------------------------------
(* What the other tasks do whenever they have the CPU.                     *)

OthersRun == pc \in {"none", "wait_users"}

Launch(u) == /\ user[u] = "none" /\ ~gate["process"]
             /\ user' = [user EXCEPT ![u] = "running"]
             /\ UNCHANGED <<work, mounted, busy, operation, dirty>>

UserExit(u) == /\ user[u] = "running" /\ user' = [user EXCEPT ![u] = "zombie"]
               /\ UNCHANGED <<work, mounted, busy, operation, dirty>>

\* The reaper of zombies, process_reap_finished_user.
Reap(u) == /\ user[u] = "zombie" /\ user' = [user EXCEPT ![u] = "none"]
           /\ UNCHANGED <<work, mounted, busy, operation, dirty>>

\* A read that blocks: vfs_begin_operation ... vfs_end_operation.
UserVfs(u) ==
  /\ \/ user[u] = "running" /\ ~gate["vfs"]
        /\ user' = [user EXCEPT ![u] = "in_vfs"]
     \/ user[u] = "in_vfs" /\ user' = [user EXCEPT ![u] = "running"]
  /\ UNCHANGED <<work, mounted, busy, operation, dirty>>

KernelVfs ==
  /\ operation \/ ~gate["vfs"]
  /\ operation' = ~operation
  /\ UNCHANGED <<user, work, mounted, busy, dirty>>

\* A file of v is opened or closed, a directory of v entered or left.
UseVolume(v) ==
  /\ \/ v \in mounted \ busy /\ ~gate["vfs"] /\ busy' = busy \cup {v}
     \/ v \in busy /\ busy' = busy \ {v}
  /\ UNCHANGED <<user, work, mounted, operation, dirty>>

\* vfs_mount_volume; refused while an operation is under way.
Mount(v) ==
  /\ v \notin mounted /\ ~gate["vfs"] /\ ~operation
  /\ \A u \in Users : user[u] # "in_vfs"
  /\ mounted' = mounted \cup {v}
  /\ UNCHANGED <<user, work, busy, operation, dirty>>

\* vfs_unmount_volume; storage_unmount writes the volume back first.
Unmount(v) ==
  /\ v \in mounted \ busy /\ ~gate["vfs"] /\ ~operation
  /\ \A u \in Users : user[u] # "in_vfs"
  /\ mounted' = mounted \ {v}
  /\ dirty' \in {dirty, FALSE}
  /\ UNCHANGED <<user, work, busy, operation>>

Write == /\ ~gate["vfs"] /\ ~dirty /\ dirty' = TRUE
         /\ UNCHANGED <<user, work, mounted, busy, operation>>

\* The kworker starts a periodic work; its callback may wait for a device.
RunWork(w) ==
  /\ work[w] = "scheduled" /\ \A x \in Works : work[x] # "running"
  /\ work' = [work EXCEPT ![w] = "running"]
  /\ UNCHANGED <<user, mounted, busy, operation, dirty>>

\* Its last act is to schedule itself again, which a closed gate refuses.
\* The writeback is one of the works: it may clean the cache.
FinishWork(w) ==
  /\ work[w] = "running"
  /\ work' = [work EXCEPT ![w] = IF gate["workqueue"] THEN "dropped"
                                                      ELSE "scheduled"]
  /\ dirty' \in {dirty, FALSE}
  /\ UNCHANGED <<user, mounted, busy, operation>>

Others ==
  /\ OthersRun
  /\ \/ \E u \in Users : Launch(u) \/ UserExit(u) \/ Reap(u) \/ UserVfs(u)
     \/ \E v \in Volumes : UseVolume(v) \/ Mount(v) \/ Unmount(v)
     \/ KernelVfs \/ Write
     \/ \E w \in Works : RunWork(w) \/ FinishWork(w)
  /\ UNCHANGED <<now, methods, tx, pc, turn, gate>>

\* The timer interrupt. Nothing depends on the clock between transactions.
Tick ==
  /\ pc \notin {"none", "reset"}
  /\ ~Reached((tx.deadline + MaxLate) % TickSpace)
  /\ now' = After(1)
  /\ UNCHANGED <<methods, tx, pc, turn, gate, world>>

-----------------------------------------------------------------------------
Coordinator ==
  \/ EnterNotification \/ NotifyProcesses \/ KillUsers \/ NotifyWorkqueue
  \/ NotifyVfs \/ NotifyNothing \/ EndNotification \/ Overrun
  \/ EnterSync \/ SyncFlush
  \/ EnterQuiescence \/ QuiesceProcesses \/ QuiesceWorkqueue \/ QuiesceVfs
  \/ QuiesceDevices \/ NetworkFails \/ EndQuiescence
  \/ EnterCommit \/ RebootCommit \/ PowerOff

Next == (\E reboot \in BOOLEAN : Begin(reboot)) \/ Coordinator \/ Others \/ Tick

(***************************************************************************)
(* The timer keeps interrupting and the task of the request, when it can   *)
(* run, does run: it never blocks for more than a tick at a time.          *)
(***************************************************************************)
Spec == Init /\ [][Next]_vars /\ WF_vars(Tick) /\ WF_vars(Coordinator)

-----------------------------------------------------------------------------
Transactions == [active : BOOLEAN, phase : Phases,
                 target : {"NONE", "SHUTDOWN", "REBOOT"},
                 commit_started : BOOLEAN, degraded : BOOLEAN, unsynced : BOOLEAN,
                 deadline : Ticks, phase_deadline : Ticks]

TypeOK ==
  /\ now \in Ticks
  /\ methods \in Machines
  /\ tx \in Transactions
  /\ pc \in {"none", "enter_notification", "notify", "wait_users",
             "enter_sync", "sync", "enter_quiescence", "quiesce",
             "enter_commit", "commit", "ps2", "triple_fault", "reset"}
  /\ turn \in 1..7
  /\ gate \in [Gates -> BOOLEAN]
  /\ user \in [Users -> {"none", "running", "in_vfs", "zombie"}]
  /\ work \in [Works -> {"scheduled", "running", "dropped"}]
  /\ mounted \subseteq Volumes /\ busy \subseteq mounted
  /\ operation \in BOOLEAN /\ dirty \in BOOLEAN

(***************************************************************************)
(* When the first command goes to the hardware (power_mark_commit_started, *)
(* or the write of acpi_poweroff) the machine is quiet: every gate is      *)
(* closed (the network's may be missing when the transaction is degraded), *)
(* no user process is left, no work will run and every volume that can be  *)
(* is unmounted. The cache is clean too, with the one exception the code   *)
(* makes: a sync that ended in ERR_STATE on a machine whose mount table    *)
(* held no Storage volume when the sync ended. It spans the whole chain of *)
(* participants and what the other tasks did meanwhile.                    *)
(***************************************************************************)
CommitIsPrepared ==
  tx.commit_started \/ pc = "reset" =>
    /\ \A g \in Gates : gate[g] \/ (g = "network" /\ tx.degraded)
    /\ \A u \in Users : user[u] = "none"
    /\ \A w \in Works : work[w] = "dropped"
    /\ mounted = {} /\ ~operation
    /\ dirty => tx.unsynced /\ "boot_volume" \notin methods

(***************************************************************************)
(* An abort, wherever it happens, leaves no gate closed: a gate of         *)
(* process_, workqueue_, vfs_ or network_..._set_quiescing is closed only  *)
(* while a transaction is active.                                          *)
(***************************************************************************)
GatesFollowTheTransaction ==
  /\ tx.phase = "IDLE" <=> ~tx.active
  /\ ~tx.active => pc = "none" /\ \A g \in Gates : ~gate[g]

(***************************************************************************)
(* Once hardware has been commanded no path returns to an active system:   *)
(* the transaction stays active and no gate is reopened.                   *)
(***************************************************************************)
CommitIsIrrevocable ==
  [][tx.commit_started \/ pc = "reset" =>
       tx'.active /\ gate' = gate /\ (tx.commit_started => tx'.commit_started)]_vars

(***************************************************************************)
(* Every admitted request ends: it is aborted or the machine is given to   *)
(* the hardware, however long users ignore SIGTERM.                        *)
(***************************************************************************)
RequestsEnd == tx.active ~> (~tx.active \/ pc = "reset")
=============================================================================
