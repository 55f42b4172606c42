# Verification of the ZephyrOS kernel

ZephyrOS is a 32-bit x86 operating system written in C (`src/src/`): its own
boot chain with a recovery loader, a cooperative kernel that preempts only
ring 3, a VFS over FAT volumes, drivers, a TCP/IP stack, a window manager and a
transactional update system with two system slots.

This project models the parts whose correctness depends on the ORDER of steps:
interrupts against kernel code, wakers against waiters, callbacks against the
calls that schedule or cancel them, aborts half-way through a chain of
participants, power failures between two durable writes, segments lost and
repeated by the network. Each model is checked
by TLC on a small instance, and most of the safety properties of seven of the
nine components are proved by TLAPS for every value of their constants.

Contents: 1 the system, 2 the plan, 3 the modules, 4 the runs, 5 what
disagrees with the documents, 6 bounds, 7 fairness, 8 proofs, 9 what is not
modelled.

## 1. The system

### Execution model

There is one CPU. Kernel code, in processes and in kernel threads, runs until
it yields, blocks or waits; the timer interrupt takes the CPU away from ring 3
only (`timer_handler`, `scheduler_preempt_user`). Interrupt handlers run between
any two instructions of kernel code with interrupts enabled. Everything between
an `irq_save` and its `irq_restore` is therefore one step of a model, code that
touches nothing an interrupt touches is folded into the step around it, and a
window with interrupts enabled between a check and its use is always a boundary
between two steps.

### Components

| Component | Source (`src/src/`) | State | Operations | What makes it correct |
| --- | --- | --- | --- | --- |
| Bottom halves | `core/irq_deferred.c` | ring of works, flags of each work, dispatcher | init, schedule (IRQ, polling), cancel, dispatch, notifier | no accepted event is lost or executed twice at once; the kworker does not sleep over works |
| Wait queues | `core/wait.c` | registry with generations, FIFO of entries, event counter, availability | init, reset, wake one/all, set available, snapshot, block, remove, time out | no lost wake-up, no waiter left where nothing reaches it, no early time-out |
| Processes and scheduler | `process/process.c` | table, LIFO pool of PIDs, identities, current process, wait state | create, start, yield, block, wait, cancel, tick, preempt, exit, kill, reap, destroy | one RUNNING process, PIDs unique, stale cancels harmless, bounded overtaking |
| Workqueue and kworker | `core/workqueue.c` | registry, HIGH and NORMAL lists, delayed list, kworker | register, schedule, delay, cancel, dispatch, quiesce, sleep | lists match states, no request lost, nearest deadline kept |
| Power | `core/power.c`, `core/power_notifier.c` | transaction, phase deadlines, gates of processes, supervisor, workqueue, VFS, network | admit, notify, flush, quiesce, commit, abort | hardware is commanded on a quiet, durable machine; an abort gives the system back |
| System slots | `core/update_system_slots.c`, `boot/recovery_loader.c`, `boot/recovery_menu.c` | two copies of the state, two of the journal, two slots, a staging file; the kernel's and the loader's memory | stage, cancel, recover, confirm, preflight; select, attempt, fail, menu | the fallback is bootable after any power cut; a candidate has two attempts |
| Kernel threads | `thread/thread.c` | table, current thread, wait state | create, yield, block, wait, tick, destroy | as for processes |
| Signals | `process/signal.c` | pending, blocked, handlers, the signal in progress | send, raise, action, mask, deliver, return | a fatal signal ends the process; no sleep over a deliverable signal |
| IPC and focus | `process/ipc.c` | ring of 32 messages, focus and fallback PID | send, receive, wait, focus | no sleep over a message, focus on a live process |
| Applications and loader | `core/app_loader.c`, parts of `kernel/kernel.c`, `process/process.c` | active and pending application, result, sleep of the Shell | launch, start, cancel, exit, kill, reap, report | every end is reaped and reported |
| FAT and storage | `fs/storage.c`, `fs/fat32.c`, `fs/block*.c` | directory entries, FAT, dirty blocks, write-back | write, replace, delete, rename, transactional writer, sync | a power cut leaves the old or the new file, nothing leaks |
| VFS | `fs/vfs.c`, `fs/vfs_path.c` | mounts, descriptions, operation counts | open, read, write, mount, unmount | no unmount under an operation |
| TCP and sockets | `core/tcp.c`, `core/net_socket.c`, `core/socket.c` | sequence numbers, pending segment, rings, events, waiters | connect, send, receive, close, abort, retransmit, expire | both streams intact, no early end of file, a closed socket is released |
| Network services | `core/arp.c`, `core/dhcp.c`, `core/network_manager.c` | leases, tables | resolve, lease, renew, fail over | progress under loss |
| Updates of packages | `core/update*.c`, `core/app_package.c` | journal, staging, backup | install, roll back, download | all or nothing |
| Memory | `memory/*.c` | free lists, slabs, page tables, VMAs | allocate, free, map, unmap | no block given twice |
| Drivers, USB, devices | `drivers/*.c`, `core/usb_manager.c`, `core/device_manager.c` | device states, rings | probe, bind, transfer, remove | no use after removal |
| Supervisor | `core/service_supervisor.c` | services, back-off | start, restart, stop | bounded restarts |
| GUI, shell, applications | `wm/`, `desktop/`, `taskbar/`, `shell/`, `filemanager/`, `settings/`, `appstore/`, `updater/` | presentation | | |

`PROJECT.json` lists every component with its sources, its status and, when it
is not modelled, the reason.

### How they interact

- The timer interrupt advances the clock, calls `scheduler_tick` (which expires
  sleeps and timed waits of processes and threads) and preempts ring 3.
- Device interrupts schedule bottom halves. The notifier of the bottom-half
  ring schedules a HIGH work of the workqueue; its callback drains the ring
  with a budget and schedules itself again when works are left.
- The kworker sleeps in a wait queue with the time-out of the nearest delayed
  work; whoever schedules a work signals that queue.
- Processes and threads block in wait queues; killing one must unlink it first.
- The Shell sleeps without a time-out while an application runs. The System
  process compares generations of the loader and of the network once per turn and
  wakes it. Keys go to the mailbox of the process with the focus, F12 cancels it
  and Ctrl+C sends it a signal.
- The network worker passes segments to TCP, which calls `net_socket_tcp_event`;
  that fills the rings and wakes the waiters. Application calls and the worker
  exclude each other, kernel code being cooperative.
- A power request closes the gates of the processes, the supervisor, the
  workqueue, the VFS and the network one after the other, flushes the cache,
  and unmounts; any failure before the commit reopens all of them.
- Staging writes a journal, a slot and a state through the FAT layer, whose
  replacement of a file is two durable steps. The recovery loader reads the same
  files at the next boot and rewrites one sector of them in place; the kernel
  that comes up recovers the journal and confirms the boot.

### What is hard to test

The list is under `hazards` in `PROJECT.json`, each at its line. The main ones:
an interrupt between a condition and the block that depends on it; a wake-up
between the BLOCKED mark and the context switch; recycled PIDs and registry
slots; tick counters that wrap; a rerun requested while a callback runs; a
participant that fails after an earlier one has given up its resources; power
lost between the publication of a new directory entry and the deletion of the
old one; sectors that reach the device in another order; a torn sector; memory
that is ahead of the disk after a failed write; a clean-up that fails or is cut
short itself; a retransmission that races the acknowledgement; sequence numbers
that wrap; a kill that meets a process inside a read.

## 2. Plan

Done, in this order: `IrqDeferred` (with the abstract FIFO it implements and the
first proofs), `Scheduler`, `Workqueue`, `Power` (with proofs), `WaitQueue`,
`UpdateSlots`, `NetSocket` (with `Tcp` and `SocketEvents`), `Fat32Transaction`
(with `Fat32Volume`), `AppLifecycle`; then the theorems of section 8: the rest of
`IrqDeferred` with its refinement, and all the safety properties of `Power`,
`Scheduler`, `WaitQueue`, `Workqueue`, `AppLifecycle`, `NetSocket` (but for
`CloseCompletes`) and `UpdateSlots`.

Next, the most important first:

1. Theorems about `Fat32Transaction`. Its chains and its replay of a volume are
   folds over sequences; the first step is a lemma for each walk, by the least
   prefix for which it fails (section 8, `KernelListsProofs`).
2. `Threads`, the second user of `WaitQueue`, and the spinlock held across a
   block in `update_system_slots.c`.
3. `PackageTransaction` (install and roll back on top of the storage
   transactions), `VfsLifecycle`, `DriverLifecycle`, `SlabCache`.
4. The generic sockets of `socket.c`, `Dhcp`, `Arp`.

Composition: `NetSocket` composes the connection of `Tcp` with the socket of
`SocketEvents`, a peer and a network; `Fat32Transaction` runs its operations on
`Fat32Volume`. Where two components meet at a narrow interface the larger model
has the part it needs and the other module has it in full: `IrqDeferred` has one
pending bit of the HIGH work, the worker that takes it and the power gate that
refuses it; `Workqueue` the counter of the wait queue, moved or not; `Scheduler`
one queue; `Power` the gates of its participants; `AppLifecycle` a sleep that a
wake-up ends; `UpdateSlots` the two durable steps of a replacement that
`Fat32Transaction` shows in detail.

## 3. The modules

Definitions keep the names of the functions, in TLA+ spelling; `PROJECT.json`
maps each to its lines. Operators called `...Faulty` (or otherwise commented
`Fault:`) are not part of any specification: each is a plausible bug of the
operator that follows it, and shows that a property notices it.

**`IrqDeferred`** - `irq_deferred.c` and the kworker's callback in `kernel.c`.
The ring with `head`, `tail` and `count`, the flags of each work, the dispatcher
at `idle`, in its `loop` or inside a `callback`. `ScheduleFromIrq` and
`ScheduleFromPoll` differ in that polling code restores interrupts before it
calls the notifier (`notifying`). `Cancel` compacts the ring as the code does.
The notifier and the end of a dispatch schedule `kernel_irq_work`
(`ScheduleKworker`), which the workqueue refuses while a shutdown is `quiescing`;
`Quiesce` drops the one that is pending. `owed` and `missed` are ghosts: events
accepted and neither served nor withdrawn, and a kick that was refused or dropped
and not made up for.
**`BottomHalfQueue`** is what the ring promises: a bounded FIFO of distinct works,
one of them executing. **`IrqDeferredProofs`** holds the theorems.

**`KernelLists`** - the linked lists of the kernel as sequences: what a list is
without some of its entries. `Workqueue` and `WaitQueue` unlink with it.
**`KernelListsProofs`** has the lemmas about lists that all the proofs use: what
unlinking, appending, inserting in the middle and splitting do to the members,
and that they link nothing twice.

**`Scheduler`** - the process table with Idle in slot 0, the LIFO pool of PIDs,
identities, round robin from `last_scheduled_idx`, one wait queue. `cpu` tells
whether the current process runs its own code, is inside `process_yield` (the
window where a tick finds it BLOCKED and still on the CPU) or leaves as a zombie.
Cancellations and signals name a PID and a generation, or generation 0, which is
whoever has the PID (`Names`); the ghost `asked` has the identities they meant.
**`SchedulerProofs`** holds the theorems.

**`Workqueue`** - the three lists, the states of the works, rerun requests, and
the kworker as a program counter through dispatch, time-out, snapshot and block.
Deadlines are ticks left; `deadline_tick - now` is compared unsigned where the
code does so. **`WorkqueueProofs`** holds the theorems.

**`WaitQueue`** - the registry with generations, the queues, and
`wait_event_timeout` step by step: snapshot of the condition and of the counter,
the test of the deadline (`CheckDeadline`) and a second read of the clock for the
time left (`ReadClock`), with ticks in between, block with a second look at the
counter, wake, time-out, device gone, reset. Clock and counter wrap, and a time
left of one tick less than nothing is the infinite time-out, as in the code; such
a task's deadline is `Past`. **`WaitQueueProofs`** holds the theorems.

**`Power`** - one request walking the phases, the turn of each participant,
time-outs of a phase and of the whole, what other tasks do while
`process_power_shutdown_users` blocks, the reset methods a machine may have and
whether it was booted from a volume. `SyncFlush` passes over an ERR_STATE when no
Storage volume is mounted, and `tx.unsynced` (a ghost) remembers it.
**`RebootProofs`** holds the theorems about `Power` and `UpdateSlots`.

**`UpdateSlots`** - kernel and loader in one module, because they share the disk
and nothing else. `disk` maps each file to the sequence of its directory entries
(the first one is found); a replacement publishes the new entry anywhere in the
directory and deletes the old one in a second step. `PowerCut` may fall before any
durable step and `DiskError` may fail any; the loader's write in place may leave a
torn sector, or the new one although its read-back fails. `confirmed`, `starts`
and `approved` are ghosts. Its variables, `Init`, `Next` and `Spec` have names of
their own (`doing`, `SlotsInit`, ...), so that one module can hold the theorems
about a restart from both sides.

**`SocketEvents`** - `net_socket_tcp_event`: what each event of TCP does to the
socket's state, rings and waiters, and the events the socket shows to a poll.
**`Tcp`** - the TCP client: sequence arithmetic modulo `SeqSpace`, the one pending
segment, `Process` for each state and segment, `Maintain` for retransmission, idle
limit and TIME_WAIT, close and abort. Both are operators on records, because a
segment, a time-out and a call of the application each run through TCP and the
socket in one piece. **`NetSocket`** has the state: the connection, the socket, a
conforming peer, the set of segments in flight (a segment may be taken several
times, late or never) and the calls of the application. Bytes are numbered, so
that a stream is intact when it counts. `faults` is a ghost: what the code ever
reported. **`NetSocketProofs`** holds the theorems.

**`Fat32Volume`** - a FAT32 volume as FAT, directory and data. The directory is the
row of its 32-byte places in the order of its chain. A published name takes two
places, a long entry and a short one with its alias (longer names take more; two
are what can be torn apart), the temporary file a single short entry. A name
answers to its long name and to its alias, and a long entry before a short one of
another alias makes the whole directory unreadable (`Readable`), as the checksum
does in the code. `disk` gives for each sector the set of values the device may
hold, which a barrier reduces to the last one, so `Images(disk)` is every volume a
power cut can leave; a failed write-back leaves the block dirty in
`block_cache.c`, so nothing is forgotten. `Dangling`, `Shared`, `Duplicated`,
`SameAlias` and `Orphans` are the complaints of `storage_check`.
**`Fat32Transaction`** - each operation of `storage.c` as the sequence of its
stages (sectors written, then a barrier or not, then what a failure does): write,
delete, rename, and begin, write, flush, finish and abort of the transactional
writer. Any write or barrier may fail, and power may be cut between any two steps.
The clusters of the directory are neighbours on the volume, or there is a `gap`
after one of its places: the search for free places does not see it, and the
second place of a name published there is written over data cluster `Beyond`.
`store` is the abstract map from names to the contents each may have; `sound` and
`undone` are ghosts (section 4).

**`AppLifecycle`** - one application at a time from launch to report: loader,
signals, mailbox, focus, descriptor reads, ends, and the Shell and System
processes. `app.at` tells where the application is (ring 3, waiting for a
message, inside a read of stdin or of a pipe); a system call up to its wait and
what follows the wait up to ring 3 are one step each. The three waits treat
signals differently in the code and here. **`AppLifecycleProofs`** holds the
theorems.

## 4. The runs

| Run | Distinct states | Shows |
| --- | --- | --- |
| `irq_deferred` | 6 860 | the ring holds exactly the queued works (`RingIsExact`); no accepted event is lost; the ring implements the FIFO (`ImplementsFifo`); the kworker stalls (`NoStall`) and an event owed is not served (`OwedIsServed`) only after a power quiesce refused or dropped the kworker's work and before the next event |
| `scheduler` | 130 313 | PIDs partitioned between pool and table, waiters linked exactly while they wait, the CPU never on a dead or sleeping process, only requested ends happen (a stale PID and generation never end a later process), a READY process is overtaken a bounded number of times |
| `workqueue` | 222 796 | lists match states, no accepted request lost, no sleep over ready work or past a deadline |
| `workqueue_order` | | `DelayedIsOrdered` is violated (section 5) |
| `wait_queue` | 305 976 | waiters reachable, no lost wake-up, no early time-out, and a timed wait ends although its events go to another waiter, unless two ticks fall between the two reads of the clock |
| `power` | 405 774 | commits on a prepared machine (durable too, unless a sync that failed with ERR_STATE was passed over), gates follow the transaction, the commit is irrevocable, every request ends |
| `update_slots` | 1 262 107 | until the disk reports an error the active slot bootable with one copy of the state readable and both unanimous; at most two starts of a candidate; only confirmed images active; an approved reboot attempts the candidate |
| `net_socket` | 544 829 | both streams intact under loss, duplication, reordering and wrap; end of file only after all data; an error-free close has delivered everything; the window never exceeds the ring; what is unacknowledged is pending; no waiter left on an ended socket, and of two readers never both asleep over bytes; a closed socket is released although the network is silent |
| `fat32_transaction` | 733 645 | a name, whether its entries share a sector or not, shows its old or its new content after a power cut at any point; a rename keeps the file; what damage a cut can do is confined to the operation in progress; nothing leaks |
| `fat32_rollback` | | `FailurePreservesOld` is violated (section 5) |
| `app_lifecycle` | 327 815 | no sleep over a deliverable signal, message or cancellation; the focus on a live process; every cancelled or ended application is reaped |
| `app_lifecycle_kill` | | `KillIsFatal` is violated (section 5) |

Type invariants are part of the first invariant of a run, or of the one about
the well-formed state (`NothingLeaks`, `WindowFitsRing`); all but that of
`Fat32Transaction` are proved (section 8).

`Power`, `WaitQueue`, `UpdateSlots`, `NetSocket` and `Fat32Transaction` are
checked without deadlock detection: a machine that was reset, a system in which
every task waits without a time-out, a volume whose fault and operation bounds
are used up and a socket that was released have no next step.

These conditions are part of what is claimed:

- Two properties of `update_slots` carry `Undoubled`: no earlier interruption
  left a state file with two directory entries. With a doubled state file the
  two copies can diverge, a candidate can be started a third time and the active
  slot can be replaced; nothing in the kernel or the loader removes the second
  entry (`storage_check` only reports it). `ActiveIsBootable` also asks that the
  disk has reported no error. An earlier form asked it of the image alone and
  claimed readable, unanimous copies after an error too; it held within the
  run's bounds and its proof did not go through. TLC found the case with a third
  update: after the failed confirmation of section 5 the journal of the next
  staging names the slot the disk calls active, recovery publishes it as pending
  (`update_system_slots.c:791` does not compare the two) and
  `system_slots_decode_state` refuses the state it wrote. `ActiveWasConfirmed` and
  `PreflightIsHonest` hold without either.
- The four properties of `fat32_transaction` hold while `sound` does: no crash or
  failed call has left a volume that `storage_check` rejects, or half a name; no
  name was published across a gap of the directory; and no rename has left the
  old 8.3 name behind as the alias of the new one. Each condition is needed: TLC
  refutes the properties without it, in the ways section 5 describes. `AtomicNames`
  also leaves out a volume after the clean-up of a failed write withdrew an entry
  (`undone`): that case is `fat32_rollback`.
- `NoStall` and `OwedIsServed` except a ring that a shutdown stranded (`missed`),
  `TimedWaitsEnd` a task that went to sleep without its deadline (`Overslept`), and
  `CommitIsPrepared` a cache that a passed-over sync left dirty (`tx.unsynced`).
  Section 5 has all three.
- `CloseCompletes` excepts a connection that failed with bytes in the TX ring
  (section 5).

`CloseCompletes` is a bounded-response invariant: it asks, of every state, what
the worker's next polls do when the network stays silent. It says more than a
liveness property would (how many polls) and needs no fairness.

The liveness of the workqueue is not kept as a run. With a longest delay of
three ticks a READY work is always served and a delayed one is not: once the
list is out of order (section 5) an overdue work can be overtaken for ever by a
callback that keeps asking for a delayed rerun.

## 5. Where code and documents disagree

Three disagreements are runs that TLC refutes, with findings in `PROJECT.json`:

- **A rollback that exposes what it rolls back** (`storage.c:2935`). When the
  barrier after the new directory entry fails, the clusters are freed in the FAT
  and made durable, together with the entry that names them, before the entry
  is cleared. A power cut leaves a name whose chain is free and may be given to
  another file.
- **A kill that is survived** (`process.c:1212`). `process_mark_user_zombie` ends
  the wait and gives the focus away before `vfs_fd_table_release` refuses because
  a read is in progress. The application returns from the read and runs on.
- **A list that is not in order** (`workqueue.c:259`). `workqueue_delayed_insert`
  compares times left unsigned, so the rerun of a callback during which another
  work became overdue is linked in front of that work, which then waits for the
  later deadline. `workqueue_validate_on` calls such a list invalid. An earlier
  form of `ListsMatchStates` claimed the order and held within its bounds; it was
  the proof that did not go through.

TLC also showed the following while the models were written. They are described
here and are not runs; the modules contain the behaviour.

- *Scheduler.* A wake-up between the BLOCKED mark of `process_block` and the switch
  makes the process READY; if it is elected itself, `next == prev` returns without
  marking it RUNNING (`process.c:2574`), which the diagnosis of the scheduler calls
  invalid. `CpuOnLiveProcess` admits it.
- *Scheduler.* The generation that tells a PID from its next holder is compared only
  when the caller passes one. F12 (`keyboard.c:620`), Ctrl+C (`keyboard.c:389`), the
  shell's kill, the task manager and `signal.c:332` pass none: what they end is
  whoever holds the PID at that moment.
- *Bottom halves and workqueue.* Works dropped when the workqueue is quiesced are
  not scheduled again when a later participant fails (`workqueue.c:950`), although
  `docs/04-kernel/kernel.md:552` says that an abort before the commit preserves
  the operational state. Periodic works that schedule themselves do not come back.
  `kernel_irq_work` is one of the works that are dropped, or refused while the
  gate is closed (`workqueue.c:385`), so the bottom halves already in the ring
  wait for the next interrupt that schedules one.
- *Power.* `storage_sync_all_until` returns ERR_STATE when another sync is in
  progress or the write-back makes no progress, and `power.c:379-395` turns that
  into OK when no Storage volume is in the mount table. The commit follows with
  blocks not written; `docs/qualidade/contratos-publicos.md:1288` says that an
  inconsistent state aborts before the commit.
- *Wait queues.* `wait_event_timeout` tests the deadline and reads the clock again
  for the time left (`wait.c:666-669`), with interrupts on. Two ticks between the
  two make `deadline - now` 0xFFFFFFFF, which is WAIT_TIMEOUT_INFINITE: a finite
  wait becomes an infinite one. With more than two it is an invalid time-out, and
  the call fails.
- *Slots.* `update_system_slots_boot_confirm` changes the active slot in memory, and
  a failed write leaves it so (`update_system_slots.c:1502`). What is staged in that
  session goes to the slot the disk still names active; after a power cut the
  loader's fallback does not hold the recorded image, although
  `docs/14-atualizacoes/contrato-zsys-v1.md:133` says that interruptions preserve
  the active slot. To see it, check `ActiveIsBootable` without `errors = 0`. Two
  entries of the journal, STAGING before VERIFIED, leave a journal
  that every later boot refuses
  (`update_system_slots.c:634`).
- *Sockets.* Data wake the head of the queue whatever it waits for
  (`net_socket.c:111`; `docs/04-kernel/kernel.md:845` promises that data wake a
  consumer). With a writer ahead of a reader the reader sleeps over its bytes, and
  `socket.c:601` waits without a time-out. `WaitersAreWoken` therefore speaks of
  events only for tasks that wait for the same ones, which are never all asleep;
  of ends and failures it speaks for all. (Of two readers the first may take a part
  of the bytes and the second sleeps over the rest, until the first comes back.)
- *Sockets.* A FAILED connection with bytes left to read reports end of file after
  its error was read. A socket that was closed with bytes to send and whose
  connection then fails is not released until it is closed again. A peer that
  closes its window is never probed: the connection depends on its update. The
  close of `socket.c` aborts right after it closes, so queued bytes are dropped.
  `tcp_fail` keeps `pending_sent`, which `tcp_validate_state` rejects.
- *Applications.* F12 on an application that is READY inside a read of stdin fails
  with ERR_STATE after the focus has moved. A read of stdin drops messages that are
  not keys. Inside a handler, waits return at once while an unblocked signal is
  pending; a wait for a pipe does not look at a second deliverable signal. An
  application launched by the App Store's worker is started by the Shell only, and
  nothing wakes the Shell for it (`appstore.c:827`, although line 838 logs that it
  was started).
- *FAT.* A power cut inside a replacement leaves two entries of one name; a failed
  barrier of a rename, or a failed deletion of the temporary file, leaves two names
  with one chain, and deleting one of them frees the clusters of the other.
- *FAT.* The search for free directory entries counts a run across the end of a
  cluster (`storage.c:2523-2544`), and the publication writes the run as one
  stretch of the volume (`storage.c:2701-2717`). Where the next cluster of the
  directory is not the next on the volume, the short entry goes over the cluster
  of another file, the call returns OK and the name does not exist; a replacement
  or a rename then deletes the old entry, and the file is lost without any error.
- *FAT.* A failed write or a power cut can leave the long entry of a name without
  its short one, or, where the sectors arrive in the other order, a short entry
  behind the mark that ends the directory, where nobody sees it. `storage_check`
  reports neither. When the single short entry of the temporary file is then put
  behind the lone long entry, the checksum does not match and every lookup in that
  directory ends in ERR_INVALID (`storage.c:1942`).
- *FAT.* A file renamed to a name that is not 8.3 keeps its old alias
  (`storage.c:4661`) and answers to it: the old name still finds the file, and a
  write to the old name replaces it.

## 6. Bounds

- `irq_deferred`: three works and three slots, two of them usable. Two works fill
  the ring, the indices wrap, a third meets a full ring and a rerun meets one;
  a budget of one leaves works for the next activation.
- `scheduler`: Idle and three slots, so that one process is overtaken by two
  others; four identities, so that a slot and a PID are used again; sleeps of
  one and two ticks, so that a time-out and a wake-up can fall together.
- `workqueue`: one HIGH and two NORMAL works (two lists and a list of length
  two), budgets of one (a round ends with works left), delays up to three ticks
  and one tick of lateness, which is what tells the unsigned comparison apart.
- `wait_queue`: two tasks that poll, wait one tick or wait for ever, one queue and
  one registry slot whose generation wraps at its reset, a clock of eleven values
  that wraps, up to three ticks between the two reads of the clock (`MaxStall`:
  two make the wait infinite, three an error), a counter of three values, one
  interrupt between a snapshot and a block. `BurstAssumption` says why the
  counter's wrap is not a case: 2^32 events do not fit in that window. More queues
  and tasks are the theorems' part.
- `power`: one user, one work, two volumes (one can be unmounted before the other
  is found busy), budgets of two ticks in a clock that wraps during the
  transaction, a tick of overrun; machines with each of the reset methods, with and
  without a boot volume.
- `update_slots`: the installed image and two updates, two faults of which at
  most one is a disk error, state sequences up to seven. A full update takes the
  sequence from n to n + 3 (pending, attempt, confirmation) and a failed one up
  to n + 5, so both updates complete and a candidate uses up its attempts. Two
  faults put a power cut into the recovery from another one.
- `net_socket`: two readers, which are symmetric, a TX ring of two bytes and an RX
  ring of one (a segment fills it and the window closes), two bytes in each
  direction, sequence numbers modulo 16 that start at 13 and 14 so that both
  streams wrap, one retransmission before the connection fails, two segments in
  flight to the host. A second byte travels in one direction only
  (`OneLongStream`): the properties that relate the two streams do so through the
  sequence numbers, which wrap either way, and all but `CloseCompletes`, which is
  about what the host still has to send, are proved for every size. What the host
  sends reaches the peer at once or is lost: lateness on one way shows as lateness
  of the answer. IP may send a segment or report an error.
- `fat32_transaction`: two files, of which one has an 8.3 name, and the temporary;
  six clusters and nine directory places in three sectors, so that the second name
  published lies across two sectors; a gap behind the sixth place, which a name
  crosses once a failed call has left half a name before it (with a gap behind the
  third place the second name crosses at once, and without the condition `Crosses`
  TLC refutes `AtomicNames`, `RenameKeepsTheFile` and `NothingLeaks` within
  seventeen steps); files of no and of two clusters (one can be replaced while the
  old one exists), metadata written every second cluster, three operations, one I/O
  error and one power cut: an operation on what an interrupted or failed one left
  behind, and a further one after it. The directory has room for all of it and does
  not grow.
- `app_lifecycle`: SIGINT, which ends an application by default, and SIGCHLD, which
  is ignored by default, with SIGKILL and SIGSEGV; a handler for each, one of which
  blocks the other signal; a mailbox that one message fills. The number of
  applications, one after the other, is not bounded.

Where a property is proved (section 8) the bounds matter for nothing but the
cost of the run, which found the formula to prove and notices when the model and
the theorem part.

## 7. Fairness

- `IrqDeferred`: weak fairness of a dispatch that was started and of the notifier:
  kernel callbacks return, and a schedule that was started reaches its notifier a
  few lines later. Weak fairness of the abort that opens the gate again
  (`RequestsEnd` of `Power`). Strong fairness of the start of a dispatch behind an
  open gate: the kworker is a thread the scheduler keeps electing, and the requests
  of a shutdown are commands typed one after the other.
- `Scheduler`: weak fairness of the timer interrupt, which never stops. Its run
  checks safety; `BoundedOvertaking` is what the other models rest on.
- `WaitQueue`: strong fairness of the tick, of giving the CPU up and of each
  task's election, weak fairness of the steps of a call. The timer never stops
  and the round robin elects every runnable task (`BoundedOvertaking`); a task
  that runs on for ever without yielding is excluded, which is what a cooperative
  kernel demands of its tasks.
- `Power`: weak fairness of the tick and of the request's own task, which blocks
  for one tick at a time and is otherwise runnable.
- `AppLifecycle`: weak fairness of the application's return from a wait that
  ended (`Resume`), of the System process's turn and of the Shell's steps. All
  three are processes the round robin elects. Nothing is assumed of the user, of
  ring 3 code or of the devices: an application may run for ever.
- `Workqueue`: weak fairness of the kworker and of the tick is stated for the
  same reasons; its run checks safety. `UpdateSlots`, `NetSocket` and
  `Fat32Transaction` state none.

## 8. Proofs

TLAPS checks eight modules; nothing is assumed beyond the named ASSUMEs on the
constants, and TLC evaluates those on every run. Each theorem is about every
value of the constants: any number of works, tasks, queues, processes, users and
volumes, any capacity, budget and delay, any width of clock and counter.

A property is seldom inductive as it stands. Each module states the invariant
that is (`IInv` or `Inv`), proves it for the initial state and for one action
after the other, and derives the properties from it. TLC checked every one of
these invariants on the run's instance first.

**`KernelListsProofs`** - lemmas only. The provers have no induction over data;
`LeastNumber`, that a set of naturals which is not empty has a least member, is
derived from the well-foundedness of strict inclusion on finite sets, and takes
its place: a recursive function is defined on every prefix, and what holds of one
prefix holds of the next, because no prefix is the least for which it fails.

**`IrqDeferredProofs`**

- `QueueIsCorrect`: `TypeOK`, `RingIsExact`, `OneCallback` and `NoLostEvent`.
  The ring is compacted by `Cancel` and indexed modulo the capacity, so most of
  the work is a set of lemmas about `Place`, `Successor` and `Distance` (they are
  inverse on the window, the successor advances the distance by one) and the
  proof that the compaction keeps the works distinct and in the window.
- `NoEventIsForgotten` is its last part alone; `KworkerDoesNotStall`: `NoStall`,
  with the refusals and drops of a power quiesce.
- `RingImplementsFifo`: the ring implements `BottomHalfQueue` under the mapping of
  `ImplementsFifo`, step by step: an enqueue at the tail appends, a dequeue takes
  the head, the compaction of a cancel removes one work and keeps the order of
  the others, and what the notifier and the kworker do is a stutter.

**`SchedulerProofs`** - `PidPoolIsExact` (`PidsArePartitioned`),
`WaitQueueIsExact` (`WaitersAreLinked`), `CpuIsOnLiveProcess`, `OnlyRequestedEnds`
(`EndsAreRequested`) from one invariant, which adds that no slot has the PID of
Idle, that Idle never blocks, and that a slot in use has an identity.
`OnlyRequestedEnds` includes the requests without a generation: they mean the
process that has the PID. `RoundRobinIsFair` (`BoundedOvertaking`): the elections
a READY process has lost and its distance from the last one chosen never exceed N
- 1 together (`Turn`), so that it is passed over at most N - 2 times.

**`WorkqueueProofs`** - `ListsAreExact` (`ListsMatchStates`), `NoRequestIsLost` and
`KworkerDoesNotOversleep`. The invariant adds what the code keeps for each work
(`Kept`: a queued work is owed, a rerun is owed unless its callback was
cancelled, what is owed has the earliest deadline), that one callback runs, and
`Awake`: from the moment the kworker has looked at the lists, either they are
empty or the signal that it will find when it blocks is set.

**`WaitQueueProofs`** - `WaitersStayReachable` and `NoWakeupIsLost`. Between the
snapshot of the counter and the block, the reads of the clock included, the
invariant counts the signals that came (`Counted`): the counter shows the snapshot
advanced by that number, so that with `BurstAssumption` an equal counter means no
signal, and something became ready only with one. `TimeoutsAreNotEarly`
(`NoEarlyTimeout`) rests on a second invariant, `Times`: the deadline and the
timer of a task are ahead of the wrapping clock by at least the ticks its caller
is still owed, or the task sleeps without a timer.

**`RebootProofs`**, about `Power`

- `CommitOnPreparedMachine`: `CommitIsPrepared` speaks of the end of the chain
  only and is far from inductive. `Inv` adds what every callback that has returned
  leaves behind (`ProcessesClosed`, `UsersGone`, `WorkqueueClosed`, `VfsClosed`,
  `CacheClean`, `WorksDropped`, `VolumesGone`, `NetworkClosed`), each for the
  places past it, and that the wait for the users, the only point where other
  tasks run, belongs to the first callback.
- `AbortReopensGates`: `GatesFollowTheTransaction`; `NoReturnFromCommit`:
  `CommitIsIrrevocable`, from the same invariant; `PowerTypeCorrect`.

**`RebootProofs`**, about `UpdateSlots` - all four invariants of its run, for every
number of images, updates, faults and attempts. Nothing bounds the power cuts and
errors but the constants. `SlotsInv` has three layers, because the properties hold
under different conditions:

- `GeneralInv` holds of every run. A state file is never without an entry and a
  replacement between its halves has both (`Halved`); the loader acts on what it
  read, because nothing else runs (`InLoader`); every entry of a state file, and
  the state in memory, names as active a confirmed image and as attempted a
  recorded one (`Entries`); what was verified, is pending or is promoted reads
  back from its slot (`Staged`). `ActiveAlwaysConfirmed` (`ActiveWasConfirmed`) and
  `PreflightAlwaysHonest` (`PreflightIsHonest`) follow without a condition. The
  entry of a state that calls one slot both active and pending is excepted: it
  can be on the disk, and no reader accepts it.
- `Copies` holds while the state files are undoubled. `Copy(i)` is state file i
  without the new entry of a replacement that goes on. The new entry is the state
  in memory, copies of one sequence are the same, memory is no older than either
  and newer until it is written, the second copy is written over an equal first
  one, and the starts of the candidate are counted in the newest copy
  (`StartsCounted`): the loader counts a start before it makes it, so `InFlight`
  is the one recorded and not made. `AttemptsStayBounded` (`AttemptsAreBounded`).
- `Calm` holds while, moreover, the disk has reported no error: the newest copy's
  active slot holds its image, every journal, on the disk or in memory, targets
  the other slot, and memory agrees on the active image except during the
  promotion. `ActiveAlwaysBootable` (`ActiveIsBootable`). It is the failed promotion
  that breaks it.

The steps that touch a file are few (`DiskNext`, `StatesNext`, `JournalsNext`,
`ImagesNext`, `CopiesNext`); each layer is proved over them and not over the
actions where it can be.

**`AppLifecycleProofs`** - `FocusStaysLive` (`FocusIsLive`) and `NobodySleepsDeaf`
(`NoDeafSleep`). The model's operators take a machine to a machine, and each has a
lemma that says it keeps `Good`; inside a system call `Sound` suffices. `Cancels`
is what makes them inductive: a cancellation is pending only between the wake-up
of a wait and the return to ring 3 that applies it.

**`NetSocketProofs`** - `WindowAlwaysFits` (`WindowFitsRing`),
`NothingSentIsForgotten` (`UnackedIsPending`) and `WaitersAlwaysWoken`
(`WaitersAreWoken`), from `Good`, which every operator of `SocketEvents`, `Tcp`
and `NetSocket` keeps:

- `Tracked`: una is the pending segment's first number advanced by no more than its
  size, which is at most a full segment and a flag, and so less than half the
  sequence space (`TcpAssumption`). The lemmas on sequence numbers turn the
  signed comparison of `tcp_sequence_less` into numbers: an acknowledgment between
  una and nxt is of a part of the segment, and complete when not before its end.
- `Fits`: the window and the bytes in the ring do not exceed the ring.
- `Attached`: a connection that exists belongs to a socket that has its handle, so
  that a socket is not released with its connection alive and a new connection
  finds an empty ring. In `net_socket_connect` the handle is stored last, hence
  `Sound`.
- `Attended`: the queue has nobody twice and nobody that was woken, is empty when
  an end is there, and does not hold every task when an event is there that all
  of them wait for.

`StreamsStayIntact` (`StreamsAreIntact`), `EofMeansAllData` (`EofAfterAllData`) and
`CleanCloseAlwaysDelivers` (`CleanCloseDelivers`) rest on a second invariant,
`StreamInv`, which relates both ends and what is in flight:

- `Exact` is what every handler of the host keeps: what was read and what is in
  the RX ring count the peer's bytes from the first on, and the connection awaits
  the next (`Received`, `Hears`); the pending segment and the TX ring are what was
  written and is not acknowledged, in order (`Queued`, `Numbered`); each segment
  sent is a slice of what was written at its place (`Outgoing`).
- `From` says of each segment of the peer, whenever it arrives, that it carries a
  part of the peer's stream at its place and acknowledges no more than the peer
  has. `PeerExact`: what the peer has is a prefix of what was written.
- A segment that is late must not be taken for a new one. `NetAssumption` asks
  that a stream with its SYN and FIN is less than half the sequence space, so that
  no number comes round while a segment that carries it may arrive: the code has
  no other defence, and relies on the network's lifetime of a segment.
- A connection that failed before the answer to its SYN does not know the peer's
  numbers (`Deaf`), and what it sends does not open the peer (`Mute`).
- The peer takes the segments of one step one after the other; that it has a
  prefix after each is proved by the least segment for which it fails.

Only model-checked, because no prover here can state or reach them: liveness
under fairness (`OwedIsServed`, `TimedWaitsEnd`, `RequestsEnd`, `EndsAreReaped`), as
there is no ENABLED, and `CloseCompletes`, which is a fold over the polls of a
silence. Only model-checked so far: `AtomicNames`, `RenameKeepsTheFile`,
`DamageIsConfined` and `NothingLeaks` of `Fat32Transaction`, whose chains and
images are folds over data.

## 9. What is not modelled

- Hashes, signatures and checks of structure are perfect: a file that verifies
  is the image. The fixed area of the legacy kernel is intact and sectors do not
  rot; of a write in flight at a power cut, only the loader's in-place sector
  can be torn.
- The spinlock of `update_system_slots.c` (one request at a time in the model),
  the exhaustion of state sequences, and the fields that only explain a result.
- Statistics, names, owners, log messages and the diagnostic snapshots of every
  component; the System fallback of the workqueue and the binding of its worker.
- Of the network: several connections and their table, the generic sockets of
  `socket.c`, poll and ioctl, the estimate of the RTO, a passive open (the code
  has none). The peer conforms to the protocol.
- Of FAT: directories that are created or grow, FAT12, formatting, names of more
  than two entries, timestamps; the cache's request queue and write-back order, of
  which only the durability is kept. A sector is written whole or not at all.
- Of applications: image validation, arguments, handles, the contents of messages,
  several applications at once (the loader admits one), SIGCHLD to a parent (the
  parent is the Shell, which ignores it), shell jobs and pipelines.
- Stacks, registers, page tables and device registers.
- The components of section 1 that the plan lists as next, and the user
  interface, parsers and cryptography, which are about data and not about order.
