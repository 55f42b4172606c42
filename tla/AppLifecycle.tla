---------------------------- MODULE AppLifecycle ----------------------------
(***************************************************************************)
(* One ring 3 application from its launch to the report of its end: the    *)
(* app loader (app_loader.c), signals (signal.c), the mailbox and the      *)
(* input focus (ipc.c), the termination paths of process.c, and the Shell  *)
(* and System processes that launch it, reap it and are woken for it       *)
(* (kernel.c).                                                             *)
(*                                                                         *)
(* Kernel code is cooperative and only ring 3 is preempted, so a system    *)
(* call up to its wait, and what follows a wait up to the return to ring   *)
(* 3, are one step each. What wait_event does inside is module WaitQueue's *)
(* and the choice of who runs is module Scheduler's.                       *)
(*                                                                         *)
(* The loader runs one application at a time and the PID pool is a LIFO,   *)
(* so every application here has the same PID, and a new one may be        *)
(* created as soon as the last one has been reported.                      *)
(***************************************************************************)
EXTENDS Naturals, FiniteSets, Sequences

CONSTANTS Catchable,   \* the signals in use other than KILL and SEGV
          Requests,    \* the calls of signal_action an application makes
          MailLimit    \* IPC_MSG_QUEUE_SIZE - 1, for the application

INT  == 2
KILL == 9
SEGV == 11
TERM == 15
CHLD == 17

Actions == [disposition : {"DEFAULT", "IGNORE", "HANDLER"},
            mask : SUBSET Catchable]

ASSUME ConstantsAssumption ==
  /\ Catchable \subseteq {INT, TERM, CHLD}
  /\ Requests \subseteq [signal : Catchable, action : Actions]
  /\ MailLimit \in Nat \ {0}

VARIABLES
  app,      \* the process_t of the application
  focus,    \* focused_pid; the fallback is the Shell, which never ends
  loader,   \* app_loader_pending_pid, _active_pid and _result_pending
  shell,    \* the Shell: where it is, its mailbox, condition # ipc_wait_generation
  unseen    \* process_event_generation # kernel_last_process_event_generation

vars == <<app, focus, loader, shell, unseen>>

NoSignal == 0
DefaultAction == [disposition |-> "DEFAULT", mask |-> {}]

Places == {"ring3", "recv", "stdin", "pipe"}
Apps == [st : {"NONE", "SUSPENDED", "READY", "ASLEEP", "ZOMBIE"},
         at : Places, reason : {"NONE", "EVENT", "SIGNAL", "CANCELLED"},
         mail : Seq({"key", "app"}),
         pending : SUBSET Catchable, blocked : SUBSET Catchable,
         act : [Catchable -> Actions],
         active : Catchable \cup {NoSignal}, saved : SUBSET Catchable,
         cancel : BOOLEAN,
         fatal : BOOLEAN]      \* termination_signal is SIGKILL or SIGSEGV

NoApp == [st |-> "NONE", at |-> "ring3", reason |-> "NONE", mail |-> <<>>,
          pending |-> {}, blocked |-> {},
          act |-> [s \in Catchable |-> DefaultAction],
          active |-> NoSignal, saved |-> {},
          cancel |-> FALSE, fatal |-> FALSE]

\* The operators below take the state k of the machine to its next state.
Now == [app |-> app, focus |-> focus, loader |-> loader, shell |-> shell,
        unseen |-> unseen]
Becomes(k) ==
  /\ app' = k.app /\ focus' = k.focus /\ loader' = k.loader
  /\ shell' = k.shell /\ unseen' = k.unseen

Alive(a) == a.st \in {"SUSPENDED", "READY", "ASLEEP"}
Deliverable(a) == a.pending \ a.blocked
Busy(a) == a.at \in {"stdin", "pipe"}      \* active_operations of a descriptor

\* wait_queue_remove and wake_up, for the application.
Woken(a, reason) ==
  IF a.st = "ASLEEP" THEN [a EXCEPT !.st = "READY", !.reason = reason] ELSE a

\* wake_up on the channel of the Shell.
WakeShell(k) ==
  [k EXCEPT !.shell.signalled = TRUE,
            !.shell.at = IF @ = "asleep" THEN "woken" ELSE @]

-----------------------------------------------------------------------------
(* Termination (process.c).                                                *)

\* Fault: the focus stays with the process that ended.
MarkZombieFaulty(k) ==
  LET a == Woken(k.app, "CANCELLED")
  IN IF Busy(a) THEN [k EXCEPT !.app = a]
     ELSE [k EXCEPT !.unseen = TRUE,
                    !.app = [NoApp EXCEPT !.st = "ZOMBIE",
                                          !.fatal = a.fatal]]

\* process_mark_user_zombie: the wait is cancelled and the focus given back
\* before vfs_fd_table_release refuses because of an operation under way. The
\* SIGCHLD goes to the Shell, which ignores it.
MarkZombie(k) ==
  LET a == Woken(k.app, "CANCELLED")
      g == [k EXCEPT !.focus = "shell", !.app = a]
  IN IF Busy(a) THEN g
     ELSE [g EXCEPT !.unseen = TRUE,
                    !.app = [NoApp EXCEPT !.st = "ZOMBIE",
                                          !.fatal = a.fatal]]

\* process_terminate_user_signal_generation
Terminate(k, s) == MarkZombie([k EXCEPT !.app.fatal = s \in {KILL, SEGV}])

\* Fault: a wait is not cancelled together with the request.
CancelFaulty(k) ==
  IF ~Alive(k.app) \/ k.app.cancel THEN k
  ELSE LET g == [k EXCEPT !.app.fatal = FALSE]
       IN IF g.app.st = "ASLEEP" THEN [g EXCEPT !.app.cancel = TRUE]
          ELSE MarkZombie(g)

\* process_cancel_user_generation: a process inside a wait is woken and ends
\* itself on its way back to ring 3.
Cancel(k) ==
  IF ~Alive(k.app) \/ k.app.cancel THEN k
  ELSE LET g == [k EXCEPT !.app.fatal = FALSE]
       IN IF g.app.st = "ASLEEP"
          THEN [g EXCEPT !.app = [Woken(@, "CANCELLED") EXCEPT !.cancel = TRUE]]
          ELSE MarkZombie(g)

-----------------------------------------------------------------------------
(* Signals (signal.c).                                                     *)

\* signal_ignored_by_action
Ignored(a, s) ==
  /\ s \in Catchable
  /\ \/ a.act[s].disposition = "IGNORE"
     \/ s = CHLD /\ a.act[s].disposition = "DEFAULT"

\* process_signal_send_generation
Send(k, s) ==
  IF ~Alive(k.app) \/ Ignored(k.app, s) THEN k
  ELSE IF s \in {KILL, SEGV} THEN Terminate(k, s)
  ELSE LET a == [k.app EXCEPT !.pending = @ \cup {s}]
       IN [k EXCEPT !.app = IF s \in a.blocked THEN a ELSE Woken(a, "SIGNAL")]

\* signal_select: KILL and SEGV are never pending, the lowest number is first.
Selected(a) == CHOOSE s \in Deliverable(a) : \A t \in Deliverable(a) : s <= t

\* What process_signal_prepare_user_return does with the selected signal, the
\* context of signal_deliver_handler included.
Deliver(k, s) ==
  LET a == [k.app EXCEPT !.pending = @ \ {s}]
      action == a.act[s]
  IN IF Ignored(a, s) THEN [k EXCEPT !.app = a]
     ELSE IF action.disposition = "DEFAULT"
     THEN Terminate([k EXCEPT !.app = a], s)
     ELSE [k EXCEPT !.app =
             [a EXCEPT !.active = s, !.saved = a.blocked,
                       !.blocked = @ \cup action.mask \cup {s}]]

\* process_signal_prepare_user_return, before every return to ring 3.
UserReturn(k) ==
  IF k.app.cancel THEN MarkZombie(k)
  ELSE IF k.app.st = "ZOMBIE" \/ k.app.active # NoSignal \/ Deliverable(k.app) = {}
  THEN k
  ELSE Deliver(k, Selected(k.app))

\* The end of a system call: vfs_end_operation, then the return.
Return(k) == UserReturn([k EXCEPT !.app.at = "ring3", !.app.reason = "NONE"])

-----------------------------------------------------------------------------
(* The mailbox (ipc.c) and what reads it.                                  *)

\* ipc_send to the application.
Post(k, kind) ==
  IF ~Alive(k.app) \/ Len(k.app.mail) = MailLimit THEN k
  ELSE LET a == [k.app EXCEPT !.mail = Append(@, kind)]
       IN [k EXCEPT !.app = IF a.at \in {"recv", "stdin"} THEN Woken(a, "EVENT")
                            ELSE a]

\* Fault: the condition of the wait looks at the mailbox only.
IpcWaitFaulty(k, place) ==
  [k EXCEPT !.app.st = "ASLEEP", !.app.at = place, !.app.reason = "NONE"]

\* ipc_wait with an empty mailbox: it returns at once, with the reason SIGNAL,
\* when a signal can be delivered.
IpcWait(k, place) ==
  IF Deliverable(k.app) # {} THEN Return(k)
  ELSE [k EXCEPT !.app.st = "ASLEEP", !.app.at = place, !.app.reason = "NONE"]

\* The loop of syscall_user_message_receive.
ReceiveLoop(k) ==
  IF k.app.mail = <<>> THEN IpcWait(k, "recv")
  ELSE Return([k EXCEPT !.app.mail = Tail(@)])

\* The loop of vfs_stream_read for one byte: messages that are no keys are
\* taken from the mailbox and dropped.
StdinLoop(k) ==
  LET mail == k.app.mail
      keys == {i \in DOMAIN mail : mail[i] = "key"}
      first == CHOOSE i \in keys : \A j \in keys : i <= j
  IN IF keys = {} THEN IpcWait([k EXCEPT !.app.mail = <<>>], "stdin")
     ELSE Return([k EXCEPT !.app.mail = SubSeq(mail, first + 1, Len(mail))])

-----------------------------------------------------------------------------
(* The loader (app_loader.c).                                              *)

LoaderBusy(k) == k.loader.at # "idle" \/ k.loader.result

\* app_loader_run_image: the process is created suspended.
RunImage(k) ==
  IF LoaderBusy(k) THEN k
  ELSE [k EXCEPT !.app = [NoApp EXCEPT !.st = "SUSPENDED"],
                 !.loader.at = "pending"]

\* process_destroy of the application and app_loader_store_result.
Destroyed(k) ==
  [k EXCEPT !.app = NoApp, !.loader = [at |-> "idle", result |-> TRUE]]

\* app_loader_start_pending: the application starts and receives the focus; one
\* that was killed before is removed.
StartPending(k) ==
  IF k.loader.at # "pending" THEN k
  ELSE IF k.app.st = "SUSPENDED"
  THEN [k EXCEPT !.app.st = "READY", !.focus = "app", !.loader.at = "active"]
  ELSE Destroyed(k)

\* app_loader_reap_active
ReapActive(k) ==
  IF k.loader.at = "active" /\ k.app.st = "ZOMBIE" THEN Destroyed(k) ELSE k

\* app_loader_reap_finished
ReapFinished(k) == ReapActive(StartPending(k))

\* app_loader_cancel_foreground: one that never ran is removed at once.
CancelForeground(k) ==
  LET g == Cancel(k)
  IN IF k.loader.at = "pending" /\ k.app.st # "ZOMBIE" THEN Destroyed(g) ELSE g

\* shell_report_app_loader_result keeps the result while a window covers the
\* terminal.
Report(k, terminal) ==
  IF terminal THEN [k EXCEPT !.loader.result = FALSE] ELSE k

-----------------------------------------------------------------------------
(* The application.                                                        *)

InRing3 == app.st = "READY" /\ app.at = "ring3"

\* An interrupt (the timer's at the latest) returns to ring 3.
Interrupted == InRing3 /\ Becomes(UserReturn(Now))

Receive == InRing3 /\ Becomes(ReceiveLoop(Now))

ReadStdin == InRing3 /\ Becomes(StdinLoop(Now))

\* vfs_pipe_read of an empty pipe; its condition does not look at signals.
ReadPipe ==
  /\ InRing3
  /\ Becomes([Now EXCEPT !.app.st = "ASLEEP", !.app.at = "pipe"])

\* A writer of the pipe: vfs_pipe_wake_readers.
PipeWritten ==
  /\ app.st = "ASLEEP" /\ app.at = "pipe"
  /\ Becomes([Now EXCEPT !.app = Woken(@, "EVENT")])

\* The wait is over and the application runs again.
Resume ==
  /\ app.st = "READY" /\ app.at # "ring3"
  /\ Becomes(CASE app.reason # "EVENT" \/ app.at = "pipe" -> Return(Now)
               [] app.reason = "EVENT" /\ app.at # "pipe" /\ Deliverable(app) # {} ->
                    Return(Now)
               [] OTHER -> IF app.at = "recv" THEN ReceiveLoop(Now)
                           ELSE StdinLoop(Now))

\* process_signal_action, process_signal_mask and process_signal_raise.
SignalAction(request) ==
  /\ InRing3
  /\ Becomes(Return([Now EXCEPT !.app.act[request.signal] = request.action]))

SignalMask(mask) ==
  /\ InRing3
  /\ Becomes(Return([Now EXCEPT !.app.blocked = mask]))

Raise(s) == InRing3 /\ Becomes(Return(Send(Now, s)))

\* process_signal_return, called by the trampoline when the handler ends.
SignalReturn ==
  /\ InRing3 /\ app.active # NoSignal
  /\ Becomes(Return([Now EXCEPT !.app.blocked = app.saved, !.app.saved = {},
                                !.app.active = NoSignal]))

\* process_exit_current
Exit ==
  /\ InRing3
  /\ Becomes(Return(MarkZombie([Now EXCEPT !.app.fatal = FALSE])))

\* process_signal_record_user_fault
UserFault == InRing3 /\ Becomes(Return(Terminate(Now, SEGV)))

-----------------------------------------------------------------------------
(* The kernel's processes.                                                 *)

\* kernel_dispatch_input_work forwards a key to the process with the focus.
Key ==
  Becomes(IF focus = "app" THEN Post(Now, "key")
          ELSE WakeShell([Now EXCEPT !.shell.mail = TRUE]))

\* Ctrl+C is a SIGINT for the application with the focus.
CtrlC == focus = "app" /\ INT \in Catchable /\ Becomes(Send(Now, INT))

\* A cancellation that failed: the application was READY inside a descriptor
\* operation.
Refused(k) == Alive(k.app) /\ ~k.app.cancel

\* F12: process_cancel_focused_user. If it fails F12 is a key like any other,
\* for the process that had the focus.
F12 ==
  /\ focus = "app"
  /\ LET k == Cancel(Now) IN Becomes(IF Refused(k) THEN Post(k, "key") ELSE k)

\* ipc_send by another process.
Message == Becomes(Post(Now, "app"))

\* The Delete key of the Task Manager.
TaskManagerKill == Becomes(Send(Now, KILL))

\* kernel_request_shell_app: the application in the foreground is cancelled and
\* the Shell is asked to open the interface.
OpenInterface ==
  LET k == CancelForeground(Now)
  IN Becomes(IF Refused(k) THEN k ELSE WakeShell([k EXCEPT !.shell.mail = TRUE]))

\* The worker of the App Store launches a package. It tells nobody.
AppStoreRuns == ~LoaderBusy(Now) /\ Becomes(RunImage(Now))

\* kernel_wake_shell_for_event, of which the timer, network and index works are
\* the other callers.
WakeForEvent(k) == IF LoaderBusy(k) THEN WakeShell(k) ELSE k
WorkEvent == LoaderBusy(Now) /\ Becomes(WakeForEvent(Now))

\* kernel_wake_shell_for_process_event, once per turn of the System process.
SystemTurn == unseen /\ Becomes(WakeForEvent([Now EXCEPT !.unseen = FALSE]))

\* The second half of the loop of shell_process_main.
ShellServes(k, terminal) == ReapFinished(Report(ReapFinished(k), terminal))

\* A turn of shell_process_main that has messages. The command line that they
\* complete, if they complete one, may launch an application or signal one: k
\* is what the command makes of MailRead.
MailRead == [Now EXCEPT !.shell.mail = FALSE]
ShellReads(k, terminal) ==
  /\ shell.at = "loop" /\ shell.mail
  /\ Becomes(ShellServes(k, terminal))

Kill(s) == \E terminal \in BOOLEAN : ShellReads(Send(MailRead, s), terminal)

\* One that has none: ipc_wait returns at once when the channel was signalled
\* since the last wait, and sleeps otherwise.
ShellWaits(terminal) ==
  /\ shell.at = "loop" /\ ~shell.mail
  /\ Becomes(IF shell.signalled
             THEN ShellServes([Now EXCEPT !.shell.signalled = FALSE], terminal)
             ELSE [Now EXCEPT !.shell.at = "asleep"])

\* The wait of the Shell ends: the generation is confirmed.
ShellWakes(terminal) ==
  /\ shell.at = "woken"
  /\ Becomes(ShellServes([Now EXCEPT !.shell.at = "loop",
                                     !.shell.signalled = FALSE], terminal))

-----------------------------------------------------------------------------
Init ==
  /\ app = NoApp /\ focus = "shell" /\ unseen = FALSE
  /\ loader = [at |-> "idle", result |-> FALSE]
  /\ shell = [at |-> "loop", mail |-> FALSE, signalled |-> FALSE]

ShellStep == \E terminal \in BOOLEAN :
  \/ ShellReads(MailRead, terminal) \/ ShellReads(RunImage(MailRead), terminal)
  \/ ShellWaits(terminal) \/ ShellWakes(terminal)

Next ==
  \/ Interrupted \/ Receive \/ ReadStdin \/ ReadPipe \/ PipeWritten \/ Resume
  \/ \E request \in Requests : SignalAction(request)
  \/ \E mask \in SUBSET Catchable : SignalMask(mask)
  \/ \E s \in Catchable \cup {KILL, SEGV} : Raise(s)
  \/ SignalReturn \/ Exit \/ UserFault
  \/ Key \/ CtrlC \/ F12 \/ Message \/ TaskManagerKill \/ OpenInterface
  \/ AppStoreRuns \/ WorkEvent
  \/ SystemTurn \/ ShellStep \/ \E s \in Catchable \cup {KILL, SEGV} : Kill(s)

\* The scheduler runs every process that is ready (BoundedOvertaking of module
\* Scheduler): the application after a wait, the System process and the Shell.
Fairness == WF_vars(Resume) /\ WF_vars(SystemTurn) /\ WF_vars(ShellStep)

Spec == Init /\ [][Next]_vars /\ Fairness

-----------------------------------------------------------------------------
TypeOK ==
  /\ app.mail \in Seq({"key", "app"}) /\ Len(app.mail) <= MailLimit
  /\ app \in Apps
  /\ focus \in {"shell", "app"} /\ unseen \in BOOLEAN
  /\ loader \in [at : {"idle", "pending", "active"}, result : BOOLEAN]
  /\ shell \in [at : {"loop", "asleep", "woken"}, mail : BOOLEAN,
                signalled : BOOLEAN]

(* Nobody sleeps over what should wake it. An application asleep in        *)
(* ipc_wait has an empty mailbox and no signal it could be given, one      *)
(* asleep anywhere has no cancellation, and the Shell asleep has no        *)
(* message and no unconfirmed event, whatever order signals, messages and  *)
(* cancellations came in. A wait in a pipe is left out for signals: one    *)
(* signal is delivered per return, so a second may be pending at the call. *)
NoDeafSleep ==
  /\ TypeOK
  /\ app.st = "ASLEEP" =>
       /\ ~app.cancel
       /\ app.at # "pipe" => app.mail = <<>> /\ Deliverable(app) = {}
  /\ shell.at = "asleep" => ~shell.mail /\ ~shell.signalled

(* The focus is never left with an application that has ended or that was  *)
(* not started (process_restore_focus before the zombie mark), so a key    *)
(* never goes to a PID that a later application receives; and the loader   *)
(* knows every application that exists.                                    *)
FocusIsLive ==
  /\ focus = "app" => app.st \in {"READY", "ASLEEP"} /\ loader.at = "active"
  /\ app.st # "NONE" <=> loader.at # "idle"

(* An application that was cancelled, or has ended in any way, is reaped:  *)
(* the Shell, which may be asleep without a timeout, is woken for it.      *)
EndsAreReaped == (app.cancel \/ app.st = "ZOMBIE") ~> (app.st = "NONE")

(* "SIGKILL e SIGSEGV sao fatais" (docs/07-processos/processos.md): an     *)
(* application that one of them was sent to does not come back to ring 3.  *)
KillIsFatal == app.fatal /\ Alive(app) => app.at # "ring3"
=============================================================================
