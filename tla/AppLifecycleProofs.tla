------------------------- MODULE AppLifecycleProofs -------------------------
(***************************************************************************)
(* Theorems about the life of an application, for every set of catchable   *)
(* signals, every choice of signal actions and every mailbox size. The     *)
(* model's operators take one state of the machine to the next, and so do  *)
(* the lemmas: each says what one of them makes of a good state.           *)
(***************************************************************************)
EXTENDS AppLifecycle, KernelListsProofs

Loaders == [at : {"idle", "pending", "active"}, result : BOOLEAN]
Shells  == [at : {"loop", "asleep", "woken"}, mail : BOOLEAN, signalled : BOOLEAN]
Machines == [app : Apps, focus : {"shell", "app"}, loader : Loaders,
             shell : Shells, unseen : BOOLEAN]

Typed(k) == k \in Machines /\ Len(k.app.mail) <= MailLimit

(* FocusIsLive and the two halves of NoDeafSleep, of any machine k; a wait *)
(* is inside a system call.                                               *)
Focused(k) ==
  /\ k.focus = "app" => k.app.st \in {"READY", "ASLEEP"} /\ k.loader.at = "active"
  /\ k.app.st # "NONE" <=> k.loader.at # "idle"

AppSleeps(k) ==
  k.app.st = "ASLEEP" =>
    /\ ~k.app.cancel /\ k.app.at # "ring3"
    /\ k.app.at # "pipe" => k.app.mail = <<>> /\ Deliverable(k.app) = {}

ShellSleeps(k) ==
  k.shell.at = "asleep" => ~k.shell.mail /\ ~k.shell.signalled

(* A cancellation is pending only between the wake-up of a wait and the    *)
(* return to ring 3 that applies it.                                       *)
Cancels(k) ==
  k.app.cancel =>
    k.app.st = "READY" /\ k.app.at # "ring3" /\ k.app.reason = "CANCELLED"

Good(k) ==
  Typed(k) /\ Focused(k) /\ AppSleeps(k) /\ ShellSleeps(k) /\ Cancels(k)

(* All of it but the cancellation, for the steps inside a system call. *)
Sound(k) == Typed(k) /\ Focused(k) /\ AppSleeps(k) /\ ShellSleeps(k)

IInv == Good(Now)
-----------------------------------------------------------------------------
(* The records. *)
LEMMA WithApp ==
  ASSUME NEW k \in Machines, NEW a \in Apps
  PROVE  LET r == [k EXCEPT !.app = a]
         IN /\ r \in Machines /\ r.app = a /\ r.focus = k.focus
            /\ r.loader = k.loader /\ r.shell = k.shell
BY DEF Machines

(* An empty slot, suspended or ended, sleeps over nothing. *)
LEMMA NoAppFields ==
  /\ NoApp \in Apps /\ NoApp.st = "NONE" /\ NoApp.at = "ring3" /\ NoApp.mail = <<>>
  /\ ~NoApp.cancel
  /\ \A x \in {"NONE", "SUSPENDED", "ZOMBIE"}, f \in BOOLEAN :
       LET z == [NoApp EXCEPT !.st = x, !.fatal = f]
       IN /\ z \in Apps /\ z.st = x /\ z.at = "ring3" /\ z.mail = <<>> /\ ~z.cancel
<1>1. DefaultAction \in Actions
  BY DEF DefaultAction, Actions
<1>2. NoApp.act \in [Catchable -> Actions]
  BY <1>1 DEF NoApp
<1>3. NoApp \in Apps
  BY <1>2 DEF NoApp, Apps, Places
<1>4. /\ NoApp.st = "NONE" /\ NoApp.at = "ring3" /\ NoApp.mail = <<>> /\ ~NoApp.cancel
  BY DEF NoApp
<1>5. ASSUME NEW x \in {"NONE", "SUSPENDED", "ZOMBIE"}, NEW f \in BOOLEAN
      PROVE  LET z == [NoApp EXCEPT !.st = x, !.fatal = f]
             IN /\ z \in Apps /\ z.st = x /\ z.at = "ring3" /\ z.mail = <<>> /\ ~z.cancel
  <2> HIDE DEF NoApp
  <2> QED BY <1>3, <1>4 DEF Apps
<1> QED BY <1>3, <1>4, <1>5

(* A wake-up makes a sleeping application READY and touches nothing else. *)
LEMMA WokenFields ==
  ASSUME NEW a \in Apps, NEW reason \in {"EVENT", "SIGNAL", "CANCELLED"}
  PROVE  /\ Woken(a, reason) \in Apps
         /\ Woken(a, reason).st # "ASLEEP"
         /\ (Woken(a, reason).st = "NONE") <=> (a.st = "NONE")
         /\ (Woken(a, reason).st \in {"READY", "ASLEEP"}) <=> (a.st \in {"READY", "ASLEEP"})
         /\ Woken(a, reason).at = a.at /\ Woken(a, reason).mail = a.mail
         /\ Woken(a, reason).cancel = a.cancel /\ Woken(a, reason).fatal = a.fatal
         /\ a.st = "ASLEEP" => Woken(a, reason).st = "READY" /\ Woken(a, reason).reason = reason
         /\ a.st # "ASLEEP" => Woken(a, reason) = a
BY DEF Woken, Apps

-----------------------------------------------------------------------------
(* Termination. *)
LEMMA MarkZombieGood ==
  ASSUME NEW k, Sound(k), k.app.st # "NONE",
         k.app.cancel => k.app.at = "ring3" \/ Cancels(k)
  PROVE  Good(MarkZombie(k))
<1> USE DEF Sound
<1> DEFINE a == Woken(k.app, "CANCELLED")
           g == [k EXCEPT !.focus = "shell", !.app = a]
           z == [NoApp EXCEPT !.st = "ZOMBIE", !.fatal = a.fatal]
<1>1. k \in Machines /\ k.app \in Apps
  BY DEF Typed, Machines
<1>2. /\ a \in Apps /\ a.st \notin {"ASLEEP", "NONE"} /\ a.at = k.app.at
      /\ a.mail = k.app.mail /\ a.cancel = k.app.cancel
      /\ k.app.st = "ASLEEP" => a.st = "READY" /\ a.reason = "CANCELLED"
      /\ k.app.st # "ASLEEP" => a = k.app
  BY <1>1, WokenFields
<1>3. z \in Apps /\ z.st = "ZOMBIE" /\ z.mail = <<>> /\ ~z.cancel
  BY <1>2, NoAppFields, ZenonT(60) DEF Apps
<1> HIDE DEF a, z
<1>4. /\ g \in Machines /\ g.app = a /\ g.focus = "shell" /\ g.loader = k.loader
      /\ g.shell = k.shell
  BY <1>1, <1>2 DEF Machines
<1> HIDE DEF g
<1>5. MarkZombie(k) = IF Busy(a) THEN g ELSE [g EXCEPT !.unseen = TRUE, !.app = z]
  BY DEF MarkZombie, a, g, z
<1>6. CASE Busy(a)
  <2>1. Typed(g)
    BY <1>2, <1>4 DEF Typed
  <2>2. Focused(g) /\ AppSleeps(g) /\ ShellSleeps(g)
    BY <1>2, <1>4 DEF Focused, AppSleeps, ShellSleeps
  <2>3. Cancels(g)
    BY <1>2, <1>4, <1>6 DEF Cancels, Busy
  <2> QED BY <1>5, <1>6, <2>1, <2>2, <2>3 DEF Good
<1>7. CASE ~Busy(a)
  <2> DEFINE h == [g EXCEPT !.unseen = TRUE, !.app = z]
  <2>1. /\ h \in Machines /\ h.app = z /\ h.focus = "shell" /\ h.loader = k.loader
        /\ h.shell = k.shell
    BY <1>3, <1>4 DEF Machines
  <2> HIDE DEF h
  <2>2. Typed(h)
    BY <1>3, <2>1, ConstantsAssumption DEF Typed
  <2>3. Focused(h) /\ AppSleeps(h) /\ ShellSleeps(h) /\ Cancels(h)
    BY <1>3, <2>1 DEF Focused, AppSleeps, ShellSleeps, Cancels
  <2> QED BY <1>5, <1>7, <2>2, <2>3 DEF Good, h
<1> QED BY <1>6, <1>7

(* An application that is awake and stays so. *)
LEMMA AwakeApp ==
  ASSUME NEW k, Sound(k), NEW a \in Apps, a.st # "ASLEEP",
         \/ a.st = k.app.st
         \/ {a.st, k.app.st} \subseteq {"READY", "ASLEEP"},
         Len(a.mail) <= MailLimit
  PROVE  LET r == [k EXCEPT !.app = a]
         IN Sound(r) /\ r.app = a
<1> DEFINE r == [k EXCEPT !.app = a]
<1>1. k \in Machines
  BY DEF Sound, Typed
<1>2. /\ r \in Machines /\ r.app = a /\ r.focus = k.focus
      /\ r.loader = k.loader /\ r.shell = k.shell
  BY <1>1, WithApp
<1> HIDE DEF r
<1>3. Typed(r)
  BY <1>2 DEF Typed
<1>4. Focused(r)
  BY <1>2 DEF Sound, Focused
<1>5. AppSleeps(r) /\ ShellSleeps(r)
  BY <1>2 DEF Sound, AppSleeps, ShellSleeps
<1> QED BY <1>2, <1>3, <1>4, <1>5 DEF r, Sound

(* What holds between system calls holds inside them. *)
LEMMA GoodIsSound == ASSUME NEW k, Good(k) PROVE Sound(k) /\ Cancels(k)
BY DEF Good, Sound

(* process_terminate_user_signal_generation and _exit_current. *)
LEMMA TerminateGood ==
  ASSUME NEW k, Sound(k), k.app.st # "NONE",
         k.app.cancel => k.app.at = "ring3" \/ Cancels(k), NEW f \in BOOLEAN
  PROVE  Good(MarkZombie([k EXCEPT !.app.fatal = f]))
<1> DEFINE r == [k EXCEPT !.app.fatal = f]
<1>1. k \in Machines /\ k.app \in Apps
  BY DEF Sound, Typed, Machines
<1>2. /\ r \in Machines /\ r.app = [k.app EXCEPT !.fatal = f] /\ r.focus = k.focus
      /\ r.loader = k.loader /\ r.shell = k.shell
  BY <1>1 DEF Machines, Apps
<1>3. /\ r.app.st = k.app.st /\ r.app.at = k.app.at /\ r.app.mail = k.app.mail
      /\ r.app.cancel = k.app.cancel /\ r.app.reason = k.app.reason
      /\ Deliverable(r.app) = Deliverable(k.app)
  BY <1>1, <1>2 DEF Apps, Deliverable
<1> HIDE DEF r
<1>4. Sound(r)
  BY <1>2, <1>3 DEF Sound, Typed, Focused, AppSleeps, ShellSleeps
<1>5. Cancels(k) => Cancels(r)
  BY <1>3 DEF Cancels
<1> QED BY <1>3, <1>4, <1>5, MarkZombieGood DEF r

(* process_cancel_user_generation: the cancellation of an application. *)
LEMMA CancelGood == ASSUME NEW k, Good(k) PROVE Good(Cancel(k))
<1>1. Sound(k) /\ Cancels(k) /\ k \in Machines /\ k.app \in Apps
  BY DEF Good, Sound, Typed, Machines
<1>2. CASE ~Alive(k.app) \/ k.app.cancel
  BY <1>2 DEF Cancel
<1>3. CASE Alive(k.app) /\ ~k.app.cancel /\ k.app.st # "ASLEEP"
  <2>1. [k EXCEPT !.app.fatal = FALSE].app.st # "ASLEEP"
    BY <1>1, <1>3 DEF Machines, Apps
  <2>2. Cancel(k) = MarkZombie([k EXCEPT !.app.fatal = FALSE])
    BY <1>3, <2>1 DEF Cancel
  <2>3. k.app.st # "NONE"
    BY <1>3 DEF Alive
  <2> QED BY <1>1, <2>2, <2>3, TerminateGood
<1>4. CASE k.app.st = "ASLEEP" /\ ~k.app.cancel
  <2> DEFINE b == [k.app EXCEPT !.fatal = FALSE]
             a == [Woken(b, "CANCELLED") EXCEPT !.cancel = TRUE]
  <2>1. b \in Apps /\ b.st = "ASLEEP" /\ b.at = k.app.at /\ b.mail = k.app.mail
    BY <1>1, <1>4 DEF Apps
  <2>2. [k EXCEPT !.app.fatal = FALSE] = [k EXCEPT !.app = b]
    BY <1>1 DEF Machines
  <2> HIDE DEF b
  <2>3. /\ a \in Apps /\ a.st = "READY" /\ a.at = k.app.at /\ a.mail = k.app.mail
        /\ a.cancel /\ a.reason = "CANCELLED"
    BY <2>1 DEF Woken, Apps
  <2> HIDE DEF a
  <2>4. Cancel(k) = [k EXCEPT !.app = a]
    <3>1. LET g == [k EXCEPT !.app = b]
          IN [g EXCEPT !.app = [Woken(@, "CANCELLED") EXCEPT !.cancel = TRUE]]
             = [k EXCEPT !.app = a]
      BY <1>1 DEF Machines, a
    <3>2. [k EXCEPT !.app = b].app = b
      BY <1>1 DEF Machines
    <3> QED BY <1>4, <2>1, <2>2, <3>1, <3>2 DEF Cancel, Alive
  <2>5. Sound([k EXCEPT !.app = a]) /\ [k EXCEPT !.app = a].app = a
    BY <1>1, <1>4, <2>3, AwakeApp DEF Sound, Typed
  <2>6. Cancels([k EXCEPT !.app = a])
    <3>1. k.app.at # "ring3"
      BY <1>1, <1>4 DEF Sound, AppSleeps
    <3> QED BY <2>3, <2>5, <3>1 DEF Cancels
  <2> QED BY <2>4, <2>5, <2>6 DEF Good, Sound
<1> QED BY <1>2, <1>3, <1>4
-----------------------------------------------------------------------------
(* Signals. *)
Signals == Catchable \cup {KILL, SEGV}

(* A signal is sent: it is fatal, ignored, blocked or deliverable. *)
LEMMA SendGood == ASSUME NEW k, Good(k), NEW s \in Signals PROVE Good(Send(k, s))
<1>1. Sound(k) /\ Cancels(k) /\ k \in Machines /\ k.app \in Apps
  BY DEF Good, Sound, Typed, Machines
<1>2. CASE ~Alive(k.app) \/ Ignored(k.app, s)
  BY <1>2 DEF Send
<1>3. CASE Alive(k.app) /\ ~Ignored(k.app, s) /\ s \in {KILL, SEGV}
  <2>1. k.app.st # "NONE" /\ (s \in {KILL, SEGV}) \in BOOLEAN
    BY <1>3 DEF Alive
  <2>2. Send(k, s) = MarkZombie([k EXCEPT !.app.fatal = s \in {KILL, SEGV}])
    BY <1>3 DEF Send, Terminate
  <2> QED BY <1>1, <2>1, <2>2, TerminateGood
<1>4. CASE Alive(k.app) /\ ~Ignored(k.app, s) /\ s \notin {KILL, SEGV}
  <2> DEFINE a == [k.app EXCEPT !.pending = @ \cup {s}]
             b == IF s \in a.blocked THEN a ELSE Woken(a, "SIGNAL")
  <2>1. s \in Catchable
    BY <1>4 DEF Signals
  <2>2. /\ a \in Apps /\ a.st = k.app.st /\ a.at = k.app.at /\ a.mail = k.app.mail
        /\ a.cancel = k.app.cancel /\ a.reason = k.app.reason
        /\ a.blocked = k.app.blocked /\ a.pending = k.app.pending \cup {s}
    BY <1>1, <2>1 DEF Apps
  <2> HIDE DEF a
  <2>3. Send(k, s) = [k EXCEPT !.app = b]
    BY <1>4 DEF Send, a
  <2>4. CASE s \in a.blocked
    <3>1. Deliverable(a) = Deliverable(k.app)
      BY <2>2, <2>4 DEF Deliverable
    <3> DEFINE r == [k EXCEPT !.app = a]
    <3>2. /\ r \in Machines /\ r.app = a /\ r.focus = k.focus
          /\ r.loader = k.loader /\ r.shell = k.shell
      BY <1>1, <2>2, WithApp
    <3> HIDE DEF r
    <3>3. Good(r)
      BY <1>1, <2>2, <3>1, <3>2
         DEF Good, Sound, Typed, Focused, AppSleeps, ShellSleeps, Cancels
    <3> QED BY <2>3, <2>4, <3>3 DEF r
  <2>5. CASE s \notin a.blocked
    <3>1. /\ b \in Apps /\ b.st # "ASLEEP" /\ b.mail = k.app.mail
          /\ b.st = k.app.st \/ {b.st, k.app.st} \subseteq {"READY", "ASLEEP"}
          /\ b.cancel = k.app.cancel /\ b.at = k.app.at
          /\ k.app.st # "ASLEEP" => b.st = k.app.st /\ b.reason = k.app.reason
      BY <2>2, <2>5, WokenFields
    <3> HIDE DEF b
    <3>2. Sound([k EXCEPT !.app = b]) /\ [k EXCEPT !.app = b].app = b
      BY <1>1, <3>1, AwakeApp DEF Sound, Typed
    <3>3. Cancels([k EXCEPT !.app = b])
      BY <1>1, <3>1, <3>2 DEF Cancels
    <3> QED BY <2>3, <3>2, <3>3 DEF Good, Sound
  <2> QED BY <2>4, <2>5
<1> QED BY <1>2, <1>3, <1>4

(* signal_select chooses among what may be delivered. *)
LEMMA SelectedIsDeliverable ==
  ASSUME NEW a \in Apps, Deliverable(a) # {}
  PROVE  Selected(a) \in Deliverable(a) /\ Selected(a) \in Catchable
<1>1. Deliverable(a) \subseteq Catchable
  BY DEF Apps, Deliverable
<1>2. Deliverable(a) \in SUBSET Nat
  <2>1. Catchable \subseteq {INT, TERM, CHLD}
    BY ConstantsAssumption
  <2>2. INT \in Nat /\ TERM \in Nat /\ CHLD \in Nat
    BY DEF INT, TERM, CHLD
  <2> QED BY <1>1, <2>1, <2>2
<1>3. \E s \in Deliverable(a) : \A t \in Deliverable(a) : s <= t
  BY <1>2, LeastNumber
<1> QED BY <1>1, <1>3 DEF Selected

(* The delivery of one signal to an application that runs. *)
LEMMA DeliverGood ==
  ASSUME NEW k, Sound(k), k.app.st = "READY", ~k.app.cancel, NEW s \in Catchable
  PROVE  Good(Deliver(k, s))
<1> DEFINE a == [k.app EXCEPT !.pending = @ \ {s}]
           action == a.act[s]
           h == [a EXCEPT !.active = s, !.saved = a.blocked,
                          !.blocked = @ \cup action.mask \cup {s}]
<1>1. k \in Machines /\ k.app \in Apps /\ Len(k.app.mail) <= MailLimit
  BY DEF Sound, Typed, Machines
<1>2. /\ a \in Apps /\ a.st = "READY" /\ ~a.cancel /\ a.mail = k.app.mail
      /\ a.at = k.app.at
  BY <1>1 DEF Apps
<1> HIDE DEF a
<1>3. action \in Actions
  BY <1>2 DEF Apps
<1>4. h \in Apps /\ h.st = "READY" /\ ~h.cancel /\ h.mail = k.app.mail
  <2>1. action.mask \subseteq Catchable
    BY <1>3 DEF Actions
  <2> HIDE DEF action
  <2> QED BY <1>2, <2>1 DEF Apps
<1>5. /\ Sound([k EXCEPT !.app = a]) /\ [k EXCEPT !.app = a].app = a
      /\ Sound([k EXCEPT !.app = h]) /\ [k EXCEPT !.app = h].app = h
  <2> HIDE DEF h
  <2> QED BY <1>1, <1>2, <1>4, AwakeApp
<1>6. Good([k EXCEPT !.app = a]) /\ Good([k EXCEPT !.app = h])
  <2> HIDE DEF h
  <2> QED BY <1>2, <1>4, <1>5 DEF Good, Sound, Cancels
<1>7. Good(Terminate([k EXCEPT !.app = a], s))
  <2>1. (s \in {KILL, SEGV}) \in BOOLEAN
    OBVIOUS
  <2> QED BY <1>2, <1>5, <2>1, TerminateGood DEF Terminate
<1>8. Deliver(k, s) \in {[k EXCEPT !.app = a], Terminate([k EXCEPT !.app = a], s),
                         [k EXCEPT !.app = h]}
  BY DEF Deliver, a
<1> QED BY <1>6, <1>7, <1>8

(* The return to ring 3, where a pending cancellation is applied. *)
LEMMA UserReturnGood ==
  ASSUME NEW k, Sound(k), k.app.at = "ring3", k.app.st \in {"READY", "ZOMBIE"}
  PROVE  Good(UserReturn(k))
<1>1. k \in Machines /\ k.app \in Apps
  BY DEF Sound, Typed, Machines
<1>2. CASE k.app.cancel
  BY <1>2, MarkZombieGood DEF UserReturn
<1>3. CASE /\ ~k.app.cancel
           /\ \/ k.app.st = "ZOMBIE" \/ k.app.active # NoSignal
              \/ Deliverable(k.app) = {}
  BY <1>3 DEF UserReturn, Good, Sound, Cancels
<1>4. CASE /\ ~k.app.cancel /\ k.app.st = "READY" /\ k.app.active = NoSignal
           /\ Deliverable(k.app) # {}
  <2>1. UserReturn(k) = Deliver(k, Selected(k.app))
    BY <1>4 DEF UserReturn
  <2> QED BY <1>1, <1>4, <2>1, SelectedIsDeliverable, DeliverGood
<1> QED BY <1>2, <1>3, <1>4

(* The return to ring 3 applies a pending cancellation and delivers a signal. *)
LEMMA ReturnGood ==
  ASSUME NEW k, Sound(k), k.app.st \in {"READY", "ZOMBIE"}
  PROVE  Good(Return(k))
<1> DEFINE a == [k.app EXCEPT !.at = "ring3", !.reason = "NONE"]
<1>1. k \in Machines /\ k.app \in Apps /\ Len(k.app.mail) <= MailLimit
  BY DEF Sound, Typed, Machines
<1>2. a \in Apps /\ a.at = "ring3" /\ a.st = k.app.st /\ a.mail = k.app.mail
  BY <1>1 DEF Apps, Places
<1>3. [k EXCEPT !.app.at = "ring3", !.app.reason = "NONE"] = [k EXCEPT !.app = a]
  BY <1>1 DEF Machines, Apps
<1> HIDE DEF a
<1>4. Sound([k EXCEPT !.app = a]) /\ [k EXCEPT !.app = a].app = a
  BY <1>1, <1>2, AwakeApp
<1> QED BY <1>2, <1>3, <1>4, UserReturnGood DEF Return

-----------------------------------------------------------------------------
(* The mailbox. *)
LEMMA PostGood ==
  ASSUME NEW k, Good(k), NEW kind \in {"key", "app"}
  PROVE  Good(Post(k, kind))
<1>1. /\ Sound(k) /\ Cancels(k) /\ k \in Machines /\ k.app \in Apps
      /\ Len(k.app.mail) <= MailLimit
  BY DEF Good, Sound, Typed, Machines
<1>2. CASE ~Alive(k.app) \/ Len(k.app.mail) = MailLimit
  BY <1>2 DEF Post
<1>3. CASE Alive(k.app) /\ Len(k.app.mail) # MailLimit
  <2> DEFINE a == [k.app EXCEPT !.mail = Append(@, kind)]
             b == IF a.at \in {"recv", "stdin"} THEN Woken(a, "EVENT") ELSE a
  <2>1. k.app.mail \in Seq({"key", "app"})
    BY <1>1 DEF Apps
  <2>2. /\ Append(k.app.mail, kind) \in Seq({"key", "app"})
        /\ Len(Append(k.app.mail, kind)) <= MailLimit
    BY <1>1, <1>3, <2>1, ConstantsAssumption
  <2>3. /\ a \in Apps /\ a.st = k.app.st /\ a.at = k.app.at /\ Len(a.mail) <= MailLimit
        /\ a.cancel = k.app.cancel /\ a.reason = k.app.reason
    BY <1>1, <2>2 DEF Apps
  <2> HIDE DEF a
  <2>4. Post(k, kind) = [k EXCEPT !.app = b]
    BY <1>3 DEF Post, a
  <2>5. CASE a.st # "ASLEEP" \/ a.at \in {"recv", "stdin"}
    <3>1. /\ b \in Apps /\ b.st # "ASLEEP" /\ Len(b.mail) <= MailLimit
          /\ b.st = k.app.st \/ {b.st, k.app.st} \subseteq {"READY", "ASLEEP"}
          /\ b.cancel = k.app.cancel /\ b.at = k.app.at
          /\ k.app.st # "ASLEEP" => b.st = k.app.st /\ b.reason = k.app.reason
      BY <2>3, <2>5, WokenFields
    <3> HIDE DEF b
    <3>2. Sound([k EXCEPT !.app = b]) /\ [k EXCEPT !.app = b].app = b
      BY <1>1, <3>1, AwakeApp
    <3>3. Cancels([k EXCEPT !.app = b])
      BY <1>1, <3>1, <3>2 DEF Cancels
    <3> QED BY <2>4, <3>2, <3>3 DEF Good, Sound
  <2>6. CASE a.st = "ASLEEP" /\ a.at \notin {"recv", "stdin"}
    <3>1. a.at = "pipe"
      BY <2>3, <2>6, <1>1 DEF Sound, AppSleeps, Apps, Places
    <3> DEFINE r == [k EXCEPT !.app = a]
    <3>2. /\ r \in Machines /\ r.app = a /\ r.focus = k.focus
          /\ r.loader = k.loader /\ r.shell = k.shell
      BY <1>1, <2>3, WithApp
    <3> HIDE DEF r
    <3>3. Good(r)
      BY <1>1, <2>3, <2>6, <3>1, <3>2
         DEF Good, Sound, Typed, Focused, AppSleeps, ShellSleeps, Cancels
    <3> QED BY <2>4, <2>6, <3>3 DEF r
  <2> QED BY <2>5, <2>6
<1> QED BY <1>2, <1>3

(* ipc_wait goes to sleep only when nothing can be delivered. *)
LEMMA IpcWaitGood ==
  ASSUME NEW k, Sound(k), k.app.st = "READY", ~k.app.cancel, k.app.mail = <<>>,
         NEW place \in {"recv", "stdin"}
  PROVE  Good(IpcWait(k, place))
<1>1. k \in Machines /\ k.app \in Apps
  BY DEF Sound, Typed, Machines
<1>2. CASE Deliverable(k.app) # {}
  BY <1>2, ReturnGood DEF IpcWait
<1>3. CASE Deliverable(k.app) = {}
  <2> DEFINE a == [k.app EXCEPT !.st = "ASLEEP", !.at = place, !.reason = "NONE"]
             r == [k EXCEPT !.app = a]
  <2>1. /\ a \in Apps /\ a.st = "ASLEEP" /\ a.at = place /\ a.mail = <<>>
        /\ ~a.cancel /\ Deliverable(a) = {}
    BY <1>1, <1>3 DEF Apps, Places, Deliverable
  <2>2. IpcWait(k, place) = r
    BY <1>1, <1>3 DEF IpcWait, Machines, Apps
  <2> HIDE DEF a
  <2>3. /\ r \in Machines /\ r.app = a /\ r.focus = k.focus
        /\ r.loader = k.loader /\ r.shell = k.shell
    BY <1>1, <2>1, WithApp
  <2> HIDE DEF r
  <2>4. Typed(r)
    BY <2>1, <2>3, ConstantsAssumption DEF Typed
  <2>5. Focused(r) /\ AppSleeps(r) /\ ShellSleeps(r) /\ Cancels(r)
    BY <2>1, <2>3 DEF Sound, Focused, AppSleeps, ShellSleeps, Cancels
  <2> QED BY <2>2, <2>4, <2>5 DEF Good
<1> QED BY <1>2, <1>3

(* A machine whose running application has another mailbox. *)
LEMMA MailTaken ==
  ASSUME NEW k, Sound(k), k.app.st = "READY", ~k.app.cancel,
         NEW m \in Seq({"key", "app"}), Len(m) <= MailLimit
  PROVE  LET r == [k EXCEPT !.app.mail = m]
         IN Sound(r) /\ r.app.st = "READY" /\ ~r.app.cancel /\ r.app.mail = m
<1> DEFINE a == [k.app EXCEPT !.mail = m]
<1>1. k \in Machines /\ k.app \in Apps
  BY DEF Sound, Typed, Machines
<1>2. a \in Apps /\ a.st = "READY" /\ a.mail = m /\ ~a.cancel
  BY <1>1 DEF Apps
<1>3. [k EXCEPT !.app.mail = m] = [k EXCEPT !.app = a]
  BY <1>1 DEF Machines
<1> HIDE DEF a
<1>4. Sound([k EXCEPT !.app = a]) /\ [k EXCEPT !.app = a].app = a
  BY <1>2, AwakeApp
<1> QED BY <1>2, <1>3, <1>4

(* The loops of the receive and of the read of stdin. *)
LEMMA LoopsGood ==
  ASSUME NEW k, Sound(k), k.app.st = "READY", ~k.app.cancel
  PROVE  Good(ReceiveLoop(k)) /\ Good(StdinLoop(k))
<1> DEFINE mail == k.app.mail
           keys == {i \in DOMAIN mail : mail[i] = "key"}
           first == CHOOSE i \in keys : \A j \in keys : i <= j
           rest == SubSeq(mail, first + 1, Len(mail))
<1>1. /\ k \in Machines /\ mail \in Seq({"key", "app"}) /\ Len(mail) <= MailLimit
      /\ MailLimit \in Nat
  BY ConstantsAssumption DEF Sound, Typed, Machines, Apps
<1>2. Good(ReceiveLoop(k))
  <2>1. CASE mail = <<>>
    BY <2>1, IpcWaitGood DEF ReceiveLoop
  <2>2. CASE mail # <<>>
    <3>1. Tail(mail) \in Seq({"key", "app"}) /\ Len(Tail(mail)) <= MailLimit
      BY <1>1, <2>2
    <3>2. ReceiveLoop(k) = Return([k EXCEPT !.app.mail = Tail(mail)])
      BY <1>1, <2>2 DEF ReceiveLoop
    <3> HIDE DEF mail
    <3> QED BY <3>1, <3>2, MailTaken, ReturnGood
  <2> QED BY <2>1, <2>2
<1>3. Good(StdinLoop(k))
  <2>1. CASE keys = {}
    <3>1. <<>> \in Seq({"key", "app"}) /\ Len(<<>>) <= MailLimit
      BY <1>1
    <3>2. StdinLoop(k) = IpcWait([k EXCEPT !.app.mail = <<>>], "stdin")
      BY <2>1 DEF StdinLoop
    <3> QED BY <3>1, <3>2, MailTaken, IpcWaitGood
  <2>2. CASE keys # {}
    <3>1. keys \in SUBSET Nat /\ \A i \in keys : i \in 1..Len(mail)
      BY <1>1
    <3>2. first \in 1..Len(mail)
      <4>1. \E i \in keys : \A j \in keys : i <= j
        <5> HIDE DEF keys
        <5> QED BY <2>2, <3>1, LeastNumber
      <4> QED BY <3>1, <4>1
    <3>3. StdinLoop(k) = Return([k EXCEPT !.app.mail = rest])
      BY <2>2 DEF StdinLoop
    <3> HIDE DEF first, keys
    <3>4. rest \in Seq({"key", "app"}) /\ Len(rest) <= MailLimit
      BY <1>1, <3>2
    <3> HIDE DEF rest
    <3> QED BY <3>3, <3>4, MailTaken, ReturnGood
  <2> QED BY <2>1, <2>2
<1> QED BY <1>2, <1>3
-----------------------------------------------------------------------------
(* The loader. *)
LEMMA RunImageGood == ASSUME NEW k, Good(k) PROVE Good(RunImage(k))
<1>1. k \in Machines /\ k.app \in Apps /\ k.loader \in Loaders
  BY DEF Good, Typed, Machines
<1>2. CASE LoaderBusy(k)
  BY <1>2 DEF RunImage
<1>3. CASE ~LoaderBusy(k)
  <2> DEFINE a == [NoApp EXCEPT !.st = "SUSPENDED"]
             r == [k EXCEPT !.app = a, !.loader.at = "pending"]
  <2>1. a \in Apps /\ a.st = "SUSPENDED" /\ a.mail = <<>> /\ ~a.cancel
    <3>1. NoApp \in Apps /\ NoApp.mail = <<>> /\ ~NoApp.cancel
      BY NoAppFields
    <3> HIDE DEF NoApp
    <3> QED BY <3>1 DEF Apps
  <2> HIDE DEF a
  <2>2. /\ r \in Machines /\ r.app = a /\ r.focus = k.focus
        /\ r.loader.at = "pending" /\ r.shell = k.shell
    BY <1>1, <2>1 DEF Machines, Loaders
  <2>3. RunImage(k) = r
    BY <1>3 DEF RunImage, a
  <2> HIDE DEF r
  <2>4. Typed(r)
    BY <2>1, <2>2, ConstantsAssumption DEF Typed
  <2>5. Focused(r)
    BY <1>3, <2>1, <2>2 DEF Good, Focused, LoaderBusy
  <2>6. AppSleeps(r) /\ ShellSleeps(r) /\ Cancels(r)
    BY <2>1, <2>2 DEF Good, AppSleeps, ShellSleeps, Cancels
  <2> QED BY <2>3, <2>4, <2>5, <2>6 DEF Good
<1> QED BY <1>2, <1>3

(* The reaper frees an application that no longer has the focus. *)
LEMMA DestroyedGood ==
  ASSUME NEW k, Good(k), k.focus = "shell" PROVE Good(Destroyed(k))
<1> DEFINE r == Destroyed(k)
<1>1. k \in Machines
  BY DEF Good, Typed
<1>2. NoApp \in Apps /\ NoApp.st = "NONE" /\ NoApp.mail = <<>> /\ ~NoApp.cancel
  BY NoAppFields
<1>3. /\ r \in Machines /\ r.app = NoApp /\ r.focus = "shell"
      /\ r.loader.at = "idle" /\ r.shell = k.shell
  BY <1>1, <1>2 DEF Machines, Loaders, Destroyed
<1> HIDE DEF r
<1>4. Typed(r)
  BY <1>2, <1>3, ConstantsAssumption DEF Typed
<1>5. Focused(r) /\ AppSleeps(r) /\ ShellSleeps(r) /\ Cancels(r)
  BY <1>2, <1>3 DEF Good, Focused, AppSleeps, ShellSleeps, Cancels
<1> QED BY <1>4, <1>5 DEF Good, r

(* The Shell starts the application the loader has prepared. *)
LEMMA StartPendingGood == ASSUME NEW k, Good(k) PROVE Good(StartPending(k))
<1>1. k \in Machines /\ k.app \in Apps /\ k.loader \in Loaders
  BY DEF Good, Typed, Machines
<1>2. CASE k.loader.at # "pending"
  BY <1>2 DEF StartPending
<1>3. CASE k.loader.at = "pending" /\ k.app.st # "SUSPENDED"
  <2>1. k.focus = "shell"
    BY <1>1, <1>3 DEF Good, Focused, Machines
  <2> QED BY <1>3, <2>1, DestroyedGood DEF StartPending
<1>4. CASE k.loader.at = "pending" /\ k.app.st = "SUSPENDED"
  <2> DEFINE r == [k EXCEPT !.app.st = "READY", !.focus = "app", !.loader.at = "active"]
  <2>1. /\ r \in Machines /\ r.app.st = "READY" /\ r.app.cancel = k.app.cancel
        /\ r.app.mail = k.app.mail /\ r.focus = "app"
        /\ r.loader.at = "active" /\ r.shell = k.shell
    BY <1>1 DEF Machines, Loaders, Apps
  <2>2. StartPending(k) = r
    BY <1>4 DEF StartPending
  <2> HIDE DEF r
  <2>3. ~k.app.cancel
    BY <1>4 DEF Good, Cancels
  <2>4. Typed(r) /\ Focused(r) /\ AppSleeps(r) /\ ShellSleeps(r) /\ Cancels(r)
    BY <2>1, <2>3 DEF Good, Typed, Focused, AppSleeps, ShellSleeps, Cancels
  <2> QED BY <2>2, <2>4 DEF Good
<1> QED BY <1>2, <1>3, <1>4

(* The loader reaps the application that has ended. *)
LEMMA ReapGood == ASSUME NEW k, Good(k) PROVE Good(ReapFinished(k))
<1>1. ASSUME NEW m, Good(m) PROVE Good(ReapActive(m))
  <2>1. CASE m.loader.at = "active" /\ m.app.st = "ZOMBIE"
    <3>1. m.focus = "shell"
      BY <1>1, <2>1 DEF Good, Typed, Focused, Machines
    <3> QED BY <1>1, <2>1, <3>1, DestroyedGood DEF ReapActive
  <2>2. CASE ~(m.loader.at = "active" /\ m.app.st = "ZOMBIE")
    BY <1>1, <2>2 DEF ReapActive
  <2> QED BY <2>1, <2>2
<1> QED BY <1>1, StartPendingGood DEF ReapFinished

(* F12 cancels the application in the foreground. *)
LEMMA CancelForegroundGood ==
  ASSUME NEW k, Good(k) PROVE Good(CancelForeground(k))
<1>1. Good(Cancel(k))
  BY CancelGood
<1>2. CASE ~(k.loader.at = "pending" /\ k.app.st # "ZOMBIE")
  BY <1>1, <1>2 DEF CancelForeground
<1>3. CASE k.loader.at = "pending" /\ k.app.st # "ZOMBIE"
  <2>1. k \in Machines /\ k.focus = "shell" /\ k.app \in Apps
    BY <1>3 DEF Good, Typed, Focused, Machines
  <2>3. Cancel(k).focus = "shell"
    BY <2>1 DEF Cancel, MarkZombie, Machines
  <2> QED BY <1>1, <1>3, <2>3, DestroyedGood DEF CancelForeground
<1> QED BY <1>2, <1>3
-----------------------------------------------------------------------------
(* The Shell. Its own state can be replaced by any in which it sleeps over *)
(* nothing.                                                                *)
LEMMA WithShell ==
  ASSUME NEW k, Good(k), NEW s \in Shells,
         s.at = "asleep" => ~s.mail /\ ~s.signalled
  PROVE  LET r == [k EXCEPT !.shell = s]
         IN Good(r) /\ r.app = k.app /\ r.shell = s /\ r.loader = k.loader
<1> DEFINE r == [k EXCEPT !.shell = s]
<1>1. k \in Machines
  BY DEF Good, Typed
<1>2. /\ r \in Machines /\ r.app = k.app /\ r.shell = s /\ r.focus = k.focus
      /\ r.loader = k.loader
  BY <1>1 DEF Machines
<1> HIDE DEF r
<1>3. Good(r)
  BY <1>2 DEF Good, Typed, Focused, AppSleeps, ShellSleeps, Cancels
<1> QED BY <1>2, <1>3 DEF r

(* A message, or an event, wakes the Shell. *)
LEMMA WakeShellGood ==
  ASSUME NEW k, Good(k)
  PROVE  /\ Good(WakeShell(k)) /\ Good(WakeForEvent(k))
         /\ Good(WakeShell([k EXCEPT !.shell.mail = TRUE]))
<1> DEFINE s(m) == [k.shell EXCEPT !.mail = m, !.signalled = TRUE,
                                   !.at = IF @ = "asleep" THEN "woken" ELSE @]
<1>1. k \in Machines /\ k.shell \in Shells
  BY DEF Good, Typed, Machines
<1>2. ASSUME NEW m \in BOOLEAN PROVE s(m) \in Shells /\ s(m).at # "asleep"
  BY <1>1 DEF Shells
<1>3. WakeShell(k) = [k EXCEPT !.shell = s(k.shell.mail)] /\ k.shell.mail \in BOOLEAN
  BY <1>1 DEF WakeShell, Machines, Shells
<1>4. WakeShell([k EXCEPT !.shell.mail = TRUE]) = [k EXCEPT !.shell = s(TRUE)]
  BY <1>1 DEF WakeShell, Machines, Shells
<1> HIDE DEF s
<1>5. /\ s(k.shell.mail) \in Shells /\ s(k.shell.mail).at # "asleep"
      /\ s(TRUE) \in Shells /\ s(TRUE).at # "asleep"
  BY <1>2, <1>3
<1>6. Good([k EXCEPT !.shell = s(k.shell.mail)]) /\ Good([k EXCEPT !.shell = s(TRUE)])
  BY <1>5, WithShell
<1>7. Good(WakeShell(k)) /\ Good(WakeShell([k EXCEPT !.shell.mail = TRUE]))
  BY <1>3, <1>4, <1>6
<1> QED BY <1>7 DEF WakeForEvent

(* One turn of the Shell. *)
LEMMA ServesGood ==
  ASSUME NEW k, Good(k), NEW terminal \in BOOLEAN
  PROVE  Good(ShellServes(k, terminal))
<1>1. ASSUME NEW m, Good(m) PROVE Good(Report(m, terminal))
  <2> DEFINE r == [m EXCEPT !.loader.result = FALSE]
  <2>1. m \in Machines
    BY <1>1 DEF Good, Typed
  <2>2. /\ r \in Machines /\ r.app = m.app /\ r.shell = m.shell /\ r.focus = m.focus
        /\ r.loader.at = m.loader.at
    BY <2>1 DEF Machines, Loaders
  <2> HIDE DEF r
  <2>3. Good(r)
    BY <1>1, <2>2 DEF Good, Typed, Focused, AppSleeps, ShellSleeps, Cancels
  <2> QED BY <1>1, <2>3 DEF Report, r
<1> QED BY <1>1, ReapGood DEF ShellServes
-----------------------------------------------------------------------------
(* The invariant and the steps. *)
LEMMA NowFields ==
  /\ Now.app = app /\ Now.focus = focus /\ Now.loader = loader
  /\ Now.shell = shell /\ Now.unseen = unseen
BY DEF Now

(* An action installs a machine as the next state. *)
LEMMA BecomesGood == ASSUME NEW k, Good(k), Becomes(k) PROVE IInv'
<1>1. k \in Machines
  BY DEF Good, Typed
<1>2. k = [app |-> k.app, focus |-> k.focus, loader |-> k.loader,
           shell |-> k.shell, unseen |-> k.unseen]
  BY <1>1 DEF Machines
<1>3. Now' = k
  BY <1>2 DEF Now, Becomes
<1>4. IInv' <=> Good(Now')
  BY DEF IInv, Good, Typed, Focused, AppSleeps, ShellSleeps, Cancels, Deliverable
<1> QED BY <1>3, <1>4

(* The machine as the Shell starts. *)
LEMMA InitGood == Init => IInv
<1> SUFFICES ASSUME Init PROVE Good(Now)
  BY DEF IInv
<1>1. NoApp \in Apps /\ NoApp.st = "NONE" /\ NoApp.mail = <<>> /\ ~NoApp.cancel
  BY NoAppFields
<1>2. Now.app = NoApp /\ Now.focus = "shell" /\ Now.loader.at = "idle"
      /\ Now.shell.at = "loop"
  BY DEF Init, Now
<1>3. Now \in Machines
  BY <1>1 DEF Init, Now, Machines, Loaders, Shells
<1> HIDE DEF Now
<1>4. Typed(Now)
  BY <1>1, <1>2, <1>3, ConstantsAssumption DEF Typed
<1> QED BY <1>1, <1>2, <1>4 DEF Good, Focused, AppSleeps, ShellSleeps, Cancels

(* The steps of the application in ring 3 and of its waits. *)
LEMMA AppSteps ==
  IInv /\ (Interrupted \/ Receive \/ ReadStdin \/ ReadPipe \/ PipeWritten \/ Resume)
    => IInv'
<1> SUFFICES ASSUME Good(Now),
             Interrupted \/ Receive \/ ReadStdin \/ ReadPipe \/ PipeWritten \/ Resume
      PROVE  IInv'
  BY DEF IInv
<1>1. /\ Sound(Now) /\ Cancels(Now) /\ Now \in Machines /\ Now.app \in Apps
      /\ Len(Now.app.mail) <= MailLimit
  BY DEF Good, Sound, Typed, Machines
<1>2. InRing3 => Now.app.st = "READY" /\ Now.app.at = "ring3" /\ ~Now.app.cancel
  BY <1>1, NowFields DEF InRing3, Cancels
<1>3. CASE Interrupted
  BY <1>1, <1>2, <1>3, UserReturnGood, BecomesGood DEF Interrupted
<1>4. CASE Receive \/ ReadStdin
  BY <1>1, <1>2, <1>4, LoopsGood, BecomesGood DEF Receive, ReadStdin
<1>5. CASE ReadPipe
  <2> DEFINE a == [Now.app EXCEPT !.st = "ASLEEP", !.at = "pipe"]
             r == [Now EXCEPT !.app = a]
  <2>1. Now.app.st = "READY" /\ ~Now.app.cancel /\ Now.app.at = "ring3"
    BY <1>2, <1>5 DEF ReadPipe
  <2>2. [Now EXCEPT !.app.st = "ASLEEP", !.app.at = "pipe"] = r
    BY <1>1 DEF Machines, Apps
  <2>3. a \in Apps /\ a.st = "ASLEEP" /\ a.at = "pipe" /\ ~a.cancel /\ a.mail = Now.app.mail
    BY <1>1, <2>1 DEF Apps, Places
  <2> HIDE DEF a
  <2>4. /\ r \in Machines /\ r.app = a /\ r.focus = Now.focus
        /\ r.loader = Now.loader /\ r.shell = Now.shell
    BY <1>1, <2>3, WithApp
  <2> HIDE DEF r
  <2>5. Good(r)
    BY <1>1, <2>1, <2>3, <2>4
       DEF Good, Sound, Typed, Focused, AppSleeps, ShellSleeps, Cancels
  <2> QED BY <1>5, <2>2, <2>5, BecomesGood DEF ReadPipe
<1>6. CASE PipeWritten
  <2> DEFINE a == Woken(Now.app, "EVENT")
  <2>1. Now.app.st = "ASLEEP" /\ ~Now.app.cancel
    BY <1>1, <1>6, NowFields DEF PipeWritten, Sound, AppSleeps
  <2>2. a \in Apps /\ a.st = "READY" /\ ~a.cancel /\ a.mail = Now.app.mail
    BY <1>1, <2>1, WokenFields
  <2>3. [Now EXCEPT !.app = Woken(@, "EVENT")] = [Now EXCEPT !.app = a]
    BY <1>1 DEF Machines
  <2> HIDE DEF a
  <2>4. Sound([Now EXCEPT !.app = a]) /\ [Now EXCEPT !.app = a].app = a
    BY <1>1, <2>1, <2>2, AwakeApp
  <2>5. Good([Now EXCEPT !.app = a])
    BY <2>2, <2>4 DEF Good, Sound, Cancels
  <2> QED BY <1>6, <2>3, <2>5, BecomesGood DEF PipeWritten
<1>7. CASE Resume
  <2>1. Now.app.st = "READY"
    BY <1>7, NowFields DEF Resume
  <2>2. Good(Return(Now))
    BY <1>1, <2>1, ReturnGood
  <2>3. CASE app.reason # "EVENT" \/ app.at = "pipe" \/ Deliverable(app) # {}
    <3>1. Becomes(Return(Now))
      BY <1>7, <2>3 DEF Resume
    <3> QED BY <2>2, <3>1, BecomesGood
  <2>4. CASE app.reason = "EVENT" /\ app.at # "pipe" /\ Deliverable(app) = {}
    <3>1. ~Now.app.cancel
      BY <1>1, <2>4, NowFields DEF Cancels
    <3>2. Becomes(ReceiveLoop(Now)) \/ Becomes(StdinLoop(Now))
      BY <1>7, <2>4 DEF Resume
    <3> QED BY <1>1, <2>1, <3>1, <3>2, LoopsGood, BecomesGood
  <2> QED BY <2>3, <2>4
<1> QED BY <1>3, <1>4, <1>5, <1>6, <1>7

(* An application that runs is READY or a ZOMBIE after it has terminated   *)
(* itself or sent itself a signal.                                         *)
LEMMA MarkZombieAwake ==
  ASSUME NEW k \in Machines, k.app.st = "READY"
  PROVE  MarkZombie(k).app.st \in {"READY", "ZOMBIE"}
<1> DEFINE a == Woken(k.app, "CANCELLED")
           g == [k EXCEPT !.focus = "shell", !.app = a]
           z == [NoApp EXCEPT !.st = "ZOMBIE", !.fatal = a.fatal]
<1>1. a = k.app /\ k.app \in Apps
  BY DEF Woken, Machines
<1>2. z.st = "ZOMBIE"
  BY <1>1, NoAppFields DEF Apps
<1> HIDE DEF z, a
<1>3. g.app = a /\ [g EXCEPT !.unseen = TRUE, !.app = z].app = z
  BY DEF Machines
<1> HIDE DEF g
<1>4. MarkZombie(k) = IF Busy(a) THEN g ELSE [g EXCEPT !.unseen = TRUE, !.app = z]
  BY DEF MarkZombie, a, g, z
<1> QED BY <1>1, <1>2, <1>3, <1>4

(* An application that ends itself is not left asleep. *)
LEMMA TerminateAwake ==
  ASSUME NEW k \in Machines, k.app.st = "READY", NEW f \in BOOLEAN
  PROVE  MarkZombie([k EXCEPT !.app.fatal = f]).app.st \in {"READY", "ZOMBIE"}
<1>1. [k EXCEPT !.app.fatal = f] \in Machines
  BY DEF Machines, Apps
<1>2. [k EXCEPT !.app.fatal = f].app.st = "READY"
  BY DEF Machines, Apps
<1> QED BY <1>1, <1>2, MarkZombieAwake

(* A signal to an application that runs does not put it to sleep. *)
LEMMA SendAwake ==
  ASSUME NEW k \in Machines, k.app.st = "READY", NEW s \in Signals
  PROVE  Send(k, s).app.st \in {"READY", "ZOMBIE"}
<1>1. k.app \in Apps
  BY DEF Machines
<1>2. CASE Ignored(k.app, s)
  BY <1>2 DEF Send
<1>3. CASE ~Ignored(k.app, s) /\ s \in {KILL, SEGV}
  <2>1. Send(k, s) = MarkZombie([k EXCEPT !.app.fatal = s \in {KILL, SEGV}])
    BY <1>3 DEF Send, Terminate, Alive
  <2>2. (s \in {KILL, SEGV}) \in BOOLEAN
    OBVIOUS
  <2> QED BY <2>1, <2>2, TerminateAwake
<1>4. CASE ~Ignored(k.app, s) /\ s \notin {KILL, SEGV}
  <2> DEFINE a == [k.app EXCEPT !.pending = @ \cup {s}]
  <2>1. a.st = "READY"
    BY <1>1 DEF Apps
  <2>2. Send(k, s) = [k EXCEPT !.app = IF s \in a.blocked THEN a ELSE Woken(a, "SIGNAL")]
    BY <1>4 DEF Send, Alive
  <2> HIDE DEF a
  <2>3. Woken(a, "SIGNAL") = a
    BY <2>1 DEF Woken
  <2>4. Send(k, s) = [k EXCEPT !.app = a]
    BY <2>2, <2>3
  <2> QED BY <2>1, <2>4 DEF Machines
<1> QED BY <1>2, <1>3, <1>4

(* The system calls about signals, and the ends of an application. *)
LEMMA SignalSteps ==
  ASSUME IInv, InRing3,
         \/ \E request \in Requests : SignalAction(request)
         \/ \E mask \in SUBSET Catchable : SignalMask(mask)
         \/ \E s \in Signals : Raise(s)
         \/ SignalReturn \/ Exit \/ UserFault
  PROVE  IInv'
<1>1. /\ Sound(Now) /\ Cancels(Now) /\ Now \in Machines /\ Now.app \in Apps
      /\ Len(Now.app.mail) <= MailLimit /\ Good(Now)
  BY DEF IInv, Good, Sound, Typed, Machines
<1>2. Now.app.st = "READY" /\ Now.app.at = "ring3" /\ ~Now.app.cancel
  BY <1>1, NowFields DEF InRing3, Cancels
<1>3. ASSUME NEW a \in Apps, a.st = "READY", a.mail = Now.app.mail,
             Becomes(Return([Now EXCEPT !.app = a]))
      PROVE  IInv'
  <2>1. Sound([Now EXCEPT !.app = a]) /\ [Now EXCEPT !.app = a].app = a
    BY <1>1, <1>2, <1>3, AwakeApp
  <2> QED BY <1>3, <2>1, ReturnGood, BecomesGood
<1>4. ASSUME NEW request \in Requests, SignalAction(request) PROVE IInv'
  <2> DEFINE a == [Now.app EXCEPT !.act[request.signal] = request.action]
  <2>1. request.signal \in Catchable /\ request.action \in Actions
    BY ConstantsAssumption
  <2>2. a \in Apps /\ a.st = "READY" /\ a.mail = Now.app.mail
    BY <1>1, <1>2, <2>1 DEF Apps
  <2>3. [Now EXCEPT !.app.act[request.signal] = request.action] = [Now EXCEPT !.app = a]
    BY <1>1 DEF Machines
  <2> HIDE DEF a
  <2> QED BY <1>3, <1>4, <2>2, <2>3 DEF SignalAction
<1>5. ASSUME NEW mask \in SUBSET Catchable, SignalMask(mask) PROVE IInv'
  <2> DEFINE a == [Now.app EXCEPT !.blocked = mask]
  <2>1. a \in Apps /\ a.st = "READY" /\ a.mail = Now.app.mail
    BY <1>1, <1>2 DEF Apps
  <2>2. [Now EXCEPT !.app.blocked = mask] = [Now EXCEPT !.app = a]
    BY <1>1 DEF Machines
  <2> HIDE DEF a
  <2> QED BY <1>3, <1>5, <2>1, <2>2 DEF SignalMask
<1>6. ASSUME NEW s \in Signals, Raise(s) PROVE IInv'
  <2>1. Sound(Send(Now, s)) /\ Send(Now, s).app.st \in {"READY", "ZOMBIE"}
    BY <1>1, <1>2, SendGood, SendAwake, GoodIsSound
  <2> QED BY <1>6, <2>1, ReturnGood, BecomesGood DEF Raise
<1>7. CASE SignalReturn
  <2> DEFINE a == [Now.app EXCEPT !.blocked = app.saved, !.saved = {}, !.active = NoSignal]
  <2>1. a \in Apps /\ a.st = "READY" /\ a.mail = Now.app.mail
    BY <1>1, <1>2, NowFields DEF Apps
  <2>2. [Now EXCEPT !.app.blocked = app.saved, !.app.saved = {}, !.app.active = NoSignal]
        = [Now EXCEPT !.app = a]
    BY <1>1 DEF Machines, Apps
  <2> HIDE DEF a
  <2> QED BY <1>3, <1>7, <2>1, <2>2 DEF SignalReturn
<1>8. ASSUME NEW f \in BOOLEAN,
             Becomes(Return(MarkZombie([Now EXCEPT !.app.fatal = f])))
      PROVE  IInv'
  <2> DEFINE k == MarkZombie([Now EXCEPT !.app.fatal = f])
  <2>1. Sound(k) /\ k.app.st \in {"READY", "ZOMBIE"}
    BY <1>1, <1>2, TerminateGood, TerminateAwake, GoodIsSound
  <2> HIDE DEF k
  <2>2. Good(Return(k))
    BY <2>1, ReturnGood
  <2> QED BY <1>8, <2>2, BecomesGood DEF k
<1>9. CASE Exit
  BY <1>8, <1>9 DEF Exit
<1>10. CASE UserFault
  BY <1>8, <1>10 DEF UserFault, Terminate
<1> QED BY <1>4, <1>5, <1>6, <1>7, <1>9, <1>10

(* What the rest of the kernel does to the application. *)
LEMMA KernelSteps ==
  ASSUME IInv,
         \/ Key \/ CtrlC \/ F12 \/ Message \/ TaskManagerKill \/ OpenInterface
         \/ AppStoreRuns \/ WorkEvent \/ SystemTurn
  PROVE  IInv'
<1>1. Good(Now)
  BY DEF IInv
<1>2. CASE Key \/ Message
  BY <1>1, <1>2, PostGood, WakeShellGood, BecomesGood DEF Key, Message
<1>3. CASE CtrlC \/ TaskManagerKill
  BY <1>1, <1>3, SendGood, BecomesGood DEF CtrlC, TaskManagerKill, Signals
<1>4. CASE F12
  BY <1>1, <1>4, CancelGood, PostGood, BecomesGood DEF F12
<1>5. CASE OpenInterface
  BY <1>1, <1>5, CancelForegroundGood, WakeShellGood, BecomesGood DEF OpenInterface
<1>6. CASE AppStoreRuns \/ WorkEvent
  BY <1>1, <1>6, RunImageGood, WakeShellGood, BecomesGood DEF AppStoreRuns, WorkEvent
<1>7. CASE SystemTurn
  <2> DEFINE r == [Now EXCEPT !.unseen = FALSE]
  <2>1. Now \in Machines
    BY <1>1 DEF Good, Typed
  <2>2. /\ r \in Machines /\ r.app = Now.app /\ r.shell = Now.shell
        /\ r.focus = Now.focus /\ r.loader = Now.loader
    BY <2>1 DEF Machines
  <2> HIDE DEF r
  <2>3. Good(r)
    BY <1>1, <2>2 DEF Good, Typed, Focused, AppSleeps, ShellSleeps, Cancels
  <2>4. Becomes(WakeForEvent(r))
    BY <1>7 DEF SystemTurn, r
  <2> QED BY <2>3, <2>4, WakeShellGood, BecomesGood
<1> QED BY <1>2, <1>3, <1>4, <1>5, <1>6, <1>7

(* The turns of the Shell. *)
LEMMA ShellSteps ==
  ASSUME IInv, ShellStep \/ \E s \in Signals : Kill(s) PROVE IInv'
<1>1. Good(Now) /\ Now \in Machines /\ Now.shell \in Shells /\ Now.shell = shell
  BY NowFields DEF IInv, Good, Typed, Machines
<1>2. ASSUME NEW s \in Shells, s.at = "asleep" => ~s.mail /\ ~s.signalled
      PROVE  Good([Now EXCEPT !.shell = s])
  BY <1>1, <1>2, WithShell
<1>3. ASSUME NEW k, Good(k), NEW terminal \in BOOLEAN, ShellReads(k, terminal)
      PROVE  IInv'
  BY <1>3, ServesGood, BecomesGood DEF ShellReads
<1>4. shell.at = "loop" => Good(MailRead)
  <2> DEFINE s == [shell EXCEPT !.mail = FALSE]
  <2>1. MailRead = [Now EXCEPT !.shell = s]
    BY <1>1 DEF MailRead, Machines
  <2>2. s \in Shells /\ s.at = shell.at
    BY <1>1 DEF Shells
  <2> HIDE DEF s
  <2> QED BY <1>2, <2>1, <2>2
<1>5. ASSUME NEW terminal \in BOOLEAN, ShellWaits(terminal) PROVE IInv'
  <2>1. CASE shell.signalled
    <3> DEFINE s == [shell EXCEPT !.signalled = FALSE]
    <3>1. [Now EXCEPT !.shell.signalled = FALSE] = [Now EXCEPT !.shell = s]
      BY <1>1 DEF Machines
    <3>2. s \in Shells /\ s.at = "loop"
      BY <1>1, <1>5 DEF Shells, ShellWaits
    <3> HIDE DEF s
    <3>3. Good([Now EXCEPT !.shell = s])
      BY <1>2, <3>2
    <3> QED BY <1>5, <2>1, <3>1, <3>3, ServesGood, BecomesGood DEF ShellWaits
  <2>2. CASE ~shell.signalled
    <3> DEFINE s == [shell EXCEPT !.at = "asleep"]
    <3>1. [Now EXCEPT !.shell.at = "asleep"] = [Now EXCEPT !.shell = s]
      BY <1>1 DEF Machines
    <3>2. s \in Shells /\ ~s.mail /\ ~s.signalled
      BY <1>1, <1>5, <2>2 DEF Shells, ShellWaits
    <3> HIDE DEF s
    <3>3. Good([Now EXCEPT !.shell = s])
      BY <1>2, <3>2
    <3> QED BY <1>5, <2>2, <3>1, <3>3, BecomesGood DEF ShellWaits
  <2> QED BY <2>1, <2>2
<1>6. ASSUME NEW terminal \in BOOLEAN, ShellWakes(terminal) PROVE IInv'
  <2> DEFINE s == [shell EXCEPT !.at = "loop", !.signalled = FALSE]
  <2>1. [Now EXCEPT !.shell.at = "loop", !.shell.signalled = FALSE]
        = [Now EXCEPT !.shell = s]
    BY <1>1 DEF Machines, Shells
  <2>2. s \in Shells /\ s.at = "loop"
    BY <1>1 DEF Shells
  <2> HIDE DEF s
  <2>3. Good([Now EXCEPT !.shell = s])
    BY <1>2, <2>2
  <2> QED BY <1>6, <2>1, <2>3, ServesGood, BecomesGood DEF ShellWakes
<1>7. CASE ShellStep
  <2>1. PICK terminal \in BOOLEAN :
          \/ ShellReads(MailRead, terminal) \/ ShellReads(RunImage(MailRead), terminal)
          \/ ShellWaits(terminal) \/ ShellWakes(terminal)
    BY <1>7 DEF ShellStep
  <2>2. ASSUME ShellReads(MailRead, terminal) \/ ShellReads(RunImage(MailRead), terminal)
        PROVE  IInv'
    <3>1. Good(MailRead)
      BY <1>4, <2>2 DEF ShellReads
    <3> QED BY <1>3, <2>2, <3>1, RunImageGood
  <2> QED BY <1>5, <1>6, <2>1, <2>2
<1>8. ASSUME NEW s \in Signals, Kill(s) PROVE IInv'
  <2>1. PICK terminal \in BOOLEAN : ShellReads(Send(MailRead, s), terminal)
    BY <1>8 DEF Kill
  <2>2. Good(Send(MailRead, s))
    BY <1>4, <2>1, SendGood DEF ShellReads
  <2> QED BY <1>3, <2>1, <2>2
<1> QED BY <1>7, <1>8

(* Every step keeps the invariant. *)
LEMMA NextGood == IInv /\ [Next]_vars => IInv'
<1> SUFFICES ASSUME IInv, [Next]_vars PROVE IInv'
  OBVIOUS
<1>1. CASE UNCHANGED vars
  BY <1>1 DEF vars, IInv, Now, Good, Typed, Focused, AppSleeps, ShellSleeps, Cancels,
              Deliverable
<1>2. CASE Next
  <2>1. (\/ \E request \in Requests : SignalAction(request)
         \/ \E mask \in SUBSET Catchable : SignalMask(mask)
         \/ \E s \in Signals : Raise(s)
         \/ SignalReturn \/ Exit \/ UserFault) => InRing3
    BY DEF SignalAction, SignalMask, Raise, SignalReturn, Exit, UserFault
  <2> QED BY <1>2, <2>1, AppSteps, SignalSteps, KernelSteps, ShellSteps DEF Next, Signals
<1> QED BY <1>1, <1>2

(* The inductive invariant. A cancellation waits only for the return to    *)
(* ring 3 of an application that was woken for it: without that part the   *)
(* next wait of the application could go to sleep over it.                 *)
THEOREM LifecycleInvariant == Spec => []IInv
BY InitGood, NextGood, PTL DEF Spec

(* The focus is with an application only while that application lives and  *)
(* runs, and the loader knows every application that exists, for every set *)
(* of signals: process_mark_user_zombie gives the focus back on every path *)
(* to an end (exit, fault, signal, cancellation), also when the zombie     *)
(* mark itself is refused.                                                 *)
THEOREM FocusStaysLive == Spec => []FocusIsLive
<1>1. IInv => FocusIsLive
  BY NowFields DEF IInv, Good, Focused, FocusIsLive
<1> QED BY <1>1, LifecycleInvariant, PTL

(* No application and not the Shell sleeps over a message, a signal or a   *)
(* cancellation, whatever order they come in, for every mailbox size.      *)
THEOREM NobodySleepsDeaf == Spec => []NoDeafSleep
<1>1. IInv => NoDeafSleep
  <2> SUFFICES ASSUME IInv PROVE NoDeafSleep
    OBVIOUS
  <2>1. TypeOK
    BY NowFields DEF IInv, Good, Typed, Machines, Loaders, Shells, Apps, TypeOK
  <2> QED BY <2>1, NowFields DEF IInv, Good, AppSleeps, ShellSleeps, NoDeafSleep
<1> QED BY <1>1, LifecycleInvariant, PTL
=============================================================================
