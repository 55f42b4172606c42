----------------------------- MODULE UpdateSlots -----------------------------
(***************************************************************************)
(* The A/B system update: core/update_system_slots.c, which stages,        *)
(* cancels, recovers and confirms images from the kernel, and              *)
(* boot/recovery_loader.c, which chooses the image to start and counts     *)
(* the attempts before any kernel runs.                                    *)
(*                                                                         *)
(* The two share the root directory of the FAT32 system volume only. The   *)
(* kernel replaces a file by publishing a new directory entry and deleting *)
(* the old one afterwards (fs/storage.c), two durable steps: a power cut   *)
(* between them leaves two entries of one name, and every lookup takes the *)
(* first in directory order. A file is therefore the sequence of its       *)
(* entries. The loader rewrites the only sector of a control in place, so  *)
(* its write may be torn.                                                  *)
(*                                                                         *)
(* An image is its version. SHA-256 and the signature are taken as perfect *)
(* checks: a file verifies when it holds a complete image.                 *)
(***************************************************************************)
EXTENDS Integers, Sequences, SequencesExt

CONSTANTS MaxImage,    \* bound: images 2..MaxImage may be staged
          MaxStages,   \* bound: times an image is staged
          MaxFaults,   \* bound: power cuts inside an operation and disk errors
          MaxErrors,   \* bound: disk operations that report an error
          MaxSeq,      \* bound: no boot once a state has this sequence
          AttemptLimit \* UPDATE_SYSTEM_SLOTS_BOOT_ATTEMPT_LIMIT

ASSUME BoundsAssumption ==
  /\ {MaxImage, MaxStages, MaxFaults, MaxErrors, MaxSeq, AttemptLimit}
       \subseteq Nat
  /\ MaxImage >= 1 /\ AttemptLimit >= 1

Slots == {0, 1}
NoSlot == 2                     \* UPDATE_SYSTEM_SLOT_NONE
Images == 1..MaxImage
Partial == 0                    \* an image that is not completely written
Lost == -1                      \* an entry whose clusters were freed
Invalid == -1                   \* UPDATE_SYSTEM_SLOT_FILE_INVALID, in memory

Sta(i) == <<"sta", i>>          \* ZSI0.STA, ZSI1.STA
Jrn(i) == <<"jrn", i>>          \* ZSI0.JRN, ZSI1.JRN
Slot(i) == <<"slot", i>>        \* ZSA0.ZSY, ZSB0.ZSY
Staging == <<"stg", 0>>         \* ZSTG.ZSY
Files == ({"sta", "jrn", "slot"} \X Slots) \cup {Staging}

\* system_slots_state_t; rec[s] is the image slot s is recorded to hold.
Factory == [valid |-> TRUE, seq |-> 1, active |-> 0, pending |-> NoSlot,
            previous |-> 0, attempt |-> NoSlot, boot |-> "NONE",
            attempts |-> 0, recovery |-> FALSE,
            rec |-> [s \in Slots |-> IF s = 0 THEN 1 ELSE 0]]
Torn == [valid |-> FALSE]
Blank == [Factory EXCEPT !.seq = 0, !.rec = [s \in Slots |-> 0],
                         !.previous = NoSlot]

\* The journal's phases, in order.
NoPhase == 0
PREPARED == 1
STAGING == 2
VERIFIED == 3
COMMITTED == 4
NoJournal == [seq |-> 0, phase |-> NoPhase, target |-> NoSlot, image |-> 0]

NoBoot == [slot |-> NoSlot, handoff |-> Torn]
NoContext == [legacy |-> FALSE, invalid |-> NoSlot, noRetry |-> FALSE,
              continue |-> FALSE, slot |-> NoSlot]

VARIABLES
  disk,      \* [Files -> entries of that name, in directory order]
  doing, task,  \* what is running, and for which operation
  half,      \* entry the replacement in progress must still delete
  mem,       \* system_slots_state
  mj,        \* system_slots_journal
  bad,       \* system_slots_state_degraded
  run,       \* the slot the running kernel came from and its ZSBH handoff
  ctx,       \* recovery_boot_context_t
  failed,    \* first_error of clear_journal is set
  confirmed, \* images that ran to boot_confirm
  starts,    \* times the pending candidate was started, up to one too many
  approved,  \* image a preflight has just promised to attempt
  stages, crashes, errors

kernel == <<mem, mj, bad, run, failed>>
history == <<confirmed, starts, approved, stages>>
counts == <<crashes, errors>>
slotsVars == <<disk, doing, task, half, kernel, ctx, history, counts>>

SlotsInit ==
  /\ disk = [f \in Files |-> CASE f = Slot(0) -> <<1>>
                               [] f \in {Sta(0), Sta(1)} -> <<Factory>>
                               [] OTHER -> <<>>]
  /\ doing = "loader" /\ task = "none" /\ half = 0
  /\ mem = Blank /\ mj = NoJournal /\ bad = FALSE
  /\ run = NoBoot /\ ctx = NoContext /\ failed = FALSE
  /\ confirmed = {1} /\ starts = 0 /\ approved = 0 /\ stages = 0
  /\ crashes = 0 /\ errors = 0

-----------------------------------------------------------------------------
(* What both programs read from the volume.                                *)

Exists(d, f) == d[f] # <<>>

\* system_slots_decode_state and recovery_load_state accept these bytes.
Decodes(c) ==
  /\ c.valid /\ c.seq > 0
  /\ \A s \in Slots : c.rec[s] # Invalid
  /\ c.rec[c.active] > 0
  /\ c.pending # c.active /\ (c.pending # NoSlot => c.rec[c.pending] > 0)
  /\ IF c.boot = "NONE" THEN c.attempt = NoSlot /\ c.attempts = 0
     ELSE c.attempt # NoSlot /\ c.attempts \in 1..AttemptLimit

Readable(d) == {i \in Slots : Exists(d, Sta(i)) /\ Decodes(Head(d[Sta(i)]))}

\* The readable copy of highest sequence; copy 0 wins a tie.
Newest(d) ==
  CHOOSE i \in Readable(d) :
    \A j \in Readable(d) :
      LET a == Head(d[Sta(i)]).seq
          b == Head(d[Sta(j)]).seq
      IN a > b \/ (a = b /\ i <= j)

\* recovery_controls_load refuses equal sequences with different contents.
Trusted(d) ==
  /\ Readable(d) # {}
  /\ Readable(d) = Slots =>
       LET a == Head(d[Sta(0)])
           b == Head(d[Sta(1)])
       IN a.seq = b.seq => a = b

Selected(d) == Head(d[Sta(Newest(d))])
Alternate(d) == Sta(1 - Newest(d))

JournalPresent(d) == \E i \in Slots : Exists(d, Jrn(i))

\* update_system_verify_file with the recorded hash: the file holds image i.
Holds(d, s, i) == i > 0 /\ Exists(d, Slot(s)) /\ Head(d[Slot(s)]) = i

-----------------------------------------------------------------------------
(***************************************************************************)
(* Replacing a file: storage_write_fat32_file_unlocked for the controls    *)
(* and storage_replace_temporary_unlocked for a slot. doing says which     *)
(* file.                                                                   *)
(***************************************************************************)
JournalWrites == {"prepared", "staging", "verified", "committed"}
StateWrites == {"republish", "pending", "promote", "withdraw"}
CopyWrites == {"replicate", "withdraw_copy"}
Writes == JournalWrites \cup StateWrites \cup CopyWrites \cup {"publish"}

Dest == CASE doing \in JournalWrites -> Jrn(mj.seq % 2)
          [] doing \in StateWrites -> Sta(mem.seq % 2)
          [] doing \in CopyWrites -> Sta(1 - (mem.seq % 2))
          [] doing = "publish" -> Slot(mj.target)

Content == CASE doing \in JournalWrites -> mj
             [] doing \in StateWrites \cup CopyWrites -> mem
             [] doing = "publish" -> mj.image

NothingOld == 9

DiskError ==
  /\ errors < MaxErrors /\ crashes + errors < MaxFaults
  /\ errors' = errors + 1 /\ UNCHANGED crashes

Crash ==
  /\ crashes + errors < MaxFaults
  /\ crashes' = crashes + 1 /\ UNCHANGED errors

\* The new entry takes any free place of the directory.
PublishEntry ==
  /\ doing \in Writes /\ half = 0
  /\ \E at \in 1..(Len(disk[Dest]) + 1) :
       /\ disk' = [disk EXCEPT ![Dest] = InsertAt(@, at, Content)]
       /\ half' = IF disk[Dest] = <<>> THEN NothingOld
                  ELSE IF at = 1 THEN 2 ELSE 1
  /\ starts' = IF doing \in {"pending", "republish"} THEN 0 ELSE starts
  /\ UNCHANGED <<doing, task, kernel, ctx, confirmed, approved, stages,
                 counts>>

OldRemoved ==
  IF half \in {0, NothingOld} THEN disk
  ELSE [disk EXCEPT ![Dest] = RemoveAt(@, half)]

\* The entry that was found before the replacement is deleted: p is written.
OldEntryDeleted(p) == doing = p /\ half # 0 /\ half' = 0 /\ disk' = OldRemoved

\* write_state and replicate_state read the copy back and compare sequences.
Confirms == LET c == Head(disk'[Dest]) IN Decodes(c) /\ c.seq = mem.seq

\* An error before the new entry is published is rolled back; one after it
\* leaves the new entry, with the old one or without.
WriteFails(p) ==
  doing = p /\ DiskError /\ half' = 0 /\ disk' \in {disk, OldRemoved}

Fails(p) ==
  \/ WriteFails(p)
  \/ /\ p \in StateWrites \cup CopyWrites
     /\ OldEntryDeleted(p) /\ ~Confirms
     /\ UNCHANGED counts

Succeeds(p) ==
  /\ OldEntryDeleted(p)
  /\ p \in StateWrites \cup CopyWrites => Confirms
  /\ UNCHANGED counts

\* storage_delete_file removes the entry a lookup finds.
Deleted(d, f) == [d EXCEPT ![f] = IF @ = <<>> THEN @ ELSE Tail(@)]

(***************************************************************************)
(* system_slots_delete_staging frees the chain of ZSTG.ZSY. Once that      *)
(* chain is published under the slot's name the two entries share it, and  *)
(* the slot's entry is left on clusters the next allocation may take.      *)
(***************************************************************************)
StagingDeleted ==
  \/ disk' = Deleted(disk, Staging)
  \/ /\ Exists(disk, Staging) /\ Head(disk[Staging]) = mj.image
     /\ \E n \in DOMAIN disk[Slot(mj.target)] :
          /\ disk[Slot(mj.target)][n] = mj.image
          /\ disk' = [Deleted(disk, Staging) EXCEPT ![Slot(mj.target)][n] = Lost]

Return == doing' = "idle" /\ task' = "none"

-----------------------------------------------------------------------------
(* update_system_slots_stage_file.                                         *)

\* Fault: the slot of the last boot's predecessor is taken to be the free one.
StageTargetFaulty == mem.previous

StageTarget == 1 - mem.active

\* The checks that precede the journal, and the journal built in memory.
Stage(i) ==
  /\ doing = "idle" /\ stages < MaxStages
  /\ mem.seq # 0 /\ mem.rec[mem.active] > 0
  /\ mem.pending = NoSlot /\ mj.phase = NoPhase
  /\ \A s \in Slots : Exists(disk, Sta(s))
  /\ i > mem.rec[mem.active]
  /\ mj' = [seq |-> mem.seq + 1, phase |-> PREPARED,
            target |-> StageTarget, image |-> i]
  /\ stages' = stages + 1
  /\ doing' = "prepared" /\ task' = "stage"
  /\ UNCHANGED <<disk, half, mem, bad, run, failed, ctx, confirmed, starts,
                 approved, counts>>

JournalPrepared ==
  /\ Succeeds("prepared")
  /\ mj' = [mj EXCEPT !.phase = STAGING]
  /\ doing' = "staging"
  /\ UNCHANGED <<task, mem, bad, run, failed, ctx, history>>

\* The journal stays PREPARED in memory and refuses every later request.
PrepareFails ==
  /\ WriteFails("prepared") /\ Return
  /\ UNCHANGED <<kernel, ctx, history>>

JournalStaging ==
  /\ Succeeds("staging")
  /\ doing' = "begin"
  /\ UNCHANGED <<task, kernel, ctx, history>>

\* storage_slot_writer_begin refuses an existing ZSTG.ZSY.
WriterBegin ==
  /\ doing = "begin"
  /\ IF Exists(disk, Staging)
     THEN doing' = "abort" /\ UNCHANGED disk
     ELSE disk' = [disk EXCEPT ![Staging] = <<Partial>>] /\ doing' = "data"
  /\ UNCHANGED <<task, half, kernel, ctx, history, counts>>

\* The copy of the image ends, and storage_slot_writer_finish flushes it.
WriterEnd ==
  /\ doing = "data"
  /\ disk' = [disk EXCEPT ![Staging] = <<mj.image>>]
  /\ doing' = "publish"
  /\ UNCHANGED <<task, half, kernel, ctx, history, counts>>

\* cancel_check asks for the end between two blocks.
WriterCancel ==
  /\ doing = "data"
  /\ doing' = "abort"
  /\ UNCHANGED <<disk, task, half, kernel, ctx, history, counts>>

\* Everything up to the removal of ZSTG.ZSY may fail: the staging file and
\* the journal are deleted.
WriterFails ==
  /\ \/ WriteFails("staging") \/ WriteFails("publish")
     \/ /\ doing \in {"begin", "data", "untemp"} /\ DiskError
        /\ UNCHANGED <<disk, half>>
  /\ doing' = "abort"
  /\ UNCHANGED <<task, kernel, ctx, history>>

SlotPublished ==
  /\ Succeeds("publish")
  /\ doing' = "untemp"
  /\ UNCHANGED <<task, kernel, ctx, history>>

\* finish deletes the temporary entry, not its chain. The slot is verified.
WriterFinish ==
  /\ doing = "untemp"
  /\ disk' = Deleted(disk, Staging)
  /\ mj' = [mj EXCEPT !.phase = VERIFIED]
  /\ IF Holds(disk, mj.target, mj.image)
     THEN doing' = "verified" /\ UNCHANGED task
     ELSE Return
  /\ UNCHANGED <<half, mem, bad, run, failed, ctx, history, counts>>

WithPending(s, target, image) ==
  [s EXCEPT !.seq = @ + 1, !.rec[target] = image, !.pending = target,
            !.previous = s.active, !.attempt = NoSlot, !.boot = "NONE",
            !.attempts = 0, !.recovery = FALSE]

JournalVerified ==
  /\ Succeeds("verified")
  /\ mem' = WithPending(mem, mj.target, mj.image)
  /\ doing' = "pending"
  /\ UNCHANGED <<task, mj, bad, run, failed, ctx, history>>

\* recovery_pending is returned; memory keeps what could not be written.
StagedNotPublished ==
  /\ WriteFails("verified") \/ Fails("pending")
  /\ Return
  /\ UNCHANGED <<kernel, ctx, history>>

PendingWritten ==
  /\ Succeeds("pending")
  /\ mj' = [mj EXCEPT !.phase = COMMITTED]
  /\ doing' = "committed"
  /\ UNCHANGED <<task, mem, bad, run, failed, ctx, history>>

JournalCommitted ==
  /\ Succeeds("committed")
  /\ doing' = "replicate"
  /\ UNCHANGED <<task, kernel, ctx, history>>

Replicated ==
  /\ Succeeds("replicate")
  /\ doing' = "clear0"
  /\ UNCHANGED <<task, kernel, ctx, history>>

CommitFails ==
  /\ WriteFails("committed") \/ Fails("replicate")
  /\ mem' = [mem EXCEPT !.recovery = TRUE]
  /\ Return
  /\ UNCHANGED <<mj, bad, run, failed, ctx, history>>

\* The clean-up of a staging that did not reach the slot.
AbortStaging ==
  /\ doing = "abort"
  /\ \/ StagingDeleted /\ UNCHANGED counts
     \/ Exists(disk, Staging) /\ DiskError /\ UNCHANGED disk
  /\ doing' = "clear0"
  /\ UNCHANGED <<task, half, kernel, ctx, history>>

(***************************************************************************)
(* system_slots_clear_journal_locked deletes both names, the second even   *)
(* when the first fails, and forgets the journal when neither did.         *)
(***************************************************************************)
ClearFirst ==
  /\ doing = "clear0" /\ doing' = "clear1"
  /\ \/ disk' = Deleted(disk, Jrn(0)) /\ failed' = FALSE /\ UNCHANGED counts
     \/ Exists(disk, Jrn(0)) /\ DiskError /\ failed' = TRUE /\ UNCHANGED disk
  /\ UNCHANGED <<task, half, mem, mj, bad, run, ctx, history>>

ClearSecond ==
  /\ doing = "clear1"
  /\ \E error \in BOOLEAN :
       /\ IF error
          THEN Exists(disk, Jrn(1)) /\ DiskError /\ UNCHANGED disk
          ELSE disk' = Deleted(disk, Jrn(1)) /\ UNCHANGED counts
       /\ LET ok == ~error /\ ~failed
          IN /\ mj' = IF ok THEN NoJournal ELSE mj
             /\ mem' = [mem EXCEPT !.recovery =
                          @ \/ (~ok /\ (task = "init" \/ mj.phase = COMMITTED))]
  /\ failed' = FALSE
  /\ IF task = "init" THEN doing' = "examine" /\ UNCHANGED task ELSE Return
  /\ UNCHANGED <<half, bad, run, ctx, history>>

-----------------------------------------------------------------------------
(* update_system_slots_init and the recovery of an interrupted staging.    *)

NewestJournal(d) ==
  IF ~JournalPresent(d) THEN NoJournal
  ELSE Head(d[Jrn(CHOOSE i \in Slots :
         /\ Exists(d, Jrn(i))
         /\ \A j \in Slots : Exists(d, Jrn(j)) =>
              LET a == Head(d[Jrn(i)]).seq
                  b == Head(d[Jrn(j)]).seq
              IN a > b \/ (a = b /\ i <= j))])

LoadedState(d) == IF Readable(d) = {} THEN Blank ELSE Selected(d)

\* system_slots_recover_journal_locked: what state s and journal j call for.
RecoveryStep(s, j) ==
  LET holds == Holds(disk, j.target, j.image)
  IN IF j.phase = NoPhase THEN "examine"
     ELSE CASE holds /\ j.phase >= VERIFIED
                 /\ s.pending \in {NoSlot, j.target} -> "republish"
            [] holds /\ j.phase <= STAGING ->
                 IF s.rec[j.target] = j.image THEN "unstage" ELSE "discard"
            [] ~holds /\ j.phase <= STAGING /\ ~Exists(disk, Slot(j.target)) ->
                 "unstage"
            [] OTHER -> "refused"

LoadControls ==
  /\ doing = "load" /\ task' = "init"
  /\ LET s == LoadedState(disk)
         j == NewestJournal(disk)
         step == RecoveryStep(s, j)
     IN /\ mj' = j
        /\ mem' = CASE step = "republish" -> WithPending(s, j.target, j.image)
                    [] step = "refused" -> [s EXCEPT !.recovery = TRUE]
                    [] OTHER -> s
        /\ doing' = IF step = "refused" THEN "examine" ELSE step
  /\ bad' = (Readable(disk) = {} /\ \A i \in Slots : Exists(disk, Sta(i)))
  /\ UNCHANGED <<disk, half, run, failed, ctx, history, counts>>

Republished ==
  /\ Succeeds("republish")
  /\ doing' = "unstage"
  /\ UNCHANGED <<task, kernel, ctx, history>>

DiscardTarget ==
  /\ doing = "discard"
  /\ disk' = Deleted(disk, Slot(mj.target))
  /\ doing' = "unstage"
  /\ UNCHANGED <<task, half, kernel, ctx, history, counts>>

Unstage ==
  /\ doing = "unstage"
  /\ StagingDeleted
  /\ doing' = "clear0"
  /\ UNCHANGED <<task, half, kernel, ctx, history, counts>>

\* Any step that fails leaves the journal and the recovery flag behind.
RecoveryFails ==
  /\ \/ Fails("republish")
     \/ /\ doing \in {"discard", "unstage"} /\ DiskError
        /\ UNCHANGED <<disk, half>>
  /\ mem' = [mem EXCEPT !.recovery = TRUE]
  /\ doing' = "examine"
  /\ UNCHANGED <<task, mj, bad, run, failed, ctx, history>>

\* The end of init: a staging file without journal, and the recorded slots.
\* kernel.c goes on to boot_confirm only when init reports no problem.
Examine ==
  /\ doing = "examine"
  /\ LET stray == mj.phase = NoPhase /\ Exists(disk, Staging)
         wrong == {s \in Slots : mem.rec[s] > 0 /\ ~Holds(disk, s, mem.rec[s])}
     IN /\ mem' = [mem EXCEPT !.recovery = @ \/ stray,
                              !.rec = [s \in Slots |->
                                         IF s \in wrong THEN Invalid ELSE @[s]]]
        /\ bad' = (bad \/ wrong # {})
  /\ IF bad' \/ mem'.recovery \/ mj.phase # NoPhase
     THEN Return
     ELSE doing' = "confirm" /\ UNCHANGED task
  /\ UNCHANGED <<disk, half, mj, run, failed, ctx, history, counts>>

-----------------------------------------------------------------------------
(* update_system_slots_boot_confirm.                                       *)

\* Fault: any kernel confirms the attempt the state records.
HandoffMatchesFaulty == mem.boot = "ATTEMPTED"

\* The handoff names the very state the loader wrote before this boot.
HandoffMatches ==
  /\ run.handoff.valid
  /\ mem.boot = "ATTEMPTED"
  /\ mem.attempt = run.handoff.attempt /\ mem.previous = run.handoff.previous
  /\ mem.attempts = run.handoff.attempts /\ mem.seq = run.handoff.seq

Promotion ==
  [mem EXCEPT !.seq = @ + 1, !.active = mem.attempt, !.pending = NoSlot,
              !.attempt = NoSlot, !.boot = "NONE", !.attempts = 0]

BootConfirm ==
  /\ doing = "confirm"
  /\ IF HandoffMatches
     THEN /\ mem' = Promotion
          /\ confirmed' = confirmed \cup
               IF run.slot = NoSlot THEN {} ELSE {mem.rec[run.slot]}
          /\ doing' = "promote" /\ UNCHANGED task
     ELSE Return /\ UNCHANGED <<mem, confirmed>>
  /\ UNCHANGED <<disk, half, mj, bad, run, failed, ctx, starts, approved,
                 stages, counts>>

Promoted ==
  /\ Succeeds("promote") /\ Return
  /\ run' = [run EXCEPT !.handoff = Torn]
  /\ UNCHANGED <<mem, mj, bad, failed, ctx, history>>

\* The error is logged; memory already names the new slot active.
PromoteFails ==
  /\ Fails("promote") /\ Return
  /\ UNCHANGED <<kernel, ctx, history>>

-----------------------------------------------------------------------------
(* update_system_slots_cancel_pending and the reboot preflight.            *)

CancelPending ==
  /\ doing = "idle" /\ ~bad
  /\ mj.phase = NoPhase
  /\ mem.boot # "ATTEMPTED" /\ mem.attempt = NoSlot
  /\ mem.pending \notin {NoSlot, mem.active}
  /\ mem' = [mem EXCEPT !.seq = @ + 1, !.pending = NoSlot,
                        !.previous = mem.active, !.attempt = NoSlot,
                        !.boot = "NONE", !.attempts = 0]
  /\ doing' = "withdraw" /\ task' = "cancel"
  /\ UNCHANGED <<disk, half, mj, bad, run, failed, ctx, history, counts>>

Withdrawn ==
  /\ Succeeds("withdraw")
  /\ doing' = "withdraw_copy"
  /\ UNCHANGED <<task, kernel, ctx, history>>

Cancelled ==
  /\ Succeeds("withdraw_copy") /\ Return
  /\ UNCHANGED <<kernel, ctx, history>>

CancelFails ==
  /\ Fails("withdraw") \/ Fails("withdraw_copy")
  /\ bad' = TRUE
  /\ mem' = LoadedState(disk')
  /\ Return
  /\ UNCHANGED <<mj, run, failed, ctx, history>>

\* Fault: only the copy in memory is looked at.
PreflightFaulty ==
  /\ ~bad /\ mj.phase = NoPhase /\ ~mem.recovery
  /\ mem.pending \notin {NoSlot, mem.active}
  /\ mem.boot = "NONE" /\ mem.attempts = 0

\* update_system_slots_reboot_preflight: both copies are what memory holds.
Preflight ==
  /\ ~bad
  /\ \A i \in Slots : /\ Exists(disk, Sta(i))
                      /\ Decodes(Head(disk[Sta(i)])) /\ Head(disk[Sta(i)]) = mem
  /\ ~JournalPresent(disk) /\ mj.phase = NoPhase /\ ~mem.recovery
  /\ mem.pending \notin {NoSlot, mem.active} /\ mem.previous = mem.active
  /\ mem.attempt = NoSlot /\ mem.boot = "NONE" /\ mem.attempts = 0
  /\ mem.rec[mem.pending] > 0

\* RAM is lost and the BIOS starts the recovery loader.
PowerOn(promised) ==
  /\ doing' = "loader" /\ task' = "none" /\ half' = 0
  /\ mem' = Blank /\ mj' = NoJournal /\ bad' = FALSE
  /\ run' = NoBoot /\ failed' = FALSE /\ ctx' = NoContext
  /\ approved' = promised
  /\ UNCHANGED <<confirmed, starts, stages>>

RebootIntoCandidate ==
  /\ doing = "idle" /\ Preflight
  /\ PowerOn(mem.rec[mem.pending])
  /\ UNCHANGED <<disk, counts>>

\* A restart outside every write: a plain reboot, or a kernel that hangs
\* before it confirms, or a reset at the loader's menu.
Restart ==
  /\ doing \in {"idle", "load", "confirm", "menu", "jump"}
  /\ PowerOn(0)
  /\ UNCHANGED <<disk, counts>>

\* A power cut inside an operation of the kernel.
PowerCut ==
  /\ doing \notin {"idle", "load", "confirm", "menu", "jump", "loader",
                "attempt", "fail"}
  /\ Crash
  /\ PowerOn(0)
  /\ UNCHANGED disk

-----------------------------------------------------------------------------
(* recovery_loader_main and its menu.                                      *)

AlternateReady == Exists(disk, Alternate(disk))

Menu(c) == doing' = "menu" /\ ctx' = c /\ UNCHANGED run
Legacy(c) == [c EXCEPT !.legacy = TRUE, !.noRetry = TRUE, !.continue = FALSE]

loaderRest == <<disk, task, half, mem, mj, bad, failed, confirmed, starts,
                stages, counts>>

\* A jump to slot s, which prepare_slot has just verified and loaded.
Jump(s, c) ==
  /\ doing' = "jump" /\ ctx' = [c EXCEPT !.slot = s]
  /\ run' = [NoBoot EXCEPT !.slot = s]

\* context_mark_failed needs the alternate copy; without it only the legacy
\* kernel is offered.
MarkFailed(s, c) ==
  IF AlternateReady
  THEN /\ doing' = "fail" /\ ctx' = [c EXCEPT !.slot = s, !.invalid = s]
       /\ run' = NoBoot
  ELSE Menu(Legacy(c))

\* recovery_publish_attempt refuses a candidate that is out of attempts.
TryCandidate(s, c) ==
  IF AlternateReady /\ Selected(disk).attempts < AttemptLimit
  THEN doing' = "attempt" /\ ctx' = [c EXCEPT !.slot = s] /\ UNCHANGED run
  ELSE Menu(Legacy(c))

\* The automatic choice: the pending slot, or else the active one.
Automatic(c) ==
  LET s == Selected(disk)
      slot == IF s.pending # NoSlot THEN s.pending ELSE s.active
  IN IF Holds(disk, slot, s.rec[slot])
     THEN IF s.pending # NoSlot THEN TryCandidate(slot, c) ELSE Jump(slot, c)
     ELSE IF s.pending # NoSlot THEN MarkFailed(slot, c)
          ELSE Menu([c EXCEPT !.invalid = slot])

\* Only the legacy kernel may be started.
Restricted ==
  ~Trusted(disk) \/ JournalPresent(disk) \/ Selected(disk).recovery

LoaderStart ==
  /\ doing = "loader" /\ approved' = 0
  /\ Trusted(disk) => Selected(disk).seq < MaxSeq
  /\ IF Restricted
     THEN Menu(Legacy(NoContext))
     ELSE LET s == Selected(disk)
          IN CASE s.boot = "ATTEMPTED" ->
                    IF AlternateReady
                    THEN /\ doing' = "fail" /\ UNCHANGED run
                         /\ ctx' = [NoContext EXCEPT !.slot = s.attempt]
                    ELSE Menu(Legacy(NoContext))
               [] s.boot = "FAILED" ->
                    IF /\ s.attempts >= AttemptLimit
                       /\ s.previous \notin {NoSlot, s.attempt}
                       /\ Exists(disk, Slot(s.previous))
                    THEN IF Holds(disk, s.previous, s.rec[s.previous])
                         THEN Jump(s.previous, NoContext)
                         ELSE Menu([NoContext EXCEPT !.invalid = s.previous])
                    ELSE Menu(NoContext)
               [] s.boot = "NONE" ->
                    \/ Automatic(NoContext)
                    \/ Menu([NoContext EXCEPT !.continue = TRUE])  \* F8
  /\ UNCHANGED loaderRest

\* recovery_publish_attempt keeps the pending slot.
Attempted(s, slot) ==
  [s EXCEPT !.seq = @ + 1, !.previous = s.active, !.attempt = slot,
            !.boot = "ATTEMPTED", !.attempts = @ + 1]

\* Fault: every failure is the first one.
AttemptFailedFaulty(s, slot) ==
  [s EXCEPT !.seq = @ + 1, !.pending = NoSlot, !.boot = "FAILED",
            !.previous = s.active, !.attempt = slot, !.attempts = 1]

\* recovery_mark_attempt_failed withdraws the pending slot.
AttemptFailed(s, slot) ==
  IF s.boot # "NONE"
  THEN [s EXCEPT !.seq = @ + 1, !.pending = NoSlot, !.boot = "FAILED"]
  ELSE [s EXCEPT !.seq = @ + 1, !.pending = NoSlot, !.boot = "FAILED",
                 !.previous = s.active, !.attempt = slot, !.attempts = 1]

\* Only the copy that was not selected is rewritten.
TargetCopy == Alternate(disk)

ControlValue ==
  IF doing = "attempt" THEN Attempted(Selected(disk), ctx.slot)
  ELSE AttemptFailed(Selected(disk), ctx.slot)

Sector(v) == [disk EXCEPT ![TargetCopy][1] = v]

AttemptWritten ==
  /\ doing = "attempt"
  /\ disk' = Sector(ControlValue)
  /\ run' = [slot |-> ctx.slot, handoff |-> ControlValue]
  /\ doing' = "jump"
  /\ UNCHANGED <<task, half, mem, mj, bad, failed, ctx, history, counts>>

FailureWritten ==
  /\ doing = "fail"
  /\ disk' = Sector(ControlValue)
  /\ doing' = "menu"
  /\ UNCHANGED <<task, half, kernel, ctx, history, counts>>

\* The write or the reading back fails: only the legacy kernel is offered.
ControlWriteFails ==
  /\ doing \in {"attempt", "fail"} /\ DiskError
  /\ disk' \in {disk, Sector(Torn), Sector(ControlValue)}
  /\ doing' = "menu" /\ ctx' = Legacy(ctx) /\ run' = NoBoot
  /\ UNCHANGED <<task, half, mem, mj, bad, failed, history>>

\* A power cut before, inside or just after the loader's write.
LoaderPowerCut ==
  /\ doing \in {"attempt", "fail"}
  /\ Crash
  /\ disk' \in {disk, Sector(Torn), Sector(ControlValue)}
  /\ PowerOn(0)

\* The image takes over; with a handoff it is an attempt of the candidate.
KernelStarts ==
  /\ doing = "jump" /\ doing' = "load"
  /\ starts' = IF run.handoff.valid /\ starts <= AttemptLimit
               THEN starts + 1 ELSE starts
  /\ ctx' = NoContext
  /\ UNCHANGED <<disk, task, half, kernel, confirmed, approved, stages, counts>>

\* recovery_boot_prepared comes back: the handoff is cleared.
ChainReturns ==
  /\ doing = "jump"
  /\ IF run.handoff.valid
     THEN MarkFailed(ctx.slot, ctx)
     ELSE /\ doing' = "menu" /\ ctx' = [ctx EXCEPT !.invalid = ctx.slot]
          /\ run' = NoBoot
  /\ UNCHANGED <<loaderRest, approved>>

MenuContinue ==
  /\ doing = "menu" /\ ctx.continue
  /\ Automatic([ctx EXCEPT !.continue = FALSE])
  /\ UNCHANGED <<loaderRest, approved>>

MenuPrevious ==
  /\ doing = "menu" /\ ~ctx.legacy
  /\ LET s == Selected(disk)
     IN /\ s.previous \notin {NoSlot, ctx.invalid}
        /\ s.rec[s.previous] > 0 /\ Exists(disk, Slot(s.previous))
        /\ IF Holds(disk, s.previous, s.rec[s.previous])
           THEN Jump(s.previous, ctx)
           ELSE Menu([ctx EXCEPT !.invalid = s.previous])
  /\ UNCHANGED <<loaderRest, approved>>

\* allow_retry of recovery_build_menu_view.
RetryAllowed(s) ==
  /\ ~ctx.legacy /\ ~ctx.noRetry
  /\ s.boot = "FAILED" /\ s.attempt \notin {NoSlot, s.active}
  /\ s.attempts < AttemptLimit /\ AlternateReady
  /\ s.rec[s.attempt] > 0 /\ Exists(disk, Slot(s.attempt))

MenuRetry ==
  /\ doing = "menu" /\ ~ctx.legacy
  /\ LET s == Selected(disk)
         c == [ctx EXCEPT !.noRetry = TRUE, !.continue = FALSE]
     IN /\ RetryAllowed(s)
        /\ IF Holds(disk, s.attempt, s.rec[s.attempt])
           THEN TryCandidate(s.attempt, c)
           ELSE MarkFailed(s.attempt, c)
  /\ UNCHANGED <<loaderRest, approved>>

\* The kernel of the fixed area, whose hash is built into the loader.
MenuLegacy ==
  /\ doing = "menu"
  /\ doing' = "load" /\ run' = NoBoot /\ ctx' = NoContext
  /\ UNCHANGED <<loaderRest, approved>>

-----------------------------------------------------------------------------
KernelStep ==
  \/ PublishEntry
  \/ \E i \in Images : Stage(i)
  \/ JournalPrepared \/ PrepareFails \/ JournalStaging
  \/ WriterBegin \/ WriterEnd \/ WriterCancel \/ WriterFails
  \/ SlotPublished \/ WriterFinish \/ JournalVerified \/ StagedNotPublished
  \/ PendingWritten \/ JournalCommitted \/ Replicated \/ CommitFails
  \/ AbortStaging \/ ClearFirst \/ ClearSecond
  \/ LoadControls \/ Republished \/ DiscardTarget \/ Unstage \/ RecoveryFails
  \/ Examine \/ BootConfirm \/ Promoted \/ PromoteFails
  \/ CancelPending \/ Withdrawn \/ Cancelled \/ CancelFails

LoaderStep ==
  \/ LoaderStart \/ AttemptWritten \/ FailureWritten \/ ControlWriteFails
  \/ KernelStarts \/ ChainReturns
  \/ MenuContinue \/ MenuPrevious \/ MenuRetry \/ MenuLegacy

SlotsNext ==
  \/ KernelStep \/ LoaderStep
  \/ RebootIntoCandidate \/ Restart \/ PowerCut \/ LoaderPowerCut

SlotsSpec == SlotsInit /\ [][SlotsNext]_slotsVars

-----------------------------------------------------------------------------
(* Properties.                                                             *)

States == [valid : {TRUE}, seq : Nat, active : Slots, pending : 0..NoSlot,
           previous : 0..NoSlot, attempt : 0..NoSlot,
           boot : {"NONE", "ATTEMPTED", "FAILED"}, attempts : 0..AttemptLimit,
           recovery : BOOLEAN, rec : [Slots -> Invalid..MaxImage]]
Journals == [seq : Nat, phase : NoPhase..COMMITTED, target : 0..NoSlot,
             image : 0..MaxImage]

\* Every entry of every file holds what is written under that name, and the
\* kernel's copies have the ranges the C types and checks give them.
SlotsTypeOK ==
  /\ \A i \in Slots :
       /\ \A n \in DOMAIN disk[Sta(i)] :
            disk[Sta(i)][n] \in States \cup {Torn}
       /\ \A n \in DOMAIN disk[Jrn(i)] : disk[Jrn(i)][n] \in Journals
       /\ \A n \in DOMAIN disk[Slot(i)] : disk[Slot(i)][n] \in Images \cup {Lost}
  /\ \A n \in DOMAIN disk[Staging] : disk[Staging][n] \in Images \cup {Partial}
  /\ mem \in States /\ mj \in Journals /\ half \in {0, 1, 2, NothingOld}
  /\ {bad, failed} \subseteq BOOLEAN
  /\ run.slot \in 0..NoSlot /\ run.handoff \in States \cup {Torn}
  /\ confirmed \subseteq Images /\ approved \in 0..MaxImage

\* No power cut or error has left a state file with two entries. A
\* replacement that is still going on has two as a matter of course.
Undoubled ==
  \A i \in Slots :
    Len(disk[Sta(i)]) = IF half \in {1, 2} /\ Dest = Sta(i) THEN 2 ELSE 1

(***************************************************************************)
(* Whatever was interrupted, torn writes of the loader included, while the *)
(* state files are undoubled and the disk has reported no error: one copy  *)
(* of the state can be read and two copies of one sequence are the same,   *)
(* so that the loader and the kernel never find the controls divergent     *)
(* (recovery_controls_load), and the slot the loader falls back to holds   *)
(* exactly the image its record names, at every step of every staging,     *)
(* cancellation, recovery and attempt.                                     *)
(***************************************************************************)
ActiveIsBootable ==
  /\ SlotsTypeOK
  /\ (Undoubled /\ errors = 0) =>
       /\ Trusted(disk)
       /\ LET s == Selected(disk) IN Holds(disk, s.active, s.rec[s.active])

(***************************************************************************)
(* While the state files are undoubled, a staged candidate is started at   *)
(* most AttemptLimit times, torn writes of the counter and resets at any   *)
(* moment included.                                                        *)
(***************************************************************************)
AttemptsAreBounded == Undoubled => starts <= AttemptLimit

(***************************************************************************)
(* The image the state on disk names active has run to boot_confirm: an    *)
(* image that never came up is never the one to fall back to, doubled      *)
(* entries, lost writes and the legacy kernel included.                    *)
(***************************************************************************)
ActiveWasConfirmed ==
  Trusted(disk) => Selected(disk).rec[Selected(disk).active] \in confirmed

(***************************************************************************)
(* A reboot the preflight approved reaches the loader in a state where the *)
(* automatic boot attempts that very candidate.                            *)
(***************************************************************************)
PreflightIsHonest ==
  (doing = "loader" /\ approved # 0) =>
    /\ ~Restricted /\ AlternateReady
    /\ LET s == Selected(disk)
       IN /\ s.boot = "NONE" /\ s.attempts < AttemptLimit
          /\ s.pending # NoSlot /\ Holds(disk, s.pending, approved)

=============================================================================
