-------------------------- MODULE Fat32Transaction ---------------------------
(* The operations of fs/storage.c that change a FAT32 volume: atomic write, *)
(* delete, rename and the transactional writer of large images, with write  *)
(* errors, failed durability barriers and power cuts.                       *)
(*                                                                          *)
(* storage_operation_lock makes each call exclusive, so one operation is in *)
(* progress at a time. It is a sequence of stages; a stage writes sectors   *)
(* to the cache and then, in most of them, waits for storage_sync_barrier.  *)
(* Power may fail between any two steps. Within the writes of a stage that  *)
(* adds nothing: a sector not yet written is one of the values the device   *)
(* may hold. The directory has room for every entry: its growth is not      *)
(* modelled. Its clusters are neighbours on the volume or there is a gap in *)
(* it, which the code does not see when it publishes a name.                *)
EXTENDS Fat32Volume

CONSTANTS
    Temporary,         \* the name of the temporary file, ZSTG.ZSY
    Sizes,             \* sizes of the files written
    Gaps,              \* places after which the directory may continue elsewhere
    Beyond,            \* the data cluster that lies there on the volume
    MetadataInterval,  \* STORAGE_SLOT_WRITER_METADATA_INTERVAL
    MaxOperations, MaxErrors, MaxCrashes   \* bounds

ASSUME TransactionAssumption ==
    /\ Temporary \in ShortNames /\ Sizes \subseteq Nat
    /\ Gaps \subseteq 0..NumPlaces /\ Beyond \in Clusters
    /\ MetadataInterval \in Nat \ {0}
    /\ MaxOperations \in Nat /\ MaxErrors \in Nat /\ MaxCrashes \in Nat

VARIABLES
    gap,        \* the place before the gap in the directory, 0 if there is none
    vol,        \* the volume as the cache shows it
    disk,       \* what the device may hold
    hint,       \* storage_fat32_allocation_hint
    op,         \* the operation in progress
    writer,     \* storage_slot_writer_state and what its task calls next
    store,      \* the contents a reader may find under each name
    sound,      \* nothing happened yet that the properties leave out
    undone,     \* an entry was withdrawn after it may have reached the device
    operations, errors, crashes

vars == <<gap, vol, disk, hint, op, writer, store, sound, undone,
          operations, errors, crashes>>
counters == <<operations, errors, crashes>>

Files == Names \ {Temporary}
Kinds == {"none", "write", "delete", "rename", "begin", "flush", "finish",
          "cleanup", "replace"}
Phases == {"idle", "active", "failed", "cleanup", "replace"}

NoWriter == [phase |-> "idle", target |-> NoFile, expected |-> 0, place |-> 0,
             first |-> 0, last |-> 0, flushed |-> 0, buffered |-> FALSE, version |-> 0]

Blocks(version, size) == [i \in 1..size |-> <<version, i>>]

(* ------------------------------ stages ---------------------------------- *)
\* A stage whose failure, in a write or in its barrier, ends the operation
\* with the given clean-up. valid is FALSE if the code finds an error itself.
Stage(writes, onWrite, onBarrier) ==
    [writes |-> writes, barrier |-> TRUE, valid |-> TRUE, effort |-> FALSE,
     onWrite |-> onWrite, onBarrier |-> onBarrier]

\* A stage of a clean-up: its errors are ignored.
Effort(writes, barrier) ==
    [writes |-> writes, barrier |-> barrier, valid |-> TRUE, effort |-> TRUE,
     onWrite |-> <<>>, onBarrier |-> <<>>]

\* storage_release_fat32_chain
ReleaseChain(first) ==
    LET w == Walk(vol.fat, first)
    IN [Stage([i \in 1..Len(w) |-> At("fat", w[i], Free)], <<>>, <<>>)
          EXCEPT !.valid = ChainEnds(vol.fat, first)]

If(condition, stages) == IF condition THEN stages ELSE <<>>

\* storage_mark_directory_entries_deleted: where the walk found them.
MarkDeleted(p) ==
    Stage(If(HasLong(vol, p), <<At("dir", p - 1, Deleted)>>) \o <<At("dir", p, Deleted)>>,
          <<>>, <<>>)

\* The second place of a name is the next on the volume, not in the chain.
Crosses(slot) == slot = gap
SecondPlace(slot, value, version) ==
    IF Crosses(slot) THEN At("data", Beyond, <<version, 0>>) ELSE At("dir", slot + 1, value)

\* storage_publish_fat32_entry
Publish(slot, n, entry, version) ==
    <<At("dir", slot, Long(n, entry.alias)), SecondPlace(slot, entry, version)>>

\* storage_clear_directory_slots
ClearSlots(slot, version) ==
    Effort(<<At("dir", slot, Deleted), SecondPlace(slot, Deleted, version)>>, FALSE)

(* ------------------------------ the operations -------------------------- *)
\* Fault: the entry is published before the FAT is durable.
WriteStagesFaulty(n, clusters, old, slot, entry, version) ==
    LET links == [i \in 1..Len(clusters) |->
                    At("fat", clusters[i],
                       IF i < Len(clusters) THEN clusters[i + 1] ELSE End)]
    IN <<Stage([i \in 1..Len(clusters) |-> At("data", clusters[i], <<version, i>>)],
               <<>>, <<>>),
         Stage(links \o Publish(slot, n, entry, version), <<>>, <<>>)>>
       \o If(old # 0, <<MarkDeleted(old)>>)
       \o If(old # 0 /\ vol.dir[old].first # 0, <<ReleaseChain(vol.dir[old].first)>>)

\* storage_write_fat32_file_unlocked. Everything is chosen before the first
\* write. The clean-up frees the clusters, waits for a barrier and clears the
\* places if both were written; without clusters there is none.
WriteStages(n, clusters, old, slot, entry, version) ==
    LET first == [i \in 1..Len(clusters) |-> At("data", clusters[i], <<version, i>>)]
        links == [i \in 1..Len(clusters) |->
                    At("fat", clusters[i],
                       IF i < Len(clusters) THEN clusters[i + 1] ELSE End)]
        free == If(clusters # <<>>,
                   <<Effort([i \in 1..Len(clusters) |-> At("fat", clusters[i], Free)],
                            TRUE)>>)
        clear == If(clusters # <<>>, <<ClearSlots(slot, version)>>)
    IN <<Stage(first, free, free),
         Stage(links, free, free),
         Stage(Publish(slot, n, entry, version), free, free \o clear)>>
       \o If(old # 0, <<MarkDeleted(old)>>)
       \o If(old # 0 /\ vol.dir[old].first # 0, <<ReleaseChain(vol.dir[old].first)>>)

\* Fault: the chain is released before the entry is deleted.
DeleteStagesFaulty(p) ==
    If(vol.dir[p].first # 0, <<ReleaseChain(vol.dir[p].first)>>) \o <<MarkDeleted(p)>>

\* storage_delete_file
DeleteStages(p) ==
    <<MarkDeleted(p)>> \o If(vol.dir[p].first # 0, <<ReleaseChain(vol.dir[p].first)>>)

\* Fault: the old name is deleted before the new one is published.
RenameStagesFaulty(from, slot, to, entry) ==
    <<MarkDeleted(from), Stage(Publish(slot, to, entry, operations + 1), <<>>, <<>>)>>

\* storage_rename_file: no clean-up on any failure.
RenameStages(from, slot, to, entry) ==
    <<Stage(Publish(slot, to, entry, operations + 1), <<>>, <<>>), MarkDeleted(from)>>

\* Fault: the chain of the replaced file is not released.
ReplaceStagesFaulty(tmp, old, slot, target, entry) ==
    <<Stage(Publish(slot, target, entry, writer.version), <<>>, <<>>)>>
    \o If(old # 0, <<MarkDeleted(old)>>) \o <<MarkDeleted(tmp)>>

\* storage_replace_temporary_unlocked
ReplaceStages(tmp, old, slot, target, entry) ==
    <<Stage(Publish(slot, target, entry, writer.version), <<>>,
            <<ClearSlots(slot, writer.version)>>)>>
    \o If(old # 0, <<MarkDeleted(old)>>)
    \o If(old # 0 /\ vol.dir[old].first \notin {0, entry.first},
          <<ReleaseChain(vol.dir[old].first)>>)
    \o <<MarkDeleted(tmp)>>

\* storage_slot_writer_flush_locked for one cluster; the entry follows with the
\* first cluster and then at intervals of full ones.
FlushStages(cluster) ==
    LET n == writer.flushed + 1
        first == IF writer.last = 0 THEN cluster ELSE writer.first
        links == If(writer.last # 0, <<At("fat", writer.last, cluster)>>)
                 \o <<At("fat", cluster, End)>>
        undo == <<Effort(If(writer.last # 0, <<At("fat", writer.last, End)>>)
                         \o <<At("fat", cluster, Free)>>, FALSE)>>
    IN <<Stage(<<At("data", cluster, <<writer.version, n>>)>>, <<>>, <<>>),
         Stage(links, undo, undo)>>
       \o If(writer.last = 0 \/ (IF writer.buffered THEN n - 1 ELSE n) % MetadataInterval = 0,
             <<Stage(<<At("dir", writer.place, Short(Plain(Temporary), first, n))>>,
                     undo, undo)>>)

\* storage_transaction_writer_finish: the entry with its complete size.
EntryStage(first) ==
    Stage(<<At("dir", writer.place, Short(Plain(Temporary), first, writer.expected))>>,
          <<>>, <<>>)

(* ------------------------------ calls ----------------------------------- *)
NoEffect == [n \in {} |-> NoFile]
Idle == [kind |-> "none", todo |-> <<>>, waiting |-> FALSE, ok |-> TRUE,
         effect |-> NoEffect, cluster |-> 0]

\* A call takes the lock. From here on a reader may find what it will do. kept:
\* it does not publish a name across the gap, and the name it gives up, if it
\* gives up one, stays behind in no alias.
Call(o, kept) ==
    /\ op = Idle
    /\ op' = o
    /\ store' = [n \in Names |-> store[n] \cup
                    (IF n \in DOMAIN o.effect THEN {o.effect[n]} ELSE {})]
    /\ sound' = (sound /\ kept)
    /\ UNCHANGED <<gap, vol, disk, hint, undone, errors, crashes>>

NewOperation == operations < MaxOperations /\ operations' = operations + 1

\* storage_atomic_write_file, create or replace. The number of the operation
\* tells contents apart.
WriteFile(n, size) ==
    LET clusters == Select(vol.fat, hint, size)
        old == Find(vol, n)
        slot == FindFreeSlots(vol, 2)
        entry == Short(IF old = 0 THEN GenerateAlias(vol, n) ELSE vol.dir[old].alias,
                       IF size = 0 THEN 0 ELSE clusters[1], size)
    IN /\ Readable(vol) /\ NewOperation
       /\ size > 0 => clusters # <<>>
       /\ Call([Idle EXCEPT
                  !.kind = "write",
                  !.todo = WriteStages(n, clusters, old, slot, entry, operations'),
                  !.effect = [m \in {n} |-> Blocks(operations', size)],
                  !.cluster = IF size = 0 THEN 0 ELSE clusters[size]],
               ~Crosses(slot))
       /\ UNCHANGED writer

\* The temporary is deleted by the code that uses the writer, while it is closed.
DeleteFile(n) ==
    /\ Find(vol, n) # 0
    /\ n = Temporary => writer.phase = "idle"
    /\ NewOperation
    /\ Call([Idle EXCEPT !.kind = "delete", !.todo = DeleteStages(Find(vol, n)),
                         !.effect = [m \in {n} |-> NoFile]], TRUE)
    /\ UNCHANGED writer

\* A name that is not 8.3 takes over the alias of the old one.
RenameFile(n, to) ==
    LET from == Find(vol, n)
        slot == FindFreeSlots(vol, 2)
        alias == IF to \in ShortNames THEN Plain(to) ELSE vol.dir[from].alias
        entry == [vol.dir[from] EXCEPT !.alias = alias]
    IN /\ from # 0 /\ Find(vol, to) = 0
       /\ NewOperation
       /\ Call([Idle EXCEPT
                  !.kind = "rename",
                  !.todo = RenameStages(from, slot, to, entry),
                  !.effect = [m \in {n, to} |-> IF m = n THEN NoFile ELSE Lookup(vol, n)]],
               ~Crosses(slot) /\ alias # Plain(n))
       /\ UNCHANGED writer

\* storage_transaction_writer_begin: an empty temporary file, a short entry.
WriterBegin(target, expected) ==
    LET place == FindFreeSlots(vol, 1) IN
    /\ writer.phase = "idle" /\ Find(vol, Temporary) = 0 /\ expected > 0
    /\ target \in ShortNames /\ Readable(vol)
    /\ NewOperation
    /\ Call([Idle EXCEPT
               !.kind = "begin",
               !.todo = <<Stage(<<At("dir", place, Short(Plain(Temporary), 0, 0))>>,
                                <<>>, <<>>)>>], TRUE)
    /\ writer' = [NoWriter EXCEPT !.phase = "active", !.target = target,
                                  !.expected = expected, !.place = place,
                                  !.version = operations']

\* storage_transaction_writer_write of one more cluster. The last one may be
\* partial and then waits in the buffer. Every caller aborts after an error.
WriterWrite(full) ==
    LET cluster == FindFree(vol.fat, hint, {}) IN
    /\ writer.phase = "active" /\ ~writer.buffered
    /\ writer.flushed < writer.expected
    /\ ~full => writer.flushed = writer.expected - 1
    /\ IF full /\ cluster # 0
       THEN /\ Call([Idle EXCEPT !.kind = "flush", !.cluster = cluster,
                                 !.todo = FlushStages(cluster)], TRUE)
            /\ UNCHANGED writer
       ELSE /\ op = Idle
            /\ writer' = IF full THEN [writer EXCEPT !.phase = "failed"]
                         ELSE [writer EXCEPT !.buffered = TRUE]
            /\ UNCHANGED <<gap, vol, disk, hint, op, store, sound, undone, errors, crashes>>
    /\ UNCHANGED operations

\* storage_transaction_writer_finish up to the release of the lock.
WriterFinish ==
    LET cluster == FindFree(vol.fat, hint, {})
        first == IF writer.last = 0 THEN cluster ELSE writer.first
    IN /\ writer.phase = "active"
       /\ writer.buffered \/ writer.flushed = writer.expected
       /\ IF writer.buffered /\ cluster = 0
          THEN /\ op = Idle
               /\ writer' = [writer EXCEPT !.phase = "cleanup"]
               /\ UNCHANGED <<gap, vol, disk, hint, op, store, sound, undone, errors, crashes>>
          ELSE /\ Call([Idle EXCEPT
                          !.kind = "finish",
                          !.todo = If(writer.buffered, FlushStages(cluster))
                                   \o <<EntryStage(first)>>], TRUE)
               /\ UNCHANGED writer
       /\ UNCHANGED operations

\* The lock is taken again to publish the temporary as the target.
WriterReplace ==
    LET target == writer.target
        source == Find(vol, Temporary)
        old == Find(vol, target)
        slot == FindFreeSlots(vol, 2)
        entry == [vol.dir[source] EXCEPT !.alias = IF old = 0 THEN GenerateAlias(vol, target)
                                                ELSE vol.dir[old].alias]
    IN /\ writer.phase = "replace"
       /\ IF source # 0
          THEN /\ Call([Idle EXCEPT
                          !.kind = "replace",
                          !.todo = ReplaceStages(source, old, slot, target, entry),
                          !.effect = [m \in {target} |->
                                        Blocks(writer.version, writer.expected)]],
                       ~Crosses(slot))
               /\ UNCHANGED writer
          ELSE /\ op = Idle /\ writer' = NoWriter
               /\ UNCHANGED <<gap, vol, disk, hint, op, store, sound, undone, errors, crashes>>
       /\ UNCHANGED operations

\* storage_transaction_writer_abort: the state is gone before the file is.
WriterAbort ==
    /\ writer.phase \in {"active", "failed"} /\ op = Idle
    /\ writer' = [writer EXCEPT !.phase = "cleanup"]
    /\ UNCHANGED <<gap, vol, disk, hint, op, store, sound, undone, counters>>

\* storage_delete_file of the temporary, by abort or after a failure.
WriterCleanup ==
    /\ writer.phase = "cleanup"
    /\ IF Find(vol, Temporary) # 0
       THEN /\ Call([Idle EXCEPT !.kind = "cleanup",
                                 !.todo = DeleteStages(Find(vol, Temporary))], TRUE)
            /\ UNCHANGED writer
       ELSE /\ op = Idle /\ writer' = NoWriter
            /\ UNCHANGED <<gap, vol, disk, hint, op, store, sound, undone, errors, crashes>>
    /\ UNCHANGED operations

(* ------------------------------ steps of a call ------------------------- *)
Now == Head(op.todo)
Remaining == [op EXCEPT !.todo = Tail(@), !.waiting = FALSE]
FailedWith(cleanup) ==
    IF Now.effort THEN Remaining
    ELSE [op EXCEPT !.todo = cleanup, !.waiting = FALSE, !.ok = FALSE]

\* The writes of a stage reach the cache.
WriteSectors ==
    /\ op.todo # <<>> /\ ~op.waiting /\ Now.valid
    /\ LET after == Written(vol, disk, Now.writes)
       IN vol' = after.img /\ disk' = after.disk
    /\ op' = IF Now.barrier THEN [op EXCEPT !.waiting = TRUE] ELSE Remaining
    /\ UNCHANGED <<gap, hint, writer, store, sound, undone, counters>>

\* A write fails. An operation stops at it; a clean-up tries the others.
WriteFails(done) ==
    LET writes == [i \in 1..Cardinality(done) |->
                     Now.writes[CHOOSE k \in done :
                                  Cardinality({j \in done : j <= k}) = i]]
    IN /\ op.todo # <<>> /\ ~op.waiting
       /\ done \subseteq DOMAIN Now.writes
       /\ IF Now.valid
          THEN /\ errors < MaxErrors /\ errors' = errors + 1
               /\ done # DOMAIN Now.writes
               /\ Now.effort \/ done = 1..Cardinality(done)
          ELSE done = DOMAIN Now.writes /\ UNCHANGED errors
       /\ LET after == Written(vol, disk, writes)
          IN vol' = after.img /\ disk' = after.disk
       /\ op' = FailedWith(Now.onWrite)
       /\ UNCHANGED <<gap, hint, writer, store, sound, undone, operations, crashes>>

\* storage_sync_barrier
Barrier ==
    /\ op.waiting
    /\ disk' = Clean(vol)
    /\ op' = Remaining
    /\ undone' = (undone /\ ~op.ok)
    /\ UNCHANGED <<gap, vol, hint, writer, store, sound, counters>>

\* The barrier fails: some sectors may have been written, none is forgotten.
BarrierFails ==
    /\ op.waiting
    /\ errors < MaxErrors /\ errors' = errors + 1
    /\ op' = FailedWith(Now.onBarrier)
    /\ undone' = (undone \/ \E i \in DOMAIN Now.onBarrier :
                               Now.onBarrier[i].writes[1].area = "dir")
    /\ UNCHANGED <<gap, vol, disk, hint, writer, store, sound, operations, crashes>>

WriterAfter ==
    CASE op.kind = "begin"  -> IF op.ok THEN writer ELSE [writer EXCEPT !.phase = "cleanup"]
      [] op.kind = "flush"  ->
           IF ~op.ok THEN [writer EXCEPT !.phase = "failed"]
           ELSE [writer EXCEPT !.first = IF writer.last = 0 THEN op.cluster ELSE @,
                               !.last = op.cluster, !.flushed = @ + 1]
      [] op.kind = "finish" ->
           [writer EXCEPT !.phase = IF op.ok THEN "replace" ELSE "cleanup"]
      [] op.kind \in {"cleanup", "replace"} -> NoWriter
      [] OTHER -> writer

\* The call returns and releases the lock.
Return ==
    /\ op # Idle /\ op.todo = <<>>
    /\ op' = Idle
    /\ writer' = WriterAfter
    /\ store' = [n \in Names |-> IF op.ok /\ n \in DOMAIN op.effect
                                 THEN {op.effect[n]} ELSE store[n]]
    /\ hint' = IF op.kind = "write" /\ op.ok /\ op.cluster # 0
               THEN (op.cluster % NumClusters) + 1 ELSE hint
    /\ sound' = (sound /\ (op.ok \/ (Consistent(vol) /\ Whole(vol))))
    /\ UNCHANGED <<gap, vol, disk, undone, counters>>

\* Power fails; the volume is mounted again from what the device holds.
Crash ==
    /\ crashes < MaxCrashes /\ crashes' = crashes + 1
    /\ \E img \in Images(disk) :
          /\ vol' = img /\ disk' = Clean(img)
          /\ store' = [n \in Names |-> {Lookup(img, n)}]
          /\ sound' = (sound /\ Consistent(img) /\ Whole(img))
    /\ hint' = 1 /\ op' = Idle /\ writer' = NoWriter /\ undone' = FALSE
    /\ UNCHANGED <<gap, operations, errors>>

Init ==
    /\ gap \in Gaps
    /\ vol = [dir |-> [p \in Places |-> Blank], fat |-> [c \in Clusters |-> Free],
              data |-> [c \in Clusters |-> <<0, 0>>]]
    /\ disk = Clean(vol)
    /\ hint = 1 /\ op = Idle /\ writer = NoWriter
    /\ store = [n \in Names |-> {NoFile}]
    /\ sound = TRUE /\ undone = FALSE
    /\ operations = 0 /\ errors = 0 /\ crashes = 0

Next ==
    \/ \E n \in Files, k \in Sizes : WriteFile(n, k) \/ WriterBegin(n, k)
    \/ \E n \in Names : DeleteFile(n)
    \/ \E n, m \in Files : RenameFile(n, m)
    \/ \E full \in BOOLEAN : WriterWrite(full)
    \/ WriterFinish \/ WriterReplace \/ WriterAbort \/ WriterCleanup
    \/ WriteSectors
    \/ op.todo # <<>> /\ \E done \in SUBSET DOMAIN Now.writes : WriteFails(done)
    \/ Barrier \/ BarrierFails \/ Return
    \/ Crash

Spec == Init /\ [][Next]_vars

(* ------------------------------ properties ------------------------------ *)
\* Sectors of the cache hold a value the device may hold, links stay in the FAT.
TypeOK ==
    /\ vol.fat \in [Clusters -> {Free, End} \cup Clusters]
    /\ gap \in Gaps
    /\ \A s \in Sectors : SectorAt(vol, s) \in disk.dir[s]
    /\ \A c \in Clusters : vol.fat[c] \in disk.fat[c] /\ vol.data[c] \in disk.data[c]
    /\ hint \in Clusters /\ op.kind \in Kinds /\ writer.phase \in Phases

\* Whatever sectors a power cut leaves on the device, a name resolves to a
\* content it may have: the old or the new one complete while a call is in
\* progress or after it failed, the new one once it returned OK, and that of
\* the other names untouched, also when a name lies in two sectors. It holds
\* until a crash or an error leaves a volume storage_check rejects or half a
\* name, a name is published across a gap of the directory, or a rename leaves
\* the old name behind as an alias; and not after the clean-up of a write has
\* withdrawn an entry.
AtomicNames ==
    sound /\ ~undone =>
        \A img \in Images(disk), n \in Files : Lookup(img, n) \in store[n]

\* A rename without earlier errors that does not cross a gap of the directory
\* never loses the file: whatever a power cut leaves of the two places of each
\* name, it is complete under the old name or under the new one.
RenameKeepsTheFile ==
    sound /\ errors = 0 /\ op.kind = "rename" =>
        \A img \in Images(disk) : \E n \in DOMAIN op.effect :
            Lookup(img, n) \in {op.effect[m] : m \in DOMAIN op.effect} \ {NoFile}

\* Without I/O errors, what a power cut can leave is confined: an entry with
\* free clusters in its chain only for the temporary file while a cluster is
\* linked to it, two entries with one chain only during a rename or the
\* publication of the temporary, two entries with one name only while that
\* name is being replaced. Creations, deletions and idle volumes are safe.
DamageIsConfined ==
    sound /\ errors = 0 =>
        \A img \in Images(disk) :
            /\ Dangling(img) \subseteq
                 IF op.kind \in {"flush", "finish"} THEN {writer.place} ELSE {}
            /\ Shared(img) # {} => op.kind \in {"rename", "replace"}
            /\ Duplicated(img) \subseteq
                 IF op.kind \in {"write", "replace"} THEN DOMAIN op.effect ELSE {}

\* The state is well formed. Between calls, without crashes, errors, gaps
\* crossed and aliases left behind, the device holds the volume the cache
\* shows, it is consistent, and every allocated cluster belongs to a file.
NothingLeaks ==
    /\ TypeOK
    /\ op = Idle /\ sound /\ crashes = 0 /\ errors = 0 =>
          disk = Clean(vol) /\ Consistent(vol) /\ Orphans(vol) = {}

\* "Falhas antes do commit preservam o estado anterior": once a call has failed,
\* too, a power cut leaves the old content of a name or the new one.
FailurePreservesOld ==
    op = Idle /\ sound =>
        \A img \in Images(disk), n \in Files : Lookup(img, n) \in store[n]
=============================================================================
