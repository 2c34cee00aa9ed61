--------------------------- MODULE PersistentStore ---------------------------
(***************************************************************************)
(* PersistentMvccStore (ffs-mvcc/src/persist.rs) over its write-ahead log  *)
(* (wal_writer.rs, wal_replay.rs): commit, sync, checkpoint, truncation    *)
(* and reopening, one step per file operation.  Any file operation may     *)
(* fail, and the process or the machine may stop between any two.          *)
(*                                                                         *)
(* commit holds the store and the WAL exclusively, checkpoint and          *)
(* truncate_wal pin both, and sync owns the WAL: one operation is in       *)
(* progress at a time, and readers see its effect when it returns.         *)
(*                                                                         *)
(* The MVCC store is the sequence of committed attempts; the commit        *)
(* sequence of an attempt is its position.  The WAL is a sequence of       *)
(* records.  disk[i] is the set of contents a machine crash may leave in   *)
(* its i-th place: a record, Torn, or None past the end of the file.       *)
(***************************************************************************)
EXTENDS Integers, Sequences

CONSTANTS
    MaxAttempts,  \* bound: calls of commit
    MaxFailures,  \* bound: failed file operations
    MaxCrashes,   \* bound: crashes
    Threshold,    \* backpressure_threshold_bytes, in records; 0 disables it
    Placements,   \* where the checkpoint lives: "wal_dir", "other_dir"
    Torn, None

ASSUME PersistAssumption ==
    /\ MaxAttempts \in Nat /\ MaxFailures \in Nat /\ MaxCrashes \in Nat
    /\ Threshold \in Nat
    /\ Placements \subseteq {"wal_dir", "other_dir"}
    /\ Torn # None
    /\ {Torn, None} \cap [seq : 1 .. MaxAttempts, id : 1 .. MaxAttempts] = {}

VARIABLES
    sync,      \* sync_on_commit: SyncPolicy::Immediate or Manual
    place,     \* the checkpoint's directory; fixed, like sync
    mem,       \* the store: attempts in commit order
    horizon,   \* stats.checkpoint_commit_seq
    writer,    \* the WalWriter: write_pos, pending, last_seq, sealed
    wal,       \* the records of the WAL file, as a read returns them
    disk,      \* what a machine crash may leave of them
    ckpt,      \* the commits in the checkpoint a lookup finds
    ckptDisk,  \* the checkpoints a machine crash may leave
    op,        \* the operation in progress
    attempts, failures, crashes,
    log, durable, doubt  \* what the callers were told: see DurableLog

files == <<wal, disk, ckpt, ckptDisk>>
promise == <<log, durable, doubt>>
counters == <<attempts, failures, crashes>>
config == <<sync, place>>
vars == <<config, mem, horizon, writer, files, op, counters, promise>>

Ids == 1 .. MaxAttempts
Record(s, id) == [seq |-> s, id |-> id]
Places == 1 .. MaxAttempts

Fresh == [write_pos |-> 0, pending |-> 0, last_seq |-> 0, sealed |-> FALSE]
NoOp == [pc |-> "idle", id |-> 0, base |-> 0]

At(pc) == op.pc = pc
Goto(pc) == op' = [op EXCEPT !.pc = pc]
Return == op' = NoOp
Seal == writer' = [writer EXCEPT !.sealed = TRUE]

(* File operations *)

\* The place of the WAL after the last record
AppendRecord(r) ==
    /\ wal' = Append(wal, r)
    /\ disk' = [disk EXCEPT ![Len(wal) + 1] = @ \cup {r, Torn}]

SetLen(n) ==
    /\ wal' = SubSeq(wal, 1, n)
    /\ disk' = [i \in Places |-> IF i > n THEN disk[i] \cup {None} ELSE disk[i]]

Contents(w) == [i \in Places |-> IF i <= Len(w) THEN {w[i]} ELSE {None}]

SyncAll ==
    /\ disk' = Contents(wal)
    /\ UNCHANGED wal

FailureLeft ==
    /\ failures < MaxFailures
    /\ failures' = failures + 1
    /\ UNCHANGED <<attempts, crashes>>

Init ==
    /\ sync \in BOOLEAN
    /\ place \in Placements
    /\ mem = <<>>
    /\ horizon = 0
    /\ writer = Fresh
    /\ wal = <<>>
    /\ disk = Contents(<<>>)
    /\ ckpt = <<>>
    /\ ckptDisk = {<<>>}
    /\ op = NoOp
    /\ attempts = 0 /\ failures = 0 /\ crashes = 0
    /\ log = <<>> /\ durable = 0 /\ doubt = {}

----------------------------------------------------------------------------
(* commit_internal: the store first, then the WAL *)

Ready == At("idle") /\ ~ writer.sealed

StartCommit ==
    /\ Ready
    /\ attempts < MaxAttempts
    /\ attempts' = attempts + 1
    /\ mem' = Append(mem, attempts')
    /\ op' = [pc |-> "append", id |-> attempts', base |-> writer.write_pos]
    /\ doubt' = {attempts'}
    /\ UNCHANGED <<config, horizon, writer, files, failures, crashes, log, durable>>

\* Mutant of RollBackStore: forgotten.
RollBackForgotten == UNCHANGED mem

\* rollback_in_memory_commit
RollBackStore == mem' = SubSeq(mem, 1, Len(mem) - 1)

Backpressured == Threshold > 0 /\ writer.write_pos >= Threshold
Refused == Backpressured \/ Len(mem) <= writer.last_seq

\* The append is refused before any byte is written.
AppendRefused ==
    /\ At("append") /\ Refused
    /\ RollBackStore
    /\ Return
    /\ doubt' = {}
    /\ UNCHANGED <<config, horizon, writer, files, counters, log, durable>>

Acknowledge ==
    /\ log' = Append(log, op.id)
    /\ doubt' = {}
    /\ Return

\* write_streamed; with SyncPolicy::Manual the commit returns at once.
AppendWrite ==
    /\ At("append") /\ ~ Refused
    /\ AppendRecord(Record(Len(mem), op.id))
    /\ IF sync
       THEN /\ writer' = [writer EXCEPT !.write_pos = @ + 1]
            /\ Goto("sync")
            /\ UNCHANGED promise
       ELSE /\ writer' = [writer EXCEPT !.write_pos = @ + 1, !.pending = @ + 1,
                                        !.last_seq = Len(mem)]
            /\ Acknowledge
            /\ UNCHANGED durable
    /\ UNCHANGED <<config, mem, horizon, ckpt, ckptDisk, counters>>

\* A write or its verification fails after none, some or all of the bytes.
AppendFails ==
    /\ At("append") /\ ~ Refused
    /\ FailureLeft
    /\ \/ AppendRecord(Record(Len(mem), op.id))
       \/ AppendRecord(Torn)
       \/ UNCHANGED <<wal, disk>>
    /\ Goto("rollback")
    /\ UNCHANGED <<config, mem, horizon, writer, ckpt, ckptDisk, promise>>

AppendSync ==
    /\ At("sync")
    /\ SyncAll
    /\ writer' = [writer EXCEPT !.pending = 0, !.last_seq = Len(mem)]
    /\ Acknowledge
    /\ durable' = Len(log')
    /\ UNCHANGED <<config, mem, horizon, ckpt, ckptDisk, counters>>

AppendSyncFails ==
    /\ At("sync")
    /\ FailureLeft
    /\ Goto("rollback")
    /\ UNCHANGED <<config, mem, horizon, writer, files, promise>>

\* rollback_failed_append: truncate,
RollbackTruncate ==
    /\ At("rollback")
    /\ SetLen(op.base)
    /\ Goto("rollback_sync")
    /\ UNCHANGED <<config, mem, horizon, writer, ckpt, ckptDisk, counters, promise>>

\* Mutant of RollbackSync: the cursor stays past the truncated record.
RollbackSyncKeepsCursor ==
    /\ At("rollback_sync")
    /\ SyncAll
    /\ RollBackStore
    /\ Return
    /\ doubt' = {}
    /\ UNCHANGED <<config, horizon, writer, ckpt, ckptDisk, counters, log, durable>>

\* Mutant of RollbackSync: the truncation is left to the next sync.
RollbackSyncDeferred ==
    /\ At("rollback_sync")
    /\ writer' = [writer EXCEPT !.write_pos = op.base]
    /\ RollBackStore
    /\ Return
    /\ doubt' = {}
    /\ UNCHANGED <<config, horizon, files, counters, log, durable>>

\* and sync; then the commit fails and its sequence is free again.
RollbackSync ==
    /\ At("rollback_sync")
    /\ SyncAll
    /\ writer' = [writer EXCEPT !.write_pos = op.base]
    /\ RollBackStore
    /\ Return
    /\ doubt' = {}
    /\ UNCHANGED <<config, horizon, ckpt, ckptDisk, counters, log, durable>>

\* Either fails: the writer is sealed, and what the WAL holds is open.
RollbackFails ==
    /\ At("rollback") \/ At("rollback_sync")
    /\ FailureLeft
    /\ Seal
    /\ RollBackStore
    /\ Return
    /\ UNCHANGED <<config, horizon, files, promise>>

----------------------------------------------------------------------------
(* sync *)

Flush ==
    /\ Ready /\ writer.pending > 0
    /\ SyncAll
    /\ writer' = [writer EXCEPT !.pending = 0]
    /\ durable' = Len(log)
    /\ UNCHANGED <<config, mem, horizon, ckpt, ckptDisk, op, counters, log, doubt>>

FlushFails ==
    /\ Ready /\ writer.pending > 0
    /\ FailureLeft
    /\ Seal
    /\ UNCHANGED <<config, mem, horizon, files, op, promise>>

(* checkpoint_with_directory_sync; a failure before the rename leaves nothing. *)

\* The snapshot is in a synced temporary file; rename publishes it.
CheckpointRename ==
    /\ Ready
    /\ ckpt' = mem
    /\ ckptDisk' = ckptDisk \cup {mem}
    /\ Goto("dir_sync")
    /\ UNCHANGED <<config, mem, horizon, writer, wal, disk, counters, promise>>

DirectorySync ==
    /\ At("dir_sync")
    /\ ckptDisk' = {ckpt}
    /\ horizon' = Len(mem)
    /\ durable' = Len(log)
    /\ Return
    /\ UNCHANGED <<config, mem, writer, wal, disk, ckpt, counters, log, doubt>>

DirectorySyncFails ==
    /\ At("dir_sync")
    /\ FailureLeft
    /\ Return
    /\ UNCHANGED <<config, mem, horizon, writer, files, promise>>

(* truncate_wal; the writer also checks that the file ends at its cursor, and *)
(* seals itself when it does not (CursorsAgree: never).                       *)

MayTruncate ==
    /\ Len(mem) <= horizon
    /\ writer.last_seq <= Len(mem) /\ Len(wal) = writer.write_pos

\* Mutant of TruncateWal: a stale checkpoint is good enough.
TruncateWalStale ==
    /\ Ready
    /\ 0 < horizon
    /\ SetLen(0)
    /\ Goto("truncate_sync")
    /\ UNCHANGED <<config, mem, horizon, writer, ckpt, ckptDisk, counters, promise>>

TruncateWal ==
    /\ Ready /\ MayTruncate
    /\ SetLen(0)
    /\ Goto("truncate_sync")
    /\ UNCHANGED <<config, mem, horizon, writer, ckpt, ckptDisk, counters, promise>>

TruncateSync ==
    /\ At("truncate_sync")
    /\ SyncAll
    /\ writer' = [writer EXCEPT !.write_pos = 0, !.pending = 0, !.last_seq = Len(mem)]
    /\ Return
    /\ UNCHANGED <<config, mem, horizon, ckpt, ckptDisk, counters, promise>>

\* set_len or its sync fails.
TruncateFails ==
    /\ At("truncate_sync") \/ (Ready /\ MayTruncate)
    /\ FailureLeft
    /\ Seal
    /\ Return
    /\ UNCHANGED <<config, mem, horizon, files, promise>>

----------------------------------------------------------------------------
(* Crashes *)

\* The store is gone; what the files hold is the question.
Down ==
    /\ crashes < MaxCrashes
    /\ crashes' = crashes + 1
    /\ mem' = <<>>
    /\ horizon' = 0
    /\ writer' = Fresh
    /\ op' = [NoOp EXCEPT !.pc = "down"]
    /\ UNCHANGED <<config, attempts, failures, promise>>

\* The store is dropped or the process killed; the page cache survives.
ProcessStops ==
    /\ ~ At("down")
    /\ Down
    /\ UNCHANGED files

Survivals ==
    {f \in [Places -> UNION {disk[i] : i \in Places}] : \A i \in Places : f[i] \in disk[i]}

\* The file ends at the first place that holds nothing.
EndOf(f) == CHOOSE n \in 0 .. MaxAttempts :
    (\A i \in 1 .. n : f[i] # None) /\ (n < MaxAttempts => f[n + 1] = None)
FileOf(f) == [i \in 1 .. EndOf(f) |-> f[i]]

MachineStops ==
    /\ Down
    /\ \E f \in Survivals : wal' = FileOf(f)
    /\ disk' = Contents(wal')
    /\ ckpt' \in ckptDisk
    /\ ckptDisk' = {ckpt'}

(* open_with_checkpoint_and_options *)

\* open_with_barriers stabilises the WAL and its directory before it is read.
OpenBarriers ==
    /\ At("down")
    /\ SyncAll
    /\ ckptDisk' = IF place = "wal_dir" THEN {ckpt} ELSE ckptDisk
    /\ Goto("replay")
    /\ UNCHANGED <<config, mem, horizon, writer, ckpt, counters, promise>>

\* replay_records: stop at the first record that is torn or out of order.
Intact(w, n) ==
    \A i \in 1 .. n : w[i] # Torn /\ (i > 1 => w[i].seq > w[i - 1].seq)
ValidLen(w) == CHOOSE n \in 0 .. Len(w) :
    Intact(w, n) /\ (n < Len(w) => ~ Intact(w, n + 1))

\* Records the checkpoint covers are skipped; they come first, as sequences grow.
Skipped(w, c) == CHOOSE k \in 0 .. ValidLen(w) :
    \A i \in 1 .. ValidLen(w) : w[i].seq <= Len(c) <=> i <= k
Newer(w, c) == SubSeq(w, Skipped(w, c) + 1, ValidLen(w))
Replayed(w, c) == c \o [i \in 1 .. Len(Newer(w, c)) |-> Newer(w, c)[i].id]

\* Mutant of Opens: the writer is given next_commit.
OpensAtNext ==
    /\ mem' = Replayed(wal, ckpt)
    /\ horizon' = Len(ckpt)
    /\ writer' = [Fresh EXCEPT !.write_pos = ValidLen(wal), !.last_seq = Len(mem') + 1]
    /\ Return
    /\ log' = mem'
    /\ durable' = Len(mem')
    /\ doubt' = {}

\* The store opens with what was replayed.
Opens ==
    /\ mem' = Replayed(wal, ckpt)
    /\ horizon' = Len(ckpt)
    /\ writer' = [Fresh EXCEPT !.write_pos = ValidLen(wal), !.last_seq = Len(mem')]
    /\ Return
    /\ log' = mem'
    /\ durable' = Len(mem')
    /\ doubt' = {}

ReplayClean ==
    /\ At("replay") /\ ValidLen(wal) = Len(wal)
    /\ Opens
    /\ UNCHANGED <<config, files, counters>>

\* truncate_wal_tail_if_needed
TrimTail ==
    /\ At("replay") /\ ValidLen(wal) < Len(wal)
    /\ SetLen(ValidLen(wal))
    /\ Goto("trim_sync")
    /\ UNCHANGED <<config, mem, horizon, writer, ckpt, ckptDisk, counters, promise>>

TrimSync ==
    /\ At("trim_sync")
    /\ SyncAll
    /\ Opens
    /\ UNCHANGED <<config, ckpt, ckptDisk, counters>>

\* An error ends the attempt to open; the next one starts over.
TrimSyncFails ==
    /\ At("trim_sync")
    /\ FailureLeft
    /\ Goto("down")
    /\ UNCHANGED <<config, mem, horizon, writer, files, promise>>

Next ==
    \/ StartCommit \/ AppendRefused \/ AppendWrite \/ AppendFails \/ AppendSync
    \/ AppendSyncFails \/ RollbackTruncate \/ RollbackSync \/ RollbackFails
    \/ Flush \/ FlushFails
    \/ CheckpointRename \/ DirectorySync \/ DirectorySyncFails
    \/ TruncateWal \/ TruncateSync \/ TruncateFails
    \/ ProcessStops \/ MachineStops
    \/ OpenBarriers \/ ReplayClean \/ TrimTail \/ TrimSync \/ TrimSyncFails

Spec == Init /\ [][Next]_vars

----------------------------------------------------------------------------
\* The state has its shape.
TypeOK ==
    /\ sync \in BOOLEAN /\ place \in Placements
    /\ mem \in Seq(Ids) /\ log \in Seq(Ids) /\ ckpt \in Seq(Ids)
    /\ horizon \in 0 .. MaxAttempts
    /\ writer \in [write_pos : 0 .. MaxAttempts, pending : 0 .. MaxAttempts,
                   last_seq : 0 .. MaxAttempts, sealed : BOOLEAN]
    /\ Len(wal) <= MaxAttempts
    /\ ckpt \in ckptDisk
    /\ durable \in 0 .. Len(log)
    /\ doubt \subseteq Ids

\* Between operations an unsealed writer and the store agree on where the log
\* ends: the cursor is the end of the file, the last sequence is the store's,
\* and no record is torn.  So no commit is refused for its sequence, and no
\* truncation finds a tail it does not know.
CursorsAgree ==
    Ready =>
        /\ writer.write_pos = Len(wal)
        /\ writer.last_seq = Len(mem)
        /\ ValidLen(wal) = Len(wal)

\* Between operations the store shows the commits that were acknowledged, and
\* no other: a failed commit leaves no trace a reader could see, sealed or not.
ViewIsAcknowledged == At("idle") => mem = log

\* The records replay appends to the checkpoint follow it without a gap.
ReplayHasNoGap ==
    At("replay") =>
        LET new == Newer(wal, ckpt) IN \A i \in DOMAIN new : new[i].seq = Len(ckpt) + i

\* The WAL, the checkpoint and recovery implement a durable log: acknowledged
\* commits survive in order (all of them with sync_on_commit, up to the last
\* sync or checkpoint otherwise), and a commit that failed without sealing the
\* writer never comes back.
Promise == INSTANCE DurableLog
ImplementsDurableLog == Promise!Spec
=============================================================================
