------------------------------ MODULE SsiCommit ------------------------------
(***************************************************************************)
(* Serializable snapshot isolation over block read and write sets: the     *)
(* commit check of MvccStore::commit_ssi and ShardedMvccStore::commit_ssi, *)
(* and the pruning of the log of committed transactions it looks back on.  *)
(*                                                                         *)
(* A commit validates, allocates its sequence and installs under the write *)
(* lock, or under the locks of every shard it reads or writes; two commits *)
(* that touch a common block are therefore ordered, and a commit is one    *)
(* action.  Block contents play no part in the check.                      *)
(***************************************************************************)
EXTENDS Naturals, Sequences, FiniteSets

CONSTANTS
    Txns,               \* transactions
    Blocks,             \* blocks
    MaxCommit           \* bound: commit sequences are 1..MaxCommit

ASSUME SsiAssumption == MaxCommit \in Nat

VARIABLES
    sharded,  \* the store is a ShardedMvccStore, or else an MvccStore
    tx,       \* tx[t]: status, snapshot, registration, read and write set
    latest,   \* latest[b]: commit sequence of the newest version of b
    ssiLog,   \* ssi_log: the commit sequences whose records are retained
    history   \* history[c]: the transaction that committed at c, never pruned

vars == <<sharded, tx, latest, ssiLog, history>>

Seqs == 0 .. MaxCommit
Current == Len(history)
Record == [snap : Seqs, reg : BOOLEAN, ssi : BOOLEAN, reads : SUBSET Blocks, writes : SUBSET Blocks]

Init ==
    /\ sharded \in BOOLEAN
    /\ tx = [t \in Txns |-> [st |-> "idle", snap |-> 0, reg |-> FALSE,
                             reads |-> {}, writes |-> {}]]
    /\ latest = [b \in Blocks |-> 0]
    /\ ssiLog = {}
    /\ history = <<>>

Running(t) == tx[t].st = "running"

\* begin and begin_registered
Begin(t, registered) ==
    /\ tx[t].st = "idle"
    /\ tx' = [tx EXCEPT ![t].st = "running", ![t].snap = Current, ![t].reg = registered]
    /\ UNCHANGED <<sharded, latest, ssiLog, history>>

\* record_read
RecordRead(t, b) ==
    /\ Running(t) /\ b \notin tx[t].reads
    /\ tx' = [tx EXCEPT ![t].reads = @ \cup {b}]
    /\ UNCHANGED <<sharded, latest, ssiLog, history>>

\* stage_write
StageWrite(t, b) ==
    /\ Running(t) /\ b \notin tx[t].writes
    /\ tx' = [tx EXCEPT ![t].writes = @ \cup {b}]
    /\ UNCHANGED <<sharded, latest, ssiLog, history>>

\* commit and abort consume the transaction; its registration stays.
Over(t) == tx' = [tx EXCEPT ![t].st = "over", ![t].reads = {}, ![t].writes = {}]

Abort(t) ==
    /\ Running(t)
    /\ Over(t)
    /\ UNCHANGED <<sharded, latest, ssiLog, history>>

\* end_request_scope releases the registered snapshot after the transaction.
EndScope(t) ==
    /\ tx[t].st = "over" /\ tx[t].reg
    /\ tx' = [tx EXCEPT ![t].reg = FALSE]
    /\ UNCHANGED <<sharded, latest, ssiLog, history>>

\* preflight_fcw without a merge: someone wrote the block after the snapshot.
FcwConflict(t) == \E b \in tx[t].writes : latest[b] > tx[t].snap

\* detect_ssi_dangerous_structure: among the retained records newer than the
\* snapshot one read what t writes and one, maybe the same, wrote what t read.
DangerousStructure(t) ==
    LET newer == {c \in ssiLog : c > tx[t].snap}
    IN  /\ tx[t].writes # {}
        /\ \E c \in newer : history[c].reads \cap tx[t].writes # {}
        /\ \E c \in newer : history[c].writes \cap tx[t].reads # {}

\* Mutant of Install: a plain commit leaves a record too.
InstallAlwaysRecorded(t, ssi) ==
    /\ Current < MaxCommit
    /\ history' = Append(history, [snap |-> tx[t].snap, reg |-> tx[t].reg, ssi |-> ssi,
                                   reads |-> tx[t].reads, writes |-> tx[t].writes])
    /\ latest' = [b \in Blocks |-> IF b \in tx[t].writes THEN Current + 1 ELSE latest[b]]
    /\ ssiLog' = ssiLog \cup {Current + 1}

Install(t, ssi) ==
    /\ Current < MaxCommit
    /\ history' = Append(history, [snap |-> tx[t].snap, reg |-> tx[t].reg, ssi |-> ssi,
                                   reads |-> tx[t].reads, writes |-> tx[t].writes])
    /\ latest' = [b \in Blocks |-> IF b \in tx[t].writes THEN Current + 1 ELSE latest[b]]
    /\ ssiLog' = IF ssi THEN ssiLog \cup {Current + 1} ELSE ssiLog

\* The sharded store answers a transaction without writes at once; the single
\* store gives it a sequence and, under SSI, a record.
Shortcut(t) == sharded /\ tx[t].writes = {}

\* commit_ssi
CommitSsi(t) ==
    /\ Running(t)
    /\ \/ /\ FcwConflict(t) \/ DangerousStructure(t)
          /\ UNCHANGED <<latest, ssiLog, history>>
       \/ /\ Shortcut(t)
          /\ UNCHANGED <<latest, ssiLog, history>>
       \/ /\ ~ FcwConflict(t) /\ ~ DangerousStructure(t) /\ ~ Shortcut(t)
          /\ Install(t, TRUE)
    /\ Over(t)
    /\ UNCHANGED sharded

\* commit: first-committer-wins only; it leaves no record.
CommitFcw(t) ==
    /\ Running(t)
    /\ \/ /\ FcwConflict(t) \/ Shortcut(t)
          /\ UNCHANGED <<latest, ssiLog, history>>
       \/ /\ ~ FcwConflict(t) /\ ~ Shortcut(t)
          /\ Install(t, FALSE)
    /\ Over(t)
    /\ UNCHANGED sharded

Pins == {tx[t].snap : t \in {u \in Txns : tx[u].reg}}

\* Mutant of IsWatermark: the newest registered snapshot instead of the oldest
IsNewestPin(wm) ==
    IF Pins = {} THEN wm = Current ELSE wm \in Pins /\ \A s \in Pins : wm >= s

\* What prune_safe takes as watermark: no registered snapshot lies below it.
IsWatermark(wm) ==
    IF Pins = {} THEN wm = Current ELSE wm \in Pins /\ \A s \in Pins : wm <= s

\* ShardedMvccStore::prune_safe prunes every shard's ssi_log at its watermark.
\* MvccStore::prune_ssi_log leaves the choice to its caller, who must know that
\* no active transaction has an older snapshot.
PruneLog(wm) ==
    /\ IsWatermark(wm)
    /\ sharded \/ \A t \in Txns : Running(t) => tx[t].snap >= wm
    /\ ssiLog' = {c \in ssiLog : c > wm}
    /\ ssiLog' # ssiLog
    /\ UNCHANGED <<sharded, tx, latest, history>>

Next ==
    \/ \E t \in Txns :
          \/ \E registered \in BOOLEAN : Begin(t, registered)
          \/ \E b \in Blocks : RecordRead(t, b) \/ StageWrite(t, b)
          \/ Abort(t) \/ EndScope(t)
          \/ CommitSsi(t) \/ CommitFcw(t)
    \/ \E wm \in Seqs : PruneLog(wm)

Spec == Init /\ [][Next]_vars

-----------------------------------------------------------------------------
\* The state has its shape, and the log names only commits made through
\* commit_ssi.
TypeOK ==
    /\ sharded \in BOOLEAN
    /\ tx \in [Txns -> [st : {"idle", "running", "over"}, snap : Seqs, reg : BOOLEAN,
                        reads : SUBSET Blocks, writes : SUBSET Blocks]]
    /\ latest \in [Blocks -> Seqs]
    /\ history \in Seq(Record) /\ Len(history) <= MaxCommit
    /\ ssiLog \in SUBSET Seqs
    /\ \A c \in ssiLog : c \in 1 .. Current /\ history[c].ssi

Concurrent(c, d) == history[d].snap < c /\ c < d
Ssi(c) == c \in 1 .. Current /\ history[c].ssi

\* commit_ssi never lets a transaction in as the pivot of two rw edges with
\* transactions that committed during its life, whatever part of the log was
\* pruned meanwhile.  In the sharded store this needs the pivot's snapshot to be
\* registered: prune_safe does not know of any other.
NoLatePivot ==
    \A d \in 1 .. Current :
        (Ssi(d) /\ history[d].writes # {} /\ (sharded => history[d].reg)) =>
            \A c, e \in 1 .. Current :
                (Ssi(c) /\ Ssi(e) /\ Concurrent(c, d) /\ Concurrent(e, d)) =>
                    \/ history[c].reads \cap history[d].writes = {}
                    \/ history[e].writes \cap history[d].reads = {}
=============================================================================
