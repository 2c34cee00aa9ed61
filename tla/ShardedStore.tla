----------------------------- MODULE ShardedStore -----------------------------
(***************************************************************************)
(* ShardedMvccStore (sharded.rs), the default store of a writable mount:   *)
(* version chains in shards with a lock each, commits that run in parallel *)
(* and become visible through the publication gate, snapshot registration, *)
(* pruning, eviction and the flush to the base device, all concurrent.     *)
(*                                                                         *)
(* The gate enters as its contract, OrderedPublication, which GateWaitFree *)
(* and GateMutex implement.  A version is its commit sequence: what a      *)
(* merge does to the bytes is the subject of MvccStore.                    *)
(***************************************************************************)
EXTENDS Naturals, FiniteSets

CONSTANTS
    Txns,       \* transactions
    Readers,    \* pinned read scopes
    Blocks,     \* block numbers
    NumShards,  \* number of shards
    MaxCommit,  \* bound: commit sequences are 1..MaxCommit
    MaxJobs     \* bound: prune, evict and flush calls

ASSUME ShardedAssumption ==
    /\ Blocks \subseteq Nat
    /\ NumShards \in Nat \ {0}
    /\ MaxCommit \in Nat
    /\ MaxJobs \in Nat
    /\ IsFiniteSet(Txns) /\ IsFiniteSet(Readers)

VARIABLES
    allocated,  \* next_commit - 1
    installed,  \* sequences installed in every shard they write
    completed,  \* the published watermark
    returned,   \* sequences whose commit has returned
    versions,   \* versions[b]: the commit sequences in the chain of b
    active,     \* active_snapshots: reference count per sequence
    tx,         \* the transactions
    readers,    \* the pinned readers
    gc,         \* the prune or evict call in progress
    flush,      \* the flush call in progress
    flushed,    \* mvcc_flushed_through
    device,     \* device[b]: the sequence whose contents the device holds
    jobs,       \* prune, evict and flush calls so far
    writes      \* history: writes[c] is the write set of sequence c

gate == <<allocated, installed, completed, returned>>
vars == <<gate, versions, active, tx, readers, gc, flush, flushed, device, jobs, writes>>

Gate == INSTANCE OrderedPublication WITH MaxSeq <- MaxCommit

Seqs == 0 .. MaxCommit
Shards == 0 .. NumShards - 1
ShardIndex(b) == b % NumShards
ShardsOf(W) == {ShardIndex(b) : b \in W}
Lowest(S) == CHOOSE i \in S : \A j \in S : i <= j
NewestOf(S) == CHOOSE c \in S : \A d \in S : d <= c
Visible(b, s) == {c \in versions[b] : c <= s}

NoJob == [kind |-> "none", wm |-> 0, todo |-> {}]
NoFlush == [on |-> FALSE, snap |-> 0, todo |-> {}, keys |-> {},
            items |-> [b \in Blocks |-> 0]]

Idle == [pc |-> "idle", snap |-> 0, reg |-> FALSE, writes |-> {}, held |-> {}, seq |-> 0]
NoReader == [live |-> FALSE, snap |-> 0]

\* A transaction after its commit: all that is left is the pin to release.
Over(x) == [Idle EXCEPT !.pc = "over", !.reg = x.reg, !.snap = IF x.reg THEN x.snap ELSE 0]

Init ==
    /\ Gate!Init
    /\ versions = [b \in Blocks |-> {}]
    /\ active = [s \in Seqs |-> 0]
    /\ tx = [t \in Txns |-> Idle]
    /\ readers = [r \in Readers |-> NoReader]
    /\ gc = NoJob
    /\ flush = NoFlush
    /\ flushed = 0
    /\ device = [b \in Blocks |-> 0]
    /\ jobs = 0
    /\ writes = [c \in Seqs |-> {}]

\* prune_safe holds the active_snapshots lock until its last shard is done.
ActiveLockFree == gc.kind # "prune"
ShardFree(i) == \A t \in Txns : i \notin tx[t].held
GateClosed == gc.kind = "evict"

-----------------------------------------------------------------------------
(* Snapshots and transactions *)

\* begin_registered: capture and register under the active_snapshots lock
BeginRegistered(t) ==
    /\ tx[t].pc = "idle" /\ ActiveLockFree
    /\ tx' = [tx EXCEPT ![t].pc = "open", ![t].snap = completed, ![t].reg = TRUE]
    /\ active' = [active EXCEPT ![completed] = @ + 1]
    /\ UNCHANGED <<gate, versions, readers, gc, flush, flushed, device, jobs, writes>>

\* begin: no registration.  A request waits while the mutation gate is closed.
Begin(t) ==
    /\ tx[t].pc = "idle" /\ ~ GateClosed
    /\ tx' = [tx EXCEPT ![t].pc = "open", ![t].snap = completed]
    /\ UNCHANGED <<gate, versions, active, readers, gc, flush, flushed, device, jobs, writes>>

\* register_current_snapshot for a pinned read scope
Register(r) ==
    /\ ~ readers[r].live /\ ActiveLockFree
    /\ readers' = [readers EXCEPT ![r] = [live |-> TRUE, snap |-> completed]]
    /\ active' = [active EXCEPT ![completed] = @ + 1]
    /\ UNCHANGED <<gate, versions, tx, gc, flush, flushed, device, jobs, writes>>

\* release_snapshot at the end of the read scope
Release(r) ==
    /\ readers[r].live /\ ActiveLockFree
    /\ readers' = [readers EXCEPT ![r] = NoReader]
    /\ active' = [active EXCEPT ![readers[r].snap] = @ - 1]
    /\ UNCHANGED <<gate, versions, tx, gc, flush, flushed, device, jobs, writes>>

\* commit with write set W: without writes it returns at once.
StartCommit(t, W) ==
    /\ tx[t].pc = "open"
    /\ tx' = [tx EXCEPT ![t] = IF W = {} THEN Over(@)
                               ELSE [@ EXCEPT !.pc = "locking", !.writes = W]]
    /\ UNCHANGED <<gate, versions, active, readers, gc, flush, flushed, device, jobs, writes>>

\* Mutant of NextShard: some writers lock in descending order.
NextShardUnsorted(t) ==
    IF tx[t].reg THEN NewestOf(ShardsOf(tx[t].writes) \ tx[t].held)
    ELSE Lowest(ShardsOf(tx[t].writes) \ tx[t].held)

\* lock_shards: in ascending order
NextShard(t) == Lowest(ShardsOf(tx[t].writes) \ tx[t].held)

\* Mutant of LockShard: a shared lock
LockShardShared(t) ==
    /\ tx[t].pc = "locking" /\ tx[t].held # ShardsOf(tx[t].writes)
    /\ tx' = [tx EXCEPT ![t].held = @ \cup {NextShard(t)}]
    /\ UNCHANGED <<gate, versions, active, readers, gc, flush, flushed, device, jobs, writes>>

LockShard(t) ==
    /\ tx[t].pc = "locking" /\ tx[t].held # ShardsOf(tx[t].writes)
    /\ ShardFree(NextShard(t))
    /\ tx' = [tx EXCEPT ![t].held = @ \cup {NextShard(t)}]
    /\ UNCHANGED <<gate, versions, active, readers, gc, flush, flushed, device, jobs, writes>>

Conflicts(t) == \E b \in tx[t].writes : \E c \in versions[b] : c > tx[t].snap

\* preflight_fcw_locked: a conflict is refused, or merged when the proof allows
\* it; then next_commit_seq, still under the shard locks.
Preflight(t) ==
    /\ tx[t].pc = "locking" /\ tx[t].held = ShardsOf(tx[t].writes)
    /\ \/ /\ Conflicts(t)
          /\ tx' = [tx EXCEPT ![t] = Over(@)]
          /\ UNCHANGED <<allocated, installed, completed, returned, writes>>
       \/ /\ Gate!Allocate
          /\ tx' = [tx EXCEPT ![t].pc = "install", ![t].seq = allocated']
          /\ writes' = [writes EXCEPT ![allocated'] = tx[t].writes]
    /\ UNCHANGED <<versions, active, readers, gc, flush, flushed, device, jobs>>

\* The versions go into the chains and the shard locks are dropped.
InstallVersions(t) ==
    /\ tx[t].pc = "install"
    /\ Gate!Install(tx[t].seq)
    /\ versions' = [b \in Blocks |-> IF b \in tx[t].writes THEN versions[b] \cup {tx[t].seq}
                                     ELSE versions[b]]
    /\ tx' = [tx EXCEPT ![t].pc = "publish", ![t].held = {}]
    /\ UNCHANGED <<active, readers, gc, flush, flushed, device, jobs, writes>>

\* Mutant of AdvanceWatermark: to the newest installed sequence, over holes
AdvanceToNewest ==
    /\ installed # {} /\ completed < NewestOf(installed)
    /\ completed' = NewestOf(installed)
    /\ UNCHANGED <<allocated, installed, returned>>
    /\ UNCHANGED <<versions, active, tx, readers, gc, flush, flushed, device, jobs, writes>>

\* Some committer moves the watermark over the next installed sequence.
AdvanceWatermark ==
    /\ Gate!Advance
    /\ UNCHANGED <<versions, active, tx, readers, gc, flush, flushed, device, jobs, writes>>

\* publish returns, and commit with it.
ReturnCommit(t) ==
    /\ tx[t].pc = "publish"
    /\ Gate!Return(tx[t].seq)
    /\ tx' = [tx EXCEPT ![t] = Over(@)]
    /\ UNCHANGED <<versions, active, readers, gc, flush, flushed, device, jobs, writes>>

\* Mutant of EndScope: the pin can be released again.
EndScopeAgain(t) ==
    /\ tx[t].pc = "over" /\ tx[t].reg /\ ActiveLockFree
    /\ active' = [active EXCEPT ![tx[t].snap] = @ - 1]
    /\ UNCHANGED <<gate, versions, tx, readers, gc, flush, flushed, device, jobs, writes>>

\* end_request_scope releases the pin of a finished transaction.
EndScope(t) ==
    /\ tx[t].pc = "over" /\ tx[t].reg /\ ActiveLockFree
    /\ tx' = [tx EXCEPT ![t] = Over([@ EXCEPT !.reg = FALSE])]
    /\ active' = [active EXCEPT ![tx[t].snap] = @ - 1]
    /\ UNCHANGED <<gate, versions, readers, gc, flush, flushed, device, jobs, writes>>

-----------------------------------------------------------------------------
(* Garbage collection and flush *)

CountJob ==
    /\ jobs < MaxJobs
    /\ jobs' = jobs + 1

Pinned == {s \in Seqs : active[s] > 0}
Watermark == IF Pinned = {} THEN completed ELSE Lowest(Pinned)

\* prune_safe: take the active_snapshots lock and compute the watermark,
StartPrune ==
    /\ gc.kind = "none" /\ CountJob
    /\ gc' = [kind |-> "prune", wm |-> Watermark, todo |-> Shards]
    /\ UNCHANGED <<gate, versions, active, tx, readers, flush, flushed, device, writes>>

\* Mutant of StartEvict: the watermark is not asked.
StartEvictDurable ==
    /\ gc.kind = "none" /\ CountJob
    /\ \A t \in Txns : tx[t].pc \in {"idle", "over"} \/ tx[t].reg
    /\ gc' = [kind |-> "evict", todo |-> Shards, wm |-> flushed]
    /\ UNCHANGED <<gate, versions, active, tx, readers, flush, flushed, device, writes>>

\* evict_durable_chains with the mutation gate closed: no running transaction
\* has an unregistered snapshot.  The active_snapshots lock is not kept.
StartEvict ==
    /\ gc.kind = "none" /\ CountJob
    /\ \A t \in Txns : tx[t].pc \in {"idle", "over"} \/ tx[t].reg
    /\ gc' = [kind |-> "evict", todo |-> Shards,
              wm |-> IF Pinned # {} /\ Lowest(Pinned) < flushed THEN Lowest(Pinned) ELSE flushed]
    /\ UNCHANGED <<gate, versions, active, tx, readers, flush, flushed, device, writes>>

\* What a chain keeps: from the newest version at or below the watermark on.
Pruned(b) ==
    IF Visible(b, gc.wm) = {} THEN versions[b]
    ELSE {c \in versions[b] : c >= NewestOf(Visible(b, gc.wm))}

\* What eviction leaves: nothing of a chain whose newest version is durable.
Evicted(b) == IF \A c \in versions[b] : c <= gc.wm THEN {} ELSE versions[b]

\* then shard by shard, each under its lock; the last one ends the call.
GcShard(i) ==
    /\ gc.kind # "none" /\ i = Lowest(gc.todo) /\ ShardFree(i)
    /\ versions' = [b \in Blocks |-> IF ShardIndex(b) # i THEN versions[b]
                                     ELSE IF gc.kind = "prune" THEN Pruned(b)
                                     ELSE Evicted(b)]
    /\ gc' = IF gc.todo = {i} THEN NoJob ELSE [gc EXCEPT !.todo = @ \ {i}]
    /\ UNCHANGED <<gate, active, tx, readers, flush, flushed, device, jobs, writes>>

\* flush_to_device_after under the cursor mutex: the snapshot is captured once,
StartFlush ==
    /\ ~ flush.on /\ completed > flushed /\ CountJob
    /\ flush' = [NoFlush EXCEPT !.on = TRUE, !.snap = completed, !.todo = Shards]
    /\ UNCHANGED <<gate, versions, active, tx, readers, gc, flushed, device, writes>>

\* What the flush would write of b: the newest visible version, if it is newer
\* than the cursor.
FlushItem(b) ==
    LET V == Visible(b, flush.snap)
    IN  IF V # {} /\ NewestOf(V) > flushed THEN NewestOf(V) ELSE 0

\* the blocks to write are collected shard by shard,
CollectShard(i) ==
    /\ flush.on /\ flush.todo # {} /\ i = Lowest(flush.todo) /\ ShardFree(i)
    /\ flush' = [flush EXCEPT !.todo = @ \ {i},
                              !.keys = @ \cup {b \in Blocks : ShardIndex(b) = i /\ FlushItem(b) # 0}]
    /\ UNCHANGED <<gate, versions, active, tx, readers, gc, flushed, device, jobs, writes>>

\* each is looked up again, in block order, and skipped when it is gone,
ResolveBlock(b) ==
    /\ flush.on /\ flush.todo = {} /\ flush.keys # {} /\ b = Lowest(flush.keys)
    /\ ShardFree(ShardIndex(b))
    /\ flush' = [flush EXCEPT !.keys = @ \ {b}, !.items[b] = FlushItem(b)]
    /\ UNCHANGED <<gate, versions, active, tx, readers, gc, flushed, device, jobs, writes>>

Flushed == [b \in Blocks |-> IF flush.items[b] # 0 THEN flush.items[b] ELSE device[b]]
FlushReady == flush.on /\ flush.todo = {} /\ flush.keys = {}

\* the run is written without a lock and synced, and only then does the cursor
\* move.  (Blocks are neighbours and make one run.)
FinishFlush ==
    /\ FlushReady
    /\ device' = Flushed
    /\ flushed' = flush.snap
    /\ flush' = NoFlush
    /\ UNCHANGED <<gate, versions, active, tx, readers, gc, jobs, writes>>

\* The write fails, at any point, or the sync after it; the cursor stays.
FailFlush ==
    /\ FlushReady /\ \E b \in Blocks : flush.items[b] # 0
    /\ \E W \in SUBSET Blocks :
          device' = [b \in Blocks |-> IF b \in W THEN Flushed[b] ELSE device[b]]
    /\ flush' = NoFlush
    /\ UNCHANGED <<gate, versions, active, tx, readers, gc, flushed, jobs, writes>>

-----------------------------------------------------------------------------
CommitStep(t) ==
    LockShard(t) \/ Preflight(t) \/ InstallVersions(t) \/ ReturnCommit(t)

GcStep == \E i \in Shards : GcShard(i)

Next ==
    \/ \E t \in Txns :
          \/ Begin(t) \/ BeginRegistered(t)
          \/ \E W \in SUBSET Blocks : StartCommit(t, W)
          \/ CommitStep(t) \/ EndScope(t)
    \/ \E r \in Readers : Register(r) \/ Release(r)
    \/ AdvanceWatermark
    \/ StartPrune \/ StartEvict \/ GcStep
    \/ StartFlush \/ FinishFlush \/ FailFlush
    \/ \E i \in Shards : CollectShard(i)
    \/ \E b \in Blocks : ResolveBlock(b)

Spec == Init /\ [][Next]_vars

\* A committing thread, the gate (whose progress PublishReturns establishes)
\* and a running collection all proceed.
FairSpec ==
    /\ Spec
    /\ \A t \in Txns : SF_vars(LockShard(t)) /\ WF_vars(CommitStep(t))
    /\ WF_vars(AdvanceWatermark)
    /\ SF_vars(GcStep)

-----------------------------------------------------------------------------
\* The state has its shape.
TypeOK ==
    /\ allocated \in Seqs
    /\ installed \in SUBSET (1 .. MaxCommit)
    /\ completed \in Seqs
    /\ versions \in [Blocks -> SUBSET (1 .. MaxCommit)]
    /\ active \in [Seqs -> Nat]
    /\ tx \in [Txns -> [pc : {"idle", "open", "locking", "install", "publish", "over"},
                        snap : Seqs, reg : BOOLEAN, writes : SUBSET Blocks,
                        held : SUBSET Shards, seq : Seqs]]
    /\ readers \in [Readers -> [live : BOOLEAN, snap : Seqs]]
    /\ gc \in [kind : {"none", "prune", "evict"}, wm : Seqs, todo : SUBSET Shards]
    /\ flush \in [on : BOOLEAN, snap : Seqs, todo : SUBSET Shards, keys : SUBSET Blocks,
                  items : [Blocks -> Seqs]]
    /\ flushed \in Seqs
    /\ device \in [Blocks -> Seqs]
    /\ writes \in [Seqs -> SUBSET Blocks]

\* A registered snapshot s is complete: of every block, each commit at or below
\* s is in the chain, or hidden by a later version at or below s, or was
\* dropped by eviction after the device had it.  So a snapshot never sees part
\* of a commit, and neither out-of-order installation nor pruning in parallel
\* takes a version from it.
SnapshotComplete ==
    \A s \in Pinned, b \in Blocks :
        \A c \in 1 .. s : b \in writes[c] =>
            \/ \E v \in versions[b] : c <= v /\ v <= s
            \/ c <= device[b]

\* What a read of b at snapshot s finds: the newest visible version, else the
\* contents of the device.
ReadSeq(b, s) == IF Visible(b, s) = {} THEN device[b] ELSE NewestOf(Visible(b, s))

\* Only a flush can change what a registered snapshot reads: a prune or an
\* eviction that works through the shards while commits install, publish and
\* register never takes away the version it sees.
RegisteredViewStable ==
    [][device' = device =>
          \A s \in Pinned, b \in Blocks : ReadSeq(b, s)' = ReadSeq(b, s)]_vars

\* A version is only ever added at the end of its chain, though commits run in
\* parallel and take their sequences in any order: the position that
\* install_committed_version_locked searches for is always the last one, and the
\* conflict check of the next commit sees the newest version.
AppendsInOrder ==
    [][\A b \in Blocks : \A v \in versions'[b] \ versions[b] :
          \A w \in versions[b] : w < v]_vars

\* Every commit that starts returns: sorted shard locks and the gate never
\* block it for good.
CommitReturns == \A t \in Txns : tx[t].pc = "locking" ~> tx[t].pc = "over"

\* flush_to_device_after returns "the snapshot through which the device is
\* durable": of every block, the device holds each commit up to the cursor or a
\* later one.
FlushDurable ==
    \A b \in Blocks : \A c \in 1 .. flushed : b \in writes[c] => c <= device[b]
=============================================================================
