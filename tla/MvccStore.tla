------------------------------ MODULE MvccStore ------------------------------
(***************************************************************************)
(* The single-lock multi-version block store of ffs-mvcc (MvccStore in     *)
(* store.rs, Transaction in lib.rs), the base device below it, and the     *)
(* read-modify-write path of FsMvccBlockDevice above it.                   *)
(*                                                                         *)
(* Every operation runs under the caller's RwLock, so one operation is one *)
(* action.  A commit is the exception: its preflight walks the write set   *)
(* block by block, changes the snapshot table on the way, and can fail     *)
(* after it has done so; and a journaled commit does journal I/O between   *)
(* its preflight and its install.  Both hold the lock throughout.  The     *)
(* variable lock says who holds it and how far the commit has come; all    *)
(* other store operations wait for it.                                     *)
(*                                                                         *)
(* The contents of a block is a function from Slots (byte ranges) to the   *)
(* transaction that wrote the slot last, so that a lost, duplicated or     *)
(* misplaced write shows in the value.                                     *)
(***************************************************************************)
EXTENDS Naturals, Sequences, FiniteSets

CONSTANTS
    Txns,        \* transactions
    Readers,     \* snapshot-holding block devices (MvccBlockDevice::new)
    NumBlocks,   \* blocks are 1..NumBlocks, locked and written in this order
    Slots,       \* independently written ranges of one block
    MaxCommit,   \* bound: commit sequences are 1..MaxCommit
    MaxStage,    \* bound: stage calls of one transaction
    MaxGc,       \* bound: flush, prune and evict calls, failed flushes included
    Cap,         \* CompressionPolicy::max_chain_length, 0 for None
    CriticalFactor, \* chain length in caps that makes a chain critical: 4
    Policies,    \* what effective_policy() may return: Adaptive may return both
    Modes,       \* commit entry points in use: "fcw", "journaled"
    NoTxn,       \* the writer of the initial contents
    None,        \* Option::None
    Identical,   \* VersionData::Identical
    Unsafe       \* MergeProof::Unsafe; other proofs are their touched ranges

ASSUME ConstantsAssumption ==
    /\ NumBlocks \in Nat \ {0}
    /\ MaxCommit \in Nat \ {0}
    /\ MaxStage \in Nat
    /\ MaxGc \in Nat
    /\ Cap \in Nat
    /\ CriticalFactor \in Nat \ {0, 1}
    /\ Policies \subseteq {"Strict", "SafeMerge"}
    /\ Modes \subseteq {"fcw", "journaled"}
    /\ NoTxn \notin Txns
    /\ IsFiniteSet(Txns) /\ IsFiniteSet(Readers)
    /\ \A d \in [Slots -> Txns \cup {NoTxn}] : d # None /\ d # Identical
    /\ None # Identical
    /\ \A S \in SUBSET Slots : S # Unsafe

VARIABLES
    nextCommit,  \* MvccStore::next_commit
    versions,    \* versions[b]: the retained chain of b, as a set
    active,      \* active_snapshots: reference count per commit sequence
    forced,      \* force_advanced_releases: count per commit sequence
    tx,          \* the transactions
    readers,     \* the snapshot holders
    lock,        \* the commit holding the store's write lock
    device,      \* the base device: contents and the sequence they come from
    flushed,     \* mvcc_flushed_through
    gcCount,     \* flush, prune and evict calls so far
    log          \* history: what was committed, log[c] at sequence c

vars == <<nextCommit, versions, active, forced, tx, readers, lock,
          device, flushed, gcCount, log>>

Blocks == 1 .. NumBlocks
Seqs == 0 .. MaxCommit
Data == [Slots -> Txns \cup {NoTxn}]

InitialData == [x \in Slots |-> NoTxn]
Patch(d, S, t) == [x \in Slots |-> IF x \in S THEN t ELSE d[x]]

Version == [seq : Seqs, writer : Txns, data : {Identical} \cup Data]
Staged == [data : Data, slots : SUBSET Slots,
           proof : {Unsafe} \cup SUBSET Slots, base : {None} \cup Data]
Fallback == [step : {"none", "probed"}, block : Blocks, data : {None}]
                \cup [step : {"read"}, block : Blocks, data : Data]
Transaction == [st : {"idle", "active", "committed", "failed"}, snap : Seqs,
                reg : BOOLEAN, staged : [Blocks -> {None} \cup Staged],
                stages : 0 .. MaxStage, fb : Fallback]
Record == [txn : Txns, blocks : SUBSET Blocks, slots : [Blocks -> SUBSET Slots]]
NoFallback == [step |-> "none", block |-> 1, data |-> None]
Unlocked == [holder |-> NoTxn, mode |-> "fcw", phase |-> "free",
             policy |-> "SafeMerge", todo |-> {}]

-----------------------------------------------------------------------------
(* Version chains *)

Newest(V) == CHOOSE v \in V : \A w \in V : w.seq <= v.seq
VisibleAt(V, s) == {v \in V : v.seq <= s}

\* resolve_data_with: an Identical version has the bytes of the newest older
\* version that stores some; None when the walk runs off the chain.
Resolve(V, v) ==
    LET full == {w \in V : w.seq <= v.seq /\ w.data # Identical}
    IN  IF full = {} THEN None ELSE Newest(full).data

\* read_visible and version_bytes_at
ReadVisible(V, s) ==
    IF VisibleAt(V, s) = {} THEN None ELSE Resolve(V, Newest(VisibleAt(V, s)))

LatestSeq(V) == IF V = {} THEN 0 ELSE Newest(V).seq

\* The loop shared by trim_block_chain_to_cap and prune_versions_older_than:
\* advance the head while the next version is at or below the watermark and,
\* for the cap, while more than keep versions remain.
Keepers(V, keep, wm) ==
    {w \in V : w.seq <= wm /\ Cardinality({u \in V : u.seq >= w.seq}) >= keep}

\* Mutant of DropBefore: the drain without make_chain_head_full
DropBeforeRaw(V, head) == {w \in V : w.seq >= head.seq}

\* make_chain_head_full, then drain(0..keep_from)
DropBefore(V, head) ==
    {[v EXCEPT !.data = IF v = head THEN Resolve(V, head) ELSE v.data] :
        v \in {w \in V : w.seq >= head.seq}}

TrimChain(V, keep, wm) ==
    IF Keepers(V, keep, wm) = {} THEN V
    ELSE DropBefore(V, Newest(Keepers(V, keep, wm)))

-----------------------------------------------------------------------------
(* Snapshots *)

CurrentSnapshot == nextCommit - 1
ActiveSeqs(a) == {s \in Seqs : a[s] > 0}
MinSeq(S) == CHOOSE s \in S : \A r \in S : s <= r

\* Mutant of WatermarkOr: the registered snapshots are not asked.
WatermarkIgnored(a, current) == current

\* watermark().unwrap_or(current), where the caller passes current
WatermarkOr(a, current) ==
    IF ActiveSeqs(a) = {} THEN current ELSE MinSeq(ActiveSeqs(a))

\* register_snapshot
Registered(s) == [active EXCEPT ![s] = @ + 1]

\* release_snapshot: an active reference first, else a force-advanced one;
\* neither is the ref_count_underflow case, which changes nothing.
ReleaseSnapshot(s) ==
    IF active[s] > 0
    THEN /\ active' = [active EXCEPT ![s] = @ - 1]
         /\ UNCHANGED forced
    ELSE /\ forced' = IF forced[s] > 0 THEN [forced EXCEPT ![s] = @ - 1] ELSE forced
         /\ UNCHANGED active

-----------------------------------------------------------------------------
(* Merge proofs: the range-overlay family over block contents.  Contents    *)
(* have one length, except that a missing base is an empty buffer.          *)

MergeValid(proof, base, latest, staged) ==
    /\ proof # Unsafe
    /\ base # None /\ latest # None
    /\ \A x \in Slots : IF x \in proof THEN latest[x] = base[x] ELSE staged[x] = base[x]

MergeBytes(proof, latest, staged) ==
    [x \in Slots |-> IF x \in proof THEN staged[x] ELSE latest[x]]

Conflicts(t, b) == LatestSeq(versions[b]) > tx[t].snap

\* The base preflight and resolved_writes_for_commit merge against: the chain
\* at the snapshot, or else the bytes kept when the write was staged.
PreflightBase(t, b) ==
    LET chain == ReadVisible(versions[b], tx[t].snap)
    IN  IF chain # None THEN chain ELSE tx[t].staged[b].base

\* The base apply_fcw_commit and merged_writes_after_preflight merge against.
ApplyBase(t, b) == ReadVisible(versions[b], tx[t].snap)

Resolves(t, b, base, policy) ==
    Conflicts(t, b) =>
        /\ policy # "Strict"
        /\ MergeValid(tx[t].staged[b].proof, base,
                      ReadVisible(versions[b], LatestSeq(versions[b])),
                      tx[t].staged[b].data)

ResolvedBytes(t, b) ==
    IF Conflicts(t, b)
    THEN MergeBytes(tx[t].staged[b].proof,
                    ReadVisible(versions[b], LatestSeq(versions[b])),
                    tx[t].staged[b].data)
    ELSE tx[t].staged[b].data

-----------------------------------------------------------------------------
Init ==
    /\ nextCommit = 1
    /\ versions = [b \in Blocks |-> {}]
    /\ active = [s \in Seqs |-> 0]
    /\ forced = [s \in Seqs |-> 0]
    /\ tx = [t \in Txns |-> [st |-> "idle", snap |-> 0, reg |-> FALSE,
                             staged |-> [b \in Blocks |-> None], stages |-> 0,
                             fb |-> NoFallback]]
    /\ readers = [r \in Readers |-> [st |-> "idle", snap |-> 0]]
    /\ lock = Unlocked
    /\ device = [b \in Blocks |-> [data |-> InitialData, seq |-> 0]]
    /\ flushed = 0
    /\ gcCount = 0
    /\ log = <<>>

Free == lock.phase = "free"
Running(t) == tx[t].st = "active" /\ lock.holder # t
WriteSet(t) == {b \in Blocks : tx[t].staged[b] # None}

-----------------------------------------------------------------------------
(* Transactions *)

\* begin: the snapshot is not registered.
Begin(t) ==
    /\ Free /\ tx[t].st = "idle"
    /\ tx' = [tx EXCEPT ![t].st = "active", ![t].snap = CurrentSnapshot]
    /\ UNCHANGED <<nextCommit, versions, active, forced, readers, lock,
                   device, flushed, gcCount, log>>

\* FsMvccStore::begin_registered: begin and register under one lock.
BeginRegistered(t) ==
    /\ Free /\ tx[t].st = "idle"
    /\ tx' = [tx EXCEPT ![t].st = "active", ![t].snap = CurrentSnapshot, ![t].reg = TRUE]
    /\ active' = Registered(CurrentSnapshot)
    /\ UNCHANGED <<nextCommit, versions, forced, readers, lock, device,
                   flushed, gcCount, log>>

\* insert_staged_write on a block staged before: range proofs are joined and
\* the first base kept; Unsafe drops the proof and the base.
Restage(old, S, proof, t) ==
    [data  |-> Patch(old.data, S, t),
     slots |-> old.slots \cup S,
     proof |-> IF proof = Unsafe \/ old.proof = Unsafe THEN proof ELSE old.proof \cup proof,
     base  |-> IF proof = Unsafe THEN None ELSE old.base]

FirstStage(ancestor, S, proof, t) ==
    [data |-> Patch(ancestor, S, t), slots |-> S, proof |-> proof, base |-> ancestor]

\* Put staged write w of block b into t's write set and end any fallback read.
StageInto(t, b, w) ==
    tx' = [tx EXCEPT ![t].staged[b] = w, ![t].stages = @ + 1, ![t].fb = NoFallback]

\* rmw_block stages under IndependentKeys for the patched ranges, and under
\* Unsafe when it has no ranges to declare.
ProofFor(S) == IF S = {} THEN {Unsafe} ELSE {Unsafe, S}

\* rmw_block and rmw_with_proof when the ancestor is already staged or is in
\* the overlay at the transaction's snapshot.
StageWrite(t, b, S, proof) ==
    /\ Free /\ Running(t) /\ tx[t].stages < MaxStage /\ tx[t].fb.step = "none"
    /\ LET ancestor == ReadVisible(versions[b], tx[t].snap)
       IN  \/ /\ b \in WriteSet(t)
              /\ StageInto(t, b, Restage(tx[t].staged[b], S, proof, t))
           \/ /\ b \notin WriteSet(t) /\ ancestor # None
              /\ StageInto(t, b, FirstStage(ancestor, S, proof, t))
    /\ UNCHANGED <<nextCommit, versions, active, forced, readers, lock,
                   device, flushed, gcCount, log>>

\* write_block: the whole block, no ancestor, MergeProof::Unsafe.
StageBlind(t, b) ==
    /\ Running(t) /\ tx[t].stages < MaxStage /\ tx[t].fb.step = "none"
    /\ StageInto(t, b, [data |-> Patch(InitialData, Slots, t), slots |-> Slots,
                        proof |-> Unsafe, base |-> None])
    /\ UNCHANGED <<nextCommit, versions, active, forced, readers, lock,
                   device, flushed, gcCount, log>>

Doomed(t) == tx' = [tx EXCEPT ![t].st = "failed", ![t].fb = NoFallback]

\* read_unversioned_base_at_snapshot, before the device read: no version is
\* visible, and a newer one makes the ancestor ambiguous.
FallbackProbe(t, b) ==
    /\ Free /\ Running(t) /\ tx[t].stages < MaxStage /\ tx[t].fb.step = "none"
    /\ b \notin WriteSet(t)
    /\ ReadVisible(versions[b], tx[t].snap) = None
    /\ IF Conflicts(t, b)
       THEN Doomed(t)
       ELSE tx' = [tx EXCEPT ![t].fb = [step |-> "probed", block |-> b, data |-> None]]
    /\ UNCHANGED <<nextCommit, versions, active, forced, readers, lock,
                   device, flushed, gcCount, log>>

\* The device read; it holds no lock.
FallbackRead(t) ==
    /\ Running(t) /\ tx[t].fb.step = "probed"
    /\ tx' = [tx EXCEPT ![t].fb.step = "read", ![t].fb.data = device[tx[t].fb.block].data]
    /\ UNCHANGED <<nextCommit, versions, active, forced, readers, lock,
                   device, flushed, gcCount, log>>

\* Mutant of FallbackStage: no second check after the device read
FallbackStageUnchecked(t, S, proof) ==
    /\ Free /\ Running(t) /\ tx[t].stages < MaxStage /\ tx[t].fb.step = "read"
    /\ StageInto(t, tx[t].fb.block, FirstStage(tx[t].fb.data, S, proof, t))
    /\ UNCHANGED <<nextCommit, versions, active, forced, readers, lock,
                   device, flushed, gcCount, log>>

\* The check after the device read, and the staging that follows it.
FallbackStage(t, S, proof) ==
    /\ Free /\ Running(t) /\ tx[t].stages < MaxStage /\ tx[t].fb.step = "read"
    /\ LET b == tx[t].fb.block
       IN  IF Conflicts(t, b)
           THEN Doomed(t)
           ELSE StageInto(t, b, FirstStage(tx[t].fb.data, S, proof, t))
    /\ UNCHANGED <<nextCommit, versions, active, forced, readers, lock,
                   device, flushed, gcCount, log>>

\* abort, or dropping the transaction
Abort(t) ==
    /\ Free /\ Running(t)
    /\ Doomed(t)
    /\ UNCHANGED <<nextCommit, versions, active, forced, readers, lock,
                   device, flushed, gcCount, log>>

\* end_request_scope: the pin outlives the transaction and is released last.
EndScope(t) ==
    /\ Free /\ tx[t].st \in {"committed", "failed"} /\ tx[t].reg
    /\ ReleaseSnapshot(tx[t].snap)
    /\ tx' = [tx EXCEPT ![t].reg = FALSE]
    /\ UNCHANGED <<nextCommit, versions, readers, lock, device, flushed,
                   gcCount, log>>

-----------------------------------------------------------------------------
(* Commit *)

\* commit and commit_transaction_journaled take the write lock;
\* preflight_fcw samples the effective policy once.
LockCommit(t, mode, policy) ==
    /\ Free /\ Running(t) /\ tx[t].fb.step = "none"
    /\ nextCommit <= MaxCommit
    /\ lock' = [holder |-> t, mode |-> mode, phase |-> "preflight", policy |-> policy,
                todo |-> WriteSet(t)]
    /\ UNCHANGED <<nextCommit, versions, active, forced, tx, readers,
                   device, flushed, gcCount, log>>

\* A commit that returns an error consumes the transaction.
FailCommit(t) ==
    /\ lock' = Unlocked
    /\ tx' = [tx EXCEPT ![t].st = "failed"]

TrimBlocked(b, wm) ==
    LET V == versions[b]
    IN  /\ Cardinality(V) > 1
        /\ \A v \in V : v.seq > wm \/ v.seq = MinSeq({w.seq : w \in V})

\* critical_chain_len: max_len * CriticalFactor, which is at least max_len + 1
CriticalLen == CriticalFactor * Cap

\* enforce_chain_pressure: a critically long chain that the oldest snapshot
\* keeps from being trimmed costs that snapshot one reference.
Pressured(b) ==
    /\ Cap > 0 /\ Cardinality(versions[b]) >= CriticalLen
    /\ TrimBlocked(b, WatermarkOr(active, CurrentSnapshot))

\* Mutant of ForcedReleases: the forced release is not remembered.
ForcedReleasesForgotten == forced

\* force_advance_oldest_snapshot
ForcedActive ==
    IF ActiveSeqs(active) = {} THEN active
    ELSE [active EXCEPT ![MinSeq(ActiveSeqs(active))] = @ - 1]
ForcedReleases ==
    IF ActiveSeqs(active) = {} THEN forced
    ELSE [forced EXCEPT ![MinSeq(ActiveSeqs(active))] = @ + 1]

\* One turn of preflight_fcw's loop, in block order.
PreflightBlock(t) ==
    /\ lock.phase = "preflight" /\ lock.holder = t /\ lock.todo # {}
    /\ LET b == MinSeq(lock.todo)
           next == [lock EXCEPT !.todo = @ \ {b}]
       IN  \/ /\ ~ Resolves(t, b, PreflightBase(t, b), lock.policy)
              /\ FailCommit(t)
              /\ UNCHANGED <<active, forced>>
           \/ /\ Resolves(t, b, PreflightBase(t, b), lock.policy)
              /\ ~ Pressured(b)
              /\ lock' = next
              /\ UNCHANGED <<active, forced, tx>>
           \/ /\ Resolves(t, b, PreflightBase(t, b), lock.policy)
              /\ Pressured(b)
              /\ active' = ForcedActive
              /\ forced' = ForcedReleases
              /\ IF TrimBlocked(b, WatermarkOr(ForcedActive, CurrentSnapshot))
                 THEN FailCommit(t)
                 ELSE lock' = next /\ UNCHANGED tx
    /\ UNCHANGED <<nextCommit, versions, readers, device, flushed, gcCount, log>>

\* install_committed versions: push, dedup against the latest, enforce the cap.
InstalledChain(t, b, seq) ==
    LET V == versions[b]
        bytes == ResolvedBytes(t, b)
        same == V # {} /\ Resolve(V, Newest(V)) = bytes
        pushed == V \cup {[seq |-> seq, writer |-> t,
                           data |-> IF same THEN Identical ELSE bytes]}
    IN  IF Cap = 0 THEN pushed
        ELSE TrimChain(pushed, Cap, WatermarkOr(active, seq))

LogRecord(t) ==
    [txn |-> t, blocks |-> WriteSet(t),
     slots |-> [b \in Blocks |-> IF b \in WriteSet(t) THEN tx[t].staged[b].slots ELSE {}]]

\* Mutant of Install: the sequence is used and not advanced.
InstallSameSeq(t) ==
    /\ UNCHANGED nextCommit
    /\ versions' = [b \in Blocks |-> IF b \in WriteSet(t)
                                     THEN InstalledChain(t, b, nextCommit)
                                     ELSE versions[b]]
    /\ log' = Append(log, LogRecord(t))
    /\ tx' = [tx EXCEPT ![t].st = "committed"]
    /\ lock' = Unlocked

\* Everything after a clean preflight that makes the writes visible.
Install(t) ==
    /\ nextCommit' = nextCommit + 1
    /\ versions' = [b \in Blocks |-> IF b \in WriteSet(t)
                                     THEN InstalledChain(t, b, nextCommit)
                                     ELSE versions[b]]
    /\ log' = Append(log, LogRecord(t))
    /\ tx' = [tx EXCEPT ![t].st = "committed"]
    /\ lock' = Unlocked

\* apply_fcw_commit: resolve again, with the effective policy sampled again,
\* then install or fail.
ApplyCommit(t, policy) ==
    /\ lock.holder = t
    /\ \/ lock.phase = "preflight" /\ lock.todo = {} /\ lock.mode # "journaled"
       \/ lock.phase = "journaled"
    /\ IF \A b \in WriteSet(t) : Resolves(t, b, ApplyBase(t, b), policy)
       THEN Install(t)
       ELSE FailCommit(t) /\ UNCHANGED <<nextCommit, versions, log>>
    /\ UNCHANGED <<active, forced, readers, device, flushed, gcCount>>

\* commit_transaction_journaled between preflight and visibility: resolve the
\* writes, with the policy sampled again, write them to the journal and sync.
JournalWrite(t, policy) ==
    /\ lock.holder = t /\ lock.phase = "preflight" /\ lock.todo = {}
    /\ lock.mode = "journaled"
    /\ \/ /\ \A b \in WriteSet(t) : Resolves(t, b, PreflightBase(t, b), policy)
          /\ lock' = [lock EXCEPT !.phase = "journaled"]
          /\ UNCHANGED tx
       \/ /\ ~ \A b \in WriteSet(t) : Resolves(t, b, PreflightBase(t, b), policy)
          /\ FailCommit(t)
    /\ UNCHANGED <<nextCommit, versions, active, forced, readers, device, flushed,
                   gcCount, log>>

\* The journal write or its sync fails: nothing becomes visible.
JournalFail(t) ==
    /\ lock.holder = t /\ lock.phase = "preflight" /\ lock.todo = {}
    /\ lock.mode = "journaled"
    /\ FailCommit(t)
    /\ UNCHANGED <<nextCommit, versions, active, forced, readers, device, flushed,
                   gcCount, log>>

-----------------------------------------------------------------------------
(* Snapshot holders, garbage collection, flush *)

\* FsMvccStore::register_current_snapshot
Register(r) ==
    /\ Free /\ readers[r].st = "idle"
    /\ readers' = [readers EXCEPT ![r] = [st |-> "live", snap |-> CurrentSnapshot]]
    /\ active' = Registered(CurrentSnapshot)
    /\ UNCHANGED <<nextCommit, versions, forced, tx, lock, device, flushed,
                   gcCount, log>>

\* Drop of a registered device, or the end of a pinned read scope
Release(r) ==
    /\ Free /\ readers[r].st = "live"
    /\ readers' = [readers EXCEPT ![r].st = "done"]
    /\ ReleaseSnapshot(readers[r].snap)
    /\ UNCHANGED <<nextCommit, versions, tx, lock, device, flushed, gcCount, log>>

CountGc ==
    /\ gcCount < MaxGc
    /\ gcCount' = gcCount + 1

\* prune_safe
PruneSafe ==
    /\ Free /\ CountGc
    /\ versions' = [b \in Blocks |->
                       TrimChain(versions[b], 0, WatermarkOr(active, CurrentSnapshot))]
    /\ UNCHANGED <<nextCommit, active, forced, tx, readers, lock, device,
                   flushed, log>>

UnregisteredRunning == \E t \in Txns : tx[t].st = "active" /\ ~ tx[t].reg

\* Mutant of EvictBound: every durable chain is evicted.
EvictBoundDurable == flushed

EvictBound ==
    LET wm == WatermarkOr(active, flushed) IN IF wm <= flushed THEN wm ELSE flushed

\* evict_durable_chains, called by ffs-core with the mutation gate closed: no
\* running transaction holds an unregistered snapshot.
EvictDurable ==
    /\ Free /\ CountGc
    /\ ~ UnregisteredRunning
    /\ versions' = [b \in Blocks |-> IF LatestSeq(versions[b]) <= EvictBound
                                     THEN {} ELSE versions[b]]
    /\ UNCHANGED <<nextCommit, active, forced, tx, readers, lock, device,
                   flushed, log>>

FlushedBlock(b) ==
    LET V == versions[b]
    IN  IF /\ LatestSeq(V) > flushed
           /\ ReadVisible(V, CurrentSnapshot) # None
        THEN [data |-> ReadVisible(V, CurrentSnapshot), seq |-> LatestSeq(V)]
        ELSE device[b]

\* flush_mvcc_versions_to_device: every block newer than the cursor, in block
\* order, then sync, then the cursor.
Flush ==
    /\ Free /\ CountGc /\ CurrentSnapshot > flushed
    /\ device' = [b \in Blocks |-> FlushedBlock(b)]
    /\ flushed' = CurrentSnapshot
    /\ UNCHANGED <<nextCommit, versions, active, forced, tx, readers, lock, log>>

\* Mutant of FlushFail: the cursor moves although the flush failed.
FlushFailMoves(last) ==
    /\ Free /\ CountGc /\ CurrentSnapshot > flushed
    /\ device' = [b \in Blocks |-> IF b <= last THEN FlushedBlock(b) ELSE device[b]]
    /\ flushed' = CurrentSnapshot
    /\ UNCHANGED <<nextCommit, versions, active, forced, tx, readers, lock, log>>

\* A device error after the blocks up to last: the cursor stays.
FlushFail(last) ==
    /\ Free /\ CountGc /\ CurrentSnapshot > flushed
    /\ device' = [b \in Blocks |-> IF b <= last THEN FlushedBlock(b) ELSE device[b]]
    /\ UNCHANGED <<nextCommit, versions, active, forced, tx, readers, lock,
                   flushed, log>>

-----------------------------------------------------------------------------
TxnStep(t) ==
    \/ Begin(t)
    \/ BeginRegistered(t)
    \/ \E b \in Blocks : StageBlind(t, b) \/ FallbackProbe(t, b)
    \/ \E S \in SUBSET Slots : \E proof \in ProofFor(S) :
          \/ FallbackStage(t, S, proof)
          \/ \E b \in Blocks : StageWrite(t, b, S, proof)
    \/ FallbackRead(t)
    \/ Abort(t)
    \/ EndScope(t)

CommitStep(t) ==
    \/ \E mode \in Modes, policy \in Policies : LockCommit(t, mode, policy)
    \/ PreflightBlock(t)
    \/ \E policy \in Policies : ApplyCommit(t, policy) \/ JournalWrite(t, policy)
    \/ JournalFail(t)

GcStep ==
    \/ PruneSafe
    \/ EvictDurable
    \/ Flush
    \/ \E last \in Blocks : FlushFail(last)

Next ==
    \/ \E t \in Txns : TxnStep(t) \/ CommitStep(t)
    \/ \E r \in Readers : Register(r) \/ Release(r)
    \/ GcStep

Spec == Init /\ [][Next]_vars

-----------------------------------------------------------------------------
(* Properties *)

\* The state has its shape, and every commit is in the history at its sequence.
TypeOK ==
    /\ nextCommit \in 1 .. MaxCommit + 1
    /\ versions \in [Blocks -> SUBSET Version]
    /\ active \in [Seqs -> Nat]
    /\ forced \in [Seqs -> Nat]
    /\ tx \in [Txns -> Transaction]
    /\ readers \in [Readers -> [st : {"idle", "live", "done"}, snap : Seqs]]
    /\ lock \in [holder : Txns \cup {NoTxn}, mode : {"fcw", "journaled"},
                 phase : {"free", "preflight", "journaled"},
                 policy : {"Strict", "SafeMerge"}, todo : SUBSET Blocks]
    /\ device \in [Blocks -> [data : Data, seq : Seqs]]
    /\ flushed \in Seqs
    /\ log \in Seq(Record) /\ Len(log) = nextCommit - 1

\* Commits that wrote block b, up to sequence s
WritesUpTo(b, s) == {c \in 1 .. Len(log) : c <= s /\ b \in log[c].blocks}
MaxOf(S) == CHOOSE c \in S : \A d \in S : d <= c

\* What block b must contain at sequence s: every slot as its last writer left it.
Truth(b, s) ==
    [x \in Slots |->
        LET W == {c \in WritesUpTo(b, s) : x \in log[c].slots[b]}
        IN  IF W = {} THEN NoTxn ELSE log[MaxOf(W)].txn]

\* No committed write is lost, duplicated or applied to the wrong state: every
\* retained version resolves to the contents that all commits up to it leave,
\* through first-committer-wins, merging, restaging, dedup and trimming.
VersionsExact ==
    \A b \in Blocks : \A v \in versions[b] : Resolve(versions[b], v) = Truth(b, v.seq)

\* Every registered holder is counted once, as active or as force-advanced, so
\* its release always finds a reference (no ref_count_underflow).
RefcountBalance ==
    \A s \in Seqs :
        active[s] + forced[s] =
            Cardinality({r \in Readers : readers[r].st = "live" /\ readers[r].snap = s})
            + Cardinality({t \in Txns : tx[t].reg /\ tx[t].snap = s})

\* The merge base kept with a staged write is the contents of the block at the
\* transaction's snapshot, never a later one read from the device.
AncestorAtSnapshot ==
    \A t \in Txns : tx[t].st = "active" =>
        \A b \in WriteSet(t) :
            tx[t].staged[b].base # None => tx[t].staged[b].base = Truth(b, tx[t].snap)

\* The device is exact and complete up to the cursor: it holds the contents of
\* the block at one sequence, and no write at or below mvcc_flushed_through is
\* newer than that, also when a flush fails halfway and is tried again.
FlushExact ==
    \A b \in Blocks :
        /\ device[b].data = Truth(b, device[b].seq)
        /\ \A c \in WritesUpTo(b, flushed) : c <= device[b].seq

\* What a read of block b at snapshot s returns: the overlay, else the device.
ReadBlock(b, s) ==
    LET overlay == ReadVisible(versions[b], s)
    IN  IF overlay = None THEN device[b].data ELSE overlay

\* GC-SAFE (specification 5.6.4) and more: only a flush can change what an
\* active snapshot reads.  Neither a later commit, nor dedup, nor trimming to the
\* cap, nor prune_safe, nor the eviction of a durable chain does.
ActiveViewStable ==
    [][device' = device =>
          \A s \in ActiveSeqs(active), b \in Blocks : ReadBlock(b, s)' = ReadBlock(b, s)]_vars

\* A pinned reader keeps one view (fs_ops.rs: "Writable readers must retain one
\* view across all block accesses"): while its snapshot is active, every block
\* reads as it was at that snapshot.
PinnedViewStable ==
    \A r \in Readers : readers[r].st = "live" /\ active[readers[r].snap] > 0 =>
        \A b \in Blocks : ReadBlock(b, readers[r].snap) = Truth(b, readers[r].snap)

\* A commit that passed preflight and whose journal record is durable becomes
\* visible: commit_fcw_prechecked makes no second conflict check.
JournaledCommitInstalls ==
    [][\A t \in Txns :
          (lock.phase = "journaled" /\ lock.holder = t /\ lock'.phase = "free")
              => tx'[t].st = "committed"]_vars

=============================================================================
