---------------------------- MODULE MutationGate ----------------------------
(***************************************************************************)
(* Requests, the mutation gate and the durability boundary of ffs-core,    *)
(* with the writeback batch of ffs-fuse in front of them.                  *)
(*                                                                         *)
(* A thread runs one request at a time.  What is left of it is a sequence  *)
(* of labels, th[t].todo: each label is one critical section or one atomic *)
(* access of the code, and a call puts the labels of its callee in front.  *)
(* A commit to the store is one element of commits, the set of operations  *)
(* it carries; a commit sequence is a position in commits.                 *)
(***************************************************************************)
EXTENDS Integers, Sequences, FiniteSetsExt

CONSTANTS
    Workers,        \* FUSE worker threads, numbers
    Ticker,         \* the thread that runs periodic_commit
    Files,          \* inodes that batched writes go to
    None,           \* no owner, no snapshot, no batch
    PressureLimit,  \* jbd2_pressure_limit, in commits
    MaxStaged,      \* max_staged_writes
    Workloads,      \* bound: the sequences of requests that may arrive
    MaxFailures     \* bound: calls that fail

ASSUME MutationAssumption ==
    /\ IsFiniteSet(Workers)
    /\ None \notin Workers \cup {Ticker} \cup Files \cup Nat
    /\ None \notin [file : Files \cup {None}, ops : SUBSET Nat, snap : Nat \cup {None}]
    /\ \A w \in Workloads : w \in Seq({"mutate", "finalize", "stage", "fsync", "tick"})
    /\ MaxFailures \in Nat

VARIABLES
    journaled,      \* a JBD2 writer is attached
    th,             \* what each thread holds and has left to do
    inFlight,       \* MutationGateState.in_flight
    closing,        \* MutationGateState.closing
    asleep,         \* threads waiting on mutation_gate_cv
    cursor,         \* mvcc_flushed_through and the thread that holds its mutex
    commits,        \* the store: what each commit installed
    durable,        \* the commits that are on the device
    evicted,        \* chains up to this commit may be gone from the store
    atBoundary,     \* jbd2_block_writes_at_boundary
    mutationEpoch,  \* mutation_epoch, with the store's head at its last increment
    committedEpoch, \* committed_mutation_epoch, with the same
    slot,           \* WritebackBatch.state: the outstanding batch
    slotOwner,      \* the thread that holds its mutex
    acked,          \* operations whose caller was told they succeeded
    lost,           \* staged operations whose batch failed or was abandoned
    workload,       \* the requests that arrive, in this order
    requests,       \* how many have arrived
    failures        \* how many calls have failed

gate == <<inFlight, closing, asleep>>
store == <<commits, durable, evicted, atBoundary>>
epoch == <<mutationEpoch, committedEpoch>>
writeback == <<slot, slotOwner>>
bounds == <<workload, requests, failures>>
vars == <<journaled, th, gate, cursor, store, epoch, writeback, acked, lost, bounds>>

Threads == Workers \cup {Ticker}
Kinds == {"mutate", "finalize", "stage", "fsync", "tick"}

NoEpoch == [count |-> 0, head |-> 0]

\* A thread between requests.
Idle ==
    [todo |-> <<>>, kind |-> "tick", op |-> 0, file |-> None, depth |-> 0,
     reg |-> None, snap |-> None, batch |-> None, cap |-> 0, seen |-> NoEpoch,
     need |-> {}, err |-> FALSE, failed |-> FALSE]

Init ==
    /\ journaled \in BOOLEAN
    /\ th = [t \in Threads |-> Idle]
    /\ inFlight = 0 /\ closing = 0 /\ asleep = {}
    /\ cursor = [through |-> 0, owner |-> None]
    /\ commits = <<>> /\ durable = 0 /\ evicted = 0 /\ atBoundary = 0
    /\ mutationEpoch = NoEpoch /\ committedEpoch = NoEpoch
    /\ slot = None /\ slotOwner = None
    /\ acked = {} /\ lost = {}
    /\ workload \in Workloads /\ requests = 0 /\ failures = 0

(***************************************************************************)
(* Programs                                                                *)
(***************************************************************************)

\* mutation_gate_guard around a mutation: the drop counts it, then leaves.
Guarded(body) == <<"enter">> \o body \o <<"bump", "leave">>

\* ext4_flush_boundary_via_jbd2 under the cursor mutex, or the direct flush
\* followed by evict_durable_mvcc_chains_quiesced.
Boundary ==
    IF journaled
    THEN <<"lock", "close", "capture", "journal", "unlock">>
    ELSE <<"lock", "flush", "unlock">>

\* Mutant of EvictQuiesced: the gate is left open.
EvictUnquiesced == <<"evict_direct">>

\* evict_durable_mvcc_chains_quiesced.
EvictQuiesced == <<"close", "evict_direct">>

\* A gated FUSE request (create, setattr, ...), a finalize of an orphan outside
\* any request, a batched WRITE, an FSYNC and a periodic commit.
Program(kind) ==
    CASE kind = "mutate" ->
           <<"observe", "enter", "begin", "eager_commit", "commit_scope",
             "release", "leave", "bump", "pressure", "reply">>
      [] kind = "finalize" ->
           Guarded(<<"eager_begin", "eager_commit">>) \o <<"reply">>
      [] kind = "stage" -> <<"stage_check", "stage_lock", "reply">>
      [] kind = "fsync" ->
           <<"observe", "begin">> \o Boundary
             \o <<"release", "bump", "pressure", "reply">>
      [] kind = "tick" -> <<"tick_load", "tick_check", "reply">>

At(t, label) == th[t].todo # <<>> /\ Head(th[t].todo) = label

\* Thread t finishes its label with the locals of me and calls callee.
Call(t, callee, me) ==
    th' = [th EXCEPT ![t] = [me EXCEPT !.todo = callee \o Tail(th[t].todo)]]

Done(t) == Call(t, <<>>, th[t])

\* The timer fires, or an idle worker takes a request from the kernel.  Idle
\* workers are alike, so the first one takes it.
Start(t, kind) ==
    /\ th[t].todo = <<>>
    /\ requests < Len(workload) /\ kind = workload[requests + 1]
    /\ kind = "tick" <=> t = Ticker
    /\ t # Ticker => \A u \in Workers : u < t => th[u].todo # <<>>
    /\ requests' = requests + 1
    /\ \E f \in IF kind = "stage" THEN Files ELSE {None} :
         th' = [th EXCEPT ![t] = [Idle EXCEPT !.todo = Program(kind), !.kind = kind,
                                              !.file = f, !.op = requests']]
    /\ UNCHANGED <<journaled, gate, cursor, store, epoch, writeback, acked, lost, workload, failures>>

\* The caller gets its answer.
Reply(t) ==
    /\ At(t, "reply")
    /\ th' = [th EXCEPT ![t] = Idle]
    /\ acked' = IF th[t].err \/ th[t].kind \in {"tick", "fsync"} THEN acked
                ELSE acked \cup {th[t].op}
    /\ UNCHANGED <<journaled, gate, cursor, store, epoch, writeback, lost, bounds>>

(***************************************************************************)
(* The mutation gate                                                       *)
(***************************************************************************)

\* Mutant of Enter: a nested entry is not counted, though its leave is.
EnterOnce(t) ==
    /\ At(t, "enter") /\ t \notin asleep
    /\ IF th[t].depth = 0 /\ closing > 0
       THEN asleep' = asleep \cup {t} /\ UNCHANGED <<inFlight, th>>
       ELSE /\ inFlight' = IF th[t].depth = 0 THEN inFlight + 1 ELSE inFlight
            /\ Call(t, <<>>, [th[t] EXCEPT !.depth = @ + 1])
            /\ UNCHANGED asleep
    /\ UNCHANGED <<journaled, closing, cursor, store, epoch, writeback, acked, lost, bounds>>

\* enter_mutation_gate: a thread already inside never waits for a boundary.
Enter(t) ==
    /\ At(t, "enter") /\ t \notin asleep
    /\ IF th[t].depth = 0 /\ closing > 0
       THEN asleep' = asleep \cup {t} /\ UNCHANGED <<inFlight, th>>
       ELSE /\ inFlight' = inFlight + 1
            /\ Call(t, <<>>, [th[t] EXCEPT !.depth = @ + 1])
            /\ UNCHANGED asleep
    /\ UNCHANGED <<journaled, closing, cursor, store, epoch, writeback, acked, lost, bounds>>

\* leave_mutation_gate: the last one out notifies.  The notify_all follows the
\* unlock; a thread that falls asleep in between has seen the new counters, so
\* waking it too would change nothing.
Leave(t) ==
    /\ At(t, "leave")
    /\ inFlight' = inFlight - 1
    /\ asleep' = IF inFlight = 1 THEN {} ELSE asleep
    /\ Call(t, <<>>, [th[t] EXCEPT !.depth = @ - 1])
    /\ UNCHANGED <<journaled, closing, cursor, store, epoch, writeback, acked, lost, bounds>>

\* Mutant of Close: the mutations in flight are not waited for.
CloseAtOnce(t) ==
    /\ At(t, "close")
    /\ closing' = closing + 1
    /\ Done(t)
    /\ UNCHANGED <<journaled, inFlight, asleep, cursor, store, epoch, writeback, acked, lost, bounds>>

\* close_mutation_gate, up to its first look at in_flight.
Close(t) ==
    /\ At(t, "close")
    /\ closing' = closing + 1
    /\ IF inFlight = 0 THEN Done(t) /\ UNCHANGED asleep
       ELSE Call(t, <<"drain">>, th[t]) /\ asleep' = asleep \cup {t}
    /\ UNCHANGED <<journaled, inFlight, cursor, store, epoch, writeback, acked, lost, bounds>>

\* close_mutation_gate, woken.
Drain(t) ==
    /\ At(t, "drain") /\ t \notin asleep
    /\ IF inFlight = 0 THEN Done(t) /\ UNCHANGED asleep
       ELSE asleep' = asleep \cup {t} /\ UNCHANGED th
    /\ UNCHANGED <<journaled, inFlight, closing, cursor, store, epoch, writeback, acked, lost, bounds>>

\* Mutant of Reopen: nobody is notified.
ReopenQuiet == closing' = closing - 1 /\ UNCHANGED asleep

\* The drop of BoundaryGateGuard.
Reopen == closing' = closing - 1 /\ asleep' = {}

\* Thread t has closed the gate and not reopened it.
Closed(t) == \E l \in {"drain", "capture", "evict_direct"} : At(t, l)

(***************************************************************************)
(* Mutations                                                               *)
(***************************************************************************)

\* begin_request_scope registers the snapshot of the scope's transaction.
Begin(t) ==
    /\ At(t, "begin")
    /\ Call(t, <<>>, [th[t] EXCEPT !.reg = Len(commits)])
    /\ UNCHANGED <<journaled, gate, cursor, store, epoch, writeback, acked, lost, bounds>>

\* The transaction of a finalize, with a snapshot nobody registers.
EagerBegin(t) ==
    /\ At(t, "eager_begin")
    /\ Call(t, <<>>, [th[t] EXCEPT !.snap = Len(commits)])
    /\ UNCHANGED <<journaled, gate, cursor, store, epoch, writeback, acked, lost, bounds>>

\* It commits; so does a transaction that a request commits on the way, which
\* sees no less than the registered snapshot of the scope around it.
EagerCommit(t) ==
    /\ At(t, "eager_commit")
    /\ commits' = Append(commits, {th[t].op})
    /\ Call(t, <<>>, [th[t] EXCEPT !.snap = None])
    /\ UNCHANGED <<journaled, gate, cursor, durable, evicted, atBoundary, epoch, writeback,
                   acked, lost, bounds>>

\* What is left of a request whose scope is aborted.
Aborted(todo) == IF Head(todo) = "commit_scope" THEN Tail(todo) ELSE todo

\* The operation fails before its scope commits: end_request_scope aborts it.
EagerFails(t) ==
    /\ At(t, "eager_commit") /\ failures < MaxFailures
    /\ failures' = failures + 1
    /\ th' = [th EXCEPT ![t] =
                [th[t] EXCEPT !.todo = Aborted(Tail(th[t].todo)), !.snap = None, !.err = TRUE]]
    /\ UNCHANGED <<journaled, gate, cursor, store, epoch, writeback, acked, lost, workload, requests>>

\* commit_request_scope of a request or a batch.  A commit that carries block
\* accounting holds the gate, once more if the request already does.
CommitScope(t) ==
    /\ At(t, "commit_scope")
    /\ \E accounting \in BOOLEAN :
         Call(t, IF accounting THEN Guarded(<<"publish">>) ELSE <<"publish">>, th[t])
    /\ UNCHANGED <<journaled, gate, cursor, store, epoch, writeback, acked, lost, bounds>>

Publish(t) ==
    /\ At(t, "publish")
    /\ commits' = Append(commits, IF th[t].batch = None THEN {th[t].op} ELSE th[t].batch.ops)
    /\ Done(t)
    /\ UNCHANGED <<journaled, gate, cursor, durable, evicted, atBoundary, epoch, writeback,
                   acked, lost, bounds>>

\* The end of a batch's scope: it had left the gate when it began.
EndBatch == <<"release", "bump", "pressure">>

\* The commit conflicts.  The writes of a batch are gone, and the error is the
\* answer to the request that flushed it.
PublishFails(t) ==
    /\ At(t, "publish") /\ failures < MaxFailures
    /\ failures' = failures + 1
    /\ IF th[t].batch = None
       THEN Call(t, <<>>, [th[t] EXCEPT !.err = TRUE]) /\ UNCHANGED lost
       ELSE /\ lost' = lost \cup th[t].batch.ops
            /\ th' = [th EXCEPT ![t] =
                 [@ EXCEPT !.err = TRUE,
                           !.todo = (IF th[t].depth > 0 THEN <<"bump", "leave">> ELSE <<>>)
                                      \o EndBatch \o <<"reply">>]]
    /\ UNCHANGED <<journaled, gate, cursor, store, epoch, writeback, acked, workload, requests>>

\* end_request_scope: the snapshot goes, then the request leaves the gate.  The
\* result of an fsync is its boundary's; that of a pressure commit is dropped.
Release(t) ==
    /\ At(t, "release")
    /\ Call(t, <<>>, IF th[t].batch = None
                     THEN [th[t] EXCEPT !.reg = None,
                                        !.err = @ \/ (th[t].kind = "fsync" /\ th[t].failed)]
                     ELSE [th[t] EXCEPT !.batch = None])
    /\ UNCHANGED <<journaled, gate, cursor, store, epoch, writeback, acked, lost, bounds>>

\* mutation_epoch.fetch_add(1).
Bump(t) ==
    /\ At(t, "bump")
    /\ mutationEpoch' = [count |-> mutationEpoch.count + 1, head |-> Len(commits)]
    /\ Done(t)
    /\ UNCHANGED <<journaled, gate, cursor, store, committedEpoch, writeback, acked, lost, bounds>>

\* commit_on_dirty_pressure: only with a JBD2 writer is there a limit.
Pressure(t) ==
    /\ At(t, "pressure")
    /\ Call(t, IF /\ th[t].depth = 0 /\ journaled
                  /\ Len(commits) - atBoundary >= PressureLimit
               THEN Boundary ELSE <<>>, th[t])
    /\ UNCHANGED <<journaled, gate, cursor, store, epoch, writeback, acked, lost, bounds>>

(***************************************************************************)
(* The durability boundary                                                 *)
(***************************************************************************)

\* mvcc_flushed_through.lock(), held to the end of the boundary.
Lock(t) ==
    /\ At(t, "lock") /\ cursor.owner = None
    /\ cursor' = [cursor EXCEPT !.owner = t]
    /\ Call(t, <<>>, [th[t] EXCEPT !.failed = FALSE, !.cap = 0])
    /\ UNCHANGED <<journaled, gate, store, epoch, writeback, acked, lost, bounds>>

\* flush_to_device_after into the capture device; the gate reopens.
Capture(t) ==
    /\ At(t, "capture")
    /\ Reopen
    /\ Call(t, <<>>, [th[t] EXCEPT !.cap = Len(commits)])
    /\ UNCHANGED <<journaled, inFlight, cursor, store, epoch, writeback, acked, lost, bounds>>

\* The capture fails; the drop of the guard reopens the gate all the same.
CaptureFails(t) ==
    /\ At(t, "capture") /\ failures < MaxFailures
    /\ failures' = failures + 1
    /\ Reopen
    /\ th' = [th EXCEPT ![t] =
                [th[t] EXCEPT !.todo = SubSeq(th[t].todo, 3, Len(th[t].todo)), !.failed = TRUE]]
    /\ UNCHANGED <<journaled, inFlight, cursor, store, epoch, writeback, acked, lost, workload, requests>>

\* ext4_journal_and_checkpoint: all of the capture is durable when it returns.
\* A boundary that captured nothing returns at once.
Journal(t) ==
    /\ At(t, "journal")
    /\ durable' = Max({durable, th[t].cap})
    /\ Call(t, IF th[t].cap = cursor.through THEN <<>> ELSE <<"evict">>, th[t])
    /\ UNCHANGED <<journaled, gate, cursor, commits, evicted, atBoundary, epoch, writeback,
                   acked, lost, bounds>>

\* The direct flush and its sync, without the gate.
FlushDirect(t) ==
    /\ At(t, "flush")
    /\ durable' = Len(commits)
    /\ Call(t, <<>>, [th[t] EXCEPT !.cap = Len(commits)])
    /\ UNCHANGED <<journaled, gate, cursor, commits, evicted, atBoundary, epoch, writeback,
                   acked, lost, bounds>>

\* The device refuses a write or a sync: the cursor stays where it is.
DeviceFails(t) ==
    /\ At(t, "journal") \/ At(t, "flush")
    /\ failures < MaxFailures
    /\ failures' = failures + 1
    /\ Call(t, <<>>, [th[t] EXCEPT !.failed = TRUE])
    /\ UNCHANGED <<journaled, gate, cursor, store, epoch, writeback, acked, lost, workload, requests>>

\* Registered snapshots: scopes, the outstanding batch, batches being committed.
Registered ==
    {th[t].reg : t \in Threads}
      \cup {b.snap : b \in ({slot} \cup {th[t].batch : t \in Threads}) \ {None}}

\* evict_durable_chains: no further than the oldest registered snapshot.
EvictBound(through) == Min({through} \cup (Registered \ {None}))

\* evict_durable_mvcc_chains with what the boundary has made durable; below the
\* resident cap it does nothing.
Evict(t) ==
    /\ At(t, "evict")
    /\ \/ evicted' = Max({evicted, EvictBound(th[t].cap)})
       \/ UNCHANGED evicted
    /\ atBoundary' = Max({atBoundary, th[t].cap})
    /\ Done(t)
    /\ UNCHANGED <<journaled, gate, cursor, commits, durable, epoch, writeback, acked, lost, bounds>>

\* evict_durable_mvcc_chains_quiesced, the gate closed: it takes the cursor's
\* mutex to read it.
EvictDirect(t) ==
    /\ At(t, "evict_direct") /\ cursor.owner = None
    /\ Reopen
    /\ \/ evicted' = Max({evicted, EvictBound(cursor.through)})
       \/ UNCHANGED evicted
    /\ Done(t)
    /\ UNCHANGED <<journaled, inFlight, cursor, commits, durable, atBoundary, epoch, writeback,
                   acked, lost, bounds>>

\* The cursor advances if the boundary succeeded and is unlocked; the direct
\* path then evicts.
Unlock(t) ==
    /\ At(t, "unlock")
    /\ cursor' = [through |-> IF th[t].failed THEN cursor.through
                              ELSE Max({cursor.through, th[t].cap}),
                  owner |-> None]
    /\ Call(t, IF journaled \/ th[t].failed THEN <<>> ELSE EvictQuiesced, th[t])
    /\ UNCHANGED <<journaled, gate, store, epoch, writeback, acked, lost, bounds>>

(***************************************************************************)
(* periodic_commit                                                         *)
(***************************************************************************)

TickLoad(t) ==
    /\ At(t, "tick_load")
    /\ Call(t, <<>>, [th[t] EXCEPT !.seen = mutationEpoch])
    /\ UNCHANGED <<journaled, gate, cursor, store, epoch, writeback, acked, lost, bounds>>

\* Nothing finished since the last one and nothing newer than the cursor: an
\* idle mount does not commit.
TickCheck(t) ==
    /\ At(t, "tick_check") /\ cursor.owner = None
    /\ Call(t, IF th[t].seen.count # committedEpoch.count \/ Len(commits) > cursor.through
               THEN Boundary \o <<"tick_mark">> ELSE <<>>, th[t])
    /\ UNCHANGED <<journaled, gate, cursor, store, epoch, writeback, acked, lost, bounds>>

\* Mutant of TickMark: the epoch is loaded after the boundary.
TickMarkReload(t) ==
    /\ At(t, "tick_mark")
    /\ committedEpoch' = IF th[t].failed THEN committedEpoch ELSE mutationEpoch
    /\ Done(t)
    /\ UNCHANGED <<journaled, gate, cursor, store, mutationEpoch, writeback, acked, lost, bounds>>

TickMark(t) ==
    /\ At(t, "tick_mark")
    /\ committedEpoch' = IF th[t].failed \/ th[t].seen.count < committedEpoch.count
                         THEN committedEpoch ELSE th[t].seen
    /\ Done(t)
    /\ UNCHANGED <<journaled, gate, cursor, store, mutationEpoch, writeback, acked, lost, bounds>>

(***************************************************************************)
(* The writeback batch of ffs-fuse                                         *)
(***************************************************************************)

\* Operations that another thread has taken out of the slot and still holds.
InTransit == UNION {b.ops : b \in {th[t].batch : t \in Threads} \ {None}}

\* Mutant of Observe: an fsync runs without committing the batch.
ObserveNotFsync(t) ==
    /\ At(t, "observe")
    /\ Call(t, IF slot = None \/ th[t].kind = "fsync" THEN <<>> ELSE <<"take">>,
            [th[t] EXCEPT !.need = IF th[t].kind = "fsync" THEN acked \ InTransit ELSE {}])
    /\ UNCHANGED <<journaled, gate, cursor, store, epoch, writeback, acked, lost, bounds>>

\* with_request_scope, and flush_writeback_batch of a full batch, look whether a
\* batch is outstanding.  An fsync owes its caller what was acknowledged by now,
\* except what is in transit when it looks or when it takes the slot.
Observe(t) ==
    /\ At(t, "observe")
    /\ Call(t, IF slot = None THEN <<>> ELSE <<"take">>,
            [th[t] EXCEPT !.need = IF th[t].kind = "fsync" THEN acked \ InTransit ELSE {}])
    /\ UNCHANGED <<journaled, gate, cursor, store, epoch, writeback, acked, lost, bounds>>

\* flush_writeback_batch takes the batch out of the slot, then commits it.
Take(t) ==
    /\ At(t, "take") /\ slotOwner = None
    /\ slot' = None
    /\ Call(t, IF slot = None THEN <<>> ELSE <<"commit_scope">> \o EndBatch,
            [th[t] EXCEPT !.batch = slot, !.need = @ \ InTransit])
    /\ UNCHANGED <<journaled, gate, cursor, store, epoch, slotOwner, acked, lost, bounds>>

\* dispatch_batched_write commits a batch of another inode first.
StageCheck(t) ==
    /\ At(t, "stage_check") /\ slotOwner = None
    /\ Call(t, IF slot # None /\ slot.file # th[t].file THEN <<"observe">> ELSE <<>>, th[t])
    /\ UNCHANGED <<journaled, gate, cursor, store, epoch, writeback, acked, lost, bounds>>

\* It locks the slot; an empty one gets a batch, begun inside the gate and left
\* open outside it.
StageLock(t) ==
    /\ At(t, "stage_lock") /\ slotOwner = None
    /\ slotOwner' = t
    /\ Call(t, IF slot = None THEN <<"enter", "begin", "leave", "stage_write">>
               ELSE <<"stage_write">>, th[t])
    /\ UNCHANGED <<journaled, gate, cursor, store, epoch, slot, acked, lost, bounds>>

\* The batch that a write is staged in.
Batch(t) == IF slot = None THEN [file |-> th[t].file, ops |-> {}, snap |-> th[t].reg] ELSE slot

\* The write is staged; a full batch is committed before the reply.
StageWrite(t) ==
    /\ At(t, "stage_write")
    /\ slot' = [Batch(t) EXCEPT !.ops = @ \cup {th[t].op}]
    /\ slotOwner' = None
    /\ Call(t, IF Cardinality(slot'.ops) >= MaxStaged THEN <<"observe">> ELSE <<>>,
            [th[t] EXCEPT !.reg = None])
    /\ UNCHANGED <<journaled, gate, cursor, store, epoch, acked, lost, bounds>>

\* A write that cannot be staged abandons the whole batch.
StageFails(t) ==
    /\ At(t, "stage_write") /\ failures < MaxFailures
    /\ failures' = failures + 1
    /\ slot' = None /\ slotOwner' = None
    /\ lost' = lost \cup Batch(t).ops
    /\ Call(t, EndBatch, [th[t] EXCEPT !.batch = Batch(t), !.reg = None, !.err = TRUE])
    /\ UNCHANGED <<journaled, gate, cursor, store, epoch, acked, workload, requests>>

(***************************************************************************)
(* Specification                                                           *)
(***************************************************************************)

GateStep(t) == Enter(t) \/ Leave(t) \/ Close(t) \/ Drain(t)

MutationStep(t) ==
    \/ Begin(t) \/ EagerBegin(t) \/ EagerCommit(t) \/ EagerFails(t)
    \/ CommitScope(t) \/ Publish(t) \/ PublishFails(t)
    \/ Release(t) \/ Bump(t) \/ Pressure(t)

BoundaryStep(t) ==
    \/ Lock(t) \/ Capture(t) \/ CaptureFails(t) \/ Journal(t) \/ FlushDirect(t)
    \/ DeviceFails(t) \/ Evict(t) \/ EvictDirect(t) \/ Unlock(t)
    \/ TickLoad(t) \/ TickCheck(t) \/ TickMark(t)

WritebackStep(t) ==
    \/ Observe(t) \/ Take(t)
    \/ StageCheck(t) \/ StageLock(t) \/ StageWrite(t) \/ StageFails(t)

Step(t) == GateStep(t) \/ MutationStep(t) \/ BoundaryStep(t) \/ WritebackStep(t) \/ Reply(t)

Next == \E t \in Threads : Step(t) \/ \E kind \in Kinds : Start(t, kind)

\* Some thread that can run does.  Each thread would: but a workload is finite,
\* and no thread can keep going for ever while another is ready.
Spec == Init /\ [][Next]_vars /\ WF_vars(\E t \in Threads : Step(t))

(***************************************************************************)
(* Properties                                                              *)
(***************************************************************************)

\* The entries of the gate that threads hold, nested ones counted.
Entries == {e \in Threads \X {1, 2} : e[2] <= th[e[1]].depth}

\* The gate's counters are what the threads hold: in_flight is the sum of the
\* depths, nested entries counted, and closing the boundaries that have not
\* reopened it.  Only a thread with a reason to wait is asleep.
TypeOK ==
    /\ journaled \in BOOLEAN /\ cursor.owner \in Threads \cup {None}
    /\ \A t \in Threads : th[t].kind \in Kinds /\ th[t].depth \in 0..2
    /\ inFlight = Cardinality(Entries)
    /\ closing = Cardinality({t \in Threads : Closed(t)})
    /\ \A t \in asleep : At(t, "drain") \/ (At(t, "enter") /\ th[t].depth = 0)
    /\ evicted <= durable /\ durable <= Len(commits)
    /\ cursor.through <= durable /\ atBoundary <= durable
    /\ committedEpoch.count <= mutationEpoch.count

\* The positions of operation o in the store.
CommitsOf(o) == {i \in 1..Len(commits) : o \in commits[i]}

\* A journaled boundary captures all the commits of an operation or none: never
\* the eager ones without the scope's, however boundaries, nested entries,
\* finalizes and batches interleave.
DurableIsWhole ==
    journaled => \A o \in 1..requests :
        \/ \A i \in CommitsOf(o) : i <= durable
        \/ \A i \in CommitsOf(o) : i > durable

\* The contract of evict_durable_chains: no transaction that can still commit
\* has a snapshot, registered or not, older than a chain that was dropped, so
\* none misses a conflict.
EvictionSafe ==
    /\ \A t \in Threads : th[t].snap # None => evicted <= th[t].snap
    /\ \A s \in Registered \ {None} : evicted <= s

\* A periodic commit never consumes the dirty marker of a mutation it did not
\* capture: all that was committed when the epoch took its committed value is
\* durable.
EpochCovered == committedEpoch.head <= durable

\* An fsync that succeeds has made durable every operation acknowledged before
\* it looked at the writeback slot, unless another thread was just then
\* committing the batch that holds it or the batch was lost with an error.
FsyncCovers ==
    \A t \in Threads : At(t, "reply") /\ th[t].kind = "fsync" /\ ~th[t].err =>
        \A o \in th[t].need \ lost :
            CommitsOf(o) # {} /\ \A i \in CommitsOf(o) : i <= durable

\* Every request and every periodic commit returns: no wakeup of the gate is
\* lost, and the cursor's mutex, the slot's mutex and the gate never wait for
\* each other in a cycle.
RequestsReturn == []<>(\A t \in Threads : th[t].todo = <<>>)

=============================================================================
