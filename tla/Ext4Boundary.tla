----------------------------- MODULE Ext4Boundary -----------------------------
(***************************************************************************)
(* The journaled durability boundary of ext4 (ffs-core/src/lib.rs) over    *)
(* the JBD2 writer and replay (ffs-journal/src/lib.rs): capture the blocks *)
(* committed since the last boundary, write them to the log, sync, write   *)
(* them home, sync, mark the log empty, sync, acknowledge.  Any device     *)
(* call may fail and the machine or the process may stop at any step; the  *)
(* next mount replays the log.                                             *)
(*                                                                         *)
(* The device is a write-back cache.  dev[a] is what a read of block a     *)
(* returns; disk[a] is the set of contents that may be found there after a *)
(* power failure: the last synced contents and everything written since.   *)
(* A successful sync leaves only dev[a].  Blocks are written whole.        *)
(*                                                                         *)
(* Writes between two syncs may reach the platter in any order or not at   *)
(* all, so a run of writes is one step: a crash inside the run is a crash  *)
(* after it that loses some of them.                                       *)
(***************************************************************************)
EXTENDS Integers, Sequences, FiniteSets, FiniteSetsExt, SequencesExt

CONSTANTS
    HomeBlocks,  \* block numbers of the file system, a set of integers
    LogSize,     \* log blocks after the journal superblock
    MaxCommits,  \* bound: commits per run
    MaxFailures, \* bound: failed device calls
    MaxCrashes,  \* bound: crashes
    MaxFaults    \* bound: failed calls and crashes together

ASSUME BoundaryAssumption ==
    /\ HomeBlocks \subseteq Int /\ IsFiniteSet(HomeBlocks)
    /\ LogSize \in Nat \ {0}
    /\ MaxCommits \in Nat /\ MaxFailures \in Nat
    /\ MaxCrashes \in Nat /\ MaxFaults \in Nat

VARIABLES
    csum,     \* the journal has data checksums (CSUM_V3); fixed at mkfs
    hist,     \* hist[i]: the home blocks commit i wrote
    flushed,  \* mvcc_flushed_through
    acked,    \* the horizon of the last boundary that returned Ok
    dev,      \* what a read returns
    disk,     \* disk[a]: what a power failure may leave in block a
    writer,   \* the Jbd2Writer: head, next_seq, aborted
    op,       \* the boundary in progress
    failures, \* device calls that failed
    crashes,  \* crashes so far
    exposed   \* history: home blocks may be torn where the log no longer helps

vars == <<csum, hist, flushed, acked, dev, disk, writer, op, failures, crashes, exposed>>

Home(b) == <<"home", b>>
Log(i) == <<"log", i>>
Jsb == <<"jsb", 0>>              \* the journal superblock: s_start and s_sequence
Flag == <<"needs_recovery", 0>>  \* INCOMPAT_RECOVER of the ext4 superblock
BaseHead == 1
Addr == {Home(b) : b \in HomeBlocks} \cup {Log(i) : i \in 1 .. LogSize} \cup {Jsb, Flag}

\* The contents of block b as commit v left it
Bytes(b, v) == <<b, v>>

Blank == [kind |-> "blank", seq |-> 0, items |-> <<>>]
\* A descriptor's tags: target, and the contents its data checksum vouches for
Descriptor(s, items) == [kind |-> "desc", seq |-> s, items |-> items]
Data(bytes) == [kind |-> "data", seq |-> 0, items |-> <<bytes>>]
CommitBlock(s) == [kind |-> "commit", seq |-> s, items |-> <<>>]

NoOp == [pc |-> "idle", writes |-> {}, horizon |-> 0, seq |-> 0]

----------------------------------------------------------------------------
(* The committed state of the file system *)

LastWrite(h, b) == Max({0} \cup {i \in 1 .. h : b \in hist[i]})
StateAt(h) == [b \in HomeBlocks |-> Bytes(b, LastWrite(h, b))]

(* Device calls *)

\* ws maps addresses to the contents written
Write(ws) ==
    /\ dev' = [a \in Addr |-> IF a \in DOMAIN ws THEN ws[a] ELSE dev[a]]
    /\ disk' = [a \in Addr |-> IF a \in DOMAIN ws THEN disk[a] \cup {ws[a]} ELSE disk[a]]

Sync ==
    /\ disk' = [a \in Addr |-> {dev[a]}]
    /\ dev' = dev

One(a, v) == [x \in {a} |-> v]

At(pc) == op.pc = pc
Goto(pc) == op' = [op EXCEPT !.pc = pc]

(* The log image of one transaction *)

\* The write set in target order (a BTreeMap)
InOrder(S) == SetToSortSeq(S, LAMBDA x, y : x < y)

Items == LET bs == InOrder(op.writes) IN
    [i \in 1 .. Len(bs) |-> Bytes(bs[i], LastWrite(op.horizon, bs[i]))]
BlocksNeeded == Cardinality(op.writes) + 2

\* Mutant of FreeBlocks: counts the block after the log.
FreeBlocksOffByOne == LogSize + 2 - writer.head

FreeBlocks == LogSize + 1 - writer.head

----------------------------------------------------------------------------
(* Replay (replay_jbd2_inner): a guided scan from s_start *)

Wrap(i) == IF i <= LogSize THEN i ELSE BaseHead + ((i - BaseHead) % LogSize)

\* What the scan has found: staged[s] holds the writes of sequence s, each a
\* tag with the log block its data is read from.
ScanFrom(d) ==
    [idx |-> d[Jsb].start, expected |-> d[Jsb].seq, scanned |-> 0, stop |-> d[Jsb].start = 0,
     staged |-> <<>>, committed |-> {}]

\* A block that ends the scan: no header, a foreign sequence, or a descriptor
\* of a sequence that is already committed
EndsScan(s, blk) ==
    \/ blk.kind \in {"blank", "data"}
    \/ blk.seq \notin {s.expected, s.expected + 1}
    \/ blk.kind = "desc" /\ blk.seq \in s.committed

ScanBlock(d, s) ==
    LET blk == d[Log(Wrap(s.idx))]
        n == Len(blk.items)
        tags == [i \in 1 .. n |->
                   [seq |-> blk.seq, target |-> blk.items[i][1], bytes |-> blk.items[i],
                    slot |-> Wrap(s.idx + i)]]
    IN  IF s.stop \/ s.scanned > LogSize \/ EndsScan(s, blk)
        THEN [s EXCEPT !.stop = TRUE]
        ELSE [s EXCEPT !.idx = @ + 1 + n,
                       !.scanned = @ + 1 + n,
                       !.staged = @ \o tags,
                       !.committed = IF blk.kind = "commit" THEN @ \cup {blk.seq} ELSE @,
                       !.expected = IF blk.kind = "commit" /\ blk.seq = @ THEN @ + 1 ELSE @]

Scanned(d) ==
    LET scan[n \in 0 .. LogSize + 1] ==
            IF n = 0 THEN ScanFrom(d) ELSE ScanBlock(d, scan[n - 1])
    IN  scan[LogSize + 1]

\* The tag that wins for block b: of the newest committed sequence, the last
Winner(s, b) ==
    LET mine == {i \in 1 .. Len(s.staged) :
                    s.staged[i].target = b /\ s.staged[i].seq \in s.committed}
        newest == Max({s.staged[i].seq : i \in mine})
    IN  IF mine = {} THEN 0 ELSE Max({i \in mine : s.staged[i].seq = newest})

\* A data block whose checksum does not match its tag is skipped
Applies(d, t) == csum => d[Log(t.slot)] = Data(t.bytes)

\* The contents of a log block read as data: whatever bytes are there
RawBytes(blk, b) == IF blk.kind = "data" THEN blk.items[1] ELSE Bytes(b, -1)

Replayed(d) ==
    LET s == Scanned(d)
        Chosen(b) == s.staged[Winner(s, b)]
        target == {b \in HomeBlocks : Winner(s, b) # 0 /\ Applies(d, Chosen(b))}
    IN  [a \in {Home(b) : b \in target} |-> RawBytes(d[Log(Chosen(a[2]).slot)], a[2])]

\* The home blocks after recovery; the kernel and e2fsck discard the log when
\* needs_recovery is clear, the mount of this code replays it regardless.
RecoveredImage(d, honoursFlag) ==
    LET r == IF honoursFlag /\ ~d[Flag] THEN <<>> ELSE Replayed(d)
    IN  [b \in HomeBlocks |-> IF Home(b) \in DOMAIN r THEN r[Home(b)] ELSE d[Home(b)]]

NextSeqAfterReplay(d) == Max({1, d[Jsb].seq} \cup {s + 1 : s \in Scanned(d).committed})

----------------------------------------------------------------------------
Init ==
    /\ csum \in BOOLEAN
    /\ hist = <<>>
    /\ flushed = 0
    /\ acked = 0
    /\ dev = [a \in Addr |-> CASE a[1] = "home" -> Bytes(a[2], 0)
                                [] a[1] = "log" -> Blank
                                [] a = Jsb -> [start |-> 0, seq |-> 1]
                                [] a = Flag -> FALSE]
    /\ disk = [a \in Addr |-> {dev[a]}]
    /\ writer = [head |-> BaseHead, next_seq |-> 1, aborted |-> FALSE]
    /\ op = NoOp
    /\ failures = 0
    /\ crashes = 0
    /\ exposed = FALSE

Mounted == op.pc # "down"

\* A request commits its blocks to the MVCC store
Commit(S) ==
    /\ Mounted
    /\ Len(hist) < MaxCommits
    /\ hist' = Append(hist, S)
    /\ UNCHANGED <<csum, flushed, acked, dev, disk, writer, op, failures, crashes, exposed>>

(* ext4_flush_boundary_via_jbd2, under the mvcc_flushed_through lock *)

\* Capture under the closed mutation gate, then the writer's preflight: a
\* rejection returns an error before anything is written.
Capture ==
    /\ At("idle")
    /\ flushed < Len(hist)
    /\ op' = [pc |-> "flag", horizon |-> Len(hist), seq |-> 0,
              writes |-> {b \in HomeBlocks : LastWrite(Len(hist), b) > flushed}]
    /\ UNCHANGED <<csum, hist, flushed, acked, dev, disk, writer, failures, crashes, exposed>>

Rejected == writer.aborted \/ BlocksNeeded > FreeBlocks

Reject ==
    /\ At("flag")
    /\ Rejected
    /\ op' = NoOp
    /\ UNCHANGED <<csum, hist, flushed, acked, dev, disk, writer, failures, crashes, exposed>>

SetFlag ==
    /\ At("flag")
    /\ ~Rejected
    /\ Write(One(Flag, TRUE))
    /\ Goto("live")
    /\ UNCHANGED <<csum, hist, flushed, acked, writer, failures, crashes, exposed>>

\* Home blocks whose contents are not settled still need the log's copy.
Settled(a) == disk[a] = {dev[a]}
Unsettled == \E b \in HomeBlocks : ~Settled(Home(b))

LogLive == One(Jsb, [start |-> writer.head, seq |-> writer.next_seq])

MarkLogLive ==
    /\ At("live")
    /\ Write(LogLive)
    /\ exposed' = (exposed \/ Unsettled)
    /\ Goto("body")
    /\ UNCHANGED <<csum, hist, flushed, acked, writer, failures, crashes>>

\* commit_transaction: the sequence is consumed and the writer armed before the
\* first log block is written.
LogBody ==
    [a \in {Log(writer.head + i) : i \in 0 .. Len(Items)} |->
        IF a = Log(writer.head) THEN Descriptor(writer.next_seq, Items)
                                ELSE Data(Items[a[2] - writer.head])]

\* Mutant of WriteBody: the sequence is not consumed.
WriteBodySameSeq ==
    /\ At("body")
    /\ Write(LogBody)
    /\ writer' = [writer EXCEPT !.aborted = TRUE]
    /\ op' = [op EXCEPT !.pc = "barrier", !.seq = writer.next_seq]
    /\ UNCHANGED <<csum, hist, flushed, acked, failures, crashes, exposed>>

WriteBody ==
    /\ At("body")
    /\ Write(LogBody)
    /\ writer' = [writer EXCEPT !.next_seq = @ + 1, !.aborted = TRUE]
    /\ op' = [op EXCEPT !.pc = "barrier", !.seq = writer.next_seq]
    /\ UNCHANGED <<csum, hist, flushed, acked, failures, crashes, exposed>>

\* Mutant of Barrier: the commit block may overtake the body.
BarrierSkipped ==
    /\ At("barrier")
    /\ Goto("commit")
    /\ UNCHANGED <<csum, hist, flushed, acked, dev, disk, writer, failures, crashes, exposed>>

\* dev.sync between the body and the commit block
Barrier ==
    /\ At("barrier")
    /\ Sync
    /\ Goto("commit")
    /\ UNCHANGED <<csum, hist, flushed, acked, writer, failures, crashes, exposed>>

CommitSlot == Log(writer.head + Cardinality(op.writes) + 1)

WriteCommitBlock ==
    /\ At("commit")
    /\ Write(One(CommitSlot, CommitBlock(op.seq)))
    /\ writer' = [writer EXCEPT !.head = @ + BlocksNeeded, !.aborted = FALSE]
    /\ Goto("commit_sync")
    /\ UNCHANGED <<csum, hist, flushed, acked, failures, crashes, exposed>>

CommitSync ==
    /\ At("commit_sync")
    /\ Sync
    /\ Goto("home")
    /\ UNCHANGED <<csum, hist, flushed, acked, writer, failures, crashes, exposed>>

Checkpoint == [a \in {Home(b) : b \in op.writes} |-> Bytes(a[2], LastWrite(op.horizon, a[2]))]

WriteHome ==
    /\ At("home")
    /\ Write(Checkpoint)
    /\ Goto("home_sync")
    /\ UNCHANGED <<csum, hist, flushed, acked, writer, failures, crashes, exposed>>

\* The home copies are durable: reset_after_checkpoint reclaims the log.
HomeSync ==
    /\ At("home_sync")
    /\ Sync
    /\ writer' = [writer EXCEPT !.head = BaseHead]
    /\ exposed' = FALSE
    /\ Goto("empty")
    /\ UNCHANGED <<csum, hist, flushed, acked, failures, crashes>>

LogEmpty == One(Jsb, [start |-> 0, seq |-> writer.next_seq])

MarkLogEmpty ==
    /\ At("empty")
    /\ Write(LogEmpty)
    /\ Goto("unflag")
    /\ UNCHANGED <<csum, hist, flushed, acked, writer, failures, crashes, exposed>>

ClearFlag ==
    /\ At("unflag")
    /\ Write(One(Flag, FALSE))
    /\ Goto("clean_sync")
    /\ UNCHANGED <<csum, hist, flushed, acked, writer, failures, crashes, exposed>>

\* Mutant of CleanSync: the cursor covers commits made during the boundary.
CleanSyncToNewest ==
    /\ At("clean_sync")
    /\ Sync
    /\ flushed' = Len(hist)
    /\ acked' = flushed'
    /\ op' = NoOp
    /\ UNCHANGED <<csum, hist, writer, failures, crashes, exposed>>

\* The boundary returns Ok and the cursor moves.
CleanSync ==
    /\ At("clean_sync")
    /\ Sync
    /\ flushed' = Max({flushed, op.horizon})
    /\ acked' = flushed'
    /\ op' = NoOp
    /\ UNCHANGED <<csum, hist, writer, failures, crashes, exposed>>

----------------------------------------------------------------------------
(* A device call fails: the boundary returns an error and the cursor stays.  *)
(* Of a failed run of writes a prefix has reached the device; the one that    *)
(* reports the error may be part of it.                                       *)

StepWrites ==
    CASE At("flag")   -> One(Flag, TRUE)
      [] At("live")   -> LogLive
      [] At("body")   -> LogBody
      [] At("commit") -> One(CommitSlot, CommitBlock(op.seq))
      [] At("home")   -> Checkpoint
      [] At("empty")  -> LogEmpty
      [] At("unflag") -> One(Flag, FALSE)

PrefixWrites(ws) ==
    LET upto(k) == {a \in DOMAIN ws : a[2] < k}
    IN  {Restrict(ws, upto(k)) : k \in {a[2] : a \in DOMAIN ws}} \cup {ws}

FaultLeft == failures + crashes < MaxFaults

FailedCall ==
    /\ failures < MaxFailures /\ FaultLeft
    /\ failures' = failures + 1
    /\ op' = NoOp
    /\ UNCHANGED <<csum, hist, flushed, acked, crashes>>

\* An error in the write phase of commit_transaction leaves the writer aborted.
FailWrite ==
    /\ op.pc \in {"flag", "live", "body", "commit", "home", "empty", "unflag"}
    /\ At("flag") => ~Rejected
    /\ \E ws \in PrefixWrites(StepWrites) : Write(ws)
    /\ writer' = IF At("body") THEN [writer EXCEPT !.next_seq = @ + 1, !.aborted = TRUE]
                              ELSE writer
    /\ exposed' = (exposed \/ (At("live") /\ Unsettled))
    /\ FailedCall

FailSync ==
    /\ op.pc \in {"barrier", "commit_sync", "home_sync", "clean_sync"}
    /\ FailedCall
    /\ UNCHANGED <<dev, disk, writer, exposed>>

----------------------------------------------------------------------------
(* Crash and recovery *)

Down == [NoOp EXCEPT !.pc = "down"]

\* Every choice of one surviving content for each block written since the sync
Survivals ==
    LET extend(a, ds) == {[x \in DOMAIN d \cup {a} |-> IF x = a THEN v ELSE d[x]] :
                              d \in ds, v \in disk[a]}
    IN  FoldSet(extend, {<<>>}, {a \in Addr : disk[a] # {dev[a]}})

PowerFailure ==
    /\ Mounted
    /\ crashes < MaxCrashes /\ FaultLeft
    /\ \E d \in Survivals : dev' = [a \in Addr |-> IF a \in DOMAIN d THEN d[a] ELSE dev[a]]
    /\ disk' = [a \in Addr |-> {dev'[a]}]
    /\ op' = Down
    /\ crashes' = crashes + 1
    /\ UNCHANGED <<csum, hist, flushed, acked, writer, failures, exposed>>

\* The process dies; the page cache survives.
ProcessKilled ==
    /\ Mounted
    /\ crashes < MaxCrashes /\ FaultLeft
    /\ op' = Down
    /\ crashes' = crashes + 1
    /\ UNCHANGED <<csum, hist, flushed, acked, dev, disk, writer, failures, exposed>>

\* The horizons whose state an image shows
Horizons(image) == {h \in acked .. Len(hist) : StateAt(h) = image}

\* OpenFs::from_device replays the log and writes home without a sync, and
\* attach_ext4_internal_jbd2_writer starts at the base of the log.
Mount ==
    /\ At("down")
    /\ Horizons(RecoveredImage(dev, FALSE)) # {}
    /\ Write(Replayed(dev))
    /\ hist' = SubSeq(hist, 1, Max(Horizons(RecoveredImage(dev, FALSE))))
    /\ flushed' = Len(hist')
    /\ writer' = [head |-> BaseHead, next_seq |-> NextSeqAfterReplay(dev), aborted |-> FALSE]
    /\ op' = NoOp
    /\ exposed' = \E a \in Addr : ~Settled(a)
    /\ UNCHANGED <<csum, acked, failures, crashes>>

\* The kernel's journal recovery or e2fsck, before this code mounts again
KernelRecovery ==
    /\ At("down")
    /\ LET image == RecoveredImage(dev, TRUE)
           clean == [a \in Addr |->
                        CASE a[1] = "home" -> image[a[2]]
                          [] a = Jsb -> [start |-> 0, seq |-> NextSeqAfterReplay(dev)]
                          [] a = Flag -> FALSE
                          [] OTHER -> dev[a]]
       IN  /\ Horizons(image) # {}
           /\ dev' = clean
           /\ disk' = [a \in Addr |-> {clean[a]}]
    /\ exposed' = FALSE
    /\ UNCHANGED <<csum, hist, flushed, acked, writer, op, failures, crashes>>

----------------------------------------------------------------------------
Boundary ==
    \/ Capture \/ Reject \/ SetFlag \/ MarkLogLive \/ WriteBody \/ Barrier
    \/ WriteCommitBlock \/ CommitSync \/ WriteHome \/ HomeSync \/ MarkLogEmpty
    \/ ClearFlag \/ CleanSync

Next ==
    \/ \E S \in (SUBSET HomeBlocks) \ {{}} : Commit(S)
    \/ Boundary
    \/ FailWrite \/ FailSync
    \/ PowerFailure \/ ProcessKilled
    \/ Mount \/ KernelRecovery

Spec == Init /\ [][Next]_vars

----------------------------------------------------------------------------
(* Properties *)

\* The state has its shape, the writer stays inside the log, what was
\* acknowledged was flushed, and a read returns what the disk may hold.
TypeOK ==
    /\ csum \in BOOLEAN /\ exposed \in BOOLEAN
    /\ hist \in Seq(SUBSET HomeBlocks)
    /\ flushed \in 0 .. Len(hist) /\ acked \in 0 .. Len(hist)
    /\ writer \in [head : BaseHead .. LogSize + 1, next_seq : Nat, aborted : BOOLEAN]
    /\ op.writes \subseteq HomeBlocks /\ op.horizon \in 0 .. Len(hist)
    /\ DOMAIN dev = Addr /\ DOMAIN disk = Addr
    /\ \A a \in Addr : dev[a] \in disk[a]

Recovers(image) == Horizons(image) # {}
OneFault == failures + crashes <= 1

\* A crash at any step, whatever failed before it, leaves an image that this
\* code's mount and the kernel both recover to the state after some commit, at
\* or past the last boundary that returned Ok.
RecoversToBoundary ==
    At("down") => \A honoursFlag \in BOOLEAN : Recovers(RecoveredImage(dev, honoursFlag))

\* The same, unless the log was re-pointed while home blocks still needed it:
\* by a retry after a failed checkpoint, or by the first boundary after a
\* replay that was never synced.  A journal without data checksums is only
\* covered for the first fault: after a second one the scan may meet a
\* descriptor whose data blocks a later transaction has overwritten.
RecoversUnlessExposed == ~exposed /\ (csum \/ OneFault) => RecoversToBoundary

\* No fault takes back what an acknowledged boundary wrote, exposed or not:
\* after a crash every block holds its own contents, at least as new as the
\* last boundary that returned Ok.
AcknowledgedKept ==
    At("down") /\ csum =>
        \A honoursFlag \in BOOLEAN, b \in HomeBlocks :
            LET bytes == RecoveredImage(dev, honoursFlag)[b]
            IN  bytes[1] = b /\ bytes[2] >= LastWrite(acked, b)

\* commit_transaction and the writer's open never hand out a used sequence: no
\* commit block that may be found in the log carries one the writer has yet to
\* use.  After two faults one may: a crash in the first boundary after a replay
\* can leave the old superblock with the body of its transaction overwritten.
CommitsAreOld ==
    At("idle") /\ OneFault =>
        \A i \in 1 .. LogSize : \A blk \in disk[Log(i)] :
            blk.kind = "commit" => blk.seq < writer.next_seq
=============================================================================
