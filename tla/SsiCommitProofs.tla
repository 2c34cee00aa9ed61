--------------------------- MODULE SsiCommitProofs ---------------------------
(***************************************************************************)
(* Proofs about SsiCommit for every set of transactions and blocks and     *)
(* every number of commits: the check of commit_ssi looks at a pruned log  *)
(* and still misses no conflict.                                           *)
(***************************************************************************)
EXTENDS SsiCommit, TLAPS

\* A transaction whose commit check must be exact.  The sharded store promises
\* nothing to one that runs on an unregistered snapshot.
Protected(t) == Running(t) /\ (sharded => tx[t].reg)

\* The log still holds every record such a transaction has to look at.
LogCovers ==
    \A t \in Txns : Protected(t) =>
        \A c \in 1 .. Current : Ssi(c) /\ c > tx[t].snap => c \in ssiLog

IInv == TypeOK /\ LogCovers /\ NoLatePivot

-----------------------------------------------------------------------------
(* The state has its shape *)

TxRecord == [st : {"idle", "running", "over"}, snap : Seqs, reg : BOOLEAN,
             reads : SUBSET Blocks, writes : SUBSET Blocks]

\* Appending a record leaves the others where they were.
LEMMA AppendKeeps ==
    ASSUME NEW h \in Seq(Record), NEW r \in Record
    PROVE  /\ Append(h, r) \in Seq(Record)
           /\ Len(Append(h, r)) = Len(h) + 1
           /\ Append(h, r)[Len(h) + 1] = r
           /\ \A c \in 1 .. Len(h) : Append(h, r)[c] = h[c]
OBVIOUS

\* The empty store.
LEMMA InitIInv == Init => IInv
<1> SUFFICES ASSUME Init PROVE IInv
    OBVIOUS
<1>1. history \in Seq(Record) /\ Len(history) = 0
    BY DEF Init
<1>2. TypeOK
    BY <1>1, SsiAssumption DEF Init, TypeOK, Seqs, Current
<1>3. LogCovers /\ NoLatePivot
    BY <1>1 DEF LogCovers, NoLatePivot, Current
<1> QED BY <1>2, <1>3 DEF IInv

\* A step that leaves the history, the log and the kind of store alone, and
\* neither starts a transaction nor touches the snapshot, the registration or
\* the read and write sets of one that keeps running.
LEMMA QuietStep ==
    ASSUME IInv, UNCHANGED <<sharded, latest, ssiLog, history>>,
           tx' \in [Txns -> TxRecord],
           \A t \in Txns : tx'[t].st = "running" =>
               \/ tx'[t].snap = Current
               \/ tx[t].st = "running" /\ tx'[t].snap = tx[t].snap /\ tx'[t].reg = tx[t].reg
    PROVE  IInv'
<1>1. TypeOK'
    BY DEF IInv, TypeOK, TxRecord, Current
<1>2. LogCovers'
    BY SsiAssumption DEF IInv, LogCovers, TypeOK, Protected, Running, Ssi, Current, Seqs
<1>3. NoLatePivot'
    BY DEF IInv, NoLatePivot, Ssi, Concurrent, Current
<1> QED BY <1>1, <1>2, <1>3 DEF IInv

\* The transaction ends without a commit: abort, or a commit that is refused or
\* has nothing to install.
LEMMA RefusedStep ==
    ASSUME IInv, NEW t \in Txns, Over(t), UNCHANGED <<sharded, latest, ssiLog, history>>
    PROVE  IInv'
<1>0. tx \in [Txns -> TxRecord]
    BY DEF IInv, TypeOK, TxRecord
<1>1. [tx[t] EXCEPT !.st = "over", !.reads = {}, !.writes = {}] \in TxRecord
    BY <1>0, Zenon DEF TxRecord
<1>2. tx' \in [Txns -> TxRecord]
    BY <1>0, <1>1 DEF Over
<1> QED BY <1>0, <1>2, QuietStep DEF Over, TxRecord

\* Between commits a transaction starts, reads, writes, ends.
LEMMA TxnSteps ==
    ASSUME IInv, NEW t \in Txns,
           \/ \E registered \in BOOLEAN : Begin(t, registered)
           \/ \E b \in Blocks : RecordRead(t, b) \/ StageWrite(t, b)
           \/ Abort(t) \/ EndScope(t)
    PROVE  IInv'
<1>0. tx \in [Txns -> TxRecord] /\ Current \in Seqs
    BY SsiAssumption DEF IInv, TypeOK, TxRecord, Seqs, Current
<1>1. ASSUME NEW registered \in BOOLEAN, Begin(t, registered) PROVE IInv'
  <2>0. [tx[t] EXCEPT !.st = "running", !.snap = Current, !.reg = registered] \in TxRecord
    BY <1>0, Zenon DEF TxRecord
  <2>1. tx' \in [Txns -> TxRecord]
    BY <1>0, <1>1, <2>0, Zenon DEF Begin
  <2> QED BY <1>0, <1>1, <2>1, QuietStep, Zenon DEF Begin, TxRecord
<1>2. ASSUME NEW b \in Blocks, RecordRead(t, b) \/ StageWrite(t, b) PROVE IInv'
  <2>1. tx' \in [Txns -> TxRecord]
    BY <1>0, <1>2 DEF RecordRead, StageWrite, TxRecord
  <2> QED BY <1>0, <1>2, <2>1, QuietStep DEF RecordRead, StageWrite, TxRecord
<1>3. ASSUME Abort(t) \/ EndScope(t) PROVE IInv'
  <2>1. CASE Abort(t)
    BY <2>1, RefusedStep DEF Abort
  <2>2. CASE EndScope(t)
    <3>1. tx' \in [Txns -> TxRecord]
      BY <1>0, <2>2, ZenonT(30) DEF EndScope, TxRecord
    <3> QED BY <1>0, <2>2, <3>1, QuietStep, Zenon DEF EndScope, TxRecord
  <2> QED BY <1>3, <2>1, <2>2
<1> QED BY <1>1, <1>2, <1>3

\* A commit that installs.  A plain one leaves no record and is no pivot; one
\* through commit_ssi has passed the check against a log that covers it.
LEMMA InstallStep ==
    ASSUME IInv, NEW t \in Txns, NEW ssi \in BOOLEAN, Running(t),
           Install(t, ssi), Over(t), UNCHANGED sharded,
           ssi => ~ DangerousStructure(t)
    PROVE  IInv'
<1> DEFINE n == Current + 1
           r == [snap |-> tx[t].snap, reg |-> tx[t].reg, ssi |-> ssi,
                 reads |-> tx[t].reads, writes |-> tx[t].writes]
<1>0. /\ tx \in [Txns -> TxRecord] /\ tx[t] \in TxRecord
      /\ history \in Seq(Record) /\ Current \in Nat /\ Current < MaxCommit
      /\ MaxCommit \in Nat
    BY SsiAssumption DEF IInv, TypeOK, TxRecord, Current, Install
<1>1. r \in Record
    BY <1>0 DEF Record, TxRecord
<1>2. /\ history' \in Seq(Record) /\ Current' = n
      /\ history'[n] = r
      /\ \A c \in 1 .. Current : history'[c] = history[c]
    BY <1>0, <1>1, AppendKeeps DEF Install, Current
<1> HIDE DEF r
<1>3. TypeOK'
  <2>1. tx' \in [Txns -> TxRecord]
    BY <1>0, Zenon DEF Over, TxRecord
  <2>2. n \in Seqs /\ latest' \in [Blocks -> Seqs]
    BY <1>0 DEF IInv, TypeOK, Install, Seqs
  <2>3. ssiLog' \in SUBSET Seqs
    BY <2>2, Zenon DEF IInv, TypeOK, Install
  <2>4. ASSUME NEW c \in ssiLog' PROVE c \in 1 .. n /\ history'[c].ssi
    <3>1. CASE c \in ssiLog
      BY <1>0, <1>2, <3>1 DEF IInv, TypeOK
    <3>2. CASE c = n /\ ssi
      BY <1>0, <1>2, <3>2 DEF r
    <3> QED BY <3>1, <3>2, Zenon DEF Install
  <2>5. Len(history') <= MaxCommit
    BY <1>0, <1>2 DEF Current
  <2> QED BY <1>2, <2>1, <2>2, <2>3, <2>4, <2>5 DEF IInv, TypeOK, TxRecord
<1>4. LogCovers'
  <2> SUFFICES ASSUME NEW u \in Txns, Protected(u)',
                      NEW c \in 1 .. n, Ssi(c)', c > tx'[u].snap
               PROVE  c \in ssiLog'
    BY <1>2 DEF LogCovers
  <2>1. u # t /\ tx'[u] = tx[u] /\ Protected(u)
    BY <1>0 DEF Over, Protected, Running, TxRecord
  <2>2. CASE c = n
    <3>1. ssi
      BY <1>2, <2>2 DEF Ssi, r
    <3> QED BY <2>2, <3>1 DEF Install
  <2>3. CASE c \in 1 .. Current
    BY <1>2, <2>1, <2>3, Zenon DEF IInv, LogCovers, Ssi, Install
  <2> QED BY <1>0, <2>2, <2>3
<1>5. NoLatePivot'
  <2> SUFFICES ASSUME NEW d \in 1 .. n, Ssi(d)', history'[d].writes # {},
                      sharded => history'[d].reg,
                      NEW c \in 1 .. n, NEW e \in 1 .. n, Ssi(c)', Ssi(e)',
                      Concurrent(c, d)', Concurrent(e, d)'
               PROVE  \/ history'[c].reads \cap history'[d].writes = {}
                      \/ history'[e].writes \cap history'[d].reads = {}
    BY <1>2 DEF NoLatePivot
  <2>1. c \in 1 .. Current /\ e \in 1 .. Current
    BY <1>0 DEF Concurrent
  <2>2. history'[c] = history[c] /\ history'[e] = history[e] /\ Ssi(c) /\ Ssi(e)
    BY <1>2, <2>1 DEF Ssi
  <2>3. CASE d \in 1 .. Current
    BY <1>2, <2>1, <2>2, <2>3 DEF IInv, NoLatePivot, Ssi, Concurrent
  <2>4. CASE d = n
    <3>1. history'[d] = r /\ ssi /\ tx[t].writes # {} /\ Protected(t)
      BY <1>2, <2>4 DEF Ssi, Protected, r
    <3>2. c > tx[t].snap /\ e > tx[t].snap
      BY <1>0, <2>1, <3>1 DEF Concurrent, r, TxRecord, Seqs
    <3>3. c \in ssiLog /\ e \in ssiLog
      BY <2>1, <2>2, <3>1, <3>2 DEF IInv, LogCovers
    <3> QED BY <2>2, <3>1, <3>2, <3>3 DEF DangerousStructure, r
  <2> QED BY <1>0, <2>3, <2>4
<1> QED BY <1>3, <1>4, <1>5 DEF IInv

\* commit_ssi and commit.
LEMMA CommitSteps ==
    ASSUME IInv, NEW t \in Txns, CommitSsi(t) \/ CommitFcw(t)
    PROVE  IInv'
<1>1. CASE CommitSsi(t)
    BY <1>1, RefusedStep, InstallStep, Zenon DEF CommitSsi
<1>2. CASE CommitFcw(t)
    BY <1>2, RefusedStep, InstallStep, Zenon DEF CommitFcw
<1> QED BY <1>1, <1>2

\* Pruning removes only records that no protected transaction looks at.
LEMMA PruneStep ==
    ASSUME IInv, NEW wm \in Seqs, PruneLog(wm)
    PROVE  IInv'
<1>0. wm \in Nat /\ Current \in Nat /\ tx \in [Txns -> TxRecord]
    BY SsiAssumption DEF Seqs, IInv, TypeOK, Current, TxRecord
<1>1. \A t \in Txns : Protected(t) => wm <= tx[t].snap
  <2> SUFFICES ASSUME NEW t \in Txns, Protected(t) PROVE wm <= tx[t].snap
    OBVIOUS
  <2>1. CASE ~ sharded
    BY <1>0, <2>1, SsiAssumption DEF PruneLog, Protected, TxRecord, Seqs
  <2>2. CASE sharded
    <3>1. tx[t].snap \in Pins
      BY <2>2 DEF Pins, Protected
    <3> QED BY <3>1 DEF PruneLog, IsWatermark
  <2> QED BY <2>1, <2>2
<1>2. TypeOK'
    BY DEF IInv, TypeOK, PruneLog, Current
<1>3. LogCovers'
  <2> SUFFICES ASSUME NEW t \in Txns, Protected(t), NEW c \in 1 .. Current,
                      Ssi(c), c > tx[t].snap
               PROVE  c \in ssiLog /\ c > wm
    BY DEF PruneLog, LogCovers, Protected, Running, Ssi, Current
  <2> QED BY <1>0, <1>1, SsiAssumption DEF IInv, LogCovers, TxRecord, Seqs
<1>4. NoLatePivot'
    BY DEF IInv, NoLatePivot, PruneLog, Ssi, Concurrent, Current
<1> QED BY <1>2, <1>3, <1>4 DEF IInv

\* A stuttering step keeps the invariant.
LEMMA Stuttering == IInv /\ UNCHANGED vars => IInv'
<1> SUFFICES ASSUME IInv, UNCHANGED vars PROVE IInv'
    OBVIOUS
<1> QED BY DEF vars, IInv, TypeOK, LogCovers, NoLatePivot, Protected, Running, Ssi, Concurrent,
               Current

-----------------------------------------------------------------------------
(* The theorems *)

\* The log that commit_ssi consults is complete for every protected
\* transaction, through commits and pruning in any order.
THEOREM Invariance == Spec => []IInv
<1>1. IInv /\ [Next]_vars => IInv'
    BY TxnSteps, CommitSteps, PruneStep, Stuttering DEF Next
<1> QED BY InitIInv, <1>1, PTL DEF Spec

\* The state of the serializable store has its shape, and the log names only
\* commits made through commit_ssi.
THEOREM TypeCorrect == Spec => []TypeOK
<1>1. IInv => TypeOK
    BY DEF IInv
<1> QED BY Invariance, <1>1, PTL

\* commit_ssi admits no transaction as the pivot of two rw edges with
\* transactions that committed during its life, whatever prune_ssi_log and
\* prune_safe removed meanwhile.
THEOREM Serializable == Spec => []NoLatePivot
<1>1. IInv => NoLatePivot
    BY DEF IInv
<1> QED BY Invariance, <1>1, PTL
=============================================================================
