--------------------------- MODULE MvccExactProofs ---------------------------
(***************************************************************************)
(* More about MvccStore for every value of the constants: the reference    *)
(* counts of snapshots balance, and, as long as chains are evicted only    *)
(* while every running transaction has its pin, no committed write is ever *)
(* lost: versions, merge bases and the device hold exactly what the        *)
(* history says.                                                           *)
(***************************************************************************)
EXTENDS MvccStoreProofs, FiniteSetTheorems

-----------------------------------------------------------------------------
(* Reference counts *)

LiveAt(s) == {r \in Readers : readers[r].st = "live" /\ readers[r].snap = s}
RegisteredAt(s) == {t \in Txns : tx[t].reg /\ tx[t].snap = s}

\* RefcountBalance, with what it needs: a transaction holds no pin before it
\* begins.
Balance ==
    /\ RefcountBalance
    /\ \A t \in Txns : tx[t].st = "idle" => ~ tx[t].reg

\* A snapshot has finitely many holders.
LEMMA HoldersFinite ==
    ASSUME NEW s
    PROVE  /\ IsFiniteSet(LiveAt(s)) /\ IsFiniteSet(RegisteredAt(s))
           /\ Cardinality(LiveAt(s)) \in Nat /\ Cardinality(RegisteredAt(s)) \in Nat
<1>1. LiveAt(s) \in SUBSET Readers /\ RegisteredAt(s) \in SUBSET Txns
    BY DEF LiveAt, RegisteredAt
<1>2. IsFiniteSet(LiveAt(s)) /\ IsFiniteSet(RegisteredAt(s))
    BY <1>1, ConstantsAssumption, FS_Subset
<1> QED BY <1>2, FS_CardinalityType

\* RefcountBalance in terms of the sets of holders.
LEMMA BalanceAt ==
    /\ RefcountBalance <=> \A s \in Seqs :
          active[s] + forced[s] = Cardinality(LiveAt(s)) + Cardinality(RegisteredAt(s))
    /\ RefcountBalance' <=> \A s \in Seqs :
          active'[s] + forced'[s] = Cardinality(LiveAt(s)') + Cardinality(RegisteredAt(s)')
BY DEF RefcountBalance, LiveAt, RegisteredAt

\* The same holders and, per snapshot, the same number of references.
LEMMA SameHolders ==
    ASSUME RefcountBalance,
           \A s \in Seqs : active'[s] + forced'[s] = active[s] + forced[s],
           \A s \in Seqs : LiveAt(s)' = LiveAt(s) /\ RegisteredAt(s)' = RegisteredAt(s)
    PROVE  RefcountBalance'
<1>1. \A s \in Seqs :
          active'[s] + forced'[s] = Cardinality(LiveAt(s)') + Cardinality(RegisteredAt(s)')
    BY BalanceAt
<1> QED BY <1>1, BalanceAt

\* One holder and one reference more.
LEMMA HolderAdded ==
    ASSUME TypeOK, RefcountBalance, NEW s0 \in Seqs, NEW h,
           active' = Registered(s0), UNCHANGED forced,
           \A s \in Seqs : s # s0 => LiveAt(s)' = LiveAt(s) /\ RegisteredAt(s)' = RegisteredAt(s),
           \/ /\ h \notin LiveAt(s0) /\ LiveAt(s0)' = LiveAt(s0) \cup {h}
              /\ RegisteredAt(s0)' = RegisteredAt(s0)
           \/ /\ h \notin RegisteredAt(s0) /\ RegisteredAt(s0)' = RegisteredAt(s0) \cup {h}
              /\ LiveAt(s0)' = LiveAt(s0)
    PROVE  RefcountBalance'
<1>1. active \in [Seqs -> Nat] /\ forced \in [Seqs -> Nat]
    BY DEF TypeOK
<1>2. active'[s0] = active[s0] + 1 /\ \A s \in Seqs : s # s0 => active'[s] = active[s]
    BY <1>1 DEF Registered
<1>3. IsFiniteSet(LiveAt(s0)) /\ IsFiniteSet(RegisteredAt(s0))
      /\ Cardinality(LiveAt(s0)) \in Nat /\ Cardinality(RegisteredAt(s0)) \in Nat
    BY HoldersFinite
<1>4. h \notin LiveAt(s0) => Cardinality(LiveAt(s0) \cup {h}) = Cardinality(LiveAt(s0)) + 1
    BY <1>3, FS_AddElement, Zenon
<1>5. h \notin RegisteredAt(s0) =>
          Cardinality(RegisteredAt(s0) \cup {h}) = Cardinality(RegisteredAt(s0)) + 1
    BY <1>3, FS_AddElement, Zenon
<1>6. \/ /\ Cardinality(LiveAt(s0)') = Cardinality(LiveAt(s0)) + 1
         /\ Cardinality(RegisteredAt(s0)') = Cardinality(RegisteredAt(s0))
      \/ /\ Cardinality(RegisteredAt(s0)') = Cardinality(RegisteredAt(s0)) + 1
         /\ Cardinality(LiveAt(s0)') = Cardinality(LiveAt(s0))
    BY <1>4, <1>5, Zenon
<1>7. ASSUME NEW s \in Seqs
      PROVE  active'[s] + forced'[s] = Cardinality(LiveAt(s)') + Cardinality(RegisteredAt(s)')
  <2>1. active[s] + forced[s] = Cardinality(LiveAt(s)) + Cardinality(RegisteredAt(s))
    BY BalanceAt
  <2>2. CASE s = s0
    BY <1>1, <1>2, <1>3, <1>6, <2>1, <2>2
  <2>3. CASE s # s0
    BY <1>2, <2>1, <2>3, Zenon
  <2> QED BY <2>2, <2>3
<1> QED BY <1>7, BalanceAt

\* One holder less: release_snapshot finds its reference, active or forced out.
LEMMA HolderReleased ==
    ASSUME TypeOK, RefcountBalance, NEW s0 \in Seqs, NEW h, ReleaseSnapshot(s0),
           \A s \in Seqs : s # s0 => LiveAt(s)' = LiveAt(s) /\ RegisteredAt(s)' = RegisteredAt(s),
           \/ /\ h \in LiveAt(s0) /\ LiveAt(s0)' = LiveAt(s0) \ {h}
              /\ RegisteredAt(s0)' = RegisteredAt(s0)
           \/ /\ h \in RegisteredAt(s0) /\ RegisteredAt(s0)' = RegisteredAt(s0) \ {h}
              /\ LiveAt(s0)' = LiveAt(s0)
    PROVE  /\ RefcountBalance'
           /\ active[s0] + forced[s0] > 0
<1>1. active \in [Seqs -> Nat] /\ forced \in [Seqs -> Nat]
    BY DEF TypeOK
<1>2. IsFiniteSet(LiveAt(s0)) /\ IsFiniteSet(RegisteredAt(s0))
      /\ Cardinality(LiveAt(s0)) \in Nat /\ Cardinality(RegisteredAt(s0)) \in Nat
    BY HoldersFinite
<1>3. h \in LiveAt(s0) => /\ Cardinality(LiveAt(s0) \ {h}) = Cardinality(LiveAt(s0)) - 1
                          /\ Cardinality(LiveAt(s0)) # 0
    BY <1>2, FS_RemoveElement, FS_EmptySet
<1>4. h \in RegisteredAt(s0) =>
          /\ Cardinality(RegisteredAt(s0) \ {h}) = Cardinality(RegisteredAt(s0)) - 1
          /\ Cardinality(RegisteredAt(s0)) # 0
    BY <1>2, FS_RemoveElement, FS_EmptySet, Zenon
<1>5. \/ /\ Cardinality(LiveAt(s0)') = Cardinality(LiveAt(s0)) - 1
         /\ Cardinality(LiveAt(s0)) # 0
         /\ Cardinality(RegisteredAt(s0)') = Cardinality(RegisteredAt(s0))
      \/ /\ Cardinality(RegisteredAt(s0)') = Cardinality(RegisteredAt(s0)) - 1
         /\ Cardinality(RegisteredAt(s0)) # 0
         /\ Cardinality(LiveAt(s0)') = Cardinality(LiveAt(s0))
    BY <1>3, <1>4, Zenon
<1>6. active[s0] + forced[s0] = Cardinality(LiveAt(s0)) + Cardinality(RegisteredAt(s0))
    BY BalanceAt
<1>7. active[s0] + forced[s0] > 0
    BY <1>1, <1>2, <1>5, <1>6
<1>8. /\ active'[s0] + forced'[s0] = active[s0] + forced[s0] - 1
      /\ \A s \in Seqs : s # s0 => active'[s] = active[s] /\ forced'[s] = forced[s]
  <2>1. CASE active[s0] > 0
    BY <1>1, <2>1 DEF ReleaseSnapshot
  <2>2. CASE ~ (active[s0] > 0)
    <3>1. forced[s0] > 0
      BY <1>1, <1>7, <2>2
    <3> QED BY <1>1, <2>2, <3>1 DEF ReleaseSnapshot
  <2> QED BY <2>1, <2>2
<1>9. ASSUME NEW s \in Seqs
      PROVE  active'[s] + forced'[s] = Cardinality(LiveAt(s)') + Cardinality(RegisteredAt(s)')
  <2>1. active[s] + forced[s] = Cardinality(LiveAt(s)) + Cardinality(RegisteredAt(s))
    BY BalanceAt
  <2>2. CASE s = s0
    BY <1>1, <1>2, <1>5, <1>6, <1>8, <2>2, SMTT(30)
  <2>3. CASE s # s0
    BY <1>8, <2>1, <2>3, Zenon
  <2> QED BY <2>2, <2>3
<1> QED BY <1>7, <1>9, BalanceAt, Zenon

\* A step keeps the pins of all transactions, and begins none.
KeepsPins ==
    \A u \in Txns : /\ tx'[u].reg = tx[u].reg /\ tx'[u].snap = tx[u].snap
                    /\ tx'[u].st = "idle" => tx[u].st = "idle"

\* A step that moves references between active and forced keeps the balance.
LEMMA PinsKept ==
    ASSUME Balance, KeepsPins, UNCHANGED readers,
           \A s \in Seqs : active'[s] + forced'[s] = active[s] + forced[s]
    PROVE  Balance'
<1>1. \A s \in Seqs : LiveAt(s)' = LiveAt(s) /\ RegisteredAt(s)' = RegisteredAt(s)
    BY DEF LiveAt, RegisteredAt, KeepsPins
<1>2. RefcountBalance'
    BY <1>1, SameHolders DEF Balance
<1>3. \A t \in Txns : tx'[t].st = "idle" => ~ tx'[t].reg
    BY DEF Balance, KeepsPins
<1> QED BY <1>2, <1>3 DEF Balance

\* What staging, fallback reads and aborts do to a transaction's pin: nothing.
LEMMA QuietTxn ==
    ASSUME IInv, NEW t \in Txns,
           \/ \E b \in Blocks : StageBlind(t, b) \/ FallbackProbe(t, b)
           \/ \E S \in SUBSET Slots : \E proof \in ProofFor(S) :
                 \/ FallbackStage(t, S, proof)
                 \/ \E b \in Blocks : StageWrite(t, b, S, proof)
           \/ FallbackRead(t)
           \/ Abort(t)
    PROVE  /\ KeepsPins /\ tx[t].st = "active" /\ lock.holder # t
           /\ \A u \in Txns : u # t => tx'[u] = tx[u]
           /\ UNCHANGED <<nextCommit, versions, active, forced, readers, lock,
                          device, flushed, gcCount, log>>
<1>0. tx \in [Txns -> Transaction] /\ tx[t] \in Transaction
    BY DEF IInv, TypeOK
<1>1. ASSUME NEW b, NEW w, StageInto(t, b, w), tx[t].st = "active"
      PROVE  KeepsPins /\ \A u \in Txns : u # t => tx'[u] = tx[u]
  <2>1. \A u \in Txns : u # t => tx'[u] = tx[u]
    BY <1>0, <1>1, Zenon DEF StageInto
  <2>2. tx'[t].reg = tx[t].reg /\ tx'[t].snap = tx[t].snap /\ tx'[t].st = tx[t].st
    BY <1>0, <1>1, Zenon DEF StageInto, Transaction
  <2> QED BY <1>1, <2>1, <2>2, Zenon DEF KeepsPins
<1>2. ASSUME Doomed(t)
      PROVE  KeepsPins /\ \A u \in Txns : u # t => tx'[u] = tx[u]
  <2>1. \A u \in Txns : u # t => tx'[u] = tx[u]
    BY <1>0, <1>2 DEF Doomed
  <2>2. tx'[t].reg = tx[t].reg /\ tx'[t].snap = tx[t].snap /\ tx'[t].st = "failed"
    BY <1>0, <1>2, Zenon DEF Doomed, Transaction
  <2> QED BY <2>1, <2>2 DEF KeepsPins
<1>3. ASSUME NEW b \in Blocks, StageBlind(t, b)
      PROVE  KeepsPins /\ \A u \in Txns : u # t => tx'[u] = tx[u]
    BY <1>1, <1>3, Zenon DEF StageBlind, Running
<1>4. ASSUME NEW b \in Blocks, FallbackProbe(t, b)
      PROVE  KeepsPins /\ \A u \in Txns : u # t => tx'[u] = tx[u]
  <2>1. CASE Doomed(t)
    BY <1>2, <2>1
  <2>2. CASE tx' = [tx EXCEPT ![t].fb = [step |-> "probed", block |-> b, data |-> None]]
    <3>1. \A u \in Txns : u # t => tx'[u] = tx[u]
      BY <1>0, <2>2
    <3>2. tx'[t].reg = tx[t].reg /\ tx'[t].snap = tx[t].snap /\ tx'[t].st = tx[t].st
      BY <1>0, <2>2, Zenon DEF Transaction
    <3> QED BY <3>1, <3>2 DEF KeepsPins
  <2> QED BY <1>4, <2>1, <2>2, Zenon DEF FallbackProbe
<1>5. ASSUME NEW S, NEW proof, FallbackStage(t, S, proof)
      PROVE  KeepsPins /\ \A u \in Txns : u # t => tx'[u] = tx[u]
    BY <1>1, <1>2, <1>5, Zenon DEF FallbackStage, Running
<1>6. ASSUME NEW S, NEW proof, NEW b, StageWrite(t, b, S, proof)
      PROVE  KeepsPins /\ \A u \in Txns : u # t => tx'[u] = tx[u]
    BY <1>1, <1>6, Zenon DEF StageWrite, Running
<1>7. CASE FallbackRead(t)
  <2>1. \A u \in Txns : u # t => tx'[u] = tx[u]
    BY <1>0, <1>7 DEF FallbackRead
  <2>2. tx'[t].reg = tx[t].reg /\ tx'[t].snap = tx[t].snap /\ tx'[t].st = tx[t].st
    BY <1>0, <1>7, Zenon DEF FallbackRead, Transaction
  <2> QED BY <1>7, <2>1, <2>2, Zenon DEF KeepsPins, FallbackRead, Running
<1>8. CASE Abort(t)
    BY <1>2, <1>8, Zenon DEF Abort, Running
<1>9. /\ tx[t].st = "active" /\ lock.holder # t
      /\ UNCHANGED <<nextCommit, versions, active, forced, readers, lock,
                     device, flushed, gcCount, log>>
    BY Zenon DEF StageBlind, FallbackProbe, FallbackStage, StageWrite, FallbackRead, Abort, Running
<1>10. KeepsPins /\ \A u \in Txns : u # t => tx'[u] = tx[u]
    BY <1>3, <1>4, <1>5, <1>6, <1>7, <1>8, Zenon
<1> QED BY <1>9, <1>10

\* The steps of one transaction: begin adds a holder, the end of its scope
\* removes it.
LEMMA TxnBalance ==
    ASSUME IInv, Balance, NEW t \in Txns, TxnStep(t)
    PROVE  Balance'
<1>0. /\ TypeOK /\ tx \in [Txns -> Transaction] /\ tx[t] \in Transaction
      /\ CurrentSnapshot \in Seqs /\ tx[t].snap \in Seqs
    BY TypeFacts, Zenon DEF IInv, TypeOK, Transaction
<1>1. CASE Begin(t)
  <2>1. /\ ~ tx[t].reg /\ tx'[t].reg = tx[t].reg /\ tx'[t].st = "active"
        /\ \A u \in Txns : u # t => tx'[u] = tx[u]
    BY <1>0, <1>1 DEF Begin, Balance, Transaction
  <2>2. UNCHANGED <<active, forced, readers>>
    BY <1>1 DEF Begin
  <2>3. \A s \in Seqs : LiveAt(s)' = LiveAt(s) /\ RegisteredAt(s)' = RegisteredAt(s)
    BY <2>1, <2>2 DEF LiveAt, RegisteredAt
  <2>4. RefcountBalance'
    BY <2>2, <2>3, SameHolders DEF Balance
  <2> QED BY <2>1, <2>4, Zenon DEF Balance
<1>2. CASE BeginRegistered(t)
  <2>1. /\ ~ tx[t].reg /\ tx'[t].reg /\ tx'[t].st = "active" /\ tx'[t].snap = CurrentSnapshot
        /\ \A u \in Txns : u # t => tx'[u] = tx[u]
    BY <1>0, <1>2 DEF BeginRegistered, Balance, Transaction
  <2>2. UNCHANGED <<forced, readers>> /\ active' = Registered(CurrentSnapshot)
    BY <1>2 DEF BeginRegistered
  <2>3. \A s \in Seqs : LiveAt(s)' = LiveAt(s)
    BY <2>2 DEF LiveAt
  <2>4. /\ \A s \in Seqs : s # CurrentSnapshot => RegisteredAt(s)' = RegisteredAt(s)
        /\ t \notin RegisteredAt(CurrentSnapshot)
    BY <2>1 DEF RegisteredAt
  <2>5. {u \in Txns : tx'[u].reg /\ tx'[u].snap = CurrentSnapshot}
            = RegisteredAt(CurrentSnapshot) \cup {t}
    BY <2>1 DEF RegisteredAt
  <2>6. CurrentSnapshot' = CurrentSnapshot
    BY <1>2 DEF BeginRegistered, CurrentSnapshot
  <2>7. RegisteredAt(CurrentSnapshot)' = RegisteredAt(CurrentSnapshot) \cup {t}
        /\ LiveAt(CurrentSnapshot)' = LiveAt(CurrentSnapshot)
    BY <2>2, <2>5, <2>6, Zenon DEF RegisteredAt, LiveAt
  <2> DEFINE s0 == CurrentSnapshot
  <2>8. RefcountBalance'
    <3>1. s0 \in Seqs /\ s0' = s0
      BY <1>0, <2>6
    <3>2. LiveAt(s0)' = LiveAt(s0) /\ RegisteredAt(s0)' = RegisteredAt(s0) \cup {t}
      BY <2>7
    <3> QED BY <1>0, <2>2, <2>3, <2>4, <2>5, <3>1, <3>2, HolderAdded, Zenon DEF Balance
  <2> QED BY <2>1, <2>8 DEF Balance
<1>3. CASE EndScope(t)
  <2>1. /\ tx[t].reg /\ ~ tx'[t].reg /\ tx'[t].st = tx[t].st /\ tx[t].st # "idle"
        /\ \A u \in Txns : u # t => tx'[u] = tx[u]
    BY <1>0, <1>3 DEF EndScope, Transaction
  <2> DEFINE s0 == tx[t].snap
  <2>2. UNCHANGED readers /\ ReleaseSnapshot(s0)
    BY <1>3 DEF EndScope
  <2>3. PICK k \in Seqs : k = s0
    BY <1>0
  <2>4. \A s \in Seqs : LiveAt(s)' = LiveAt(s)
    BY <2>2 DEF LiveAt
  <2>5. /\ \A s \in Seqs : s # k => RegisteredAt(s)' = RegisteredAt(s)
        /\ t \in RegisteredAt(k)
        /\ RegisteredAt(k)' = RegisteredAt(k) \ {t}
    BY <2>1, <2>3, Zenon DEF RegisteredAt
  <2>6. RefcountBalance'
    BY <1>0, <2>2, <2>3, <2>4, <2>5, HolderReleased, Zenon DEF Balance
  <2> QED BY <2>1, <2>6 DEF Balance
<1>4. CASE ~ (Begin(t) \/ BeginRegistered(t) \/ EndScope(t))
  <2>1. KeepsPins /\ UNCHANGED <<active, forced, readers>>
    BY <1>4, QuietTxn DEF TxnStep
  <2> QED BY <2>1, PinsKept, Zenon
<1> QED BY <1>1, <1>2, <1>3, <1>4, Zenon

\* Forcing the oldest snapshot out moves one reference.
LEMMA ForcedSum ==
    ASSUME TypeOK, NEW s \in Seqs
    PROVE  ForcedActive[s] + ForcedReleases[s] = active[s] + forced[s]
<1>1. active \in [Seqs -> Nat] /\ forced \in [Seqs -> Nat]
    BY DEF TypeOK
<1>2. CASE ActiveSeqs(active) = {}
    BY <1>2 DEF ForcedActive, ForcedReleases
<1>3. CASE ActiveSeqs(active) # {}
  <2> DEFINE m == MinSeq(ActiveSeqs(active))
  <2>1. ForcedActive = [active EXCEPT ![m] = @ - 1] /\ ForcedReleases = [forced EXCEPT ![m] = @ + 1]
    BY <1>3 DEF ForcedActive, ForcedReleases
  <2> HIDE DEF m
  <2>2. CASE s = m
    BY <1>1, <2>1, <2>2
  <2>3. CASE s # m
    BY <1>1, <2>1, <2>3, Zenon
  <2> QED BY <2>2, <2>3
<1> QED BY <1>2, <1>3

\* The three things a step of a commit may do.
CommitGoesOn(t) ==
    /\ UNCHANGED <<nextCommit, versions, tx, readers, device, flushed, log>>
    /\ lock'.holder = t /\ lock'.phase # "free"
    /\ Running(t) \/ (lock.holder = t /\ lock.phase # "free")

CommitRefused(t) ==
    /\ FailCommit(t)
    /\ UNCHANGED <<nextCommit, versions, readers, device, flushed, log>>

CommitInstalls(t, policy) ==
    /\ Install(t) /\ lock.holder = t /\ lock.phase # "free"
    /\ \A b \in WriteSet(t) : Resolves(t, b, ApplyBase(t, b), policy)
    /\ UNCHANGED <<active, forced, readers, device, flushed>>

\* What a step of commit does to transaction, snapshots and chains.
LEMMA CommitShape ==
    ASSUME IInv, NEW t \in Txns, CommitStep(t)
    PROVE  /\ \/ CommitGoesOn(t) \/ CommitRefused(t)
              \/ \E policy \in Policies : CommitInstalls(t, policy)
           /\ \/ UNCHANGED <<active, forced>>
              \/ active' = ForcedActive /\ forced' = ForcedReleases
<1>0. lock \in LockType
    BY DEF IInv, TypeOK, LockType
<1>1. ASSUME NEW mode \in Modes, NEW policy \in Policies, LockCommit(t, mode, policy)
      PROVE  CommitGoesOn(t) /\ UNCHANGED <<active, forced>>
    BY <1>1 DEF LockCommit, CommitGoesOn
<1>2. CASE PreflightBlock(t)
  <2> DEFINE next == [lock EXCEPT !.todo = @ \ {MinSeq(lock.todo)}]
  <2>1. next.holder = lock.holder /\ next.phase = lock.phase
    BY <1>0 DEF LockType
  <2>2. /\ lock.holder = t /\ lock.phase # "free"
        /\ FailCommit(t) \/ (lock' = next /\ UNCHANGED tx)
        /\ \/ UNCHANGED <<active, forced>>
           \/ active' = ForcedActive /\ forced' = ForcedReleases
        /\ UNCHANGED <<nextCommit, versions, readers, device, flushed, log>>
    BY <1>2 DEF PreflightBlock
  <2> QED BY <2>1, <2>2, Zenon DEF CommitGoesOn, CommitRefused
<1>3. ASSUME NEW policy \in Policies, ApplyCommit(t, policy)
      PROVE  /\ CommitRefused(t) \/ CommitInstalls(t, policy)
             /\ UNCHANGED <<active, forced>>
  <2>1. lock.holder = t /\ lock.phase # "free"
        /\ UNCHANGED <<active, forced, readers, device, flushed>>
    BY <1>3, Zenon DEF ApplyCommit
  <2>2. CASE \A b \in WriteSet(t) : Resolves(t, b, ApplyBase(t, b), policy)
    BY <1>3, <2>1, <2>2, Zenon DEF ApplyCommit, CommitInstalls
  <2>3. CASE ~ \A b \in WriteSet(t) : Resolves(t, b, ApplyBase(t, b), policy)
    BY <1>3, <2>1, <2>3 DEF ApplyCommit, CommitRefused
  <2> QED BY <2>2, <2>3
<1>4. ASSUME NEW policy \in Policies, JournalWrite(t, policy)
      PROVE  /\ CommitRefused(t) \/ CommitGoesOn(t)
             /\ UNCHANGED <<active, forced>>
  <2>1. [lock EXCEPT !.phase = "journaled"].holder = lock.holder
        /\ [lock EXCEPT !.phase = "journaled"].phase = "journaled"
    BY <1>0 DEF LockType
  <2>2. /\ lock.holder = t /\ lock.phase # "free"
        /\ FailCommit(t) \/ (lock' = [lock EXCEPT !.phase = "journaled"] /\ UNCHANGED tx)
        /\ UNCHANGED <<nextCommit, versions, active, forced, readers, device, flushed, log>>
    BY <1>4 DEF JournalWrite
  <2> QED BY <2>1, <2>2, Zenon DEF CommitGoesOn, CommitRefused
<1>5. CASE JournalFail(t)
    BY <1>5, Zenon DEF JournalFail, CommitRefused
<1> QED BY <1>1, <1>2, <1>3, <1>4, <1>5, Zenon DEF CommitStep

\* Of the transactions a commit changes the state of its own.
LEMMA CommitTx ==
    ASSUME IInv, NEW t \in Txns,
           \/ CommitGoesOn(t) \/ CommitRefused(t)
           \/ \E policy \in Policies : CommitInstalls(t, policy)
    PROVE  /\ KeepsPins /\ UNCHANGED readers
           /\ \A u \in Txns : u # t => tx'[u] = tx[u]
           /\ CommitRefused(t) => tx'[t].st = "failed"
           /\ \A policy \in Policies : CommitInstalls(t, policy) => tx'[t].st = "committed"
<1>0. tx \in [Txns -> Transaction] /\ tx[t] \in Transaction
    BY DEF IInv, TypeOK
<1>1. ASSUME NEW e \in {"failed", "committed"}, tx' = [tx EXCEPT ![t].st = e]
      PROVE  /\ KeepsPins /\ tx'[t].st = e
             /\ \A u \in Txns : u # t => tx'[u] = tx[u]
  <2>1. /\ tx'[t].reg = tx[t].reg /\ tx'[t].snap = tx[t].snap /\ tx'[t].st = e
        /\ \A u \in Txns : u # t => tx'[u] = tx[u]
    BY <1>0, <1>1, Zenon DEF Transaction
  <2> QED BY <2>1 DEF KeepsPins
<1>2. CASE CommitGoesOn(t)
  <2>1. tx' = tx /\ UNCHANGED readers
    BY <1>2 DEF CommitGoesOn
  <2>2. ~ CommitRefused(t) /\ \A policy \in Policies : ~ CommitInstalls(t, policy)
    BY <1>2 DEF CommitGoesOn, CommitRefused, CommitInstalls, FailCommit, Install, Unlocked
  <2> QED BY <2>1, <2>2, Zenon DEF KeepsPins
<1>3. CASE CommitRefused(t)
  <2>1. tx' = [tx EXCEPT ![t].st = "failed"] /\ UNCHANGED <<readers, nextCommit>>
    BY <1>3 DEF CommitRefused, FailCommit
  <2>2. \A policy \in Policies : ~ CommitInstalls(t, policy)
    BY <2>1, TypeFacts DEF IInv, CommitInstalls, Install
  <2> QED BY <1>1, <2>1, <2>2, Zenon
<1>4. ASSUME NEW policy \in Policies, CommitInstalls(t, policy)
      PROVE  /\ KeepsPins /\ UNCHANGED readers /\ ~ CommitRefused(t)
             /\ \A u \in Txns : u # t => tx'[u] = tx[u]
             /\ tx'[t].st = "committed"
  <2>1. tx' = [tx EXCEPT ![t].st = "committed"] /\ UNCHANGED readers
        /\ nextCommit' = nextCommit + 1
    BY <1>4 DEF CommitInstalls, Install
  <2>2. ~ CommitRefused(t)
    BY <2>1, TypeFacts DEF IInv, CommitRefused
  <2> QED BY <1>1, <2>1, <2>2, Zenon
<1> QED BY <1>2, <1>3, <1>4, Zenon

\* A commit moves references by forced release only; its own pin stays until
\* the scope ends.
LEMMA CommitBalance ==
    ASSUME IInv, Balance, NEW t \in Txns, CommitStep(t)
    PROVE  Balance'
<1>1. KeepsPins /\ UNCHANGED readers
    BY CommitShape, CommitTx, Zenon
<1>2. \A s \in Seqs : active'[s] + forced'[s] = active[s] + forced[s]
    BY CommitShape, ForcedSum, Zenon DEF IInv
<1> QED BY <1>1, <1>2, PinsKept, Zenon

\* register_snapshot and release_snapshot.
LEMMA ReaderBalance ==
    ASSUME IInv, Balance, NEW r \in Readers, Register(r) \/ Release(r)
    PROVE  Balance'
<1>0. /\ TypeOK /\ readers \in ReaderType /\ CurrentSnapshot \in Seqs /\ readers[r].snap \in Seqs
    BY TypeFacts, Zenon DEF IInv, TypeOK, ReaderType
<1>1. UNCHANGED tx
    BY DEF Register, Release
<1>2. \A s \in Seqs : RegisteredAt(s)' = RegisteredAt(s)
    BY <1>1 DEF RegisteredAt
<1>3. RefcountBalance => RefcountBalance'
  <2>1. CASE Register(r)
    <3>1. PICK k \in Seqs : k = CurrentSnapshot
      BY <1>0, Zenon
    <3>2. /\ readers[r].st = "idle" /\ readers'[r].st = "live" /\ readers'[r].snap = k
          /\ \A q \in Readers : q # r => readers'[q] = readers[q]
      BY <1>0, <2>1, <3>1, Zenon DEF Register, ReaderType
    <3>3. UNCHANGED forced /\ active' = Registered(k)
      BY <2>1, <3>1, Zenon DEF Register
    <3>4. /\ \A s \in Seqs : s # k => LiveAt(s)' = LiveAt(s)
          /\ r \notin LiveAt(k) /\ LiveAt(k)' = LiveAt(k) \cup {r}
      BY <3>2, Zenon DEF LiveAt
    <3> QED BY <1>0, <1>2, <3>3, <3>4, HolderAdded, Zenon
  <2>2. CASE Release(r)
    <3>1. PICK k \in Seqs : k = readers[r].snap
      BY <1>0
    <3>2. /\ readers[r].st = "live" /\ readers'[r].st = "done"
          /\ \A q \in Readers : q # r => readers'[q] = readers[q]
      BY <1>0, <2>2 DEF Release, ReaderType
    <3>3. ReleaseSnapshot(k)
      BY <2>2, <3>1, Zenon DEF Release
    <3>4. /\ \A s \in Seqs : s # k => LiveAt(s)' = LiveAt(s)
          /\ r \in LiveAt(k) /\ LiveAt(k)' = LiveAt(k) \ {r}
      BY <3>1, <3>2, Zenon DEF LiveAt
    <3> QED BY <1>0, <1>2, <3>3, <3>4, HolderReleased, Zenon
  <2> QED BY <2>1, <2>2, Zenon
<1> QED BY <1>1, <1>3, Zenon DEF Balance

\* Every step keeps the balance.
LEMMA NextBalance == IInv /\ Balance /\ [Next]_vars => Balance'
<1> SUFFICES ASSUME IInv, Balance, [Next]_vars PROVE Balance'
    OBVIOUS
<1>1. ASSUME UNCHANGED <<active, forced, tx, readers>> PROVE Balance'
    BY <1>1 DEF Balance, RefcountBalance
<1>2. CASE UNCHANGED vars
    BY <1>1, <1>2, Zenon DEF vars
<1>3. CASE GcStep
    BY <1>1, <1>3, Zenon DEF GcStep, PruneSafe, EvictDurable, Flush, FlushFail
<1> QED BY <1>2, <1>3, TxnBalance, CommitBalance, ReaderBalance, Zenon DEF Next

\* The balance holds in every reachable state.
LEMMA BalanceInvariance == Spec => []Balance
<1>1. Init => Balance
  <2> SUFFICES ASSUME Init PROVE Balance
    OBVIOUS
  <2>1. \A s \in Seqs : LiveAt(s) = {} /\ RegisteredAt(s) = {}
    BY DEF Init, LiveAt, RegisteredAt
  <2>2. \A s \in Seqs : active[s] = 0 /\ forced[s] = 0
    BY DEF Init
  <2>3. RefcountBalance
    BY <2>1, <2>2, BalanceAt, FS_EmptySet, Zenon
  <2> QED BY <2>3 DEF Balance, Init
<1> QED BY <1>1, NextBalance, Invariance, PTL DEF Spec

\* Every registered holder is counted once, as active or as forced out, so that
\* release_snapshot always finds a reference: ref_count_underflow cannot happen.
THEOREM ReferencesBalance == Spec => []RefcountBalance
<1>1. Balance => RefcountBalance
    BY Zenon DEF Balance
<1> QED BY <1>1, BalanceInvariance, PTL

-----------------------------------------------------------------------------
(* The history: what a block must contain, as a function of the log *)

WritesIn(l, b, s) == {c \in 1 .. Len(l) : c <= s /\ b \in l[c].blocks}
SlotWrites(l, b, s, x) == {c \in WritesIn(l, b, s) : x \in l[c].slots[b]}
TruthIn(l, b, s) ==
    [x \in Slots |-> IF SlotWrites(l, b, s, x) = {} THEN NoTxn
                     ELSE l[MaxOf(SlotWrites(l, b, s, x))].txn]

\* Truth is a function of the log.
LEMMA TruthOfLog ==
    ASSUME NEW b, NEW s
    PROVE  Truth(b, s) = TruthIn(log, b, s) /\ Truth(b, s)' = TruthIn(log', b, s)
BY DEF Truth, TruthIn, SlotWrites, WritesUpTo, WritesIn

\* MaxOf returns the greatest element.
LEMMA MaxIs ==
    ASSUME NEW n \in Nat, NEW S, S \subseteq 1 .. n, S # {}
    PROVE  MaxOf(S) \in S /\ \A d \in S : d <= MaxOf(S)
<1>1. S \subseteq 0 .. n
    OBVIOUS
<1>2. \E m \in S : \A d \in S : d <= m
    BY <1>1, MaxExists, Zenon
<1> QED BY <1>2, Zenon DEF MaxOf

\* There is one greatest element only.
LEMMA MaxUnique ==
    ASSUME NEW n \in Nat, NEW S, S \subseteq 1 .. n, NEW m \in S, \A d \in S : d <= m
    PROVE  MaxOf(S) = m
<1>1. MaxOf(S) \in S /\ m <= MaxOf(S) /\ MaxOf(S) <= m
    BY MaxIs, Zenon
<1>2. \A d \in S : d \in Nat
    OBVIOUS
<1>3. \A x, y \in Nat : x <= y /\ y <= x => x = y
    OBVIOUS
<1> QED BY <1>1, <1>2, <1>3, Zenon

\* It depends on the commits up to s only: the same commits, the same contents.
LEMMA SameTruth ==
    ASSUME NEW l, NEW b, NEW s, NEW r, WritesIn(l, b, s) = WritesIn(l, b, r)
    PROVE  TruthIn(l, b, s) = TruthIn(l, b, r)
<1>1. \A x \in Slots : SlotWrites(l, b, s, x) = SlotWrites(l, b, r, x)
    BY DEF SlotWrites
<1> QED BY <1>1 DEF TruthIn

\* A later commit does not change it.
LEMMA AppendTruth ==
    ASSUME NEW l \in Seq(Record), NEW R \in Record, NEW b, NEW s \in Nat, s <= Len(l)
    PROVE  TruthIn(Append(l, R), b, s) = TruthIn(l, b, s)
<1> DEFINE k == Append(l, R)
<1>1. /\ Len(l) \in Nat /\ Len(k) = Len(l) + 1
      /\ \A c \in 1 .. Len(l) : k[c] = l[c]
    OBVIOUS
<1> HIDE DEF k
<1>2. WritesIn(k, b, s) = WritesIn(l, b, s)
    BY <1>1 DEF WritesIn
<1>3. WritesIn(l, b, s) \subseteq 1 .. Len(l)
    BY DEF WritesIn
<1>4. \A x \in Slots : SlotWrites(k, b, s, x) = SlotWrites(l, b, s, x)
    BY <1>1, <1>2, <1>3, Zenon DEF SlotWrites
<1>5. ASSUME NEW x \in Slots, SlotWrites(l, b, s, x) # {}
      PROVE  k[MaxOf(SlotWrites(l, b, s, x))] = l[MaxOf(SlotWrites(l, b, s, x))]
  <2>1. SlotWrites(l, b, s, x) \subseteq 1 .. Len(l)
    BY <1>3, Zenon DEF SlotWrites
  <2>2. MaxOf(SlotWrites(l, b, s, x)) \in 1 .. Len(l)
    BY <1>1, <1>5, <2>1, MaxIs, Zenon
  <2> QED BY <1>1, <2>2, Zenon
<1>6. TruthIn(k, b, s) = TruthIn(l, b, s)
    BY <1>4, <1>5, Zenon DEF TruthIn
<1> QED BY <1>6 DEF k

\* A commit sets the slots it wrote and leaves the others.
LEMMA PushTruth ==
    ASSUME NEW l \in Seq(Record), NEW R \in Record, NEW b, b \in R.blocks, NEW x \in Slots
    PROVE  TruthIn(Append(l, R), b, Len(l) + 1)[x]
               = IF x \in R.slots[b] THEN R.txn ELSE TruthIn(l, b, Len(l))[x]
<1> DEFINE k == Append(l, R)
           n == Len(l) + 1
           old == SlotWrites(l, b, Len(l), x)
           new == SlotWrites(k, b, n, x)
<1>1. /\ Len(l) \in Nat /\ n \in Nat /\ Len(k) = n /\ k[n] = R
      /\ \A c \in 1 .. Len(l) : k[c] = l[c]
      /\ \A c \in 1 .. n : c \in 1 .. Len(l) \/ c = n
      /\ n \in 1 .. n /\ \A c \in 1 .. Len(l) : c \in 1 .. n /\ c <= n /\ c <= Len(l)
    OBVIOUS
<1>2. TruthIn(k, b, n)[x] = IF new = {} THEN NoTxn ELSE k[MaxOf(new)].txn
    BY Zenon DEF TruthIn
<1>3. TruthIn(l, b, Len(l))[x] = IF old = {} THEN NoTxn ELSE l[MaxOf(old)].txn
    BY Zenon DEF TruthIn
<1>4. /\ \A c : c \in old <=> c \in 1 .. Len(l) /\ b \in l[c].blocks /\ x \in l[c].slots[b]
      /\ \A c : c \in new <=> c \in 1 .. n /\ b \in k[c].blocks /\ x \in k[c].slots[b]
    BY <1>1 DEF SlotWrites, WritesIn
<1> HIDE DEF k, n, old, new
<1>5. CASE x \in R.slots[b]
  <2>1. n \in new /\ new \subseteq 1 .. n /\ \A d \in new : d <= n
    BY <1>1, <1>4, <1>5
  <2>2. MaxOf(new) = n
    BY <1>1, <2>1, MaxUnique, Zenon
  <2>3. TruthIn(k, b, n)[x] = R.txn
    BY <1>1, <1>2, <2>1, <2>2, Zenon
  <2> QED BY <1>5, <2>3, Zenon DEF k, n
<1>6. CASE x \notin R.slots[b]
  <2>1. new = old /\ old \subseteq 1 .. Len(l)
    BY <1>1, <1>4, <1>6, Zenon
  <2>2. old # {} => MaxOf(old) \in 1 .. Len(l)
    BY <1>1, <2>1, MaxIs, Zenon
  <2>3. TruthIn(k, b, n)[x] = TruthIn(l, b, Len(l))[x]
    BY <1>1, <1>2, <1>3, <2>1, <2>2, Zenon
  <2> QED BY <1>6, <2>3, Zenon DEF k, n
<1> QED BY <1>5, <1>6, Zenon

\* Contents are written by transactions of the log.
LEMMA TruthType ==
    ASSUME NEW l \in Seq(Record), NEW b, NEW s
    PROVE  /\ TruthIn(l, b, s) \in Data
           /\ \A x \in Slots : \/ TruthIn(l, b, s)[x] = NoTxn
                               \/ \E c \in 1 .. Len(l) : TruthIn(l, b, s)[x] = l[c].txn
<1>0. Len(l) \in Nat /\ \A c \in 1 .. Len(l) : l[c] \in Record
    OBVIOUS
<1>1. Len(l) \in Nat /\ \A c \in 1 .. Len(l) : l[c].txn \in Txns
    BY <1>0 DEF Record
<1>2. ASSUME NEW x \in Slots, SlotWrites(l, b, s, x) # {}
      PROVE  MaxOf(SlotWrites(l, b, s, x)) \in 1 .. Len(l)
  <2>1. SlotWrites(l, b, s, x) \subseteq 1 .. Len(l)
    BY DEF SlotWrites, WritesIn
  <2> QED BY <1>1, <1>2, <2>1, MaxIs, Zenon
<1>3. \A x \in Slots : \/ TruthIn(l, b, s)[x] = NoTxn
                       \/ \E c \in 1 .. Len(l) : TruthIn(l, b, s)[x] = l[c].txn
    BY <1>2, Zenon DEF TruthIn
<1>4. \A x \in Slots : TruthIn(l, b, s)[x] \in Txns \cup {NoTxn}
    BY <1>1, <1>3, Zenon
<1>5. TruthIn(l, b, s) = [x \in Slots |-> TruthIn(l, b, s)[x]]
    BY DEF TruthIn
<1> QED BY <1>3, <1>4, <1>5, Zenon DEF Data

-----------------------------------------------------------------------------
(* Suffixes of chains *)

\* R has the newest versions of P, with the bytes they have in P.
SuffixOf(R, P) ==
    /\ Chain(R)
    /\ \A u \in R : \E v \in P : v.seq = u.seq
    /\ \A u \in R, v \in P : v.seq >= u.seq => \E w \in R : w.seq = v.seq
    /\ P # {} => R # {}
    /\ \A u \in R : ReadVisible(R, u.seq) = ReadVisible(P, u.seq)

\* A read at its sequence returns the bytes of a version.
LEMMA ReadOwn ==
    ASSUME NEW V, Chain(V), NEW v \in V
    PROVE  ReadVisible(V, v.seq) = Resolve(V, v)
<1>1. v.seq \in Nat
    BY VersionFacts, Zenon DEF Chain
<1>2. v.seq <= v.seq /\ \A w \in V : w.seq <= v.seq => w.seq <= v.seq
    BY <1>1
<1> QED BY <1>2, ReadIs, Zenon

\* Trimming keeps a suffix of the chain that reads the same.
LEMMA TrimSuffix ==
    ASSUME NEW V, Chain(V), NEW keep, NEW wm \in Nat
    PROVE  SuffixOf(TrimChain(V, keep, wm), V)
<1> DEFINE K == Keepers(V, keep, wm)
<1>0. \A v \in V : v.seq \in Nat
    BY VersionFacts DEF Chain
<1>1. CASE K = {}
  <2>1. TrimChain(V, keep, wm) = V
    BY <1>1, Zenon DEF TrimChain
  <2> QED BY <2>1 DEF SuffixOf
<1>2. CASE K # {}
  <2> DEFINE h == Newest(K)
             D == DropBefore(V, h)
  <2>1. TrimChain(V, keep, wm) = D
    BY <1>2 DEF TrimChain
  <2>2. K \subseteq V
    BY DEF Keepers
  <2>3. h \in V
    BY <1>2, <2>2, NewestExists, Zenon DEF Chain
  <2> HIDE DEF h, K
  <2>4. PICK k \in Version :
          /\ k.seq = h.seq /\ k.data = Resolve(V, h) /\ k.data \in Data
          /\ k \in D
          /\ \A v \in V : v # h /\ v.seq >= h.seq => v \in D
          /\ \A u \in D : u = k \/ (u \in V /\ u # h /\ u.seq > h.seq)
    BY <2>3, DropShape, Zenon
  <2>5. Chain(D)
    BY <2>3, DropChain, Zenon
  <2>6. \A u \in D : u.seq \in Nat /\ h.seq <= u.seq
    BY <1>0, <2>3, <2>4, SMTT(30)
  <2>7. \A u \in D : ReadVisible(D, u.seq) = ReadVisible(V, u.seq)
    BY <2>3, <2>6, DropReads, Zenon
  <2> HIDE DEF D
  <2>8. \A u \in D : \E v \in V : v.seq = u.seq
    BY <2>3, <2>4, Zenon
  <2>9. \A u \in D, v \in V : v.seq >= u.seq => \E w \in D : w.seq = v.seq
    <3> SUFFICES ASSUME NEW u \in D, NEW v \in V, v.seq >= u.seq
                 PROVE  \E w \in D : w.seq = v.seq
      OBVIOUS
    <3>1. v.seq >= h.seq
      BY <1>0, <2>3, <2>6, SMTT(30)
    <3> QED BY <2>4, <3>1, Zenon
  <2> QED BY <2>1, <2>4, <2>5, <2>7, <2>8, <2>9, Zenon DEF SuffixOf
<1> QED BY <1>1, <1>2, Zenon

\* A pushed version has the bytes it stores, or, deduplicated, those of the
\* version below it.
LEMMA PushReads ==
    ASSUME NEW V, NEW n \in Version, NEW bytes \in Data,
           Chain(V), \A v \in V : v.seq < n.seq,
           n.data = bytes \/ (n.data = Identical /\ V # {} /\ Resolve(V, Newest(V)) = bytes)
    PROVE  /\ Chain(V \cup {n})
           /\ ReadVisible(V \cup {n}, n.seq) = bytes
           /\ \A v \in V : ReadVisible(V \cup {n}, v.seq) = ReadVisible(V, v.seq)
<1> DEFINE P == V \cup {n}
<1>0. n.seq \in Nat /\ \A v \in V : v.seq \in Nat
    BY VersionFacts, Zenon DEF Chain
<1>1. n.data # Identical \/ V # {}
    BY DataFacts
<1>2. /\ Chain(P)
      /\ \A s \in Nat : s < n.seq => ReadVisible(P, s) = ReadVisible(V, s)
    BY <1>1, PushKeeps, Zenon
<1>3. \A v \in V : ReadVisible(P, v.seq) = ReadVisible(V, v.seq)
    BY <1>0, <1>2, Zenon
<1>4. n \in P /\ \A w \in P : w.seq <= n.seq
    BY <1>0
<1>5. ReadVisible(P, n.seq) = Resolve(P, n)
    BY <1>2, <1>4, ReadOwn, Zenon
<1>6. Resolve(P, n) = bytes
  <2>1. CASE n.data = bytes
    <3>1. n.data # Identical
      BY <2>1, DataFacts, Zenon
    <3> QED BY <1>0, <1>2, <1>4, <2>1, <3>1, ResolveIs, SMTT(30)
  <2>2. CASE n.data = Identical /\ V # {} /\ Resolve(V, Newest(V)) = bytes
    <3>1. Newest(V) \in V /\ \A w \in V : w.seq <= Newest(V).seq
      BY <2>2, NewestExists, Zenon DEF Chain
    <3>2. PICK f \in V : /\ f.seq <= Newest(V).seq /\ f.data # Identical
                         /\ \A w \in V : w.seq <= Newest(V).seq /\ w.data # Identical => w.seq <= f.seq
                         /\ Resolve(V, Newest(V)) = f.data
      BY <3>1, ResolveFull, Zenon
    <3>3. f \in P /\ f.seq <= n.seq
      BY <1>4, <3>2, Zenon
    <3>4. \A w \in P : w.seq <= n.seq /\ w.data # Identical => w.seq <= f.seq
      BY <2>2, <3>1, <3>2, Zenon
    <3> QED BY <1>2, <1>4, <2>2, <3>2, <3>3, <3>4, ResolveIs, SMTT(30)
  <2> QED BY <2>1, <2>2, Zenon
<1> QED BY <1>2, <1>3, <1>5, <1>6, Zenon

\* The chain after an install: a suffix of the old one with the new version,
\* which has the resolved bytes.
LEMMA InstalledExact ==
    ASSUME IInv, NEW t \in Txns, NEW b \in WriteSet(t), nextCommit <= MaxCommit,
           ResolvedBytes(t, b) \in Data
    PROVE  \E n \in Version :
               /\ n.seq = nextCommit /\ Chain(versions[b] \cup {n})
               /\ SuffixOf(InstalledChain(t, b, nextCommit), versions[b] \cup {n})
               /\ ReadVisible(versions[b] \cup {n}, nextCommit) = ResolvedBytes(t, b)
               /\ \A v \in versions[b] :
                     ReadVisible(versions[b] \cup {n}, v.seq) = ReadVisible(versions[b], v.seq)
<1> DEFINE V == versions[b]
           bytes == ResolvedBytes(t, b)
           same == V # {} /\ Resolve(V, Newest(V)) = bytes
           n == [seq |-> nextCommit, writer |-> t, data |-> IF same THEN Identical ELSE bytes]
           P == V \cup {n}
           wm == WatermarkOr(active, nextCommit)
           R == InstalledChain(t, b, nextCommit)
<1>1. TypeOK /\ Chain(V) /\ (\A v \in V : v.seq <= CurrentSnapshot)
    BY Zenon DEF IInv, Chains, Bounded, WriteSet
<1>2. nextCommit \in Nat /\ CurrentSnapshot = nextCommit - 1 /\ nextCommit \in Seqs
    BY <1>1, TypeFacts, ConstantsAssumption, SMTT(30) DEF Seqs
<1>3. n \in Version /\ n.seq = nextCommit
    BY <1>2, Zenon DEF Version
<1>4. n.data = bytes \/ (n.data = Identical /\ V # {} /\ Resolve(V, Newest(V)) = bytes)
    BY Zenon
<1>5. R = IF Cap = 0 THEN P ELSE TrimChain(P, Cap, wm)
    BY Zenon DEF InstalledChain
<1> HIDE DEF V, bytes, n, wm, R
<1>6. \A v \in V : v.seq < n.seq
    BY <1>1, <1>2, <1>3, VersionFacts, SMTT(30) DEF Chain
<1>7. /\ Chain(P) /\ ReadVisible(P, nextCommit) = bytes
      /\ \A v \in V : ReadVisible(P, v.seq) = ReadVisible(V, v.seq)
  <2>1. bytes \in Data
    BY DEF bytes
  <2> HIDE DEF P
  <2>2. P = V \cup {n}
    BY DEF P
  <2>3. /\ Chain(V \cup {n}) /\ ReadVisible(V \cup {n}, n.seq) = bytes
        /\ \A v \in V : ReadVisible(V \cup {n}, v.seq) = ReadVisible(V, v.seq)
    BY <1>1, <1>3, <1>4, <1>6, <2>1, PushReads, Zenon
  <2> QED BY <1>3, <2>2, <2>3, Zenon
<1>8. SuffixOf(R, P)
  <2> HIDE DEF P
  <2>1. CASE Cap = 0
    BY <1>5, <1>7, <2>1, Zenon DEF SuffixOf
  <2>2. CASE Cap # 0
    <3>1. wm \in Nat
      BY <1>1, <1>2, WatermarkLow, Zenon DEF wm
    <3> QED BY <1>5, <1>7, <2>2, <3>1, TrimSuffix, Zenon
  <2> QED BY <2>1, <2>2, Zenon
<1> QED BY <1>3, <1>7, <1>8, Zenon DEF V, bytes, R

-----------------------------------------------------------------------------
(* Chains that agree with a history *)

Commits(l, b) == {c \in 1 .. Len(l) : b \in l[c].blocks}

\* V is a suffix of the commits of b in l, and its versions have the contents
\* these commits leave.
ExactOver(V, l, b) ==
    /\ Chain(V)
    /\ \A v \in V : v.seq \in Commits(l, b) /\ ReadVisible(V, v.seq) = TruthIn(l, b, v.seq)
    /\ \A v \in V, c \in Commits(l, b) : c >= v.seq => \E u \in V : u.seq = c

\* A suffix of an exact chain is exact.
LEMMA SuffixExact ==
    ASSUME NEW P, NEW R, NEW l, NEW b, ExactOver(P, l, b), SuffixOf(R, P)
    PROVE  ExactOver(R, l, b)
<1>1. \A u \in R : u.seq \in Commits(l, b) /\ ReadVisible(R, u.seq) = TruthIn(l, b, u.seq)
    BY Zenon DEF ExactOver, SuffixOf
<1>2. \A u \in R, c \in Commits(l, b) : c >= u.seq => \E w \in R : w.seq = c
    BY Zenon DEF ExactOver, SuffixOf
<1> QED BY <1>1, <1>2, Zenon DEF ExactOver, SuffixOf

\* A commit that writes b, with the contents it leaves, or one that does not.
LEMMA AppendExact ==
    ASSUME NEW V, NEW l \in Seq(Record), NEW R \in Record, NEW b, ExactOver(V, l, b)
    PROVE  /\ b \notin R.blocks => ExactOver(V, Append(l, R), b)
           /\ \A n \in Version :
                 /\ b \in R.blocks /\ n.seq = Len(l) + 1 /\ Chain(V \cup {n})
                 /\ ReadVisible(V \cup {n}, n.seq) = TruthIn(Append(l, R), b, Len(l) + 1)
                 /\ \A v \in V : ReadVisible(V \cup {n}, v.seq) = ReadVisible(V, v.seq)
                 => ExactOver(V \cup {n}, Append(l, R), b)
<1> DEFINE k == Append(l, R)
<1>1. /\ Len(l) \in Nat /\ Len(k) = Len(l) + 1 /\ k[Len(l) + 1] = R
      /\ \A c \in 1 .. Len(l) : k[c] = l[c] /\ c \in Nat /\ c <= Len(l)
      /\ \A c \in 1 .. Len(k) : c \in 1 .. Len(l) \/ c = Len(l) + 1
      /\ \A c \in 1 .. Len(l) : c \in 1 .. Len(k)
      /\ Len(l) + 1 \in 1 .. Len(k)
    OBVIOUS
<1> HIDE DEF k
<1>2. \A v \in V : v.seq \in 1 .. Len(l) /\ v.seq \in Commits(l, b)
    BY Zenon DEF ExactOver, Commits
<1>3. \A v \in V : v.seq \in Commits(k, b) /\ TruthIn(k, b, v.seq) = TruthIn(l, b, v.seq)
    BY <1>1, <1>2, AppendTruth, Zenon DEF Commits, k
<1>4. CASE b \notin R.blocks
  <2>1. Commits(k, b) = Commits(l, b)
    BY <1>1, <1>4, Zenon DEF Commits
  <2> QED BY <1>3, <1>4, <2>1, Zenon DEF ExactOver, k
<1>5. ASSUME NEW n \in Version, b \in R.blocks, n.seq = Len(l) + 1, Chain(V \cup {n}),
             ReadVisible(V \cup {n}, n.seq) = TruthIn(k, b, Len(l) + 1),
             \A v \in V : ReadVisible(V \cup {n}, v.seq) = ReadVisible(V, v.seq)
      PROVE  ExactOver(V \cup {n}, k, b)
  <2>1. Commits(k, b) = Commits(l, b) \cup {n.seq}
    BY <1>1, <1>5, Zenon DEF Commits
  <2>2. \A v \in V \cup {n} : /\ v.seq \in Commits(k, b)
                              /\ ReadVisible(V \cup {n}, v.seq) = TruthIn(k, b, v.seq)
    BY <1>3, <1>5, <2>1, Zenon DEF ExactOver
  <2>3. \A c \in Commits(l, b) : ~ c >= n.seq
    BY <1>1, <1>5 DEF Commits
  <2>4. \A v \in V \cup {n}, c \in Commits(k, b) : c >= v.seq => \E u \in V \cup {n} : u.seq = c
    <3> SUFFICES ASSUME NEW v \in V \cup {n}, NEW c \in Commits(k, b), c >= v.seq, c # n.seq
                 PROVE  \E u \in V : u.seq = c
      BY Zenon
    <3>1. c \in Commits(l, b) /\ v \in V
      BY <2>1, <2>3, Zenon
    <3> QED BY <3>1, Zenon DEF ExactOver
  <2> QED BY <1>5, <2>2, <2>4, Zenon DEF ExactOver
<1> QED BY <1>4, <1>5, Zenon DEF k

\* The newest version is the last commit of the block.
LEMMA NewestCovers ==
    ASSUME NEW V, NEW l, NEW b, ExactOver(V, l, b), V # {}
    PROVE  /\ LatestSeq(V) \in Commits(l, b)
           /\ \A c \in Commits(l, b) : c <= LatestSeq(V)
           /\ ReadVisible(V, LatestSeq(V)) = TruthIn(l, b, LatestSeq(V))
<1>1. Newest(V) \in V /\ \A w \in V : w.seq <= Newest(V).seq
    BY NewestExists, Zenon DEF ExactOver, Chain
<1>2. LatestSeq(V) = Newest(V).seq
    BY Zenon DEF LatestSeq
<1>3. \A v \in V : v.seq \in 1 .. Len(l)
    BY Zenon DEF ExactOver, Commits
<1>4. \A c \in Commits(l, b) : c \in 1 .. Len(l)
    BY DEF Commits
<1>5. ASSUME NEW c \in Commits(l, b) PROVE c <= Newest(V).seq
  <2>1. CASE c >= Newest(V).seq
    BY <1>1, <2>1, Zenon DEF ExactOver
  <2>2. CASE ~ (c >= Newest(V).seq)
    BY <1>1, <1>3, <1>4, <2>2, SMTT(30)
  <2> QED BY <2>1, <2>2, Zenon
<1> QED BY <1>1, <1>2, <1>5, Zenon DEF ExactOver

\* A read that finds a version returns the contents at its snapshot.
LEMMA VisibleExact ==
    ASSUME NEW V, NEW l, NEW b, NEW s \in Nat, ExactOver(V, l, b),
           ReadVisible(V, s) # None
    PROVE  ReadVisible(V, s) = TruthIn(l, b, s)
<1>1. PICK u \in V : u.seq <= s
    BY DEF ReadVisible, VisibleAt
<1>2. PICK v \in V : v.seq <= s /\ \A w \in V : w.seq <= s => w.seq <= v.seq
    BY <1>1, ReadPick, SMTT(30) DEF ExactOver
<1>3. ReadVisible(V, s) = TruthIn(l, b, v.seq)
    BY <1>2, ReadIs, ReadOwn, SMTT(30) DEF ExactOver
<1>4. WritesIn(l, b, s) = WritesIn(l, b, v.seq)
  <2>0. \A c \in 1 .. Len(l) : c \in Int
    BY SMTT(30)
  <2>1. v.seq \in Int
    BY <2>0, Zenon DEF ExactOver, Commits
  <2>2. ASSUME NEW c \in 1 .. Len(l), b \in l[c].blocks PROVE c <= s <=> c <= v.seq
    <3>1. c \in Commits(l, b) /\ c \in Int
      BY <2>0, <2>2, Zenon DEF Commits
    <3>2. CASE c >= v.seq
      <4>1. PICK w \in V : w.seq = c
        BY <3>1, <3>2, Zenon DEF ExactOver
      <4> QED BY <1>2, <2>1, <3>1, <4>1, SMTT(30)
    <3>3. CASE ~ (c >= v.seq)
      BY <1>2, <2>1, <3>1, <3>3, SMTT(30)
    <3> QED BY <3>2, <3>3, Zenon
  <2> QED BY <2>2, Zenon DEF WritesIn
<1> QED BY <1>3, <1>4, SameTruth, Zenon

-----------------------------------------------------------------------------
(* The invariant of the history.  It is inductive as long as chains are       *)
(* evicted only while no running transaction has lost its pin to              *)
(* force_advance_oldest_snapshot.                                             *)

Pinned == \A t \in Txns : tx[t].st = "active" /\ tx[t].reg => active[tx[t].snap] > 0

EvictsPinned == [][EvictDurable => Pinned]_vars

\* Snapshot s is not older than any commit of b.
Seen(l, b, s) == \A c \in Commits(l, b) : c <= s

\* A block of the device is exact, has all that the cursor f says, and all of
\* the block when the block has no chain.
DeviceExact(b, d, V, l, f) ==
    /\ d.seq <= Len(l) /\ d.data = TruthIn(l, b, d.seq)
    /\ \A c \in Commits(l, b) : c <= f => c <= d.seq
    /\ V = {} => Seen(l, b, d.seq)

\* A staged write is the contents at the snapshot with the written slots set,
\* and its merge base is these contents.
StagedExact(t, r, l) ==
    \A b \in Blocks : r.staged[b] # None =>
        /\ \A x \in Slots : r.staged[b].data[x] =
              IF x \in r.staged[b].slots THEN t ELSE TruthIn(l, b, r.snap)[x]
        /\ r.staged[b].base # None => r.staged[b].base = TruthIn(l, b, r.snap)

\* A device read on behalf of a transaction is right, unless the check after
\* the read is going to find a conflict.
FallbackExact(r, l, dv) ==
    Seen(l, r.fb.block, r.snap) =>
        /\ r.fb.step = "probed" => Seen(l, r.fb.block, dv[r.fb.block].seq)
        /\ r.fb.step = "read" => r.fb.data = TruthIn(l, r.fb.block, r.snap)

\* A chain is dropped only when every running transaction has seen all of it,
\* so that a missing chain means that there is no conflict.
DropsSeen(r, l, vs) == \A b \in Blocks : vs[b] = {} => Seen(l, b, r.snap)

TxnExact(t, r, l, vs, dv) ==
    /\ r.snap <= Len(l)
    /\ r.st = "idle" => r.fb.step = "none" /\ \A b \in Blocks : r.staged[b] = None
    /\ r.st = "active" => StagedExact(t, r, l) /\ FallbackExact(r, l, dv) /\ DropsSeen(r, l, vs)

\* Only committed transactions are in the history, and the lock is held by a
\* running one.
Histories ==
    /\ \A c \in 1 .. Len(log) : tx[log[c].txn].st = "committed"
    /\ lock.phase # "free" => lock.holder \in Txns /\ tx[lock.holder].st = "active"
    /\ lock.phase = "free" => lock.holder = NoTxn

StoreExact ==
    \A b \in Blocks : /\ ExactOver(versions[b], log, b)
                      /\ DeviceExact(b, device[b], versions[b], log, flushed)

TxnsExact == \A t \in Txns : TxnExact(t, tx[t], log, versions, device)

JInv == Histories /\ StoreExact /\ TxnsExact

\* The three properties follow from the invariant of the history.
LEMMA JInvImplies == JInv => VersionsExact /\ FlushExact /\ AncestorAtSnapshot
<1> SUFFICES ASSUME JInv PROVE VersionsExact /\ FlushExact /\ AncestorAtSnapshot
    BY Zenon
<1>1. VersionsExact
    BY ReadOwn, TruthOfLog, SMTT(30) DEF JInv, StoreExact, ExactOver, VersionsExact
<1>2. FlushExact
    BY TruthOfLog, Zenon DEF JInv, StoreExact, DeviceExact, FlushExact, WritesUpTo, Commits
<1>3. AncestorAtSnapshot
    BY TruthOfLog, SMTT(30) DEF JInv, TxnsExact, TxnExact, StagedExact, AncestorAtSnapshot, WriteSet
<1> QED BY <1>1, <1>2, <1>3, Zenon

\* The empty store has an empty history.
LEMMA InitJInv == Init => JInv
<1> SUFFICES ASSUME Init PROVE JInv
    OBVIOUS
<1>0. Len(log) = 0 /\ log = <<>> /\ \A b : Commits(log, b) = {}
    BY SMTT(30) DEF Init, Commits
<1>1. Histories
    BY <1>0, SMTT(30) DEF Init, Histories, Unlocked
<1>2. ASSUME NEW b \in Blocks
      PROVE  ExactOver(versions[b], log, b) /\ DeviceExact(b, device[b], versions[b], log, flushed)
  <2>1. versions[b] = {} /\ device[b].data = InitialData /\ device[b].seq = 0
    BY Zenon DEF Init
  <2>2. TruthIn(log, b, 0) = InitialData
    BY <1>0, SMTT(30) DEF TruthIn, SlotWrites, WritesIn, InitialData
  <2>3. ExactOver(versions[b], log, b)
    BY <2>1, Zenon DEF ExactOver, Chain, UniqueSeqs, HeadFull
  <2>4. DeviceExact(b, device[b], versions[b], log, flushed)
    BY <1>0, <2>1, <2>2, SMTT(30) DEF DeviceExact, Seen
  <2> QED BY <2>3, <2>4, Zenon
<1>3. ASSUME NEW t \in Txns
      PROVE  TxnExact(t, tx[t], log, versions, device)
  <2>1. tx[t] = [st |-> "idle", snap |-> 0, reg |-> FALSE,
                 staged |-> [b \in Blocks |-> None], stages |-> 0, fb |-> NoFallback]
    BY Zenon DEF Init
  <2> QED BY <1>0, <2>1, SMTT(30) DEF TxnExact, NoFallback
<1> QED BY <1>1, <1>2, <1>3, Zenon DEF JInv, StoreExact, TxnsExact

-----------------------------------------------------------------------------
(* What a transaction that finds no conflict knows *)

\* What the two invariants say of the log and its bounds.
LEMMA JFacts ==
    ASSUME IInv, JInv
    PROVE  /\ log \in Seq(Record) /\ Len(log) \in Nat /\ CurrentSnapshot = Len(log)
           /\ nextCommit = Len(log) + 1 /\ flushed \in Nat
           /\ \A c \in 1 .. Len(log) : log[c].txn \in Txns
           /\ \A t \in Txns : /\ tx[t] \in Transaction
                              /\ tx[t].snap \in Nat /\ tx[t].snap \in Seqs /\ tx[t].snap <= Len(log)
           /\ \A b \in Blocks : /\ Chain(versions[b]) /\ ExactOver(versions[b], log, b)
                                /\ DeviceExact(b, device[b], versions[b], log, flushed)
                                /\ device[b].data \in Data
                                /\ device[b].seq \in Nat /\ device[b].seq \in Seqs
           /\ \A b, c : c \in Commits(log, b) => c \in Nat /\ c >= 1 /\ c <= Len(log)
<1>1. TypeOK
    BY Zenon DEF IInv
<1>2. log \in Seq(Record) /\ Len(log) \in Nat /\ CurrentSnapshot = Len(log)
      /\ nextCommit = Len(log) + 1 /\ flushed \in Nat
    BY <1>1, TypeFacts, SMTT(30) DEF TypeOK
<1>3. \A c \in 1 .. Len(log) : log[c] \in Record
    BY <1>2
<1>4. \A c \in 1 .. Len(log) : log[c].txn \in Txns
    BY <1>3, Zenon DEF Record
<1>5. \A t \in Txns : tx[t] \in Transaction
    BY <1>1, Zenon DEF TypeOK
<1>6. \A t \in Txns : tx[t].snap \in Nat /\ tx[t].snap \in Seqs /\ tx[t].snap <= Len(log)
    BY <1>1, <1>5, TypeFacts, Zenon DEF Transaction, JInv, TxnsExact, TxnExact
<1>7. \A b \in Blocks : device[b] \in [data : Data, seq : Seqs]
    BY <1>1, Zenon DEF TypeOK
<1>8. \A b \in Blocks : device[b].data \in Data /\ device[b].seq \in Nat /\ device[b].seq \in Seqs
    BY <1>1, <1>7, TypeFacts, Zenon
<1>9. \A b, c : c \in Commits(log, b) => c \in Nat /\ c >= 1 /\ c <= Len(log)
    BY <1>2 DEF Commits
<1> QED BY <1>2, <1>4, <1>5, <1>6, <1>8, <1>9, Zenon DEF JInv, StoreExact, IInv, Chains

\* Two snapshots with no commit of b between them: the same contents.
LEMMA SeenTruth ==
    ASSUME NEW l, NEW b, NEW s \in Nat, NEW r \in Nat,
           \A c \in Commits(l, b) : c <= s <=> c <= r
    PROVE  TruthIn(l, b, s) = TruthIn(l, b, r)
<1>1. WritesIn(l, b, s) = WritesIn(l, b, r)
    BY Zenon DEF WritesIn, Commits
<1> QED BY <1>1, SameTruth, Zenon

\* The latest version is at or below the snapshot, or there is no chain, which
\* says the same: no commit of the block is newer than the snapshot.
LEMMA NoConflictSeen ==
    ASSUME IInv, JInv, NEW t \in Txns, NEW b \in Blocks, tx[t].st = "active", ~ Conflicts(t, b)
    PROVE  Seen(log, b, tx[t].snap)
<1>1. CASE versions[b] = {}
    BY <1>1, Zenon DEF JInv, TxnsExact, TxnExact, DropsSeen
<1>2. CASE versions[b] # {}
  <2>1. /\ LatestSeq(versions[b]) \in Commits(log, b)
        /\ \A c \in Commits(log, b) : c <= LatestSeq(versions[b])
    BY <1>2, JFacts, NewestCovers, Zenon
  <2>2. /\ LatestSeq(versions[b]) \in Nat /\ tx[t].snap \in Nat
        /\ \A c \in Commits(log, b) : c \in Nat
    BY <2>1, JFacts, Zenon
  <2>3. LatestSeq(versions[b]) <= tx[t].snap
    BY <2>2, SMTT(30) DEF Conflicts
  <2> QED BY <2>1, <2>2, <2>3, SMTT(30) DEF Seen
<1> QED BY <1>1, <1>2, Zenon

\* A running transaction is not in the history: no slot is its work yet.
LEMMA NotWritten ==
    ASSUME IInv, JInv, NEW t \in Txns, tx[t].st = "active", NEW b, NEW s, NEW x \in Slots
    PROVE  TruthIn(log, b, s)[x] # t
<1>1. \A c \in 1 .. Len(log) : log[c].txn # t
    BY Zenon DEF JInv, Histories
<1>2. NoTxn # t
    BY ConstantsAssumption, Zenon
<1> QED BY <1>1, <1>2, JFacts, TruthType, SMTT(30)

\* What a commit installs: the current contents with the written slots set,
\* directly when nothing newer was committed, by the merge otherwise.
LEMMA ResolvedTruth ==
    ASSUME IInv, JInv, NEW t \in Txns, tx[t].st = "active", NEW b \in WriteSet(t),
           NEW policy, Resolves(t, b, ApplyBase(t, b), policy), NEW x \in Slots
    PROVE  ResolvedBytes(t, b)[x] = IF x \in tx[t].staged[b].slots THEN t
                                    ELSE TruthIn(log, b, Len(log))[x]
<1> DEFINE w == tx[t].staged[b]
           V == versions[b]
           s == tx[t].snap
           latest == ReadVisible(V, LatestSeq(V))
           base == ReadVisible(V, s)
<1>1. b \in Blocks /\ w # None
    BY Zenon DEF WriteSet
<1>2. w.data[x] = IF x \in w.slots THEN t ELSE TruthIn(log, b, s)[x]
    BY <1>1, Zenon DEF JInv, TxnsExact, TxnExact, StagedExact
<1>3. s \in Nat /\ s <= Len(log) /\ Len(log) \in Nat /\ ExactOver(V, log, b)
      /\ \A c \in Commits(log, b) : c \in Nat /\ c <= Len(log)
    BY <1>1, JFacts, Zenon
<1>4. CASE ~ Conflicts(t, b)
  <2>1. Seen(log, b, s)
    BY <1>1, <1>4, NoConflictSeen, Zenon
  <2>2. TruthIn(log, b, s) = TruthIn(log, b, Len(log))
    <3>1. \A c \in Commits(log, b) : c <= s <=> c <= Len(log)
      BY <1>3, <2>1, Zenon DEF Seen
    <3> QED BY <1>3, <3>1, SeenTruth, Zenon
  <2>3. ResolvedBytes(t, b) = w.data
    BY <1>4, Zenon DEF ResolvedBytes
  <2> QED BY <1>2, <2>2, <2>3, Zenon
<1>5. CASE Conflicts(t, b)
  <2>1. /\ w.proof # Unsafe /\ base # None /\ latest # None
        /\ IF x \in w.proof THEN latest[x] = base[x] ELSE w.data[x] = base[x]
    BY <1>5, Zenon DEF Resolves, MergeValid, ApplyBase
  <2>2. ResolvedBytes(t, b)[x] = IF x \in w.proof THEN w.data[x] ELSE latest[x]
    BY <1>5, Zenon DEF ResolvedBytes, MergeBytes
  <2>3. base = TruthIn(log, b, s)
    BY <1>3, <2>1, VisibleExact, Zenon
  <2>4. V # {}
    BY <2>1, Zenon DEF ReadVisible, VisibleAt
  <2>5. /\ LatestSeq(V) \in Commits(log, b)
        /\ \A c \in Commits(log, b) : c <= LatestSeq(V)
        /\ latest = TruthIn(log, b, LatestSeq(V))
    BY <1>3, <2>4, NewestCovers, Zenon
  <2>6. latest = TruthIn(log, b, Len(log))
    <3>1. \A c \in Commits(log, b) : c <= LatestSeq(V) <=> c <= Len(log)
      BY <1>3, <2>5, Zenon
    <3>2. LatestSeq(V) \in Nat
      BY <1>3, <2>5, Zenon
    <3> QED BY <1>3, <2>5, <3>1, <3>2, SeenTruth, Zenon
  <2>7. TruthIn(log, b, s)[x] # t
    BY NotWritten, Zenon
  <2> HIDE DEF w, V, s, latest, base
  <2>8. CASE x \in w.proof
    BY <1>2, <2>1, <2>2, <2>3, <2>6, <2>8, Zenon DEF w
  <2>9. CASE x \notin w.proof
    <3>1. x \notin w.slots
      BY <1>2, <2>1, <2>3, <2>7, <2>9, Zenon
    <3> QED BY <2>2, <2>6, <2>9, <3>1, Zenon DEF w
  <2> QED BY <2>8, <2>9, Zenon
<1> QED BY <1>4, <1>5, Zenon

-----------------------------------------------------------------------------
(* Transactions keep the invariant *)

\* A step of one transaction that leaves the store alone.
LEMMA OneTxn ==
    ASSUME IInv, JInv, NEW t \in Txns, UNCHANGED <<log, versions, device, flushed, lock>>,
           \A u \in Txns : u # t => tx'[u] = tx[u],
           TxnExact(t, tx'[t], log, versions, device),
           tx'[t].st = tx[t].st \/ (tx[t].st # "committed" /\ lock.holder # t)
    PROVE  JInv'
<1>1. \A u \in Txns : tx[u].st = "committed" => tx'[u].st = "committed"
    BY Zenon
<1>2. lock.phase # "free" => tx'[lock.holder].st = "active"
    BY Zenon DEF JInv, Histories
<1>3. ASSUME NEW c \in 1 .. Len(log) PROVE tx'[log[c].txn].st = "committed"
  <2>1. tx[log[c].txn].st = "committed" /\ log[c].txn \in Txns
    BY JFacts, Zenon DEF JInv, Histories
  <2> QED BY <1>1, <2>1, Zenon
<1>4. Histories'
    BY <1>2, <1>3, Zenon DEF JInv, Histories
<1>5. StoreExact'
    BY Zenon DEF JInv, StoreExact
<1>6. TxnsExact'
    BY Zenon DEF JInv, TxnsExact
<1> QED BY <1>4, <1>5, <1>6, Zenon DEF JInv

\* Staging contents that are right at the snapshot.
LEMMA StageExact ==
    ASSUME IInv, JInv, NEW t \in Txns, NEW b \in Blocks, NEW w, Running(t), StageInto(t, b, w),
           \A x \in Slots : w.data[x] = IF x \in w.slots THEN t ELSE TruthIn(log, b, tx[t].snap)[x],
           w.base # None => w.base = TruthIn(log, b, tx[t].snap)
    PROVE  TxnExact(t, tx'[t], log, versions, device)
<1> DEFINE r == tx'[t]
<1>0. tx \in [Txns -> Transaction] /\ tx[t] \in Transaction /\ tx[t].staged \in [Blocks -> {None} \cup Staged]
    BY Zenon DEF IInv, TypeOK, Transaction
<1>1. /\ r.st = tx[t].st /\ r.snap = tx[t].snap /\ r.fb = NoFallback
      /\ r.staged = [tx[t].staged EXCEPT ![b] = w]
    BY <1>0, Zenon DEF StageInto, Transaction
<1> HIDE DEF r
<1>2. r.staged[b] = w /\ \A c \in Blocks : c # b => r.staged[c] = tx[t].staged[c]
    BY <1>0, <1>1, Zenon
<1>3. tx[t].st = "active" /\ TxnExact(t, tx[t], log, versions, device)
    BY Zenon DEF Running, JInv, TxnsExact
<1>4. StagedExact(t, r, log)
    BY <1>1, <1>2, <1>3, SMTT(30) DEF TxnExact, StagedExact
<1>5. FallbackExact(r, log, device) /\ DropsSeen(r, log, versions)
    BY <1>1, <1>3, SMTT(30) DEF TxnExact, FallbackExact, DropsSeen, NoFallback
<1>6. r.snap <= Len(log) /\ r.st = "active"
    BY <1>1, <1>3, Zenon DEF TxnExact
<1> QED BY <1>4, <1>5, <1>6, Zenon DEF TxnExact, r

\* A patched ancestor
LEMMA FirstStageExact ==
    ASSUME NEW d, NEW S, NEW proof, NEW t
    PROVE  LET w == FirstStage(d, S, proof, t)
           IN  /\ \A x \in Slots : w.data[x] = IF x \in w.slots THEN t ELSE d[x]
               /\ w.base = d
BY DEF FirstStage, Patch

\* A transaction that is over has nothing left to be exact about.
LEMMA DoomedExact ==
    ASSUME IInv, JInv, NEW t \in Txns, Doomed(t)
    PROVE  TxnExact(t, tx'[t], log, versions, device)
<1>0. tx \in [Txns -> Transaction] /\ tx[t] \in Transaction
    BY DEF IInv, TypeOK
<1>1. tx'[t].st = "failed" /\ tx'[t].snap = tx[t].snap
    BY <1>0, Zenon DEF Doomed, Transaction
<1> QED BY <1>1, JFacts, Zenon DEF TxnExact

\* stage over a visible version: data and base are those of the snapshot.
LEMMA StageWriteExact ==
    ASSUME IInv, JInv, NEW t \in Txns, NEW b \in Blocks, NEW S \in SUBSET Slots,
           NEW proof \in ProofFor(S), StageWrite(t, b, S, proof)
    PROVE  TxnExact(t, tx'[t], log, versions, device)
<1> DEFINE s == tx[t].snap
           ancestor == ReadVisible(versions[b], s)
           old == tx[t].staged[b]
<1>1. Running(t) /\ tx[t].st = "active" /\ s \in Nat
    BY JFacts, Zenon DEF StageWrite, Running
<1>2. CASE b \in WriteSet(t) /\ StageInto(t, b, Restage(old, S, proof, t))
  <2>1. /\ \A x \in Slots : old.data[x] = IF x \in old.slots THEN t ELSE TruthIn(log, b, s)[x]
        /\ old.base # None => old.base = TruthIn(log, b, s)
    BY <1>1, <1>2, Zenon DEF JInv, TxnsExact, TxnExact, StagedExact, WriteSet
  <2> DEFINE w == Restage(old, S, proof, t)
  <2>2. /\ w.slots = old.slots \cup S /\ w.base \in {None, old.base}
        /\ \A x \in Slots : w.data[x] = IF x \in S THEN t ELSE old.data[x]
    BY Zenon DEF Restage, Patch
  <2>3. StageInto(t, b, w)
    BY <1>2, Zenon
  <2> HIDE DEF w
  <2>4. /\ \A x \in Slots : w.data[x] = IF x \in w.slots THEN t ELSE TruthIn(log, b, s)[x]
        /\ w.base # None => w.base = TruthIn(log, b, s)
    BY <2>1, <2>2, Zenon
  <2> QED BY <1>1, <2>3, <2>4, StageExact, Zenon
<1>3. CASE ancestor # None /\ StageInto(t, b, FirstStage(ancestor, S, proof, t))
  <2>1. ancestor = TruthIn(log, b, s)
    BY <1>1, <1>3, JFacts, VisibleExact, Zenon
  <2> DEFINE w == FirstStage(ancestor, S, proof, t)
  <2>2. /\ \A x \in Slots : w.data[x] = IF x \in w.slots THEN t ELSE TruthIn(log, b, s)[x]
        /\ w.base # None => w.base = TruthIn(log, b, s)
    BY <2>1, FirstStageExact, SMTT(30)
  <2>3. StageInto(t, b, w)
    BY <1>3, Zenon
  <2> HIDE DEF w
  <2> QED BY <1>1, <2>2, <2>3, StageExact, Zenon
<1> QED BY <1>2, <1>3, Zenon DEF StageWrite

\* stage without a base overwrites every slot.
LEMMA StageBlindExact ==
    ASSUME IInv, JInv, NEW t \in Txns, NEW b \in Blocks, StageBlind(t, b)
    PROVE  TxnExact(t, tx'[t], log, versions, device)
<1> DEFINE w == [data |-> Patch(InitialData, Slots, t), slots |-> Slots, proof |-> Unsafe, base |-> None]
<1>1. Running(t) /\ StageInto(t, b, w)
    BY Zenon DEF StageBlind
<1>2. w.base = None /\ \A x \in Slots : x \in w.slots /\ w.data[x] = t
    BY Zenon DEF Patch
<1> HIDE DEF w
<1> QED BY <1>1, <1>2, StageExact, Zenon

\* The device read: the probe found no chain that the transaction has not seen.
LEMMA FallbackStepsExact ==
    ASSUME IInv, JInv, NEW t \in Txns,
           \/ \E b \in Blocks : FallbackProbe(t, b)
           \/ FallbackRead(t)
           \/ \E S \in SUBSET Slots : \E proof \in ProofFor(S) : FallbackStage(t, S, proof)
    PROVE  TxnExact(t, tx'[t], log, versions, device)
<1> DEFINE s == tx[t].snap
           r == tx'[t]
           f == tx[t].fb
<1>0. tx \in [Txns -> Transaction] /\ tx[t] \in Transaction /\ f \in Fallback
    BY Zenon DEF IInv, TypeOK, Transaction
<1>1. /\ Running(t) /\ tx[t].st = "active" /\ s \in Nat /\ s <= Len(log)
      /\ TxnExact(t, tx[t], log, versions, device) /\ f.block \in Blocks
    BY <1>0, JFacts, Zenon DEF FallbackProbe, FallbackRead, FallbackStage, Running, JInv, TxnsExact, Fallback
<1>2. CASE Doomed(t)
    BY <1>2, DoomedExact, Zenon
<1>3. ASSUME NEW g, tx' = [tx EXCEPT ![t].fb = g],
             Seen(log, g.block, s) =>
                /\ g.step = "probed" => Seen(log, g.block, device[g.block].seq)
                /\ g.step = "read" => g.data = TruthIn(log, g.block, s)
      PROVE  TxnExact(t, tx'[t], log, versions, device)
  <2>1. r.st = "active" /\ r.snap = s /\ r.staged = tx[t].staged /\ r.fb = g
    BY <1>0, <1>1, <1>3, Zenon DEF Transaction
  <2> HIDE DEF r
  <2>2. StagedExact(t, r, log) /\ DropsSeen(r, log, versions)
    BY <1>1, <2>1, ZenonT(30) DEF TxnExact, StagedExact, DropsSeen
  <2>3. FallbackExact(r, log, device)
    BY <1>3, <2>1 DEF FallbackExact
  <2> QED BY <1>1, <2>1, <2>2, <2>3, Zenon DEF TxnExact, r
<1>4. ASSUME NEW b \in Blocks, FallbackProbe(t, b), ~ Conflicts(t, b)
      PROVE  TxnExact(t, tx'[t], log, versions, device)
  <2> DEFINE g == [step |-> "probed", block |-> b, data |-> None]
  <2>1. tx' = [tx EXCEPT ![t].fb = g] /\ ReadVisible(versions[b], s) = None
    BY <1>4, Zenon DEF FallbackProbe
  <2>2. versions[b] = {}
    <3> SUFFICES ASSUME versions[b] # {} PROVE FALSE
      BY Zenon
    <3>1. Chain(versions[b]) /\ LatestSeq(versions[b]) \in Seqs
          /\ (\A v \in versions[b] : v.seq <= LatestSeq(versions[b])) /\ versions[b] \subseteq Version
      BY JFacts, LatestSeqIs, Zenon DEF Chain
    <3>2. LatestSeq(versions[b]) \in Nat /\ \A v \in versions[b] : v.seq \in Nat
      BY <3>1, VersionFacts, TypeFacts, Zenon DEF IInv
    <3>3. \A v \in versions[b] : v.seq <= s
      BY <1>1, <1>4, <3>1, <3>2, SMTT(30) DEF Conflicts
    <3>4. ReadVisible(versions[b], s) \in Data
      BY <3>1, <3>3, ReadLatest, Zenon
    <3> QED BY <2>1, <3>4, DataFacts, Zenon
  <2>3. Seen(log, b, device[b].seq)
    BY <2>2, JFacts, Zenon DEF DeviceExact
  <2> QED BY <1>3, <2>1, <2>3, Zenon
<1>5. CASE FallbackRead(t)
  <2> DEFINE g == [f EXCEPT !.step = "read", !.data = device[f.block].data]
  <2>1. f.step = "probed" /\ tx' = [tx EXCEPT ![t].fb = g]
    BY <1>0, <1>5, Zenon DEF FallbackRead
  <2>2. g.block = f.block /\ g.step = "read" /\ g.data = device[f.block].data
    BY <1>0, Zenon DEF Fallback
  <2>3. ASSUME Seen(log, f.block, s) PROVE device[f.block].data = TruthIn(log, f.block, s)
    <3>1. Seen(log, f.block, device[f.block].seq)
      BY <1>1, <2>1, <2>3, Zenon DEF TxnExact, FallbackExact
    <3>2. device[f.block].seq \in Nat
          /\ device[f.block].data = TruthIn(log, f.block, device[f.block].seq)
      BY <1>1, JFacts, Zenon DEF DeviceExact
    <3>3. \A c \in Commits(log, f.block) : c <= device[f.block].seq <=> c <= s
      BY <2>3, <3>1, Zenon DEF Seen
    <3> QED BY <1>1, <3>2, <3>3, SeenTruth, Zenon
  <2> HIDE DEF g
  <2> QED BY <1>3, <2>1, <2>2, <2>3, Zenon
<1>6. ASSUME NEW S \in SUBSET Slots, NEW proof \in ProofFor(S), FallbackStage(t, S, proof),
             ~ Conflicts(t, f.block)
      PROVE  TxnExact(t, tx'[t], log, versions, device)
  <2> DEFINE w == FirstStage(f.data, S, proof, t)
  <2>1. StageInto(t, f.block, w) /\ f.step = "read"
    BY <1>6, Zenon DEF FallbackStage
  <2>2. Seen(log, f.block, s)
    BY <1>1, <1>6, NoConflictSeen, Zenon
  <2>3. f.data = TruthIn(log, f.block, s)
    BY <1>1, <2>1, <2>2, Zenon DEF TxnExact, FallbackExact
  <2>4. /\ \A x \in Slots : w.data[x] = IF x \in w.slots THEN t ELSE TruthIn(log, f.block, s)[x]
        /\ w.base # None => w.base = TruthIn(log, f.block, s)
    BY <2>3, FirstStageExact, SMTT(30)
  <2> HIDE DEF w
  <2> QED BY <1>1, <2>1, <2>4, StageExact, Zenon
<1> QED BY <1>2, <1>4, <1>5, <1>6, Zenon DEF FallbackProbe, FallbackStage

\* The steps of one transaction up to its commit keep the history exact.
LEMMA TxnJInv ==
    ASSUME IInv, JInv, NEW t \in Txns, TxnStep(t)
    PROVE  JInv'
<1>0. /\ tx \in [Txns -> Transaction] /\ tx[t] \in Transaction
      /\ TxnExact(t, tx[t], log, versions, device)
    BY DEF IInv, TypeOK, JInv, TxnsExact
<1>1. CASE Begin(t) \/ BeginRegistered(t)
  <2>1. /\ tx'[t].st = "active" /\ tx'[t].snap = CurrentSnapshot
        /\ tx'[t].staged = tx[t].staged /\ tx'[t].fb = tx[t].fb
        /\ \A u \in Txns : u # t => tx'[u] = tx[u]
    BY <1>0, <1>1 DEF Begin, BeginRegistered, Transaction
  <2>2. tx[t].st = "idle" /\ lock.phase = "free"
        /\ UNCHANGED <<log, versions, device, flushed, lock>>
    BY <1>1 DEF Begin, BeginRegistered, Free
  <2>3. lock.holder # t
    BY <2>2, ConstantsAssumption, Zenon DEF JInv, Histories
  <2> DEFINE r == tx'[t]
  <2>4. CurrentSnapshot = Len(log) /\ Len(log) \in Nat
        /\ \A b, c : c \in Commits(log, b) => c <= Len(log)
    BY JFacts, Zenon
  <2>5. /\ r.st = "active" /\ r.snap = Len(log) /\ r.fb.step = "none"
        /\ \A b \in Blocks : r.staged[b] = None
    BY <1>0, <2>1, <2>2, <2>4, Zenon DEF TxnExact
  <2> HIDE DEF r
  <2>6. TxnExact(t, r, log, versions, device)
    BY <2>4, <2>5, SMTT(30) DEF TxnExact, StagedExact, FallbackExact, DropsSeen, Seen
  <2> QED BY <2>1, <2>2, <2>3, <2>6, OneTxn, Zenon DEF r
<1>2. CASE EndScope(t)
  <2>1. /\ tx'[t].st = tx[t].st /\ tx'[t].snap = tx[t].snap
        /\ tx[t].st # "active" /\ tx[t].st # "idle"
        /\ \A u \in Txns : u # t => tx'[u] = tx[u]
    BY <1>0, <1>2, Zenon DEF EndScope, Transaction
  <2>2. TxnExact(t, tx'[t], log, versions, device)
    BY <1>0, <2>1, Zenon DEF TxnExact
  <2>3. UNCHANGED <<log, versions, device, flushed, lock>>
    BY <1>2, Zenon DEF EndScope
  <2> QED BY <2>1, <2>2, <2>3, OneTxn, Zenon
<1>3. CASE ~ (Begin(t) \/ BeginRegistered(t) \/ EndScope(t))
  <2>1. /\ tx[t].st = "active" /\ lock.holder # t
        /\ \A u \in Txns : u # t => tx'[u] = tx[u]
        /\ UNCHANGED <<log, versions, device, flushed, lock>>
    BY <1>3, QuietTxn, Zenon DEF TxnStep
  <2>2. TxnExact(t, tx'[t], log, versions, device)
    BY <1>3, StageBlindExact, StageWriteExact, FallbackStepsExact, DoomedExact, Zenon DEF TxnStep, Abort
  <2> QED BY <2>1, <2>2, OneTxn, Zenon
<1> QED BY <1>1, <1>2, <1>3

-----------------------------------------------------------------------------
(* Commits keep the invariant *)

\* What the others know does not change when a transaction commits.
LEMMA TxnAppend ==
    ASSUME NEW t, NEW r, NEW l \in Seq(Record), NEW R \in Record, NEW vs, NEW ws, NEW dv,
           r.snap \in Nat, TxnExact(t, r, l, vs, dv),
           \A b \in Blocks : ws[b] = {} => vs[b] = {} /\ b \notin R.blocks
    PROVE  TxnExact(t, r, Append(l, R), ws, dv)
<1> DEFINE k == Append(l, R)
<1>1. /\ Len(l) \in Nat /\ Len(k) = Len(l) + 1 /\ k[Len(l) + 1] = R
      /\ \A c \in 1 .. Len(l) : k[c] = l[c]
      /\ \A c \in 1 .. Len(k) : c \in 1 .. Len(l) \/ c = Len(l) + 1
      /\ \A c \in 1 .. Len(l) : c \in 1 .. Len(k)
      /\ Len(l) + 1 \in 1 .. Len(k)
    BY SMTT(30)
<1>2. r.snap <= Len(l) /\ \A b : TruthIn(k, b, r.snap) = TruthIn(l, b, r.snap)
    BY <1>1, AppendTruth, SMTT(30) DEF TxnExact
<1> HIDE DEF k
<1>3. \A b : b \notin R.blocks => Commits(k, b) = Commits(l, b)
    BY <1>1, Zenon DEF Commits
<1>4. \A b : Seen(k, b, r.snap) => b \notin R.blocks
  <2> SUFFICES ASSUME NEW b, Seen(k, b, r.snap), b \in R.blocks PROVE FALSE
    BY Zenon
  <2>1. Len(l) + 1 \in Commits(k, b)
    BY <1>1, Zenon DEF Commits
  <2> QED BY <1>1, <1>2, <2>1, SMTT(30) DEF Seen
<1>5. ASSUME r.st = "active"
      PROVE  StagedExact(t, r, k) /\ FallbackExact(r, k, dv) /\ DropsSeen(r, k, ws)
  <2>1. StagedExact(t, r, k)
    BY <1>2, <1>5, Zenon DEF TxnExact, StagedExact
  <2>2. FallbackExact(r, k, dv)
    BY <1>2, <1>3, <1>4, <1>5, Zenon DEF TxnExact, FallbackExact, Seen
  <2>3. DropsSeen(r, k, ws)
    BY <1>3, <1>5, Zenon DEF TxnExact, DropsSeen, Seen
  <2> QED BY <2>1, <2>2, <2>3, Zenon
<1>6. r.snap <= Len(k)
    BY <1>1, <1>2, SMTT(30)
<1> QED BY <1>5, <1>6, Zenon DEF TxnExact, k

\* The device stays exact when the log grows.
LEMMA DeviceAppend ==
    ASSUME NEW b, NEW d, NEW l \in Seq(Record), NEW R \in Record, NEW V, NEW W, NEW f,
           d.seq \in Nat, DeviceExact(b, d, V, l, f),
           f \in Nat, f <= Len(l), W = {} => V = {} /\ b \notin R.blocks
    PROVE  DeviceExact(b, d, W, Append(l, R), f)
<1> DEFINE k == Append(l, R)
<1>1. /\ Len(l) \in Nat /\ Len(k) = Len(l) + 1
      /\ \A c \in 1 .. Len(l) : k[c] = l[c]
      /\ k[Len(l) + 1] = R
      /\ \A c \in 1 .. Len(k) : c \in 1 .. Len(l) \/ c = Len(l) + 1
      /\ \A c \in 1 .. Len(l) : c \in 1 .. Len(k)
    BY SMTT(30)
<1>2. d.seq <= Len(l) /\ TruthIn(k, b, d.seq) = TruthIn(l, b, d.seq)
    BY <1>1, AppendTruth, SMTT(30) DEF DeviceExact
<1> HIDE DEF k
<1>3. \A c \in Commits(k, b) : c \in Commits(l, b) \/ c = Len(l) + 1
    BY <1>1, Zenon DEF Commits
<1>4. b \notin R.blocks => Commits(k, b) = Commits(l, b)
    BY <1>1, Zenon DEF Commits
<1>5. \A c \in Commits(k, b) : c <= f => c \in Commits(l, b)
    BY <1>1, <1>3, SMTT(30)
<1>6. d.seq <= Len(k)
    BY <1>1, <1>2, SMTT(30)
<1>7. \A c \in Commits(k, b) : c <= f => c <= d.seq
    BY <1>5, Zenon DEF DeviceExact
<1>8. W = {} => Seen(k, b, d.seq)
    BY <1>4, Zenon DEF DeviceExact, Seen
<1> QED BY <1>2, <1>6, <1>7, <1>8, Zenon DEF DeviceExact, k

\* A step of a commit is taken by a running transaction or by the lock holder.
LEMMA CommitStepHolds ==
    ASSUME NEW t \in Txns, CommitStep(t)
    PROVE  Running(t) \/ (lock.holder = t /\ lock.phase # "free")
BY Zenon DEF CommitStep, LockCommit, PreflightBlock, ApplyCommit, JournalWrite, JournalFail

\* A commit adds to the history exactly what its versions contain.
LEMMA InstallJInv ==
    ASSUME IInv, JInv, NEW t \in Txns, NEW policy \in Policies, CommitInstalls(t, policy)
    PROVE  JInv'
<1> DEFINE R == LogRecord(t)
           k == Append(log, R)
<1>0. /\ TypeOK /\ tx \in [Txns -> Transaction] /\ tx[t] \in Transaction
      /\ tx[t].st = "active" /\ nextCommit <= MaxCommit
    BY Zenon DEF IInv, TypeOK, Bounded, CommitInstalls, JInv, Histories
<1>1. /\ log \in Seq(Record) /\ Len(log) \in Nat /\ nextCommit = Len(log) + 1 /\ flushed \in Nat
      /\ flushed <= Len(log)
    BY JFacts, Zenon DEF IInv, Bounded
<1>2. \A b \in WriteSet(t) : b \in Blocks /\ tx[t].staged[b] \in Staged /\ tx[t].staged[b].slots \in SUBSET Slots
  <2>1. tx[t].staged \in [Blocks -> {None} \cup Staged]
    BY <1>0, Zenon DEF Transaction
  <2>2. \A b \in WriteSet(t) : b \in Blocks /\ tx[t].staged[b] \in Staged
    BY <2>1, Zenon DEF WriteSet
  <2> QED BY <2>2, Zenon DEF Staged
<1>3. /\ R \in Record /\ R.txn = t /\ R.blocks = WriteSet(t)
      /\ \A b \in WriteSet(t) : R.slots[b] = tx[t].staged[b].slots
  <2>1. [b \in Blocks |-> IF b \in WriteSet(t) THEN tx[t].staged[b].slots ELSE {}] \in [Blocks -> SUBSET Slots]
    BY <1>2, Zenon
  <2>2. WriteSet(t) \subseteq Blocks
    BY DEF WriteSet
  <2> QED BY <1>2, <2>1, <2>2, Zenon DEF LogRecord, Record
<1>4. /\ log' = k /\ lock' = Unlocked /\ tx' = [tx EXCEPT ![t].st = "committed"]
      /\ versions' = [b \in Blocks |-> IF b \in WriteSet(t) THEN InstalledChain(t, b, nextCommit)
                                       ELSE versions[b]]
      /\ UNCHANGED <<device, flushed>>
    BY DEF CommitInstalls, Install
<1>5. /\ tx'[t].st = "committed" /\ tx'[t].snap = tx[t].snap
      /\ \A u \in Txns : u # t => tx'[u] = tx[u]
    BY <1>0, <1>4, Zenon DEF Transaction
<1> HIDE DEF R
<1>6. /\ Len(k) = Len(log) + 1 /\ k[Len(log) + 1] = R
      /\ \A c \in 1 .. Len(log) : k[c] = log[c]
      /\ \A c \in 1 .. Len(k) : c \in 1 .. Len(log) \/ c = Len(log) + 1
    BY <1>1, <1>3, SMTT(30)
<1>7. ASSUME NEW b \in WriteSet(t) PROVE ExactOver(versions'[b], k, b)
  <2>1. b \in Blocks /\ Resolves(t, b, ApplyBase(t, b), policy)
    BY <1>2, Zenon DEF CommitInstalls
  <2>2. ResolvedBytes(t, b) \in Data
    BY <2>1, ResolvedType, Zenon
  <2>3. TruthIn(k, b, Len(log) + 1) = ResolvedBytes(t, b)
    <3>1. k \in Seq(Record)
      BY <1>1, <1>3, SMTT(30)
    <3>2. TruthIn(k, b, Len(log) + 1) \in Data
      BY <3>1, TruthType, Zenon
    <3>3. ASSUME NEW x \in Slots
          PROVE  TruthIn(k, b, Len(log) + 1)[x] = ResolvedBytes(t, b)[x]
      <4>1. TruthIn(k, b, Len(log) + 1)[x]
                = IF x \in R.slots[b] THEN R.txn ELSE TruthIn(log, b, Len(log))[x]
        BY <1>1, <1>3, PushTruth, SMTT(30)
      <4>2. ResolvedBytes(t, b)[x] = IF x \in tx[t].staged[b].slots THEN t
                                     ELSE TruthIn(log, b, Len(log))[x]
        BY <1>0, <2>1, ResolvedTruth, Zenon
      <4> QED BY <1>3, <4>1, <4>2, Zenon
    <3> HIDE DEF k
    <3> QED BY <2>2, <3>2, <3>3, SMTT(30) DEF Data
  <2>4. PICK n \in Version :
               /\ n.seq = nextCommit /\ Chain(versions[b] \cup {n})
               /\ SuffixOf(InstalledChain(t, b, nextCommit), versions[b] \cup {n})
               /\ ReadVisible(versions[b] \cup {n}, nextCommit) = ResolvedBytes(t, b)
               /\ \A v \in versions[b] :
                     ReadVisible(versions[b] \cup {n}, v.seq) = ReadVisible(versions[b], v.seq)
    BY <1>0, <2>2, InstalledExact, Zenon
  <2>5. ExactOver(versions[b], log, b)
    BY <2>1, JFacts, Zenon
  <2>6. ExactOver(versions[b] \cup {n}, k, b)
    BY <1>1, <1>3, <2>3, <2>4, <2>5, AppendExact, Zenon
  <2>7. versions'[b] = InstalledChain(t, b, nextCommit)
    BY <1>4, <2>1, Zenon
  <2> QED BY <2>4, <2>6, <2>7, SuffixExact, Zenon
<1>8. ASSUME NEW b \in Blocks, b \notin WriteSet(t)
      PROVE  ExactOver(versions'[b], k, b) /\ versions'[b] = versions[b]
  <2>1. versions'[b] = versions[b]
    BY <1>4, <1>8, Zenon
  <2> QED BY <1>1, <1>3, <1>8, <2>1, JFacts, AppendExact, Zenon
<1>9. \A b \in Blocks : versions'[b] = {} => versions[b] = {} /\ b \notin R.blocks
  <2>1. ASSUME NEW b \in WriteSet(t) PROVE versions'[b] # {}
    <3>1. Resolves(t, b, ApplyBase(t, b), policy)
      BY Zenon DEF CommitInstalls
    <3>2. ResolvedBytes(t, b) \in Data
      BY <3>1, ResolvedType, Zenon
    <3>3. \E u \in InstalledChain(t, b, nextCommit) : u.seq = nextCommit
      BY <1>0, <3>2, InstalledKeeps, Zenon
    <3>4. versions'[b] = InstalledChain(t, b, nextCommit)
      BY <1>2, <1>4, Zenon
    <3> QED BY <3>3, <3>4, Zenon
  <2> QED BY <1>3, <1>8, <2>1, Zenon
<1>10. StoreExact'
  <2>1. ASSUME NEW b \in Blocks PROVE DeviceExact(b, device[b], versions'[b], k, flushed)
    BY <1>1, <1>3, <1>9, JFacts, DeviceAppend, Zenon
  <2> QED BY <1>4, <1>7, <1>8, <2>1, Zenon DEF StoreExact
<1>11. TxnsExact'
  <2>1. ASSUME NEW u \in Txns PROVE TxnExact(u, tx'[u], k, versions', device)
    <3>1. TxnExact(u, tx[u], log, versions, device) /\ tx[u].snap \in Nat
      BY JFacts, Zenon DEF JInv, TxnsExact
    <3>2. TxnExact(u, tx[u], k, versions', device)
      BY <1>1, <1>3, <1>9, <3>1, TxnAppend, Zenon
    <3>3. CASE u # t
      BY <1>5, <3>2, <3>3, Zenon
    <3>4. CASE u = t
      BY <1>5, <3>2, <3>4, Zenon DEF TxnExact
    <3> QED BY <3>3, <3>4, Zenon
  <2> QED BY <1>4, <2>1, Zenon DEF TxnsExact
<1>12. Histories'
  <2>1. ASSUME NEW c \in 1 .. Len(k) PROVE tx'[k[c].txn].st = "committed"
    <3>1. CASE c \in 1 .. Len(log)
      <4>1. tx[log[c].txn].st = "committed" /\ log[c].txn \in Txns
        BY <3>1, JFacts, Zenon DEF JInv, Histories
      <4> QED BY <1>5, <1>6, <3>1, <4>1, Zenon
    <3>2. CASE c = Len(log) + 1
      BY <1>3, <1>5, <1>6, <3>2, Zenon
    <3> QED BY <1>6, <3>1, <3>2, Zenon
  <2>2. lock'.phase = "free" /\ lock'.holder = NoTxn
    BY <1>4, Zenon DEF Unlocked
  <2> HIDE DEF k
  <2> QED BY <1>4, <2>1, <2>2, Zenon DEF Histories
<1> QED BY <1>10, <1>11, <1>12, Zenon DEF JInv

\* The steps of a commit: a merge of exact contents is exact.
LEMMA CommitJInv ==
    ASSUME IInv, JInv, NEW t \in Txns, CommitStep(t)
    PROVE  JInv'
<1>0. tx \in [Txns -> Transaction] /\ tx[t] \in Transaction
    BY DEF IInv, TypeOK
<1>1. CASE CommitGoesOn(t)
  <2>1. UNCHANGED <<versions, tx, device, flushed, log>> /\ lock'.holder = t /\ lock'.phase # "free"
    BY <1>1, Zenon DEF CommitGoesOn
  <2>2. tx[t].st = "active"
    BY <1>1, Zenon DEF CommitGoesOn, Running, JInv, Histories
  <2>3. Histories'
    BY <2>1, <2>2, Zenon DEF JInv, Histories
  <2> QED BY <2>1, <2>3, Zenon DEF JInv, StoreExact, TxnsExact
<1>2. CASE CommitRefused(t)
  <2>1. /\ UNCHANGED <<versions, device, flushed, log>> /\ lock' = Unlocked
        /\ tx' = [tx EXCEPT ![t].st = "failed"]
    BY <1>2, Zenon DEF CommitRefused, FailCommit
  <2>2. /\ tx'[t].st = "failed" /\ tx'[t].snap = tx[t].snap
        /\ \A u \in Txns : u # t => tx'[u] = tx[u]
    BY <1>0, <2>1, Zenon DEF Transaction
  <2>3. tx[t].st # "committed"
    <3>1. Running(t) \/ (lock.holder = t /\ lock.phase # "free")
      BY <1>2, CommitStepHolds, Zenon
    <3> QED BY <3>1, Zenon DEF Running, JInv, Histories
  <2>4. Histories'
    <3>1. \A c \in 1 .. Len(log) : tx'[log[c].txn].st = "committed"
      BY <2>2, <2>3, JFacts, Zenon DEF JInv, Histories
    <3> QED BY <2>1, <3>1, Zenon DEF Histories, Unlocked
  <2>5. TxnsExact'
    BY <2>1, <2>2, Zenon DEF JInv, TxnsExact, TxnExact
  <2> QED BY <2>1, <2>4, <2>5, Zenon DEF JInv, StoreExact
<1>3. CASE \E policy \in Policies : CommitInstalls(t, policy)
    BY <1>3, InstallJInv, Zenon
<1> QED BY <1>1, <1>2, <1>3, CommitShape, Zenon

-----------------------------------------------------------------------------
(* Garbage collection and flushes keep the invariant *)

\* prune_safe leaves a suffix of every chain.
LEMMA PruneJInv ==
    ASSUME IInv, JInv, PruneSafe
    PROVE  JInv'
<1> DEFINE wm == WatermarkOr(active, CurrentSnapshot)
<1>1. /\ UNCHANGED <<tx, lock, device, flushed, log>>
      /\ versions' = [b \in Blocks |-> TrimChain(versions[b], 0, wm)]
    BY Zenon DEF PruneSafe
<1>2. wm \in Nat
    BY TypeFacts, WatermarkLow, Zenon DEF IInv
<1> HIDE DEF wm
<1>3. ASSUME NEW b \in Blocks
      PROVE  ExactOver(versions'[b], log, b) /\ (versions'[b] = {} => versions[b] = {})
  <2>1. SuffixOf(versions'[b], versions[b])
    BY <1>1, <1>2, TrimSuffix, Zenon DEF IInv, Chains
  <2>2. ExactOver(versions'[b], log, b)
    BY <2>1, JFacts, SuffixExact, Zenon
  <2> QED BY <2>1, <2>2, Zenon DEF SuffixOf
<1>4. StoreExact'
    BY <1>1, <1>3, Zenon DEF JInv, StoreExact, DeviceExact
<1>5. TxnsExact'
    BY <1>1, <1>3, Zenon DEF JInv, TxnsExact, TxnExact, DropsSeen
<1>6. Histories'
    BY <1>1, Zenon DEF JInv, Histories
<1> QED BY <1>4, <1>5, <1>6, Zenon DEF JInv

\* An evicted chain is on the device, and no running transaction is older.
LEMMA EvictJInv ==
    ASSUME IInv, JInv, EvictDurable, Pinned
    PROVE  JInv'
<1>0. TypeOK
    BY Zenon DEF IInv
<1>1. /\ UNCHANGED <<tx, lock, device, flushed, log>> /\ ~ UnregisteredRunning
      /\ versions' = [b \in Blocks |-> IF LatestSeq(versions[b]) <= EvictBound THEN {} ELSE versions[b]]
    BY Zenon DEF EvictDurable
<1>2. /\ EvictBound \in Nat /\ EvictBound <= flushed
      /\ \A t \in Txns : tx[t].st = "active" => EvictBound <= tx[t].snap
  <2> DEFINE wm == WatermarkOr(active, flushed)
  <2>1. flushed \in Nat /\ wm \in Nat /\ \A s \in ActiveSeqs(active) : wm <= s /\ s \in Nat
    BY <1>0, TypeFacts, WatermarkLow, Zenon DEF ActiveSeqs
  <2>2. EvictBound = IF wm <= flushed THEN wm ELSE flushed
    BY Zenon DEF EvictBound
  <2> HIDE DEF wm
  <2>3. EvictBound \in Nat /\ EvictBound <= flushed /\ EvictBound <= wm
    BY <2>1, <2>2, SMTT(30)
  <2>4. ASSUME NEW t \in Txns, tx[t].st = "active" PROVE EvictBound <= tx[t].snap
    <3>1. tx[t].snap \in ActiveSeqs(active)
      BY <1>1, <2>4, JFacts, Zenon DEF UnregisteredRunning, Pinned, ActiveSeqs
    <3> QED BY <2>1, <2>3, <3>1, SMTT(30)
  <2> QED BY <2>3, <2>4, Zenon
<1>3. ASSUME NEW b \in Blocks
      PROVE  \/ versions'[b] = versions[b]
             \/ /\ versions'[b] = {} /\ Seen(log, b, device[b].seq)
                /\ \A t \in Txns : tx[t].st = "active" => Seen(log, b, tx[t].snap)
  <2>1. CASE versions[b] = {}
    BY <1>1, <2>1, Zenon
  <2>2. CASE versions[b] # {} /\ LatestSeq(versions[b]) <= EvictBound
    <3>1. /\ LatestSeq(versions[b]) \in Commits(log, b)
          /\ \A c \in Commits(log, b) : c <= LatestSeq(versions[b])
      BY <2>2, JFacts, NewestCovers, Zenon
    <3>2. LatestSeq(versions[b]) \in Nat /\ \A c \in Commits(log, b) : c \in Nat
      BY <3>1, JFacts, Zenon
    <3>3. \A c \in Commits(log, b) : c <= EvictBound
      BY <1>2, <2>2, <3>1, <3>2, SMTT(30)
    <3>4. flushed \in Nat /\ \A t \in Txns : tx[t].snap \in Nat
      BY JFacts, Zenon
    <3>5. \A c \in Commits(log, b) : c <= flushed
      BY <1>2, <3>2, <3>3, <3>4, SMTT(30)
    <3>6. Seen(log, b, device[b].seq)
      BY <3>5, JFacts, Zenon DEF DeviceExact, Seen
    <3>7. \A t \in Txns : tx[t].st = "active" => Seen(log, b, tx[t].snap)
      BY <1>2, <3>2, <3>3, <3>4, SMTT(30) DEF Seen
    <3> QED BY <1>1, <2>2, <3>6, <3>7, Zenon
  <2>3. CASE ~ (LatestSeq(versions[b]) <= EvictBound)
    BY <1>1, <2>3, Zenon
  <2> QED BY <2>1, <2>2, <2>3, Zenon
<1>4. \A b \in Blocks : ExactOver({}, log, b)
    BY Zenon DEF ExactOver, Chain, UniqueSeqs, HeadFull
<1>5. StoreExact'
    BY <1>1, <1>3, <1>4, Zenon DEF JInv, StoreExact, DeviceExact
<1>6. TxnsExact'
  <2>1. ASSUME NEW t \in Txns, tx[t].st = "active" PROVE DropsSeen(tx[t], log, versions')
    BY <1>3, <2>1, Zenon DEF JInv, TxnsExact, TxnExact, DropsSeen
  <2> QED BY <1>1, <2>1, Zenon DEF JInv, TxnsExact, TxnExact
<1>7. Histories'
    BY <1>1, Zenon DEF JInv, Histories
<1> QED BY <1>5, <1>6, <1>7, Zenon DEF JInv

\* A flushed block has all commits of the block.
LEMMA FlushedExact ==
    ASSUME IInv, JInv, NEW b \in Blocks
    PROVE  LET d == FlushedBlock(b)
           IN  /\ \A f \in {flushed, CurrentSnapshot} : DeviceExact(b, d, versions[b], log, f)
               /\ Seen(log, b, d.seq)
<1> DEFINE V == versions[b]
           d == FlushedBlock(b)
<1>1. /\ Len(log) \in Nat /\ CurrentSnapshot = Len(log) /\ flushed \in Nat
      /\ Chain(V) /\ ExactOver(V, log, b) /\ DeviceExact(b, device[b], V, log, flushed)
      /\ \A c \in Commits(log, b) : c \in Nat /\ c <= Len(log) /\ c >= 1
    BY JFacts, Zenon
<1> SUFFICES d.seq <= Len(log) /\ d.data = TruthIn(log, b, d.seq) /\ Seen(log, b, d.seq)
    BY Zenon DEF DeviceExact, Seen
<1>2. V # {} => /\ LatestSeq(V) \in Commits(log, b)
                /\ \A c \in Commits(log, b) : c <= LatestSeq(V)
    BY <1>1, NewestCovers, Zenon
<1>3. CASE LatestSeq(V) > flushed /\ ReadVisible(V, CurrentSnapshot) # None
  <2>1. V # {}
    BY <1>3, Zenon DEF ReadVisible, VisibleAt
  <2>2. d.seq = LatestSeq(V) /\ d.data = ReadVisible(V, Len(log))
    BY <1>1, <1>3, Zenon DEF FlushedBlock
  <2>3. d.data = TruthIn(log, b, Len(log))
    BY <1>1, <1>3, <2>2, VisibleExact, Zenon
  <2> HIDE DEF d, V
  <2>4. d.seq \in Nat /\ d.seq <= Len(log) /\ Seen(log, b, d.seq)
    BY <1>1, <1>2, <2>1, <2>2, Zenon DEF Seen
  <2>5. \A c \in Commits(log, b) : c <= d.seq <=> c <= Len(log)
    BY <1>1, <2>4, Zenon DEF Seen
  <2>6. TruthIn(log, b, Len(log)) = TruthIn(log, b, d.seq)
    BY <1>1, <2>4, <2>5, SeenTruth, Zenon
  <2> QED BY <2>3, <2>4, <2>6, Zenon
<1>4. CASE ~ (LatestSeq(V) > flushed /\ ReadVisible(V, CurrentSnapshot) # None)
  <2>1. d = device[b]
    BY <1>4, Zenon DEF FlushedBlock
  <2>2. Seen(log, b, device[b].seq)
    <3>1. CASE V = {}
      BY <1>1, <3>1, Zenon DEF DeviceExact
    <3>2. CASE V # {}
      <4>1. \A v \in V : v.seq <= Len(log)
        BY <1>1, Zenon DEF ExactOver
      <4>2. ReadVisible(V, CurrentSnapshot) # None
        BY <1>1, <3>2, <4>1, ReadLatest, DataFacts, Zenon
      <4>3. \A c \in Commits(log, b) : c <= flushed
        BY <1>1, <1>2, <1>4, <3>2, <4>2, SMTT(30)
      <4> QED BY <1>1, <4>3, Zenon DEF DeviceExact, Seen
    <3> QED BY <3>1, <3>2, Zenon
  <2> QED BY <1>1, <2>1, <2>2, Zenon DEF DeviceExact
<1> QED BY <1>3, <1>4, Zenon

\* A flush, whole or cut short, writes exact contents; only a whole one moves
\* the cursor.
LEMMA FlushJInv ==
    ASSUME IInv, JInv, Flush \/ \E last \in Blocks : FlushFail(last)
    PROVE  JInv'
<1>1. /\ UNCHANGED <<tx, lock, versions, log>>
      /\ \A b \in Blocks : device'[b] = FlushedBlock(b) \/ (device'[b] = device[b] /\ flushed' = flushed)
      /\ flushed' \in {flushed, CurrentSnapshot}
    BY Zenon DEF Flush, FlushFail
<1>2. ASSUME NEW b \in Blocks
      PROVE  /\ DeviceExact(b, device'[b], versions[b], log, flushed')
             /\ Seen(log, b, device[b].seq) => Seen(log, b, device'[b].seq)
  <2>1. CASE device'[b] = FlushedBlock(b)
    BY <1>1, <2>1, FlushedExact, Zenon
  <2>2. CASE device'[b] = device[b] /\ flushed' = flushed
    BY <2>2, JFacts, Zenon
  <2> QED BY <1>1, <2>1, <2>2, Zenon
<1>3. StoreExact'
    BY <1>1, <1>2, Zenon DEF JInv, StoreExact
<1>4. TxnsExact'
  <2>1. ASSUME NEW t \in Txns, tx[t].st = "active" PROVE FallbackExact(tx[t], log, device')
    <3>1. tx[t].fb.block \in Blocks
      BY JFacts, Zenon DEF Transaction, Fallback
    <3> QED BY <1>2, <2>1, <3>1, Zenon DEF JInv, TxnsExact, TxnExact, FallbackExact
  <2> QED BY <1>1, <2>1, Zenon DEF JInv, TxnsExact, TxnExact
<1>5. Histories'
    BY <1>1, Zenon DEF JInv, Histories
<1> QED BY <1>3, <1>4, <1>5, Zenon DEF JInv

-----------------------------------------------------------------------------
(* The theorems *)

\* Every step keeps the history exact, evictions under their contract.
LEMMA NextJInv == IInv /\ JInv /\ [Next]_vars /\ [EvictDurable => Pinned]_vars => JInv'
<1> SUFFICES ASSUME IInv, JInv, [Next]_vars, [EvictDurable => Pinned]_vars PROVE JInv'
    BY Zenon
<1>1. ASSUME UNCHANGED <<tx, lock, versions, device, flushed, log>> PROVE JInv'
    BY <1>1, Zenon DEF JInv, Histories, StoreExact, TxnsExact
<1>2. CASE UNCHANGED vars
    BY <1>1, <1>2, Zenon DEF vars
<1>3. ASSUME NEW r \in Readers, Register(r) \/ Release(r) PROVE JInv'
    BY <1>1, <1>3, Zenon DEF Register, Release
<1>4. CASE EvictDurable
    BY <1>2, <1>4, EvictJInv, Zenon
<1>5. CASE GcStep /\ ~ EvictDurable
    BY <1>5, PruneJInv, FlushJInv, Zenon DEF GcStep
<1> QED BY <1>2, <1>3, <1>4, <1>5, TxnJInv, CommitJInv, Zenon DEF Next

\* The history is exact in every state the contract lets the store reach.
LEMMA HistoryInvariance == Spec /\ EvictsPinned => []JInv
BY InitJInv, NextJInv, Invariance, PTL DEF Spec, EvictsPinned

\* For every cap, policy and commit mode, and from the contract of
\* evict_durable_chains alone: every retained version has the contents that all
\* commits up to it leave.  No committed write is lost, duplicated or applied
\* to the wrong state.
THEOREM NoWriteLost == Spec /\ EvictsPinned => []VersionsExact
BY HistoryInvariance, JInvImplies, PTL

\* From the same contract, a merge base is the contents at the snapshot, also
\* when it was read from the device without the lock.
THEOREM MergeBaseExact == Spec /\ EvictsPinned => []AncestorAtSnapshot
BY HistoryInvariance, JInvImplies, PTL

\* From the same contract, the device is exact and complete up to the cursor,
\* also after flushes that failed halfway.
THEOREM DeviceComplete == Spec /\ EvictsPinned => []FlushExact
BY HistoryInvariance, JInvImplies, PTL

\* Without a cap nothing is forced out, so that a registered transaction keeps
\* its pin.
NoForced == \A s \in Seqs : forced[s] = 0

\* Without a cap nothing is forced out.
LEMMA Unforced ==
    ASSUME Cap = 0
    PROVE  IInv /\ NoForced /\ [Next]_vars => NoForced'
<1> SUFFICES ASSUME IInv, NoForced, [Next]_vars PROVE forced' = forced
    BY Zenon DEF NoForced
<1>1. \A b : ~ Pressured(b)
    BY DEF Pressured
<1>2. \A s \in Seqs : ReleaseSnapshot(s) => forced' = forced
    BY SMTT(30) DEF ReleaseSnapshot, NoForced
<1>3. ASSUME NEW t \in Txns, TxnStep(t) PROVE forced' = forced
  <2>1. tx[t].snap \in Seqs
    BY Zenon DEF IInv, TypeOK, Transaction
  <2> QED BY <1>2, <1>3, <2>1, Zenon DEF TxnStep, Begin, BeginRegistered, EndScope, StageBlind, StageWrite,
              FallbackProbe, FallbackRead, FallbackStage, Abort
<1>4. ASSUME NEW t \in Txns, CommitStep(t) PROVE forced' = forced
    BY <1>1, <1>4, Zenon DEF CommitStep, LockCommit, PreflightBlock, ApplyCommit, JournalWrite, JournalFail
<1>5. ASSUME NEW r \in Readers, Register(r) \/ Release(r) PROVE forced' = forced
  <2>1. readers[r].snap \in Seqs
    BY Zenon DEF IInv, TypeOK
  <2> QED BY <1>2, <1>5, <2>1, Zenon DEF Register, Release
<1> QED BY <1>3, <1>4, <1>5, Zenon DEF Next, GcStep, PruneSafe, EvictDurable, Flush, FlushFail, vars

\* So that every registered transaction has its reference.
LEMMA UnforcedPinned == IInv /\ Balance /\ NoForced => Pinned
<1> SUFFICES ASSUME IInv, Balance, NoForced, NEW t \in Txns, tx[t].reg
             PROVE  active[tx[t].snap] > 0
    BY Zenon DEF Pinned
<1> DEFINE s == tx[t].snap
<1>1. s \in Seqs /\ active \in [Seqs -> Nat] /\ forced[s] = 0
    BY Zenon DEF IInv, TypeOK, Transaction, NoForced
<1>2. t \in RegisteredAt(s)
    BY Zenon DEF RegisteredAt
<1>3. active[s] + forced[s] = Cardinality(LiveAt(s)) + Cardinality(RegisteredAt(s))
    BY <1>1, BalanceAt, Zenon DEF Balance
<1>4. Cardinality(LiveAt(s)) \in Nat /\ Cardinality(RegisteredAt(s)) \in Nat
      /\ Cardinality(RegisteredAt(s)) # 0
    BY <1>2, HoldersFinite, FS_EmptySet, Zenon
<1> HIDE DEF s
<1> QED BY <1>1, <1>3, <1>4, SMTT(30) DEF s

\* Without a cap the contract is kept by the store itself: the three properties
\* hold of every behaviour.
THEOREM UncappedExact ==
    ASSUME Cap = 0
    PROVE  Spec => [](VersionsExact /\ AncestorAtSnapshot /\ FlushExact)
<1>1. Init => NoForced
    BY Zenon DEF Init, NoForced
<1>2. IInv /\ Balance /\ NoForced => [EvictDurable => Pinned]_vars
    BY UnforcedPinned, Zenon
<1>3. IInv /\ NoForced /\ [Next]_vars => NoForced'
    BY Unforced
<1> QED BY <1>1, <1>2, <1>3, Invariance, BalanceInvariance, HistoryInvariance, JInvImplies, PTL
       DEF Spec, EvictsPinned
=============================================================================
