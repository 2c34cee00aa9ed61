-------------------------- MODULE ShardedStoreProofs --------------------------
(***************************************************************************)
(* Proofs about ShardedStore for every number of transactions, readers,    *)
(* blocks, shards and commits: what a registered snapshot reads while      *)
(* commits, pruning, eviction and flushing run beside it.                  *)
(***************************************************************************)
EXTENDS ShardedStore, TLAPS, FiniteSetTheorems, NaturalsInduction

-----------------------------------------------------------------------------
(* The inductive invariant *)

\* The holders of a registration at s.
LiveAt(s) == {r \in Readers : readers[r].live /\ readers[r].snap = s}
RegisteredAt(s) == {t \in Txns : tx[t].reg /\ tx[t].snap = s}

\* Every registration is counted once.
Counts ==
    \A s \in Seqs : active[s] = Cardinality(LiveAt(s)) + Cardinality(RegisteredAt(s))

\* Shard locks are exclusive, are taken from preflight to install only, and
\* cover the write set of a commit that has its sequence.
Locks ==
    /\ \A t \in Txns :
          /\ tx[t].pc \notin {"locking", "install"} => tx[t].held = {}
          /\ tx[t].held \subseteq ShardsOf(tx[t].writes)
          /\ tx[t].pc = "install" => tx[t].held = ShardsOf(tx[t].writes)
          /\ tx[t].pc = "idle" => ~ tx[t].reg
    /\ \A t, u \in Txns : t # u => tx[t].held \cap tx[u].held = {}

\* Between preflight and install a sequence is the transaction's own, and newer
\* than every version in the chains it is about to join.
Installing ==
    /\ \A t \in Txns : tx[t].pc = "install" =>
          /\ tx[t].seq \in 1 .. allocated /\ tx[t].seq \notin installed
          /\ writes[tx[t].seq] = tx[t].writes
          /\ \A b \in tx[t].writes : \A w \in versions[b] : w < tx[t].seq
    /\ \A t, u \in Txns :
          t # u /\ tx[t].pc = "install" /\ tx[u].pc = "install" => tx[t].seq # tx[u].seq

\* The watermark is behind a contiguous prefix; chains hold installed versions
\* of their block, and above the watermark all of them.
Published ==
    /\ installed \subseteq 1 .. allocated
    /\ 1 .. completed \subseteq installed
    /\ \A b \in Blocks : \A v \in versions[b] : v \in installed /\ b \in writes[v]
    /\ \A c \in installed : c > completed =>
          \A b \in Blocks : b \in writes[c] => c \in versions[b]

\* Nothing is ahead of the watermark; a collection stays below every
\* registered snapshot, an eviction also below the flush cursor.
Bounds ==
    /\ \A s \in Pinned : s <= completed
    /\ flushed <= completed
    /\ \A b \in Blocks : device[b] <= completed
    /\ flush.on => /\ flushed <= flush.snap /\ flush.snap <= completed
                   /\ \A b \in Blocks : device[b] <= flush.snap
    /\ gc.kind # "none" => gc.wm <= completed /\ \A s \in Pinned : gc.wm <= s
    /\ gc.kind = "evict" => gc.wm <= flushed

\* Of commit c to block b a snapshot at s finds c itself, something later, or
\* the device.
Shown(b, c, s) == (\E v \in versions[b] : c <= v /\ v <= s) \/ c <= device[b]

Complete ==
    \A s \in Pinned \cup {completed}, b \in Blocks :
        \A c \in 1 .. s : b \in writes[c] => Shown(b, c, s)

\* What the cursor really promises: the device holds a commit at or below it,
\* unless a version newer than the cursor is still to be flushed.
Covered ==
    \A b \in Blocks : \A c \in 1 .. flushed :
        b \in writes[c] => c <= device[b] \/ \E v \in versions[b] : v > flushed

\* The same of the cursor that the flush in progress will set, for the blocks it
\* has decided on.
Decided ==
    flush.on => \A b \in Blocks :
        ShardIndex(b) \notin flush.todo /\ b \notin flush.keys =>
            \A c \in 1 .. flush.snap : b \in writes[c] =>
                \/ c <= device[b] \/ c <= flush.items[b]
                \/ \E v \in versions[b] : v > flush.snap

\* A version on the device, or on its way there, is in the chain or older than
\* all of it; it leaves the chain only after the cursor has passed it.
InChain(b, d) == d \in versions[b] \/ \A v \in versions[b] : v > d

OnDevice ==
    \A b \in Blocks :
        /\ InChain(b, device[b])
        /\ device[b] > flushed => versions[b] # {}

InFlight ==
    \A b \in Blocks : flush.items[b] # 0 =>
        /\ flush.on /\ InChain(b, flush.items[b]) /\ versions[b] # {}
        /\ flushed < flush.items[b] /\ flush.items[b] <= flush.snap
        /\ device[b] <= flush.items[b]

IInv ==
    /\ TypeOK /\ Counts /\ Locks /\ Installing /\ Published /\ Bounds
    /\ Complete /\ Covered /\ Decided /\ OnDevice /\ InFlight

-----------------------------------------------------------------------------
(* Least and greatest elements, shards *)

\* A nonempty set of naturals has a least element, which Lowest returns.
LEMMA LowestIs ==
    ASSUME NEW S, S \subseteq Nat, S # {}
    PROVE  Lowest(S) \in S /\ \A d \in S : Lowest(S) <= d
<1>1. \E m \in S : \A d \in S : ~ (<<d, m>> \in OpToRel(<, Nat))
    BY NatLessThanWellFounded, WFMin, Zenon
<1>2. PICK m \in S : \A d \in S : ~ (<<d, m>> \in OpToRel(<, Nat))
    BY <1>1, Zenon
<1>3. \A x, y \in Nat : x < y => <<x, y>> \in OpToRel(<, Nat)
    BY DEF OpToRel
<1>4. \A d \in S : ~ (d < m)
    BY <1>2, <1>3, Zenon
<1>5. \A d \in S : m <= d
    BY <1>4
<1> QED BY <1>5, Zenon DEF Lowest

\* A nonempty bounded set of naturals has a greatest element, which NewestOf
\* returns.
LEMMA NewestIs ==
    ASSUME NEW n \in Nat, NEW S, S \subseteq 0 .. n, S # {}
    PROVE  NewestOf(S) \in S /\ \A d \in S : d <= NewestOf(S)
<1> DEFINE T == {n - d : d \in S}
<1>0. PICK x : x \in S
    OBVIOUS
<1>1. T \subseteq Nat /\ n - x \in T
    BY <1>0
<1>2. Lowest(T) \in T /\ \A e \in T : Lowest(T) <= e
    BY <1>1, LowestIs, Zenon
<1>3. PICK m \in S : Lowest(T) = n - m
    BY <1>2, Zenon
<1>4. \A d \in S : n - d \in T
    OBVIOUS
<1>5. \A d \in S : n - m <= n - d
    BY <1>2, <1>3, <1>4, Zenon
<1>6. \A d \in S : d <= m
    BY <1>5
<1> QED BY <1>6, Zenon DEF NewestOf

\* There is one newest element only.
LEMMA NewestUnique ==
    ASSUME NEW n \in Nat, NEW S, S \subseteq 0 .. n, NEW m \in S, \A d \in S : d <= m
    PROVE  NewestOf(S) = m
<1>1. NewestOf(S) \in S /\ m <= NewestOf(S) /\ NewestOf(S) <= m
    BY NewestIs, Zenon
<1>2. \A d \in S : d \in Nat
    OBVIOUS
<1>3. \A x, y \in Nat : x <= y /\ y <= x => x = y
    OBVIOUS
<1> QED BY <1>1, <1>2, <1>3, Zenon

\* Every block has its shard.
LEMMA ShardOf ==
    ASSUME NEW W \in SUBSET Blocks
    PROVE  /\ ShardsOf(W) \subseteq Shards
           /\ \A b \in W : ShardIndex(b) \in ShardsOf(W)
<1>1. \A b \in Blocks : ShardIndex(b) \in Shards
    BY ShardedAssumption DEF ShardIndex, Shards
<1> QED BY <1>1 DEF ShardsOf

-----------------------------------------------------------------------------
(* Types *)

TxRecord == [pc : {"idle", "open", "locking", "install", "publish", "over"},
             snap : Seqs, reg : BOOLEAN, writes : SUBSET Blocks,
             held : SUBSET Shards, seq : Seqs]
ReaderRecord == [live : BOOLEAN, snap : Seqs]
GcRecord == [kind : {"none", "prune", "evict"}, wm : Seqs, todo : SUBSET Shards]
FlushRecord == [on : BOOLEAN, snap : Seqs, todo : SUBSET Shards, keys : SUBSET Blocks,
                items : [Blocks -> Seqs]]

\* What the types say of the numbers.
LEMMA TypeFacts ==
    ASSUME TypeOK
    PROVE  /\ MaxCommit \in Nat /\ Seqs \subseteq Nat /\ 0 \in Seqs
           /\ allocated \in Nat /\ completed \in Nat /\ flushed \in Nat
           /\ completed \in Seqs /\ flushed \in Seqs
           /\ versions \in [Blocks -> SUBSET (1 .. MaxCommit)]
           /\ \A b \in Blocks : \A v \in versions[b] : v \in Nat /\ v \in Seqs
           /\ device \in [Blocks -> Seqs] /\ \A b \in Blocks : device[b] \in Nat
           /\ tx \in [Txns -> TxRecord] /\ readers \in [Readers -> ReaderRecord]
           /\ gc \in GcRecord /\ gc.wm \in Nat
           /\ flush \in FlushRecord /\ flush.snap \in Nat
           /\ \A b \in Blocks : flush.items[b] \in Nat
           /\ active \in [Seqs -> Nat]
           /\ Pinned \subseteq Nat /\ Pinned \subseteq Seqs
<1> USE ShardedAssumption
<1>1. MaxCommit \in Nat /\ Seqs \subseteq Nat /\ 0 \in Seqs
    BY DEF Seqs
<1>2. /\ allocated \in Nat /\ completed \in Nat /\ flushed \in Nat
      /\ completed \in Seqs /\ flushed \in Seqs
    BY <1>1 DEF TypeOK
<1>3. /\ versions \in [Blocks -> SUBSET (1 .. MaxCommit)]
      /\ \A b \in Blocks : \A v \in versions[b] : v \in Nat /\ v \in Seqs
    BY <1>1, SMTT(30) DEF TypeOK, Seqs
<1>4. /\ device \in [Blocks -> Seqs] /\ \A b \in Blocks : device[b] \in Nat
      /\ active \in [Seqs -> Nat]
    BY <1>1, Zenon DEF TypeOK
<1>5. tx \in [Txns -> TxRecord] /\ readers \in [Readers -> ReaderRecord]
    BY DEF TypeOK, TxRecord, ReaderRecord
<1>6. gc \in GcRecord /\ gc.wm \in Nat
    BY <1>1, Zenon DEF TypeOK, GcRecord
<1>7. /\ flush \in FlushRecord /\ flush.snap \in Nat
      /\ \A b \in Blocks : flush.items[b] \in Nat
    BY <1>1, Zenon DEF TypeOK, FlushRecord
<1>8. Pinned \subseteq Nat /\ Pinned \subseteq Seqs
    BY <1>1, Zenon DEF Pinned
<1> QED BY <1>1, <1>2, <1>3, <1>4, <1>5, <1>6, <1>7, <1>8, Zenon

\* The empty store.
LEMMA InitIInv == Init => IInv
<1> SUFFICES ASSUME Init PROVE IInv
    OBVIOUS
<1> USE ShardedAssumption
<1>0. 0 \in Seqs /\ allocated = 0 /\ installed = {} /\ completed = 0 /\ returned = {}
    BY DEF Init, Gate!Init, Seqs
<1>1. TypeOK
  <2>1. Idle \in TxRecord /\ NoReader \in ReaderRecord /\ NoJob \in GcRecord
        /\ NoFlush \in FlushRecord
    BY <1>0 DEF Idle, NoReader, NoJob, NoFlush, TxRecord, ReaderRecord, GcRecord, FlushRecord
  <2>2. tx \in [Txns -> TxRecord] /\ readers \in [Readers -> ReaderRecord]
        /\ gc \in GcRecord /\ flush \in FlushRecord
    BY <2>1 DEF Init
  <2>3. /\ versions \in [Blocks -> SUBSET (1 .. MaxCommit)]
        /\ active \in [Seqs -> Nat] /\ flushed \in Seqs /\ device \in [Blocks -> Seqs]
        /\ writes \in [Seqs -> SUBSET Blocks]
    BY <1>0 DEF Init
  <2> QED BY <1>0, <2>2, <2>3 DEF TypeOK, TxRecord, ReaderRecord, GcRecord, FlushRecord
<1>2. Pinned = {}
    BY DEF Init, Pinned
<1>3. Counts
  <2>1. \A s \in Seqs : LiveAt(s) = {} /\ RegisteredAt(s) = {}
    BY DEF Init, LiveAt, RegisteredAt, NoReader, Idle
  <2>2. \A s \in Seqs : active[s] = 0
    BY DEF Init
  <2>3. Cardinality({}) = 0
    BY FS_EmptySet
  <2> QED BY <2>1, <2>2, <2>3 DEF Counts
<1>4. Locks /\ Installing
    BY DEF Init, Locks, Installing, Idle, ShardsOf
<1>5. Published /\ Bounds
    BY <1>0, <1>2 DEF Init, Published, Bounds, NoFlush, NoJob
<1>6. Complete /\ Covered /\ Decided /\ InFlight
    BY <1>0, <1>2 DEF Init, Complete, Covered, Decided, InFlight, NoFlush
<1>7. OnDevice
    BY DEF Init, OnDevice, InChain
<1> QED BY <1>1, <1>3, <1>4, <1>5, <1>6, <1>7 DEF IInv

-----------------------------------------------------------------------------
(* Registrations *)

\* A snapshot has finitely many holders.
LEMMA HoldersFinite ==
    ASSUME NEW s
    PROVE  /\ IsFiniteSet(LiveAt(s)) /\ IsFiniteSet(RegisteredAt(s))
           /\ Cardinality(LiveAt(s)) \in Nat /\ Cardinality(RegisteredAt(s)) \in Nat
<1>1. LiveAt(s) \in SUBSET Readers /\ RegisteredAt(s) \in SUBSET Txns
    BY DEF LiveAt, RegisteredAt
<1>2. IsFiniteSet(LiveAt(s)) /\ IsFiniteSet(RegisteredAt(s))
    BY <1>1, ShardedAssumption, FS_Subset
<1> QED BY <1>2, FS_CardinalityType

\* register_snapshot: one more holder and one more reference.
LEMMA CountUp ==
    ASSUME TypeOK, Counts, NEW s0 \in Seqs, NEW h,
           active' = [active EXCEPT ![s0] = @ + 1],
           \A s \in Seqs : s # s0 => LiveAt(s)' = LiveAt(s) /\ RegisteredAt(s)' = RegisteredAt(s),
           \/ /\ h \notin LiveAt(s0) /\ LiveAt(s0)' = LiveAt(s0) \cup {h}
              /\ RegisteredAt(s0)' = RegisteredAt(s0)
           \/ /\ h \notin RegisteredAt(s0) /\ RegisteredAt(s0)' = RegisteredAt(s0) \cup {h}
              /\ LiveAt(s0)' = LiveAt(s0)
    PROVE  /\ Counts' /\ active' \in [Seqs -> Nat]
           /\ Pinned' \subseteq Pinned \cup {s0}
<1>1. active \in [Seqs -> Nat] /\ Seqs \subseteq Nat
    BY TypeFacts
<1>2. active' \in [Seqs -> Nat] /\ active'[s0] = active[s0] + 1
      /\ \A s \in Seqs : s # s0 => active'[s] = active[s]
    BY <1>1
<1>3. Cardinality(LiveAt(s0)') + Cardinality(RegisteredAt(s0)')
        = Cardinality(LiveAt(s0)) + Cardinality(RegisteredAt(s0)) + 1
  <2>1. IsFiniteSet(LiveAt(s0)) /\ IsFiniteSet(RegisteredAt(s0))
        /\ Cardinality(LiveAt(s0)) \in Nat /\ Cardinality(RegisteredAt(s0)) \in Nat
    BY HoldersFinite
  <2>2. h \notin LiveAt(s0) => Cardinality(LiveAt(s0) \cup {h}) = Cardinality(LiveAt(s0)) + 1
    BY <2>1, FS_AddElement, Zenon
  <2>3. h \notin RegisteredAt(s0) =>
            Cardinality(RegisteredAt(s0) \cup {h}) = Cardinality(RegisteredAt(s0)) + 1
    BY <2>1, FS_AddElement, Zenon
  <2>4. \/ /\ Cardinality(LiveAt(s0)') = Cardinality(LiveAt(s0)) + 1
           /\ Cardinality(RegisteredAt(s0)') = Cardinality(RegisteredAt(s0))
        \/ /\ Cardinality(RegisteredAt(s0)') = Cardinality(RegisteredAt(s0)) + 1
           /\ Cardinality(LiveAt(s0)') = Cardinality(LiveAt(s0))
    BY <2>2, <2>3, Zenon
  <2> QED BY <2>1, <2>4
<1>4. ASSUME NEW s \in Seqs
      PROVE  active'[s] = Cardinality(LiveAt(s)') + Cardinality(RegisteredAt(s)')
  <2>1. CASE s = s0
    BY <1>2, <1>3, <2>1 DEF Counts
  <2>2. CASE s # s0
    BY <1>2, <2>2 DEF Counts
  <2> QED BY <2>1, <2>2
<1>5. Counts'
    BY <1>4 DEF Counts
<1>6. Pinned' \subseteq Pinned \cup {s0}
    BY <1>1, <1>2 DEF Pinned
<1> QED BY <1>2, <1>5, <1>6

\* release_snapshot finds the reference of its holder.
LEMMA CountDown ==
    ASSUME TypeOK, Counts, NEW s0 \in Seqs, NEW h,
           active' = [active EXCEPT ![s0] = @ - 1],
           \A s \in Seqs : s # s0 => LiveAt(s)' = LiveAt(s) /\ RegisteredAt(s)' = RegisteredAt(s),
           \/ /\ h \in LiveAt(s0) /\ LiveAt(s0)' = LiveAt(s0) \ {h}
              /\ RegisteredAt(s0)' = RegisteredAt(s0)
           \/ /\ h \in RegisteredAt(s0) /\ RegisteredAt(s0)' = RegisteredAt(s0) \ {h}
              /\ LiveAt(s0)' = LiveAt(s0)
    PROVE  Counts' /\ active' \in [Seqs -> Nat] /\ Pinned' \subseteq Pinned
<1>1. active \in [Seqs -> Nat] /\ Seqs \subseteq Nat
    BY TypeFacts
<1>2. active'[s0] = active[s0] - 1 /\ \A s \in Seqs : s # s0 => active'[s] = active[s]
    BY <1>1
<1>3. /\ Cardinality(LiveAt(s0)') + Cardinality(RegisteredAt(s0)')
            = Cardinality(LiveAt(s0)) + Cardinality(RegisteredAt(s0)) - 1
      /\ Cardinality(LiveAt(s0)) + Cardinality(RegisteredAt(s0)) \in Nat \ {0}
  <2>1. IsFiniteSet(LiveAt(s0)) /\ IsFiniteSet(RegisteredAt(s0))
        /\ Cardinality(LiveAt(s0)) \in Nat /\ Cardinality(RegisteredAt(s0)) \in Nat
    BY HoldersFinite
  <2>2. h \in LiveAt(s0) => /\ Cardinality(LiveAt(s0) \ {h}) = Cardinality(LiveAt(s0)) - 1
                            /\ Cardinality(LiveAt(s0)) # 0
    BY <2>1, FS_RemoveElement, FS_EmptySet, Zenon
  <2>3. h \in RegisteredAt(s0) =>
            /\ Cardinality(RegisteredAt(s0) \ {h}) = Cardinality(RegisteredAt(s0)) - 1
            /\ Cardinality(RegisteredAt(s0)) # 0
    BY <2>1, FS_RemoveElement, FS_EmptySet
  <2>4. \/ /\ Cardinality(LiveAt(s0)') = Cardinality(LiveAt(s0)) - 1
           /\ Cardinality(LiveAt(s0)) # 0
           /\ Cardinality(RegisteredAt(s0)') = Cardinality(RegisteredAt(s0))
        \/ /\ Cardinality(RegisteredAt(s0)') = Cardinality(RegisteredAt(s0)) - 1
           /\ Cardinality(RegisteredAt(s0)) # 0
           /\ Cardinality(LiveAt(s0)') = Cardinality(LiveAt(s0))
    BY <2>2, <2>3, Zenon
  <2> QED BY <2>1, <2>4
<1>4. ASSUME NEW s \in Seqs
      PROVE  active'[s] = Cardinality(LiveAt(s)') + Cardinality(RegisteredAt(s)')
  <2>1. CASE s = s0
    <3>1. active[s0] = Cardinality(LiveAt(s0)) + Cardinality(RegisteredAt(s0))
      BY DEF Counts
    <3>2. active'[s0] = Cardinality(LiveAt(s0)) + Cardinality(RegisteredAt(s0)) - 1
      BY <1>1, <1>2, <3>1, HoldersFinite
    <3>3. active'[s0] = Cardinality(LiveAt(s0)') + Cardinality(RegisteredAt(s0)')
      BY <1>3, <3>2
    <3> QED BY <2>1, <3>3
  <2>2. CASE s # s0
    BY <1>2, <2>2 DEF Counts
  <2> QED BY <2>1, <2>2
<1>5. Counts'
    BY <1>4 DEF Counts
<1>6. active' \in [Seqs -> Nat]
    BY <1>1, <1>2, <1>3 DEF Counts
<1>7. Pinned' \subseteq Pinned
    BY <1>1, <1>2 DEF Pinned
<1> QED BY <1>5, <1>6, <1>7, Zenon

\* Without a change of the holders.
LEMMA CountSame ==
    ASSUME Counts, UNCHANGED active,
           \A s \in Seqs : LiveAt(s)' = LiveAt(s) /\ RegisteredAt(s)' = RegisteredAt(s)
    PROVE  Counts' /\ Pinned' = Pinned
<1>1. \A s \in Seqs : active'[s] = Cardinality(LiveAt(s)') + Cardinality(RegisteredAt(s)')
    BY DEF Counts
<1> QED BY <1>1 DEF Counts, Pinned

-----------------------------------------------------------------------------
(* Steps of a transaction that leave the chains alone *)

\* Nobody else moves, and t is not between preflight and install afterwards.
LEMMA LocalStep ==
    ASSUME IInv, NEW t \in Txns, tx' \in [Txns -> TxRecord],
           \A u \in Txns : u # t => tx'[u] = tx[u],
           tx'[t].pc # "install",
           tx'[t].pc # "locking" => tx'[t].held = {},
           tx'[t].pc = "idle" => ~ tx'[t].reg,
           tx'[t].held \subseteq ShardsOf(tx'[t].writes),
           \A u \in Txns : u # t => tx'[t].held \cap tx[u].held = {},
           UNCHANGED <<allocated, installed, versions, writes>>
    PROVE  Locks' /\ Installing'
<1>1. Locks'
    BY DEF IInv, Locks
<1>2. Installing'
    BY DEF IInv, Installing
<1> QED BY <1>1, <1>2, Zenon

\* Every conjunct that speaks of chains, watermarks, collection and flush
\* survives such a step, whatever was registered at the watermark.
LEMMA SnapshotFrame ==
    ASSUME IInv, tx' \in [Txns -> TxRecord], readers' \in [Readers -> ReaderRecord],
           active' \in [Seqs -> Nat], Counts', Locks', Installing',
           Pinned' \subseteq Pinned \cup {completed},
           UNCHANGED <<allocated, installed, completed, versions, gc, flush, flushed, device, writes>>
    PROVE  IInv'
<1>1. TypeOK'
    BY DEF IInv, TypeOK, TxRecord, ReaderRecord
<1>2. Published'
    BY DEF IInv, Published
<1>3. Bounds'
  <2>1. flushed \in Nat /\ completed \in Nat /\ gc.wm \in Nat
    BY TypeFacts DEF IInv
  <2> QED BY <2>1 DEF IInv, Bounds
<1>4. Complete'
    BY DEF IInv, Complete, Shown
<1>5. Covered' /\ Decided'
    BY DEF IInv, Covered, Decided
<1>6. OnDevice' /\ InFlight'
    BY DEF IInv, OnDevice, InFlight, InChain
<1> QED BY <1>1, <1>2, <1>3, <1>4, <1>5, <1>6, Zenon DEF IInv

\* What t registers changes with its record only.
LEMMA RegisteredStep ==
    ASSUME NEW t \in Txns, \A u \in Txns : u # t => tx'[u] = tx[u],
           UNCHANGED readers
    PROVE  \A s \in Seqs :
              /\ LiveAt(s)' = LiveAt(s)
              /\ RegisteredAt(s)' = IF tx'[t].reg /\ tx'[t].snap = s THEN RegisteredAt(s) \cup {t}
                                    ELSE RegisteredAt(s) \ {t}
<1>1. \A s \in Seqs : LiveAt(s)' = LiveAt(s)
    BY DEF LiveAt
<1>2. ASSUME NEW s \in Seqs, tx'[t].reg /\ tx'[t].snap = s
      PROVE  RegisteredAt(s)' = RegisteredAt(s) \cup {t}
    BY <1>2 DEF RegisteredAt
<1>3. ASSUME NEW s \in Seqs, ~ (tx'[t].reg /\ tx'[t].snap = s)
      PROVE  RegisteredAt(s)' = RegisteredAt(s) \ {t}
    BY <1>3 DEF RegisteredAt
<1> QED BY <1>1, <1>2, <1>3

\* The registration of t is what it was.
LEMMA SameRegistration ==
    ASSUME NEW t \in Txns, \A u \in Txns : u # t => tx'[u] = tx[u],
           tx'[t].reg = tx[t].reg, tx[t].reg => tx'[t].snap = tx[t].snap,
           UNCHANGED readers
    PROVE  \A s \in Seqs : LiveAt(s)' = LiveAt(s) /\ RegisteredAt(s)' = RegisteredAt(s)
<1>1. ASSUME NEW s \in Seqs PROVE RegisteredAt(s)' = RegisteredAt(s)
    BY DEF RegisteredAt
<1> QED BY <1>1 DEF LiveAt

\* The record of a finished transaction.
LEMMA OverFacts ==
    ASSUME NEW x \in TxRecord
    PROVE  /\ Over(x) \in TxRecord /\ Over(x).pc = "over" /\ Over(x).reg = x.reg
           /\ x.reg => Over(x).snap = x.snap
           /\ Over(x).held = {} /\ Over(x).writes = {}
<1>1. 0 \in Seqs
    BY ShardedAssumption DEF Seqs
<1>2. CASE x.reg
    BY <1>1, <1>2, Zenon DEF Over, Idle, TxRecord
<1>3. CASE ~ x.reg
    BY <1>1, <1>3, Zenon DEF Over, Idle, TxRecord
<1> QED BY <1>2, <1>3

\* begin, with and without registration, starts at the watermark.
LEMMA BeginSteps ==
    ASSUME IInv, NEW t \in Txns, Begin(t) \/ BeginRegistered(t)
    PROVE  IInv'
<1>0. /\ TypeOK /\ Counts /\ tx \in [Txns -> TxRecord] /\ completed \in Seqs
      /\ readers \in [Readers -> ReaderRecord] /\ active \in [Seqs -> Nat]
      /\ tx[t] \in TxRecord /\ tx[t].pc = "idle"
    BY TypeFacts DEF IInv, Begin, BeginRegistered
<1>1. tx[t].held = {} /\ ~ tx[t].reg
    BY <1>0 DEF IInv, Locks
<1>2. CASE Begin(t)
  <2>1. [tx[t] EXCEPT !.pc = "open", !.snap = completed] \in TxRecord
    BY <1>0, Zenon DEF TxRecord
  <2>2. /\ tx' \in [Txns -> TxRecord] /\ \A u \in Txns : u # t => tx'[u] = tx[u]
        /\ tx'[t].pc = "open" /\ tx'[t].held = {} /\ tx'[t].reg = tx[t].reg
    BY <1>0, <1>1, <1>2, <2>1, Zenon DEF Begin, TxRecord
  <2>3. Locks' /\ Installing'
    BY <1>2, <2>2, LocalStep DEF Begin, gate
  <2>4. Counts' /\ Pinned' = Pinned
    BY <1>0, <1>1, <1>2, <2>2, SameRegistration, CountSame, Zenon DEF Begin
  <2> QED BY <1>0, <1>2, <2>2, <2>3, <2>4, SnapshotFrame, Zenon DEF Begin, gate
<1>3. CASE BeginRegistered(t)
  <2>1. [tx[t] EXCEPT !.pc = "open", !.snap = completed, !.reg = TRUE] \in TxRecord
    BY <1>0, Zenon DEF TxRecord
  <2>2. /\ tx' \in [Txns -> TxRecord] /\ \A u \in Txns : u # t => tx'[u] = tx[u]
        /\ tx'[t].pc = "open" /\ tx'[t].held = {} /\ tx'[t].reg /\ tx'[t].snap = completed
    BY <1>0, <1>1, <1>3, <2>1, Zenon DEF BeginRegistered, TxRecord
  <2>3. Locks' /\ Installing'
    BY <1>3, <2>2, LocalStep DEF BeginRegistered, gate
  <2>4. \A s \in Seqs : t \notin RegisteredAt(s)
    BY <1>1 DEF RegisteredAt
  <2>5. \A s \in Seqs : /\ LiveAt(s)' = LiveAt(s)
                        /\ RegisteredAt(s)' = IF s = completed THEN RegisteredAt(s) \cup {t}
                                              ELSE RegisteredAt(s)
    <3>1. \A s \in Seqs : RegisteredAt(s) \ {t} = RegisteredAt(s)
      BY <2>4
    <3>2. UNCHANGED readers
      BY <1>3 DEF BeginRegistered
    <3> QED BY <2>2, <3>1, <3>2, RegisteredStep, Zenon
  <2>6. Counts' /\ active' \in [Seqs -> Nat] /\ Pinned' \subseteq Pinned \cup {completed}
    BY <1>0, <1>3, <2>4, <2>5, CountUp, Zenon DEF BeginRegistered
  <2> QED BY <1>0, <1>3, <2>2, <2>3, <2>6, SnapshotFrame, Zenon DEF BeginRegistered, gate
<1> QED BY <1>2, <1>3

\* register_snapshot and release_snapshot.
LEMMA ReaderSteps ==
    ASSUME IInv, NEW r \in Readers, Register(r) \/ Release(r)
    PROVE  IInv'
<1>0. /\ TypeOK /\ Counts /\ tx \in [Txns -> TxRecord] /\ completed \in Seqs
      /\ readers \in [Readers -> ReaderRecord] /\ active \in [Seqs -> Nat]
      /\ readers[r] \in ReaderRecord /\ 0 \in Seqs
    BY TypeFacts, Zenon DEF IInv
<1>1. Locks' /\ Installing' /\ \A s \in Seqs : RegisteredAt(s)' = RegisteredAt(s)
    BY DEF IInv, Locks, Installing, Register, Release, RegisteredAt, gate
<1>2. CASE Register(r)
  <2>1. readers' \in [Readers -> ReaderRecord]
    BY <1>0, <1>2 DEF Register, ReaderRecord
  <2>2. \A s \in Seqs : r \notin LiveAt(s)
    BY <1>2 DEF LiveAt, Register
  <2>3. \A s \in Seqs : LiveAt(s)' = IF s = completed THEN LiveAt(s) \cup {r} ELSE LiveAt(s)
    BY <1>0, <1>2 DEF LiveAt, Register
  <2>4. Counts' /\ active' \in [Seqs -> Nat] /\ Pinned' \subseteq Pinned \cup {completed}
    BY <1>0, <1>1, <1>2, <2>2, <2>3, CountUp, Zenon DEF Register
  <2> QED BY <1>0, <1>1, <1>2, <2>1, <2>4, SnapshotFrame, Zenon DEF Register, gate
<1>3. CASE Release(r)
  <2> DEFINE s0 == readers[r].snap
  <2>1. readers' \in [Readers -> ReaderRecord] /\ s0 \in Seqs
    BY <1>0, <1>3 DEF Release, NoReader, ReaderRecord
  <2>2. r \in LiveAt(s0)
    BY <1>3, Zenon DEF LiveAt, Release
  <2>3. \A s \in Seqs : LiveAt(s)' = IF s = s0 THEN LiveAt(s) \ {r} ELSE LiveAt(s)
    BY <1>0, <1>3 DEF LiveAt, Release, NoReader
  <2>4. active' = [active EXCEPT ![s0] = @ - 1]
    BY <1>3 DEF Release
  <2> HIDE DEF s0
  <2>5. Counts' /\ active' \in [Seqs -> Nat] /\ Pinned' \subseteq Pinned
    BY <1>0, <1>1, <2>1, <2>2, <2>3, <2>4, CountDown, Zenon
  <2> QED BY <1>0, <1>1, <1>3, <2>1, <2>5, SnapshotFrame, Zenon DEF Release, gate
<1> QED BY <1>2, <1>3

\* The steps of a commit that change no chain.
LEMMA CommitLocalSteps ==
    ASSUME IInv, NEW t \in Txns,
           (\E W \in SUBSET Blocks : StartCommit(t, W)) \/ LockShard(t) \/ ReturnCommit(t)
    PROVE  IInv'
<1>0. /\ TypeOK /\ Counts /\ tx \in [Txns -> TxRecord] /\ tx[t] \in TxRecord
      /\ readers \in [Readers -> ReaderRecord] /\ active \in [Seqs -> Nat]
    BY TypeFacts DEF IInv
<1>1. /\ UNCHANGED <<allocated, installed, completed, versions, active, readers, gc, flush,
                     flushed, device, writes>>
    BY Zenon DEF StartCommit, LockShard, ReturnCommit, Gate!Return, gate
<1>2. ASSUME tx' \in [Txns -> TxRecord], \A u \in Txns : u # t => tx'[u] = tx[u],
             tx'[t].reg = tx[t].reg, tx[t].reg => tx'[t].snap = tx[t].snap,
             Locks', Installing'
      PROVE  IInv'
  <2>1. Counts' /\ Pinned' = Pinned
    BY <1>0, <1>1, <1>2, SameRegistration, CountSame, Zenon
  <2> QED BY <1>0, <1>1, <1>2, <2>1, SnapshotFrame, Zenon
<1>3. ASSUME tx' = [tx EXCEPT ![t] = Over(tx[t])] PROVE IInv'
  <2>1. /\ tx' \in [Txns -> TxRecord] /\ \A u \in Txns : u # t => tx'[u] = tx[u]
        /\ tx'[t] = Over(tx[t])
    BY <1>0, <1>3, OverFacts, Zenon
  <2>2. /\ tx'[t].pc = "over" /\ tx'[t].held = {} /\ tx'[t].reg = tx[t].reg
        /\ tx[t].reg => tx'[t].snap = tx[t].snap
    BY <1>0, <2>1, OverFacts, Zenon
  <2>3. Locks' /\ Installing'
    BY <1>1, <2>1, <2>2, LocalStep, Zenon
  <2> QED BY <1>2, <2>1, <2>2, <2>3, Zenon
<1>4. ASSUME NEW W \in SUBSET Blocks, StartCommit(t, W) PROVE IInv'
  <2>1. CASE W = {}
    <3>1. tx' = [tx EXCEPT ![t] = Over(tx[t])]
      BY <1>4, <2>1, Zenon DEF StartCommit
    <3> QED BY <1>3, <3>1
  <2>2. CASE W # {}
    <3>1. [tx[t] EXCEPT !.pc = "locking", !.writes = W] \in TxRecord
      BY <1>0, Zenon DEF TxRecord
    <3>2. tx' = [tx EXCEPT ![t] = [tx[t] EXCEPT !.pc = "locking", !.writes = W]]
      BY <1>4, <2>2, Zenon DEF StartCommit
    <3>3. /\ tx' \in [Txns -> TxRecord] /\ \A u \in Txns : u # t => tx'[u] = tx[u]
          /\ tx'[t].pc = "locking" /\ tx'[t].held = tx[t].held /\ tx'[t].reg = tx[t].reg
          /\ tx'[t].snap = tx[t].snap
      BY <1>0, <3>1, <3>2, Zenon DEF TxRecord
    <3>4. tx[t].held = {}
      BY <1>4, Zenon DEF StartCommit, IInv, Locks
    <3>5. Locks' /\ Installing'
      BY <1>1, <3>3, <3>4, LocalStep, Zenon
    <3> QED BY <1>2, <3>3, <3>5
  <2> QED BY <2>1, <2>2
<1>5. CASE LockShard(t)
  <2> DEFINE i == NextShard(t)
  <2>1. tx[t].writes \in SUBSET Blocks /\ tx[t].held \subseteq ShardsOf(tx[t].writes)
    BY <1>0 DEF TxRecord, IInv, Locks
  <2>2. i \in ShardsOf(tx[t].writes) /\ i \in Shards
    <3>1. ShardsOf(tx[t].writes) \ tx[t].held # {}
      BY <1>5, <2>1, Zenon DEF LockShard
    <3>2. ShardsOf(tx[t].writes) \subseteq Shards /\ Shards \subseteq Nat
      BY <2>1, ShardOf, ShardedAssumption DEF Shards
    <3> QED BY <3>1, <3>2, LowestIs, Zenon DEF NextShard
  <2>3. \A u \in Txns : i \notin tx[u].held
    BY <1>5 DEF LockShard, ShardFree
  <2>4. tx' = [tx EXCEPT ![t].held = @ \cup {i}]
    BY <1>5 DEF LockShard
  <2> HIDE DEF i
  <2>5. [tx[t] EXCEPT !.held = @ \cup {i}] \in TxRecord
    BY <1>0, <2>2, Zenon DEF TxRecord
  <2>6. /\ tx' \in [Txns -> TxRecord] /\ \A u \in Txns : u # t => tx'[u] = tx[u]
        /\ tx'[t].pc = tx[t].pc /\ tx'[t].held = tx[t].held \cup {i} /\ tx'[t].reg = tx[t].reg
        /\ tx'[t].snap = tx[t].snap /\ tx'[t].writes = tx[t].writes
    BY <1>0, <2>4, <2>5, Zenon DEF TxRecord
  <2>7. \A u \in Txns : u # t => tx'[t].held \cap tx[u].held = {}
    BY <2>3, <2>6 DEF IInv, Locks
  <2>8. tx[t].pc = "locking"
    BY <1>5, Zenon DEF LockShard
  <2>9. Locks' /\ Installing'
    BY <1>1, <2>1, <2>2, <2>6, <2>7, <2>8, LocalStep, Zenon
  <2> QED BY <1>2, <2>6, <2>9, Zenon
<1>6. CASE ReturnCommit(t)
    BY <1>3, <1>6, Zenon DEF ReturnCommit
<1> QED BY <1>4, <1>5, <1>6, Zenon

\* The end of a scope gives its registration back.
LEMMA EndScopeStep ==
    ASSUME IInv, NEW t \in Txns, EndScope(t)
    PROVE  IInv'
<1> DEFINE s0 == tx[t].snap
           x == [tx[t] EXCEPT !.reg = FALSE]
<1>0. /\ TypeOK /\ Counts /\ tx \in [Txns -> TxRecord] /\ tx[t] \in TxRecord
      /\ readers \in [Readers -> ReaderRecord] /\ active \in [Seqs -> Nat]
      /\ s0 \in Seqs /\ x \in TxRecord /\ ~ x.reg
    BY TypeFacts, Zenon DEF IInv, TxRecord
<1>1. tx' = [tx EXCEPT ![t] = Over(x)]
    BY DEF EndScope
<1>2. /\ tx' \in [Txns -> TxRecord] /\ \A u \in Txns : u # t => tx'[u] = tx[u]
      /\ tx'[t] = Over(x)
    BY <1>0, <1>1, OverFacts
<1>3. tx'[t].pc = "over" /\ tx'[t].held = {} /\ ~ tx'[t].reg
    BY <1>0, <1>2, OverFacts, Zenon
<1>4. Locks' /\ Installing'
  <2>1. UNCHANGED <<allocated, installed, versions, writes>>
    BY DEF EndScope, gate
  <2> HIDE DEF x
  <2> QED BY <1>2, <1>3, <2>1, LocalStep
<1>5. t \in RegisteredAt(s0) /\ \A s \in Seqs : s # s0 => t \notin RegisteredAt(s)
    BY DEF RegisteredAt, EndScope
<1>6. \A s \in Seqs : /\ LiveAt(s)' = LiveAt(s)
                      /\ RegisteredAt(s)' = IF s = s0 THEN RegisteredAt(s) \ {t}
                                            ELSE RegisteredAt(s)
  <2>1. \A s \in Seqs : s # s0 => RegisteredAt(s) \ {t} = RegisteredAt(s)
    BY <1>5
  <2>2. UNCHANGED readers
    BY DEF EndScope
  <2>3. \A s \in Seqs : LiveAt(s)' = LiveAt(s) /\ RegisteredAt(s)' = RegisteredAt(s) \ {t}
    BY <1>2, <1>3, <2>2, RegisteredStep, Zenon
  <2> QED BY <2>1, <2>3, Zenon
<1>7. active' = [active EXCEPT ![s0] = @ - 1]
    BY DEF EndScope
<1> HIDE DEF s0, x
<1>8. Counts' /\ active' \in [Seqs -> Nat] /\ Pinned' \subseteq Pinned
    BY <1>0, <1>5, <1>6, <1>7, CountDown, Zenon
<1> QED BY <1>0, <1>2, <1>4, <1>8, SnapshotFrame, Zenon DEF EndScope, gate

-----------------------------------------------------------------------------
(* Commit and publication *)

\* The watermark is never ahead of the sequences handed out.
LEMMA CompletedAllocated ==
    ASSUME IInv
    PROVE  /\ completed <= allocated
           /\ \A c \in installed : c \in Nat /\ c <= allocated /\ c \in Seqs
           /\ \A c \in Nat : c \notin installed /\ c >= 1 => c > completed
<1>1. completed \in Nat /\ allocated \in Nat /\ allocated \in Seqs /\ MaxCommit \in Nat
    BY TypeFacts, Zenon DEF IInv, TypeOK
<1>2. installed \subseteq 1 .. allocated /\ 1 .. completed \subseteq installed
    BY DEF IInv, Published
<1>3. completed <= allocated
  <2>1. CASE completed = 0
    BY <1>1, <2>1
  <2>2. CASE completed # 0
    <3>1. completed \in 1 .. completed
      BY <1>1, <2>2
    <3> QED BY <1>1, <1>2, <3>1
  <2> QED BY <2>1, <2>2
<1>4. \A c \in installed : c \in Nat /\ c <= allocated /\ c \in Seqs
    BY <1>1, <1>2 DEF Seqs
<1>5. ASSUME NEW c \in Nat, c \notin installed, c >= 1 PROVE c > completed
    BY <1>1, <1>2, <1>5
<1> QED BY <1>3, <1>4, <1>5, Zenon

\* A new write set at a sequence that nobody has installed concerns no
\* snapshot and no cursor.
LEMMA PreflightStep ==
    ASSUME IInv, NEW t \in Txns, Preflight(t)
    PROVE  IInv'
<1>0. /\ TypeOK /\ Counts /\ tx \in [Txns -> TxRecord] /\ tx[t] \in TxRecord
      /\ readers \in [Readers -> ReaderRecord] /\ active \in [Seqs -> Nat]
      /\ allocated \in Nat /\ completed \in Nat /\ flushed \in Nat /\ flush.snap \in Nat
      /\ MaxCommit \in Nat /\ Pinned \subseteq Nat
    BY TypeFacts, Zenon DEF IInv
<1>1. UNCHANGED <<completed, installed, versions, active, readers, gc, flush, flushed, device>>
    BY DEF Preflight, Gate!Allocate
<1>2. CASE Conflicts(t) /\ tx' = [tx EXCEPT ![t] = Over(tx[t])] /\ UNCHANGED <<allocated, writes>>
  <2>1. /\ tx' \in [Txns -> TxRecord] /\ \A u \in Txns : u # t => tx'[u] = tx[u]
        /\ tx'[t] = Over(tx[t])
    BY <1>0, <1>2, OverFacts, Zenon
  <2>2. /\ tx'[t].pc = "over" /\ tx'[t].held = {} /\ tx'[t].reg = tx[t].reg
        /\ tx[t].reg => tx'[t].snap = tx[t].snap
    BY <1>0, <2>1, OverFacts, Zenon
  <2>3. Locks' /\ Installing'
    BY <1>1, <1>2, <2>1, <2>2, LocalStep, SMTT(30)
  <2>4. Counts' /\ Pinned' = Pinned
    BY <1>0, <1>1, <2>1, <2>2, SameRegistration, CountSame, Zenon
  <2> QED BY <1>0, <1>1, <1>2, <2>1, <2>3, <2>4, SnapshotFrame, Zenon
<1>3. CASE /\ allocated < MaxCommit /\ allocated' = allocated + 1
           /\ tx' = [tx EXCEPT ![t].pc = "install", ![t].seq = allocated']
           /\ writes' = [writes EXCEPT ![allocated'] = tx[t].writes]
  <2> DEFINE n == allocated + 1
  <2>0. n \in Seqs /\ n \in Nat /\ n # 0 /\ allocated' = n
    BY <1>0, <1>3 DEF Seqs
  <2>1. [tx[t] EXCEPT !.pc = "install", !.seq = n] \in TxRecord
    BY <1>0, <2>0, Zenon DEF TxRecord
  <2>2. /\ tx' \in [Txns -> TxRecord] /\ \A u \in Txns : u # t => tx'[u] = tx[u]
        /\ tx'[t].pc = "install" /\ tx'[t].seq = n /\ tx'[t].held = tx[t].held
        /\ tx'[t].writes = tx[t].writes /\ tx'[t].reg = tx[t].reg /\ tx'[t].snap = tx[t].snap
    BY <1>0, <1>3, <2>0, <2>1, Zenon DEF TxRecord
  <2>3. /\ writes' \in [Seqs -> SUBSET Blocks] /\ writes'[n] = tx[t].writes
        /\ \A c \in Seqs : c # n => writes'[c] = writes[c]
    BY <1>0, <1>3, <2>0, Zenon DEF IInv, TypeOK, TxRecord
  <2>4. /\ completed <= allocated
        /\ \A c \in installed : c \in Nat /\ c <= allocated /\ c \in Seqs /\ c # n
    BY <1>0, CompletedAllocated, SMTT(30)
  <2>5. \A c \in Nat : c <= completed => c \in Seqs /\ writes'[c] = writes[c]
    BY <1>0, <2>3, <2>4, SMTT(30) DEF IInv, TypeOK, Seqs
  <2> HIDE DEF n
  <2>6. TypeOK'
    BY <1>1, <2>0, <2>2, <2>3, Zenon DEF IInv, TypeOK, TxRecord
  <2>7. Counts' /\ Pinned' = Pinned
    BY <1>0, <1>1, <2>2, SameRegistration, CountSame, Zenon
  <2>8. Locks'
    BY <2>2 DEF IInv, Locks, Preflight
  <2>9. Installing'
    <3>1. ASSUME NEW u \in Txns, tx'[u].pc = "install"
          PROVE  /\ tx'[u].seq \in 1 .. allocated' /\ tx'[u].seq \notin installed
                 /\ writes'[tx'[u].seq] = tx'[u].writes
                 /\ \A b \in tx'[u].writes : \A w \in versions[b] : w < tx'[u].seq
                 /\ u # t => tx'[u].seq # n
      <4>1. CASE u = t
        <5>1. n \in 1 .. allocated' /\ n \notin installed
          BY <1>0, <1>3, <2>0, <2>4, SMTT(30) DEF n
        <5>2. \A b \in tx[t].writes : \A w \in versions[b] : w < n
          <6>1. \A b \in tx[t].writes : \A w \in versions[b] : w \in installed
            BY <1>0, Zenon DEF IInv, Published, TxRecord
          <6> QED BY <1>0, <2>4, <6>1, SMTT(30) DEF n
        <5> QED BY <2>2, <2>3, <4>1, <5>1, <5>2, Zenon
      <4>2. CASE u # t
        <5>1. tx'[u] = tx[u] /\ tx[u].seq \in 1 .. allocated /\ tx[u].seq # n
          BY <1>0, <2>2, <3>1, <4>2, SMTT(30) DEF IInv, Installing, n
        <5>2. tx[u].seq \in Seqs /\ tx[u].seq \in 1 .. allocated'
          BY <1>0, <1>3, <5>1, SMTT(30) DEF TxRecord, IInv, TypeOK, Seqs
        <5> QED BY <2>3, <3>1, <5>1, <5>2, Zenon DEF IInv, Installing
      <4> QED BY <4>1, <4>2, Zenon
    <3>2. \A u, w \in Txns :
              u # w /\ tx'[u].pc = "install" /\ tx'[w].pc = "install" => tx'[u].seq # tx'[w].seq
      BY <2>2, <3>1 DEF IInv, Installing
    <3> QED BY <1>1, <3>1, <3>2, Zenon DEF Installing
  <2>10. Published'
    <3>1. installed \subseteq 1 .. n
      BY <1>0, <2>0, <2>4 DEF IInv, Published, n
    <3>2. \A c \in installed : writes'[c] = writes[c]
      BY <2>3, <2>4
    <3> QED BY <1>1, <2>0, <3>1, <3>2, Zenon DEF IInv, Published
  <2>11. Bounds'
    BY <1>1, <2>7 DEF IInv, Bounds
  <2>12. Complete'
    BY <1>0, <1>1, <2>5, <2>7 DEF IInv, Complete, Shown, Bounds
  <2>13. Covered' /\ Decided'
    BY <1>0, <1>1, <2>5, SMTT(30) DEF IInv, Covered, Decided, Bounds
  <2>14. OnDevice' /\ InFlight'
    BY <1>1, Zenon DEF IInv, OnDevice, InFlight, InChain
  <2> QED BY <2>6, <2>7, <2>8, <2>9, <2>10, <2>11, <2>12, <2>13, <2>14, Zenon DEF IInv
<1> QED BY <1>2, <1>3, Zenon DEF Preflight, Gate!Allocate

\* What a registered snapshot reads stays as it is.
ViewKept == \A s \in Pinned, b \in Blocks : ReadSeq(b, s)' = ReadSeq(b, s)

\* New versions come last in their chains.
InOrder == \A b \in Blocks : \A v \in versions'[b] \ versions[b] : \A w \in versions[b] : w < v

\* The versions of one commit become part of the chains, above every snapshot.
LEMMA InstallStep ==
    ASSUME IInv, NEW t \in Txns, InstallVersions(t)
    PROVE  IInv' /\ ViewKept /\ InOrder
<1> DEFINE n == tx[t].seq
<1>0. /\ TypeOK /\ Counts /\ tx \in [Txns -> TxRecord] /\ tx[t] \in TxRecord
      /\ allocated \in Nat /\ completed \in Nat /\ flushed \in Nat /\ flush.snap \in Nat
      /\ MaxCommit \in Nat /\ Pinned \subseteq Nat /\ allocated \in Seqs
      /\ versions \in [Blocks -> SUBSET (1 .. MaxCommit)]
      /\ \A b \in Blocks : device[b] \in Nat /\ flush.items[b] \in Nat
      /\ \A b \in Blocks : \A v \in versions[b] : v \in Nat
    BY TypeFacts DEF IInv, TypeOK
<1>1. /\ UNCHANGED <<allocated, completed, active, readers, gc, flush, flushed, device, writes>>
      /\ installed' = installed \cup {n} /\ tx[t].pc = "install"
    BY Zenon DEF InstallVersions, Gate!Install
<1>2. /\ n \in 1 .. allocated /\ n \notin installed /\ writes[n] = tx[t].writes
      /\ \A b \in tx[t].writes : \A w \in versions[b] : w < n
    BY <1>1, Zenon DEF IInv, Installing
<1>3. n \in Nat /\ n > completed /\ n \in 1 .. MaxCommit
    BY <1>0, <1>2, CompletedAllocated DEF Seqs
<1>4. [tx[t] EXCEPT !.pc = "publish", !.held = {}] \in TxRecord
    BY <1>0, Zenon DEF TxRecord
<1>5. /\ tx' \in [Txns -> TxRecord] /\ \A u \in Txns : u # t => tx'[u] = tx[u]
      /\ tx'[t].pc = "publish" /\ tx'[t].held = {}
      /\ tx'[t].reg = tx[t].reg /\ tx'[t].snap = tx[t].snap
    BY <1>0, <1>4 DEF InstallVersions, TxRecord
<1>6. \A b \in Blocks : versions'[b] = IF b \in tx[t].writes THEN versions[b] \cup {n}
                                       ELSE versions[b]
    BY DEF InstallVersions
<1>7. versions' \in [Blocks -> SUBSET (1 .. MaxCommit)]
    BY <1>0, <1>3, Zenon DEF InstallVersions
<1> HIDE DEF n
<1>8. TypeOK'
  <2>1. installed' \in SUBSET (1 .. MaxCommit)
    BY <1>0, <1>1, <1>3, Zenon DEF TypeOK
  <2> QED BY <1>1, <1>5, <1>7, <2>1, Zenon DEF IInv, TypeOK, TxRecord
<1>9. Counts' /\ Pinned' = Pinned
    BY <1>0, <1>1, <1>5, SameRegistration, CountSame, Zenon
<1>10. Locks'
    BY <1>5 DEF IInv, Locks
<1>11. Installing'
  <2>1. ASSUME NEW u \in Txns, tx'[u].pc = "install"
        PROVE  /\ tx'[u] = tx[u] /\ tx[u].seq \in 1 .. allocated /\ tx[u].seq \notin installed'
               /\ writes[tx[u].seq] = tx[u].writes
               /\ \A b \in tx[u].writes : \A w \in versions'[b] : w < tx[u].seq
    <3>1. u # t /\ tx'[u] = tx[u] /\ tx[u].pc = "install"
      BY <1>5, <2>1
    <3>2. /\ tx[u].seq \in 1 .. allocated /\ tx[u].seq \notin installed /\ tx[u].seq # n
          /\ writes[tx[u].seq] = tx[u].writes
          /\ \A b \in tx[u].writes : \A w \in versions[b] : w < tx[u].seq
      BY <1>1, <3>1, Zenon DEF IInv, Installing, n
    <3>3. \A b \in tx[u].writes : b \in Blocks /\ b \notin tx[t].writes
      <4>1. tx[u].held \cap tx[t].held = {}
        BY <3>1, Zenon DEF IInv, Locks
      <4>2. tx[u].held = ShardsOf(tx[u].writes) /\ tx[t].held = ShardsOf(tx[t].writes)
        BY <1>1, <3>1, Zenon DEF IInv, Locks
      <4>3. tx[u].writes \in SUBSET Blocks /\ tx[t].writes \in SUBSET Blocks
        BY <1>0, Zenon DEF TxRecord
      <4> QED BY <4>1, <4>2, <4>3, ShardOf, Zenon
    <3> QED BY <1>1, <1>6, <3>1, <3>2, <3>3, Zenon
  <2> QED BY <1>1, <2>1, ZenonT(30) DEF IInv, Installing
<1>12. Published'
  <2>1. \A b \in Blocks : \A v \in versions'[b] : v \in installed' /\ b \in writes[v]
    BY <1>1, <1>2, <1>6, ZenonT(30) DEF IInv, Published
  <2>2. \A c \in installed' : c > completed =>
            \A b \in Blocks : b \in writes[c] => c \in versions'[b]
    BY <1>1, <1>2, <1>6, Zenon DEF IInv, Published
  <2>3. installed' \subseteq 1 .. allocated /\ 1 .. completed \subseteq installed'
    BY <1>1, <1>2, Zenon DEF IInv, Published
  <2> QED BY <1>1, <2>1, <2>2, <2>3, Zenon DEF Published
<1>13. Bounds'
    BY <1>1, <1>9, Zenon DEF IInv, Bounds
<1>14. Complete'
    BY <1>1, <1>6, <1>9, Zenon DEF IInv, Complete, Shown
<1>15. Covered' /\ Decided'
    BY <1>1, <1>6, Zenon DEF IInv, Covered, Decided
<1>16. ASSUME NEW b \in Blocks, NEW d \in Nat, d <= completed, InChain(b, d)
       PROVE  d \in versions'[b] \/ \A v \in versions'[b] : v > d
  <2>1. n > d
    BY <1>0, <1>3, <1>16
  <2>2. CASE b \in tx[t].writes
    BY <1>6, <1>16, <2>1, <2>2, Zenon DEF InChain
  <2>3. CASE b \notin tx[t].writes
    BY <1>6, <1>16, <2>3, Zenon DEF InChain
  <2> QED BY <2>2, <2>3, Zenon
<1>17. OnDevice' /\ InFlight'
  <2>1. \A b \in Blocks : device[b] <= completed
    BY Zenon DEF IInv, Bounds
  <2>2. \A b \in Blocks : flush.items[b] # 0 => flush.items[b] <= completed
    BY <1>0 DEF IInv, Bounds, InFlight
  <2>3. \A b \in Blocks : versions[b] # {} => versions'[b] # {}
    BY <1>6, Zenon
  <2>4. OnDevice'
    BY <1>0, <1>1, <1>16, <2>1, <2>3, Zenon DEF IInv, OnDevice, InChain
  <2>5. InFlight'
    BY <1>0, <1>1, <1>16, <2>2, <2>3, Zenon DEF IInv, InFlight, InChain
  <2> QED BY <2>4, <2>5, Zenon
<1>18. ViewKept
  <2> SUFFICES ASSUME NEW s \in Pinned, NEW b \in Blocks PROVE ReadSeq(b, s)' = ReadSeq(b, s)
    BY Zenon DEF ViewKept
  <2>1. s \in Nat /\ s <= completed
    BY <1>0, Zenon DEF IInv, Bounds
  <2>2. ASSUME NEW c \in Nat, c <= s PROVE c \in versions'[b] <=> c \in versions[b]
    <3>1. c # n
      BY <1>0, <1>3, <2>1, <2>2
    <3>2. CASE b \in tx[t].writes
      BY <1>6, <3>1, <3>2, Zenon
    <3>3. CASE b \notin tx[t].writes
      BY <1>6, <3>3, Zenon
    <3> QED BY <3>2, <3>3, Zenon
  <2>3. Visible(b, s)' = Visible(b, s)
    BY <1>0, <1>3, <1>6, <2>1, <2>2, Zenon DEF Visible
  <2> QED BY <1>1, <2>3, Zenon DEF ReadSeq
<1>19. InOrder
    BY <1>2, <1>6, Zenon DEF InOrder
<1> QED BY <1>8, <1>9, <1>10, <1>11, <1>12, <1>13, <1>14, <1>15, <1>17, <1>18, <1>19, Zenon DEF IInv

\* The next sequence becomes visible: its versions are all there.
LEMMA AdvanceStep ==
    ASSUME IInv, AdvanceWatermark
    PROVE  IInv'
<1> DEFINE n == completed + 1
<1>0. /\ TypeOK /\ completed \in Nat /\ flushed \in Nat /\ flush.snap \in Nat /\ gc.wm \in Nat
      /\ Pinned \subseteq Nat /\ \A b \in Blocks : device[b] \in Nat
      /\ \A b \in Blocks : \A v \in versions[b] : v \in Nat
    BY TypeFacts, Zenon DEF IInv
<1>1. /\ n \in installed /\ completed' = n /\ n \in Nat /\ n \in Seqs
      /\ UNCHANGED <<allocated, installed, versions, active, tx, readers, gc, flush, flushed,
                     device, writes>>
    BY <1>0, CompletedAllocated, Zenon DEF AdvanceWatermark, Gate!Advance
<1>2. TypeOK'
    BY <1>1, Zenon DEF IInv, TypeOK
<1>3. Pinned' = Pinned /\ Counts' /\ Locks' /\ Installing'
    BY <1>1, Zenon DEF IInv, Pinned, Counts, LiveAt, RegisteredAt, Locks, Installing
<1>4. Published'
    BY <1>0, <1>1, SMTT(30) DEF IInv, Published
<1>5. Bounds'
    BY <1>0, <1>1, <1>3, SMTT(30) DEF IInv, Bounds
<1>6. Complete'
  <2> SUFFICES ASSUME NEW s \in Pinned \cup {n}, NEW b \in Blocks, NEW c \in 1 .. s, b \in writes[c]
               PROVE  Shown(b, c, s)
    BY <1>1, <1>3, Zenon DEF Complete, Shown
  <2>1. CASE s \in Pinned
    BY <2>1, Zenon DEF IInv, Complete
  <2>2. CASE s = n /\ c = n
    <3>1. n \in versions[b]
      BY <1>0, <1>1, <2>2 DEF IInv, Published
    <3> QED BY <1>1, <2>2, <3>1, SMTT(30) DEF Shown
  <2>3. CASE s = n /\ c # n
    <3>1. c \in 1 .. completed
      BY <1>0, <2>3
    <3>2. Shown(b, c, completed)
      BY <3>1, Zenon DEF IInv, Complete
    <3> QED BY <1>0, <2>3, <3>2 DEF Shown
  <2> QED BY <2>1, <2>2, <2>3, Zenon
<1>7. Covered' /\ Decided' /\ OnDevice' /\ InFlight'
    BY <1>1, Zenon DEF IInv, Covered, Decided, OnDevice, InFlight, InChain
<1> QED BY <1>2, <1>3, <1>4, <1>5, <1>6, <1>7, Zenon DEF IInv

-----------------------------------------------------------------------------
(* Garbage collection *)

\* The watermark of a collection is at or below every registered snapshot.
LEMMA StartGcSteps ==
    ASSUME IInv, StartPrune \/ StartEvict
    PROVE  IInv'
<1>0. /\ TypeOK /\ completed \in Nat /\ flushed \in Nat /\ completed \in Seqs /\ flushed \in Seqs
      /\ Pinned \subseteq Nat /\ Pinned \subseteq Seqs
      /\ flushed <= completed /\ \A s \in Pinned : s <= completed
    BY TypeFacts DEF IInv, Bounds
<1>1. Pinned # {} => Lowest(Pinned) \in Pinned /\ \A s \in Pinned : Lowest(Pinned) <= s
    BY <1>0, LowestIs, Zenon
<1>2. UNCHANGED <<allocated, installed, completed, versions, active, tx, readers, flush, flushed,
                  device, writes>>
    BY DEF StartPrune, StartEvict, gate
<1>3. /\ gc' \in GcRecord /\ gc'.kind # "none"
      /\ gc'.wm <= completed /\ \A s \in Pinned : gc'.wm <= s
      /\ gc'.kind = "evict" => gc'.wm <= flushed
  <2>1. CASE StartPrune
    <3>1. Watermark \in Seqs /\ Watermark <= completed /\ \A s \in Pinned : Watermark <= s
      <4>1. CASE Pinned = {}
        BY <1>0, <4>1 DEF Watermark
      <4>2. CASE Pinned # {}
        BY <1>0, <1>1, <4>2, Zenon DEF Watermark
      <4> QED BY <4>1, <4>2, Zenon
    <3>2. gc' = [kind |-> "prune", wm |-> Watermark, todo |-> Shards]
      BY <2>1, Zenon DEF StartPrune
    <3> QED BY <3>1, <3>2, Zenon DEF GcRecord
  <2>2. CASE StartEvict
    <3> DEFINE wm == IF Pinned # {} /\ Lowest(Pinned) < flushed THEN Lowest(Pinned) ELSE flushed
    <3>1. wm \in Seqs /\ wm <= flushed /\ \A s \in Pinned : wm <= s
      <4>1. CASE Pinned = {}
        BY <1>0, <4>1, SMTT(30)
      <4>2. CASE Pinned # {}
        <5>1. Lowest(Pinned) \in Nat /\ Lowest(Pinned) \in Seqs
          BY <1>0, <1>1, <4>2, Zenon
        <5>2. CASE Lowest(Pinned) < flushed
          BY <1>0, <1>1, <4>2, <5>1, <5>2, SMTT(30)
        <5>3. CASE ~ (Lowest(Pinned) < flushed)
          BY <1>0, <1>1, <4>2, <5>1, <5>3, SMTT(30)
        <5> QED BY <5>2, <5>3
      <4> QED BY <4>1, <4>2, Zenon
    <3>2. gc' = [kind |-> "evict", todo |-> Shards, wm |-> wm]
      BY <2>2 DEF StartEvict
    <3> HIDE DEF wm
    <3>3. wm <= completed
      BY <1>0, <3>1, SMTT(30)
    <3> QED BY <3>1, <3>2, <3>3, Zenon DEF GcRecord
  <2> QED BY <2>1, <2>2, Zenon
<1>4. TypeOK'
    BY <1>2, <1>3, Zenon DEF IInv, TypeOK, GcRecord
<1>5. Pinned' = Pinned /\ Counts' /\ Locks' /\ Installing'
    BY <1>2, Zenon DEF IInv, Pinned, Counts, LiveAt, RegisteredAt, Locks, Installing
<1>6. Published' /\ Covered' /\ Decided' /\ OnDevice' /\ InFlight'
    BY <1>2, Zenon DEF IInv, Published, Covered, Decided, OnDevice, InFlight, InChain
<1>7. Bounds'
    BY <1>2, <1>3, <1>5, Zenon DEF IInv, Bounds
<1>8. Complete'
    BY <1>2, <1>5, Zenon DEF IInv, Complete, Shown
<1> QED BY <1>4, <1>5, <1>6, <1>7, <1>8, Zenon DEF IInv

\* What one shard's turn does to a chain: nothing; or it drops the versions
\* before one that is at or below the watermark; or it drops all of them, when
\* none is newer than the watermark of an eviction.
Cut(b) ==
    \/ versions'[b] = versions[b]
    \/ \E h \in versions[b] : h <= gc.wm /\ versions'[b] = {c \in versions[b] : c >= h}
    \/ gc.kind = "evict" /\ versions'[b] = {} /\ \A c \in versions[b] : c <= gc.wm

\* A collection of one shard only cuts chains below its bound.
LEMMA GcCuts ==
    ASSUME IInv, NEW i \in Shards, GcShard(i)
    PROVE  /\ versions' \in [Blocks -> SUBSET (1 .. MaxCommit)]
           /\ \A b \in Blocks : Cut(b)
<1>0. /\ versions \in [Blocks -> SUBSET (1 .. MaxCommit)] /\ gc \in GcRecord /\ MaxCommit \in Nat
      /\ gc.kind # "none"
    BY TypeFacts DEF IInv, GcShard
<1>1. \A b \in Blocks : versions'[b] = IF ShardIndex(b) # i THEN versions[b]
                                       ELSE IF gc.kind = "prune" THEN Pruned(b)
                                       ELSE Evicted(b)
    BY Zenon DEF GcShard
<1>2. ASSUME NEW b \in Blocks PROVE Cut(b) /\ versions'[b] \in SUBSET (1 .. MaxCommit)
  <2>0. versions[b] \in SUBSET (1 .. MaxCommit)
    BY <1>0, Zenon
  <2>1. CASE ShardIndex(b) # i
    BY <1>1, <2>0, <2>1, Zenon DEF Cut
  <2>2. CASE ShardIndex(b) = i /\ gc.kind = "prune"
    <3> DEFINE V == Visible(b, gc.wm)
    <3>1. versions'[b] = IF V = {} THEN versions[b] ELSE {c \in versions[b] : c >= NewestOf(V)}
      BY <1>1, <2>2, Zenon DEF Pruned
    <3>2. V \subseteq versions[b] /\ V \subseteq 0 .. MaxCommit /\ \A v \in V : v <= gc.wm
      BY <1>0, <2>0 DEF Visible
    <3>3. V # {} => NewestOf(V) \in V
      BY <1>0, <3>2, NewestIs, Zenon
    <3> HIDE DEF V
    <3>4. CASE V = {}
      BY <2>0, <3>1, <3>4, Zenon DEF Cut
    <3>5. CASE V # {}
      BY <2>0, <3>1, <3>2, <3>3, <3>5, Zenon DEF Cut
    <3> QED BY <3>4, <3>5, Zenon
  <2>3. CASE ShardIndex(b) = i /\ gc.kind = "evict"
    <3>1. versions'[b] = Evicted(b)
      BY <1>1, <2>3
    <3> QED BY <2>0, <2>3, <3>1, Zenon DEF Evicted, Cut
  <2> QED BY <1>0, <2>1, <2>2, <2>3, Zenon DEF GcRecord
<1>3. versions' \in [Blocks -> SUBSET (1 .. MaxCommit)]
    BY <1>2, Zenon DEF GcShard
<1> QED BY <1>2, <1>3, Zenon

\* Cutting a chain takes nothing from a registered snapshot, from the current
\* one, or from the flush in progress.
LEMMA GcStepKeeps ==
    ASSUME IInv, NEW i \in Shards, GcShard(i)
    PROVE  IInv' /\ ViewKept /\ InOrder
<1>0. /\ TypeOK /\ completed \in Nat /\ flushed \in Nat /\ flush.snap \in Nat /\ gc.wm \in Nat
      /\ Pinned \subseteq Nat /\ gc \in GcRecord /\ MaxCommit \in Nat /\ 0 \in Seqs
      /\ versions \in [Blocks -> SUBSET (1 .. MaxCommit)]
      /\ \A b \in Blocks : device[b] \in Nat /\ flush.items[b] \in Nat
      /\ \A b \in Blocks : \A v \in versions[b] : v \in Nat
    BY TypeFacts DEF IInv
<1>1. UNCHANGED <<allocated, installed, completed, active, tx, readers, flush, flushed, device,
                  writes>>
    BY DEF GcShard, gate
<1>2. /\ gc.kind # "none" /\ gc.wm <= completed /\ \A s \in Pinned : gc.wm <= s
      /\ gc.kind = "evict" => gc.wm <= flushed
    BY DEF GcShard, IInv, Bounds
<1>3. versions' \in [Blocks -> SUBSET (1 .. MaxCommit)] /\ \A b \in Blocks : Cut(b)
    BY GcCuts
<1>4. gc' \in GcRecord /\ (gc'.kind # "none" => gc'.kind = gc.kind /\ gc'.wm = gc.wm)
    BY <1>0, Zenon DEF GcShard, GcRecord, NoJob
<1>5. \A b \in Blocks : versions'[b] \subseteq versions[b]
    BY <1>3, Zenon DEF Cut
\* A version above the watermark goes with none below it left behind.
<1>6. ASSUME NEW b \in Blocks, NEW v \in versions[b]
      PROVE  \/ v \in versions'[b]
             \/ \E h \in versions'[b] : v <= h /\ h <= gc.wm /\ \A w \in versions'[b] : w >= h
             \/ gc.kind = "evict" /\ versions'[b] = {} /\ \A c \in versions[b] : c <= gc.wm
  <2>1. CASE versions'[b] = versions[b]
    BY <2>1, Zenon
  <2>2. ASSUME NEW h \in versions[b], h <= gc.wm, versions'[b] = {c \in versions[b] : c >= h}
        PROVE  \/ v \in versions'[b]
               \/ \E k \in versions'[b] : v <= k /\ k <= gc.wm /\ \A w \in versions'[b] : w >= k
    BY <1>0, <2>2, SMTT(30)
  <2> QED BY <1>3, <2>1, <2>2, Zenon DEF Cut
<1>7. TypeOK'
    BY <1>1, <1>3, <1>4, Zenon DEF IInv, TypeOK, GcRecord
<1>8. Pinned' = Pinned /\ Counts' /\ Locks'
    BY <1>1, Zenon DEF IInv, Pinned, Counts, LiveAt, RegisteredAt, Locks
<1>9. Installing'
  <2>1. \A t \in Txns : tx[t].writes \in SUBSET Blocks
    BY Zenon DEF IInv, TypeOK
  <2> QED BY <1>1, <1>5, <2>1, Zenon DEF IInv, Installing
<1>10. Published'
  <2>1. ASSUME NEW c \in installed, c > completed, NEW b \in Blocks, b \in writes[c]
        PROVE  c \in versions'[b]
    <3>1. c \in versions[b] /\ c \in Nat
      BY <1>0, <2>1, Zenon DEF IInv, Published
    <3>2. c > gc.wm
      BY <1>0, <1>2, <2>1, <3>1, SMTT(30)
    <3> QED BY <1>0, <1>5, <1>6, <3>1, <3>2, SMTT(30)
  <2> QED BY <1>1, <1>5, <2>1, Zenon DEF IInv, Published
<1>11. Bounds'
    BY <1>1, <1>2, <1>4, <1>8, Zenon DEF IInv, Bounds
\* Something newer than the cursor stays.
<1>12. ASSUME NEW b \in Blocks, NEW v \in versions[b], NEW f \in Nat, flushed <= f, v > f
       PROVE  \E w \in versions'[b] : w > f
  <2>0. v \in Nat
    BY <1>0
  <2>1. CASE v \in versions'[b]
    BY <1>12, <2>1, Zenon
  <2>2. CASE \E h \in versions'[b] : v <= h
    BY <1>0, <1>5, <1>12, <2>0, <2>2, SMTT(30)
  <2>3. CASE gc.kind = "evict" /\ v <= gc.wm
    BY <1>0, <1>2, <1>12, <2>0, <2>3, SMTT(30)
  <2> QED BY <1>6, <2>1, <2>2, <2>3, Zenon
<1>13. Covered'
    BY <1>0, <1>1, <1>12, SMTT(30) DEF IInv, Covered
<1>14. Decided'
  <2>1. flush.on => flushed <= flush.snap
    BY Zenon DEF IInv, Bounds
  <2> QED BY <1>0, <1>1, <1>12, <2>1, Zenon DEF IInv, Decided
\* An evicted chain is on the device.
<1>15. ASSUME NEW b \in Blocks, NEW c \in 1 .. flushed, b \in writes[c],
              gc.kind = "evict", \A v \in versions[b] : v <= gc.wm
       PROVE  c <= device[b]
    BY <1>0, <1>2, <1>15, SMTT(30) DEF IInv, Covered
<1>16. Complete'
  <2> SUFFICES ASSUME NEW s \in Pinned \cup {completed}, NEW b \in Blocks, NEW c \in 1 .. s,
                      b \in writes[c]
               PROVE  (\E v \in versions'[b] : c <= v /\ v <= s) \/ c <= device[b]
    BY <1>1, <1>8, Zenon DEF Complete, Shown
  <2>0. s \in Nat /\ c \in Nat /\ gc.wm <= s
    BY <1>0, <1>2, SMTT(30)
  <2>1. Shown(b, c, s)
    BY Zenon DEF IInv, Complete
  <2>2. ASSUME NEW v \in versions[b], c <= v, v <= s
        PROVE  (\E w \in versions'[b] : c <= w /\ w <= s) \/ c <= device[b]
    <3>0. v \in Nat
      BY <1>0, Zenon
    <3>1. CASE v \in versions'[b]
      BY <2>2, <3>1, Zenon
    <3>2. ASSUME NEW h \in versions'[b], v <= h, h <= gc.wm
          PROVE  c <= h /\ h <= s
      BY <1>0, <1>5, <2>0, <2>2, <3>0, <3>2, SMTT(30)
    <3>3. CASE gc.kind = "evict" /\ \A w \in versions[b] : w <= gc.wm
      <4>1. c \in 1 .. flushed
        BY <1>0, <1>2, <2>0, <2>2, <3>0, <3>3, SMTT(30)
      <4> QED BY <1>15, <3>3, <4>1, Zenon
    <3> QED BY <1>6, <3>1, <3>2, <3>3, Zenon
  <2> QED BY <2>1, <2>2, Zenon DEF Shown
<1>17. ASSUME NEW b \in Blocks, NEW d \in Nat, InChain(b, d)
       PROVE  /\ d \in versions'[b] \/ \A v \in versions'[b] : v > d
              /\ d > flushed /\ versions[b] # {} => versions'[b] # {}
  <2>1. CASE d \in versions[b]
    <3>1. CASE d \in versions'[b]
      BY <3>1, Zenon
    <3>2. ASSUME NEW h \in versions'[b], d <= h, \A w \in versions'[b] : w >= h
          PROVE  d \in versions'[b] \/ \A v \in versions'[b] : v > d
      <4>1. h \in Nat /\ \A w \in versions'[b] : w \in Nat
        BY <1>0, <1>5, Zenon
      <4>2. CASE d = h
        BY <3>2, <4>2, Zenon
      <4>3. CASE d # h
        BY <3>2, <4>1, <4>3, SMTT(30)
      <4> QED BY <4>2, <4>3, Zenon
    <3>3. CASE gc.kind = "evict" /\ versions'[b] = {} /\ \A c \in versions[b] : c <= gc.wm
      BY <1>0, <1>2, <2>1, <3>3, SMTT(30)
    <3> QED BY <1>6, <2>1, <3>1, <3>2, <3>3, Zenon
  <2>2. CASE \A v \in versions[b] : v > d
    <3>1. \A v \in versions'[b] : v > d
      BY <1>5, <2>2, Zenon
    <3>2. d > flushed /\ versions[b] # {} => versions'[b] # {}
      BY <1>0, <1>12, <2>2, SMTT(30)
    <3> QED BY <3>1, <3>2, Zenon
  <2> QED BY <1>17, <2>1, <2>2, Zenon DEF InChain
<1>18. OnDevice'
    BY <1>0, <1>1, <1>17, Zenon DEF IInv, OnDevice, InChain
<1>19. InFlight'
    BY <1>0, <1>1, <1>17, Zenon DEF IInv, InFlight, InChain
<1>20. InOrder
    BY <1>5, Zenon DEF InOrder
<1>21. ViewKept
  <2> SUFFICES ASSUME NEW s \in Pinned, NEW b \in Blocks PROVE ReadSeq(b, s)' = ReadSeq(b, s)
    BY Zenon DEF ViewKept
  <2> DEFINE V == Visible(b, s)
             W == {c \in versions'[b] : c <= s}
  <2>0. /\ s \in Nat /\ gc.wm <= s /\ V \subseteq 0 .. MaxCommit /\ V \subseteq versions[b]
        /\ W \subseteq V
    BY <1>0, <1>2, <1>5, SMTT(30) DEF Visible
  <2>1. ReadSeq(b, s)' = IF W = {} THEN device[b] ELSE NewestOf(W)
    BY <1>1, Zenon DEF ReadSeq, Visible
  <2>2. ReadSeq(b, s) = IF V = {} THEN device[b] ELSE NewestOf(V)
    BY Zenon DEF ReadSeq
  <2>3. CASE versions'[b] = versions[b]
    <3>1. V = W
      BY <2>3, Zenon DEF Visible
    <3> QED BY <2>1, <2>2, <3>1, Zenon
  <2>4. ASSUME NEW h \in versions[b], h <= gc.wm, versions'[b] = {c \in versions[b] : c >= h}
        PROVE  ReadSeq(b, s)' = ReadSeq(b, s)
    <3>1. h \in V /\ h \in Nat
      BY <1>0, <2>0, <2>4, SMTT(30) DEF Visible
    <3>2. NewestOf(V) \in V /\ \A d \in V : d <= NewestOf(V)
      BY <1>0, <2>0, <3>1, NewestIs, Zenon
    <3>3. NewestOf(V) \in W
      BY <1>0, <2>0, <2>4, <3>1, <3>2, Zenon DEF Visible
    <3>4. NewestOf(W) = NewestOf(V)
      BY <1>0, <2>0, <3>2, <3>3, NewestUnique, Zenon
    <3> HIDE DEF V, W
    <3> QED BY <2>1, <2>2, <3>1, <3>3, <3>4, Zenon
  <2>5. CASE gc.kind = "evict" /\ versions'[b] = {} /\ \A c \in versions[b] : c <= gc.wm
    <3>1. W = {} /\ V = versions[b]
      BY <1>0, <2>0, <2>5, SMTT(30) DEF Visible
    <3>2. CASE V = {}
      BY <2>1, <2>2, <3>1, <3>2, Zenon
    <3>3. CASE V # {}
      <4> DEFINE m == NewestOf(V)
      <4>1. m \in versions[b] /\ \A d \in versions[b] : d <= m
        BY <1>0, <2>0, <3>1, <3>3, NewestIs, Zenon
      <4> HIDE DEF m
      <4>2. m \in 1 .. flushed /\ b \in writes[m]
        BY <1>0, <1>2, <2>5, <4>1, SMTT(30) DEF IInv, Published
      <4>3. m <= device[b]
        BY <1>15, <2>5, <4>2, Zenon
      <4>4. InChain(b, device[b])
        BY Zenon DEF IInv, OnDevice
      <4>5. device[b] = m
        BY <1>0, <4>1, <4>3, <4>4, SMTT(30) DEF InChain
      <4> QED BY <2>1, <2>2, <3>1, <3>3, <4>5, Zenon DEF m
    <3> QED BY <3>2, <3>3, Zenon
  <2>6. Cut(b)
    BY <1>3, Zenon
  <2> QED BY <2>3, <2>4, <2>5, <2>6, Zenon DEF Cut
<1> QED BY <1>7, <1>8, <1>9, <1>10, <1>11, <1>13, <1>14, <1>16, <1>18, <1>19, <1>20, <1>21, Zenon DEF IInv

-----------------------------------------------------------------------------
(* Flush *)

\* What the flush finds of a block covers every commit up to its snapshot, but
\* for those with a version newer than the snapshot behind them.
LEMMA ItemCovers ==
    ASSUME IInv, flush.on, NEW b \in Blocks
    PROVE  /\ FlushItem(b) \in Seqs /\ FlushItem(b) \in Nat
           /\ \A c \in 1 .. flush.snap : b \in writes[c] =>
                 \/ c <= device[b] \/ c <= FlushItem(b)
                 \/ \E v \in versions[b] : v > flush.snap
           /\ FlushItem(b) # 0 =>
                 /\ InChain(b, FlushItem(b)) /\ versions[b] # {}
                 /\ flushed < FlushItem(b) /\ FlushItem(b) <= flush.snap
                 /\ device[b] <= FlushItem(b)
<1> DEFINE V == Visible(b, flush.snap)
           m == NewestOf(V)
<1>0. /\ flushed \in Nat /\ flush.snap \in Nat /\ completed \in Nat /\ MaxCommit \in Nat
      /\ versions \in [Blocks -> SUBSET (1 .. MaxCommit)] /\ device[b] \in Nat /\ 0 \in Seqs
      /\ \A v \in versions[b] : v \in Nat /\ v \in Seqs
    BY TypeFacts, Zenon DEF IInv
<1>1. flushed <= flush.snap /\ flush.snap <= completed /\ device[b] <= flush.snap
    BY Zenon DEF IInv, Bounds
<1>2. V \subseteq versions[b] /\ V \subseteq 0 .. MaxCommit /\ \A v \in V : v <= flush.snap
    BY <1>0 DEF Visible
<1>3. V # {} => m \in V /\ \A v \in V : v <= m
    BY <1>0, <1>2, NewestIs, Zenon
<1>4. FlushItem(b) = IF V # {} /\ m > flushed THEN m ELSE 0
    BY Zenon DEF FlushItem
<1>5. \A v \in versions[b] : v <= flush.snap => v \in V
    BY Zenon DEF Visible
<1> HIDE DEF V, m
<1>6. FlushItem(b) \in Seqs /\ FlushItem(b) \in Nat
  <2>1. CASE V # {} /\ m > flushed
    <3>1. m \in versions[b]
      BY <1>2, <1>3, <2>1, Zenon
    <3> QED BY <1>0, <1>4, <2>1, <3>1, Zenon
  <2>2. CASE ~ (V # {} /\ m > flushed)
    BY <1>0, <1>4, <2>2, SMTT(30)
  <2> QED BY <2>1, <2>2, Zenon
<1>7. ASSUME NEW c \in 1 .. flush.snap, b \in writes[c]
      PROVE  c <= device[b] \/ c <= FlushItem(b) \/ \E v \in versions[b] : v > flush.snap
  <2>1. Shown(b, c, completed)
    BY <1>0, <1>1, <1>7, SMTT(30) DEF IInv, Complete
  <2>2. ASSUME NEW v \in versions[b], c <= v, v <= flush.snap
        PROVE  c <= device[b] \/ c <= FlushItem(b) \/ \E w \in versions[b] : w > flush.snap
    <3>1. v \in V /\ m \in V /\ v <= m /\ m \in Nat /\ v \in Nat
      BY <1>0, <1>2, <1>3, <1>5, <2>2, Zenon
    <3>2. CASE m > flushed
      BY <1>4, <2>2, <3>1, <3>2, SMTT(30)
    <3>3. CASE m <= flushed
      <4>1. c \in 1 .. flushed
        BY <1>0, <2>2, <3>1, <3>3, SMTT(30)
      <4>2. c <= device[b] \/ \E w \in versions[b] : w > flushed
        BY <1>7, <4>1, Zenon DEF IInv, Covered
      <4>3. \A w \in versions[b] : w > flushed => w > flush.snap
        BY <1>0, <1>3, <1>5, <3>1, <3>3, SMTT(30)
      <4> QED BY <4>2, <4>3, Zenon
    <3> QED BY <1>0, <3>1, <3>2, <3>3
  <2> QED BY <1>0, <2>1, <2>2, SMTT(30) DEF Shown
<1>8. ASSUME FlushItem(b) # 0
      PROVE  /\ InChain(b, FlushItem(b)) /\ versions[b] # {}
             /\ flushed < FlushItem(b) /\ FlushItem(b) <= flush.snap
             /\ device[b] <= FlushItem(b)
  <2>1. FlushItem(b) = m /\ m \in V /\ m > flushed /\ m \in versions[b] /\ m <= flush.snap
    BY <1>2, <1>3, <1>4, <1>8, Zenon
  <2>2. InChain(b, device[b])
    BY Zenon DEF IInv, OnDevice
  <2>3. device[b] <= m
    BY <1>0, <1>1, <1>3, <1>5, <2>1, <2>2, SMTT(30) DEF InChain
  <2> QED BY <1>0, <2>1, <2>3, Zenon DEF InChain
<1> QED BY <1>6, <1>7, <1>8, Zenon

\* A step of the flush before it writes.
LEMMA FlushFrame ==
    ASSUME IInv, flush' \in FlushRecord, flush'.on,
           flushed <= flush'.snap, flush'.snap <= completed,
           \A b \in Blocks : device[b] <= flush'.snap,
           Decided', InFlight',
           UNCHANGED <<allocated, installed, completed, versions, active, tx, readers, gc, flushed,
                       device, writes>>
    PROVE  IInv'
<1>1. TypeOK'
    BY Zenon DEF IInv, TypeOK, FlushRecord
<1>2. Pinned' = Pinned /\ Counts' /\ Locks' /\ Installing' /\ Published'
    BY SMTT(30) DEF IInv, Pinned, Counts, LiveAt, RegisteredAt, Locks, Installing, Published
<1>3. Bounds'
    BY <1>2, Zenon DEF IInv, Bounds
<1>4. Complete' /\ Covered' /\ OnDevice'
    BY <1>2, Zenon DEF IInv, Complete, Shown, Covered, OnDevice, InChain
<1> QED BY <1>1, <1>2, <1>3, <1>4, Zenon DEF IInv

\* The flush captures the watermark; no block is decided yet.
LEMMA StartFlushStep ==
    ASSUME IInv, StartFlush
    PROVE  IInv'
<1>0. /\ completed \in Nat /\ completed \in Seqs /\ flushed \in Nat /\ 0 \in Seqs
    BY TypeFacts DEF IInv
<1>1. flush' = [on |-> TRUE, snap |-> completed, todo |-> Shards, keys |-> {},
                items |-> [b \in Blocks |-> 0]]
    BY Zenon DEF StartFlush, NoFlush
<1>2. flush' \in FlushRecord
    BY <1>0, <1>1, Zenon DEF FlushRecord
<1>3. UNCHANGED <<allocated, installed, completed, versions, active, tx, readers, gc, flushed,
                  device, writes>> /\ flushed < completed
    BY <1>0, Zenon DEF StartFlush, gate
<1>4. \A b \in Blocks : device[b] <= completed
    BY Zenon DEF IInv, Bounds
<1>5. Decided'
  <2>1. \A b \in Blocks : ShardIndex(b) \in Shards
    BY ShardedAssumption, SMTT(30) DEF ShardIndex, Shards
  <2> QED BY <1>1, <2>1, Zenon DEF Decided
<1>6. InFlight'
    BY <1>1 DEF InFlight
<1> QED BY <1>0, <1>1, <1>2, <1>3, <1>4, <1>5, <1>6, FlushFrame, SMTT(30)

\* One shard's dirty blocks are noted; the others have nothing to flush.
LEMMA CollectStep ==
    ASSUME IInv, NEW i \in Shards, CollectShard(i)
    PROVE  IInv'
<1> DEFINE K == {b \in Blocks : ShardIndex(b) = i /\ FlushItem(b) # 0}
<1>0. flush \in FlushRecord /\ flush.on
    BY TypeFacts DEF IInv, CollectShard, FlushRecord
<1>1. /\ flush' = [flush EXCEPT !.todo = @ \ {i}, !.keys = @ \cup K]
      /\ UNCHANGED <<allocated, installed, completed, versions, active, tx, readers, gc, flushed,
                     device, writes>>
    BY DEF CollectShard, gate
<1>2. K \subseteq Blocks /\ \A b \in Blocks : ShardIndex(b) = i /\ b \notin K => FlushItem(b) = 0
    OBVIOUS
<1> HIDE DEF K
<1>3. /\ flush' \in FlushRecord /\ flush'.on /\ flush'.snap = flush.snap
      /\ flush'.items = flush.items /\ flush'.keys = flush.keys \cup K
      /\ flush'.todo = flush.todo \ {i}
    BY <1>0, <1>1, <1>2, Zenon DEF FlushRecord
<1>4. flushed <= flush.snap /\ flush.snap <= completed /\ \A b \in Blocks : device[b] <= flush.snap
    BY <1>0, Zenon DEF IInv, Bounds
<1>5. Decided'
  <2> SUFFICES ASSUME NEW b \in Blocks, ShardIndex(b) \notin flush'.todo, b \notin flush'.keys,
                      NEW c \in 1 .. flush.snap, b \in writes[c]
               PROVE  \/ c <= device[b] \/ c <= flush.items[b]
                      \/ \E v \in versions[b] : v > flush.snap
    BY <1>1, <1>3, Zenon DEF Decided
  <2>1. CASE ShardIndex(b) # i
    BY <1>0, <1>3, <2>1, Zenon DEF IInv, Decided
  <2>2. CASE ShardIndex(b) = i
    <3>1. FlushItem(b) = 0
      BY <1>2, <1>3, <2>2, Zenon
    <3> QED BY <1>0, <3>1, ItemCovers, SMTT(30)
  <2> QED BY <2>1, <2>2, Zenon
<1>6. InFlight'
    BY <1>0, <1>1, <1>3, Zenon DEF IInv, InFlight, InChain
<1> QED BY <1>1, <1>3, <1>4, <1>5, <1>6, FlushFrame, Zenon

\* A block is looked up again: its version is taken, or it is gone.
LEMMA ResolveStep ==
    ASSUME IInv, NEW b \in Blocks, ResolveBlock(b)
    PROVE  IInv'
<1>0. flush \in FlushRecord /\ flush.on
    BY TypeFacts DEF IInv, ResolveBlock, FlushRecord
<1>1. /\ flush' = [flush EXCEPT !.keys = @ \ {b}, !.items[b] = FlushItem(b)]
      /\ UNCHANGED <<allocated, installed, completed, versions, active, tx, readers, gc, flushed,
                     device, writes>>
    BY Zenon DEF ResolveBlock, gate
<1>2. FlushItem(b) \in Seqs
    BY <1>0, ItemCovers, Zenon
<1>3. [flush.items EXCEPT ![b] = FlushItem(b)] \in [Blocks -> Seqs]
    BY <1>0, <1>2, Zenon DEF FlushRecord
<1>4. /\ flush' \in FlushRecord /\ flush'.on /\ flush'.snap = flush.snap
      /\ flush'.keys = flush.keys \ {b} /\ flush'.todo = flush.todo
      /\ flush'.items = [flush.items EXCEPT ![b] = FlushItem(b)]
    BY <1>0, <1>1, <1>3, Zenon DEF FlushRecord
<1>5. /\ flush'.items[b] = FlushItem(b)
      /\ \A d \in Blocks : d # b => flush'.items[d] = flush.items[d]
    BY <1>0, <1>4, Zenon DEF FlushRecord
<1>6. flushed <= flush.snap /\ flush.snap <= completed /\ \A d \in Blocks : device[d] <= flush.snap
    BY <1>0, Zenon DEF IInv, Bounds
<1>7. Decided'
  <2> SUFFICES ASSUME NEW d \in Blocks, ShardIndex(d) \notin flush.todo, d \notin flush'.keys,
                      NEW c \in 1 .. flush.snap, d \in writes[c]
               PROVE  \/ c <= device[d] \/ c <= flush'.items[d]
                      \/ \E v \in versions[d] : v > flush.snap
    BY <1>1, <1>4, Zenon DEF Decided
  <2>1. CASE d = b
    BY <1>0, <1>5, <2>1, ItemCovers, Zenon
  <2>2. CASE d # b
    BY <1>0, <1>4, <1>5, <2>2, Zenon DEF IInv, Decided
  <2> QED BY <2>1, <2>2, Zenon
<1>8. InFlight'
  <2> SUFFICES ASSUME NEW d \in Blocks, flush'.items[d] # 0
               PROVE  /\ InChain(d, flush'.items[d]) /\ versions[d] # {}
                      /\ flushed < flush'.items[d] /\ flush'.items[d] <= flush.snap
                      /\ device[d] <= flush'.items[d]
    BY <1>1, <1>4, Zenon DEF InFlight, InChain
  <2>1. CASE d = b
    BY <1>0, <1>5, <2>1, ItemCovers, Zenon
  <2>2. CASE d # b
    BY <1>0, <1>5, <2>2, Zenon DEF IInv, InFlight
  <2> QED BY <2>1, <2>2, Zenon
<1> QED BY <1>1, <1>4, <1>6, <1>7, <1>8, FlushFrame, Zenon

\* What a flush leaves on the device, whole or in part, is a version it
\* resolved or what was there.
LEMMA Written ==
    ASSUME IInv, flush.on,
           NEW W \in SUBSET Blocks, NEW b \in Blocks,
           NEW d, d = IF b \in W THEN Flushed[b] ELSE device[b]
    PROVE  /\ d \in Seqs /\ d \in Nat /\ device[b] <= d /\ d <= flush.snap
           /\ InChain(b, d)
           /\ d > flushed => versions[b] # {}
           /\ b \in W => flush.items[b] <= d
<1>0. /\ device[b] \in Nat /\ device[b] \in Seqs /\ flushed \in Nat /\ flush.snap \in Nat
      /\ flush.items[b] \in Nat /\ flush.items[b] \in Seqs
    BY TypeFacts, Zenon DEF IInv, FlushRecord
<1>1. device[b] <= flush.snap /\ InChain(b, device[b]) /\ (device[b] > flushed => versions[b] # {})
    BY Zenon DEF IInv, Bounds, OnDevice
<1>2. CASE b \in W /\ flush.items[b] # 0
  <2>1. d = flush.items[b]
    BY <1>2, Zenon DEF Flushed
  <2> QED BY <1>0, <1>2, <2>1, SMTT(30) DEF IInv, InFlight
<1>3. CASE ~ (b \in W /\ flush.items[b] # 0)
  <2>1. d = device[b]
    BY <1>3, Zenon DEF Flushed
  <2> QED BY <1>0, <1>1, <1>3, <2>1, SMTT(30)
<1> QED BY <1>2, <1>3, Zenon

\* Some or all of the resolved blocks reach the device.
LEMMA WriteStep ==
    ASSUME IInv, FlushReady, flush' = NoFlush,
           NEW W \in SUBSET Blocks,
           device' = [b \in Blocks |-> IF b \in W THEN Flushed[b] ELSE device[b]],
           \/ flushed' = flushed
           \/ W = Blocks /\ flushed' = flush.snap,
           UNCHANGED <<gate, versions, active, tx, readers, gc, writes>>
    PROVE  IInv' /\ \A b \in Blocks : device[b] <= device'[b]
<1>0. /\ completed \in Nat /\ flushed \in Nat /\ flush.snap \in Nat /\ 0 \in Seqs
      /\ flush.snap \in Seqs /\ flushed \in Seqs
      /\ \A b \in Blocks : device[b] \in Nat /\ \A v \in versions[b] : v \in Nat
      /\ Pinned \subseteq Nat /\ gc.wm \in Nat
    BY TypeFacts, Zenon DEF IInv, FlushRecord
<1>1. flush.on /\ flush.todo = {} /\ flush.keys = {}
    BY Zenon DEF FlushReady
<1>2. \A b \in Blocks :
          /\ device'[b] \in Seqs /\ device'[b] \in Nat
          /\ device[b] <= device'[b] /\ device'[b] <= flush.snap
          /\ InChain(b, device'[b])
          /\ device'[b] > flushed => versions[b] # {}
          /\ b \in W => flush.items[b] <= device'[b]
    BY <1>1, Written, Zenon
<1>3. UNCHANGED <<allocated, installed, completed>>
    BY Zenon DEF gate
<1>4. flushed <= flush.snap /\ flush.snap <= completed
    BY <1>1, Zenon DEF IInv, Bounds
<1>5. TypeOK'
  <2>1. flush' \in FlushRecord
    BY <1>0, Zenon DEF NoFlush, FlushRecord
  <2>2. device' \in [Blocks -> Seqs] /\ flushed' \in Seqs
    BY <1>0, <1>2, Zenon
  <2> QED BY <1>3, <2>1, <2>2, Zenon DEF IInv, TypeOK, FlushRecord
<1>6. Pinned' = Pinned /\ Counts' /\ Locks' /\ Installing' /\ Published'
    BY <1>3, SMTT(30) DEF IInv, Pinned, Counts, LiveAt, RegisteredAt, Locks, Installing, Published
<1>7. flushed' \in Nat /\ flushed <= flushed' /\ flushed' <= completed
    BY <1>0, <1>4
<1>8. Bounds'
  <2>1. \A b \in Blocks : device'[b] <= completed
    BY <1>0, <1>2, <1>4, SMTT(30)
  <2>2. ~ flush'.on
    BY Zenon DEF NoFlush
  <2>3. gc.kind = "evict" => gc.wm <= flushed'
    BY <1>0, <1>7, SMTT(30) DEF IInv, Bounds
  <2> QED BY <1>3, <1>6, <1>7, <2>1, <2>2, <2>3 DEF IInv, Bounds
<1>9. Complete'
  <2>1. ASSUME NEW b \in Blocks, NEW s, NEW c \in Nat, Shown(b, c, s)
        PROVE  Shown(b, c, s)'
    BY <1>0, <1>2, <2>1, SMTT(30) DEF Shown
  <2>2. \A s \in Pinned \cup {completed} : s \in Nat
    BY <1>0, Zenon
  <2> QED BY <1>3, <1>6, <2>1, <2>2, SMTT(30) DEF IInv, Complete
<1>10. Covered'
  <2> SUFFICES ASSUME NEW b \in Blocks, NEW c \in 1 .. flushed', b \in writes[c]
               PROVE  c <= device'[b] \/ \E v \in versions[b] : v > flushed'
    BY Zenon DEF Covered
  <2>1. CASE flushed' = flushed
    <3>1. c <= device[b] \/ \E v \in versions[b] : v > flushed
      BY <2>1, Zenon DEF IInv, Covered
    <3> QED BY <1>0, <1>2, <2>1, <3>1, SMTT(30)
  <2>2. CASE W = Blocks /\ flushed' = flush.snap
    <3>1. \/ c <= device[b] \/ c <= flush.items[b]
          \/ \E v \in versions[b] : v > flush.snap
      BY <1>1, <2>2, Zenon DEF IInv, Decided
    <3>2. flush.items[b] \in Nat
      BY TypeFacts, Zenon DEF IInv
    <3> QED BY <1>0, <1>2, <2>2, <3>1, <3>2, SMTT(30)
  <2> QED BY <2>1, <2>2, Zenon
<1>11. Decided' /\ InFlight'
    BY Zenon DEF Decided, InFlight, NoFlush
<1>12. OnDevice'
  <2>1. \A b \in Blocks : device'[b] > flushed' => versions[b] # {}
    BY <1>0, <1>2, <1>7, SMTT(30)
  <2>2. \A b \in Blocks : device'[b] \in versions'[b] \/ \A v \in versions'[b] : v > device'[b]
    BY <1>2, Zenon DEF InChain
  <2> QED BY <2>1, <2>2, Zenon DEF OnDevice, InChain
<1> QED BY <1>2, <1>5, <1>6, <1>8, <1>9, <1>10, <1>11, <1>12, Zenon DEF IInv

\* The flush ends, with the new cursor or with the old.
LEMMA FlushEndSteps ==
    ASSUME IInv, FinishFlush \/ FailFlush
    PROVE  IInv' /\ \A b \in Blocks : device[b] <= device'[b]
<1>1. CASE FinishFlush
  <2>1. device' = [b \in Blocks |-> IF b \in Blocks THEN Flushed[b] ELSE device[b]]
    BY <1>1, Zenon DEF FinishFlush, Flushed
  <2> QED BY <1>1, <2>1, WriteStep, Zenon DEF FinishFlush
<1>2. CASE FailFlush
  <2>1. PICK W \in SUBSET Blocks :
            device' = [b \in Blocks |-> IF b \in W THEN Flushed[b] ELSE device[b]]
    BY <1>2, Zenon DEF FailFlush
  <2> QED BY <1>2, <2>1, WriteStep, Zenon DEF FailFlush
<1> QED BY <1>1, <1>2, Zenon

-----------------------------------------------------------------------------
(* The specification *)

\* A stuttering step keeps the invariant.
LEMMA Stuttering ==
    ASSUME IInv, UNCHANGED vars
    PROVE  IInv'
<1>1. UNCHANGED <<allocated, installed, completed, versions, active, tx, readers, gc, flush,
                  flushed, device, writes>>
    BY Zenon DEF vars, gate
<1>2. TypeOK'
    BY <1>1, Zenon DEF IInv, TypeOK
<1>3. Pinned' = Pinned /\ Counts' /\ Locks' /\ Installing' /\ Published'
  <2>1. Pinned' = Pinned
    BY <1>1, Zenon DEF Pinned
  <2>2. Counts'
    BY <1>1, Zenon DEF IInv, Counts, LiveAt, RegisteredAt
  <2>3. Locks' /\ Installing' /\ Published'
    BY <1>1, Zenon DEF IInv, Locks, Installing, Published
  <2> QED BY <2>1, <2>2, <2>3
<1>4. Bounds' /\ Complete' /\ Covered'
    BY <1>1, <1>3 DEF IInv, Bounds, Complete, Shown, Covered
<1>5. Decided' /\ OnDevice' /\ InFlight'
    BY <1>1, Zenon DEF IInv, Decided, OnDevice, InFlight, InChain
<1> QED BY <1>2, <1>3, <1>4, <1>5, Zenon DEF IInv

\* Chains change in two steps only: a commit that installs its versions and a
\* collection that cuts a shard.
QuietChains == versions' = versions

\* Where no chain changes, only the device can change a view.
LEMMA QuietView ==
    ASSUME QuietChains
    PROVE  InOrder /\ (device' = device => ViewKept)
    BY DEF QuietChains, InOrder, ViewKept, ReadSeq, Visible

\* The step lemmas, put together: IInv is inductive, new versions come last and
\* a step that leaves the device alone leaves every pinned view alone.
LEMMA StepKeeps ==
    ASSUME IInv, [Next]_vars
    PROVE  /\ IInv' /\ InOrder /\ (device' = device => ViewKept)
           /\ \A b \in Blocks : device[b] <= device'[b]
<1> DEFINE Goal == /\ IInv' /\ InOrder /\ (device' = device => ViewKept)
                   /\ \A b \in Blocks : device[b] <= device'[b]
<1> SUFFICES Goal
    OBVIOUS
<1>0. \A b \in Blocks : device[b] \in Nat
    BY TypeFacts, Zenon DEF IInv
<1>1. ASSUME IInv', QuietChains, device' = device
      PROVE  Goal
    BY <1>0, <1>1, QuietView, SMTT(30)
<1>2. CASE UNCHANGED vars
  <2>1. QuietChains /\ device' = device
    BY <1>2, Zenon DEF vars, QuietChains
  <2> QED BY <1>1, <1>2, <2>1, Stuttering, Zenon
<1>3. ASSUME NEW t \in Txns,
             \/ Begin(t) \/ BeginRegistered(t)
             \/ \E W \in SUBSET Blocks : StartCommit(t, W)
             \/ CommitStep(t) \/ EndScope(t)
      PROVE  Goal
  <2>1. CASE Begin(t) \/ BeginRegistered(t)
    <3>1. QuietChains /\ device' = device
      BY <2>1, Zenon DEF Begin, BeginRegistered, QuietChains
    <3> QED BY <1>1, <2>1, <3>1, BeginSteps, Zenon
  <2>2. CASE (\E W \in SUBSET Blocks : StartCommit(t, W)) \/ LockShard(t) \/ ReturnCommit(t)
    <3>1. QuietChains /\ device' = device
      BY <2>2, Zenon DEF StartCommit, LockShard, ReturnCommit, QuietChains
    <3> QED BY <1>1, <2>2, <3>1, CommitLocalSteps, Zenon
  <2>3. CASE Preflight(t)
    <3>1. QuietChains /\ device' = device
      BY <2>3, Zenon DEF Preflight, QuietChains
    <3> QED BY <1>1, <2>3, <3>1, PreflightStep, Zenon
  <2>4. CASE InstallVersions(t)
    <3>1. device' = device
      BY <2>4, Zenon DEF InstallVersions
    <3> QED BY <1>0, <2>4, <3>1, InstallStep
  <2>5. CASE EndScope(t)
    <3>1. QuietChains /\ device' = device
      BY <2>5, Zenon DEF EndScope, QuietChains
    <3> QED BY <1>1, <2>5, <3>1, EndScopeStep
  <2> QED BY <1>3, <2>1, <2>2, <2>3, <2>4, <2>5, Zenon DEF CommitStep
<1>4. ASSUME NEW r \in Readers, Register(r) \/ Release(r)
      PROVE  Goal
  <2>1. QuietChains /\ device' = device
    BY <1>4, Zenon DEF Register, Release, QuietChains
  <2> QED BY <1>1, <1>4, <2>1, ReaderSteps, Zenon
<1>5. CASE AdvanceWatermark
  <2>1. QuietChains /\ device' = device
    BY <1>5, Zenon DEF AdvanceWatermark, QuietChains
  <2> QED BY <1>1, <1>5, <2>1, AdvanceStep, Zenon
<1>6. CASE StartPrune \/ StartEvict
  <2>1. QuietChains /\ device' = device
    BY <1>6, Zenon DEF StartPrune, StartEvict, QuietChains
  <2> QED BY <1>1, <1>6, <2>1, StartGcSteps, Zenon
<1>7. CASE GcStep
  <2>1. PICK i \in Shards : GcShard(i)
    BY <1>7 DEF GcStep
  <2>2. device' = device
    BY <2>1, Zenon DEF GcShard
  <2> QED BY <1>0, <2>1, <2>2, GcStepKeeps
<1>8. CASE StartFlush
  <2>1. QuietChains /\ device' = device
    BY <1>8, Zenon DEF StartFlush, QuietChains
  <2> QED BY <1>1, <1>8, <2>1, StartFlushStep
<1>9. CASE FinishFlush \/ FailFlush
  <2>1. QuietChains
    BY <1>9, Zenon DEF FinishFlush, FailFlush, QuietChains
  <2> QED BY <1>9, <2>1, QuietView, FlushEndSteps, Zenon
<1>10. ASSUME NEW i \in Shards, CollectShard(i)
       PROVE  Goal
  <2>1. QuietChains /\ device' = device
    BY <1>10, Zenon DEF CollectShard, QuietChains
  <2> QED BY <1>1, <1>10, <2>1, CollectStep, Zenon
<1>11. ASSUME NEW b \in Blocks, ResolveBlock(b)
       PROVE  Goal
  <2>1. QuietChains /\ device' = device
    BY <1>11 DEF ResolveBlock, QuietChains
  <2> QED BY <1>1, <1>11, <2>1, ResolveStep, Zenon
<1> HIDE DEF Goal
<1>12. CASE Next
  <2>1. CASE \E t \in Txns : \/ Begin(t) \/ BeginRegistered(t)
                            \/ \E W \in SUBSET Blocks : StartCommit(t, W)
                            \/ CommitStep(t) \/ EndScope(t)
    BY <1>3, <2>1, Zenon
  <2>2. CASE \E r \in Readers : Register(r) \/ Release(r)
    BY <1>4, <2>2, Zenon
  <2>3. CASE \E i \in Shards : CollectShard(i)
    BY <1>10, <2>3, Zenon
  <2>4. CASE \E b \in Blocks : ResolveBlock(b)
    BY <1>11, <2>4, Zenon
  <2> QED BY <1>5, <1>6, <1>7, <1>8, <1>9, <1>12, <2>1, <2>2, <2>3, <2>4, Zenon DEF Next
<1> QED BY <1>2, <1>12

\* The inductive invariant of the sharded store holds in every reachable state,
\* for any number of transactions, readers, blocks, shards and commits.
THEOREM Invariance == Spec => []IInv
<1>1. Init => IInv
    BY InitIInv, Zenon
<1>2. IInv /\ [Next]_vars => IInv'
    BY StepKeeps
<1> QED BY <1>1, <1>2, PTL DEF Spec

\* Every reachable state of the sharded store has its shape.
THEOREM TypeCorrect == Spec => []TypeOK
<1>1. IInv => TypeOK
    BY Zenon DEF IInv
<1> QED BY <1>1, Invariance, PTL

\* A snapshot registered with ShardedMvccStore finds all of every commit at or
\* below it, whatever installs, prunes, evicts and flushes run beside it.
THEOREM SnapshotsComplete == Spec => []SnapshotComplete
<1>1. IInv => SnapshotComplete
    BY DEF IInv, Complete, Shown, SnapshotComplete
<1> QED BY <1>1, Invariance, PTL

\* install_committed_version_locked always appends.
THEOREM Appends == Spec => AppendsInOrder
<1>1. IInv /\ [Next]_vars
        => [\A b \in Blocks : \A v \in versions'[b] \ versions[b] :
               \A w \in versions[b] : w < v]_vars
    BY StepKeeps DEF InOrder
<1> QED BY <1>1, Invariance, PTL DEF Spec, AppendsInOrder

\* No step but a flush changes what a registered snapshot reads.
THEOREM Views == Spec => RegisteredViewStable
<1>1. IInv /\ [Next]_vars
        => [device' = device =>
               \A s \in Pinned, b \in Blocks : ReadSeq(b, s)' = ReadSeq(b, s)]_vars
    BY StepKeeps, Zenon DEF ViewKept
<1> QED BY <1>1, Invariance, PTL DEF Spec, RegisteredViewStable

\* What flush_to_device_after may promise: of a commit at or below the cursor
\* the device holds the version or a later one, or a version newer than the
\* cursor is still in the chain for the next flush to write.
THEOREM CursorCovered == Spec => []Covered
<1>1. IInv => Covered
    BY DEF IInv
<1> QED BY <1>1, Invariance, PTL

\* A flush, whole or cut short by a failed write, never takes a block of the
\* device back to an older version.
DeviceForward == [][\A b \in Blocks : device[b] <= device'[b]]_vars

\* flush_to_device_after writes a block with a version at least as new as the
\* one that is home.
THEOREM DeviceMonotone == Spec => DeviceForward
<1>1. IInv /\ [Next]_vars => [\A b \in Blocks : device[b] <= device'[b]]_vars
    BY StepKeeps
<1> QED BY <1>1, Invariance, PTL DEF Spec, DeviceForward
=============================================================================
