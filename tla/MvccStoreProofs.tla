--------------------------- MODULE MvccStoreProofs ---------------------------
(***************************************************************************)
(* Proofs about MvccStore for every number of transactions, readers,       *)
(* blocks and versions, every cap and every policy.                        *)
(***************************************************************************)
EXTENDS MvccStore, TLAPS, NaturalsInduction, WellFoundedInduction

-----------------------------------------------------------------------------
(* Least and greatest elements *)

\* A nonempty set of naturals has a least element.
LEMMA MinExists ==
    ASSUME NEW S, S \subseteq Nat, S # {}
    PROVE  \E m \in S : \A d \in S : m <= d
<1>1. \E m \in S : \A d \in S : ~ (<<d, m>> \in OpToRel(<, Nat))
    BY NatLessThanWellFounded, WFMin, Zenon
<1>2. PICK m \in S : \A d \in S : ~ (<<d, m>> \in OpToRel(<, Nat))
    BY <1>1, Zenon
<1>3. \A x, y \in Nat : x < y => <<x, y>> \in OpToRel(<, Nat)
    BY DEF OpToRel
<1>4. \A d \in S : ~ (d < m)
    BY <1>2, <1>3, Zenon
<1> QED BY <1>4

\* A nonempty bounded set of naturals has a greatest element.
LEMMA MaxExists ==
    ASSUME NEW n \in Nat, NEW S, S \subseteq 0 .. n, S # {}
    PROVE  \E m \in S : \A d \in S : d <= m
<1> DEFINE T == {n - d : d \in S}
<1>0. PICK x : x \in S
    OBVIOUS
<1>1. T \subseteq Nat /\ n - x \in T
    BY <1>0
<1>2. PICK k \in T : \A e \in T : k <= e
    BY <1>1, MinExists, Zenon
<1>3. PICK m \in S : k = n - m
    BY <1>2
<1>4. \A d \in S : n - d \in T
    OBVIOUS
<1>5. \A d \in S : d <= m
  <2> SUFFICES ASSUME NEW d \in S PROVE d <= m
    OBVIOUS
  <2>1. n - m <= n - d
    BY <1>2, <1>3, <1>4, Zenon
  <2> QED BY <2>1
<1> QED BY <1>5

\* Newest finds the newest version of a nonempty chain.
LEMMA NewestExists ==
    ASSUME NEW V, V \subseteq Version, V # {}
    PROVE  /\ Newest(V) \in V
           /\ \A w \in V : w.seq <= Newest(V).seq
<1> DEFINE S == {v.seq : v \in V}
<1>1. MaxCommit \in Nat
    BY ConstantsAssumption
<1>2. S \subseteq 0 .. MaxCommit /\ S # {}
    BY DEF Version, Seqs
<1>3. PICK m \in S : \A d \in S : d <= m
    BY <1>1, <1>2, MaxExists, Zenon
<1>4. \E v \in V : \A w \in V : w.seq <= v.seq
    BY <1>3
<1> QED BY <1>4 DEF Newest

\* No two versions of a chain have the same sequence.
UniqueSeqs(V) == \A v, w \in V : v.seq = w.seq => v = w

\* Every version finds bytes at or below it: the oldest version stores its own.
HeadFull(V) == \A v \in V : \E w \in V : w.seq <= v.seq /\ w.data # Identical

Chain(V) == V \subseteq Version /\ UniqueSeqs(V) /\ HeadFull(V)

\* A version that is newest in a chain is the one Newest returns.
LEMMA NewestIs ==
    ASSUME NEW V, V \subseteq Version, UniqueSeqs(V),
           NEW m \in V, \A w \in V : w.seq <= m.seq
    PROVE  Newest(V) = m
<1>1. Newest(V) \in V /\ m.seq <= Newest(V).seq /\ Newest(V).seq <= m.seq
    BY NewestExists
<1>2. m.seq \in Nat /\ Newest(V).seq \in Nat
    BY <1>1, ConstantsAssumption DEF Version, Seqs
<1>3. m.seq = Newest(V).seq
    BY <1>1, <1>2
<1> QED BY <1>1, <1>3 DEF UniqueSeqs

-----------------------------------------------------------------------------
(* Resolving and reading a chain *)

\* Contents are neither None nor Identical.
LEMMA DataFacts ==
    /\ MaxCommit \in Nat
    /\ \A d \in Data : d # None /\ d # Identical
BY ConstantsAssumption DEF Data

\* The fields of a version have their types.
LEMMA VersionFacts ==
    ASSUME NEW v \in Version
    PROVE  /\ v.seq \in Nat /\ v.seq \in Seqs
           /\ v.data # Identical => v.data \in Data
BY ConstantsAssumption DEF Version, Seqs

\* The bytes of a version are those of the newest version at or below it that
\* stores some.
LEMMA ResolveFull ==
    ASSUME NEW V, Chain(V), NEW v \in V
    PROVE  \E f \in V : /\ f.seq <= v.seq /\ f.data # Identical
                        /\ \A w \in V : w.seq <= v.seq /\ w.data # Identical => w.seq <= f.seq
                        /\ Resolve(V, v) = f.data
                        /\ f.data \in Data
<1> DEFINE full == {w \in V : w.seq <= v.seq /\ w.data # Identical}
<1>1. full # {} /\ full \subseteq Version
    BY DEF Chain, HeadFull
<1>2. Newest(full) \in full /\ \A w \in full : w.seq <= Newest(full).seq
    BY <1>1, NewestExists
<1>3. Resolve(V, v) = Newest(full).data
    BY <1>1 DEF Resolve
<1>4. Newest(full).data \in Data
    BY <1>1, <1>2, VersionFacts
<1> QED BY <1>2, <1>3, <1>4, Zenon

\* Conversely, a version that stores bytes, with no other such version between
\* it and v, gives v its bytes.
LEMMA ResolveIs ==
    ASSUME NEW V, Chain(V), NEW v \in V, NEW f \in V,
           f.seq <= v.seq, f.data # Identical,
           \A w \in V : w.seq <= v.seq /\ w.data # Identical => w.seq <= f.seq
    PROVE  Resolve(V, v) = f.data
<1>1. PICK g \in V : /\ g.seq <= v.seq /\ g.data # Identical
                     /\ \A w \in V : w.seq <= v.seq /\ w.data # Identical => w.seq <= g.seq
                     /\ Resolve(V, v) = g.data
    BY ResolveFull
<1>2. f.seq <= g.seq /\ g.seq <= f.seq
    BY <1>1
<1>3. f.seq \in Nat /\ g.seq \in Nat
    BY <1>1, VersionFacts DEF Chain
<1>4. f.seq = g.seq
    BY <1>2, <1>3
<1>5. f = g
    BY <1>1, <1>4 DEF Chain, UniqueSeqs
<1> QED BY <1>1, <1>5

\* A read of a chain that shows a version returns the bytes of the newest one.
LEMMA ReadIs ==
    ASSUME NEW V, Chain(V), NEW s, NEW v \in V, v.seq <= s,
           \A w \in V : w.seq <= s => w.seq <= v.seq
    PROVE  ReadVisible(V, s) = Resolve(V, v)
<1>1. v \in VisibleAt(V, s) /\ VisibleAt(V, s) \subseteq Version /\ UniqueSeqs(VisibleAt(V, s))
    BY DEF VisibleAt, Chain, UniqueSeqs
<1>2. \A w \in VisibleAt(V, s) : w.seq <= v.seq
    BY DEF VisibleAt
<1>3. Newest(VisibleAt(V, s)) = v
    BY <1>1, <1>2, NewestIs
<1> QED BY <1>1, <1>3 DEF ReadVisible

\* A read finds such a newest version unless the chain shows none.
LEMMA ReadPick ==
    ASSUME NEW V, Chain(V), NEW s, NEW u \in V, u.seq <= s
    PROVE  \E v \in V : v.seq <= s /\ \A w \in V : w.seq <= s => w.seq <= v.seq
<1>1. u \in VisibleAt(V, s) /\ VisibleAt(V, s) \subseteq Version
    BY DEF VisibleAt, Chain
<1>2. /\ Newest(VisibleAt(V, s)) \in VisibleAt(V, s)
      /\ \A w \in VisibleAt(V, s) : w.seq <= Newest(VisibleAt(V, s)).seq
    BY <1>1, NewestExists
<1> QED BY <1>2 DEF VisibleAt

-----------------------------------------------------------------------------
(* Dropping the versions before a head *)

\* DropBefore keeps every version from the head on; only the head changes, to
\* store the bytes it resolved to.
LEMMA DropShape ==
    ASSUME NEW V, Chain(V), NEW h \in V
    PROVE  \E k \in Version :
               /\ k.seq = h.seq /\ k.data = Resolve(V, h) /\ k.data \in Data
               /\ k \in DropBefore(V, h)
               /\ \A v \in V : v # h /\ v.seq >= h.seq => v \in DropBefore(V, h)
               /\ \A u \in DropBefore(V, h) : u = k \/ (u \in V /\ u # h /\ u.seq > h.seq)
<1> DEFINE k == [h EXCEPT !.data = Resolve(V, h)]
           image(v) == [v EXCEPT !.data = IF v = h THEN Resolve(V, h) ELSE v.data]
           D == DropBefore(V, h)
<1>1. Resolve(V, h) \in Data
    BY ResolveFull
<1>2. h \in Version /\ h.seq \in Nat
    BY VersionFacts DEF Chain
<1>3. k \in Version /\ k.seq = h.seq /\ k.data = Resolve(V, h)
    BY <1>1, <1>2 DEF Version
<1>4. D = {image(v) : v \in {w \in V : w.seq >= h.seq}}
    BY DEF DropBefore
<1>5. image(h) = k
    OBVIOUS
<1>6. k \in D
    BY <1>2, <1>4, <1>5
<1>7. \A v \in V : v # h => image(v) = v
    BY DEF Chain, Version
<1>8. \A v \in V : v # h /\ v.seq >= h.seq => v \in D
    BY <1>4, <1>7
<1>9. ASSUME NEW u \in D PROVE u = k \/ (u \in V /\ u # h /\ u.seq > h.seq)
  <2>1. PICK v \in V : v.seq >= h.seq /\ u = image(v)
    BY <1>4, <1>9
  <2>2. CASE v = h
    BY <2>1, <2>2, <1>5
  <2>3. CASE v # h
    <3>1. u = v
        BY <2>1, <2>3, <1>7
    <3>2. v.seq # h.seq /\ v.seq \in Nat
        BY <2>3, VersionFacts DEF Chain, UniqueSeqs
    <3> QED BY <2>1, <2>3, <3>1, <3>2, <1>2
  <2> QED BY <2>2, <2>3
<1> QED BY <1>1, <1>3, <1>6, <1>8, <1>9, Zenon

\* What is left is a chain.
LEMMA DropChain ==
    ASSUME NEW V, Chain(V), NEW h \in V
    PROVE  Chain(DropBefore(V, h))
<1> DEFINE D == DropBefore(V, h)
<1>1. PICK k \in Version :
          /\ k.seq = h.seq /\ k.data = Resolve(V, h) /\ k.data \in Data
          /\ k \in D
          /\ \A v \in V : v # h /\ v.seq >= h.seq => v \in D
          /\ \A u \in D : u = k \/ (u \in V /\ u # h /\ u.seq > h.seq)
    BY DropShape
<1> HIDE DEF D
<1>2. h.seq \in Nat /\ k.data # Identical
    BY <1>1, VersionFacts, DataFacts DEF Chain
<1>3. D \subseteq Version
    BY <1>1 DEF Chain
<1>4. UniqueSeqs(D)
  <2> SUFFICES ASSUME NEW v \in D, NEW w \in D, v.seq = w.seq PROVE v = w
    BY DEF UniqueSeqs
  <2> QED BY <1>1, <1>2, VersionFacts DEF Chain, UniqueSeqs
<1>5. HeadFull(D)
  <2> SUFFICES ASSUME NEW v \in D PROVE k.seq <= v.seq
    BY <1>1, <1>2 DEF HeadFull
  <2>1. v.seq \in Nat
    BY <1>3, VersionFacts
  <2> QED BY <1>1, <1>2, <2>1
<1> QED BY <1>3, <1>4, <1>5 DEF Chain, D

\* A read at a snapshot that shows the head finds what it found before.
LEMMA DropReads ==
    ASSUME NEW V, Chain(V), NEW h \in V, NEW s \in Nat, h.seq <= s
    PROVE  ReadVisible(DropBefore(V, h), s) = ReadVisible(V, s)
<1> DEFINE D == DropBefore(V, h)
<1>1. PICK k \in Version :
          /\ k.seq = h.seq /\ k.data = Resolve(V, h) /\ k.data \in Data
          /\ k \in D
          /\ \A v \in V : v # h /\ v.seq >= h.seq => v \in D
          /\ \A u \in D : u = k \/ (u \in V /\ u # h /\ u.seq > h.seq)
    BY DropShape
<1>2. Chain(D)
    BY DropChain
<1> HIDE DEF D
<1>3. \A v \in V : v.seq \in Nat
    BY VersionFacts DEF Chain
<1>4. PICK n \in V : n.seq <= s /\ \A w \in V : w.seq <= s => w.seq <= n.seq
    BY ReadPick
<1>5. ReadVisible(V, s) = Resolve(V, n) /\ h.seq <= n.seq
    BY <1>4, ReadIs
<1>6. PICK f \in V : /\ f.seq <= n.seq /\ f.data # Identical
                     /\ \A w \in V : w.seq <= n.seq /\ w.data # Identical => w.seq <= f.seq
                     /\ Resolve(V, n) = f.data /\ f.data \in Data
    BY ResolveFull
<1>7. k.data # Identical
    BY <1>1, DataFacts
\* The newest visible version is the head itself,
<1>8. CASE n = h
  <2>1. ReadVisible(D, s) = Resolve(D, k)
    BY <1>1, <1>2, <1>3, <1>4, <1>8, ReadIs
  <2>2. Resolve(D, k) = k.data
    BY <1>1, <1>2, <1>3, <1>7, ResolveIs
  <2> QED BY <1>1, <1>5, <1>8, <2>1, <2>2 DEF D
\* or a later one, with its bytes after the head, at it, or before it.
<1>9. CASE n # h
  <2>1. n \in D
    BY <1>1, <1>5, <1>9
  <2>2. ReadVisible(D, s) = Resolve(D, n)
    BY <1>1, <1>2, <1>3, <1>4, <1>5, <2>1, ReadIs
  <2>3. CASE f.seq > h.seq
    <3>1. f \in D
      BY <1>1, <1>3, <2>3
    <3>2. \A w \in D : w.seq <= n.seq /\ w.data # Identical => w.seq <= f.seq
      BY <1>1, <1>3, <1>6, <2>3
    <3>3. Resolve(D, n) = f.data
      BY <1>2, <1>6, <2>1, <3>1, <3>2, ResolveIs
    <3> QED BY <1>5, <1>6, <2>2, <3>3 DEF D
  <2>4. CASE f.seq <= h.seq
    <3>1. \A w \in D : w.seq <= n.seq /\ w.data # Identical => w.seq <= k.seq
      BY <1>1, <1>3, <1>6, <2>4
    <3>2. k.seq <= n.seq
      BY <1>1, <1>5
    <3>3. Resolve(D, n) = k.data
      BY <1>1, <1>2, <1>7, <2>1, <3>1, <3>2, ResolveIs
    <3>4. \A w \in V : w.seq <= h.seq /\ w.data # Identical => w.seq <= f.seq
      BY <1>3, <1>5, <1>6
    <3>5. Resolve(V, h) = f.data
      BY <1>6, <2>4, <3>4, ResolveIs
    <3> QED BY <1>1, <1>5, <1>6, <2>2, <3>3, <3>5 DEF D
  <2> QED BY <1>3, <2>3, <2>4
<1> QED BY <1>8, <1>9

\* Trimming, for the cap or for the watermark: the result is a chain of some of
\* the sequences, the newest among them, and no snapshot at or above the
\* watermark reads anything else.
LEMMA TrimKeeps ==
    ASSUME NEW V, Chain(V), NEW keep, NEW wm \in Nat
    PROVE  /\ Chain(TrimChain(V, keep, wm))
           /\ \A u \in TrimChain(V, keep, wm) : \E v \in V : v.seq = u.seq
           /\ \A v \in V : \E u \in TrimChain(V, keep, wm) : v.seq <= u.seq
           /\ \A s \in Nat : wm <= s => ReadVisible(TrimChain(V, keep, wm), s) = ReadVisible(V, s)
<1> DEFINE K == Keepers(V, keep, wm)
<1>0. \A v \in V : v.seq \in Nat
    BY VersionFacts DEF Chain
<1>1. CASE K = {}
  <2>1. TrimChain(V, keep, wm) = V
    BY <1>1 DEF TrimChain
  <2> QED BY <1>0, <2>1
<1>2. CASE K # {}
  <2> DEFINE h == Newest(K)
             D == DropBefore(V, h)
  <2>1. TrimChain(V, keep, wm) = D
    BY <1>2 DEF TrimChain
  <2>2. K \subseteq V /\ \A w \in K : w.seq <= wm
    BY DEF Keepers
  <2>3. h \in V /\ h.seq <= wm
    BY <1>2, <2>2, NewestExists DEF Chain
  <2> HIDE DEF h, K
  <2>4. PICK k \in Version :
          /\ k.seq = h.seq /\ k.data = Resolve(V, h) /\ k.data \in Data
          /\ k \in D
          /\ \A v \in V : v # h /\ v.seq >= h.seq => v \in D
          /\ \A u \in D : u = k \/ (u \in V /\ u # h /\ u.seq > h.seq)
    BY <2>3, DropShape
  <2>5. Chain(D)
    BY <2>3, DropChain
  <2>6. \A s \in Nat : wm <= s => ReadVisible(D, s) = ReadVisible(V, s)
    BY <1>0, <2>3, DropReads
  <2> HIDE DEF D
  <2>7. \A u \in D : \E v \in V : v.seq = u.seq
    BY <2>3, <2>4
  <2>8. \A v \in V : \E u \in D : v.seq <= u.seq
    BY <1>0, <2>3, <2>4
  <2> QED BY <2>1, <2>5, <2>6, <2>7, <2>8
<1> QED BY <1>1, <1>2

\* Pushing a newest version: no older snapshot notices.
LEMMA PushKeeps ==
    ASSUME NEW V, Chain(V), NEW n \in Version, \A v \in V : v.seq < n.seq,
           n.data # Identical \/ V # {}
    PROVE  /\ Chain(V \cup {n})
           /\ \A s \in Nat : s < n.seq => ReadVisible(V \cup {n}, s) = ReadVisible(V, s)
<1> DEFINE P == V \cup {n}
<1>0. n.seq \in Nat /\ \A v \in V : v.seq \in Nat
    BY VersionFacts DEF Chain
<1>1. P \subseteq Version /\ UniqueSeqs(P)
    BY <1>0 DEF Chain, UniqueSeqs
<1>2. HeadFull(P)
  <2>1. \A v \in V : \E w \in P : w.seq <= v.seq /\ w.data # Identical
    BY DEF Chain, HeadFull
  <2>2. \E w \in P : w.seq <= n.seq /\ w.data # Identical
    <3>1. CASE n.data # Identical
      BY <1>0, <3>1
    <3>2. CASE V # {}
      <4>1. PICK v \in V : TRUE
        BY <3>2
      <4>2. PICK w \in V : w.seq <= v.seq /\ w.data # Identical
        BY <4>1 DEF Chain, HeadFull
      <4> QED BY <1>0, <4>1, <4>2
    <3> QED BY <3>1, <3>2
  <2> QED BY <2>1, <2>2 DEF HeadFull
<1>3. ASSUME NEW s \in Nat, s < n.seq PROVE ReadVisible(P, s) = ReadVisible(V, s)
  <2>1. VisibleAt(P, s) = VisibleAt(V, s)
    BY <1>0, <1>3 DEF VisibleAt
  <2>2. CASE VisibleAt(V, s) = {}
    BY <2>1, <2>2 DEF ReadVisible
  <2>3. CASE VisibleAt(V, s) # {}
    <3> DEFINE m == Newest(VisibleAt(V, s))
    <3>1. VisibleAt(V, s) \subseteq Version
      BY DEF VisibleAt, Chain
    <3>2. m \in VisibleAt(V, s)
      BY <2>3, <3>1, NewestExists
    <3>3. m \in V /\ m.seq < n.seq
      BY <1>0, <3>2 DEF VisibleAt
    <3> HIDE DEF m
    <3>4. {w \in P : w.seq <= m.seq /\ w.data # Identical}
            = {w \in V : w.seq <= m.seq /\ w.data # Identical}
      BY <1>0, <3>3
    <3>5. Resolve(P, m) = Resolve(V, m)
      BY <3>4, Zenon DEF Resolve
    <3> QED BY <2>1, <2>3, <3>5 DEF ReadVisible, m
  <2> QED BY <2>2, <2>3
<1> QED BY <1>1, <1>2, <1>3 DEF Chain

-----------------------------------------------------------------------------
(* The inductive invariant *)

\* No version, active snapshot or cursor is ahead of the last commit, and a
\* commit in progress still has a sequence to take.
Bounded ==
    /\ \A b \in Blocks : \A v \in versions[b] : v.seq <= CurrentSnapshot
    /\ \A s \in ActiveSeqs(active) : s <= CurrentSnapshot
    /\ flushed <= CurrentSnapshot
    /\ lock.phase # "free" => nextCommit <= MaxCommit

Chains == \A b \in Blocks : Chain(versions[b])

\* The device has the newest contents of every chain at or below the cursor.
DeviceMatches ==
    \A b \in Blocks :
        versions[b] # {} /\ (\A v \in versions[b] : v.seq <= flushed)
            => device[b].data = ReadVisible(versions[b], MaxCommit)

IInv == TypeOK /\ Bounded /\ Chains /\ DeviceMatches

\* The empty store satisfies the invariant.
LEMMA InitIInv == Init => IInv
<1> SUFFICES ASSUME Init PROVE IInv
    OBVIOUS
<1> USE ConstantsAssumption
<1>1. TypeOK
  <2>1. InitialData \in Data
    BY DEF InitialData, Data
  <2>2. NoFallback \in Fallback /\ Unlocked \in [holder : Txns \cup {NoTxn}, mode : {"fcw", "journaled"},
                 phase : {"free", "preflight", "journaled"},
                 policy : {"Strict", "SafeMerge"}, todo : SUBSET Blocks]
    BY DEF NoFallback, Fallback, Blocks, Unlocked
  <2>3. tx \in [Txns -> Transaction]
    BY <2>2 DEF Init, Transaction, Seqs
  <2>4. nextCommit \in 1 .. MaxCommit + 1 /\ versions \in [Blocks -> SUBSET Version]
    BY DEF Init
  <2>5. active \in [Seqs -> Nat] /\ forced \in [Seqs -> Nat] /\ flushed \in Seqs
    BY DEF Init, Seqs
  <2>6. readers \in [Readers -> [st : {"idle", "live", "done"}, snap : Seqs]]
    BY DEF Init, Seqs
  <2>7. device \in [Blocks -> [data : Data, seq : Seqs]]
    BY <2>1 DEF Init, Seqs
  <2>8. log \in Seq(Record) /\ Len(log) = nextCommit - 1
    BY DEF Init
  <2> QED BY <2>2, <2>3, <2>4, <2>5, <2>6, <2>7, <2>8, Zenon DEF Init, TypeOK
<1>2. Bounded
    BY DEF Init, Bounded, CurrentSnapshot, ActiveSeqs, Unlocked
<1>3. Chains /\ DeviceMatches
    BY DEF Init, Chains, Chain, UniqueSeqs, HeadFull, DeviceMatches
<1> QED BY <1>1, <1>2, <1>3 DEF IInv

-----------------------------------------------------------------------------
(* Steps that leave the chains and the device alone *)

LockType == [holder : Txns \cup {NoTxn}, mode : {"fcw", "journaled"},
             phase : {"free", "preflight", "journaled"},
             policy : {"Strict", "SafeMerge"}, todo : SUBSET Blocks]
ReaderType == [Readers -> [st : {"idle", "live", "done"}, snap : Seqs]]

\* The counters, the current snapshot, sequences and blocks are naturals.
LEMMA TypeFacts ==
    ASSUME TypeOK
    PROVE  /\ nextCommit \in Nat /\ CurrentSnapshot \in Nat /\ CurrentSnapshot \in Seqs
           /\ flushed \in Nat
           /\ CurrentSnapshot = nextCommit - 1
           /\ Seqs \subseteq Nat /\ Blocks \subseteq Nat
BY ConstantsAssumption DEF TypeOK, CurrentSnapshot, Seqs, Blocks

\* A step that keeps the store, adds at most the current snapshot to the
\* active ones and keeps its other variables in their types preserves IInv.
LEMMA StoreUnchanged ==
    ASSUME IInv,
           UNCHANGED <<nextCommit, versions, device, flushed, log>>,
           tx' \in [Txns -> Transaction],
           active' \in [Seqs -> Nat],
           forced' \in [Seqs -> Nat],
           readers' \in ReaderType,
           lock' \in LockType,
           \A s \in ActiveSeqs(active') : s \in ActiveSeqs(active) \/ s = CurrentSnapshot,
           lock'.phase # "free" => nextCommit <= MaxCommit
    PROVE  IInv'
<1>1. TypeOK'
    BY SMTT(30) DEF IInv, TypeOK, ReaderType, LockType
<1>2. CurrentSnapshot' = CurrentSnapshot /\ CurrentSnapshot \in Nat
    BY TypeFacts DEF IInv, CurrentSnapshot
<1>3. \A s \in ActiveSeqs(active') : s <= CurrentSnapshot
    BY <1>2 DEF IInv, Bounded
<1>4. Bounded'
    BY <1>2, <1>3 DEF IInv, Bounded
<1>5. Chains'
    BY DEF IInv, Chains
<1>6. DeviceMatches'
    BY DEF IInv, DeviceMatches
<1> QED BY <1>1, <1>4, <1>5, <1>6 DEF IInv

\* register_snapshot keeps the counts natural and activates only its snapshot.
LEMMA RegisteredType ==
    ASSUME TypeOK
    PROVE  /\ Registered(CurrentSnapshot) \in [Seqs -> Nat]
           /\ \A s \in ActiveSeqs(Registered(CurrentSnapshot)) :
                 s \in ActiveSeqs(active) \/ s = CurrentSnapshot
<1>1. CurrentSnapshot \in Seqs /\ active \in [Seqs -> Nat]
    BY TypeFacts DEF TypeOK
<1> QED BY <1>1 DEF Registered, ActiveSeqs

\* release_snapshot keeps both counts natural and activates no snapshot.
LEMMA ReleaseType ==
    ASSUME TypeOK, NEW s \in Seqs, ReleaseSnapshot(s)
    PROVE  /\ active' \in [Seqs -> Nat] /\ forced' \in [Seqs -> Nat]
           /\ \A r \in ActiveSeqs(active') : r \in ActiveSeqs(active)
<1>1. active \in [Seqs -> Nat] /\ forced \in [Seqs -> Nat]
    BY DEF TypeOK
<1>2. CASE active[s] > 0
    BY <1>1, <1>2 DEF ReleaseSnapshot, ActiveSeqs
<1>3. CASE ~ (active[s] > 0)
    BY <1>1, <1>3 DEF ReleaseSnapshot, ActiveSeqs
<1> QED BY <1>2, <1>3

\* A read of a chain is absent or is contents.
LEMMA ReadType ==
    ASSUME NEW V, Chain(V), NEW s
    PROVE  ReadVisible(V, s) \in {None} \cup Data
<1>1. CASE VisibleAt(V, s) = {}
    BY <1>1 DEF ReadVisible
<1>2. CASE VisibleAt(V, s) # {}
  <2>1. VisibleAt(V, s) \subseteq Version
    BY DEF VisibleAt, Chain
  <2>2. Newest(VisibleAt(V, s)) \in V
    BY <1>2, <2>1, NewestExists DEF VisibleAt
  <2>3. Resolve(V, Newest(VisibleAt(V, s))) \in Data
    BY <2>2, ResolveFull
  <2> QED BY <1>2, <2>3 DEF ReadVisible
<1> QED BY <1>1, <1>2

\* A patched block is contents.
LEMMA PatchType ==
    ASSUME NEW d \in Data, NEW S \in SUBSET Slots, NEW t \in Txns
    PROVE  Patch(d, S, t) \in Data
BY DEF Patch, Data

\* First and repeated stagings of a block are staged writes.
LEMMA StagedTypes ==
    ASSUME NEW t \in Txns, NEW S \in SUBSET Slots, NEW proof \in ProofFor(S)
    PROVE  /\ \A d \in Data : FirstStage(d, S, proof, t) \in Staged
           /\ \A w \in Staged : Restage(w, S, proof, t) \in Staged
<1>1. proof \in {Unsafe} \cup SUBSET Slots
    BY DEF ProofFor
<1>2. ASSUME NEW d \in Data PROVE FirstStage(d, S, proof, t) \in Staged
    BY <1>1, PatchType DEF FirstStage, Staged
<1>3. ASSUME NEW w \in Staged PROVE Restage(w, S, proof, t) \in Staged
  <2>1. w.data \in Data /\ w.slots \in SUBSET Slots /\ w.proof \in {Unsafe} \cup SUBSET Slots
        /\ w.base \in {None} \cup Data
    BY DEF Staged
  <2>2. (IF proof = Unsafe \/ w.proof = Unsafe THEN proof ELSE w.proof \cup proof)
           \in {Unsafe} \cup SUBSET Slots
    BY <1>1, <2>1
  <2>3. (IF proof = Unsafe THEN None ELSE w.base) \in {None} \cup Data
    BY <2>1
  <2> QED BY <2>1, <2>2, <2>3, PatchType DEF Restage, Staged
<1> QED BY <1>2, <1>3

\* Staging keeps the transactions in their type.
LEMMA StageIntoType ==
    ASSUME TypeOK, NEW t \in Txns, NEW b \in Blocks, NEW w \in Staged,
           tx[t].stages < MaxStage, StageInto(t, b, w)
    PROVE  tx' \in [Txns -> Transaction]
<1>1. tx \in [Txns -> Transaction] /\ tx[t] \in Transaction
    BY DEF TypeOK
<1>2. NoFallback \in Fallback
    BY ConstantsAssumption DEF NoFallback, Fallback, Blocks
<1>3. tx[t].stages + 1 \in 0 .. MaxStage
    BY <1>1, ConstantsAssumption DEF Transaction
<1>4. [tx[t].staged EXCEPT ![b] = w] \in [Blocks -> {None} \cup Staged]
    BY <1>1 DEF Transaction
<1>5. [tx[t] EXCEPT !.staged[b] = w, !.stages = @ + 1, !.fb = NoFallback] \in Transaction
    BY <1>1, <1>2, <1>3, <1>4, Zenon DEF Transaction
<1> QED BY <1>1, <1>5 DEF StageInto

\* Dooming a transaction keeps the transactions in their type.
LEMMA DoomedType ==
    ASSUME TypeOK, NEW t \in Txns, Doomed(t)
    PROVE  tx' \in [Txns -> Transaction]
<1>1. tx \in [Txns -> Transaction] /\ tx[t] \in Transaction
    BY DEF TypeOK
<1>2. NoFallback \in Fallback
    BY ConstantsAssumption DEF NoFallback, Fallback, Blocks
<1>3. [tx[t] EXCEPT !.st = "failed", !.fb = NoFallback] \in Transaction
    BY <1>1, <1>2, Zenon DEF Transaction
<1> QED BY <1>1, <1>3 DEF Doomed

\* Every step of a transaction outside its commit preserves the invariant.
LEMMA TxnStepIInv ==
    ASSUME IInv, NEW t \in Txns, TxnStep(t)
    PROVE  IInv' /\ UNCHANGED <<versions, device>>
<1> USE DEF IInv
<1>1. /\ tx \in [Txns -> Transaction] /\ tx[t] \in Transaction
      /\ active \in [Seqs -> Nat] /\ forced \in [Seqs -> Nat]
      /\ readers \in ReaderType /\ lock \in LockType
      /\ CurrentSnapshot \in Seqs
    BY TypeFacts, Zenon DEF TypeOK, ReaderType, LockType
<1>2. lock.phase # "free" => nextCommit <= MaxCommit
    BY DEF Bounded
<1> HIDE DEF IInv
<1>3. TypeOK /\ \A b \in Blocks : Chain(versions[b])
    BY DEF IInv, Chains
<1>4. ASSUME tx' \in [Txns -> Transaction],
             UNCHANGED <<nextCommit, versions, active, forced, readers, lock,
                         device, flushed, gcCount, log>>
      PROVE  IInv'
    BY <1>1, <1>2, <1>4, StoreUnchanged
<1>5. CASE Begin(t)
  <2>1. [tx[t] EXCEPT !.st = "active", !.snap = CurrentSnapshot] \in Transaction
    BY <1>1, Zenon DEF Transaction
  <2>2. tx' \in [Txns -> Transaction]
    BY <1>1, <1>5, <2>1 DEF Begin
  <2> QED BY <1>4, <1>5, <2>2 DEF Begin
<1>6. CASE BeginRegistered(t)
  <2>1. [tx[t] EXCEPT !.st = "active", !.snap = CurrentSnapshot, !.reg = TRUE] \in Transaction
    BY <1>1, Zenon DEF Transaction
  <2>2. tx' \in [Txns -> Transaction]
    BY <1>1, <1>6, <2>1 DEF BeginRegistered
  <2>3. /\ active' \in [Seqs -> Nat]
        /\ \A s \in ActiveSeqs(active') : s \in ActiveSeqs(active) \/ s = CurrentSnapshot
    BY <1>3, <1>6, RegisteredType DEF BeginRegistered
  <2>4. UNCHANGED <<nextCommit, versions, forced, readers, lock, device, flushed, log>>
    BY <1>6 DEF BeginRegistered
  <2> QED BY <1>1, <1>2, <2>2, <2>3, <2>4, StoreUnchanged
<1>7. ASSUME NEW b \in Blocks, StageBlind(t, b)
      PROVE  IInv' /\ UNCHANGED <<versions, device>>
  <2> DEFINE w == [data |-> Patch(InitialData, Slots, t), slots |-> Slots,
                   proof |-> Unsafe, base |-> None]
  <2>1. InitialData \in Data
    BY DEF InitialData, Data
  <2>2. w \in Staged
    BY <2>1, PatchType DEF Staged
  <2>3. StageInto(t, b, w) /\ tx[t].stages < MaxStage
    BY <1>7, SMTT(30) DEF StageBlind
  <2>4. tx' \in [Txns -> Transaction]
    BY <1>3, <2>2, <2>3, StageIntoType
  <2> QED BY <1>4, <1>7, <2>4 DEF StageBlind
<1>8. ASSUME NEW b \in Blocks, FallbackProbe(t, b)
      PROVE  IInv' /\ UNCHANGED <<versions, device>>
  <2>1. [step |-> "probed", block |-> b, data |-> None] \in Fallback
    BY DEF Fallback
  <2>2. [tx[t] EXCEPT !.fb = [step |-> "probed", block |-> b, data |-> None]] \in Transaction
    BY <1>1, <2>1 DEF Transaction
  <2>3. tx' \in [Txns -> Transaction]
    BY <1>1, <1>3, <1>8, <2>2, DoomedType, SMTT(30) DEF FallbackProbe
  <2> QED BY <1>4, <1>8, <2>3 DEF FallbackProbe
<1>9. ASSUME NEW S \in SUBSET Slots, NEW proof \in ProofFor(S), FallbackStage(t, S, proof)
      PROVE  IInv' /\ UNCHANGED <<versions, device>>
  <2>1. tx[t].fb \in Fallback /\ tx[t].fb.step = "read"
    BY <1>1, <1>9 DEF FallbackStage, Transaction
  <2>2. tx[t].fb.data \in Data /\ tx[t].fb.block \in Blocks
    BY <2>1 DEF Fallback
  <2>3. FirstStage(tx[t].fb.data, S, proof, t) \in Staged
    BY <2>2, StagedTypes, SMTT(30)
  <2>4. tx' \in [Txns -> Transaction]
    BY <1>3, <1>9, <2>2, <2>3, StageIntoType, DoomedType, SMTT(30) DEF FallbackStage
  <2> QED BY <1>4, <1>9, <2>4 DEF FallbackStage
<1>10. ASSUME NEW S \in SUBSET Slots, NEW proof \in ProofFor(S), NEW b \in Blocks,
              StageWrite(t, b, S, proof)
       PROVE  IInv' /\ UNCHANGED <<versions, device>>
  <2>1. CASE b \in WriteSet(t) /\ StageInto(t, b, Restage(tx[t].staged[b], S, proof, t))
    <3>1. tx[t].staged[b] \in Staged
      BY <1>1, <2>1 DEF WriteSet, Transaction
    <3>2. Restage(tx[t].staged[b], S, proof, t) \in Staged
      BY <3>1, StagedTypes, SMTT(30)
    <3>3. tx' \in [Txns -> Transaction]
      BY <1>3, <1>10, <2>1, <3>2, StageIntoType DEF StageWrite
    <3> QED BY <1>4, <1>10, <3>3 DEF StageWrite
  <2>2. CASE /\ ReadVisible(versions[b], tx[t].snap) # None
             /\ StageInto(t, b, FirstStage(ReadVisible(versions[b], tx[t].snap), S, proof, t))
    <3>1. ReadVisible(versions[b], tx[t].snap) \in Data
      BY <1>3, <2>2, ReadType
    <3>2. FirstStage(ReadVisible(versions[b], tx[t].snap), S, proof, t) \in Staged
      BY <3>1, StagedTypes, SMTT(30)
    <3>3. tx' \in [Txns -> Transaction]
      BY <1>3, <1>10, <2>2, <3>2, StageIntoType DEF StageWrite
    <3> QED BY <1>4, <1>10, <3>3 DEF StageWrite
  <2> QED BY <1>10, <2>1, <2>2, SMTT(30) DEF StageWrite
<1>11. CASE FallbackRead(t)
  <2>1. tx[t].fb \in Fallback /\ tx[t].fb.step = "probed"
    BY <1>1, <1>11 DEF FallbackRead, Transaction
  <2>2. tx[t].fb.block \in Blocks
    BY <2>1 DEF Fallback
  <2>3. device[tx[t].fb.block].data \in Data
    BY <1>3, <2>2 DEF TypeOK
  <2>4. [tx[t].fb EXCEPT !.step = "read", !.data = device[tx[t].fb.block].data] \in Fallback
    BY <2>1, <2>2, <2>3, Zenon DEF Fallback
  <2>5. [tx[t] EXCEPT !.fb.step = "read", !.fb.data = device[tx[t].fb.block].data] \in Transaction
    BY <1>1, <2>4, Zenon DEF Transaction
  <2>6. tx' \in [Txns -> Transaction]
    BY <1>1, <1>11, <2>5 DEF FallbackRead
  <2> QED BY <1>4, <1>11, <2>6 DEF FallbackRead
<1>12. CASE Abort(t)
  <2>1. tx' \in [Txns -> Transaction]
    BY <1>3, <1>12, DoomedType DEF Abort
  <2> QED BY <1>4, <1>12, <2>1 DEF Abort
<1>13. CASE EndScope(t)
  <2>1. tx[t].snap \in Seqs /\ [tx[t] EXCEPT !.reg = FALSE] \in Transaction
    BY <1>1, Zenon DEF Transaction
  <2>2. tx' \in [Txns -> Transaction]
    BY <1>1, <1>13, <2>1 DEF EndScope
  <2>3. /\ active' \in [Seqs -> Nat] /\ forced' \in [Seqs -> Nat]
        /\ \A r \in ActiveSeqs(active') : r \in ActiveSeqs(active)
    BY <1>3, <1>13, <2>1, ReleaseType DEF EndScope
  <2>4. UNCHANGED <<nextCommit, versions, readers, lock, device, flushed, log>>
    BY <1>13 DEF EndScope
  <2> QED BY <1>1, <1>2, <2>2, <2>3, <2>4, StoreUnchanged
<1> QED BY <1>5, <1>6, <1>7, <1>8, <1>9, <1>10, <1>11, <1>12, <1>13 DEF TxnStep

-----------------------------------------------------------------------------
(* Watermarks *)

\* No active snapshot is below the watermark.
LEMMA WatermarkLow ==
    ASSUME TypeOK, NEW current \in Nat
    PROVE  /\ WatermarkOr(active, current) \in Nat
           /\ \A s \in ActiveSeqs(active) : WatermarkOr(active, current) <= s
           /\ WatermarkOr(active, current) = current \/ WatermarkOr(active, current) \in ActiveSeqs(active)
<1>1. ActiveSeqs(active) \subseteq Nat
    BY TypeFacts DEF ActiveSeqs
<1>2. CASE ActiveSeqs(active) = {}
    BY <1>2 DEF WatermarkOr
<1>3. CASE ActiveSeqs(active) # {}
  <2>1. \E m \in ActiveSeqs(active) : \A d \in ActiveSeqs(active) : m <= d
    BY <1>1, <1>3, MinExists
  <2>2. /\ MinSeq(ActiveSeqs(active)) \in ActiveSeqs(active)
        /\ \A d \in ActiveSeqs(active) : MinSeq(ActiveSeqs(active)) <= d
    BY <2>1 DEF MinSeq
  <2> QED BY <1>1, <1>3, <2>2 DEF WatermarkOr
<1> QED BY <1>2, <1>3

\* force_advance_oldest_snapshot keeps both counts natural and activates no
\* snapshot.
LEMMA ForcedType ==
    ASSUME TypeOK
    PROVE  /\ ForcedActive \in [Seqs -> Nat] /\ ForcedReleases \in [Seqs -> Nat]
           /\ \A s \in ActiveSeqs(ForcedActive) : s \in ActiveSeqs(active)
<1>1. active \in [Seqs -> Nat] /\ forced \in [Seqs -> Nat]
    BY DEF TypeOK
<1>2. CASE ActiveSeqs(active) = {}
    BY <1>1, <1>2 DEF ForcedActive, ForcedReleases
<1>3. CASE ActiveSeqs(active) # {}
  <2> DEFINE m == MinSeq(ActiveSeqs(active))
  <2>1. ActiveSeqs(active) \subseteq Nat
    BY TypeFacts DEF ActiveSeqs
  <2>2. m \in ActiveSeqs(active)
    BY <1>3, <2>1, MinExists DEF MinSeq
  <2>3. m \in Seqs /\ active[m] > 0
    BY <2>2 DEF ActiveSeqs
  <2>4. /\ ForcedActive = [active EXCEPT ![m] = @ - 1]
        /\ ForcedReleases = [forced EXCEPT ![m] = @ + 1]
    BY <1>3 DEF ForcedActive, ForcedReleases
  <2> HIDE DEF m
  <2>5. ForcedActive \in [Seqs -> Nat] /\ ForcedReleases \in [Seqs -> Nat]
    BY <1>1, <2>3, <2>4
  <2>6. \A s \in Seqs : ForcedActive[s] > 0 => active[s] > 0
    BY <1>1, <2>3, <2>4
  <2> QED BY <2>5, <2>6 DEF ActiveSeqs
<1> QED BY <1>2, <1>3

-----------------------------------------------------------------------------
(* Commit *)

\* The bytes a commit installs are contents, whether staged or merged.
LEMMA ResolvedType ==
    ASSUME IInv, NEW t \in Txns, NEW b \in WriteSet(t), NEW base, NEW policy,
           Resolves(t, b, base, policy)
    PROVE  ResolvedBytes(t, b) \in Data
<1> DEFINE latest == ReadVisible(versions[b], LatestSeq(versions[b]))
           w == tx[t].staged[b]
<1>1. b \in Blocks /\ w \in Staged
    BY SMTT(30) DEF WriteSet, IInv, TypeOK, Transaction
<1>2. w.data \in Data /\ w.proof \in {Unsafe} \cup SUBSET Slots
    BY <1>1, SMTT(30) DEF Staged
<1>3. CASE ~ Conflicts(t, b)
    BY <1>2, <1>3 DEF ResolvedBytes
<1>4. CASE Conflicts(t, b)
  <2>1. MergeValid(w.proof, base, latest, w.data)
    BY <1>4, SMTT(30) DEF Resolves
  <2>2. latest \in Data
    BY <1>1, <2>1, ReadType, SMTT(30) DEF MergeValid, IInv, Chains
  <2>3. ResolvedBytes(t, b) = MergeBytes(w.proof, latest, w.data)
    BY <1>4 DEF ResolvedBytes
  <2> HIDE DEF latest, w
  <2>4. MergeBytes(w.proof, latest, w.data) \in Data
    BY <1>2, <2>2, SMTT(30) DEF MergeBytes, Data
  <2> QED BY <2>3, <2>4, SMTT(30)
<1> QED BY <1>3, <1>4

\* The chain after an install: one new sequence, the newest; and no active
\* snapshot reads anything else than before.
LEMMA InstalledKeeps ==
    ASSUME IInv, NEW t \in Txns, NEW b \in WriteSet(t), nextCommit <= MaxCommit,
           ResolvedBytes(t, b) \in Data
    PROVE  LET R == InstalledChain(t, b, nextCommit)
           IN  /\ Chain(R)
               /\ \A u \in R : u.seq <= nextCommit
               /\ \E u \in R : u.seq = nextCommit
               /\ \A s \in ActiveSeqs(active) : ReadVisible(R, s) = ReadVisible(versions[b], s)
<1> DEFINE V == versions[b]
           bytes == ResolvedBytes(t, b)
           same == V # {} /\ Resolve(V, Newest(V)) = bytes
           n == [seq |-> nextCommit, writer |-> t, data |-> IF same THEN Identical ELSE bytes]
           P == V \cup {n}
           wm == WatermarkOr(active, nextCommit)
           R == InstalledChain(t, b, nextCommit)
<1>1. TypeOK /\ Chain(V) /\ (\A v \in V : v.seq <= CurrentSnapshot)
    BY DEF IInv, Chains, Bounded, WriteSet
<1>2. nextCommit \in Nat /\ CurrentSnapshot = nextCommit - 1 /\ nextCommit \in Seqs
    BY <1>1, TypeFacts, ConstantsAssumption, SMTT(30) DEF Seqs
<1>3. n \in Version /\ n.seq = nextCommit
    BY <1>2, SMTT(30) DEF Version
<1>4. n.data # Identical \/ V # {}
    BY DataFacts, SMTT(30)
<1>5. R = IF Cap = 0 THEN P ELSE TrimChain(P, Cap, wm)
    BY DEF InstalledChain
<1> HIDE DEF V, n, wm, R
<1>6. \A v \in V : v.seq < n.seq /\ v.seq \in Nat
    BY <1>1, <1>2, <1>3, VersionFacts DEF Chain
<1>7. /\ Chain(P)
      /\ \A s \in Nat : s < nextCommit => ReadVisible(P, s) = ReadVisible(V, s)
    BY <1>1, <1>3, <1>4, <1>6, PushKeeps, ZenonT(30)
<1>8. \A s \in ActiveSeqs(active) : s \in Nat /\ s < nextCommit /\ wm <= s
  <2>1. \A s \in ActiveSeqs(active) : s \in Nat /\ s <= CurrentSnapshot
    BY <1>1, TypeFacts DEF IInv, Bounded, ActiveSeqs
  <2> QED BY <1>1, <1>2, <2>1, WatermarkLow DEF wm
<1>9. (\A u \in P : u.seq <= nextCommit) /\ (\E u \in P : u.seq = nextCommit)
    BY <1>2, <1>3, <1>6
<1>10. CASE Cap = 0
    BY <1>5, <1>7, <1>8, <1>9, <1>10, SMTT(30) DEF R, V
<1>11. CASE Cap # 0
  <2> DEFINE Q == TrimChain(P, Cap, wm)
  <2>1. wm \in Nat
    BY <1>1, <1>2, WatermarkLow DEF wm
  <2> HIDE DEF P
  <2>2. /\ Chain(Q)
        /\ \A u \in Q : \E v \in P : v.seq = u.seq
        /\ \A v \in P : \E u \in Q : v.seq <= u.seq
        /\ \A s \in Nat : wm <= s => ReadVisible(Q, s) = ReadVisible(P, s)
    BY <1>7, <2>1, TrimKeeps
  <2>3. R = Q
    BY <1>5, <1>11
  <2> HIDE DEF Q
  <2>4. \A u \in Q : u.seq <= nextCommit
    BY <1>9, <2>2
  <2>5. \E u \in Q : u.seq = nextCommit
    <3>1. PICK u \in Q : nextCommit <= u.seq
      BY <1>9, <2>2
    <3>2. u.seq \in Nat
      BY <2>2, VersionFacts DEF Chain
    <3> QED BY <1>2, <2>4, <3>1, <3>2
  <2>6. \A s \in ActiveSeqs(active) : ReadVisible(Q, s) = ReadVisible(V, s)
    BY <1>7, <1>8, <2>2
  <2> QED BY <2>2, <2>3, <2>4, <2>5, <2>6 DEF R, V
<1> QED BY <1>10, <1>11

\* One step of ActiveViewStable
ViewKept ==
    device' = device =>
        \A s \in ActiveSeqs(active), b \in Blocks : ReadBlock(b, s)' = ReadBlock(b, s)

\* A step that keeps what every chain shows to the active snapshots keeps views.
LEMMA ReadsKeepView ==
    ASSUME \A s \in ActiveSeqs(active), b \in Blocks :
               ReadVisible(versions'[b], s) = ReadVisible(versions[b], s)
    PROVE  ViewKept
BY DEF ViewKept, ReadBlock

\* Installing a commit preserves the invariant and every active view.
LEMMA InstallIInv ==
    ASSUME IInv, NEW t \in Txns, lock.phase # "free", NEW policy,
           \A b \in WriteSet(t) : Resolves(t, b, ApplyBase(t, b), policy),
           Install(t), UNCHANGED <<active, forced, readers, device, flushed>>
    PROVE  IInv' /\ ViewKept
<1>1. TypeOK /\ Bounded /\ Chains /\ nextCommit <= MaxCommit
    BY DEF IInv, Bounded
<1>2. /\ nextCommit \in Nat /\ CurrentSnapshot = nextCommit - 1 /\ CurrentSnapshot' = nextCommit
      /\ nextCommit \in 1 .. MaxCommit /\ flushed \in Nat
  <2>1. nextCommit' = nextCommit + 1
    BY DEF Install
  <2>2. nextCommit \in 1 .. MaxCommit + 1 /\ MaxCommit \in Nat
    BY <1>1, ConstantsAssumption DEF TypeOK
  <2>3. nextCommit \in 1 .. MaxCommit /\ nextCommit' - 1 = nextCommit
    BY <1>1, <2>1, <2>2, SMTT(30)
  <2> QED BY <1>1, <2>3, TypeFacts DEF CurrentSnapshot
<1>3. ASSUME NEW b \in WriteSet(t)
      PROVE  /\ Chain(versions'[b])
             /\ \A u \in versions'[b] : u.seq <= nextCommit
             /\ \E u \in versions'[b] : u.seq = nextCommit
             /\ \A s \in ActiveSeqs(active) : ReadVisible(versions'[b], s) = ReadVisible(versions[b], s)
  <2>1. ResolvedBytes(t, b) \in Data
    BY ResolvedType
  <2>2. versions'[b] = InstalledChain(t, b, nextCommit)
    BY DEF Install, WriteSet
  <2> QED BY <1>1, <2>1, <2>2, InstalledKeeps
<1>4. \A b \in Blocks : b \notin WriteSet(t) => versions'[b] = versions[b]
    BY SMTT(30) DEF Install
<1>5. \A b \in Blocks : Chain(versions'[b])
    BY <1>1, <1>3, <1>4 DEF Chains
<1>6. TypeOK'
  <2>1. nextCommit' \in 1 .. MaxCommit + 1
    <3>1. nextCommit' = nextCommit + 1
      BY DEF Install
    <3> QED BY <1>2, <3>1, DataFacts
  <2>2. versions' \in [Blocks -> SUBSET Version]
    BY <1>5 DEF Install, Chain
  <2>3. tx' \in [Txns -> Transaction]
    <3>1. tx \in [Txns -> Transaction] /\ tx[t] \in Transaction
      BY <1>1 DEF TypeOK
    <3>2. [tx[t] EXCEPT !.st = "committed"] \in Transaction
      BY <3>1 DEF Transaction
    <3> QED BY <3>1, <3>2 DEF Install
  <2>4. lock' \in LockType
    BY DEF Install, Unlocked, LockType
  <2>5. log' \in Seq(Record) /\ Len(log') = nextCommit' - 1
    <3>1. LogRecord(t) \in Record
      <4>1. \A b \in WriteSet(t) : tx[t].staged[b].slots \in SUBSET Slots
        BY <1>1, SMTT(30) DEF TypeOK, Transaction, WriteSet, Staged
      <4> QED BY <4>1 DEF LogRecord, Record, WriteSet
    <3>2. log \in Seq(Record) /\ Len(log) = nextCommit - 1
      BY <1>1, SMTT(30) DEF TypeOK
    <3> QED BY <1>2, <3>1, <3>2, SMTT(30) DEF Install
  <2> QED BY <1>1, <2>1, <2>2, <2>3, <2>4, <2>5, SMTT(30) DEF TypeOK, LockType
<1>7. Bounded'
  <2>1. ASSUME NEW b \in Blocks, NEW v \in versions'[b] PROVE v.seq <= nextCommit
    <3>1. CASE b \in WriteSet(t)
      BY <1>3, <3>1, SMTT(30)
    <3>2. CASE b \notin WriteSet(t)
      <4>1. v \in versions[b] /\ v.seq \in Nat
        BY <1>1, <1>4, <3>2, VersionFacts DEF Chains, Chain
      <4> QED BY <1>1, <1>2, <4>1, SMTT(30) DEF Bounded
    <3> QED BY <3>1, <3>2, SMTT(30)
  <2>2. \A s \in ActiveSeqs(active) : s <= nextCommit
    <3>1. \A s \in ActiveSeqs(active) : s \in Nat /\ s <= CurrentSnapshot
      BY <1>1, TypeFacts DEF Bounded, ActiveSeqs
    <3> QED BY <1>2, <3>1
  <2>3. flushed <= nextCommit
    BY <1>1, <1>2 DEF Bounded
  <2>4. lock'.phase = "free"
    BY SMTT(30) DEF Install, Unlocked
  <2> QED BY <1>2, <2>1, <2>2, <2>3, <2>4, SMTT(30) DEF Bounded
<1>8. DeviceMatches'
  <2> SUFFICES ASSUME NEW b \in Blocks, versions'[b] # {},
                      \A v \in versions'[b] : v.seq <= flushed
               PROVE  device[b].data = ReadVisible(versions'[b], MaxCommit)
    BY SMTT(30) DEF DeviceMatches
  <2>1. b \notin WriteSet(t)
    BY <1>1, <1>2, <1>3, SMTT(30) DEF Bounded
  <2> QED BY <1>4, <2>1 DEF IInv, DeviceMatches
<1>9. ViewKept
  <2>1. \A s \in ActiveSeqs(active), b \in Blocks :
           ReadVisible(versions'[b], s) = ReadVisible(versions[b], s)
    BY <1>3, <1>4
  <2> QED BY <2>1, ReadsKeepView, SMTT(30)
<1> QED BY <1>5, <1>6, <1>7, <1>8, <1>9 DEF IInv, Chains

\* Every step of a commit preserves the invariant and every active view.
LEMMA CommitStepIInv ==
    ASSUME IInv, NEW t \in Txns, CommitStep(t)
    PROVE  IInv' /\ ViewKept
<1>1. /\ TypeOK
      /\ tx \in [Txns -> Transaction] /\ tx[t] \in Transaction
      /\ active \in [Seqs -> Nat] /\ forced \in [Seqs -> Nat]
      /\ readers \in ReaderType /\ lock \in LockType
    BY SMTT(30) DEF IInv, TypeOK, ReaderType, LockType
<1>2. lock.phase # "free" => nextCommit <= MaxCommit
    BY DEF IInv, Bounded
<1>3. versions' = versions => ViewKept
    BY DEF ViewKept, ReadBlock
<1>4. FailCommit(t) => /\ tx' \in [Txns -> Transaction] /\ lock' \in LockType
                       /\ lock'.phase = "free"
  <2>1. [tx[t] EXCEPT !.st = "failed"] \in Transaction
    BY <1>1 DEF Transaction
  <2> QED BY <1>1, <2>1 DEF FailCommit, Unlocked, LockType
<1>5. ASSUME NEW mode \in Modes, NEW policy \in Policies, LockCommit(t, mode, policy)
      PROVE  IInv' /\ ViewKept
  <2>1. lock' \in LockType /\ nextCommit <= MaxCommit
    BY <1>5, ConstantsAssumption, SMTT(30) DEF LockCommit, LockType, WriteSet
  <2>2. UNCHANGED <<nextCommit, versions, active, forced, tx, readers, device, flushed, log>>
    BY <1>5 DEF LockCommit
  <2> QED BY <1>1, <1>3, <2>1, <2>2, StoreUnchanged, SMTT(30)
<1>6. CASE PreflightBlock(t)
  <2>1. UNCHANGED <<nextCommit, versions, readers, device, flushed, log>>
    BY <1>6 DEF PreflightBlock
  <2>2. nextCommit <= MaxCommit
    BY <1>2, <1>6 DEF PreflightBlock
  <2> DEFINE next == [lock EXCEPT !.todo = @ \ {MinSeq(lock.todo)}]
  <2>3. next \in LockType
    BY <1>1 DEF LockType
  <2>4. /\ tx' \in [Txns -> Transaction] /\ lock' \in LockType
        /\ \/ UNCHANGED <<active, forced>>
           \/ active' = ForcedActive /\ forced' = ForcedReleases
    BY <1>1, <1>4, <1>6, <2>3 DEF PreflightBlock
  <2>5. /\ active' \in [Seqs -> Nat] /\ forced' \in [Seqs -> Nat]
        /\ \A s \in ActiveSeqs(active') : s \in ActiveSeqs(active)
    BY <1>1, <2>4, ForcedType
  <2> QED BY <1>1, <1>3, <2>1, <2>2, <2>4, <2>5, StoreUnchanged
<1>7. ASSUME NEW policy \in Policies, ApplyCommit(t, policy)
      PROVE  IInv' /\ ViewKept
  <2>1. UNCHANGED <<active, forced, readers, device, flushed>> /\ lock.phase # "free"
    BY <1>7 DEF ApplyCommit
  <2>2. CASE \A b \in WriteSet(t) : Resolves(t, b, ApplyBase(t, b), policy)
    <3>1. Install(t)
      BY <1>7, <2>2 DEF ApplyCommit
    <3> QED BY <2>1, <2>2, <3>1, InstallIInv, SMTT(30)
  <2>3. CASE ~ \A b \in WriteSet(t) : Resolves(t, b, ApplyBase(t, b), policy)
    <3>1. FailCommit(t) /\ UNCHANGED <<nextCommit, versions, log>>
      BY <1>7, <2>3 DEF ApplyCommit
    <3> QED BY <1>1, <1>3, <1>4, <2>1, <3>1, StoreUnchanged, SMTT(30)
  <2> QED BY <2>2, <2>3, SMTT(30)
<1>8. ASSUME NEW policy \in Policies, JournalWrite(t, policy)
      PROVE  IInv' /\ ViewKept
  <2>1. UNCHANGED <<nextCommit, versions, active, forced, readers, device, flushed, log>>
        /\ lock.phase # "free"
    BY <1>8 DEF JournalWrite
  <2>2. [lock EXCEPT !.phase = "journaled"] \in LockType
    BY <1>1 DEF LockType
  <2>3. tx' \in [Txns -> Transaction] /\ lock' \in LockType
    BY <1>1, <1>4, <1>8, <2>2 DEF JournalWrite
  <2> QED BY <1>1, <1>2, <1>3, <2>1, <2>3, StoreUnchanged
<1>9. CASE JournalFail(t)
  <2>1. FailCommit(t)
        /\ UNCHANGED <<nextCommit, versions, active, forced, readers, device, flushed, log>>
    BY <1>9 DEF JournalFail
  <2> QED BY <1>1, <1>3, <1>4, <2>1, StoreUnchanged
<1> QED BY <1>5, <1>6, <1>7, <1>8, <1>9 DEF CommitStep

-----------------------------------------------------------------------------
(* Readers, garbage collection and flush *)

\* Registering and releasing a reader preserve the invariant and the views.
LEMMA ReaderStepIInv ==
    ASSUME IInv, NEW r \in Readers, Register(r) \/ Release(r)
    PROVE  IInv' /\ UNCHANGED <<versions, device>>
<1>1. /\ TypeOK
      /\ tx \in [Txns -> Transaction]
      /\ active \in [Seqs -> Nat] /\ forced \in [Seqs -> Nat]
      /\ readers \in ReaderType /\ lock \in LockType
      /\ CurrentSnapshot \in Seqs
    BY TypeFacts, Zenon DEF IInv, TypeOK, ReaderType, LockType
<1>2. lock.phase # "free" => nextCommit <= MaxCommit
    BY Zenon DEF IInv, Bounded
<1>3. CASE Register(r)
  <2>1. readers' \in ReaderType
    BY <1>1, <1>3 DEF Register, ReaderType
  <2>2. /\ active' \in [Seqs -> Nat]
        /\ \A s \in ActiveSeqs(active') : s \in ActiveSeqs(active) \/ s = CurrentSnapshot
    BY <1>1, <1>3, RegisteredType DEF Register
  <2>3. UNCHANGED <<nextCommit, versions, forced, tx, lock, device, flushed, log>>
    BY <1>3 DEF Register
  <2> QED BY <1>1, <1>2, <2>1, <2>2, <2>3, StoreUnchanged, SMTT(30)
<1>4. CASE Release(r)
  <2>1. readers' \in ReaderType /\ readers[r].snap \in Seqs
    BY <1>1, <1>4 DEF Release, ReaderType
  <2>2. /\ active' \in [Seqs -> Nat] /\ forced' \in [Seqs -> Nat]
        /\ \A s \in ActiveSeqs(active') : s \in ActiveSeqs(active)
    BY <1>1, <1>4, <2>1, ReleaseType DEF Release
  <2>3. UNCHANGED <<nextCommit, versions, tx, lock, device, flushed, log>>
    BY <1>4 DEF Release
  <2> QED BY <1>1, <1>2, <2>1, <2>2, <2>3, StoreUnchanged
<1> QED BY <1>3, <1>4, SMTT(30)

\* At or above its newest version, a chain reads as that version.
LEMMA ReadLatest ==
    ASSUME NEW V, Chain(V), V # {}, NEW s, \A v \in V : v.seq <= s
    PROVE  /\ ReadVisible(V, s) = Resolve(V, Newest(V))
           /\ ReadVisible(V, s) \in Data
<1>1. Newest(V) \in V /\ \A w \in V : w.seq <= Newest(V).seq
    BY NewestExists DEF Chain
<1>2. ReadVisible(V, s) = Resolve(V, Newest(V))
    BY <1>1, ReadIs
<1> QED BY <1>1, <1>2, ResolveFull

\* LatestSeq is the sequence of the newest version.
LEMMA LatestSeqIs ==
    ASSUME NEW V, Chain(V)
    PROVE  /\ LatestSeq(V) \in Seqs
           /\ \A v \in V : v.seq <= LatestSeq(V)
           /\ V # {} => \E v \in V : v.seq = LatestSeq(V)
<1>1. CASE V = {}
    BY <1>1, DataFacts DEF LatestSeq, Seqs
<1>2. CASE V # {}
  <2>1. Newest(V) \in V /\ \A w \in V : w.seq <= Newest(V).seq
    BY <1>2, NewestExists DEF Chain
  <2> QED BY <1>2, <2>1, VersionFacts DEF LatestSeq, Chain
<1> QED BY <1>1, <1>2

\* prune_safe preserves the invariant and every active view.
LEMMA PruneIInv ==
    ASSUME IInv, PruneSafe
    PROVE  IInv' /\ ViewKept
<1> DEFINE wm == WatermarkOr(active, CurrentSnapshot)
<1>1. TypeOK /\ Bounded /\ Chains
    BY DEF IInv
<1>2. CurrentSnapshot \in Nat /\ CurrentSnapshot <= MaxCommit /\ MaxCommit \in Nat /\ flushed \in Nat
    BY <1>1, TypeFacts, DataFacts DEF Seqs
<1>3. /\ wm \in Nat
      /\ \A s \in ActiveSeqs(active) : wm <= s /\ s \in Nat
      /\ wm <= MaxCommit
  <2>1. \A s \in ActiveSeqs(active) : s \in Nat /\ s <= CurrentSnapshot
    BY <1>1, TypeFacts DEF Bounded, ActiveSeqs
  <2> QED BY <1>1, <1>2, <2>1, WatermarkLow
<1>4. \A b \in Blocks : versions'[b] = TrimChain(versions[b], 0, wm)
    BY DEF PruneSafe
<1>5. UNCHANGED <<nextCommit, active, forced, tx, readers, lock, device, flushed, log>>
      /\ CurrentSnapshot' = CurrentSnapshot
    BY SMTT(30) DEF PruneSafe, CurrentSnapshot
<1> HIDE DEF wm
<1>6. ASSUME NEW b \in Blocks
      PROVE  /\ Chain(versions'[b])
             /\ \A u \in versions'[b] : \E v \in versions[b] : v.seq = u.seq
             /\ \A v \in versions[b] : \E u \in versions'[b] : v.seq <= u.seq
             /\ \A s \in Nat : wm <= s => ReadVisible(versions'[b], s) = ReadVisible(versions[b], s)
    BY <1>1, <1>3, <1>4, TrimKeeps, SMTT(30) DEF Chains
<1>7. TypeOK'
  <2>1. versions' \in [Blocks -> SUBSET Version]
    BY <1>6, SMTT(30) DEF PruneSafe, Chain
  <2> QED BY <1>1, <1>5, <2>1, SMTT(30) DEF TypeOK
<1>8. Bounded'
    BY <1>1, <1>5, <1>6, SMTT(30) DEF Bounded
<1>9. DeviceMatches'
  <2> SUFFICES ASSUME NEW b \in Blocks, versions'[b] # {},
                      \A v \in versions'[b] : v.seq <= flushed
               PROVE  device[b].data = ReadVisible(versions'[b], MaxCommit)
    BY <1>5 DEF DeviceMatches
  <2>1. versions[b] # {}
    BY <1>6
  <2>2. \A v \in versions[b] : v.seq <= flushed
    <3> SUFFICES ASSUME NEW v \in versions[b] PROVE v.seq <= flushed
      OBVIOUS
    <3>1. PICK u \in versions'[b] : v.seq <= u.seq
      BY <1>6, SMTT(30)
    <3>2. v.seq \in Nat /\ u.seq \in Nat
      BY <1>1, <1>6, VersionFacts, SMTT(30) DEF Chains, Chain
    <3> QED BY <1>2, <3>1, <3>2, SMTT(30)
  <2> QED BY <1>2, <1>3, <1>6, <2>1, <2>2, Zenon DEF IInv, DeviceMatches
<1>10. ViewKept
    BY <1>3, <1>6, ReadsKeepView
<1> QED BY <1>6, <1>7, <1>8, <1>9, <1>10 DEF IInv, Chains

\* evict_durable_chains preserves the invariant and every active view.
LEMMA EvictIInv ==
    ASSUME IInv, EvictDurable
    PROVE  IInv' /\ ViewKept
<1>1. TypeOK /\ Bounded /\ Chains /\ DeviceMatches
    BY DEF IInv
<1>2. UNCHANGED <<nextCommit, active, forced, tx, readers, lock, device, flushed, log>>
      /\ CurrentSnapshot' = CurrentSnapshot
    BY DEF EvictDurable, CurrentSnapshot
<1>3. \A b \in Blocks :
         versions'[b] = IF LatestSeq(versions[b]) <= EvictBound THEN {} ELSE versions[b]
    BY DEF EvictDurable
<1>4. EvictBound \in Nat /\ EvictBound <= flushed /\ \A s \in ActiveSeqs(active) : EvictBound <= s
  <2> DEFINE wm == WatermarkOr(active, flushed)
  <2>1. wm \in Nat /\ flushed \in Nat /\ \A s \in ActiveSeqs(active) : wm <= s /\ s \in Nat
    BY <1>1, TypeFacts, WatermarkLow DEF ActiveSeqs
  <2>2. EvictBound = IF wm <= flushed THEN wm ELSE flushed
    BY DEF EvictBound
  <2> QED BY <2>1, <2>2
<1>5. TypeOK'
  <2>1. versions' \in [Blocks -> SUBSET Version]
    BY <1>1 DEF EvictDurable, Chains, Chain
  <2> QED BY <1>1, <1>2, <2>1, SMTT(30) DEF TypeOK
<1>6. Bounded'
    BY <1>1, <1>2, <1>3 DEF Bounded
<1>7. Chains'
  <2>1. Chain({})
    BY DEF Chain, UniqueSeqs, HeadFull
  <2> QED BY <1>1, <1>3, <2>1 DEF Chains
<1>8. DeviceMatches'
    BY <1>1, <1>2, <1>3 DEF DeviceMatches
<1>9. ViewKept
  <2> SUFFICES ASSUME NEW s \in ActiveSeqs(active), NEW b \in Blocks
               PROVE  ReadBlock(b, s)' = ReadBlock(b, s)
    BY SMTT(30) DEF ViewKept
  <2>1. CASE versions'[b] = versions[b]
    BY <1>2, <2>1 DEF ReadBlock
  <2>2. CASE versions'[b] # versions[b]
    <3>1. versions'[b] = {} /\ versions[b] # {} /\ LatestSeq(versions[b]) <= EvictBound
      BY <1>3, <2>2
    <3>2. \A v \in versions[b] : v.seq <= flushed /\ v.seq <= s /\ v.seq <= MaxCommit
      <4>1. /\ flushed \in Nat /\ s \in Nat /\ MaxCommit \in Nat
            /\ LatestSeq(versions[b]) \in Nat /\ LatestSeq(versions[b]) <= MaxCommit
        BY <1>1, TypeFacts, DataFacts, LatestSeqIs, SMTT(30) DEF Chains, ActiveSeqs, Seqs
      <4>2. \A v \in versions[b] : v.seq \in Nat /\ v.seq <= LatestSeq(versions[b])
        BY <1>1, LatestSeqIs, VersionFacts, SMTT(30) DEF Chains, Chain
      <4> QED BY <1>4, <3>1, <4>1, <4>2, SMTT(30)
    <3>3. /\ ReadVisible(versions[b], s) = ReadVisible(versions[b], MaxCommit)
          /\ ReadVisible(versions[b], s) \in Data
      BY <1>1, <3>1, <3>2, ReadLatest, SMTT(30) DEF Chains
    <3>4. device[b].data = ReadVisible(versions[b], s)
      BY <1>1, <3>1, <3>2, <3>3, SMTT(30) DEF DeviceMatches
    <3>5. ReadBlock(b, s) = device[b].data
      BY <3>3, <3>4, DataFacts DEF ReadBlock
    <3>6. ReadVisible({}, s) = None
      BY SMTT(30) DEF ReadVisible, VisibleAt
    <3>7. ReadBlock(b, s)' = device[b].data
      BY <1>2, <3>1, <3>6, SMTT(30) DEF ReadBlock
    <3> QED BY <3>5, <3>7
  <2> QED BY <2>1, <2>2
<1> QED BY <1>5, <1>6, <1>7, <1>8, <1>9 DEF IInv

\* What a flush writes for one block: its newest contents, unless the device
\* already has them.
LEMMA FlushedBlockIs ==
    ASSUME IInv, NEW b \in Blocks
    PROVE  /\ FlushedBlock(b) \in [data : Data, seq : Seqs]
           /\ versions[b] # {} => FlushedBlock(b).data = ReadVisible(versions[b], MaxCommit)
           /\ (\A v \in versions[b] : v.seq <= flushed) => FlushedBlock(b) = device[b]
<1> DEFINE V == versions[b]
<1>1. TypeOK /\ Bounded /\ Chain(V) /\ DeviceMatches
    BY DEF IInv, Chains
<1>2. /\ CurrentSnapshot \in Nat /\ CurrentSnapshot <= MaxCommit /\ MaxCommit \in Nat
      /\ flushed \in Nat /\ LatestSeq(V) \in Nat
    BY <1>1, TypeFacts, DataFacts, LatestSeqIs, SMTT(30) DEF Seqs
<1>3. \A v \in V : v.seq \in Nat /\ v.seq <= CurrentSnapshot /\ v.seq <= MaxCommit
    BY <1>1, <1>2, VersionFacts, SMTT(30) DEF Bounded, Chain
<1>4. CASE LatestSeq(V) > flushed
  <2>1. V # {}
    BY <1>2, <1>4, SMTT(30) DEF LatestSeq
  <2>2. /\ ReadVisible(V, CurrentSnapshot) = ReadVisible(V, MaxCommit)
        /\ ReadVisible(V, CurrentSnapshot) \in Data
    BY <1>1, <1>3, <2>1, ReadLatest, SMTT(30)
  <2>3. FlushedBlock(b) = [data |-> ReadVisible(V, CurrentSnapshot), seq |-> LatestSeq(V)]
    BY <1>4, <2>2, DataFacts, SMTT(30) DEF FlushedBlock
  <2>4. ~ \A v \in V : v.seq <= flushed
    BY <1>1, <1>2, <1>3, <1>4, <2>1, LatestSeqIs, SMTT(30)
  <2>5. LatestSeq(V) \in Seqs
    BY <1>1, LatestSeqIs
  <2> QED BY <2>2, <2>3, <2>4, <2>5
<1>5. CASE ~ (LatestSeq(V) > flushed)
  <2>1. FlushedBlock(b) = device[b]
    BY <1>5 DEF FlushedBlock
  <2>2. \A v \in V : v.seq <= flushed
    BY <1>1, <1>2, <1>3, <1>5, LatestSeqIs
  <2>3. device[b] \in [data : Data, seq : Seqs]
    BY <1>1, SMTT(30) DEF TypeOK
  <2>4. V # {} => device[b].data = ReadVisible(V, MaxCommit)
    BY <1>1, <2>2 DEF DeviceMatches
  <2> QED BY <2>1, <2>3, <2>4, SMTT(30)
<1> QED BY <1>4, <1>5

\* A flush preserves the invariant; it is the step that changes the device.
LEMMA FlushIInv ==
    ASSUME IInv, Flush
    PROVE  IInv' /\ ViewKept
<1>1. UNCHANGED <<nextCommit, versions, active, forced, tx, readers, lock, log>>
      /\ CurrentSnapshot' = CurrentSnapshot /\ flushed' = CurrentSnapshot
    BY DEF Flush, CurrentSnapshot
<1>2. CurrentSnapshot \in Seqs /\ CurrentSnapshot \in Nat
    BY TypeFacts DEF IInv
<1>3. device' \in [Blocks -> [data : Data, seq : Seqs]]
    BY FlushedBlockIs DEF Flush
<1>4. TypeOK'
    BY <1>1, <1>2, <1>3, SMTT(30) DEF IInv, TypeOK
<1>5. Bounded'
    BY <1>1, <1>2 DEF IInv, Bounded
<1>6. Chains'
    BY <1>1, SMTT(30) DEF IInv, Chains
<1>7. DeviceMatches'
    BY <1>1, FlushedBlockIs, SMTT(30) DEF DeviceMatches, Flush
<1>8. ViewKept
    BY <1>1 DEF ViewKept, ReadBlock
<1> QED BY <1>4, <1>5, <1>6, <1>7, <1>8 DEF IInv

\* A flush that fails after some blocks preserves the invariant.
LEMMA FlushFailIInv ==
    ASSUME IInv, NEW last \in Blocks, FlushFail(last)
    PROVE  IInv' /\ ViewKept
<1>1. UNCHANGED <<nextCommit, versions, active, forced, tx, readers, lock, flushed, log>>
      /\ CurrentSnapshot' = CurrentSnapshot
    BY DEF FlushFail, CurrentSnapshot
<1>2. device \in [Blocks -> [data : Data, seq : Seqs]]
    BY SMTT(30) DEF IInv, TypeOK
<1>3. device' \in [Blocks -> [data : Data, seq : Seqs]]
    BY <1>2, FlushedBlockIs, SMTT(30) DEF FlushFail
<1>4. TypeOK'
    BY <1>1, <1>3, SMTT(30) DEF IInv, TypeOK
<1>5. Bounded'
    BY <1>1 DEF IInv, Bounded
<1>6. Chains'
    BY <1>1 DEF IInv, Chains
<1>7. DeviceMatches'
  <2> SUFFICES ASSUME NEW b \in Blocks, versions[b] # {},
                      \A v \in versions[b] : v.seq <= flushed
               PROVE  device'[b].data = ReadVisible(versions[b], MaxCommit)
    BY <1>1, SMTT(30) DEF DeviceMatches
  <2>1. device'[b] = device[b]
    BY FlushedBlockIs, SMTT(30) DEF FlushFail
  <2> QED BY <2>1, SMTT(30) DEF IInv, DeviceMatches
<1>8. ViewKept
    BY <1>1 DEF ViewKept, ReadBlock
<1> QED BY <1>4, <1>5, <1>6, <1>7, <1>8 DEF IInv

-----------------------------------------------------------------------------
(* The theorems *)

\* Every step preserves the invariant and keeps the views or the state.
LEMMA NextIInv == IInv /\ [Next]_vars => IInv' /\ (ViewKept \/ UNCHANGED vars)
<1> SUFFICES ASSUME IInv, [Next]_vars PROVE IInv' /\ (ViewKept \/ UNCHANGED vars)
    BY SMTT(30)
<1>1. UNCHANGED <<versions, device>> => ViewKept
    BY DEF ViewKept, ReadBlock
<1>2. CASE UNCHANGED vars
  <2>1. IInv'
    BY <1>2, Zenon DEF vars, IInv, TypeOK, Bounded, Chains, DeviceMatches, CurrentSnapshot
  <2> QED BY <1>2, <2>1, SMTT(30)
<1>3. ASSUME NEW t \in Txns, TxnStep(t) PROVE IInv' /\ ViewKept
    BY <1>1, <1>3, TxnStepIInv
<1>4. ASSUME NEW t \in Txns, CommitStep(t) PROVE IInv' /\ ViewKept
    BY <1>4, CommitStepIInv
<1>5. ASSUME NEW r \in Readers, Register(r) \/ Release(r) PROVE IInv' /\ ViewKept
    BY <1>1, <1>5, ReaderStepIInv
<1>6. CASE GcStep
    BY <1>6, PruneIInv, EvictIInv, FlushIInv, FlushFailIInv DEF GcStep
<1> QED BY <1>2, <1>3, <1>4, <1>5, <1>6 DEF Next

\* The inductive invariant holds in every reachable state of the store.
THEOREM Invariance == Spec => []IInv
<1>1. Init => IInv
    BY InitIInv
<1>2. IInv /\ [Next]_vars => IInv'
    BY NextIInv
<1> QED BY <1>1, <1>2, PTL DEF Spec

\* The state of the store keeps its types: among others, every installed
\* version has a sequence that was allocated, staged and merged bytes are
\* contents, and a trimmed chain never starts with a version without bytes.
THEOREM TypeCorrect == Spec => []TypeOK
<1>1. IInv => TypeOK
    BY DEF IInv
<1> QED BY <1>1, Invariance, PTL

\* Only a flush changes what an active snapshot reads.  Commits, dedup, chain
\* caps, forced snapshot release, prune_safe and evict_durable_chains never do.
THEOREM SnapshotViews == Spec => ActiveViewStable
<1>1. IInv /\ [Next]_vars => [ViewKept]_vars
    BY NextIInv
<1>2. [ViewKept]_vars =>
        [device' = device =>
            \A s \in ActiveSeqs(active), b \in Blocks : ReadBlock(b, s)' = ReadBlock(b, s)]_vars
    BY DEF ViewKept
<1> QED BY <1>1, <1>2, Invariance, PTL DEF Spec, ActiveViewStable

=============================================================================
