------------------------- MODULE MutationGateSteps --------------------------
(***************************************************************************)
(* The mutation gate, the durability boundary and the writeback batch keep *)
(* what they promise for every number of threads, files and requests.      *)
(*                                                                         *)
(* The invariant is an annotation of the programs: a thread is at one of   *)
(* finitely many points, each a sequence of labels still to run, and every *)
(* point asserts what the thread may rely on there.  A callee's points are *)
(* stated once, for any continuation k that it returns to.                 *)
(***************************************************************************)
EXTENDS MutationGate, TLAPS

Labels ==
    {"observe", "take", "enter", "begin", "eager_begin", "eager_commit", "commit_scope", "publish",
     "release", "leave", "bump", "pressure", "reply", "stage_check", "stage_lock", "stage_write",
     "lock", "close", "drain", "capture", "journal", "evict", "unlock", "flush", "evict_direct",
     "tick_load", "tick_check", "tick_mark"}
Todos == Seq(Labels)

Then(l, s) == <<l>> \o s

\* Continuations: what a thread does when the call it makes returns.
BPressure(k) == Then("pressure", k)
BBump(k) == Then("bump", BPressure(k))
BRelease(k) == Then("release", BBump(k))
CLeave(k) == Then("leave", k)
CBump(k) == Then("bump", CLeave(k))
CPubIn(k) == Then("publish", CBump(k))
CEnter(k) == Then("enter", CPubIn(k))
CPub(k) == Then("publish", k)
CScope(k) == Then("commit_scope", k)
BUnlock(k) == Then("unlock", k)
JEvict(k) == Then("evict", BUnlock(k))
JJournal(k) == Then("journal", BUnlock(k))
JCapture(k) == Then("capture", JJournal(k))
JDrain(k) == Then("drain", JCapture(k))
JClose(k) == Then("close", JCapture(k))
JLock(k) == Then("lock", JClose(k))
DFlush(k) == Then("flush", BUnlock(k))
DLock(k) == Then("lock", DFlush(k))
EEvict(k) == Then("evict_direct", k)
EDrain(k) == Then("drain", EEvict(k))
EClose(k) == Then("close", EEvict(k))
BLock(j, k) == IF j THEN JLock(k) ELSE DLock(k)

KReply == Then("reply", <<>>)
MLeave == CLeave(BBump(KReply))
KScope == Then("release", MLeave)
MEager == Then("eager_commit", CScope(KScope))
MBegin == Then("begin", MEager)
KMutate == Then("enter", MBegin)
FEager == Then("eager_commit", CBump(KReply))
FBegin == Then("eager_begin", FEager)
FEnter == Then("enter", FBegin)
SWrite == Then("stage_write", KReply)
SLeave == Then("leave", SWrite)
SBegin == Then("begin", SLeave)
SEnter == Then("enter", SBegin)
KStage == Then("stage_lock", KReply)
SCheck == Then("stage_check", KStage)
KSync == BRelease(KReply)
KFsync(j) == Then("begin", BLock(j, KSync))
KMark == Then("tick_mark", KReply)
TCheck == Then("tick_check", KReply)
TLoad == Then("tick_load", TCheck)

-----------------------------------------------------------------------------
Epochs == [count : Nat, head : Nat]
Batches == [file : Files \cup {None}, ops : SUBSET Nat, snap : Nat \cup {None}]
Local ==
    [todo : Todos, kind : Kinds, op : Nat, file : Files \cup {None}, depth : Int,
     reg : Nat \cup {None}, snap : Nat \cup {None}, batch : Batches \cup {None}, cap : Nat,
     seen : Epochs, need : SUBSET Nat, err : BOOLEAN, failed : BOOLEAN]

Typed ==
    /\ journaled \in BOOLEAN
    /\ th \in [Threads -> Local]
    /\ inFlight \in Int /\ closing \in Int /\ asleep \in SUBSET Threads
    /\ cursor \in [through : Nat, owner : Threads \cup {None}]
    /\ commits \in Seq(SUBSET Nat)
    /\ durable \in Nat /\ evicted \in Nat /\ atBoundary \in Nat
    /\ mutationEpoch \in Epochs /\ committedEpoch \in Epochs
    /\ slot \in Batches \cup {None}
    /\ acked \in SUBSET Nat /\ lost \in SUBSET Nat
    /\ workload \in Seq(Kinds) /\ requests \in Nat /\ failures \in Nat

\* An operation that sits in the slot or in a batch that a thread holds.
Held(o) ==
    \/ slot # None /\ o \in slot.ops
    \/ \E u \in Threads : th[u].batch # None /\ o \in th[u].batch.ops

\* It is in the store, or its batch failed.
Decided(o) == CommitsOf(o) # {} \/ o \in lost

\* No capture, durable or on its way to the device, covers position i.
Above(i) == i > durable /\ \A u \in Threads : At(u, "journal") => i > th[u].cap

\* Nothing of the operation of t is in the store or staged.
Fresh(t) == CommitsOf(th[t].op) = {} /\ ~ Held(th[t].op)

\* What it has in the store is not covered, and it may commit more.
Loose(t) == ~ Held(th[t].op) /\ (journaled => \A i \in CommitsOf(th[t].op) : Above(i))

\* All that the fsync of t owes its caller is in the store.
Stored(t) ==
    th[t].need \subseteq acked /\ \A o \in th[t].need \ lost : CommitsOf(o) # {}

\* The first x commits hold it.
Within(t, x) == \A o \in th[t].need \ lost : \A i \in CommitsOf(o) : i <= x

\* It is in the capture of t; it is durable.
Captured(t) == Stored(t) /\ Within(t, th[t].cap)
Secured(t) == Stored(t) /\ Within(t, durable)

\* The answer of t, if it is not an error, is true.
Answer(t) ==
    ~ th[t].err =>
        /\ th[t].kind \in {"mutate", "finalize", "stage"} => Held(th[t].op) \/ Decided(th[t].op)
        /\ th[t].kind = "fsync" => Secured(t)

\* A thread outside the gate that holds no batch and no private snapshot.
Free(t) == th[t].depth = 0 /\ th[t].batch = None /\ th[t].snap = None

\* The fsync t returns to its boundary at k.
Syncing(t, k) ==
    th[t].kind = "fsync" /\ IF journaled THEN k = KFsync(TRUE) ELSE k = KFsync(FALSE)

\* What t asserts when it calls a flush of the batch and returns to k.
Owed(t, k) ==
    \/ k = KReply /\ Answer(t)
    \/ k = KMutate /\ th[t].kind = "mutate" /\ Fresh(t)
    \/ k = KStage /\ th[t].kind = "stage" /\ Fresh(t)
    \/ Syncing(t, k) /\ Stored(t)

\* The same for a boundary that has captured nothing, has captured, is done.
DueOpen(t, k) ==
    \/ Owed(t, k)
    \/ k = KSync /\ th[t].kind = "fsync" /\ Stored(t)
    \/ k = KMark /\ th[t].kind = "tick"

DueCap(t, k) ==
    \/ Owed(t, k)
    \/ k = KSync /\ th[t].kind = "fsync" /\ Captured(t)
    \/ k = KMark /\ th[t].kind = "tick" /\ th[t].seen.head <= th[t].cap

DueDurable(t, k) ==
    \/ Owed(t, k)
    \/ k = KSync /\ th[t].kind = "fsync" /\ Secured(t)
    \/ k = KMark /\ th[t].kind = "tick" /\ th[t].seen.head <= durable

DueEnd(t, k) == DueOpen(t, k) /\ (th[t].failed \/ DueDurable(t, k))

-----------------------------------------------------------------------------
\* The points of a boundary, of the flush of a batch and of each request.
Bounding(t, k) ==
    /\ Free(t)
    /\ \/ journaled /\ th[t].todo \in {JLock(k), JClose(k), JDrain(k), JCapture(k)} /\ DueOpen(t, k)
       \/ ~ journaled /\ th[t].todo \in {DLock(k), DFlush(k)} /\ DueOpen(t, k)
       \/ journaled /\ th[t].todo = JJournal(k) /\ DueCap(t, k)
       \/ journaled /\ th[t].todo = JEvict(k) /\ th[t].cap <= durable /\ DueDurable(t, k)
       \/ th[t].todo = BUnlock(k) /\ (th[t].failed \/ th[t].cap <= durable) /\ DueEnd(t, k)
       \/ ~ journaled /\ th[t].todo \in {EClose(k), EDrain(k), EEvict(k)} /\ DueDurable(t, k)
       \/ th[t].todo = k /\ DueEnd(t, k)

\* The batch that t commits is not in the store.
Pending(t, k) ==
    /\ th[t].batch # None /\ th[t].snap = None
    /\ \A o \in th[t].batch.ops : CommitsOf(o) = {}
    /\ \/ Owed(t, k)
       \/ /\ Syncing(t, k) /\ th[t].need \subseteq acked
          /\ \A o \in th[t].need : Decided(o) \/ o \in th[t].batch.ops

\* It is, or it failed.
Settled(t, k) ==
    /\ th[t].batch # None /\ th[t].snap = None
    /\ \A o \in th[t].batch.ops : Decided(o)
    /\ Owed(t, k)

Flushing(t, k) ==
    \/ /\ th[t].todo = Then("observe", k) /\ Free(t)
       /\ (Owed(t, k) /\ th[t].kind # "fsync") \/ Syncing(t, k)
    \/ /\ th[t].todo = Then("take", k) /\ Free(t)
       /\ Owed(t, k) \/ (Syncing(t, k) /\ th[t].need \subseteq acked)
    \/ /\ Pending(t, k)
       /\ \/ th[t].todo \in {CScope(BRelease(k)), CEnter(BRelease(k)), CPub(BRelease(k))}
             /\ th[t].depth = 0
          \/ th[t].todo = CPubIn(BRelease(k)) /\ th[t].depth = 1
    \/ /\ Settled(t, k)
       /\ \/ th[t].todo \in {CBump(BRelease(k)), CLeave(BRelease(k))} /\ th[t].depth = 1
          \/ th[t].todo = BRelease(k) /\ th[t].depth = 0
    \/ Free(t) /\ Owed(t, k) /\ th[t].todo \in {BBump(k), BPressure(k)}

Mutating(t) ==
    /\ th[t].kind = "mutate" /\ th[t].batch = None /\ th[t].snap = None
    /\ \/ th[t].todo \in {MBegin, MEager} /\ th[t].depth = 1 /\ Fresh(t)
       \/ th[t].todo \in {CScope(KScope), CEnter(KScope), CPub(KScope)} /\ th[t].depth = 1 /\ Loose(t)
       \/ th[t].todo = CPubIn(KScope) /\ th[t].depth = 2 /\ Loose(t)
       \/ th[t].todo \in {CBump(KScope), CLeave(KScope)} /\ th[t].depth = 2 /\ Answer(t)
       \/ th[t].todo \in {KScope, MLeave} /\ th[t].depth = 1 /\ Answer(t)

Finalizing(t) ==
    /\ th[t].kind = "finalize" /\ th[t].batch = None
    /\ \/ th[t].todo = FEnter /\ th[t].depth = 0 /\ th[t].snap = None /\ Fresh(t)
       \/ th[t].todo = FBegin /\ th[t].depth = 1 /\ th[t].snap = None /\ Fresh(t)
       \/ th[t].todo = FEager /\ th[t].depth = 1 /\ Fresh(t)
       \/ th[t].todo \in {CBump(KReply), CLeave(KReply)} /\ th[t].depth = 1 /\ th[t].snap = None
          /\ Answer(t)

Staging(t) ==
    /\ th[t].kind = "stage" /\ th[t].batch = None /\ th[t].snap = None /\ Fresh(t)
    /\ \/ th[t].todo \in {SCheck, SEnter, SWrite} /\ th[t].depth = 0
       \/ th[t].todo \in {SBegin, SLeave} /\ th[t].depth = 1

Ticking(t) == th[t].kind = "tick" /\ Free(t) /\ th[t].todo \in {TLoad, TCheck}

Conts == {KReply, KMutate, KStage, KFsync(TRUE), KFsync(FALSE)}
BoundaryConts == Conts \cup {KSync, KMark}

Point(t) ==
    \/ th[t].todo = <<>> /\ Free(t)
    \/ \E k \in Conts : Flushing(t, k)
    \/ \E k \in BoundaryConts : Bounding(t, k)
    \/ Mutating(t) \/ Finalizing(t) \/ Staging(t) \/ Ticking(t)

-----------------------------------------------------------------------------
Closers == {t \in Threads : Closed(t)}

\* The gate's counters; it is drained while a boundary captures or evicts.
Gate ==
    /\ inFlight = Cardinality(Entries) /\ closing = Cardinality(Closers)
    /\ \A t \in asleep : At(t, "drain") \/ (At(t, "enter") /\ th[t].depth = 0)
    /\ \A t \in Threads : At(t, "capture") \/ At(t, "evict_direct") =>
         inFlight = 0 /\ \A u \in Threads : th[u].depth = 0

Numbers ==
    /\ evicted <= durable /\ durable <= Len(commits)
    /\ cursor.through <= durable /\ atBoundary <= durable
    /\ mutationEpoch.head <= Len(commits) /\ committedEpoch.head <= durable
    /\ committedEpoch.count <= mutationEpoch.count
    /\ \A t \in Threads :
         /\ th[t].cap <= Len(commits)
         /\ th[t].seen.head <= Len(commits) /\ th[t].seen.count <= mutationEpoch.count

\* No snapshot is older than a chain that was dropped, and those that eviction
\* does not know of are no older than any capture.
Snapshots ==
    /\ \A t \in Threads :
         /\ th[t].snap # None => evicted <= th[t].snap
         /\ th[t].reg # None => evicted <= th[t].reg
         /\ th[t].batch # None /\ th[t].batch.snap # None => evicted <= th[t].batch.snap
    /\ slot # None /\ slot.snap # None => evicted <= slot.snap
    /\ journaled => \A t, u \in Threads : th[u].snap # None => th[t].cap <= th[u].snap

\* Every operation has one owner.
Owners ==
    /\ acked \subseteq 1 .. requests
    /\ \A i \in 1 .. Len(commits) : commits[i] \subseteq 1 .. requests
    /\ \A t \in Threads : th[t].todo # <<>> => th[t].op \in (1 .. requests) \ acked
    /\ \A t, u \in Threads : t # u /\ th[t].todo # <<>> /\ th[u].todo # <<>> => th[t].op # th[u].op
    /\ \A t \in Threads : th[t].batch # None => th[t].batch.ops \subseteq 1 .. requests
    /\ \A t, u \in Threads :
         t # u /\ th[t].batch # None /\ th[u].batch # None => th[t].batch.ops \cap th[u].batch.ops = {}
    /\ slot # None => \A o \in slot.ops :
         /\ o \in 1 .. requests
         /\ CommitsOf(o) = {}
         /\ \A t \in Threads : th[t].batch # None => o \notin th[t].batch.ops
    /\ \A o \in acked : Held(o) \/ Decided(o)

Cut(x) ==
    \A o \in 1 .. requests : (\A i \in CommitsOf(o) : i <= x) \/ (\A i \in CommitsOf(o) : i > x)
Cuts == journaled => Cut(durable) /\ \A t \in Threads : At(t, "journal") => Cut(th[t].cap)

IInv ==
    /\ Typed /\ Gate /\ Numbers /\ Snapshots /\ Owners /\ Cuts
    /\ \A t \in Threads : Point(t)

-----------------------------------------------------------------------------
\* Concatenation of programs.
LEMMA Joins ==
    ASSUME NEW S, NEW p \in Seq(S), NEW q \in Seq(S), NEW s \in Seq(S)
    PROVE  p \o q \in Seq(S) /\ (p \o q) \o s = p \o (q \o s) /\ p \o <<>> = p /\ <<>> \o p = p
OBVIOUS

\* A label in front of what is left to do.
LEMMA ThenIs ==
    ASSUME NEW l \in Labels, NEW s \in Todos
    PROVE  /\ Then(l, s) \in Todos /\ Then(l, s) # <<>>
           /\ Head(Then(l, s)) = l /\ Tail(Then(l, s)) = s
<1>1. <<l>> \in Todos /\ Len(<<l>>) = 1
  BY DEF Todos
<1>2. /\ Then(l, s) \in Todos /\ Len(Then(l, s)) = Len(s) + 1 /\ Then(l, s)[1] = l
      /\ \A i \in 1 .. Len(s) : Then(l, s)[i + 1] = s[i]
  BY <1>1 DEF Then, Todos
<1> USE <1>2
<1>3. Tail(Then(l, s)) = s
  <2>1. Tail(Then(l, s)) \in Todos /\ Len(Tail(Then(l, s))) = Len(s)
    BY DEF Todos
  <2>2. \A i \in 1 .. Len(s) : Tail(Then(l, s))[i] = s[i]
    BY DEF Todos
  <2> QED BY <2>1, <2>2 DEF Todos
<1> QED BY <1>3 DEF Todos

\* A callee's labels in front of a continuation.
LEMMA Calls ==
    ASSUME NEW s \in Todos
    PROVE  /\ \A a : <<a>> \o s = Then(a, s)
           /\ \A a, b : <<a, b>> \o s = Then(a, Then(b, s))
           /\ \A a, b, c : <<a, b, c>> \o s = Then(a, Then(b, Then(c, s)))
           /\ \A a, b, c, d : <<a, b, c, d>> \o s = Then(a, Then(b, Then(c, Then(d, s))))
           /\ \A a, b, c, d, e :
                <<a, b, c, d, e>> \o s = Then(a, Then(b, Then(c, Then(d, Then(e, s)))))
<1>1. ASSUME NEW S, NEW q \in Seq(S), NEW p \in Seq(S), NEW l \in S
      PROVE  (<<l>> \o p) \o q = Then(l, p \o q)
  <2>1. <<l>> \in Seq(S)
    OBVIOUS
  <2> QED BY <2>1, Joins DEF Then
<1>2. ASSUME NEW a, NEW b PROVE <<a, b>> \o s = Then(a, Then(b, s))
  <2> DEFINE S == Labels \cup {a, b}
  <2>1. s \in Seq(S)
    BY DEF Todos
  <2>2. <<b>> \in Seq(S) /\ a \in S
    OBVIOUS
  <2>3. <<a, b>> = <<a>> \o <<b>>
    <3>1. <<a, b>> = Append(<<a>>, b) /\ <<a>> \in Seq(S) /\ b \in S
      OBVIOUS
    <3>2. ASSUME NEW T, NEW x \in Seq(T), NEW y \in T PROVE Append(x, y) = x \o <<y>>
      OBVIOUS
    <3> QED BY <3>1, <3>2, Zenon
  <2> HIDE DEF S
  <2> QED BY <1>1, <2>1, <2>2, <2>3 DEF Then
<1>3. ASSUME NEW a, NEW b, NEW c PROVE <<a, b, c>> \o s = Then(a, Then(b, Then(c, s)))
  <2> DEFINE S == Labels \cup {a, b, c}
  <2>1. s \in Seq(S) /\ <<b, c>> \in Seq(S) /\ a \in S /\ <<a, b, c>> = <<a>> \o <<b, c>>
    BY DEF Todos
  <2> HIDE DEF S
  <2>2. <<a, b, c>> \o s = Then(a, <<b, c>> \o s)
    BY <1>1, <2>1, Zenon
  <2> QED BY <1>2, <2>2, Zenon
<1>4. ASSUME NEW a, NEW b, NEW c, NEW d
      PROVE  <<a, b, c, d>> \o s = Then(a, Then(b, Then(c, Then(d, s))))
  <2> DEFINE S == Labels \cup {a, b, c, d}
  <2>1. s \in Seq(S) /\ <<b, c, d>> \in Seq(S) /\ a \in S /\ <<a, b, c, d>> = <<a>> \o <<b, c, d>>
    BY DEF Todos
  <2> HIDE DEF S
  <2>2. <<a, b, c, d>> \o s = Then(a, <<b, c, d>> \o s)
    BY <1>1, <2>1, Zenon
  <2> QED BY <1>3, <2>2, Zenon
<1>5. ASSUME NEW a, NEW b, NEW c, NEW d, NEW e
      PROVE  <<a, b, c, d, e>> \o s = Then(a, Then(b, Then(c, Then(d, Then(e, s)))))
  <2> DEFINE S == Labels \cup {a, b, c, d, e}
  <2>1. s \in Seq(S) /\ <<b, c, d, e>> \in Seq(S) /\ a \in S
        /\ <<a, b, c, d, e>> = <<a>> \o <<b, c, d, e>>
    BY DEF Todos
  <2> HIDE DEF S
  <2>2. <<a, b, c, d, e>> \o s = Then(a, <<b, c, d, e>> \o s)
    BY <1>1, <2>1, Zenon
  <2> QED BY <1>4, <2>2, Zenon
<1> QED BY <1>2, <1>3, <1>4, <1>5, Zenon DEF Then

\* A call without labels of its own.
LEMMA Call0 == ASSUME NEW s \in Todos PROVE <<>> \o s = s
BY DEF Todos

\* The labels the programs use.
LEMMA AreLabels ==
    /\ "lock" \in Labels /\ "close" \in Labels /\ "capture" \in Labels /\ "journal" \in Labels
    /\ "unlock" \in Labels /\ "flush" \in Labels /\ "tick_mark" \in Labels /\ "evict_direct" \in Labels
    /\ "enter" \in Labels /\ "publish" \in Labels /\ "bump" \in Labels /\ "leave" \in Labels
    /\ "release" \in Labels /\ "pressure" \in Labels /\ "commit_scope" \in Labels
    /\ "observe" \in Labels /\ "take" \in Labels /\ "drain" \in Labels /\ "evict" \in Labels
    /\ "begin" \in Labels /\ "stage_write" \in Labels /\ "stage_check" \in Labels
    /\ "stage_lock" \in Labels /\ "reply" \in Labels /\ "eager_begin" \in Labels
    /\ "eager_commit" \in Labels /\ "tick_check" \in Labels /\ "tick_load" \in Labels
BY DEF Labels

\* x is a sequence that starts with label l and goes on with s.
Shape(x, l, s) == x \in Todos /\ x # <<>> /\ Head(x) = l /\ Tail(x) = s

\* Then builds a program of the given head and rest.
LEMMA ThenShape ==
    ASSUME NEW l \in Labels, NEW s \in Todos
    PROVE  Shape(Then(l, s), l, s)
BY ThenIs DEF Shape

\* The programs of the callees, for any continuation.
LEMMA FrameShapes ==
    ASSUME NEW k \in Todos
    PROVE  /\ Shape(BPressure(k), "pressure", k)
           /\ Shape(BBump(k), "bump", BPressure(k))
           /\ Shape(BRelease(k), "release", BBump(k))
           /\ Shape(CLeave(k), "leave", k)
           /\ Shape(CBump(k), "bump", CLeave(k))
           /\ Shape(CPubIn(k), "publish", CBump(k))
           /\ Shape(CEnter(k), "enter", CPubIn(k))
           /\ Shape(CPub(k), "publish", k)
           /\ Shape(CScope(k), "commit_scope", k)
           /\ Shape(BUnlock(k), "unlock", k)
           /\ Shape(JEvict(k), "evict", BUnlock(k))
           /\ Shape(JJournal(k), "journal", BUnlock(k))
           /\ Shape(JCapture(k), "capture", JJournal(k))
           /\ Shape(JDrain(k), "drain", JCapture(k))
           /\ Shape(JClose(k), "close", JCapture(k))
           /\ Shape(JLock(k), "lock", JClose(k))
           /\ Shape(DFlush(k), "flush", BUnlock(k))
           /\ Shape(DLock(k), "lock", DFlush(k))
           /\ Shape(EEvict(k), "evict_direct", k)
           /\ Shape(EDrain(k), "drain", EEvict(k))
           /\ Shape(EClose(k), "close", EEvict(k))
           /\ Shape(Then("observe", k), "observe", k) /\ Shape(Then("take", k), "take", k)
<1>1. Shape(BPressure(k), "pressure", k)
  BY ThenShape, AreLabels DEF BPressure
<1>2. Shape(BBump(k), "bump", BPressure(k))
  BY <1>1, ThenShape, AreLabels, Zenon DEF BBump, Shape
<1>3. Shape(BRelease(k), "release", BBump(k))
  BY <1>2, ThenShape, AreLabels, Zenon DEF BRelease, Shape
<1>4. Shape(CLeave(k), "leave", k)
  BY ThenShape, AreLabels DEF CLeave
<1>5. Shape(CBump(k), "bump", CLeave(k))
  BY <1>4, ThenShape, AreLabels, Zenon DEF CBump, Shape
<1>6. Shape(CPubIn(k), "publish", CBump(k))
  BY <1>5, ThenShape, AreLabels, Zenon DEF CPubIn, Shape
<1>7. Shape(CEnter(k), "enter", CPubIn(k))
  BY <1>6, ThenShape, AreLabels, Zenon DEF CEnter, Shape
<1>8. Shape(CPub(k), "publish", k)
  BY ThenShape, AreLabels DEF CPub
<1>9. Shape(CScope(k), "commit_scope", k)
  BY ThenShape, AreLabels DEF CScope
<1>10. Shape(BUnlock(k), "unlock", k)
  BY ThenShape, AreLabels DEF BUnlock
<1> USE <1>10
<1>11. Shape(JEvict(k), "evict", BUnlock(k))
  BY ThenShape, AreLabels, Zenon DEF JEvict, Shape
<1>12. Shape(JJournal(k), "journal", BUnlock(k))
  BY ThenShape, AreLabels, Zenon DEF JJournal, Shape
<1>13. Shape(JCapture(k), "capture", JJournal(k))
  BY <1>12, ThenShape, AreLabels, Zenon DEF JCapture, Shape
<1> USE <1>13
<1>14. Shape(JDrain(k), "drain", JCapture(k))
  BY ThenShape, AreLabels, Zenon DEF JDrain, Shape
<1>15. Shape(JClose(k), "close", JCapture(k))
  BY ThenShape, AreLabels, Zenon DEF JClose, Shape
<1>16. Shape(JLock(k), "lock", JClose(k))
  BY <1>15, ThenShape, AreLabels, Zenon DEF JLock, Shape
<1>17. Shape(DFlush(k), "flush", BUnlock(k))
  BY ThenShape, AreLabels, Zenon DEF DFlush, Shape
<1>18. Shape(DLock(k), "lock", DFlush(k))
  BY <1>17, ThenShape, AreLabels, Zenon DEF DLock, Shape
<1>19. Shape(EEvict(k), "evict_direct", k)
  BY ThenShape, AreLabels DEF EEvict
<1> USE <1>19
<1>20. Shape(EDrain(k), "drain", EEvict(k))
  BY ThenShape, AreLabels, Zenon DEF EDrain, Shape
<1>21. Shape(EClose(k), "close", EEvict(k))
  BY ThenShape, AreLabels, Zenon DEF EClose, Shape
<1>o. Shape(Then("observe", k), "observe", k) /\ Shape(Then("take", k), "take", k)
  BY ThenShape, AreLabels
<1> QED BY <1>1, <1>2, <1>3, <1>4, <1>5, <1>6, <1>7, <1>8, <1>9, <1>11, <1>12, <1>14, <1>15,
           <1>16, <1>17, <1>18, <1>20, <1>21, <1>o

\* The programs of the requests.
LEMMA NameShapes ==
    /\ Shape(KReply, "reply", <<>>)
    /\ Shape(MLeave, "leave", BBump(KReply))
    /\ Shape(KScope, "release", MLeave)
    /\ Shape(MEager, "eager_commit", CScope(KScope))
    /\ Shape(MBegin, "begin", MEager)
    /\ Shape(KMutate, "enter", MBegin)
    /\ Shape(FEager, "eager_commit", CBump(KReply))
    /\ Shape(FBegin, "eager_begin", FEager)
    /\ Shape(FEnter, "enter", FBegin)
    /\ Shape(SWrite, "stage_write", KReply)
    /\ Shape(SLeave, "leave", SWrite)
    /\ Shape(SBegin, "begin", SLeave)
    /\ Shape(SEnter, "enter", SBegin)
    /\ Shape(KStage, "stage_lock", KReply)
    /\ Shape(SCheck, "stage_check", KStage)
    /\ Shape(KSync, "release", BBump(KReply))
    /\ Shape(KMark, "tick_mark", KReply)
    /\ Shape(TCheck, "tick_check", KReply)
    /\ Shape(TLoad, "tick_load", TCheck)
    /\ \A j \in BOOLEAN : Shape(KFsync(j), "begin", BLock(j, KSync)) /\ BLock(j, KSync) \in Todos
<1>e. <<>> \in Todos
  BY DEF Todos
<1>1. Shape(KReply, "reply", <<>>)
  BY <1>e, ThenShape, AreLabels DEF KReply
<1> USE <1>1
<1>a. KReply \in Todos
  BY DEF Shape
<1>b. BBump(KReply) \in Todos /\ KSync \in Todos
  BY <1>a, FrameShapes DEF Shape, KSync
<1>2. Shape(MLeave, "leave", BBump(KReply))
  BY <1>b, ThenShape, AreLabels DEF MLeave, CLeave
<1>3. Shape(KScope, "release", MLeave)
  BY <1>2, ThenShape, AreLabels, Zenon DEF KScope, Shape
<1>4. Shape(MEager, "eager_commit", CScope(KScope))
  <2>1. KScope \in Todos
    BY <1>3, Zenon DEF Shape
  <2>2. CScope(KScope) \in Todos
    BY <2>1, FrameShapes, Zenon DEF Shape
  <2> QED BY <2>2, ThenShape, AreLabels, Zenon DEF MEager
<1>5. Shape(MBegin, "begin", MEager)
  BY <1>4, ThenShape, AreLabels, Zenon DEF MBegin, Shape
<1>6. Shape(KMutate, "enter", MBegin)
  BY <1>5, ThenShape, AreLabels, Zenon DEF KMutate, Shape
<1>7. Shape(FEager, "eager_commit", CBump(KReply))
  BY FrameShapes, ThenShape, AreLabels, ZenonT(30) DEF FEager, Shape
<1>8. Shape(FBegin, "eager_begin", FEager)
  BY <1>7, ThenShape, AreLabels, Zenon DEF FBegin, Shape
<1>9. Shape(FEnter, "enter", FBegin)
  BY <1>8, ThenShape, AreLabels, Zenon DEF FEnter, Shape
<1>10. Shape(SWrite, "stage_write", KReply)
  BY ThenShape, AreLabels, Zenon DEF SWrite, Shape
<1>11. Shape(SLeave, "leave", SWrite)
  BY <1>10, ThenShape, AreLabels, Zenon DEF SLeave, Shape
<1>12. Shape(SBegin, "begin", SLeave)
  BY <1>11, ThenShape, AreLabels, Zenon DEF SBegin, Shape
<1>13. Shape(SEnter, "enter", SBegin)
  BY <1>12, ThenShape, AreLabels, Zenon DEF SEnter, Shape
<1>14. Shape(KStage, "stage_lock", KReply)
  BY ThenShape, AreLabels, Zenon DEF KStage, Shape
<1>15. Shape(SCheck, "stage_check", KStage)
  BY <1>14, ThenShape, AreLabels, Zenon DEF SCheck, Shape
<1>16. Shape(KSync, "release", BBump(KReply))
  BY <1>b, ThenShape, AreLabels DEF KSync, BRelease
<1>17. Shape(KMark, "tick_mark", KReply)
  BY ThenShape, AreLabels, Zenon DEF KMark, Shape
<1>18. Shape(TCheck, "tick_check", KReply)
  BY ThenShape, AreLabels, Zenon DEF TCheck, Shape
<1>19. Shape(TLoad, "tick_load", TCheck)
  BY <1>18, ThenShape, AreLabels, Zenon DEF TLoad, Shape
<1>f. \A j \in BOOLEAN : BLock(j, KSync) \in Todos
  BY <1>16, FrameShapes DEF BLock, Shape
<1>g. \A j \in BOOLEAN : Shape(KFsync(j), "begin", BLock(j, KSync))
  BY <1>f, ThenShape, AreLabels DEF KFsync
<1> QED BY <1>2, <1>3, <1>4, <1>5, <1>6, <1>7, <1>8, <1>9, <1>10, <1>11, <1>12, <1>13, <1>14,
           <1>15, <1>16, <1>17, <1>18, <1>19, <1>f, <1>g, Zenon

\* Short sequences of labels are programs.
LEMMA TuplesAreTodos ==
    /\ <<>> \in Todos
    /\ \A a \in Labels : <<a>> \in Todos
    /\ \A a, b \in Labels : <<a, b>> \in Todos
    /\ \A a, b, c \in Labels : <<a, b, c>> \in Todos
    /\ \A a, b, c, d, e \in Labels : <<a, b, c, d, e>> \in Todos
BY DEF Todos

\* An idle thread and a longer log have their types.
LEMMA IdleLocal == Idle \in Local
<1>1. NoEpoch \in Epochs
  BY Zenon DEF NoEpoch, Epochs
<1>2. <<>> \in Todos
  BY TuplesAreTodos, Zenon
<1> QED BY <1>1, <1>2, SMTT(30) DEF Idle, Local, Kinds

\* The store has a length.
LEMMA LenInNat == ASSUME NEW s \in Seq(SUBSET Nat) PROVE Len(s) \in Nat
OBVIOUS

\* The positions of an operation after one more commit.
LEMMA Appended ==
    ASSUME NEW s \in Seq(SUBSET Nat), NEW S \in SUBSET Nat, NEW o, NEW u, u = Append(s, S)
    PROVE  {i \in 1 .. Len(u) : o \in u[i]}
             = {i \in 1 .. Len(s) : o \in s[i]} \cup (IF o \in S THEN {Len(s) + 1} ELSE {})
BY SMTT(30)

\* The calls that the actions make.
LEMMA Callees ==
    ASSUME NEW s \in Todos, journaled \in BOOLEAN
    PROVE  /\ <<>> \o s = s
           /\ Boundary \o s = BLock(journaled, s)
           /\ (Boundary \o <<"tick_mark">>) \o s = BLock(journaled, Then("tick_mark", s))
           /\ EvictQuiesced \o s = EClose(s)
           /\ Guarded(<<"publish">>) \o s = CEnter(s)
           /\ <<"publish">> \o s = CPub(s)
           /\ EndBatch \o s = BRelease(s)
           /\ (<<"commit_scope">> \o EndBatch) \o s = CScope(BRelease(s))
           /\ <<"observe">> \o s = Then("observe", s) /\ <<"take">> \o s = Then("take", s)
           /\ <<"drain">> \o s = Then("drain", s) /\ <<"evict">> \o s = Then("evict", s)
           /\ <<"enter", "begin", "leave", "stage_write">> \o s
                = Then("enter", Then("begin", Then("leave", Then("stage_write", s))))
           /\ <<"stage_write">> \o s = Then("stage_write", s)
<1>1. \A p \in Todos : Boundary \o p = BLock(journaled, p)
  <2> TAKE p \in Todos
  <2>a. \A a, b, c, d, e :
          <<a, b, c, d, e>> \o p = Then(a, Then(b, Then(c, Then(d, Then(e, p)))))
    BY Calls
  <2>b. \A a, b, c : <<a, b, c>> \o p = Then(a, Then(b, Then(c, p)))
    BY Calls
  <2>1. <<"lock", "close", "capture", "journal", "unlock">> \o p = JLock(p)
    BY <2>a DEF JLock, JClose, JCapture, JJournal, BUnlock
  <2>2. <<"lock", "flush", "unlock">> \o p = DLock(p)
    BY <2>b DEF DLock, DFlush, BUnlock
  <2> QED BY <2>1, <2>2 DEF Boundary, BLock
<1>2. Boundary \in Todos /\ <<"tick_mark">> \in Todos /\ <<"commit_scope">> \in Todos
      /\ EndBatch \in Todos
  BY AreLabels, TuplesAreTodos, Zenon DEF Boundary, EndBatch
<1>3. (Boundary \o <<"tick_mark">>) \o s = BLock(journaled, Then("tick_mark", s))
  <2>1. (Boundary \o <<"tick_mark">>) \o s = Boundary \o (<<"tick_mark">> \o s)
    BY <1>2, Joins DEF Todos
  <2>2. <<"tick_mark">> \o s \in Todos /\ <<"tick_mark">> \o s = Then("tick_mark", s)
    BY AreLabels, ThenIs DEF Then
  <2> QED BY <1>1, <2>1, <2>2, Zenon
<1>4. EvictQuiesced \o s = EClose(s)
  <2>1. \A a, b : <<a, b>> \o s = Then(a, Then(b, s))
    BY Calls
  <2> QED BY <2>1, Zenon DEF EvictQuiesced, EClose, EEvict
<1>5. Guarded(<<"publish">>) \o s = CEnter(s)
  <2> DEFINE e == <<"enter">>
             p == <<"publish">>
             l == <<"bump", "leave">>
  <2>1. e \in Todos /\ p \in Todos /\ l \in Todos
    BY AreLabels, TuplesAreTodos
  <2> USE <2>1
  <2>c. CBump(s) \in Todos
    BY FrameShapes DEF Shape
  <2>a. \A a, b : <<a, b>> \o s = Then(a, Then(b, s))
    BY Calls
  <2>2. l \o s = CBump(s)
    BY <2>a, Zenon DEF CBump, CLeave
  <2>3. Guarded(<<"publish">>) = (e \o p) \o l
    BY DEF Guarded
  <2>4. p \o CBump(s) = CPubIn(s) /\ e \o CPubIn(s) = CEnter(s)
    BY DEF CPubIn, CEnter, Then
  <2> HIDE DEF e, p, l
  <2>5. e \o p \in Todos
    BY Joins DEF Todos
  <2>6. ((e \o p) \o l) \o s = (e \o p) \o (l \o s)
    BY <2>5, Joins, SMTT(30) DEF Todos
  <2>7. (e \o p) \o CBump(s) = e \o (p \o CBump(s))
    BY <2>c, Joins, SMTT(30) DEF Todos
  <2> QED BY <2>2, <2>3, <2>4, <2>6, <2>7, Zenon
<1>6. EndBatch \o s = BRelease(s) /\ BRelease(s) \in Todos
  <2>a. \A a, b, c : <<a, b, c>> \o s = Then(a, Then(b, Then(c, s)))
    BY Calls
  <2>1. EndBatch \o s = BRelease(s)
    BY <2>a DEF EndBatch, BRelease, BBump, BPressure
  <2> QED BY <2>1, FrameShapes DEF Shape
<1>7. (<<"commit_scope">> \o EndBatch) \o s = CScope(BRelease(s))
  <2>1. (<<"commit_scope">> \o EndBatch) \o s = <<"commit_scope">> \o (EndBatch \o s)
    BY <1>2, Joins DEF Todos
  <2> QED BY <1>6, <2>1 DEF CScope, Then
<1>8. <<"enter", "begin", "leave", "stage_write">> \o s
        = Then("enter", Then("begin", Then("leave", Then("stage_write", s))))
  <2>a. \A a, b, c, d : <<a, b, c, d>> \o s = Then(a, Then(b, Then(c, Then(d, s))))
    BY Calls
  <2> QED BY <2>a
<1> QED BY <1>1, <1>3, <1>4, <1>5, <1>6, <1>7, <1>8, Call0, Zenon DEF Then, CPub

\* Every request starts with the program that the points describe.
LEMMA Programs ==
    ASSUME journaled \in BOOLEAN
    PROVE  /\ Program("mutate") = Then("observe", KMutate)
           /\ Program("finalize") = FEnter
           /\ Program("stage") = SCheck
           /\ Program("fsync") = Then("observe", KFsync(journaled))
           /\ Program("tick") = TLoad
<1>1. Program("mutate") = Then("observe", KMutate)
  <2>1. Program("mutate") = <<"observe", "enter", "begin", "eager_commit", "commit_scope">>
                              \o <<"release", "leave", "bump", "pressure", "reply">>
    BY DEF Program
  <2>a. \A a, b, c, d, e :
          <<a, b, c, d, e>> \o <<>> = Then(a, Then(b, Then(c, Then(d, Then(e, <<>>)))))
    BY Calls, TuplesAreTodos, Zenon
  <2>2. <<"release", "leave", "bump", "pressure", "reply">> \o <<>> = KScope
    BY <2>a DEF KScope, MLeave, CLeave, BBump, BPressure, KReply
  <2>3. <<"release", "leave", "bump", "pressure", "reply">> = KScope
    BY <2>2, AreLabels, TuplesAreTodos, Joins DEF Todos
  <2>4. KScope \in Todos
    BY AreLabels, <2>3, TuplesAreTodos, Zenon
  <2>5. \A a, b, c, d, e :
          <<a, b, c, d, e>> \o KScope = Then(a, Then(b, Then(c, Then(d, Then(e, KScope)))))
    BY <2>4, Calls
  <2>6. <<"observe", "enter", "begin", "eager_commit", "commit_scope">> \o KScope
          = Then("observe", KMutate)
    BY <2>5 DEF KMutate, MBegin, MEager, CScope
  <2> QED BY <2>1, <2>3, <2>6, Zenon
<1>2. Program("finalize") = FEnter
  <2>1. Program("finalize") = <<"enter", "eager_begin", "eager_commit", "bump", "leave">> \o <<"reply">>
    BY DEF Program, Guarded
  <2>2. KReply \in Todos
    BY NameShapes DEF Shape
  <2>3. <<"reply">> = KReply
    BY AreLabels, TuplesAreTodos, Joins DEF KReply, Then, Todos
  <2>4. \A a, b, c, d, e :
          <<a, b, c, d, e>> \o KReply = Then(a, Then(b, Then(c, Then(d, Then(e, KReply)))))
    BY <2>2, Calls
  <2>5. <<"enter", "eager_begin", "eager_commit", "bump", "leave">> \o KReply = FEnter
    BY <2>4 DEF FEnter, FBegin, FEager, CBump, CLeave
  <2> QED BY <2>1, <2>3, <2>5, Zenon
<1>3. \A a, b, c \in Labels : <<a, b, c>> = Then(a, Then(b, Then(c, <<>>)))
  <2> TAKE a \in Labels, b \in Labels, c \in Labels
  <2>a. \A x, y, z : <<x, y, z>> \o <<>> = Then(x, Then(y, Then(z, <<>>)))
    BY Calls, TuplesAreTodos, Zenon
  <2>1. <<a, b, c>> \o <<>> = Then(a, Then(b, Then(c, <<>>)))
    BY <2>a
  <2>2. <<a, b, c>> \in Todos
    BY TuplesAreTodos
  <2> QED BY <2>1, <2>2, Joins DEF Todos
<1>4. Program("stage") = SCheck
  BY AreLabels, <1>3 DEF Program, SCheck, KStage, KReply
<1>5. Program("tick") = TLoad
  BY AreLabels, <1>3 DEF Program, TLoad, TCheck, KReply
<1>6. Program("fsync") = Then("observe", KFsync(journaled))
  <2>1. Program("fsync")
          = (<<"observe", "begin">> \o Boundary) \o <<"release", "bump", "pressure", "reply">>
    BY DEF Program
  <2>a. \A a, b, c, d : <<a, b, c, d>> \o <<>> = Then(a, Then(b, Then(c, Then(d, <<>>))))
    BY Calls, TuplesAreTodos, Zenon
  <2>2. <<"release", "bump", "pressure", "reply">> \o <<>> = KSync
    BY <2>a DEF KSync, BRelease, BBump, BPressure, KReply
  <2>3. <<"release", "bump", "pressure", "reply">> \in Todos
    BY AreLabels DEF Todos
  <2> USE <2>3
  <2>4. <<"release", "bump", "pressure", "reply">> = KSync
    BY <2>2, Joins DEF Todos
  <2> USE <2>4
  <2>5. Boundary \in Todos /\ <<"observe", "begin">> \in Todos
    BY AreLabels, TuplesAreTodos, Zenon DEF Boundary
  <2>6. (<<"observe", "begin">> \o Boundary) \o KSync = <<"observe", "begin">> \o (Boundary \o KSync)
    BY <2>5, Joins DEF Todos
  <2>7. Boundary \o KSync = BLock(journaled, KSync) /\ BLock(journaled, KSync) \in Todos
    BY Callees, NameShapes, Zenon
  <2>8. <<"observe", "begin">> \o BLock(journaled, KSync) = Then("observe", KFsync(journaled))
    <3>1. \A a, b : <<a, b>> \o BLock(journaled, KSync) = Then(a, Then(b, BLock(journaled, KSync)))
      BY <2>7, Calls
    <3> QED BY <3>1, Zenon DEF KFsync
  <2> QED BY <2>1, <2>6, <2>7, <2>8, Zenon
<1> QED BY <1>1, <1>2, <1>4, <1>5, <1>6

\* Continuations are programs.
LEMMA ContTodos == Conts \subseteq Todos /\ BoundaryConts \subseteq Todos
BY NameShapes, ZenonT(30) DEF Conts, BoundaryConts, Shape

\* The shapes of the points of each part.
CommitForms(r) ==
    /\ Shape(CScope(r), "commit_scope", r) /\ Shape(CEnter(r), "enter", CPubIn(r))
    /\ Shape(CPub(r), "publish", r) /\ Shape(CPubIn(r), "publish", CBump(r))
    /\ Shape(CBump(r), "bump", CLeave(r)) /\ Shape(CLeave(r), "leave", r)

FlushForms(k) ==
    /\ k \in Todos
    /\ Shape(Then("observe", k), "observe", k) /\ Shape(Then("take", k), "take", k)
    /\ CommitForms(BRelease(k)) /\ Shape(BRelease(k), "release", BBump(k))
    /\ Shape(BBump(k), "bump", BPressure(k)) /\ Shape(BPressure(k), "pressure", k)

BoundForms(k) ==
    /\ k \in Todos
    /\ Shape(JLock(k), "lock", JClose(k)) /\ Shape(JClose(k), "close", JCapture(k))
    /\ Shape(JDrain(k), "drain", JCapture(k)) /\ Shape(JCapture(k), "capture", JJournal(k))
    /\ Shape(JJournal(k), "journal", BUnlock(k)) /\ Shape(JEvict(k), "evict", BUnlock(k))
    /\ Shape(DLock(k), "lock", DFlush(k)) /\ Shape(DFlush(k), "flush", BUnlock(k))
    /\ Shape(BUnlock(k), "unlock", k) /\ Shape(EClose(k), "close", EEvict(k))
    /\ Shape(EDrain(k), "drain", EEvict(k)) /\ Shape(EEvict(k), "evict_direct", k)

\* Those of the continuations.
ContForms ==
    /\ Shape(KReply, "reply", <<>>) /\ Shape(KMutate, "enter", MBegin)
    /\ Shape(KStage, "stage_lock", KReply)
    /\ Shape(KFsync(TRUE), "begin", JLock(KSync)) /\ Shape(KFsync(FALSE), "begin", DLock(KSync))
    /\ Shape(KSync, "release", BBump(KReply)) /\ Shape(KMark, "tick_mark", KReply)

MutForms ==
    /\ Shape(MBegin, "begin", MEager) /\ Shape(MEager, "eager_commit", CScope(KScope))
    /\ CommitForms(KScope)
    /\ Shape(KScope, "release", MLeave) /\ Shape(MLeave, "leave", BBump(KReply))

FinForms ==
    /\ Shape(FEnter, "enter", FBegin) /\ Shape(FBegin, "eager_begin", FEager)
    /\ Shape(FEager, "eager_commit", CBump(KReply))
    /\ Shape(CBump(KReply), "bump", CLeave(KReply)) /\ Shape(CLeave(KReply), "leave", KReply)

StageForms ==
    /\ Shape(SCheck, "stage_check", KStage) /\ Shape(SEnter, "enter", SBegin)
    /\ Shape(SBegin, "begin", SLeave) /\ Shape(SLeave, "leave", SWrite)
    /\ Shape(SWrite, "stage_write", KReply)

TickForms == Shape(TLoad, "tick_load", TCheck) /\ Shape(TCheck, "tick_check", KReply)

\* The points of every callee have the shapes above.
LEMMA Forms ==
    /\ \A k \in Conts : FlushForms(k)
    /\ \A k \in BoundaryConts : BoundForms(k)
    /\ ContForms /\ MutForms /\ FinForms /\ StageForms /\ TickForms
<1>1. ASSUME NEW r \in Todos PROVE CommitForms(r)
  BY FrameShapes DEF CommitForms
<1> USE <1>1
<1>2. ASSUME NEW k \in Conts PROVE FlushForms(k)
  <2>1. k \in Todos
    BY ContTodos
  <2>2. /\ Shape(BPressure(k), "pressure", k) /\ Shape(BBump(k), "bump", BPressure(k))
        /\ Shape(BRelease(k), "release", BBump(k))
        /\ Shape(Then("observe", k), "observe", k) /\ Shape(Then("take", k), "take", k)
    BY <2>1, FrameShapes
  <2>3. BRelease(k) \in Todos
    BY <2>2 DEF Shape
  <2> QED BY <2>1, <2>2, <2>3 DEF FlushForms
<1>3. ASSUME NEW k \in BoundaryConts PROVE BoundForms(k)
  <2>1. k \in Todos
    BY ContTodos
  <2> QED BY <2>1, FrameShapes DEF BoundForms
<1>4. ContForms
  BY NameShapes, Zenon DEF ContForms, BLock
<1>5. KScope \in Todos /\ KReply \in Todos
  BY NameShapes DEF Shape
<1>6. MutForms /\ StageForms /\ TickForms
  BY <1>5, NameShapes, Zenon DEF MutForms, StageForms, TickForms
<1>7. FinForms
  BY <1>5, NameShapes DEF FinForms, CommitForms
<1> QED BY <1>2, <1>3, <1>4, <1>6, <1>7

\* A thread that goes on with s is at none of the labels that the others look at.
Away(s) == s # <<>> /\ Head(s) \notin {"journal", "drain", "capture", "evict_direct"}

\* A label that the others do not look at.
LEMMA AwayThen ==
    \A l \in Labels \ {"journal", "drain", "capture", "evict_direct"}, s \in Todos : Away(Then(l, s))
BY ThenIs DEF Away

\* What a thread asserts at each label of each part, and where it goes on.
LEMMA FlushAt ==
    ASSUME NEW t \in Threads, NEW k \in Conts, Flushing(t, k)
    PROVE  /\ th[t].todo # <<>>
           /\ Head(th[t].todo) \in {"observe", "take", "commit_scope", "enter", "publish", "bump",
                                    "leave", "release", "pressure"}
           /\ At(t, "observe") =>
                /\ Free(t) /\ Tail(th[t].todo) = k
                /\ (Owed(t, k) /\ th[t].kind # "fsync") \/ Syncing(t, k)
           /\ At(t, "take") =>
                /\ Free(t) /\ Tail(th[t].todo) = k
                /\ Owed(t, k) \/ (Syncing(t, k) /\ th[t].need \subseteq acked)
           /\ At(t, "commit_scope") =>
                Pending(t, k) /\ th[t].depth = 0 /\ Tail(th[t].todo) = BRelease(k)
           /\ At(t, "enter") =>
                Pending(t, k) /\ th[t].depth = 0 /\ Tail(th[t].todo) = CPubIn(BRelease(k))
           /\ At(t, "publish") =>
                /\ Pending(t, k)
                /\ \/ th[t].depth = 0 /\ Tail(th[t].todo) = BRelease(k)
                   \/ th[t].depth = 1 /\ Tail(th[t].todo) = CBump(BRelease(k))
           /\ At(t, "bump") =>
                \/ Settled(t, k) /\ th[t].depth = 1 /\ Tail(th[t].todo) = CLeave(BRelease(k))
                \/ Free(t) /\ Owed(t, k) /\ Tail(th[t].todo) = BPressure(k)
           /\ At(t, "leave") => Settled(t, k) /\ th[t].depth = 1 /\ Tail(th[t].todo) = BRelease(k)
           /\ At(t, "release") => Settled(t, k) /\ th[t].depth = 0 /\ Tail(th[t].todo) = BBump(k)
           /\ At(t, "pressure") => Free(t) /\ Owed(t, k) /\ Tail(th[t].todo) = k
<1>1. FlushForms(k)
  BY Forms
<1> QED BY <1>1, Zenon DEF Flushing, FlushForms, CommitForms, Shape, At

\* A mutation, at each of its labels.
LEMMA MutateAt ==
    ASSUME NEW t \in Threads, Mutating(t)
    PROVE  /\ th[t].todo # <<>> /\ th[t].kind = "mutate" /\ th[t].batch = None /\ th[t].snap = None
           /\ Head(th[t].todo) \in {"begin", "eager_commit", "commit_scope", "enter", "publish",
                                    "bump", "leave", "release"}
           /\ At(t, "begin") => th[t].depth = 1 /\ Fresh(t) /\ Tail(th[t].todo) = MEager
           /\ At(t, "eager_commit") => th[t].depth = 1 /\ Fresh(t) /\ Tail(th[t].todo) = CScope(KScope)
           /\ At(t, "commit_scope") => th[t].depth = 1 /\ Loose(t) /\ Tail(th[t].todo) = KScope
           /\ At(t, "enter") => th[t].depth = 1 /\ Loose(t) /\ Tail(th[t].todo) = CPubIn(KScope)
           /\ At(t, "publish") =>
                /\ Loose(t)
                /\ \/ th[t].depth = 1 /\ Tail(th[t].todo) = KScope
                   \/ th[t].depth = 2 /\ Tail(th[t].todo) = CBump(KScope)
           /\ At(t, "bump") => th[t].depth = 2 /\ Answer(t) /\ Tail(th[t].todo) = CLeave(KScope)
           /\ At(t, "leave") =>
                /\ Answer(t)
                /\ \/ th[t].depth = 2 /\ Tail(th[t].todo) = KScope
                   \/ th[t].depth = 1 /\ Tail(th[t].todo) = BBump(KReply)
           /\ At(t, "release") => th[t].depth = 1 /\ Answer(t) /\ Tail(th[t].todo) = MLeave
<1>1. MutForms
  BY Forms
<1> QED BY <1>1, Zenon DEF Mutating, MutForms, CommitForms, Shape, At

\* A finalize, at each of its labels.
LEMMA FinalizeAt ==
    ASSUME NEW t \in Threads, Finalizing(t)
    PROVE  /\ th[t].todo # <<>> /\ th[t].kind = "finalize" /\ th[t].batch = None
           /\ Head(th[t].todo) \in {"enter", "eager_begin", "eager_commit", "bump", "leave"}
           /\ At(t, "enter") =>
                th[t].depth = 0 /\ th[t].snap = None /\ Fresh(t) /\ Tail(th[t].todo) = FBegin
           /\ At(t, "eager_begin") =>
                th[t].depth = 1 /\ th[t].snap = None /\ Fresh(t) /\ Tail(th[t].todo) = FEager
           /\ At(t, "eager_commit") => th[t].depth = 1 /\ Fresh(t) /\ Tail(th[t].todo) = CBump(KReply)
           /\ At(t, "bump") =>
                th[t].depth = 1 /\ th[t].snap = None /\ Answer(t) /\ Tail(th[t].todo) = CLeave(KReply)
           /\ At(t, "leave") =>
                th[t].depth = 1 /\ th[t].snap = None /\ Answer(t) /\ Tail(th[t].todo) = KReply
<1>1. FinForms
  BY Forms
<1> QED BY <1>1, Zenon DEF Finalizing, FinForms, Shape, At

\* A staged write, at each of its labels.
LEMMA StageAt ==
    ASSUME NEW t \in Threads, Staging(t)
    PROVE  /\ th[t].todo # <<>> /\ th[t].kind = "stage" /\ th[t].batch = None /\ th[t].snap = None
           /\ Fresh(t)
           /\ Head(th[t].todo) \in {"stage_check", "enter", "begin", "leave", "stage_write"}
           /\ At(t, "stage_check") => th[t].depth = 0 /\ Tail(th[t].todo) = KStage
           /\ At(t, "enter") => th[t].depth = 0 /\ Tail(th[t].todo) = SBegin
           /\ At(t, "begin") => th[t].depth = 1 /\ Tail(th[t].todo) = SLeave
           /\ At(t, "leave") => th[t].depth = 1 /\ Tail(th[t].todo) = SWrite
           /\ At(t, "stage_write") => th[t].depth = 0 /\ Tail(th[t].todo) = KReply
<1>1. StageForms
  BY Forms
<1> QED BY <1>1, Zenon DEF Staging, StageForms, Shape, At

\* The periodic commit before its boundary, at each of its labels.
LEMMA TickAt ==
    ASSUME NEW t \in Threads, Ticking(t)
    PROVE  /\ th[t].todo # <<>> /\ Head(th[t].todo) \in {"tick_load", "tick_check"}
           /\ th[t].kind = "tick" /\ Free(t)
           /\ At(t, "tick_load") => Tail(th[t].todo) = TCheck
           /\ At(t, "tick_check") => Tail(th[t].todo) = KReply
<1>1. TickForms
  BY Forms
<1> QED BY <1>1, Zenon DEF Ticking, TickForms, Shape, At

\* No continuation starts at a label the others look at.
LEMMA AwayConts == \A k \in BoundaryConts : Away(k)
BY Forms, Zenon DEF BoundaryConts, Conts, ContForms, Shape, Away

\* A boundary, at each of its labels.
LEMMA BoundAt ==
    ASSUME NEW t \in Threads, NEW k \in BoundaryConts, Bounding(t, k)
    PROVE  /\ th[t].todo # <<>> /\ Free(t)
           /\ Head(th[t].todo) \in {"lock", "close", "drain", "capture", "journal", "evict", "flush",
                                    "unlock", "evict_direct", "reply", "enter", "stage_lock",
                                    "begin", "release", "tick_mark"}
           /\ At(t, "lock") =>
                /\ DueOpen(t, k)
                /\ IF journaled THEN Tail(th[t].todo) = JClose(k) ELSE Tail(th[t].todo) = DFlush(k)
           /\ At(t, "close") \/ At(t, "drain") =>
                IF journaled THEN DueOpen(t, k) /\ Tail(th[t].todo) = JCapture(k)
                ELSE DueDurable(t, k) /\ Tail(th[t].todo) = EEvict(k)
           /\ At(t, "capture") =>
                journaled /\ DueOpen(t, k) /\ th[t].todo = JCapture(k) /\ Tail(th[t].todo) = JJournal(k)
           /\ At(t, "journal") => journaled /\ DueCap(t, k) /\ Tail(th[t].todo) = BUnlock(k)
           /\ At(t, "flush") => ~ journaled /\ DueOpen(t, k) /\ Tail(th[t].todo) = BUnlock(k)
           /\ At(t, "evict") =>
                journaled /\ th[t].cap <= durable /\ DueDurable(t, k) /\ Tail(th[t].todo) = BUnlock(k)
           /\ At(t, "unlock") =>
                (th[t].failed \/ th[t].cap <= durable) /\ DueEnd(t, k) /\ Tail(th[t].todo) = k
           /\ At(t, "evict_direct") => ~ journaled /\ DueDurable(t, k) /\ Tail(th[t].todo) = k
           /\ At(t, "reply") => Answer(t) /\ Tail(th[t].todo) = <<>>
           /\ At(t, "enter") => th[t].kind = "mutate" /\ Fresh(t) /\ Tail(th[t].todo) = MBegin
           /\ At(t, "stage_lock") => th[t].kind = "stage" /\ Fresh(t) /\ Tail(th[t].todo) = KReply
           /\ At(t, "begin") =>
                /\ th[t].kind = "fsync" /\ Stored(t)
                /\ IF journaled THEN Tail(th[t].todo) = JLock(KSync) ELSE Tail(th[t].todo) = DLock(KSync)
           /\ At(t, "release") =>
                /\ th[t].kind = "fsync" /\ (th[t].failed \/ Secured(t))
                /\ Tail(th[t].todo) = BBump(KReply)
           /\ At(t, "tick_mark") =>
                /\ th[t].kind = "tick" /\ (th[t].failed \/ th[t].seen.head <= durable)
                /\ Tail(th[t].todo) = KReply
<1>1. BoundForms(k) /\ ContForms
  BY Forms
<1> USE <1>1
<1>2. CASE th[t].todo # k
  BY <1>2, ZenonT(30) DEF Bounding, BoundForms, Shape, At
<1>3. CASE th[t].todo = k
  <2>1. Head(k) \in {"reply", "enter", "stage_lock", "begin", "release", "tick_mark"}
    BY Zenon DEF ContForms, Shape, BoundaryConts, Conts
  <2>2. DueEnd(t, k)
    BY <1>3, <2>1, Zenon DEF Bounding, BoundForms, Shape
  <2>3. KFsync(TRUE) # KFsync(FALSE)
    <3>1. BoundForms(KSync)
      BY Forms DEF BoundaryConts
    <3>2. Head(Tail(JLock(KSync))) = "close" /\ Head(Tail(DLock(KSync))) = "flush"
      BY <3>1, Zenon DEF BoundForms, Shape
    <3>3. Tail(KFsync(TRUE)) = JLock(KSync) /\ Tail(KFsync(FALSE)) = DLock(KSync)
      BY Zenon DEF ContForms, Shape
    <3> QED BY <3>2, <3>3, Zenon
  <2>4. /\ KReply \notin {KMutate, KStage, KFsync(TRUE), KFsync(FALSE), KSync, KMark}
        /\ KMutate \notin {KStage, KFsync(TRUE), KFsync(FALSE), KSync, KMark}
        /\ KStage \notin {KFsync(TRUE), KFsync(FALSE), KSync, KMark}
        /\ KFsync(TRUE) \notin {KSync, KMark} /\ KFsync(FALSE) \notin {KSync, KMark}
        /\ KSync # KMark
    BY Zenon DEF ContForms, Shape
  <2>5. /\ k = KReply => Answer(t)
        /\ k = KMutate => th[t].kind = "mutate" /\ Fresh(t)
        /\ k = KStage => th[t].kind = "stage" /\ Fresh(t)
        /\ k = KFsync(TRUE) => th[t].kind = "fsync" /\ Stored(t) /\ journaled
        /\ k = KFsync(FALSE) => th[t].kind = "fsync" /\ Stored(t) /\ ~ journaled
        /\ k = KSync => th[t].kind = "fsync" /\ (th[t].failed \/ Secured(t))
        /\ k = KMark => th[t].kind = "tick" /\ (th[t].failed \/ th[t].seen.head <= durable)
    BY <2>2, <2>3, <2>4, Zenon DEF DueEnd, DueOpen, DueDurable, Owed, Syncing
  <2>6. Free(t)
    BY Zenon DEF Bounding
  <2> QED BY <1>3, <2>1, <2>5, <2>6, ZenonT(30) DEF ContForms, Shape, At, BoundaryConts, Conts
<1> QED BY <1>2, <1>3, Zenon

\* The parts of a program that have each label.
LEMMA Parts ==
    ASSUME NEW t \in Threads, Point(t), th[t].todo # <<>>
    PROVE  \/ /\ \E k \in Conts : Flushing(t, k)
              /\ Head(th[t].todo) \in {"observe", "take", "commit_scope", "enter", "publish", "bump",
                                       "leave", "release", "pressure"}
           \/ /\ \E k \in BoundaryConts : Bounding(t, k)
              /\ Head(th[t].todo) \in {"lock", "close", "drain", "capture", "journal", "evict",
                                       "flush", "unlock", "evict_direct", "reply", "enter",
                                       "stage_lock", "begin", "release", "tick_mark"}
           \/ /\ Mutating(t)
              /\ Head(th[t].todo) \in {"begin", "eager_commit", "commit_scope", "enter", "publish",
                                       "bump", "leave", "release"}
           \/ /\ Finalizing(t)
              /\ Head(th[t].todo) \in {"enter", "eager_begin", "eager_commit", "bump", "leave"}
           \/ /\ Staging(t)
              /\ Head(th[t].todo) \in {"stage_check", "enter", "begin", "leave", "stage_write"}
           \/ Ticking(t) /\ Head(th[t].todo) \in {"tick_load", "tick_check"}
BY FlushAt, BoundAt, MutateAt, FinalizeAt, StageAt, TickAt, Zenon DEF Point

\* After most labels a thread is at none of those.
LEMMA Onward ==
    ASSUME NEW t \in Threads, Point(t), th[t].todo # <<>>,
           Head(th[t].todo) \notin {"close", "drain", "capture", "reply"}
    PROVE  Away(Tail(th[t].todo))
<1>f. /\ KReply \in Conts /\ KSync \in BoundaryConts
      /\ \A k \in Conts : FlushForms(k) /\ Away(k)
      /\ \A k \in BoundaryConts : BoundForms(k) /\ Away(k)
  BY Forms, AwayConts, Zenon DEF Conts, BoundaryConts
<1> USE <1>f
<1>k. /\ \A k \in Conts : /\ Away(k) /\ Away(BRelease(k)) /\ Away(CPubIn(BRelease(k)))
                          /\ Away(CBump(BRelease(k))) /\ Away(CLeave(BRelease(k)))
                          /\ Away(BBump(k)) /\ Away(BPressure(k))
  BY ZenonT(30) DEF FlushForms, CommitForms, Shape, Away
<1> USE <1>k
<1>b. \A k \in BoundaryConts : /\ Away(k) /\ Away(JClose(k)) /\ Away(DFlush(k)) /\ Away(BUnlock(k))
                               /\ Away(JLock(k)) /\ Away(DLock(k))
  BY ZenonT(30) DEF BoundForms, Shape, Away
<1>1. ASSUME NEW k \in Conts, Flushing(t, k) PROVE Away(Tail(th[t].todo))
  BY <1>1, FlushAt, Zenon DEF At
<1>2. ASSUME Mutating(t) PROVE Away(Tail(th[t].todo))
  <2>1. MutForms
    BY Forms, Zenon
  <2>2. /\ Away(MEager) /\ Away(CScope(KScope)) /\ Away(KScope) /\ Away(CPubIn(KScope))
        /\ Away(CBump(KScope)) /\ Away(CLeave(KScope)) /\ Away(MLeave)
    BY <2>1, Zenon DEF MutForms, CommitForms, Shape, Away
  <2> QED BY <1>2, <2>2, MutateAt, Zenon DEF At
<1>3. ASSUME Finalizing(t) PROVE Away(Tail(th[t].todo))
  <2>1. Away(FBegin) /\ Away(FEager) /\ Away(CBump(KReply)) /\ Away(CLeave(KReply))
    BY Forms DEF FinForms, Shape, Away
  <2> QED BY <1>3, <2>1, FinalizeAt, Zenon DEF At
<1>4. ASSUME Staging(t) PROVE Away(Tail(th[t].todo))
  <2>1. Away(KStage) /\ Away(SBegin) /\ Away(SLeave) /\ Away(SWrite)
    BY Forms, Zenon DEF StageForms, ContForms, Shape, Away
  <2> QED BY <1>4, <2>1, StageAt, Zenon DEF At
<1>5. ASSUME Ticking(t) PROVE Away(Tail(th[t].todo))
  <2>1. Away(TCheck)
    BY Forms DEF TickForms, Shape, Away
  <2> QED BY <1>5, <2>1, TickAt, Zenon DEF At
<1>6. ASSUME NEW k \in BoundaryConts, Bounding(t, k) PROVE Away(Tail(th[t].todo))
  <2>1. Away(MBegin)
    BY Forms DEF MutForms, Shape, Away
  <2> QED BY <1>6, <2>1, <1>b, BoundAt, Zenon DEF At
<1> QED BY <1>1, <1>2, <1>3, <1>4, <1>5, <1>6, Parts, Zenon

\* An idle thread holds nothing.
LEMMA Resting == ASSUME NEW t \in Threads, Point(t), th[t].todo = <<>> PROVE Free(t)
BY FlushAt, BoundAt, MutateAt, FinalizeAt, StageAt, TickAt, Zenon DEF Point

\* What every step does to what the threads rely on: operations do not vanish
\* from the store, and those that were acknowledged get no further commits.
Grows ==
    /\ journaled' = journaled /\ durable <= durable'
    /\ lost \subseteq lost' /\ acked \subseteq acked'
    /\ \A o \in Nat : Decided(o) => Decided(o)'
    /\ \A o \in Nat : Held(o) \/ Decided(o) => Held(o)' \/ Decided(o)'
    /\ \A o \in acked : CommitsOf(o) # {} => CommitsOf(o)' = CommitsOf(o)

\* Thread u keeps its request, unless it fails.
Same(u) ==
    /\ th'[u].kind = th[u].kind /\ th'[u].op = th[u].op
    /\ th'[u].need = th[u].need /\ (th[u].err => th'[u].err)

\* What u asserts still holds.
Carry(u) ==
    /\ Stored(u) => Stored(u)'
    /\ Secured(u) => Secured(u)'
    /\ Answer(u) => Answer(u)'
    /\ \A k : Syncing(u, k) => Syncing(u, k)'
    /\ \A k : Owed(u, k) => Owed(u, k)'
    /\ \A k : DueOpen(u, k) => DueOpen(u, k)'
    /\ th'[u].seen = th[u].seen => \A k : DueDurable(u, k) => DueDurable(u, k)'
    /\ th'[u].seen = th[u].seen /\ th'[u].cap = th[u].cap => \A k : DueCap(u, k) => DueCap(u, k)'

\* What a thread must have durable stays so while the store grows.
LEMMA Carried ==
    ASSUME Typed, Typed', Grows, NEW u \in Threads, Same(u), Fresh(u) => Fresh(u)'
    PROVE  Carry(u)
<1>t. /\ th[u] \in Local /\ th'[u] \in Local /\ durable \in Nat /\ durable' \in Nat
      /\ acked \in SUBSET Nat
  BY SMTT(30) DEF Typed
<1> USE <1>t
<1>n. th[u].need \subseteq Nat /\ th[u].op \in Nat /\ th[u].seen.head \in Nat
  BY DEF Local, Epochs
<1>1. Stored(u) => Stored(u)'
  BY Zenon DEF Stored, Same, Grows
<1> USE <1>1
<1>w. ASSUME NEW x \in Int, NEW y \in Int, x <= y, Stored(u), Within(u, x)
      PROVE  \A o \in th'[u].need \ lost' : \A i \in CommitsOf(o)' : i <= y
  <2> TAKE o \in th'[u].need \ lost'
  <2>1. o \in th[u].need \ lost /\ o \in acked /\ CommitsOf(o)' = CommitsOf(o)
    BY <1>w DEF Stored, Same, Grows
  <2>2. \A i \in CommitsOf(o) : i \in Int
    BY DEF CommitsOf
  <2> QED BY <1>w, <2>1, <2>2 DEF Within
<1>2. Secured(u) => Secured(u)'
  BY <1>w, SMTT(30) DEF Secured, Within, Grows
<1> USE <1>2
<1>3. th'[u].cap = th[u].cap /\ Captured(u) => Captured(u)'
  <2>1. th[u].cap \in Int
    BY SMTT(30) DEF Local
  <2> QED BY <2>1, <1>w DEF Captured, Within
<1>4. Answer(u) => Answer(u)'
  BY <1>n DEF Answer, Same, Grows
<1>5. \A k : Syncing(u, k) => Syncing(u, k)'
  BY Zenon DEF Syncing, Same, Grows
<1>6. \A k : Owed(u, k) => Owed(u, k)'
  BY <1>4, <1>5, Zenon DEF Owed, Same
<1> USE <1>6
<1>7. \A k : DueOpen(u, k) => DueOpen(u, k)'
  BY Zenon DEF DueOpen, Same
<1>8. th'[u].seen = th[u].seen => \A k : DueDurable(u, k) => DueDurable(u, k)'
  <2>1. th'[u].seen = th[u].seen /\ th[u].seen.head <= durable => th'[u].seen.head <= durable'
    BY <1>n, SMTT(30) DEF Grows
  <2> QED BY <2>1, Zenon DEF DueDurable, Same
<1>9. th'[u].seen = th[u].seen /\ th'[u].cap = th[u].cap => \A k : DueCap(u, k) => DueCap(u, k)'
  BY <1>3 DEF DueCap, Same
<1> QED BY <1>4, <1>5, <1>7, <1>8, <1>9, Zenon DEF Carry

\* A step of another thread leaves alone what u relies on.
Undisturbed(u) ==
    /\ th'[u] = th[u]
    /\ th[u].todo # <<>> /\ Fresh(u) => Fresh(u)'
    /\ th[u].depth >= 1 /\ Loose(u) => Loose(u)'
    /\ th[u].batch # None =>
         \A o \in th[u].batch.ops : CommitsOf(o) = {} => CommitsOf(o)' = {}

\* A thread that the step does not disturb stays at its point.
LEMMA Stable ==
    ASSUME Typed, Typed', Grows, NEW u \in Threads, Undisturbed(u), Point(u)
    PROVE  Point(u)'
<1>1. th'[u] = th[u]
  BY Zenon DEF Undisturbed
<1> USE <1>1
<1>2. CASE th[u].todo = <<>>
  <2>1. Free(u)
    BY <1>2, Resting, Zenon
  <2> QED BY <1>2, <2>1, Zenon DEF Point, Free
<1>3. CASE th[u].todo # <<>>
  <2> USE <1>3
  <2>1. Carry(u)
    BY Carried, Zenon DEF Undisturbed, Same
  <2> USE <2>1
  <2>2. Free(u) => Free(u)'
    BY Zenon DEF Free
  <2>3. ASSUME NEW k \in BoundaryConts, Bounding(u, k) PROVE Bounding(u, k)'
    <3>1. DueEnd(u, k) => DueEnd(u, k)'
      BY Zenon DEF DueEnd, Carry
    <3>2. th[u].cap <= durable => th'[u].cap <= durable'
      <4>1. th[u] \in Local /\ durable \in Nat /\ durable' \in Nat
        BY DEF Typed
      <4>2. th[u].cap \in Nat
        BY <4>1 DEF Local
      <4> QED BY <4>1, <4>2, SMTT(30) DEF Grows
    <3>3. journaled' = journaled
      BY SMTT(30) DEF Grows
    <3> QED BY <2>2, <2>3, <3>1, <3>2, <3>3, Zenon DEF Bounding, Carry
  <2>4. ASSUME NEW k \in Conts, Flushing(u, k) PROVE Flushing(u, k)'
    <3>1. Owed(u, k) => Owed(u, k)'
      BY Zenon DEF Carry
    <3> USE <3>1
    <3>2. Syncing(u, k) => Syncing(u, k)'
      BY Zenon DEF Carry
    <3>3. th[u].need \subseteq acked => th'[u].need \subseteq acked'
      BY DEF Grows
    <3>b. th[u].batch # None => th[u].batch.ops \subseteq Nat
      BY Zenon DEF Typed, Local, Batches
    <3>4. Pending(u, k) => Pending(u, k)'
      <4>1. ASSUME NEW o \in th[u].need, Decided(o) PROVE Decided(o)'
        BY <4>1, Zenon DEF Grows, Typed, Local
      <4> QED BY <3>2, <3>3, <4>1, Zenon DEF Pending, Undisturbed
    <3>5. Settled(u, k) => Settled(u, k)'
      BY <3>b DEF Settled, Grows
    <3> QED BY <2>2, <2>4, <3>2, <3>3, <3>4, <3>5, Zenon DEF Flushing
  <2>5. Mutating(u) => Mutating(u)'
    <3>1. /\ Fresh(u) => Fresh(u)'
          /\ th[u].depth = 1 \/ th[u].depth = 2 => (Loose(u) => Loose(u)')
          /\ Answer(u) => Answer(u)'
      <4>1. th[u].depth = 1 \/ th[u].depth = 2 => th[u].depth >= 1
        OBVIOUS
      <4> QED BY <4>1, Zenon DEF Carry, Undisturbed
    <3> QED BY <3>1, Zenon DEF Mutating
  <2>6. Finalizing(u) => Finalizing(u)'
    BY Zenon DEF Finalizing, Carry, Undisturbed
  <2>7. Staging(u) => Staging(u)'
    BY Zenon DEF Staging, Undisturbed
  <2>8. Ticking(u) => Ticking(u)'
    BY <2>2, Zenon DEF Ticking
  <2> QED BY <2>3, <2>4, <2>5, <2>6, <2>7, <2>8, Zenon DEF Point
<1> QED BY <1>2, <1>3, Zenon

\* A step of t that changes no operation's whereabouts.  It may journal what t
\* has captured, and capture when nobody is in the gate.
Quiet(t) ==
    /\ UNCHANGED <<journaled, commits, slot, acked, requests>> /\ lost \subseteq lost'
    /\ \A u \in Threads \ {t} : th'[u] = th[u]
    /\ th'[t].op = th[t].op
    /\ \/ th'[t].batch = th[t].batch
       \/ th'[t].batch = None /\ \A o \in th[t].batch.ops : Decided(o)
    /\ th[t].todo # <<>> /\ th'[t].todo # <<>>
    /\ \/ durable' = durable
       \/ durable <= durable' /\ (journaled => At(t, "journal") /\ durable' = th[t].cap)
    /\ At(t, "journal")' =>
         \/ At(t, "journal") /\ th'[t].cap = th[t].cap
         \/ th'[t].cap = Len(commits) /\ \A u \in Threads : ~ (th[u].depth >= 1)

\* What t asserts of its batch still holds.
Batched(t) ==
    \A k : (Pending(t, k) => Pending(t, k)') /\ (Settled(t, k) => Settled(t, k)')

\* A step of t spares the other threads and the operations.
Spares(t) == (\A u \in Threads \ {t} : Point(u)') /\ Owners' /\ Cuts'

Harmless(t) ==
    /\ Grows /\ Spares(t)
    /\ \A u \in Threads : /\ Fresh(u) => Fresh(u)'
                          /\ th[u].depth >= 1 /\ Loose(u) => Loose(u)'

\* A step that leaves the store alone disturbs no other thread.
LEMMA QuietStep ==
    ASSUME IInv, Typed', NEW t \in Threads, Quiet(t)
    PROVE  /\ Harmless(t) /\ (Same(t) => Carry(t))
           /\ Same(t) /\ th'[t].snap = th[t].snap /\ th'[t].batch = th[t].batch => Batched(t)
<1>1. \A o : CommitsOf(o)' = CommitsOf(o)
  BY Zenon DEF Quiet, CommitsOf
<1>2. \A u \in Threads :
        /\ th'[u].op = th[u].op
        /\ \/ th'[u].batch = th[u].batch
           \/ th'[u].batch = None /\ \A o \in th[u].batch.ops : Decided(o)
  BY Zenon DEF Quiet
<1>4. \A o : Decided(o) => Decided(o)'
  BY <1>1, Zenon DEF Quiet, Decided
<1>3. /\ \A o : Held(o)' => Held(o)
      /\ \A o : Held(o) => Held(o)' \/ Decided(o)
  BY <1>2, Zenon DEF Quiet, Held
<1>5. Grows
  <2>1. durable <= durable'
    BY SMTT(30) DEF Quiet, IInv, Typed
  <2> QED BY <1>1, <1>3, <1>4, <2>1, Zenon DEF Quiet, Grows
<1>6. ASSUME NEW u \in Threads, At(u, "journal")'
      PROVE  \/ At(u, "journal") /\ th'[u].cap = th[u].cap
             \/ th'[u].cap = Len(commits) /\ \A v \in Threads : ~ (th[v].depth >= 1)
  BY <1>6, Zenon DEF Quiet, At
<1>7. ASSUME journaled, NEW v \in Threads, th[v].depth >= 1, NEW i, Above(i) PROVE Above(i)'
  <2> USE <1>7
  <2>1. \A u \in Threads : At(u, "journal")' => At(u, "journal") /\ th'[u].cap = th[u].cap
    BY <1>6, Zenon
  <2>2. i > durable'
    BY Zenon DEF Above, Quiet
  <2> QED BY <2>1, <2>2, Zenon DEF Above
<1>8. ASSUME NEW u \in Threads PROVE Fresh(u) => Fresh(u)'
  BY <1>1, <1>2, <1>3, Zenon DEF Fresh
<1>9. ASSUME NEW u \in Threads PROVE th[u].depth >= 1 /\ Loose(u) => Loose(u)'
  BY <1>1, <1>2, <1>3, <1>7, Zenon DEF Loose, Quiet
<1>10. ASSUME NEW u \in Threads \ {t} PROVE Point(u)'
  <2>1. th'[u] = th[u]
    BY Zenon DEF Quiet
  <2>2. Undisturbed(u)
    BY <1>1, <1>8, <1>9, <2>1, Zenon DEF Undisturbed
  <2> QED BY <1>5, <2>2, Stable, Zenon DEF IInv
<1>11. Owners'
  <2>1. Owners
    BY Zenon DEF IInv
  <2>2. \A u \in Threads : th'[u].todo # <<>> <=> th[u].todo # <<>>
    BY Zenon DEF Quiet
  <2> QED BY <1>1, <1>2, <1>3, <1>4, <2>1, <2>2, SMTT(30) DEF Owners, Quiet
<1>12. Cuts'
  <2> SUFFICES ASSUME journaled
               PROVE  Cut(durable)' /\ \A u \in Threads : At(u, "journal")' => Cut(th[u].cap)'
    BY DEF Cuts, Quiet
  <2>1. Cut(durable) /\ \A u \in Threads : At(u, "journal") => Cut(th[u].cap)
    BY Zenon DEF IInv, Cuts
  <2>2. \A x : Cut(x) => \A o \in 1 .. requests' :
          (\A i \in CommitsOf(o)' : i <= x) \/ (\A i \in CommitsOf(o)' : i > x)
    BY <1>1 DEF Cut, Quiet
  <2>3. Cut(Len(commits))
    BY SMTT(30) DEF Cut, CommitsOf
  <2>4. Cut(durable')
    BY <2>1, Zenon DEF Quiet
  <2>5. \A u \in Threads : At(u, "journal")' => Cut(th'[u].cap)
    BY <1>6, <2>1, <2>3, Zenon
  <2> QED BY <2>2, <2>4, <2>5, Zenon DEF Cut
<1>13. Same(t) => Carry(t)
  BY <1>5, <1>8, Carried DEF IInv
<1>14. Same(t) /\ th'[t].snap = th[t].snap /\ th'[t].batch = th[t].batch => Batched(t)
  <2> SUFFICES ASSUME Carry(t), Same(t), th'[t].snap = th[t].snap, th'[t].batch = th[t].batch
               PROVE  Batched(t)
    BY <1>13, Zenon
  <2>1. \A k : Owed(t, k) => Owed(t, k)'
    BY Zenon DEF Carry
  <2>2. \A k : Syncing(t, k) => Syncing(t, k)'
    BY Zenon DEF Carry
  <2>3. acked' = acked
    BY DEF Quiet
  <2> QED BY <1>1, <1>4, <2>1, <2>2, <2>3, Zenon DEF Batched, Pending, Settled, Same
<1> QED BY <1>5, <1>8, <1>9, <1>10, <1>11, <1>12, <1>13, <1>14, Zenon DEF Harmless, Spares

\* The other threads stay where they are.
Others(t) == \A u \in Threads \ {t} : th'[u] = th[u]

\* Entries nest at most twice.
LEMMA Depths == ASSUME NEW t \in Threads, Point(t) PROVE th[t].depth \in 0 .. 2
<1> DEFINE D == th[t].depth \in {0, 1, 2}
<1>1. (th[t].depth = 0 \/ th[t].depth = 1 \/ th[t].depth = 2) => D
  OBVIOUS
<1> USE <1>1
<1> HIDE DEF D
<1>2. \A k : Flushing(t, k) => D
  BY Zenon DEF Flushing, Free
<1>3. \A k : Bounding(t, k) => D
  BY Zenon DEF Bounding, Free
<1>4. Mutating(t) \/ Finalizing(t) \/ Staging(t) \/ Ticking(t) => D
  BY Zenon DEF Mutating, Finalizing, Staging, Ticking, Free
<1>5. D
  BY <1>2, <1>3, <1>4, Zenon DEF Point, Free
<1> QED BY <1>5 DEF D

\* The greater of two numbers.
LEMMA MaxIs ==
    ASSUME NEW a \in Nat, NEW b \in Nat
    PROVE  Max({a, b}) \in {a, b} /\ Max({a, b}) >= a /\ Max({a, b}) >= b
<1> DEFINE S == {a, b}
<1>1. \E x \in S : \A y \in S : x >= y
  OBVIOUS
<1>2. Max(S) \in S /\ \A y \in S : Max(S) >= y
  <2> HIDE DEF S
  <2> QED BY <1>1, Zenon DEF Max
<1> QED BY <1>2

\* No eviction: snapshots are dropped or begin at the store's head.
LEMMA SnapshotsKept ==
    ASSUME IInv, Typed', NEW t \in Threads, Others(t),
           journaled' = journaled, slot' = slot, evicted' = evicted,
           th'[t].batch \in {th[t].batch, None}, th'[t].reg \in {th[t].reg, None, Len(commits)},
           th'[t].snap \in {th[t].snap, None, Len(commits)},
           \/ th'[t].cap \in {th[t].cap, 0} \/ ~ journaled
           \/ th'[t].snap = None /\ \A u \in Threads : th[u].snap = None
    PROVE  Snapshots'
<1>1. Snapshots /\ Typed
  BY Zenon DEF IInv
<1> USE <1>1
<1>2. evicted <= Len(commits)
  BY SMTT(30) DEF IInv, Typed, Numbers
<1>3. ASSUME NEW u \in Threads
      PROVE  /\ th'[u].snap # None => evicted <= th'[u].snap
             /\ th'[u].reg # None => evicted <= th'[u].reg
             /\ th'[u].batch # None /\ th'[u].batch.snap # None => evicted <= th'[u].batch.snap
  BY <1>2, Zenon DEF Snapshots, Others
<1>4. ASSUME journaled, NEW u \in Threads, NEW v \in Threads, th'[u].snap # None
      PROVE  th'[v].cap <= th'[u].snap
  <2> USE <1>4
  <2>0. th'[t].cap \in {th[t].cap, 0}
    BY Zenon DEF Others
  <2>1. th'[u].snap \in {th[u].snap, Len(commits)} /\ th'[v].cap \in {th[v].cap, 0}
    BY <2>0, Zenon DEF Others
  <2>2. th'[u] \in Local /\ th[v] \in Local /\ Len(commits) \in Nat
    BY SMTT(30) DEF Typed
  <2>3. th'[u].snap \in Nat /\ th[v].cap \in Nat
    BY <2>2, Zenon DEF Local
  <2>4. th[v].cap <= Len(commits)
    BY Zenon DEF IInv, Numbers
  <2>5. th[u].snap # None => th[v].cap <= th[u].snap
    BY Zenon DEF Snapshots
  <2> QED BY <2>1, <2>2, <2>3, <2>4, <2>5, SMTT(30)
<1> QED BY <1>3, <1>4, Zenon DEF Snapshots

\* The numbers after a step of t.
LEMMA NumbersStep ==
    ASSUME IInv, Typed', NEW t \in Threads, Others(t),
           Len(commits) <= Len(commits)', durable' <= Len(commits)',
           evicted' <= durable', cursor'.through <= durable', atBoundary' <= durable',
           mutationEpoch'.head <= Len(commits)', committedEpoch'.head <= durable',
           committedEpoch'.count <= mutationEpoch'.count,
           mutationEpoch.count <= mutationEpoch'.count,
           th'[t].cap <= Len(commits)', th'[t].seen.head <= Len(commits)',
           th'[t].seen.count <= mutationEpoch'.count
    PROVE  Numbers'
<1>1. Numbers /\ Typed
  BY Zenon DEF IInv
<1> USE <1>1
<1>2. ASSUME NEW u \in Threads \ {t}
      PROVE  /\ th'[u].cap <= Len(commits)' /\ th'[u].seen.head <= Len(commits)'
             /\ th'[u].seen.count <= mutationEpoch'.count
  <2>1. th[u].cap \in Nat /\ th[u].seen.head \in Nat /\ th[u].seen.count \in Nat
    BY Zenon DEF Typed, Local, Epochs
  <2>2. /\ Len(commits) \in Nat /\ Len(commits)' \in Nat
        /\ mutationEpoch.count \in Nat /\ mutationEpoch'.count \in Nat
    <3>1. commits \in Seq(SUBSET Nat) /\ commits' \in Seq(SUBSET Nat)
      BY Zenon DEF Typed
    <3>2. mutationEpoch \in Epochs /\ mutationEpoch' \in Epochs
      BY Zenon DEF Typed
    <3> QED BY <3>1, <3>2, SMTT(30) DEF Epochs
  <2>3. th'[u] = th[u]
    BY Zenon DEF Others
  <2>4. th[u].cap <= Len(commits) /\ th[u].seen.head <= Len(commits) /\ th[u].seen.count <= mutationEpoch.count
    BY Zenon DEF Numbers
  <2> QED BY <2>1, <2>2, <2>3, <2>4
<1> QED BY <1>2, Zenon DEF Numbers

\* The numbers keep their order when the store does not change.
LEMMA NumbersKept ==
    ASSUME IInv, Typed', NEW t \in Threads, Others(t),
           UNCHANGED <<commits, durable, evicted, atBoundary, epoch>>,
           cursor'.through = cursor.through, th'[t].cap \in {th[t].cap, 0, Len(commits)},
           th'[t].seen = th[t].seen
    PROVE  Numbers'
<1>1. Numbers /\ Typed
  BY Zenon DEF IInv
<1> USE <1>1
<1>2. Len(commits) \in Nat /\ mutationEpoch.count \in Nat
  BY SMTT(30) DEF Typed, Epochs
<1>3. th'[t].cap <= Len(commits)
  BY <1>2, SMTT(30) DEF Numbers
<1> QED BY <1>2, <1>3, NumbersStep, SMTT(30) DEF Numbers, epoch

\* No eviction; snapshots are dropped or begin at the store's head.
LEMMA Kept ==
    ASSUME IInv, Typed', NEW t \in Threads, Others(t),
           UNCHANGED <<journaled, commits, durable, evicted, atBoundary, epoch, slot>>,
           cursor'.through = cursor.through, th'[t].seen = th[t].seen,
           th'[t].batch \in {th[t].batch, None}, th'[t].reg \in {th[t].reg, None, Len(commits)},
           th'[t].snap \in {th[t].snap, None, Len(commits)}, th'[t].cap \in {th[t].cap, 0}
    PROVE  Numbers' /\ Snapshots'
BY NumbersKept, SnapshotsKept, Zenon

\* What is left of a request after its label, with the callee's labels in front.
LEMMA CallTodo ==
    ASSUME Typed, NEW t \in Threads, th[t].todo # <<>>
    PROVE  Tail(th[t].todo) \in Todos /\ \A c \in Todos : c \o Tail(th[t].todo) \in Todos
<1>1. th[t].todo \in Seq(Labels)
  BY Zenon DEF Typed, Local, Todos
<1>2. Tail(th[t].todo) \in Seq(Labels)
  BY <1>1
<1> QED BY <1>2, Joins, Zenon DEF Todos

\* Thread t takes the record m.
LEMMA Takes ==
    ASSUME Typed, NEW t \in Threads, NEW m \in Local, th' = [th EXCEPT ![t] = m]
    PROVE  th' \in [Threads -> Local] /\ th'[t] = m /\ Others(t)
<1>1. th \in [Threads -> Local]
  BY Zenon DEF Typed
<1> QED BY <1>1, Zenon DEF Others

\* Thread t keeps its request; what it holds; what it has read.
Holds(t) ==
    /\ th'[t].depth = th[t].depth /\ th'[t].reg = th[t].reg
    /\ th'[t].snap = th[t].snap /\ th'[t].batch = th[t].batch
Reads(t) ==
    th'[t].cap = th[t].cap /\ th'[t].seen = th[t].seen /\ th'[t].failed = th[t].failed

\* Thread t is at none of the labels that the others look at.
Aside(t) == Away(th'[t].todo)

\* What a step of t at some label starts from.
Ready(t) ==
    /\ Typed /\ Point(t) /\ th[t] \in Local /\ th[t].todo # <<>>
    /\ Tail(th[t].todo) \in Todos /\ Len(commits) \in Nat

\* What a thread with work left may use at any label.
LEMMA IsReady == ASSUME IInv, NEW t \in Threads, th[t].todo # <<>> PROVE Ready(t)
<1>1. Typed /\ Point(t)
  BY DEF IInv
<1> QED BY <1>1, CallTodo, SMTT(30) DEF Ready, Typed

\* What a step of t does to the gate: the counters follow what t holds, t falls
\* asleep only where it may, and only when the gate is drained does t go on to
\* capture or to evict.
Counted(t) ==
    /\ Others(t)
    /\ \/ th'[t].depth = th[t].depth /\ inFlight' = inFlight
       \/ /\ th'[t].depth = th[t].depth + 1 /\ inFlight' = inFlight + 1
          /\ th[t].depth > 0 \/ ~ (closing > 0)
       \/ th'[t].depth = th[t].depth - 1 /\ inFlight' = inFlight - 1
    /\ \/ (Closed(t)' <=> Closed(t)) /\ closing' = closing
       \/ Closed(t)' /\ ~ Closed(t) /\ closing' = closing + 1
       \/ ~ Closed(t)' /\ Closed(t) /\ closing' = closing - 1
    /\ asleep' \subseteq asleep \cup {t}
    /\ t \in asleep' => At(t, "drain")' \/ (At(t, "enter")' /\ th'[t].depth = 0)
    /\ At(t, "capture")' \/ At(t, "evict_direct")' => inFlight' = 0

\* What a step of t has to do to preserve the invariant.
Moves(t) == Typed' /\ Counted(t) /\ Spares(t) /\ Numbers' /\ Snapshots' /\ Point(t)'

\* A step that leaves gate and cursor alone and looks at no other thread.
LEMMA Plain ==
    ASSUME IInv, Typed', NEW t \in Threads, Others(t), Aside(t), NEW l, At(t, l),
           l \notin {"enter", "drain", "capture", "evict_direct"},
           UNCHANGED <<journaled, gate, commits, durable, slot, acked, lost, requests>>,
           th'[t].op = th[t].op, th'[t].batch = th[t].batch, th'[t].depth = th[t].depth
    PROVE  /\ Counted(t) /\ Harmless(t) /\ (Same(t) => Carry(t))
           /\ Same(t) /\ th'[t].snap = th[t].snap => Batched(t)
<1>1. t \notin asleep
  BY Zenon DEF IInv, Gate, At
<1>2. ~ Closed(t) /\ ~ Closed(t)'
  BY Zenon DEF Closed, At, Aside, Away
<1>3. Counted(t)
  BY <1>1, <1>2, Zenon DEF gate, At, Aside, Away, Counted
<1>4. Quiet(t)
  BY Zenon DEF Quiet, Others, At, Aside, Away
<1> QED BY <1>3, <1>4, QuietStep, Zenon

\* A flush returns to its caller.
LEMMA Returned ==
    ASSUME NEW t \in Threads, NEW k \in Conts, th'[t].todo = k, Free(t)', Owed(t, k)'
    PROVE  Point(t)' /\ Aside(t)
<1>1. Bounding(t, k)'
  BY DEF Bounding, DueEnd, DueOpen, DueDurable
<1>2. Aside(t)
  BY AwayConts, Zenon DEF Aside, BoundaryConts
<1> QED BY <1>1, <1>2, Zenon DEF Point, BoundaryConts

\* So does a boundary.
LEMMA BoundaryReturned ==
    ASSUME NEW t \in Threads, NEW k \in BoundaryConts, th'[t].todo = k, Free(t)', DueEnd(t, k)'
    PROVE  Point(t)' /\ Aside(t)
<1>1. Bounding(t, k)'
  BY DEF Bounding
<1>2. Aside(t)
  BY AwayConts DEF Aside
<1> QED BY <1>1, <1>2, Zenon DEF Point

\* A thread with a private snapshot is in the gate; so is one that may commit
\* more of its operation.
LEMMA SnapInside == ASSUME NEW t \in Threads, Point(t), th[t].snap # None PROVE th[t].depth = 1
<1>1. \A k : Flushing(t, k) => th[t].snap = None
  BY Zenon DEF Flushing, Free, Pending, Settled
<1>2. \A k : Bounding(t, k) => th[t].snap = None
  BY Zenon DEF Bounding, Free
<1>3. Mutating(t) \/ Staging(t) \/ Ticking(t) => th[t].snap = None
  BY Zenon DEF Mutating, Staging, Ticking, Free
<1>4. Finalizing(t) => th[t].depth = 1
  BY Zenon DEF Finalizing
<1> QED BY <1>1, <1>2, <1>3, <1>4, Zenon DEF Point, Free

\* A thread inside the gate has work left.
LEMMA DeepRuns == ASSUME NEW t \in Threads, Point(t), th[t].depth >= 1 PROVE th[t].todo # <<>>
BY Resting, SMTT(30) DEF Free

\* A step that leaves the gate alone.
LEMMA Ungated ==
    ASSUME IInv, NEW t \in Threads, Others(t), Aside(t), NEW l, At(t, l),
           l \notin {"enter", "drain", "capture", "evict_direct"},
           UNCHANGED gate, th'[t].depth = th[t].depth
    PROVE  Counted(t)
<1>1. t \notin asleep
  BY DEF IInv, Gate, At
<1>2. ~ Closed(t) /\ ~ Closed(t)'
  BY Zenon DEF Closed, At, Aside, Away
<1> QED BY <1>1, <1>2, Zenon DEF gate, At, Aside, Away, Counted

\* The numbers keep their order when the store only grows.
LEMMA NumbersGrow ==
    ASSUME IInv, Typed', NEW t \in Threads, Others(t),
           Len(commits) <= Len(commits)', durable <= durable', durable' <= Len(commits)',
           UNCHANGED <<evicted, atBoundary, epoch, cursor>>,
           th'[t].cap \in {th[t].cap, 0, Len(commits)}, th'[t].seen \in {th[t].seen, NoEpoch}
    PROVE  Numbers'
<1>1. Numbers /\ Typed
  BY Zenon DEF IInv
<1> USE <1>1
<1>2. /\ Len(commits) \in Nat /\ Len(commits)' \in Nat /\ durable \in Nat /\ durable' \in Nat
      /\ evicted \in Nat /\ atBoundary \in Nat
  BY SMTT(30) DEF Typed
<1> USE <1>2
<1>3. /\ mutationEpoch.count \in Nat /\ mutationEpoch.head \in Nat /\ committedEpoch.count \in Nat
      /\ committedEpoch.head \in Nat /\ cursor.through \in Nat
  BY DEF Typed, Epochs
<1> USE <1>3
<1>4. /\ th[t].cap \in Nat /\ th[t].seen.head \in Nat /\ th[t].seen.count \in Nat
  BY Zenon DEF Typed, Local, Epochs
<1>7. /\ evicted <= durable /\ cursor.through <= durable /\ atBoundary <= durable
      /\ mutationEpoch.head <= Len(commits) /\ committedEpoch.head <= durable
      /\ committedEpoch.count <= mutationEpoch.count /\ th[t].cap <= Len(commits)
      /\ th[t].seen.head <= Len(commits) /\ th[t].seen.count <= mutationEpoch.count
  BY Zenon DEF Numbers
<1> USE <1>7
<1>5. /\ th'[t].cap <= Len(commits) /\ th'[t].cap \in Nat
      /\ th'[t].seen.head <= Len(commits) /\ th'[t].seen.count <= mutationEpoch.count
      /\ th'[t].seen.head \in Nat
  <2>1. th'[t].cap <= Len(commits) /\ th'[t].cap \in Nat
    BY <1>4, SMTT(30)
  <2>2. NoEpoch.head = 0 /\ NoEpoch.count = 0
    BY Zenon DEF NoEpoch
  <2> QED BY <1>4, <2>1, <2>2, SMTT(30)
<1>6. /\ evicted <= durable' /\ cursor.through <= durable' /\ atBoundary <= durable'
      /\ mutationEpoch.head <= Len(commits)' /\ committedEpoch.head <= durable'
      /\ th'[t].cap <= Len(commits)' /\ th'[t].seen.head <= Len(commits)'
  BY <1>5, SMTT(30)
<1> QED BY <1>5, <1>6, NumbersStep, SMTT(30) DEF epoch

\* The operations in S get a commit.  Nobody else owns them or holds them; those
\* that are acknowledged had none; and what they have is not covered.
Installs(t, S) ==
    /\ commits' = Append(commits, S) /\ S \subseteq 1 .. requests
    /\ \A o \in S : /\ slot # None => o \notin slot.ops
                    /\ \A u \in Threads \ {t} : th[u].batch # None => o \notin th[u].batch.ops
                    /\ \A u \in Threads \ {t} :
                         th[u].todo # <<>> /\ ~ Held(th[u].op) => o # th[u].op
                    /\ o \in acked => CommitsOf(o) = {}
                    /\ journaled => \A i \in CommitsOf(o) : Above(i)

\* A commit of operations that nobody else holds disturbs no other thread.
LEMMA AppendStep ==
    ASSUME IInv, Typed', NEW t \in Threads, NEW S \in SUBSET Nat, Installs(t, S), Others(t),
           UNCHANGED <<journaled, durable, slot, acked, lost, requests>>,
           th'[t].op = th[t].op, th'[t].batch = th[t].batch,
           th[t].todo # <<>>, th'[t].todo # <<>>, ~ At(t, "journal")'
    PROVE  /\ Spares(t) /\ Grows
           /\ \A o \in S : CommitsOf(o)' # {}
           /\ ~ Held(th[t].op) /\ th[t].op \in S => Loose(t)'
           /\ Fresh(t) /\ th[t].op \notin S => Fresh(t)'
<1>t. /\ Typed /\ commits \in Seq(SUBSET Nat) /\ Len(commits) \in Nat /\ durable \in Nat
  BY SMTT(30) DEF IInv, Typed
<1> USE <1>t
<1>n. Len(commits)' = Len(commits) + 1 /\ durable <= Len(commits)
      /\ \A u \in Threads : th[u].cap <= Len(commits) /\ th[u].cap \in Nat
  <2>1. \A u \in Threads : th[u].cap \in Nat
    BY Zenon DEF Typed, Local
  <2> QED BY <2>1, SMTT(30) DEF IInv, Numbers, Installs
<1> USE <1>n
<1>1. ASSUME NEW o PROVE CommitsOf(o)' = CommitsOf(o) \cup (IF o \in S THEN {Len(commits) + 1} ELSE {})
  <2>1. commits' = Append(commits, S)
    BY Zenon DEF Installs
  <2>2. CommitsOf(o)' = {i \in 1 .. Len(commits') : o \in commits'[i]}
    BY Zenon DEF CommitsOf
  <2>3. {i \in 1 .. Len(commits) : o \in commits[i]} = CommitsOf(o)
    BY Zenon DEF CommitsOf
  <2>4. {i \in 1 .. Len(commits') : o \in commits'[i]}
          = {i \in 1 .. Len(commits) : o \in commits[i]}
              \cup (IF o \in S THEN {Len(commits) + 1} ELSE {})
    BY <2>1, Appended, SMTT(30)
  <2> QED BY <2>2, <2>3, <2>4, Zenon
<1> USE <1>1
<1>o. \A u \in Threads : th'[u].op = th[u].op /\ th'[u].batch = th[u].batch
                         /\ (th'[u].todo # <<>> <=> th[u].todo # <<>>)
  BY Zenon DEF Others
<1> USE <1>o
<1>2. \A o : Held(o)' <=> Held(o)
  BY Zenon DEF Held
<1> USE <1>2
<1>3. \A o : Decided(o) => Decided(o)'
  BY Zenon DEF Decided
<1>4. Grows
  <2>1. \A o \in acked : CommitsOf(o) # {} => CommitsOf(o)' = CommitsOf(o)
    BY Zenon DEF Installs
  <2> QED BY <1>3, <2>1, SMTT(30) DEF Grows
<1>5. \A u \in Threads : At(u, "journal")' => At(u, "journal") /\ th'[u].cap = th[u].cap
  BY DEF Others, At
<1>6. \A i : Above(i) => Above(i)'
  BY <1>5, Zenon DEF Above
<1>7. Above(Len(commits) + 1)
  BY SMTT(30) DEF Above
<1>8. ASSUME NEW u \in Threads \ {t} PROVE Point(u)'
  <2>p. Point(u)
    BY Zenon DEF IInv
  <2>1. th'[u] = th[u]
    BY Zenon DEF Others
  <2> USE <2>1
  <2>2. th[u].todo # <<>> /\ ~ Held(th[u].op) => th[u].op \notin S
    BY Zenon DEF Installs
  <2>a. \A o : o \notin S => CommitsOf(o)' = CommitsOf(o)
    BY Zenon
  <2>3. th[u].todo # <<>> /\ Fresh(u) => Fresh(u)'
    BY <2>2, <2>a DEF Fresh
  <2>4. th[u].depth >= 1 /\ Loose(u) => Loose(u)'
    BY <1>6, <2>2, <2>a, <2>p, DeepRuns, Zenon DEF Loose
  <2>5. th[u].batch # None => \A o \in th[u].batch.ops : CommitsOf(o) = {} => CommitsOf(o)' = {}
    BY Zenon DEF Installs
  <2>6. Undisturbed(u)
    BY <2>3, <2>4, <2>5, Zenon DEF Undisturbed
  <2> QED BY <1>4, <2>6, <2>p, Stable, Zenon
<1>9. Owners'
  <2>1. Owners
    BY Zenon DEF IInv
  <2>2. \A i \in 1 .. Len(commits)' : commits'[i] \subseteq 1 .. requests
    <3>1. ASSUME NEW i \in 1 .. Len(commits)' PROVE commits'[i] \subseteq 1 .. requests
      <4>1. commits'[i] = IF i = Len(commits) + 1 THEN S ELSE commits[i]
        BY <3>1, SMTT(30) DEF Installs
      <4>2. i = Len(commits) + 1 \/ i \in 1 .. Len(commits)
        BY <3>1, SMTT(30)
      <4> QED BY <2>1, <4>1, <4>2, Zenon DEF Owners, Installs
    <3> QED BY <3>1, Zenon
  <2>3. slot # None => \A o \in slot.ops : CommitsOf(o) = {} => CommitsOf(o)' = {}
    BY Zenon DEF Installs
  <2> QED BY <1>3, <2>1, <2>2, <2>3, Zenon DEF Owners
<1>10. Cuts'
  <2> SUFFICES ASSUME journaled
               PROVE  Cut(durable)' /\ \A u \in Threads : At(u, "journal")' => Cut(th[u].cap)'
    BY DEF Cuts
  <2>1. ASSUME NEW x \in Nat, Cut(x), NEW o \in 1 .. requests, x <= Len(commits),
               \A i : Above(i) => i > x
        PROVE  (\A i \in CommitsOf(o)' : i <= x) \/ (\A i \in CommitsOf(o)' : i > x)
    <3>1. CASE o \notin S
      BY <2>1, <3>1 DEF Cut
    <3>2. CASE o \in S
      BY <1>7, <2>1, <3>2 DEF Installs
    <3> QED BY <3>1, <3>2
  <2>2. Cut(durable) /\ \A u \in Threads : At(u, "journal") => Cut(th[u].cap)
    BY Zenon DEF IInv, Cuts
  <2>3. \A i : Above(i) => i > durable /\ \A u \in Threads : At(u, "journal") => i > th[u].cap
    BY Zenon DEF Above
  <2>4. Cut(durable)'
    BY <2>1, <2>2, <2>3, Zenon DEF Cut
  <2>5. ASSUME NEW u \in Threads, At(u, "journal")' PROVE Cut(th[u].cap)'
    <3>1. At(u, "journal") /\ th'[u].cap = th[u].cap
      BY <1>5, <2>5, Zenon
    <3> QED BY <2>1, <2>2, <2>3, <3>1, Zenon DEF Cut
  <2> QED BY <2>4, <2>5
<1>11. \A o \in S : CommitsOf(o)' # {}
  BY Zenon
<1>12. ~ Held(th[t].op) /\ th[t].op \in S => Loose(t)'
  BY <1>6, <1>7, Zenon DEF Loose, Installs
<1>13. Fresh(t) /\ th[t].op \notin S => Fresh(t)'
  BY DEF Fresh
<1> QED BY <1>4, <1>8, <1>9, <1>10, <1>11, <1>12, <1>13, Zenon DEF Spares

\* Operations move between t, the slot and the batch that t holds.
LEMMA MoveStep ==
    ASSUME IInv, Typed', NEW t \in Threads, Others(t), Owners',
           UNCHANGED <<journaled, commits, durable>>, requests <= requests',
           acked \subseteq acked', lost \subseteq lost',
           \A o : Held(o)' => Held(o) \/ (o = th[t].op /\ th[t].todo # <<>>),
           \A o : Held(o) => Held(o)', ~ At(t, "journal")'
    PROVE  Spares(t) /\ Grows /\ \A o : CommitsOf(o)' = CommitsOf(o)
<1>t. Typed /\ durable \in Nat /\ Owners
  BY Zenon DEF IInv, Typed
<1> USE <1>t
<1>1. \A o : CommitsOf(o)' = CommitsOf(o)
  BY Zenon DEF CommitsOf
<1> USE <1>1
<1>2. \A o : Decided(o) => Decided(o)'
  BY Zenon DEF Decided
<1>3. Grows
  BY <1>2, SMTT(30) DEF Grows
<1>4. \A u \in Threads : At(u, "journal")' => At(u, "journal") /\ th'[u].cap = th[u].cap
  BY Zenon DEF Others, At
<1>5. \A i : Above(i) => Above(i)'
  BY <1>4, Zenon DEF Above
<1>6. ASSUME NEW u \in Threads \ {t} PROVE Point(u)'
  <2>p. Point(u)
    BY Zenon DEF IInv
  <2>1. th'[u] = th[u]
    BY Zenon DEF Others
  <2> USE <2>1
  <2>2. th[u].todo # <<>> /\ ~ Held(th[u].op) => ~ Held(th[u].op)'
    BY Zenon DEF Owners
  <2>3. th[u].todo # <<>> /\ Fresh(u) => Fresh(u)'
    BY <2>2, Zenon DEF Fresh
  <2>4. th[u].depth >= 1 /\ Loose(u) => Loose(u)'
    BY <1>5, <2>2, <2>p, DeepRuns, Zenon DEF Loose
  <2>5. Undisturbed(u)
    BY <2>3, <2>4, Zenon DEF Undisturbed
  <2> QED BY <1>3, <2>5, <2>p, Stable, Zenon
<1>7. Cuts'
  <2> SUFFICES ASSUME journaled
               PROVE  Cut(durable)' /\ \A u \in Threads : At(u, "journal")' => Cut(th[u].cap)'
    BY Zenon DEF Cuts
  <2>1. Cut(durable) /\ \A u \in Threads : At(u, "journal") => Cut(th[u].cap)
    BY Zenon DEF IInv, Cuts
  <2>2. ASSUME NEW x, Cut(x), NEW o \in 1 .. requests'
        PROVE  (\A i \in CommitsOf(o)' : i <= x) \/ (\A i \in CommitsOf(o)' : i > x)
    <3>1. CASE o \in 1 .. requests
      BY <2>2, <3>1, Zenon DEF Cut
    <3>2. CASE o \notin 1 .. requests
      BY <3>2, Zenon DEF Owners, CommitsOf
    <3> QED BY <3>1, <3>2, Zenon
  <2> QED BY <1>4, <2>1, <2>2, Zenon DEF Cut
<1> QED BY <1>3, <1>6, <1>7, Zenon DEF Spares

-----------------------------------------------------------------------------
(* Mutations: begin_mutation_commit_scope and the request and batch scopes. *)

\* begin_request_scope registers a snapshot, which is not older than any
\* eviction.
LEMMA BeginStep ==
    ASSUME IInv, NEW t \in Threads, Begin(t)
    PROVE  Moves(t)
<1>1. Ready(t) /\ At(t, "begin")
  BY IsReady DEF Begin, At
<1> USE <1>1
<1> DEFINE m == [[th[t] EXCEPT !.reg = Len(commits)] EXCEPT !.todo = Tail(th[t].todo)]
<1>2. th' = [th EXCEPT ![t] = m]
  BY Call0, Zenon DEF Begin, Call, Done, Ready
<1>3. m \in Local
  BY Zenon DEF Local, Ready
<1>4. th' \in [Threads -> Local] /\ th'[t] = m /\ Others(t)
  <2> HIDE DEF m
  <2> QED BY <1>2, <1>3, Takes, Zenon DEF Ready
<1>5. /\ th'[t].todo = Tail(th[t].todo) /\ th'[t].reg = Len(commits) /\ th'[t].depth = th[t].depth
      /\ th'[t].snap = th[t].snap /\ th'[t].batch = th[t].batch /\ Reads(t) /\ Same(t) /\ Others(t)
  BY <1>3, <1>4 DEF Local, Same, Holds, Reads, Ready
<1> USE <1>5
<1> HIDE DEF m
<1>6. Typed'
  BY <1>4 DEF Ready, Typed, Begin, gate, store, epoch, writeback, bounds
<1> USE <1>6
<1>7. Aside(t)
  BY Onward, Zenon DEF Aside, Ready, At
<1>8. /\ Counted(t) /\ Harmless(t) /\ (Same(t) => Carry(t))
      /\ Same(t) /\ th'[t].snap = th[t].snap => Batched(t)
  BY <1>7, Plain, Zenon DEF Begin, store, writeback, bounds, Same, Holds
<1> USE <1>8
<1>9. Numbers' /\ Snapshots'
  BY Kept, Zenon DEF Begin, store, writeback, Holds, Reads
<1>10. Point(t)'
  <2>1. ASSUME NEW k \in BoundaryConts, Bounding(t, k) PROVE Point(t)'
    <3>1. /\ th[t].kind = "fsync" /\ Stored(t) /\ Free(t)
          /\ IF journaled THEN Tail(th[t].todo) = JLock(KSync) ELSE Tail(th[t].todo) = DLock(KSync)
      BY <2>1, BoundAt, Zenon
    <3>2. Bounding(t, KSync)'
      BY <3>1, Zenon DEF Bounding, DueOpen, Free, Carry, Same, Harmless, Grows
    <3> QED BY <3>2, Zenon DEF Point, Conts, BoundaryConts
  <2>2. ASSUME Mutating(t) PROVE Point(t)'
    <3>1. th[t].kind = "mutate" /\ th[t].batch = None /\ th[t].snap = None /\ th[t].depth = 1
          /\ Fresh(t) /\ Tail(th[t].todo) = MEager
      BY <2>2, MutateAt, Zenon
    <3>2. Mutating(t)'
      BY <3>1, Zenon DEF Mutating, Same, Harmless
    <3> QED BY <3>2 DEF Point
  <2>3. ASSUME Staging(t) PROVE Point(t)'
    <3>1. th[t].kind = "stage" /\ th[t].batch = None /\ th[t].snap = None /\ Fresh(t)
          /\ th[t].depth = 1 /\ Tail(th[t].todo) = SLeave
      BY <2>3, StageAt, Zenon
    <3>2. Staging(t)'
      BY <3>1, Zenon DEF Staging, Same, Harmless
    <3> QED BY <3>2, Zenon DEF Point
  <2> QED BY <2>1, <2>2, <2>3, Parts, Zenon DEF Ready, At
<1> QED BY <1>9, <1>10, Zenon DEF Moves, Harmless

\* A finalize begins with a snapshot that nobody registers.
LEMMA EagerBeginStep ==
    ASSUME IInv, NEW t \in Threads, EagerBegin(t)
    PROVE  Moves(t)
<1>1. Ready(t) /\ At(t, "eager_begin")
  BY IsReady DEF EagerBegin, At
<1> USE <1>1
<1> DEFINE m == [[th[t] EXCEPT !.snap = Len(commits)] EXCEPT !.todo = Tail(th[t].todo)]
<1>2. th' = [th EXCEPT ![t] = m]
  BY Call0, Zenon DEF EagerBegin, Call, Done, Ready
<1>3. m \in Local
  BY Zenon DEF Local, Ready
<1>4. th' \in [Threads -> Local] /\ th'[t] = m /\ Others(t)
  <2> HIDE DEF m
  <2> QED BY <1>2, <1>3, Takes, Zenon DEF Ready
<1>5. /\ th'[t].todo = Tail(th[t].todo) /\ th'[t].snap = Len(commits) /\ th'[t].depth = th[t].depth
      /\ th'[t].reg = th[t].reg /\ th'[t].batch = th[t].batch /\ Reads(t) /\ Same(t) /\ Others(t)
  BY <1>3, <1>4 DEF Local, Same, Holds, Reads, Ready
<1> USE <1>5
<1> HIDE DEF m
<1>6. Typed'
  BY <1>4 DEF Ready, Typed, EagerBegin, gate, store, epoch, writeback, bounds
<1> USE <1>6
<1>7. Aside(t)
  BY Onward, Zenon DEF Aside, Ready, At
<1>8. /\ Counted(t) /\ Harmless(t) /\ (Same(t) => Carry(t))
      /\ Same(t) /\ th'[t].snap = th[t].snap => Batched(t)
  BY <1>7, Plain, Zenon DEF EagerBegin, store, writeback, bounds, Same, Holds
<1>9. Numbers' /\ Snapshots'
  BY Kept, Zenon DEF EagerBegin, store, writeback, Holds, Reads
<1>10. Point(t)'
  <2>1. ASSUME Finalizing(t) PROVE Point(t)'
    <3>1. th[t].kind = "finalize" /\ th[t].batch = None /\ th[t].depth = 1
          /\ Fresh(t) /\ Tail(th[t].todo) = FEager
      BY <2>1, FinalizeAt, Zenon
    <3>2. Finalizing(t)'
      BY <1>8, <3>1, Zenon DEF Finalizing, Same, Harmless
    <3> QED BY <3>2, Zenon DEF Point
  <2> QED BY <2>1, Parts, Zenon DEF Ready, At
<1> QED BY <1>8, <1>9, <1>10, Zenon DEF Moves, Harmless

\* The thread that commits its own operation is the only one that knows of it.
LEMMA Alone ==
    ASSUME IInv, NEW t \in Threads, th[t].todo # <<>>, Loose(t) \/ Fresh(t),
           commits' = Append(commits, {th[t].op})
    PROVE  Installs(t, {th[t].op})
<1>1. Owners
  BY Zenon DEF IInv
<1>2. ~ Held(th[t].op) /\ (journaled => \A i \in CommitsOf(th[t].op) : Above(i))
  BY Zenon DEF Loose, Fresh
<1>3. th[t].op \in 1 .. requests /\ th[t].op \notin acked
  BY <1>1, Zenon DEF Owners
<1>4. \A u \in Threads \ {t} : th[u].todo # <<>> => th[u].op # th[t].op
  BY <1>1, Zenon DEF Owners
<1> QED BY <1>2, <1>3, <1>4, Zenon DEF Installs, Held

\* The eager commit adds the operation of its own thread to the store.
LEMMA EagerCommitStep ==
    ASSUME IInv, NEW t \in Threads, EagerCommit(t)
    PROVE  Moves(t)
<1>1. Ready(t) /\ At(t, "eager_commit")
  BY IsReady, Zenon DEF EagerCommit, At
<1> USE <1>1
<1>f. Fresh(t) /\ th[t].op \in Nat
  BY Parts, MutateAt, FinalizeAt, Zenon DEF Ready, At, Local
<1> USE <1>f
<1>i. Installs(t, {th[t].op})
  BY Alone, Zenon DEF EagerCommit, Ready
<1>c. commits' \in Seq(SUBSET Nat)
  BY DEF EagerCommit, Ready, Typed
<1> DEFINE m == [th[t] EXCEPT !.snap = None, !.todo = Tail(th[t].todo)]
<1>2. th' = [th EXCEPT ![t] = m]
  BY Call0, Zenon DEF EagerCommit, Call, Done, Ready
<1>3. m \in Local
  BY Zenon DEF Local, Ready
<1>4. th' \in [Threads -> Local] /\ th'[t] = m /\ Others(t)
  <2> HIDE DEF m
  <2> QED BY <1>2, <1>3, Takes, Zenon DEF Ready
<1>5. /\ th'[t].todo = Tail(th[t].todo) /\ th'[t].snap = None /\ th'[t].depth = th[t].depth
      /\ th'[t].reg = th[t].reg /\ th'[t].batch = th[t].batch /\ Reads(t) /\ Same(t) /\ Others(t)
  BY <1>3, <1>4 DEF Local, Same, Holds, Reads, Ready
<1> USE <1>5
<1> HIDE DEF m
<1>6. Typed'
  BY <1>4, <1>c, Zenon DEF Ready, Typed, EagerCommit, gate, store, epoch, writeback, bounds
<1> USE <1>6
<1>7. Aside(t)
  BY Onward, Zenon DEF Aside, Ready, At
<1>8. /\ Counted(t) /\ Spares(t) /\ Loose(t)'
      /\ \A o : o = th[t].op => CommitsOf(o)' # {}
  <2>1. Counted(t)
    BY <1>7, Ungated, Zenon DEF EagerCommit
  <2>2. /\ UNCHANGED <<journaled, durable, slot, acked, lost, requests>>
        /\ th'[t].todo # <<>> /\ ~ At(t, "journal")'
    BY <1>7, Zenon DEF EagerCommit, writeback, bounds, Aside, Away, At
  <2>3. ~ Held(th[t].op) /\ {th[t].op} \in SUBSET Nat /\ th[t].todo # <<>>
    BY Zenon DEF Fresh, Ready
  <2> QED BY <1>i, <2>1, <2>2, <2>3, AppendStep, Zenon DEF Same
<1> USE <1>8
<1>9. Numbers' /\ Snapshots'
  <2>1. Numbers'
    <3>1. UNCHANGED <<durable, evicted, atBoundary, epoch, cursor>> /\ Len(commits)' = Len(commits) + 1
      BY SMTT(30) DEF EagerCommit, Ready, Typed
    <3>2. durable \in Nat /\ durable <= Len(commits)
      BY Zenon DEF IInv, Numbers, Ready, Typed
    <3>3. Len(commits) \in Nat
      BY LenInNat, Zenon DEF Ready, Typed
    <3>4. /\ Len(commits) <= Len(commits)' /\ durable <= durable' /\ durable' <= Len(commits)'
      BY <3>1, <3>2, <3>3, SMTT(30)
    <3> QED BY <3>1, <3>4, NumbersGrow, Zenon DEF Reads, Ready
  <2>2. Snapshots'
    BY SnapshotsKept, Zenon DEF EagerCommit, writeback, Reads, Holds
  <2> QED BY <2>1, <2>2
<1>10. Point(t)'
  <2>1. ASSUME Mutating(t) PROVE Point(t)'
    <3>1. /\ th[t].kind = "mutate" /\ th[t].batch = None /\ th[t].depth = 1
          /\ Tail(th[t].todo) = CScope(KScope)
      BY <2>1, MutateAt, Zenon
    <3>2. Mutating(t)'
      BY <3>1, Zenon DEF Mutating, Same
    <3> QED BY <3>2 DEF Point
  <2>2. ASSUME Finalizing(t) PROVE Point(t)'
    <3>1. /\ th[t].kind = "finalize" /\ th[t].batch = None /\ th[t].depth = 1
          /\ Tail(th[t].todo) = CBump(KReply)
      BY <2>2, FinalizeAt, Zenon
    <3>2. Answer(t)'
      BY <3>1, Zenon DEF Answer, Decided, Same
    <3>3. Finalizing(t)'
      BY <3>1, <3>2, Zenon DEF Finalizing, Same
    <3> QED BY <3>3 DEF Point
  <2> QED BY <2>1, <2>2, Parts, Zenon DEF Ready, At
<1> QED BY <1>9, <1>10, Zenon DEF Moves, Harmless

\* The eager commit fails and the request goes on with the error.
LEMMA EagerFailsStep ==
    ASSUME IInv, NEW t \in Threads, EagerFails(t)
    PROVE  Moves(t)
<1>1. Ready(t) /\ At(t, "eager_commit")
  BY IsReady DEF EagerFails, At
<1> USE <1>1
<1> DEFINE s == Aborted(Tail(th[t].todo))
<1>s. /\ s \in Todos /\ Away(s)
      /\ Mutating(t) => s = KScope
      /\ Finalizing(t) => s = CBump(KReply)
  <2>1. MutForms /\ FinForms
    BY Forms, Zenon
  <2>2. Mutating(t) => Tail(th[t].todo) = CScope(KScope)
    BY MutateAt, Zenon
  <2>3. Finalizing(t) => Tail(th[t].todo) = CBump(KReply)
    BY FinalizeAt, Zenon
  <2>4. Aborted(CScope(KScope)) = KScope /\ Aborted(CBump(KReply)) = CBump(KReply)
    BY <2>1, Zenon DEF MutForms, FinForms, CommitForms, Shape, Aborted
  <2>5. /\ KScope \in Todos /\ Away(KScope)
        /\ CBump(KReply) \in Todos /\ Away(CBump(KReply))
    BY <2>1, Zenon DEF MutForms, FinForms, Shape, Away
  <2>6. Mutating(t) \/ Finalizing(t)
    BY Parts, Zenon DEF Ready, At
  <2> QED BY <2>2, <2>3, <2>4, <2>5, <2>6, Zenon
<1> USE <1>s
<1> HIDE DEF s
<1> DEFINE m == [th[t] EXCEPT !.todo = s, !.snap = None, !.err = TRUE]
<1>2. th' = [th EXCEPT ![t] = m]
  BY DEF EagerFails, s
<1>3. m \in Local
  BY Zenon DEF Local, Ready
<1>4. th' \in [Threads -> Local] /\ th'[t] = m /\ Others(t)
  <2> HIDE DEF m
  <2> QED BY <1>2, <1>3, Takes, Zenon DEF Ready
<1>5. /\ th'[t].todo = s /\ th'[t].snap = None /\ th'[t].err /\ th'[t].depth = th[t].depth
      /\ th'[t].reg = th[t].reg /\ th'[t].batch = th[t].batch /\ Reads(t) /\ Same(t) /\ Others(t)
  BY <1>3, <1>4 DEF Local, Same, Holds, Reads, Ready
<1> USE <1>5
<1> HIDE DEF m
<1>6. Typed'
  BY <1>4, SMTT(30) DEF Ready, Typed, EagerFails, gate, store, epoch, writeback, bounds
<1> USE <1>6
<1>7. Aside(t)
  BY Zenon DEF Aside
<1>8. /\ Counted(t) /\ Harmless(t) /\ (Same(t) => Carry(t))
      /\ Same(t) /\ th'[t].snap = th[t].snap => Batched(t)
  BY <1>7, Plain, Zenon DEF EagerFails, store, writeback, bounds, Same, Holds
<1>9. Numbers' /\ Snapshots'
  BY Kept, Zenon DEF EagerFails, store, writeback, Holds, Reads
<1>10. Point(t)'
  <2>1. ASSUME Mutating(t) PROVE Point(t)'
    <3>1. th[t].kind = "mutate" /\ th[t].batch = None /\ th[t].snap = None /\ th[t].depth = 1 /\ s = KScope
      BY <2>1, MutateAt, Zenon
    <3>2. Mutating(t)'
      BY <3>1, Zenon DEF Mutating, Same, Answer
    <3> QED BY <3>2 DEF Point
  <2>2. ASSUME Finalizing(t) PROVE Point(t)'
    <3>1. th[t].kind = "finalize" /\ th[t].batch = None /\ th[t].depth = 1 /\ s = CBump(KReply)
      BY <2>2, FinalizeAt, Zenon
    <3>2. Finalizing(t)'
      BY <3>1, Zenon DEF Finalizing, Same, Answer
    <3> QED BY <3>2 DEF Point
  <2> QED BY <2>1, <2>2, Parts, Zenon DEF Ready, At
<1> QED BY <1>8, <1>9, <1>10, Zenon DEF Moves, Harmless

\* The scope's commit may enter the gate once more.
LEMMA CommitScopeStep ==
    ASSUME IInv, NEW t \in Threads, CommitScope(t)
    PROVE  Moves(t)
<1>1. Ready(t) /\ At(t, "commit_scope")
  BY IsReady, Zenon DEF CommitScope, At
<1> USE <1>1
<1>p. PICK c \in {CEnter(Tail(th[t].todo)), CPub(Tail(th[t].todo))} :
        /\ th' = [th EXCEPT ![t] = [th[t] EXCEPT !.todo = c]]
        /\ c \in Todos /\ Away(c)
  <2>1. \A a \in BOOLEAN : (IF a THEN Guarded(<<"publish">>) ELSE <<"publish">>) \o Tail(th[t].todo)
                           \in {CEnter(Tail(th[t].todo)), CPub(Tail(th[t].todo))}
    BY Callees, Zenon DEF Ready, Typed
  <2>2. /\ CEnter(Tail(th[t].todo)) \in Todos /\ Away(CEnter(Tail(th[t].todo)))
        /\ CPub(Tail(th[t].todo)) \in Todos /\ Away(CPub(Tail(th[t].todo)))
    BY FrameShapes, Zenon DEF Ready, Shape, Away
  <2> QED BY <2>1, <2>2, Zenon DEF CommitScope, Call
<1> USE <1>p
<1> DEFINE m == [th[t] EXCEPT !.todo = c]
<1>2. th' = [th EXCEPT ![t] = m]
  OBVIOUS
<1>3. m \in Local
  BY DEF Local, Ready
<1>4. th' \in [Threads -> Local] /\ th'[t] = m /\ Others(t)
  <2> HIDE DEF m
  <2> QED BY <1>2, <1>3, Takes, Zenon DEF Ready
<1>5. /\ th'[t].todo = c /\ Holds(t) /\ Reads(t) /\ Same(t) /\ Others(t)
  BY <1>3, <1>4, Zenon DEF Local, Same, Holds, Reads, Ready
<1> USE <1>5
<1> HIDE DEF m
<1>6. Typed'
  BY <1>4, Zenon DEF Ready, Typed, CommitScope, gate, store, epoch, writeback, bounds
<1> USE <1>6
<1>7. Aside(t)
  BY Zenon DEF Aside
<1>8. /\ Counted(t) /\ Harmless(t) /\ (Same(t) => Carry(t))
      /\ Same(t) /\ th'[t].snap = th[t].snap => Batched(t)
  BY <1>7, Plain, Zenon DEF CommitScope, store, writeback, bounds, Same, Holds
<1> USE <1>8
<1>9. Numbers' /\ Snapshots'
  BY Kept, Zenon DEF CommitScope, store, writeback, Holds, Reads
<1>l. th[t].depth = 1 /\ Loose(t) => Loose(t)'
  BY SMTT(30) DEF Harmless
<1>10. Point(t)'
  <2>1. ASSUME NEW k \in Conts, Flushing(t, k) PROVE Point(t)'
    <3>1. Pending(t, k) /\ th[t].depth = 0 /\ Tail(th[t].todo) = BRelease(k)
      BY <2>1, FlushAt, Zenon
    <3>2. Flushing(t, k)'
      BY <3>1, Zenon DEF Flushing, Holds, Batched
    <3> QED BY <3>2, Zenon DEF Point, Conts, BoundaryConts
  <2>2. ASSUME Mutating(t) PROVE Point(t)'
    <3>1. th[t].kind = "mutate" /\ th[t].batch = None /\ th[t].snap = None /\ th[t].depth = 1
          /\ Loose(t) /\ Tail(th[t].todo) = KScope
      BY <2>2, MutateAt, Zenon
    <3>2. Mutating(t)'
      BY <1>l, <3>1, Zenon DEF Mutating, Same, Holds, Harmless
    <3> QED BY <3>2, Zenon DEF Point
  <2> QED BY <2>1, <2>2, Parts, Zenon DEF Ready, At
<1> QED BY <1>9, <1>10, Zenon DEF Moves, Harmless

\* A scope or a batch enters the store as one commit.
LEMMA PublishStep ==
    ASSUME IInv, NEW t \in Threads, Publish(t)
    PROVE  Moves(t)
<1>1. Ready(t) /\ At(t, "publish")
  BY IsReady, Zenon DEF Publish, At
<1> USE <1>1
<1> DEFINE S == IF th[t].batch = None THEN {th[t].op} ELSE th[t].batch.ops
<1>f. S \in SUBSET Nat
  BY Zenon DEF Ready, Local, Batches
<1>i. Installs(t, S)
  <2>1. CASE th[t].batch = None
    <3>1. Loose(t)
      BY <2>1, Parts, MutateAt, FlushAt, Zenon DEF Ready, At, Pending
    <3> QED BY <2>1, <3>1, Alone, Zenon DEF Publish, Ready
  <2>2. CASE th[t].batch # None
    <3>1. \A o \in th[t].batch.ops : CommitsOf(o) = {} /\ Held(o)
      BY <2>2, Parts, MutateAt, FlushAt, Zenon DEF Ready, At, Pending, Held
    <3>2. Owners
      BY Zenon DEF IInv
    <3>3. /\ S = th[t].batch.ops /\ S \subseteq 1 .. requests
          /\ \A o \in S : slot # None => o \notin slot.ops
          /\ \A o \in S : \A u \in Threads \ {t} : th[u].batch # None => o \notin th[u].batch.ops
      BY <2>2, <3>2, Zenon DEF Owners
    <3>4. commits' = Append(commits, S)
      BY Zenon DEF Publish
    <3> HIDE DEF S
    <3> QED BY <3>1, <3>3, <3>4, Zenon DEF Installs
  <2> QED BY <2>1, <2>2, Zenon
<1>c. commits' \in Seq(SUBSET Nat)
  BY <1>f, SMTT(30) DEF Publish, Ready, Typed
<1> HIDE DEF S
<1> DEFINE m == [th[t] EXCEPT !.todo = Tail(th[t].todo)]
<1>2. th' = [th EXCEPT ![t] = m]
  BY Call0, Zenon DEF Publish, Call, Done, Ready
<1>3. m \in Local
  BY Zenon DEF Local, Ready
<1>4. th' \in [Threads -> Local] /\ th'[t] = m /\ Others(t)
  <2> HIDE DEF m
  <2> QED BY <1>2, <1>3, Takes, Zenon DEF Ready
<1>5. /\ th'[t].todo = Tail(th[t].todo) /\ Holds(t) /\ Reads(t) /\ Same(t) /\ Others(t)
  BY <1>3, <1>4, Zenon DEF Local, Same, Holds, Reads, Ready
<1> HIDE DEF m
<1>6. Typed'
  BY <1>4, <1>c, Zenon DEF Ready, Typed, Publish, gate, store, epoch, writeback, bounds
<1>7. Aside(t)
  BY <1>5, Onward, Zenon DEF Aside, Ready, At
<1>8. /\ Counted(t) /\ Spares(t) /\ Grows
      /\ \A o \in S : CommitsOf(o)' # {}
      /\ Fresh(t) /\ th[t].op \notin S => Fresh(t)'
  <2>1. Counted(t)
    BY <1>5, <1>7, Ungated, Zenon DEF Publish, Holds
  <2>2. /\ UNCHANGED <<journaled, durable, slot, acked, lost, requests>>
        /\ th'[t].todo # <<>> /\ ~ At(t, "journal")'
    BY <1>7, Zenon DEF Publish, writeback, bounds, Aside, Away, At
  <2> QED BY <1>f, <1>5, <1>6, <1>i, <2>1, <2>2, AppendStep, Zenon DEF Same, Holds, Ready
<1>9. Numbers' /\ Snapshots'
  <2>1. Numbers'
    <3>1. UNCHANGED <<durable, evicted, atBoundary, epoch, cursor>> /\ Len(commits)' = Len(commits) + 1
      BY SMTT(30) DEF Publish, Ready, Typed
    <3>2. durable \in Nat /\ durable <= Len(commits)
      BY Zenon DEF IInv, Numbers, Ready, Typed
    <3> QED BY <1>5, <1>6, <3>1, <3>2, NumbersGrow, SMTT(30) DEF Reads, Ready
  <2>2. Snapshots'
    BY <1>5, <1>6, SnapshotsKept, Zenon DEF Publish, writeback, Reads, Holds
  <2> QED BY <2>1, <2>2
<1>10. Point(t)'
  <2>1. ASSUME NEW k \in Conts, Flushing(t, k) PROVE Point(t)'
    <3>1. /\ Pending(t, k)
          /\ \/ th[t].depth = 0 /\ Tail(th[t].todo) = BRelease(k)
             \/ th[t].depth = 1 /\ Tail(th[t].todo) = CBump(BRelease(k))
      BY <2>1, FlushAt, Zenon
    <3> USE <3>1
    <3>2. /\ th[t].batch # None /\ th[t].snap = None /\ S = th[t].batch.ops
      BY Zenon DEF Pending, S
    <3> USE <3>2
    <3>3. \A o \in th'[t].batch.ops : Decided(o)'
      BY <1>5, <1>8, Zenon DEF Decided, Holds
    <3>4. Fresh(t) => Fresh(t)'
      BY <1>8, Zenon DEF Fresh, Held
    <3>5. Carry(t)
      BY <1>5, <1>6, <1>8, <3>4, Carried, Zenon DEF Ready
    <3>6. ASSUME Syncing(t, k), th[t].need \subseteq acked,
                 \A o \in th[t].need : Decided(o) \/ o \in th[t].batch.ops
          PROVE  Owed(t, k)'
      <4> USE <3>6
      <4>1. \A o \in th[t].need : Decided(o)'
        <5>1. th[t].need \subseteq Nat
          BY Zenon DEF Ready, Local
        <5> QED BY <1>5, <1>8, <3>3, <5>1, Zenon DEF Grows, Holds
      <4>2. Stored(t)'
        BY <1>5, <1>8, <4>1, Zenon DEF Stored, Decided, Same, Grows
      <4> QED BY <3>5, <4>2, Zenon DEF Owed, Carry
    <3>7. Owed(t, k)'
      BY <3>5, <3>6, Zenon DEF Pending, Carry
    <3>8. Settled(t, k)'
      BY <1>5, <3>3, <3>7, Zenon DEF Settled, Holds
    <3>9. Flushing(t, k)'
      BY <1>5, <3>8, Zenon DEF Flushing, Holds
    <3> QED BY <3>9 DEF Point
  <2>2. ASSUME Mutating(t) PROVE Point(t)'
    <3>1. /\ th[t].kind = "mutate" /\ th[t].batch = None /\ th[t].snap = None
          /\ \/ th[t].depth = 1 /\ Tail(th[t].todo) = KScope
             \/ th[t].depth = 2 /\ Tail(th[t].todo) = CBump(KScope)
      BY <2>2, MutateAt, Zenon
    <3>2. Answer(t)'
      BY <1>5, <1>8, <3>1, Zenon DEF Answer, Decided, Same, S
    <3>3. Mutating(t)'
      BY <1>5, <3>1, <3>2, Zenon DEF Mutating, Same, Holds
    <3> QED BY <3>3 DEF Point
  <2> QED BY <2>1, <2>2, Parts, Zenon DEF Ready, At
<1> QED BY <1>6, <1>8, <1>9, <1>10, Zenon DEF Moves, Harmless

\* A commit that fails: a batch is lost, a scope reports the error.
LEMMA PublishFailsStep ==
    ASSUME IInv, NEW t \in Threads, PublishFails(t)
    PROVE  Moves(t)
<1>1. Ready(t) /\ At(t, "publish")
  BY IsReady, Zenon DEF PublishFails, At
<1> USE <1>1
<1>p. PICK c \in Todos :
        /\ th' = [th EXCEPT ![t] = [th[t] EXCEPT !.err = TRUE, !.todo = c]] /\ Away(c)
        /\ th[t].batch = None => c = Tail(th[t].todo) /\ lost' = lost
        /\ th[t].batch # None =>
             /\ lost' = lost \cup th[t].batch.ops
             /\ c = IF th[t].depth > 0 THEN CBump(BRelease(KReply)) ELSE BRelease(KReply)
  <2>1. CASE th[t].batch = None
    <3>1. <<>> \o Tail(th[t].todo) = Tail(th[t].todo)
      BY Call0, Zenon DEF Ready
    <3>2. Tail(th[t].todo) \in Todos /\ Away(Tail(th[t].todo))
      BY Onward, Zenon DEF Ready, At
    <3> QED BY <2>1, <3>1, <3>2, Zenon DEF PublishFails, Call
  <2>2. CASE th[t].batch # None
    <3>1. KReply \in Todos /\ <<"reply">> = KReply
      <4>1. KReply \in Todos
        BY NameShapes, Zenon DEF Shape
      <4> QED BY <4>1, AreLabels, TuplesAreTodos, Joins, Zenon DEF KReply, Then, Todos
    <3> USE <3>1
    <3>2. EndBatch \in Todos /\ <<"bump", "leave">> \in Todos
      BY AreLabels, TuplesAreTodos, Zenon DEF EndBatch
    <3>3. EndBatch \o KReply = BRelease(KReply)
      BY Callees, Zenon DEF Ready, Typed
    <3>4. FlushForms(KReply)
      BY Forms DEF Conts
    <3>5. \A a, b : <<a, b>> \o BRelease(KReply) = Then(a, Then(b, BRelease(KReply)))
      BY <3>4, Calls, Zenon DEF FlushForms, Shape
    <3>6. (<<"bump", "leave">> \o EndBatch) \o KReply = CBump(BRelease(KReply))
      <4>1. (<<"bump", "leave">> \o EndBatch) \o KReply = <<"bump", "leave">> \o (EndBatch \o KReply)
        BY <3>2, Joins DEF Todos
      <4> QED BY <3>3, <3>5, <4>1, Zenon DEF CBump, CLeave
    <3>7. (<<>> \o EndBatch) \o KReply = BRelease(KReply)
      BY <3>2, <3>3, Call0
    <3>8. /\ BRelease(KReply) \in Todos /\ Away(BRelease(KReply))
          /\ CBump(BRelease(KReply)) \in Todos /\ Away(CBump(BRelease(KReply)))
      BY <3>4, Zenon DEF FlushForms, CommitForms, Shape, Away
    <3> DEFINE c == IF th[t].depth > 0 THEN CBump(BRelease(KReply)) ELSE BRelease(KReply)
    <3>9. (IF th[t].depth > 0 THEN <<"bump", "leave">> ELSE <<>>) \o EndBatch \o <<"reply">> = c
      BY <3>6, <3>7, Zenon
    <3>10. c \in Todos /\ Away(c)
      BY <3>8
    <3>11. th' = [th EXCEPT ![t] = [th[t] EXCEPT !.err = TRUE, !.todo = c]] /\ lost' = lost \cup th[t].batch.ops
      BY <2>2, <3>9, Zenon DEF PublishFails
    <3> QED BY <2>2, <3>10, <3>11, Zenon
  <2> QED BY <2>1, <2>2, Zenon
<1> USE <1>p
<1>l. lost \subseteq lost' /\ lost' \in SUBSET Nat
  BY Zenon DEF Ready, Typed, Local, Batches
<1> DEFINE m == [th[t] EXCEPT !.err = TRUE, !.todo = c]
<1>2. th' = [th EXCEPT ![t] = m]
  OBVIOUS
<1>3. m \in Local
  BY Zenon DEF Local, Ready
<1>4. th' \in [Threads -> Local] /\ th'[t] = m /\ Others(t)
  <2> HIDE DEF m
  <2> QED BY <1>2, <1>3, Takes, Zenon DEF Ready
<1>5. /\ th'[t].todo = c /\ th'[t].err /\ Holds(t) /\ Reads(t) /\ Same(t) /\ Others(t)
  BY <1>3, <1>4 DEF Local, Same, Holds, Reads, Ready
<1> USE <1>5
<1> HIDE DEF m
<1>6. Typed'
  BY <1>4, <1>l, SMTT(30) DEF Ready, Typed, PublishFails, gate, store, epoch, writeback, bounds
<1> USE <1>6
<1>7. Aside(t)
  BY Zenon DEF Aside
<1>8. /\ Counted(t) /\ Harmless(t) /\ (Same(t) => Carry(t))
      /\ Same(t) /\ th'[t].snap = th[t].snap => Batched(t)
  <2>1. Quiet(t)
    BY <1>l, <1>7, Zenon DEF Quiet, Others, PublishFails, store, writeback, bounds, At, Aside,
       Away, Same, Holds
  <2>2. Counted(t)
    BY <1>7, Ungated, Zenon DEF PublishFails, Holds
  <2> QED BY <2>1, <2>2, QuietStep, Zenon DEF Holds
<1>9. Numbers' /\ Snapshots'
  BY Kept, Zenon DEF PublishFails, store, writeback, Holds, Reads
<1>10. Point(t)'
  <2>1. ASSUME NEW k \in Conts, Flushing(t, k) PROVE Point(t)'
    <3>1. /\ Pending(t, k)
          /\ \/ th[t].depth = 0 /\ Tail(th[t].todo) = BRelease(k)
             \/ th[t].depth = 1 /\ Tail(th[t].todo) = CBump(BRelease(k))
      BY <2>1, FlushAt, Zenon
    <3>2. th[t].batch # None /\ th[t].snap = None
      BY <3>1, Zenon DEF Pending
    <3> USE <3>2
    <3>3. \A o \in th'[t].batch.ops : Decided(o)'
      BY Zenon DEF Decided, Holds
    <3>4. Settled(t, KReply)'
      BY <3>3, Zenon DEF Settled, Owed, Answer, Holds
    <3>5. Flushing(t, KReply)'
      BY <3>1, <3>4, SMTT(30) DEF Flushing, Holds
    <3> QED BY <3>5, Zenon DEF Point, Conts
  <2>2. ASSUME Mutating(t) PROVE Point(t)'
    <3>1. /\ th[t].kind = "mutate" /\ th[t].batch = None /\ th[t].snap = None
          /\ \/ th[t].depth = 1 /\ Tail(th[t].todo) = KScope
             \/ th[t].depth = 2 /\ Tail(th[t].todo) = CBump(KScope)
      BY <2>2, MutateAt, Zenon
    <3>2. Mutating(t)'
      BY <3>1, Zenon DEF Mutating, Answer, Same, Holds
    <3> QED BY <3>2, Zenon DEF Point
  <2> QED BY <2>1, <2>2, Parts, Zenon DEF Ready, At
<1> QED BY <1>8, <1>9, <1>10, Zenon DEF Moves, Harmless

\* The scope's snapshot is given back.
LEMMA ReleaseStep ==
    ASSUME IInv, NEW t \in Threads, Release(t)
    PROVE  Moves(t)
<1>1. Ready(t) /\ At(t, "release")
  BY IsReady, Zenon DEF Release, At
<1> USE <1>1
<1> DEFINE r == IF th[t].batch = None THEN None ELSE th[t].reg
           e == IF th[t].batch = None THEN th[t].err \/ (th[t].kind = "fsync" /\ th[t].failed)
                ELSE th[t].err
<1>r. /\ r \in Nat \cup {None} /\ e \in BOOLEAN /\ r \in {th[t].reg, None} /\ (th[t].err => e)
      /\ th[t].batch = None /\ th[t].kind = "fsync" /\ th[t].failed => e
  BY Zenon DEF Ready, Local
<1> USE <1>r
<1>b. th[t].batch # None => \A o \in th[t].batch.ops : Decided(o)
  <2>1. \A k \in Conts : Flushing(t, k) => \A o \in th[t].batch.ops : Decided(o)
    BY FlushAt, Zenon DEF Settled
  <2>2. \A k \in BoundaryConts : Bounding(t, k) => th[t].batch = None
    BY BoundAt, Zenon DEF Free
  <2>3. Mutating(t) => th[t].batch = None
    BY MutateAt, Zenon
  <2> QED BY <2>1, <2>2, <2>3, Parts, Zenon DEF Ready, At
<1> DEFINE m == [th[t] EXCEPT !.reg = r, !.err = e, !.batch = None, !.todo = Tail(th[t].todo)]
<1>2. th' = [th EXCEPT ![t] = m]
  <2>2. Call(t, <<>>, IF th[t].batch = None
                      THEN [th[t] EXCEPT !.reg = None,
                                         !.err = th[t].err \/ (th[t].kind = "fsync" /\ th[t].failed)]
                      ELSE [th[t] EXCEPT !.batch = None])
    BY DEF Release
  <2>3. m = [(IF th[t].batch = None
              THEN [th[t] EXCEPT !.reg = None,
                                 !.err = th[t].err \/ (th[t].kind = "fsync" /\ th[t].failed)]
              ELSE [th[t] EXCEPT !.batch = None]) EXCEPT !.todo = Tail(th[t].todo)]
    BY Zenon DEF Ready, Local
  <2>4. <<>> \o Tail(th[t].todo) = Tail(th[t].todo)
    BY Call0 DEF Ready
  <2> HIDE DEF m
  <2> QED BY <2>2, <2>3, <2>4, Zenon DEF Call
<1>3. m \in Local
  BY Zenon DEF Local, Ready
<1>4. th' \in [Threads -> Local] /\ th'[t] = m /\ Others(t)
  <2> HIDE DEF m
  <2> QED BY <1>2, <1>3, Takes, Zenon DEF Ready
<1>5. /\ th'[t].todo = Tail(th[t].todo) /\ th'[t].reg = r /\ th'[t].batch = None /\ th'[t].err = e
      /\ th'[t].depth = th[t].depth /\ th'[t].snap = th[t].snap /\ Reads(t) /\ Same(t) /\ Others(t)
  BY <1>3, <1>4, SMTT(30) DEF Local, Same, Holds, Reads, Ready
<1> USE <1>5
<1> HIDE DEF m, r, e
<1>6. Typed'
  BY <1>4 DEF Ready, Typed, Release, gate, store, epoch, writeback, bounds
<1> USE <1>6
<1>7. Aside(t)
  BY Onward, Zenon DEF Aside, Ready, At
<1> USE <1>7
<1>8. Counted(t) /\ Harmless(t) /\ (Same(t) => Carry(t))
  <2>1. Quiet(t)
    BY <1>b, Zenon DEF Quiet, Others, Release, store, writeback, bounds, At, Aside, Away, Same
  <2>2. t \notin asleep /\ ~ Closed(t) /\ ~ Closed(t)'
    BY Zenon DEF IInv, Gate, Closed, At, Aside, Away
  <2>3. Counted(t)
    BY <2>2, Zenon DEF Counted, Release, gate, At, Aside, Away
  <2> QED BY <2>1, <2>3, QuietStep, Zenon
<1> USE <1>8
<1>9. Numbers' /\ Snapshots'
  BY Kept, Zenon DEF Release, store, writeback, Holds, Reads
<1>10. Point(t)'
  <2>1. ASSUME NEW k \in Conts, Flushing(t, k) PROVE Point(t)'
    <3>1. Settled(t, k) /\ th[t].depth = 0 /\ Tail(th[t].todo) = BBump(k)
      BY <2>1, FlushAt, Zenon
    <3>2. Flushing(t, k)'
      BY <3>1, Zenon DEF Flushing, Settled, Free, Carry
    <3> QED BY <3>2 DEF Point
  <2>2. ASSUME NEW k \in BoundaryConts, Bounding(t, k) PROVE Point(t)'
    <3>1. /\ th[t].kind = "fsync" /\ (th[t].failed \/ Secured(t)) /\ Free(t)
          /\ Tail(th[t].todo) = BBump(KReply)
      BY <2>2, BoundAt, Zenon
    <3> USE <3>1
    <3>2. ~ e => ~ th[t].failed
      BY Zenon DEF Free
    <3>3. Answer(t)'
      BY <3>2, Zenon DEF Answer, Carry, Same
    <3>4. Flushing(t, KReply)'
      BY <3>3, Zenon DEF Flushing, Owed, Free
    <3> QED BY <3>4, Zenon DEF Point, Conts
  <2>3. ASSUME Mutating(t) PROVE Point(t)'
    <3>1. th[t].kind = "mutate" /\ th[t].batch = None /\ th[t].snap = None /\ th[t].depth = 1
          /\ Answer(t) /\ Tail(th[t].todo) = MLeave
      BY <2>3, MutateAt, Zenon
    <3>2. Mutating(t)'
      BY <3>1, Zenon DEF Mutating, Same, Carry
    <3> QED BY <3>2 DEF Point
  <2> QED BY <2>1, <2>2, <2>3, Parts, Zenon DEF Ready, At
<1> QED BY <1>9, <1>10, Zenon DEF Moves, Harmless

\* The mutation epoch grows after the commit it counts.
LEMMA BumpStep ==
    ASSUME IInv, NEW t \in Threads, Bump(t)
    PROVE  Moves(t)
<1>1. Ready(t) /\ At(t, "bump")
  BY IsReady, Zenon DEF Bump, At
<1> USE <1>1
<1>e. /\ Numbers /\ mutationEpoch' \in Epochs /\ mutationEpoch'.head = Len(commits)
      /\ mutationEpoch.count <= mutationEpoch'.count /\ committedEpoch.count <= mutationEpoch'.count
      /\ th[t].seen.count <= mutationEpoch'.count
  <2>1. Numbers
    BY Zenon DEF IInv
  <2>2. /\ committedEpoch.count \in Nat /\ mutationEpoch.count \in Nat /\ th[t].seen.count \in Nat
        /\ committedEpoch.count <= mutationEpoch.count /\ th[t].seen.count <= mutationEpoch.count
    BY <2>1, Zenon DEF Ready, Typed, Local, Epochs, Numbers
  <2> QED BY <2>1, <2>2, SMTT(30) DEF Bump, Epochs, Ready
<1> USE <1>e
<1> DEFINE m == [th[t] EXCEPT !.todo = Tail(th[t].todo)]
<1>2. th' = [th EXCEPT ![t] = m]
  BY Call0, Zenon DEF Bump, Call, Done, Ready
<1>3. m \in Local
  BY Zenon DEF Local, Ready
<1>4. th' \in [Threads -> Local] /\ th'[t] = m /\ Others(t)
  <2> HIDE DEF m
  <2> QED BY <1>2, <1>3, Takes, Zenon DEF Ready
<1>5. /\ th'[t].todo = Tail(th[t].todo) /\ Holds(t) /\ Reads(t) /\ Same(t) /\ Others(t)
  BY <1>3, <1>4 DEF Local, Same, Holds, Reads, Ready
<1> USE <1>5
<1> HIDE DEF m
<1>6. Typed'
  BY <1>4, Zenon DEF Ready, Typed, Bump, gate, store, epoch, writeback, bounds, Epochs
<1> USE <1>6
<1>7. Aside(t)
  BY Onward, Zenon DEF Aside, Ready, At
<1>8. /\ Counted(t) /\ Harmless(t) /\ (Same(t) => Carry(t))
      /\ Same(t) /\ th'[t].snap = th[t].snap => Batched(t)
  BY <1>7, Plain, Zenon DEF Bump, store, writeback, bounds, Same, Holds
<1> USE <1>8
<1>9. Numbers' /\ Snapshots'
  <2>f. /\ Len(commits) \in Nat /\ mutationEpoch.count \in Nat
        /\ evicted <= durable /\ durable <= Len(commits) /\ cursor.through <= durable
        /\ atBoundary <= durable /\ mutationEpoch.head <= Len(commits) /\ committedEpoch.head <= durable
        /\ committedEpoch.count <= mutationEpoch.count /\ th[t].cap <= Len(commits)
        /\ th[t].seen.head <= Len(commits) /\ th[t].seen.count <= mutationEpoch.count
    BY Zenon DEF Numbers, Ready, Typed, Epochs
  <2>g. UNCHANGED <<commits, durable, evicted, atBoundary, cursor, committedEpoch>>
    BY Zenon DEF Bump, store, epoch
  <2>n. Numbers'
    BY <2>f, <2>g, NumbersStep, SMTT(30) DEF Reads
  <2>s. Snapshots'
    BY SnapshotsKept, Zenon DEF Bump, store, writeback, Holds, Reads
  <2> QED BY <2>n, <2>s, Zenon
<1>10. Point(t)'
  <2>1. ASSUME NEW k \in Conts, Flushing(t, k) PROVE Point(t)'
    <3>1. \/ Settled(t, k) /\ th[t].depth = 1 /\ Tail(th[t].todo) = CLeave(BRelease(k))
          \/ Free(t) /\ Owed(t, k) /\ Tail(th[t].todo) = BPressure(k)
      BY <2>1, FlushAt, Zenon
    <3>2. Flushing(t, k)'
      BY <3>1, Zenon DEF Flushing, Free, Holds, Batched, Carry
    <3> QED BY <3>2, Zenon DEF Point
  <2>2. ASSUME Mutating(t) PROVE Point(t)'
    <3>1. th[t].kind = "mutate" /\ th[t].batch = None /\ th[t].snap = None /\ th[t].depth = 2
          /\ Answer(t) /\ Tail(th[t].todo) = CLeave(KScope)
      BY <2>2, MutateAt, Zenon
    <3>2. Mutating(t)'
      BY <3>1, Zenon DEF Mutating, Same, Holds, Carry
    <3> QED BY <3>2 DEF Point
  <2>3. ASSUME Finalizing(t) PROVE Point(t)'
    <3>1. th[t].kind = "finalize" /\ th[t].batch = None /\ th[t].depth = 1
          /\ th[t].snap = None /\ Answer(t) /\ Tail(th[t].todo) = CLeave(KReply)
      BY <2>3, FinalizeAt, Zenon
    <3>2. Finalizing(t)'
      BY <3>1, Zenon DEF Finalizing, Same, Holds, Carry
    <3> QED BY <3>2 DEF Point
  <2> QED BY <2>1, <2>2, <2>3, Parts, Zenon DEF Ready, At
<1> QED BY <1>9, <1>10, Zenon DEF Moves, Harmless

\* A pressure commit is a boundary or nothing.
LEMMA PressureStep ==
    ASSUME IInv, NEW t \in Threads, Pressure(t)
    PROVE  Moves(t)
<1>1. Ready(t) /\ At(t, "pressure")
  BY IsReady, Zenon DEF Pressure, At
<1> USE <1>1
<1>p. PICK c \in {JLock(Tail(th[t].todo)), Tail(th[t].todo)} :
        /\ th' = [th EXCEPT ![t] = [th[t] EXCEPT !.todo = c]]
        /\ c \in Todos /\ Away(c) /\ (journaled \/ c = Tail(th[t].todo))
  <2>1. /\ <<>> \o Tail(th[t].todo) = Tail(th[t].todo)
        /\ journaled => Boundary \o Tail(th[t].todo) = JLock(Tail(th[t].todo))
    BY Callees, Zenon DEF Ready, Typed, BLock
  <2>2. JLock(Tail(th[t].todo)) \in Todos /\ Away(JLock(Tail(th[t].todo)))
    BY FrameShapes, Zenon DEF Ready, Shape, Away
  <2>3. Tail(th[t].todo) \in Todos /\ Away(Tail(th[t].todo))
    BY Onward, Zenon DEF Ready, At
  <2> QED BY <2>1, <2>2, <2>3, Zenon DEF Pressure, Call
<1> USE <1>p
<1> DEFINE m == [th[t] EXCEPT !.todo = c]
<1>2. th' = [th EXCEPT ![t] = m]
  OBVIOUS
<1>3. m \in Local
  BY Zenon DEF Local, Ready
<1>4. th' \in [Threads -> Local] /\ th'[t] = m /\ Others(t)
  <2> HIDE DEF m
  <2> QED BY <1>2, <1>3, Takes, Zenon DEF Ready
<1>5. /\ th'[t].todo = c /\ Holds(t) /\ Reads(t) /\ Same(t) /\ Others(t)
  BY <1>3, <1>4, Zenon DEF Local, Same, Holds, Reads, Ready
<1> USE <1>5
<1> HIDE DEF m
<1>6. Typed'
  BY <1>4, Zenon DEF Ready, Typed, Pressure, gate, store, epoch, writeback, bounds
<1> USE <1>6
<1>7. Aside(t)
  BY Zenon DEF Aside
<1>8. /\ Counted(t) /\ Harmless(t) /\ (Same(t) => Carry(t))
      /\ Same(t) /\ th'[t].snap = th[t].snap => Batched(t)
  BY <1>7, Plain, Zenon DEF Pressure, store, writeback, bounds, Same, Holds
<1>9. Numbers' /\ Snapshots'
  BY Kept, Zenon DEF Pressure, store, writeback, Holds, Reads
<1>10. Point(t)'
  <2>1. ASSUME NEW k \in Conts, Flushing(t, k) PROVE Point(t)'
    <3>1. Free(t) /\ Owed(t, k) /\ Tail(th[t].todo) = k
      BY <2>1, FlushAt, Zenon
    <3>2. Bounding(t, k)'
      BY <1>8, <3>1, Zenon DEF Bounding, DueEnd, DueOpen, DueDurable, Free, Holds, Carry,
         Harmless, Grows
    <3> QED BY <3>2, Zenon DEF Point, BoundaryConts
  <2> QED BY <2>1, Parts, Zenon DEF Ready, At
<1> QED BY <1>8, <1>9, <1>10, Zenon DEF Moves, Harmless

-----------------------------------------------------------------------------
(* The writeback batch. *)

\* observe_writeback looks at the slot; an fsync notes what it has to cover.
LEMMA ObserveStep ==
    ASSUME IInv, NEW t \in Threads, Observe(t)
    PROVE  Moves(t)
<1>1. Ready(t) /\ At(t, "observe")
  BY IsReady, Zenon DEF Observe, At
<1> DEFINE n == IF th[t].kind = "fsync" THEN acked \ InTransit ELSE {}
<1>n. n \in SUBSET Nat
  BY <1>1, Zenon DEF Ready, Typed
<1>p. PICK c \in {Then("take", Tail(th[t].todo)), Tail(th[t].todo)} :
        /\ th' = [th EXCEPT ![t] = [th[t] EXCEPT !.need = n, !.todo = c]]
        /\ c \in Todos /\ Away(c)
        /\ c = Then("take", Tail(th[t].todo)) \/ (c = Tail(th[t].todo) /\ slot = None)
  <2>1. /\ <<>> \o Tail(th[t].todo) = Tail(th[t].todo)
        /\ <<"take">> \o Tail(th[t].todo) = Then("take", Tail(th[t].todo))
    BY <1>1, Callees, Zenon DEF Ready, Typed
  <2>2. Then("take", Tail(th[t].todo)) \in Todos /\ Away(Then("take", Tail(th[t].todo)))
    BY <1>1, FrameShapes, Zenon DEF Ready, Shape, Away
  <2>3. Tail(th[t].todo) \in Todos /\ Away(Tail(th[t].todo))
    BY <1>1, Onward DEF Ready, At
  <2> QED BY <2>1, <2>2, <2>3, Zenon DEF Observe, Call
<1> HIDE DEF n
<1> DEFINE m == [th[t] EXCEPT !.need = n, !.todo = c]
<1>2. th' = [th EXCEPT ![t] = m]
  BY <1>p
<1>3. m \in Local
  BY <1>1, <1>p, <1>n, Zenon DEF Local, Ready
<1>4. th' \in [Threads -> Local] /\ th'[t] = m /\ Others(t)
  <2> HIDE DEF m
  <2> QED BY <1>1, <1>2, <1>3, Takes, Zenon DEF Ready
<1>5. /\ th'[t].todo = c /\ Holds(t) /\ Reads(t) /\ th'[t].need = n /\ th'[t].kind = th[t].kind
      /\ th'[t].op = th[t].op /\ th'[t].err = th[t].err /\ Others(t)
  BY <1>1, <1>3, <1>4, <1>p DEF Local, Same, Holds, Reads, Ready
<1> USE <1>5
<1> HIDE DEF m
<1>6. Typed'
  BY <1>1, <1>4, Zenon DEF Ready, Typed, Observe, gate, store, epoch, writeback, bounds
<1>7. Aside(t)
  BY <1>p, Zenon DEF Aside
<1>8. /\ Counted(t) /\ Harmless(t) /\ (Same(t) => Carry(t))
      /\ Same(t) /\ th'[t].snap = th[t].snap => Batched(t)
  BY <1>1, <1>6, <1>7, Plain, Zenon DEF Observe, store, writeback, bounds, Same, Holds
<1>9. Numbers' /\ Snapshots'
  BY <1>6, Kept, Zenon DEF Observe, store, writeback, Holds, Reads
<1>10. Point(t)'
  <2>1. ASSUME NEW k \in Conts, Flushing(t, k) PROVE Point(t)'
    <3>1. /\ Free(t) /\ Tail(th[t].todo) = k
          /\ (Owed(t, k) /\ th[t].kind # "fsync") \/ Syncing(t, k)
      BY <1>1, <2>1, FlushAt, Zenon
    <3>2. /\ Free(t)' /\ th[t].op \in Nat
          /\ UNCHANGED <<journaled, commits, acked, lost>>
      BY <1>1, <3>1, Zenon DEF Ready, Local, Free, Holds, Observe, store
    <3> USE <3>2
    <3>3. Owed(t, k) /\ th[t].kind # "fsync" => Owed(t, k)'
      <4>1. Fresh(t) => Fresh(t)'
        BY <1>8, Zenon DEF Harmless
      <4>2. Answer(t) /\ th[t].kind # "fsync" => Answer(t)'
        BY <1>8, Zenon DEF Answer, Harmless, Grows
      <4> QED BY <4>1, <4>2, Zenon DEF Owed, Syncing
    <3>4. Syncing(t, k) => Syncing(t, k)' /\ th'[t].need \subseteq acked'
      BY Zenon DEF Syncing, n
    <3> USE <3>4
    <3>5. CASE c = Then("take", Tail(th[t].todo))
      <4>1. Flushing(t, k)'
        BY <3>1, <3>3, <3>5, Zenon DEF Flushing
      <4> QED BY <4>1, Zenon DEF Point
    <3>6. CASE c = Tail(th[t].todo) /\ slot = None
      <4>1. Syncing(t, k) => Stored(t)'
        <5> SUFFICES ASSUME Syncing(t, k), NEW o \in n \ lost PROVE CommitsOf(o) # {}
          BY Zenon DEF Stored, CommitsOf
        <5>1. o \in acked /\ o \notin InTransit
          BY Zenon DEF n, Syncing
        <5>2. ~ Held(o)
          BY <3>6, <5>1, Zenon DEF Held, InTransit
        <5> QED BY <5>1, <5>2, Zenon DEF IInv, Owners, Decided
      <4>2. Owed(t, k)'
        BY <3>1, <3>3, <4>1, Zenon DEF Owed
      <4> QED BY <3>1, <3>6, <4>2, Returned, Zenon
    <3> QED BY <1>p, <3>5, <3>6, Zenon
  <2> QED BY <1>1, <2>1, Parts, Zenon DEF Ready, At
<1> QED BY <1>6, <1>8, <1>9, <1>10, Zenon DEF Moves, Harmless

\* The batch leaves the slot; its operations change owner.
LEMMA TakeStep ==
    ASSUME IInv, NEW t \in Threads, Take(t)
    PROVE  Moves(t)
<1>1. Ready(t) /\ At(t, "take")
  BY IsReady DEF Take, At
<1> DEFINE n == th[t].need \ InTransit
<1>n. n \in SUBSET Nat
  BY <1>1, Zenon DEF Ready, Local
<1>p. PICK c \in Todos :
        /\ th' = [th EXCEPT ![t] = [th[t] EXCEPT !.batch = slot, !.need = n, !.todo = c]]
        /\ Away(c)
        /\ c = IF slot = None THEN Tail(th[t].todo) ELSE CScope(BRelease(Tail(th[t].todo)))
  <2>1. /\ <<>> \o Tail(th[t].todo) = Tail(th[t].todo)
        /\ (<<"commit_scope">> \o EndBatch) \o Tail(th[t].todo) = CScope(BRelease(Tail(th[t].todo)))
    BY <1>1, Callees, Zenon DEF Ready, Typed
  <2>2. /\ CScope(BRelease(Tail(th[t].todo))) \in Todos
        /\ Away(CScope(BRelease(Tail(th[t].todo))))
    <3>1. BRelease(Tail(th[t].todo)) \in Todos
      BY <1>1, FrameShapes, Zenon DEF Ready, Shape
    <3> QED BY <3>1, FrameShapes, Zenon DEF Shape, Away
  <2>3. Tail(th[t].todo) \in Todos /\ Away(Tail(th[t].todo))
    BY <1>1, Onward, Zenon DEF Ready, At
  <2> QED BY <2>1, <2>2, <2>3, Zenon DEF Take, Call
<1>b. slot \in Batches \cup {None} /\ th[t].batch = None /\ slot' = None
  BY <1>1, Parts, FlushAt, Zenon DEF Ready, At, Typed, Take, Free
<1> HIDE DEF n
<1> DEFINE m == [th[t] EXCEPT !.batch = slot, !.need = n, !.todo = c]
<1>2. th' = [th EXCEPT ![t] = m]
  BY <1>p
<1>3. m \in Local
  BY <1>1, <1>p, <1>n, <1>b, ZenonT(30) DEF Local, Ready
<1>4. th' \in [Threads -> Local] /\ th'[t] = m /\ Others(t)
  <2> HIDE DEF m
  <2> QED BY <1>1, <1>2, <1>3, Takes, Zenon DEF Ready
<1>5. /\ th'[t].todo = c /\ th'[t].batch = slot /\ th'[t].need = n /\ th'[t].depth = th[t].depth
      /\ th'[t].snap = th[t].snap /\ th'[t].reg = th[t].reg /\ Reads(t)
      /\ th'[t].kind = th[t].kind /\ th'[t].op = th[t].op /\ th'[t].err = th[t].err /\ Others(t)
  BY <1>1, <1>3, <1>4, <1>p DEF Local, Same, Holds, Reads, Ready
<1> HIDE DEF m
<1>6. Typed'
  BY <1>1, <1>4, Zenon DEF Ready, Typed, Take, gate, store, epoch, writeback, bounds
<1>7. Aside(t)
  BY <1>5, <1>p, Zenon DEF Aside
<1>8. /\ Counted(t) /\ Spares(t)
      /\ \A o : Held(o)' <=> Held(o)
      /\ \A o : CommitsOf(o)' = CommitsOf(o)
  <2>1. Counted(t)
    BY <1>1, <1>5, <1>7, Ungated, Zenon DEF Take
  <2>2. \A o : Held(o)' <=> Held(o)
    <3>1. \A o : Held(o)' => Held(o)
      BY <1>b, <1>5, Zenon DEF Held, Others
    <3>2. \A o : Held(o) => Held(o)'
      BY <1>b, <1>5, Zenon DEF Held, Others
    <3> QED BY <3>1, <3>2, Zenon
  <2>3. /\ UNCHANGED <<journaled, commits, durable, requests, acked, lost>>
        /\ th'[t].todo # <<>> /\ ~ At(t, "journal")'
    BY <1>7, Zenon DEF Take, store, bounds, Aside, Away, At
  <2>4. Owners'
    <3>1. Owners
      BY Zenon DEF IInv
    <3>2. \A o : CommitsOf(o)' = CommitsOf(o) /\ (Decided(o)' <=> Decided(o))
      BY <2>3, Zenon DEF CommitsOf, Decided
    <3>3. \A u \in Threads : th'[u].op = th[u].op /\ (th'[u].todo # <<>> <=> th[u].todo # <<>>)
      BY <1>1, <1>5, <2>3, Zenon DEF Others, Ready
    <3>4. \A u \in Threads : th'[u].batch = IF u = t THEN slot ELSE th[u].batch
      BY <1>5, Zenon DEF Others
    <3>5. \A u \in Threads : th'[u].batch # None => th'[u].batch.ops \subseteq 1 .. requests
      BY <3>1, <3>4, Zenon DEF Owners
    <3>6. \A u, v \in Threads : u # v /\ th'[u].batch # None /\ th'[v].batch # None
                                 => th'[u].batch.ops \cap th'[v].batch.ops = {}
      BY <3>1, <3>4, Zenon DEF Owners
    <3> QED BY <1>b, <2>2, <2>3, <3>1, <3>2, <3>3, <3>5, <3>6, Zenon DEF Owners
  <2>5. requests <= requests'
    BY <1>1, <2>3, SMTT(30) DEF Ready, Typed
  <2> QED BY <1>5, <1>6, <2>1, <2>2, <2>3, <2>4, <2>5, MoveStep, Zenon
<1>9. Numbers' /\ Snapshots'
  <2>1. Numbers'
    BY <1>5, <1>6, NumbersKept, Zenon DEF Take, store, Reads
  <2>2. Snapshots'
    <3>1. Snapshots
      BY DEF IInv
    <3>2. UNCHANGED <<evicted, journaled>>
      BY Zenon DEF Take, store
    <3> QED BY <1>5, <1>b, <3>1, <3>2, SMTT(30) DEF Snapshots, Others, Reads
  <2> QED BY <2>1, <2>2, Zenon
<1>10. Point(t)'
  <2>1. ASSUME NEW k \in Conts, Flushing(t, k) PROVE Point(t)'
    <3>1. /\ Free(t) /\ Tail(th[t].todo) = k
          /\ Owed(t, k) \/ (Syncing(t, k) /\ th[t].need \subseteq acked)
      BY <1>1, <2>1, FlushAt, Zenon
    <3>2. UNCHANGED <<journaled, acked, lost, durable>> /\ n \subseteq th[t].need
      BY Zenon DEF Take, store, n
    <3>3. Stored(t) => Stored(t)'
      BY <1>5, <1>8, <3>2, Zenon DEF Stored
    <3>4. Secured(t) => Secured(t)'
      BY <1>5, <1>8, <3>2, <3>3, Zenon DEF Secured, Within
    <3>5. \A o : (Decided(o) => Decided(o)') /\ (Held(o) => Held(o)')
      BY <1>8, <3>2, Zenon DEF Decided
    <3>6. Answer(t) => Answer(t)'
      BY <1>5, <3>4, <3>5, Zenon DEF Answer
    <3>7. Fresh(t) => Fresh(t)'
      BY <1>5, <1>8, Zenon DEF Fresh
    <3>8. Syncing(t, k) => Syncing(t, k)'
      BY <1>5, <3>2, Zenon DEF Syncing
    <3>9. Owed(t, k) => Owed(t, k)'
      BY <1>5, <3>3, <3>6, <3>7, <3>8, Zenon DEF Owed
    <3>10. \A o \in n : th[t].need \subseteq acked => Decided(o) \/ (slot # None /\ o \in slot.ops)
      <4>1. Owners
        BY DEF IInv
      <4> QED BY <4>1, Zenon DEF Owners, n, Held, InTransit
    <3>11. CASE slot # None
      <4> USE <3>11
      <4>1. \A o \in slot.ops : CommitsOf(o) = {}
        BY Zenon DEF IInv, Owners
      <4>2. Pending(t, k)'
        BY <1>5, <1>8, <3>1, <3>2, <3>5, <3>8, <3>9, <3>10, <4>1, Zenon DEF Pending, Free
      <4>3. Flushing(t, k)'
        BY <1>5, <1>p, <3>1, <4>2, Zenon DEF Flushing, Free
      <4> QED BY <4>3 DEF Point
    <3>12. CASE slot = None
      <4> USE <3>12
      <4>1. Free(t)'
        BY <1>5, <3>1, Zenon DEF Free
      <4>2. Syncing(t, k) /\ th[t].need \subseteq acked => Stored(t)'
        BY <1>5, <3>2, <3>5, <3>10, Zenon DEF Stored, Decided
      <4>3. Owed(t, k)'
        BY <3>1, <3>8, <3>9, <4>2, Zenon DEF Owed
      <4> QED BY <1>5, <1>p, <3>1, <4>1, <4>3, Returned, Zenon
    <3> QED BY <3>11, <3>12, Zenon
  <2> QED BY <1>1, <2>1, Parts, Zenon DEF Ready, At
<1> QED BY <1>6, <1>8, <1>9, <1>10 DEF Moves, Harmless

\* The file of the batch is compared; the slot's lock is not kept.
LEMMA StageCheckStep ==
    ASSUME IInv, NEW t \in Threads, StageCheck(t)
    PROVE  Moves(t)
<1>1. Ready(t) /\ At(t, "stage_check")
  BY IsReady, Zenon DEF StageCheck, At
<1> USE <1>1
<1>p. PICK c \in {Then("observe", Tail(th[t].todo)), Tail(th[t].todo)} :
        /\ th' = [th EXCEPT ![t] = [th[t] EXCEPT !.todo = c]]
        /\ c \in Todos /\ Away(c)
  <2>1. /\ <<>> \o Tail(th[t].todo) = Tail(th[t].todo)
        /\ <<"observe">> \o Tail(th[t].todo) = Then("observe", Tail(th[t].todo))
    BY Callees, Zenon DEF Ready, Typed
  <2>2. Then("observe", Tail(th[t].todo)) \in Todos /\ Away(Then("observe", Tail(th[t].todo)))
    BY FrameShapes, Zenon DEF Ready, Shape, Away
  <2>3. Tail(th[t].todo) \in Todos /\ Away(Tail(th[t].todo))
    BY Onward, Zenon DEF Ready, At
  <2> QED BY <2>1, <2>2, <2>3, Zenon DEF StageCheck, Call
<1> USE <1>p
<1> DEFINE m == [th[t] EXCEPT !.todo = c]
<1>2. th' = [th EXCEPT ![t] = m]
  OBVIOUS
<1>3. m \in Local
  BY Zenon DEF Local, Ready
<1>4. th' \in [Threads -> Local] /\ th'[t] = m /\ Others(t)
  <2> HIDE DEF m
  <2> QED BY <1>2, <1>3, Takes, Zenon DEF Ready
<1>5. /\ th'[t].todo = c /\ Holds(t) /\ Reads(t) /\ Same(t) /\ Others(t)
  BY <1>3, <1>4, Zenon DEF Local, Same, Holds, Reads, Ready
<1> USE <1>5
<1> HIDE DEF m
<1>6. Typed'
  BY <1>4, Zenon DEF Ready, Typed, StageCheck, gate, store, epoch, writeback, bounds
<1> USE <1>6
<1>7. Aside(t)
  BY Zenon DEF Aside
<1>8. /\ Counted(t) /\ Harmless(t) /\ (Same(t) => Carry(t))
      /\ Same(t) /\ th'[t].snap = th[t].snap => Batched(t)
  BY <1>7, Plain, Zenon DEF StageCheck, store, writeback, bounds, Same, Holds
<1>9. Numbers' /\ Snapshots'
  BY Kept, Zenon DEF StageCheck, store, writeback, Holds, Reads
<1>10. Point(t)'
  <2>1. ASSUME Staging(t) PROVE Point(t)'
    <3>1. Tail(th[t].todo) = KStage /\ Free(t) /\ th[t].kind = "stage" /\ Fresh(t)
      BY <2>1, StageAt, Zenon DEF Free
    <3> USE <3>1
    <3>2. Free(t)' /\ th'[t].kind = "stage" /\ Owed(t, KStage)'
      BY <1>8, Zenon DEF Free, Holds, Same, Owed, Harmless
    <3>3. CASE c = Then("observe", Tail(th[t].todo))
      <4>1. Flushing(t, KStage)'
        BY <3>2, <3>3, Zenon DEF Flushing
      <4> QED BY <4>1, Zenon DEF Point, Conts
    <3>4. CASE c = Tail(th[t].todo)
      BY <3>2, <3>4, Returned, Zenon DEF Conts
    <3> QED BY <3>3, <3>4, Zenon
  <2> QED BY <2>1, Parts, Zenon DEF Ready, At
<1> QED BY <1>8, <1>9, <1>10, Zenon DEF Moves, Harmless

\* A batch for the file is there, or one begins.
LEMMA StageLockStep ==
    ASSUME IInv, NEW t \in Threads, StageLock(t)
    PROVE  Moves(t)
<1>1. Ready(t) /\ At(t, "stage_lock")
  BY IsReady, Zenon DEF StageLock, At
<1> USE <1>1
<1>k. Tail(th[t].todo) = KReply
  BY Parts, BoundAt, Zenon DEF Ready, At
<1>p. PICK c \in {SEnter, SWrite} :
        /\ th' = [th EXCEPT ![t] = [th[t] EXCEPT !.todo = c]]
        /\ c \in Todos /\ Away(c)
  <2>1. /\ <<"enter", "begin", "leave", "stage_write">> \o Tail(th[t].todo) = SEnter
        /\ <<"stage_write">> \o Tail(th[t].todo) = SWrite
    BY <1>k, Callees, Zenon DEF Ready, Typed, SEnter, SBegin, SLeave, SWrite
  <2>2. SEnter \in Todos /\ Away(SEnter) /\ SWrite \in Todos /\ Away(SWrite)
    BY Forms DEF StageForms, Shape, Away
  <2> QED BY <2>1, <2>2, Zenon DEF StageLock, Call
<1> USE <1>p
<1> DEFINE m == [th[t] EXCEPT !.todo = c]
<1>2. th' = [th EXCEPT ![t] = m]
  BY Zenon
<1>3. m \in Local
  BY Zenon DEF Local, Ready
<1>4. th' \in [Threads -> Local] /\ th'[t] = m /\ Others(t)
  <2> HIDE DEF m
  <2> QED BY <1>2, <1>3, Takes, Zenon DEF Ready
<1>5. /\ th'[t].todo = c /\ Holds(t) /\ Reads(t) /\ Same(t) /\ Others(t)
  BY <1>3, <1>4, Zenon DEF Local, Same, Holds, Reads, Ready
<1> USE <1>5
<1> HIDE DEF m
<1>6. Typed'
  BY <1>4, Zenon DEF Ready, Typed, StageLock, gate, store, epoch, writeback, bounds
<1> USE <1>6
<1>7. Aside(t)
  BY Zenon DEF Aside
<1>8. /\ Counted(t) /\ Harmless(t) /\ (Same(t) => Carry(t))
      /\ Same(t) /\ th'[t].snap = th[t].snap => Batched(t)
  BY <1>7, Plain, Zenon DEF StageLock, store, writeback, bounds, Same, Holds
<1>9. Numbers' /\ Snapshots'
  BY Kept, Zenon DEF StageLock, store, writeback, Holds, Reads
<1>10. Point(t)'
  <2>1. ASSUME NEW k \in BoundaryConts, Bounding(t, k) PROVE Point(t)'
    <3>1. /\ th[t].kind = "stage" /\ Fresh(t) /\ Free(t)
      BY <2>1, BoundAt, Zenon
    <3>2. Staging(t)'
      BY <1>8, <3>1, Zenon DEF Staging, Free, Holds, Same, Harmless
    <3> QED BY <3>2, Zenon DEF Point
  <2> QED BY <2>1, Parts, Zenon DEF Ready, At
<1> QED BY <1>8, <1>9, <1>10, Zenon DEF Moves, Harmless

\* The write joins the batch; a full batch is observed next.
LEMMA StageWriteStep ==
    ASSUME IInv, NEW t \in Threads, StageWrite(t)
    PROVE  Moves(t)
<1>1. Ready(t) /\ At(t, "stage_write")
  BY IsReady, Zenon DEF StageWrite, At
<1>s. /\ th[t].kind = "stage" /\ th[t].batch = None /\ th[t].snap = None /\ th[t].depth = 0
      /\ Fresh(t) /\ Tail(th[t].todo) = KReply
  BY <1>1, Parts, StageAt, Zenon DEF Ready, At
<1> DEFINE b == Batch(t)
<1>b. /\ b \in Batches /\ b # None /\ (slot # None => b = slot)
      /\ slot = None => b.ops = {} /\ b.snap = th[t].reg
  <2>1. CASE slot = None
    <3>1. th[t].file \in Files \cup {None} /\ th[t].reg \in Nat \cup {None}
      BY <1>1, Zenon DEF Ready, Local
    <3>2. b = [file |-> th[t].file, ops |-> {}, snap |-> th[t].reg]
      BY <2>1, Zenon DEF Batch
    <3>3. b \in Batches /\ b.ops = {} /\ b.snap = th[t].reg
      BY <3>1, <3>2, SMTT(30) DEF Batches
    <3>4. b # None
      BY <3>3, MutationAssumption, Zenon DEF Batches
    <3> QED BY <2>1, <3>3, <3>4, Zenon
  <2>2. CASE slot # None
    BY <1>1, <2>2, Zenon DEF Ready, Typed, Batch
  <2> QED BY <2>1, <2>2, Zenon
<1>w. /\ slot' \in Batches /\ slot' # None /\ slot'.ops = b.ops \cup {th[t].op} /\ slot'.snap = b.snap
  <2>1. slot' = [b EXCEPT !.ops = b.ops \cup {th[t].op}]
    BY Zenon DEF StageWrite
  <2>2. th[t].op \in Nat
    BY <1>1, Zenon DEF Ready, Local
  <2> HIDE DEF b
  <2> QED BY <1>b, <2>1, <2>2, MutationAssumption DEF Batches
<1>p. PICK c \in {Then("observe", KReply), KReply} :
        /\ th' = [th EXCEPT ![t] = [th[t] EXCEPT !.reg = None, !.todo = c]]
        /\ c \in Todos /\ Away(c)
  <2>1. /\ <<>> \o Tail(th[t].todo) = Tail(th[t].todo)
        /\ <<"observe">> \o Tail(th[t].todo) = Then("observe", Tail(th[t].todo))
    BY <1>1, Callees, Zenon DEF Ready, Typed
  <2>2. Then("observe", Tail(th[t].todo)) \in Todos /\ Away(Then("observe", Tail(th[t].todo)))
    BY <1>1, FrameShapes, Zenon DEF Ready, Shape, Away
  <2>3. Tail(th[t].todo) \in Todos /\ Away(Tail(th[t].todo))
    BY <1>1, Onward, Zenon DEF Ready, At
  <2> QED BY <1>s, <2>1, <2>2, <2>3, Zenon DEF StageWrite, Call
<1> HIDE DEF b
<1> DEFINE m == [th[t] EXCEPT !.reg = None, !.todo = c]
<1>2. th' = [th EXCEPT ![t] = m]
  BY <1>p, Zenon
<1>3. m \in Local
  BY <1>1, <1>p, Zenon DEF Local, Ready
<1>4. th' \in [Threads -> Local] /\ th'[t] = m /\ Others(t)
  <2> HIDE DEF m
  <2> QED BY <1>1, <1>2, <1>3, Takes, Zenon DEF Ready
<1>5. /\ th'[t].todo = c /\ th'[t].reg = None /\ th'[t].depth = th[t].depth
      /\ th'[t].snap = th[t].snap /\ th'[t].batch = th[t].batch /\ Reads(t) /\ Same(t) /\ Others(t)
  BY <1>1, <1>3, <1>4, <1>p DEF Local, Same, Holds, Reads, Ready
<1> HIDE DEF m
<1>6. Typed'
  BY <1>1, <1>4, <1>w, Zenon DEF Ready, Typed, StageWrite, gate, store, epoch, writeback, bounds
<1>7. Aside(t)
  BY <1>5, <1>p, Zenon DEF Aside
<1>8. Counted(t) /\ Spares(t)
  <2>1. Counted(t)
    BY <1>1, <1>5, <1>7, Ungated, Zenon DEF StageWrite
  <2>2. \A o : Held(o)' <=> Held(o) \/ o = th[t].op
    <3>1. \A u \in Threads : th'[u].batch = th[u].batch
      BY <1>5, Zenon DEF Others
    <3>2. \A o : o \in slot'.ops <=> (slot # None /\ o \in slot.ops) \/ o = th[t].op
      BY <1>b, <1>w, Zenon
    <3> QED BY <1>w, <3>1, <3>2, Zenon DEF Held
  <2>3. /\ UNCHANGED <<journaled, commits, durable, requests, acked, lost>>
        /\ th[t].todo # <<>> /\ th'[t].todo # <<>> /\ ~ At(t, "journal")'
    BY <1>1, <1>7, Zenon DEF StageWrite, store, bounds, Aside, Away, At, Ready
  <2> USE <2>3
  <2>4. Owners'
    <3>1. Owners
      BY Zenon DEF IInv
    <3> USE <3>1
    <3>2. \A o : CommitsOf(o)' = CommitsOf(o) /\ (Decided(o) => Decided(o)')
      BY Zenon DEF CommitsOf, Decided
    <3>3. \A u \in Threads : th'[u].op = th[u].op /\ (th'[u].todo # <<>> <=> th[u].todo # <<>>)
      BY <1>1, <1>5, Zenon DEF Others, Ready, Same
    <3>4. \A u \in Threads : th'[u].batch = th[u].batch
      BY <1>5 DEF Others
    <3>5. /\ th[t].op \in 1 .. requests /\ CommitsOf(th[t].op) = {}
          /\ \A u \in Threads : th[u].batch # None => th[t].op \notin th[u].batch.ops
      BY <1>s, Zenon DEF Owners, Fresh, Held
    <3>6. \A o \in slot'.ops : /\ o \in 1 .. requests /\ CommitsOf(o) = {}
                               /\ \A u \in Threads : th[u].batch # None => o \notin th[u].batch.ops
      BY <1>b, <1>w, <3>5, Zenon DEF Owners
    <3> QED BY <2>2, <3>2, <3>3, <3>4, <3>6, Zenon DEF Owners
  <2>5. requests <= requests'
    BY <1>1, SMTT(30) DEF Ready, Typed
  <2> QED BY <1>5, <1>6, <2>1, <2>2, <2>4, <2>5, MoveStep, Zenon
<1>9. Numbers' /\ Snapshots'
  <2>1. Numbers'
    BY <1>5, <1>6, NumbersKept, Zenon DEF StageWrite, store, Reads
  <2>2. Snapshots'
    <3>1. Snapshots
      BY DEF IInv
    <3>2. UNCHANGED <<evicted, journaled>>
      BY DEF StageWrite, store
    <3> QED BY <1>5, <1>b, <1>w, <3>1, <3>2, ZenonT(30) DEF Snapshots, Others, Reads
  <2> QED BY <2>1, <2>2, Zenon
<1>10. Point(t)'
  <2>1. ASSUME Staging(t) PROVE Point(t)'
    <3>1. /\ Free(t)' /\ th'[t].kind = "stage"
      BY <1>5, <1>s, Zenon DEF Free, Same
    <3> USE <3>1
    <3>2. Held(th[t].op)'
      BY <1>5, <1>w, Zenon DEF Held, Same
    <3>3. Owed(t, KReply)'
      BY <3>2, Zenon DEF Owed, Answer
    <3>4. CASE c = Then("observe", KReply)
      <4>1. Flushing(t, KReply)'
        BY <1>5, <3>3, <3>4, Zenon DEF Flushing
      <4> QED BY <4>1, Zenon DEF Point, Conts
    <3>5. CASE c = KReply
      BY <1>5, <3>3, <3>5, Returned, Zenon DEF Conts
    <3> QED BY <1>p, <3>4, <3>5, Zenon
  <2> QED BY <1>1, <2>1, Parts, Zenon DEF Ready, At
<1> QED BY <1>6, <1>8, <1>9, <1>10, Zenon DEF Moves, Harmless

\* A write that cannot be staged takes the batch with it.
LEMMA StageFailsStep ==
    ASSUME IInv, NEW t \in Threads, StageFails(t)
    PROVE  Moves(t)
<1>1. Ready(t) /\ At(t, "stage_write")
  BY IsReady, Zenon DEF StageFails, At
<1>s. /\ th[t].kind = "stage" /\ th[t].batch = None /\ th[t].snap = None /\ th[t].depth = 0
      /\ Fresh(t) /\ Tail(th[t].todo) = KReply
  BY <1>1, Parts, StageAt, Zenon DEF Ready, At
<1> DEFINE b == Batch(t)
<1>b. /\ b \in Batches /\ b # None /\ (slot # None => b = slot)
      /\ slot = None => b.ops = {} /\ b.snap = th[t].reg
  <2>1. CASE slot = None
    <3>1. th[t].file \in Files \cup {None} /\ th[t].reg \in Nat \cup {None}
      BY <1>1, Zenon DEF Ready, Local
    <3>2. b = [file |-> th[t].file, ops |-> {}, snap |-> th[t].reg]
      BY <2>1, Zenon DEF Batch
    <3>3. b \in Batches /\ b.ops = {} /\ b.snap = th[t].reg
      BY <3>1, <3>2, SMTT(30) DEF Batches
    <3>4. b # None
      BY <3>3, MutationAssumption, Zenon DEF Batches
    <3> QED BY <2>1, <3>3, <3>4, Zenon
  <2>2. CASE slot # None
    BY <1>1, <2>2, Zenon DEF Ready, Typed, Batch
  <2> QED BY <2>1, <2>2, Zenon
<1>w. lost' = lost \cup b.ops /\ lost' \in SUBSET Nat /\ slot' = None
  BY <1>1, <1>b, Zenon DEF StageFails, Batches, Ready, Typed
<1>p. /\ BRelease(KReply) \in Todos /\ Away(BRelease(KReply))
      /\ EndBatch \o Tail(th[t].todo) = BRelease(KReply)
  BY <1>1, <1>s, FrameShapes, Callees, ZenonT(30) DEF Ready, Typed, Shape, Away
<1> DEFINE m == [th[t] EXCEPT !.batch = b, !.reg = None, !.err = TRUE, !.todo = BRelease(KReply)]
<1>2. th' = [th EXCEPT ![t] = m]
  BY <1>p, Zenon DEF StageFails, Call
<1>3. m \in Local
  BY <1>1, <1>p, <1>b, Zenon DEF Local, Ready
<1>4. th' \in [Threads -> Local] /\ th'[t] = m /\ Others(t)
  <2> HIDE DEF m
  <2> QED BY <1>1, <1>2, <1>3, Takes, Zenon DEF Ready
<1>5. /\ th'[t].todo = BRelease(KReply) /\ th'[t].reg = None /\ th'[t].depth = th[t].depth
      /\ th'[t].snap = th[t].snap /\ th'[t].batch = b /\ th'[t].err /\ Reads(t) /\ Same(t) /\ Others(t)
  BY <1>1, <1>3, <1>4, <1>p, Zenon DEF Local, Same, Holds, Reads, Ready
<1> HIDE DEF m, b
<1>6. Typed'
  BY <1>1, <1>4, <1>w, SMTT(30) DEF Ready, Typed, StageFails, gate, store, epoch, writeback,
     bounds
<1>7. Aside(t)
  BY <1>5, <1>p, Zenon DEF Aside
<1>8. Counted(t) /\ Spares(t)
  <2>1. Counted(t)
    BY <1>1, <1>5, <1>7, Ungated, Zenon DEF StageFails
  <2>2. \A o : Held(o)' <=> Held(o)
    <3>1. \A o : Held(o)' => Held(o)
      BY <1>b, <1>s, <1>w, <1>5, Zenon DEF Held, Others
    <3>2. \A o : Held(o) => Held(o)'
      BY <1>b, <1>s, <1>w, <1>5, Zenon DEF Held, Others
    <3> QED BY <3>1, <3>2, Zenon
  <2>3. /\ UNCHANGED <<journaled, commits, durable, requests, acked>> /\ lost \subseteq lost'
        /\ th'[t].todo # <<>> /\ ~ At(t, "journal")'
    BY <1>7, <1>w, Zenon DEF StageFails, store, bounds, Aside, Away, At
  <2> USE <2>3
  <2>4. Owners'
    <3>1. Owners
      BY DEF IInv
    <3> USE <3>1
    <3>2. \A o : CommitsOf(o)' = CommitsOf(o) /\ (Decided(o) => Decided(o)')
      BY Zenon DEF CommitsOf, Decided
    <3>3. \A u \in Threads : th'[u].op = th[u].op /\ (th'[u].todo # <<>> <=> th[u].todo # <<>>)
      BY <1>1, <1>5, Zenon DEF Others, Ready, Same
    <3>4. \A u \in Threads : th'[u].batch = IF u = t THEN b ELSE th[u].batch
      BY <1>5, Zenon DEF Others
    <3>5. \A u \in Threads : th'[u].batch # None => th'[u].batch.ops \subseteq 1 .. requests
      BY <1>b, <3>4, Zenon DEF Owners
    <3>6. \A u, v \in Threads : u # v /\ th'[u].batch # None /\ th'[v].batch # None
                                 => th'[u].batch.ops \cap th'[v].batch.ops = {}
      BY <1>b, <3>4, Zenon DEF Owners
    <3> QED BY <1>w, <2>2, <3>2, <3>3, <3>5, <3>6, Zenon DEF Owners
  <2>5. requests <= requests'
    BY <1>1, SMTT(30) DEF Ready, Typed
  <2> QED BY <1>5, <1>6, <2>1, <2>2, <2>4, <2>5, MoveStep, Zenon
<1>9. Numbers' /\ Snapshots'
  <2>1. Numbers'
    BY <1>5, <1>6, NumbersKept, Zenon DEF StageFails, store, Reads
  <2>2. Snapshots'
    <3>1. Snapshots
      BY DEF IInv
    <3>2. UNCHANGED <<evicted, journaled>>
      BY DEF StageFails, store
    <3> QED BY <1>5, <1>b, <1>w, <3>1, <3>2, ZenonT(30) DEF Snapshots, Others, Reads
  <2> QED BY <2>1, <2>2
<1>10. Point(t)'
  <2>1. ASSUME Staging(t) PROVE Point(t)'
    <3>1. \A o \in th'[t].batch.ops : Decided(o)'
      BY <1>5, <1>w, Zenon DEF Decided
    <3>2. Settled(t, KReply)'
      BY <1>5, <1>b, <1>s, <3>1, Zenon DEF Settled, Owed, Answer
    <3>3. Flushing(t, KReply)'
      BY <1>5, <1>s, <3>2, Zenon DEF Flushing
    <3> QED BY <3>3, Zenon DEF Point, Conts
  <2> QED BY <1>1, <2>1, Parts, Zenon DEF Ready, At
<1> QED BY <1>6, <1>8, <1>9, <1>10, Zenon DEF Moves, Harmless

-----------------------------------------------------------------------------
(* Requests and replies. *)

\* The reply acknowledges an operation that is held or decided.
LEMMA ReplyStep == ASSUME IInv, NEW t \in Threads, Reply(t) PROVE Moves(t)
<1>1. Ready(t) /\ At(t, "reply")
  BY IsReady, Zenon DEF Reply, At
<1> USE <1>1
<1>2. th' \in [Threads -> Local] /\ th'[t] = Idle /\ Others(t)
  BY IdleLocal, Takes, Zenon DEF Reply, Ready
<1>3. /\ th'[t].todo = <<>> /\ th'[t].depth = 0 /\ th'[t].batch = None /\ th'[t].snap = None
      /\ th'[t].reg = None /\ th'[t].cap = 0 /\ th'[t].seen = NoEpoch
  BY <1>2, SMTT(30) DEF Idle
<1> USE <1>3
<1>4. Free(t) /\ Answer(t) /\ th[t].op \in Nat /\ th[t].kind \in Kinds
  BY Parts, BoundAt, Zenon DEF Ready, At, Local
<1>5. Typed'
  BY <1>2, <1>4, Zenon DEF Ready, Typed, Reply, gate, store, epoch, writeback, bounds
<1>6. Point(t)'
  BY Zenon DEF Point, Free
<1>7. Counted(t)
  <2>1. t \notin asleep /\ ~ Closed(t) /\ ~ Closed(t)'
    BY Zenon DEF IInv, Gate, Closed, At
  <2> QED BY <1>2, <1>4, <2>1, Zenon DEF Counted, Free, Reply, gate, At
<1>8. Spares(t)
  <2>1. \A u \in Threads : th'[u].batch = th[u].batch
    BY <1>2, <1>4, Zenon DEF Others, Free
  <2>2. \A o : Held(o)' <=> Held(o)
    BY <2>1, Zenon DEF Held, Reply, writeback
  <2>3. /\ UNCHANGED <<journaled, commits, durable, requests, lost>> /\ acked \subseteq acked'
        /\ ~ At(t, "journal")' /\ requests <= requests'
    <3>1. /\ UNCHANGED <<journaled, commits, durable, requests, lost>> /\ acked \subseteq acked'
          /\ requests \in Nat
      BY Zenon DEF Reply, store, bounds, Ready, Typed
    <3>2. ~ At(t, "journal")'
      BY Zenon DEF At
    <3>3. requests <= requests'
      BY <3>1, SMTT(30)
    <3> QED BY <3>1, <3>2, <3>3, Zenon
  <2> USE <2>3
  <2>4. Owners'
    <3>1. Owners
      BY DEF IInv
    <3> USE <3>1
    <3>2. \A o : CommitsOf(o)' = CommitsOf(o) /\ (Decided(o)' <=> Decided(o))
      BY Zenon DEF CommitsOf, Decided
    <3>3. /\ acked' \subseteq acked \cup {th[t].op}
          /\ th[t].op \in acked' => th[t].op \in acked \/ Held(th[t].op) \/ Decided(th[t].op)
      BY <1>4, Zenon DEF Reply, Answer, Kinds
    <3>4. th[t].op \in 1 .. requests /\ \A u \in Threads \ {t} : th[u].todo # <<>> => th[u].op # th[t].op
      BY Zenon DEF Owners, Ready
    <3>5. \A u \in Threads : th'[u].todo # <<>> => u # t /\ th'[u] = th[u]
      BY <1>2, Zenon DEF Others
    <3>6. acked' \subseteq 1 .. requests /\ \A o \in acked' : Held(o) \/ Decided(o)
      BY <3>3, <3>4, Zenon DEF Owners
    <3>7. \A u \in Threads : th'[u].todo # <<>> => th'[u].op \in (1 .. requests) \ acked'
      BY <3>3, <3>4, <3>5, Zenon DEF Owners
    <3>8. slot' = slot
      BY Zenon DEF Reply, writeback
    <3> QED BY <2>1, <2>2, <3>2, <3>5, <3>6, <3>7, <3>8, Zenon DEF Owners
  <2> QED BY <1>2, <1>5, <2>2, <2>4, MoveStep, Zenon
<1>9. Numbers'
  <2>1. UNCHANGED <<commits, durable, evicted, atBoundary, epoch, cursor>>
    BY Zenon DEF Reply, store
  <2>2. durable \in Nat /\ durable <= Len(commits)
    BY Zenon DEF IInv, Numbers, Ready, Typed
  <2> QED BY <1>2, <1>5, <2>1, <2>2, NumbersGrow, SMTT(30) DEF Ready
<1>10. Snapshots'
  BY <1>2, <1>5, SnapshotsKept, Zenon DEF Reply, store, writeback
<1> QED BY <1>5, <1>6, <1>7, <1>8, <1>9, <1>10, Zenon DEF Moves

\* A request arrives as a new operation.
LEMMA StartStep ==
    ASSUME IInv, NEW t \in Threads, NEW kind \in Kinds, Start(t, kind)
    PROVE  Moves(t)
<1>1. Typed /\ Point(t) /\ th[t].todo = <<>> /\ Free(t) /\ requests \in Nat /\ Len(commits) \in Nat
  BY Resting, SMTT(30) DEF IInv, Start, Typed
<1>p. PICK f \in Files \cup {None} :
        th' = [th EXCEPT ![t] = [Idle EXCEPT !.todo = Program(kind), !.kind = kind,
                                             !.file = f, !.op = requests']]
  BY Zenon DEF Start
<1>c. /\ Program(kind) \in Todos /\ Program(kind) # <<>> /\ Away(Program(kind))
      /\ Head(Program(kind)) # "drain"
      /\ kind = "mutate" => Program(kind) = Then("observe", KMutate)
      /\ kind = "finalize" => Program(kind) = FEnter
      /\ kind = "stage" => Program(kind) = SCheck
      /\ kind = "fsync" => Program(kind) = Then("observe", KFsync(journaled))
      /\ kind = "tick" => Program(kind) = TLoad
  <2>1. journaled \in BOOLEAN
    BY <1>1, Zenon DEF Typed
  <2>2. /\ Shape(FEnter, "enter", FBegin) /\ Shape(SCheck, "stage_check", KStage)
        /\ Shape(TLoad, "tick_load", TCheck)
    BY Forms, Zenon DEF FinForms, StageForms, TickForms
  <2>3. KMutate \in Conts /\ KFsync(journaled) \in Conts
    BY <2>1, Zenon DEF Conts
  <2>4. \A k \in Conts : Shape(Then("observe", k), "observe", k)
    BY Forms DEF FlushForms
  <2>5. /\ kind = "mutate" => Program(kind) = Then("observe", KMutate)
        /\ kind = "finalize" => Program(kind) = FEnter
        /\ kind = "stage" => Program(kind) = SCheck
        /\ kind = "fsync" => Program(kind) = Then("observe", KFsync(journaled))
        /\ kind = "tick" => Program(kind) = TLoad
    BY <2>1, Programs
  <2>6. \E l \in {"observe", "enter", "stage_check", "tick_load"} : \E s : Shape(Program(kind), l, s)
    BY <2>2, <2>3, <2>4, <2>5, Zenon DEF Kinds
  <2> QED BY <2>5, <2>6, Zenon DEF Shape, Away
<1> DEFINE m == [Idle EXCEPT !.todo = Program(kind), !.kind = kind, !.file = f, !.op = requests']
<1>r. requests' = requests + 1
  BY DEF Start
<1>3. m \in Local
  <2>1. requests' \in Nat /\ Program(kind) \in Todos
    BY <1>1, <1>c, <1>r
  <2> QED BY <2>1, IdleLocal, Zenon DEF Local
<1>4. th' \in [Threads -> Local] /\ th'[t] = m /\ Others(t)
  <2> HIDE DEF m
  <2>1. th' = [th EXCEPT ![t] = m]
    BY <1>p, Zenon DEF m
  <2> QED BY <1>1, <1>3, <2>1, Takes, Zenon
<1>5. /\ th'[t].todo = Program(kind) /\ th'[t].kind = kind /\ th'[t].op = requests + 1
      /\ th'[t].depth = 0 /\ th'[t].batch = None /\ th'[t].snap = None
      /\ th'[t].reg = None /\ th'[t].cap = 0 /\ th'[t].seen = NoEpoch
  BY <1>4, <1>r, Zenon DEF Idle
<1> HIDE DEF m
<1>6. Typed'
  BY <1>1, <1>4, <1>r, SMTT(30) DEF Typed, Start, gate, store, epoch, writeback
<1>7. Counted(t)
  <2>1. t \notin asleep /\ ~ Closed(t) /\ ~ Closed(t)'
    BY <1>1, <1>c, <1>5, Zenon DEF IInv, Gate, Closed, At, Away
  <2> QED BY <1>1, <1>c, <1>4, <1>5, <2>1, Zenon DEF Counted, Free, Start, gate, At, Away
<1>o. Owners
  BY Zenon DEF IInv
<1>n. CommitsOf(requests + 1) = {} /\ ~ Held(requests + 1)
  <2>1. requests + 1 \notin 1 .. requests
    BY <1>1, SMTT(30)
  <2> QED BY <1>o, <2>1, Zenon DEF Owners, CommitsOf, Held
<1>8. Spares(t) /\ Fresh(t)'
  <2>1. \A u \in Threads : th'[u].batch = th[u].batch
    BY <1>1, <1>4, <1>5, Zenon DEF Others, Free
  <2>s. slot' = slot
    BY Zenon DEF Start, writeback
  <2>2. \A o : Held(o)' <=> Held(o)
    BY <2>1, <2>s, Zenon DEF Held
  <2>3. /\ UNCHANGED <<journaled, commits, durable, acked, lost>>
        /\ ~ At(t, "journal")' /\ requests <= requests'
    BY <1>1, <1>c, <1>r, <1>5, SMTT(30) DEF Start, store, At, Away
  <2>c. \A o : CommitsOf(o)' = CommitsOf(o) /\ (Decided(o)' <=> Decided(o))
    BY <2>3, Zenon DEF CommitsOf, Decided
  <2>4. Owners'
    <3>1. 1 .. requests \subseteq 1 .. requests' /\ requests + 1 \in 1 .. requests' /\ requests + 1 \notin 1 .. requests
      BY <1>1, <1>r, SMTT(30)
    <3> USE <3>1
    <3>2. \A u \in Threads \ {t} : th'[u] = th[u]
      BY <1>4, Zenon DEF Others
    <3>3. \A u \in Threads : th'[u].todo # <<>> => th'[u].op \in (1 .. requests') \ acked'
      BY <1>5, <1>o, <2>3, <3>2, Zenon DEF Owners
    <3>4. \A u, v \in Threads : u # v /\ th'[u].todo # <<>> /\ th'[v].todo # <<>> => th'[u].op # th'[v].op
      BY <1>5, <1>o, <3>2, SMTT(30) DEF Owners
    <3>5. /\ acked' \subseteq 1 .. requests'
          /\ \A i \in 1 .. Len(commits)' : commits'[i] \subseteq 1 .. requests'
          /\ \A u \in Threads : th'[u].batch # None => th'[u].batch.ops \subseteq 1 .. requests'
      BY <1>o, <2>1, <2>3, Zenon DEF Owners
    <3>6. slot' # None => \A o \in slot'.ops :
            /\ o \in 1 .. requests'
            /\ CommitsOf(o)' = {}
            /\ \A u \in Threads : th'[u].batch # None => o \notin th'[u].batch.ops
      BY <1>o, <2>1, <2>s, <2>c, Zenon DEF Owners
    <3>7. \A u, v \in Threads :
            u # v /\ th'[u].batch # None /\ th'[v].batch # None => th'[u].batch.ops \cap th'[v].batch.ops = {}
      BY <1>o, <2>1, Zenon DEF Owners
    <3>8. \A o \in acked' : Held(o)' \/ Decided(o)'
      BY <1>o, <2>2, <2>3, <2>c, Zenon DEF Owners
    <3> QED BY <3>3, <3>4, <3>5, <3>6, <3>7, <3>8, Zenon DEF Owners
  <2>5. Spares(t)
    BY <1>4, <1>6, <2>2, <2>3, <2>4, MoveStep, Zenon
  <2>6. Fresh(t)'
    BY <1>n, <1>5, <2>2, <2>c, Zenon DEF Fresh
  <2> QED BY <2>5, <2>6, Zenon
<1>9. Numbers'
  <2>1. UNCHANGED <<commits, durable, evicted, atBoundary, epoch, cursor>>
    BY Zenon DEF Start, store
  <2>2. durable \in Nat /\ durable <= Len(commits)
    BY <1>1, Zenon DEF IInv, Numbers, Typed
  <2>3. Len(commits) <= Len(commits)' /\ durable <= durable' /\ durable' <= Len(commits)'
    BY <1>1, <2>1, <2>2, SMTT(30)
  <2>4. th'[t].cap \in {th[t].cap, 0, Len(commits)} /\ th'[t].seen \in {th[t].seen, NoEpoch}
    BY <1>5, Zenon
  <2> QED BY <1>4, <1>6, <2>1, <2>3, <2>4, NumbersGrow, Zenon
<1>10. Snapshots'
  BY <1>4, <1>5, <1>6, SnapshotsKept, Zenon DEF Start, store, writeback
<1>11. Point(t)'
  <2>f. Free(t)' /\ journaled' = journaled /\ journaled \in BOOLEAN
    BY <1>1, <1>5, Zenon DEF Free, Start, Typed
  <2> USE <2>f
  <2>1. CASE kind = "mutate"
    <3>1. Flushing(t, KMutate)'
      BY <1>5, <1>8, <1>c, <2>1, Zenon DEF Flushing, Owed
    <3> QED BY <3>1, Zenon DEF Point, Conts
  <2>2. CASE kind = "finalize"
    <3>1. Finalizing(t)'
      BY <1>5, <1>8, <1>c, <2>2, Zenon DEF Finalizing
    <3> QED BY <3>1, Zenon DEF Point
  <2>3. CASE kind = "stage"
    <3>1. Staging(t)'
      BY <1>5, <1>8, <1>c, <2>3, Zenon DEF Staging
    <3> QED BY <3>1, Zenon DEF Point
  <2>4. CASE kind = "fsync"
    <3>1. PICK k \in Conts : k = KFsync(journaled)
      BY Zenon DEF Conts
    <3>2. Syncing(t, k)'
      BY <1>5, <2>4, <3>1, Zenon DEF Syncing
    <3>3. Flushing(t, k)'
      BY <1>5, <1>c, <2>4, <3>1, <3>2, Zenon DEF Flushing
    <3> QED BY <3>3, Zenon DEF Point
  <2>5. CASE kind = "tick"
    <3>1. Ticking(t)'
      BY <1>5, <1>c, <2>5, Zenon DEF Ticking
    <3> QED BY <3>1, Zenon DEF Point
  <2> QED BY <2>1, <2>2, <2>3, <2>4, <2>5, Zenon DEF Kinds
<1> QED BY <1>6, <1>7, <1>8, <1>9, <1>10, <1>11, Zenon DEF Moves
=============================================================================
