------------------------- MODULE MutationGateProofs -------------------------
(***************************************************************************)
(* The gate, the durability boundary and the periodic commit keep the      *)
(* invariant of MutationGateSteps, and what follows from it: the theorems  *)
(* about MutationGate for every number of threads, files and requests.     *)
(***************************************************************************)
EXTENDS MutationGateSteps

-----------------------------------------------------------------------------
(* The gate. *)

\* A thread falls asleep at the gate.
LEMMA Sleeps ==
    ASSUME IInv, NEW t \in Threads, UNCHANGED th, asleep' = asleep \cup {t},
           At(t, "drain") \/ (At(t, "enter") /\ th[t].depth = 0),
           UNCHANGED <<journaled, inFlight, closing, cursor, store, epoch, writeback, acked, lost, bounds>>
    PROVE  Moves(t)
<1>1. Typed'
  BY Zenon DEF IInv, Typed, store, epoch, writeback, bounds
<1> USE <1>1
<1>2. Quiet(t)
  BY Zenon DEF Quiet, store, writeback, bounds, At
<1>3. Harmless(t)
  BY <1>2, QuietStep, Zenon
<1> USE <1>3
<1>4. Point(t)'
  <2>1. \A o : CommitsOf(o)' = CommitsOf(o)
    BY Zenon DEF store, CommitsOf
  <2>2. Undisturbed(t)
    BY <2>1, Zenon DEF Harmless, Undisturbed
  <2> QED BY <2>2, Stable, Zenon DEF IInv, Harmless
<1>5. Counted(t)
  BY DEF Counted, Others, Closed, At
<1>6. Numbers' /\ Snapshots'
  BY Kept, Zenon DEF Others, store, writeback
<1> QED BY <1>4, <1>5, <1>6, Zenon DEF Moves, Harmless

\* A thread enters the gate, or nests an entry.
LEMMA Enters ==
    ASSUME IInv, NEW t \in Threads, Enter(t), ~ (th[t].depth = 0 /\ closing > 0)
    PROVE  Moves(t)
<1>1. Ready(t) /\ At(t, "enter")
  BY IsReady DEF Enter, At
<1> USE <1>1
<1>g. /\ th' = [th EXCEPT ![t] = [[th[t] EXCEPT !.depth = th[t].depth + 1] EXCEPT !.todo = <<>> \o Tail(th[t].todo)]]
      /\ inFlight' = inFlight + 1 /\ UNCHANGED <<asleep, closing>> /\ t \notin asleep
  BY Zenon DEF Enter, Call
<1>d. PICK d \in Int : d = th[t].depth + 1
  BY SMTT(30) DEF Ready, Local
<1> USE <1>d
<1> DEFINE m == [th[t] EXCEPT !.depth = d, !.todo = Tail(th[t].todo)]
<1>2. th' = [th EXCEPT ![t] = m]
  BY <1>g, Call0, Zenon DEF Ready
<1>3. m \in Local
  BY Zenon DEF Local, Ready
<1>4. th' \in [Threads -> Local] /\ th'[t] = m /\ Others(t)
  <2> HIDE DEF m
  <2> QED BY <1>2, <1>3, Takes, Zenon DEF Ready
<1>5. /\ th'[t].todo = Tail(th[t].todo) /\ th'[t].depth = th[t].depth + 1 /\ th'[t].snap = th[t].snap
      /\ th'[t].reg = th[t].reg /\ th'[t].batch = th[t].batch /\ Reads(t) /\ Same(t) /\ Others(t)
  BY <1>3, <1>4, Zenon DEF Local, Same, Holds, Reads, Ready
<1> USE <1>5
<1> HIDE DEF m
<1>6. Typed'
  BY <1>4, SMTT(30) DEF Ready, Typed, Enter, gate, store, epoch, writeback, bounds
<1> USE <1>6
<1>7. Aside(t)
  BY Onward, Zenon DEF Aside, Ready, At
<1> USE <1>7
<1>8. /\ Counted(t) /\ Harmless(t) /\ (Same(t) => Carry(t))
      /\ Same(t) /\ th'[t].snap = th[t].snap => Batched(t)
  <2>1. Quiet(t)
    BY Zenon DEF Quiet, Others, Enter, store, writeback, bounds, At, Aside, Away, Same
  <2>2. ~ Closed(t) /\ ~ Closed(t)'
    BY Zenon DEF Closed, At, Aside, Away
  <2>3. th[t].depth > 0 \/ ~ (closing > 0)
    <3>1. th[t].depth \in 0 .. 2
      BY Depths, Zenon DEF Ready
    <3> QED BY <3>1, SMTT(30)
  <2>4. Counted(t)
    BY <1>g, <2>2, <2>3, Zenon DEF Counted, Enter, At, Aside, Away
  <2> QED BY <2>1, <2>4, QuietStep, Zenon
<1> USE <1>8
<1>9. Numbers' /\ Snapshots'
  BY Kept, Zenon DEF Enter, store, writeback, Holds, Reads
<1>10. Point(t)'
  <2>1. ASSUME NEW k \in Conts, Flushing(t, k) PROVE Point(t)'
    <3>1. Pending(t, k) /\ th[t].depth = 0 /\ Tail(th[t].todo) = CPubIn(BRelease(k))
      BY <2>1, FlushAt, Zenon
    <3>2. Flushing(t, k)'
      BY <3>1, SMTT(30) DEF Flushing, Batched
    <3> QED BY <3>2, Zenon DEF Point
  <2>2. ASSUME NEW k \in BoundaryConts, Bounding(t, k) PROVE Point(t)'
    <3>1. th[t].kind = "mutate" /\ Fresh(t) /\ Free(t) /\ Tail(th[t].todo) = MBegin
      BY <2>2, BoundAt, Zenon
    <3>2. Mutating(t)'
      BY <3>1, SMTT(30) DEF Mutating, Free, Same, Harmless
    <3> QED BY <3>2, Zenon DEF Point
  <2>3. ASSUME Mutating(t) PROVE Point(t)'
    <3>1. th[t].kind = "mutate" /\ th[t].batch = None /\ th[t].snap = None /\ th[t].depth = 1
          /\ Loose(t) /\ Tail(th[t].todo) = CPubIn(KScope)
      BY <2>3, MutateAt, Zenon
    <3>2. Mutating(t)'
      BY <3>1, SMTT(30) DEF Mutating, Same, Harmless
    <3> QED BY <3>2, Zenon DEF Point
  <2>4. ASSUME Finalizing(t) PROVE Point(t)'
    <3>1. th[t].kind = "finalize" /\ th[t].batch = None /\ th[t].depth = 0
          /\ th[t].snap = None /\ Fresh(t) /\ Tail(th[t].todo) = FBegin
      BY <2>4, FinalizeAt, Zenon
    <3>2. Finalizing(t)'
      BY <3>1, SMTT(30) DEF Finalizing, Same, Harmless
    <3> QED BY <3>2, Zenon DEF Point
  <2>5. ASSUME Staging(t) PROVE Point(t)'
    <3>1. th[t].kind = "stage" /\ th[t].batch = None /\ th[t].snap = None /\ Fresh(t)
          /\ th[t].depth = 0 /\ Tail(th[t].todo) = SBegin
      BY <2>5, StageAt, Zenon
    <3>2. Staging(t)'
      BY <3>1, SMTT(30) DEF Staging, Same, Harmless
    <3> QED BY <3>2, Zenon DEF Point
  <2> QED BY <2>1, <2>2, <2>3, <2>4, <2>5, Parts, Zenon DEF Ready, At
<1> QED BY <1>9, <1>10, Zenon DEF Moves, Harmless

\* enter_mutation_gate waits while a boundary closes, unless it nests.
LEMMA EnterStep == ASSUME IInv, NEW t \in Threads, Enter(t) PROVE Moves(t)
<1>1. CASE th[t].depth = 0 /\ closing > 0
  BY <1>1, Sleeps, Zenon DEF Enter
<1>2. CASE ~ (th[t].depth = 0 /\ closing > 0)
  BY <1>2, Enters, Zenon
<1> QED BY <1>1, <1>2, Zenon

\* leave_mutation_gate; the last one out wakes a closer.
LEMMA LeaveStep ==
    ASSUME IInv, NEW t \in Threads, Leave(t)
    PROVE  Moves(t)
<1>1. Ready(t) /\ At(t, "leave")
  BY IsReady, Zenon DEF Leave, At
<1> USE <1>1
<1>d. PICK d \in Int : d = th[t].depth - 1
  BY DEF Ready, Local
<1> USE <1>d
<1> DEFINE m == [th[t] EXCEPT !.depth = d, !.todo = Tail(th[t].todo)]
<1>2. th' = [th EXCEPT ![t] = m]
  BY Call0, Zenon DEF Leave, Call, Ready
<1>3. m \in Local
  BY Zenon DEF Local, Ready
<1>4. th' \in [Threads -> Local] /\ th'[t] = m /\ Others(t)
  <2> HIDE DEF m
  <2> QED BY <1>2, <1>3, Takes, Zenon DEF Ready
<1>5. /\ th'[t].todo = Tail(th[t].todo) /\ th'[t].depth = th[t].depth - 1 /\ th'[t].snap = th[t].snap
      /\ th'[t].reg = th[t].reg /\ th'[t].batch = th[t].batch /\ Reads(t) /\ Same(t) /\ Others(t)
  BY <1>3, <1>4 DEF Local, Same, Holds, Reads, Ready
<1> USE <1>5
<1> HIDE DEF m
<1>6. Typed'
  BY <1>4, SMTT(30) DEF Ready, Typed, Leave, gate, store, epoch, writeback, bounds
<1> USE <1>6
<1>7. Aside(t)
  BY Onward, Zenon DEF Aside, Ready, At
<1> USE <1>7
<1>8. /\ Counted(t) /\ Harmless(t) /\ (Same(t) => Carry(t))
      /\ Same(t) /\ th'[t].snap = th[t].snap => Batched(t)
  <2>1. Quiet(t)
    BY Zenon DEF Quiet, Others, Leave, store, writeback, bounds, At, Aside, Away, Same
  <2>2. t \notin asleep /\ ~ Closed(t) /\ ~ Closed(t)'
    BY Zenon DEF IInv, Gate, Closed, At, Aside, Away
  <2>3. asleep' \subseteq asleep
    BY Zenon DEF Leave
  <2>4. Counted(t)
    BY <2>2, <2>3, Zenon DEF Counted, Leave, At, Aside, Away
  <2> QED BY <2>1, <2>4, QuietStep, Zenon
<1> USE <1>8
<1>9. Numbers' /\ Snapshots'
  BY Kept, Zenon DEF Leave, store, writeback, Holds, Reads
<1>10. Point(t)'
  <2>1. ASSUME NEW k \in Conts, Flushing(t, k) PROVE Point(t)'
    <3>1. Settled(t, k) /\ th[t].depth = 1 /\ Tail(th[t].todo) = BRelease(k)
      BY <2>1, FlushAt, Zenon
    <3>2. Flushing(t, k)'
      BY <3>1, SMTT(30) DEF Flushing, Batched
    <3> QED BY <3>2, Zenon DEF Point
  <2>2. ASSUME Mutating(t) PROVE Point(t)'
    <3>1. /\ th[t].kind = "mutate" /\ th[t].batch = None /\ th[t].snap = None /\ Answer(t)
          /\ \/ th[t].depth = 2 /\ Tail(th[t].todo) = KScope
             \/ th[t].depth = 1 /\ Tail(th[t].todo) = BBump(KReply)
      BY <2>2, MutateAt, Zenon
    <3> USE <3>1
    <3>2. CASE th[t].depth = 2 /\ Tail(th[t].todo) = KScope
      <4>1. Mutating(t)'
        BY <3>2, SMTT(30) DEF Mutating, Same, Carry
      <4> QED BY <4>1, Zenon DEF Point
    <3>3. CASE th[t].depth = 1 /\ Tail(th[t].todo) = BBump(KReply)
      <4>1. Flushing(t, KReply)'
        BY <3>3, SMTT(30) DEF Flushing, Owed, Free, Carry
      <4> QED BY <4>1, Zenon DEF Point, Conts
    <3> QED BY <3>2, <3>3, Zenon
  <2>3. ASSUME Finalizing(t) PROVE Point(t)'
    <3>1. /\ th[t].batch = None /\ th[t].snap = None /\ th[t].depth = 1
          /\ Answer(t) /\ Tail(th[t].todo) = KReply
      BY <2>3, FinalizeAt, Zenon
    <3>2. Free(t)' /\ Owed(t, KReply)'
      BY <3>1, SMTT(30) DEF Free, Owed, Carry
    <3> QED BY <3>1, <3>2, Returned, Zenon DEF Conts
  <2>4. ASSUME Staging(t) PROVE Point(t)'
    <3>1. th[t].kind = "stage" /\ th[t].batch = None /\ th[t].snap = None /\ Fresh(t)
          /\ th[t].depth = 1 /\ Tail(th[t].todo) = SWrite
      BY <2>4, StageAt, Zenon
    <3>2. Staging(t)'
      BY <3>1, SMTT(30) DEF Staging, Same, Harmless
    <3> QED BY <3>2, Zenon DEF Point
  <2> QED BY <2>1, <2>2, <2>3, <2>4, Parts, Zenon DEF Ready, At
<1> QED BY <1>9, <1>10, Zenon DEF Moves, Harmless

\* close_mutation_gate announces the boundary.
LEMMA CloseStep ==
    ASSUME IInv, NEW t \in Threads, Close(t)
    PROVE  Moves(t)
<1>1. Ready(t) /\ At(t, "close")
  BY IsReady, Zenon DEF Close, At
<1> USE <1>1
<1>k. Tail(th[t].todo) # <<>> /\ Head(Tail(th[t].todo)) \in {"capture", "evict_direct"}
  <2>1. PICK k \in BoundaryConts : Tail(th[t].todo) \in {JCapture(k), EEvict(k)}
    BY Parts, BoundAt, Zenon DEF Ready, At
  <2>2. BoundForms(k)
    BY Forms, Zenon
  <2> QED BY <2>1, <2>2, Zenon DEF BoundForms, Shape
<1>p. PICK c \in Todos :
        /\ th' = [th EXCEPT ![t] = [th[t] EXCEPT !.todo = c]]
        /\ c # <<>> /\ Head(c) \in {"drain", "capture", "evict_direct"}
        /\ \/ c = Tail(th[t].todo) /\ inFlight = 0 /\ asleep' = asleep
           \/ c = Then("drain", Tail(th[t].todo)) /\ Head(c) = "drain" /\ asleep' = asleep \cup {t}
  <2>1. /\ <<>> \o Tail(th[t].todo) = Tail(th[t].todo) /\ Tail(th[t].todo) \in Todos
        /\ <<"drain">> \o Tail(th[t].todo) = Then("drain", Tail(th[t].todo))
    BY Callees, Zenon DEF Ready, Typed
  <2>2. Shape(Then("drain", Tail(th[t].todo)), "drain", Tail(th[t].todo))
    BY ThenShape, AreLabels, Zenon DEF Ready
  <2>3. CASE inFlight = 0
    BY <1>k, <2>1, <2>3, Zenon DEF Close, Done, Call
  <2>4. CASE inFlight # 0
    BY <1>k, <2>1, <2>2, <2>4 DEF Close, Call, Shape
  <2> QED BY <2>3, <2>4, Zenon
<1> USE <1>p
<1> DEFINE m == [th[t] EXCEPT !.todo = c]
<1>2. th' = [th EXCEPT ![t] = m]
  OBVIOUS
<1>3. m \in Local
  BY Zenon DEF Local, Ready
<1>4. th' \in [Threads -> Local] /\ th'[t] = m /\ Others(t)
  <2> HIDE DEF m
  <2> QED BY <1>2, <1>3, Takes, Zenon DEF Ready
<1>5. /\ th'[t].todo = c /\ Holds(t) /\ Reads(t) /\ Same(t) /\ Others(t)
  BY <1>3, <1>4, Zenon DEF Local, Same, Holds, Reads, Ready
<1> USE <1>5
<1> HIDE DEF m
<1>6. Typed'
  BY <1>4, SMTT(30) DEF Ready, Typed, Close, gate, store, epoch, writeback, bounds
<1> USE <1>6
<1>7. c # <<>> /\ Head(c) \in {"drain", "capture", "evict_direct"}
  BY Zenon
<1> USE <1>7
<1>8. /\ Counted(t) /\ Harmless(t) /\ (Same(t) => Carry(t))
      /\ Same(t) /\ th'[t].snap = th[t].snap => Batched(t)
  <2>1. Quiet(t)
    BY Zenon DEF Quiet, Others, Close, store, writeback, bounds, At, Same, Holds
  <2>2. t \notin asleep /\ ~ Closed(t) /\ Closed(t)'
    BY Zenon DEF IInv, Gate, Closed, At
  <2>3. Counted(t)
    BY <2>2, Zenon DEF Counted, Close, At, Holds
  <2> QED BY <2>1, <2>3, QuietStep, Zenon DEF Holds
<1>9. Numbers' /\ Snapshots'
  BY Kept, Zenon DEF Close, store, writeback, Holds, Reads
<1>10. Point(t)'
  <2>1. ASSUME NEW k \in BoundaryConts, Bounding(t, k) PROVE Point(t)'
    <3>1. /\ Free(t)
          /\ IF journaled THEN DueOpen(t, k) /\ Tail(th[t].todo) = JCapture(k)
             ELSE DueDurable(t, k) /\ Tail(th[t].todo) = EEvict(k)
      BY <2>1, BoundAt, Zenon
    <3> USE <3>1
    <3>2. IF journaled THEN c \in {JDrain(k), JCapture(k)} ELSE c \in {EDrain(k), EEvict(k)}
      BY Zenon DEF JDrain, EDrain
    <3>3. /\ Free(t)' /\ journaled' = journaled
          /\ DueOpen(t, k) => DueOpen(t, k)'
          /\ DueDurable(t, k) => DueDurable(t, k)'
      BY <1>8, Zenon DEF Free, Holds, Reads, Carry, Harmless, Grows
    <3>4. Bounding(t, k)'
      BY <3>2, <3>3, Zenon DEF Bounding
    <3> QED BY <3>4, Zenon DEF Point
  <2> QED BY <2>1, Parts, Zenon DEF Ready, At
<1> QED BY <1>8, <1>9, <1>10, Zenon DEF Moves, Harmless

\* The gate has drained: nobody is inside.
LEMMA Drains ==
    ASSUME IInv, NEW t \in Threads, Drain(t), inFlight = 0
    PROVE  Moves(t)
<1>1. Ready(t) /\ At(t, "drain")
  BY IsReady, Zenon DEF Drain, At
<1> USE <1>1
<1>k. Tail(th[t].todo) # <<>> /\ Head(Tail(th[t].todo)) \in {"capture", "evict_direct"}
  <2>1. PICK k \in BoundaryConts : Tail(th[t].todo) \in {JCapture(k), EEvict(k)}
    BY Parts, BoundAt, Zenon DEF Ready, At
  <2>2. BoundForms(k)
    BY Forms, Zenon
  <2> QED BY <2>1, <2>2, Zenon DEF BoundForms, Shape
<1> USE <1>k
<1> DEFINE m == [th[t] EXCEPT !.todo = Tail(th[t].todo)]
<1>2. th' = [th EXCEPT ![t] = m]
  BY Call0, Zenon DEF Drain, Call, Done, Ready
<1>3. m \in Local
  BY Zenon DEF Local, Ready
<1>4. th' \in [Threads -> Local] /\ th'[t] = m /\ Others(t)
  <2> HIDE DEF m
  <2> QED BY <1>2, <1>3, Takes, Zenon DEF Ready
<1>5. /\ th'[t].todo = Tail(th[t].todo) /\ Holds(t) /\ Reads(t) /\ Same(t) /\ Others(t)
  BY <1>3, <1>4 DEF Local, Same, Holds, Reads, Ready
<1> USE <1>5
<1> HIDE DEF m
<1>6. Typed'
  BY <1>4, Zenon DEF Ready, Typed, Drain, gate, store, epoch, writeback, bounds
<1> USE <1>6
<1>8. /\ Counted(t) /\ Harmless(t) /\ (Same(t) => Carry(t))
      /\ Same(t) /\ th'[t].snap = th[t].snap => Batched(t)
  <2>1. Quiet(t)
    BY Zenon DEF Quiet, Others, Drain, store, writeback, bounds, At, Same, Holds
  <2>2. Closed(t) /\ Closed(t)'
    BY Zenon DEF Closed, At
  <2>3. Counted(t)
    BY <2>2, Zenon DEF Counted, Drain, At, Holds
  <2> QED BY <2>1, <2>3, QuietStep, Zenon DEF Holds
<1>9. Numbers' /\ Snapshots'
  BY Kept, Zenon DEF Drain, store, writeback, Holds, Reads
<1>10. Point(t)'
  <2>1. ASSUME NEW k \in BoundaryConts, Bounding(t, k) PROVE Point(t)'
    <3>1. /\ Free(t)
          /\ IF journaled THEN DueOpen(t, k) /\ Tail(th[t].todo) = JCapture(k)
             ELSE DueDurable(t, k) /\ Tail(th[t].todo) = EEvict(k)
      BY <2>1, BoundAt, Zenon
    <3>3. /\ Free(t)' /\ journaled' = journaled
          /\ DueOpen(t, k) => DueOpen(t, k)'
          /\ DueDurable(t, k) => DueDurable(t, k)'
      BY <1>8, <3>1, Zenon DEF Free, Holds, Reads, Carry, Harmless, Grows
    <3>4. Bounding(t, k)'
      BY <3>1, <3>3, Zenon DEF Bounding
    <3> QED BY <3>4, Zenon DEF Point
  <2> QED BY <2>1, Parts, Zenon DEF Ready, At
<1> QED BY <1>8, <1>9, <1>10, Zenon DEF Moves, Harmless

\* The closer waits until nobody is inside.
LEMMA DrainStep == ASSUME IInv, NEW t \in Threads, Drain(t) PROVE Moves(t)
<1>1. CASE inFlight = 0
  BY <1>1, Drains, Zenon
<1>2. CASE inFlight # 0
  BY <1>2, Sleeps, Zenon DEF Drain
<1> QED BY <1>1, <1>2, Zenon

-----------------------------------------------------------------------------
(* The durability boundary and the periodic commit. *)

\* The boundary takes the cursor's mutex.
LEMMA LockStep ==
    ASSUME IInv, NEW t \in Threads, Lock(t)
    PROVE  Moves(t)
<1>1. Ready(t) /\ At(t, "lock")
  BY IsReady, Zenon DEF Lock, At
<1> USE <1>1
<1>c. cursor'.through = cursor.through /\ cursor' \in [through : Nat, owner : Threads \cup {None}]
  BY DEF Lock, Ready, Typed
<1> DEFINE m == [th[t] EXCEPT !.failed = FALSE, !.cap = 0, !.todo = Tail(th[t].todo)]
<1>2. th' = [th EXCEPT ![t] = m]
  BY Call0, Zenon DEF Lock, Call, Done, Ready
<1>3. m \in Local
  BY Zenon DEF Local, Ready
<1>4. th' \in [Threads -> Local] /\ th'[t] = m /\ Others(t)
  <2> HIDE DEF m
  <2> QED BY <1>2, <1>3, Takes, Zenon DEF Ready
<1>5. /\ th'[t].todo = Tail(th[t].todo) /\ Holds(t) /\ Same(t)
      /\ th'[t].cap = 0 /\ th'[t].seen = th[t].seen /\ Others(t)
  BY <1>3, <1>4 DEF Local, Same, Holds, Reads, Ready
<1> USE <1>5
<1> HIDE DEF m
<1>6. Typed'
  BY <1>4, <1>c, Zenon DEF Ready, Typed, Lock, gate, store, epoch, writeback, bounds
<1> USE <1>6
<1>7. Aside(t)
  BY Onward, Zenon DEF Aside, Ready, At
<1>8. /\ Counted(t) /\ Harmless(t) /\ (Same(t) => Carry(t))
      /\ Same(t) /\ th'[t].snap = th[t].snap => Batched(t)
  BY <1>7, Plain, Zenon DEF Lock, store, writeback, bounds, Same, Holds
<1>9. Numbers' /\ Snapshots'
  BY Kept, <1>c, Zenon DEF Lock, store, writeback, Holds, Reads
<1>10. Point(t)'
  <2>1. ASSUME NEW k \in BoundaryConts, Bounding(t, k) PROVE Point(t)'
    <3>1. /\ Free(t) /\ DueOpen(t, k)
          /\ IF journaled THEN Tail(th[t].todo) = JClose(k) ELSE Tail(th[t].todo) = DFlush(k)
      BY <2>1, BoundAt, Zenon
    <3>2. Bounding(t, k)'
      BY <1>8, <3>1, Zenon DEF Bounding, Free, Holds, Carry, Harmless, Grows
    <3> QED BY <3>2, Zenon DEF Point
  <2> QED BY <2>1, Parts, Zenon DEF Ready, At
<1> QED BY <1>8, <1>9, <1>10, Zenon DEF Moves, Harmless

\* The capture is taken while nobody is inside, so it cuts no operation in two.
LEMMA CaptureStep ==
    ASSUME IInv, NEW t \in Threads, Capture(t)
    PROVE  Moves(t)
<1>1. Ready(t) /\ At(t, "capture")
  BY IsReady, Zenon DEF Capture, At
<1> USE <1>1
<1>k. Tail(th[t].todo) # <<>> /\ Head(Tail(th[t].todo)) = "journal"
  <2>1. PICK k \in BoundaryConts : Tail(th[t].todo) = JJournal(k)
    BY Parts, BoundAt, Zenon DEF Ready, At
  <2>2. BoundForms(k)
    BY Forms
  <2> QED BY <2>1, <2>2, Zenon DEF BoundForms, Shape
<1> USE <1>k
<1>z. \A u \in Threads : th[u].depth = 0 /\ th[u].snap = None
  <2>1. \A u \in Threads : th[u].depth = 0 /\ Point(u)
    BY Zenon DEF IInv, Gate
  <2> QED BY <2>1, SnapInside, SMTT(30)
<1> DEFINE m == [th[t] EXCEPT !.cap = Len(commits), !.todo = Tail(th[t].todo)]
<1>2. th' = [th EXCEPT ![t] = m]
  BY Call0, Zenon DEF Capture, Call, Done, Ready
<1>3. m \in Local
  BY Zenon DEF Local, Ready
<1>4. th' \in [Threads -> Local] /\ th'[t] = m /\ Others(t)
  <2> HIDE DEF m
  <2> QED BY <1>2, <1>3, Takes, Zenon DEF Ready
<1>5. /\ th'[t].todo = Tail(th[t].todo) /\ Holds(t) /\ Same(t)
      /\ th'[t].cap = Len(commits) /\ th'[t].seen = th[t].seen /\ Others(t)
  BY <1>3, <1>4 DEF Local, Same, Holds, Reads, Ready
<1> USE <1>5
<1> HIDE DEF m
<1>6. Typed'
  BY <1>4, SMTT(30) DEF Ready, Typed, Capture, gate, store, epoch, writeback, bounds, Reopen
<1> USE <1>6
<1>8. /\ Counted(t) /\ Harmless(t) /\ (Same(t) => Carry(t))
      /\ Same(t) /\ th'[t].snap = th[t].snap => Batched(t)
  <2>1. Quiet(t)
    BY <1>z, SMTT(30) DEF Quiet, Others, Capture, store, writeback, bounds, At, Same, Holds
  <2>2. Closed(t) /\ ~ Closed(t)'
    BY Zenon DEF Closed, At
  <2>3. Counted(t)
    BY <2>2, Zenon DEF Counted, Capture, Reopen, At, Holds
  <2> QED BY <2>1, <2>3, QuietStep, Zenon DEF Holds
<1>9. Numbers' /\ Snapshots'
  BY <1>z, NumbersKept, SnapshotsKept, Zenon DEF Capture, store, writeback, Holds
<1>10. Point(t)'
  <2>1. ASSUME NEW k \in BoundaryConts, Bounding(t, k) PROVE Point(t)'
    <3>1. journaled /\ Free(t) /\ DueOpen(t, k) /\ Tail(th[t].todo) = JJournal(k)
      BY <2>1, BoundAt, Zenon
    <3> USE <3>1
    <3>2. /\ Free(t)' /\ journaled' = journaled /\ th'[t].kind = th[t].kind
          /\ Stored(t) => Stored(t)'
          /\ Owed(t, k) => Owed(t, k)'
      BY <1>8, Zenon DEF Free, Holds, Same, Carry, Harmless, Grows
    <3>3. Within(t, th[t].cap)'
      BY SMTT(30) DEF Within, CommitsOf, Capture, store
    <3>4. th'[t].seen.head <= th'[t].cap
      BY Zenon DEF IInv, Numbers
    <3>5. DueCap(t, k)'
      BY <3>2, <3>3, <3>4, Zenon DEF DueOpen, DueCap, Captured
    <3>6. Bounding(t, k)'
      BY <3>2, <3>5, Zenon DEF Bounding
    <3> QED BY <3>6 DEF Point
  <2> QED BY <2>1, Parts, Zenon DEF Ready, At
<1> QED BY <1>8, <1>9, <1>10, Zenon DEF Moves, Harmless

\* A capture that fails reopens the gate.
LEMMA CaptureFailsStep ==
    ASSUME IInv, NEW t \in Threads, CaptureFails(t)
    PROVE  Moves(t)
<1>1. Ready(t) /\ At(t, "capture")
  BY IsReady, Zenon DEF CaptureFails, At
<1> USE <1>1
<1> DEFINE c == SubSeq(th[t].todo, 3, Len(th[t].todo))
<1>p. c \in Todos /\ Away(c) /\ \A k \in BoundaryConts : Bounding(t, k) => c = BUnlock(k)
  <2>1. ASSUME NEW s \in Seq(Labels), s # <<>>, Tail(s) # <<>>
        PROVE  SubSeq(s, 3, Len(s)) = Tail(Tail(s))
    BY SMTT(30)
  <2>2. ASSUME NEW k \in BoundaryConts, Bounding(t, k) PROVE c = BUnlock(k) /\ c \in Todos /\ Away(c)
    <3>1. th[t].todo = JCapture(k)
      BY <2>2, BoundAt, Zenon
    <3>2. BoundForms(k)
      BY Forms
    <3> USE <3>2
    <3>3. c = Tail(Tail(th[t].todo))
      BY <2>1, <3>1, Zenon DEF BoundForms, Shape, Todos
    <3>4. Tail(Tail(th[t].todo)) = BUnlock(k)
      BY <3>1, Zenon DEF BoundForms, Shape
    <3> QED BY <3>3, <3>4, Zenon DEF BoundForms, Shape, Away
  <2>3. \E k \in BoundaryConts : Bounding(t, k)
    BY Parts, Zenon DEF Ready, At
  <2> QED BY <2>2, <2>3, Zenon
<1> USE <1>p
<1> HIDE DEF c
<1> DEFINE m == [th[t] EXCEPT !.todo = c, !.failed = TRUE]
<1>2. th' = [th EXCEPT ![t] = m]
  BY DEF CaptureFails, c
<1>3. m \in Local
  BY Zenon DEF Local, Ready
<1>4. th' \in [Threads -> Local] /\ th'[t] = m /\ Others(t)
  <2> HIDE DEF m
  <2> QED BY <1>2, <1>3, Takes, Zenon DEF Ready
<1>5. /\ th'[t].todo = c /\ Holds(t) /\ Same(t)
      /\ th'[t].failed /\ th'[t].cap = th[t].cap /\ th'[t].seen = th[t].seen /\ Others(t)
  BY <1>3, <1>4 DEF Local, Same, Holds, Reads, Ready
<1> USE <1>5
<1> HIDE DEF m
<1>6. Typed'
  BY <1>4, SMTT(30) DEF Ready, Typed, CaptureFails, gate, store, epoch, writeback, bounds, Reopen
<1> USE <1>6
<1>7. Aside(t)
  BY Zenon DEF Aside
<1> USE <1>7
<1>8. /\ Counted(t) /\ Harmless(t) /\ (Same(t) => Carry(t))
      /\ Same(t) /\ th'[t].snap = th[t].snap => Batched(t)
  <2>1. Quiet(t)
    BY Zenon DEF Quiet, Others, CaptureFails, store, writeback, bounds, At, Aside, Away, Same,
       Holds
  <2>2. Closed(t) /\ ~ Closed(t)'
    BY Zenon DEF Closed, At, Aside, Away
  <2>3. Counted(t)
    BY <2>2, Zenon DEF Counted, CaptureFails, Reopen, At, Aside, Away, Holds
  <2> QED BY <2>1, <2>3, QuietStep, Zenon DEF Holds
<1>9. Numbers' /\ Snapshots'
  BY Kept, Zenon DEF CaptureFails, store, writeback, Holds, Reads
<1>10. Point(t)'
  <2>1. ASSUME NEW k \in BoundaryConts, Bounding(t, k) PROVE Point(t)'
    <3>1. Free(t) /\ DueOpen(t, k) /\ c = BUnlock(k)
      BY <2>1, BoundAt, Zenon
    <3>2. Free(t)' /\ DueOpen(t, k)'
      BY <1>8, <3>1, Zenon DEF Free, Holds, Carry
    <3>3. Bounding(t, k)'
      BY <3>1, <3>2, Zenon DEF Bounding, DueEnd
    <3> QED BY <3>3 DEF Point
  <2> QED BY <2>1, Parts, Zenon DEF Ready, At
<1> QED BY <1>8, <1>9, <1>10, Zenon DEF Moves, Harmless

\* What was captured becomes durable; what came later is above it.
LEMMA JournalStep ==
    ASSUME IInv, NEW t \in Threads, Journal(t)
    PROVE  Moves(t)
<1>1. Ready(t) /\ At(t, "journal")
  BY IsReady, Zenon DEF Journal, At
<1> USE <1>1
<1>p. PICK c \in {Then("evict", Tail(th[t].todo)), Tail(th[t].todo)} :
        /\ th' = [th EXCEPT ![t] = [th[t] EXCEPT !.todo = c]]
        /\ c \in Todos /\ Away(c)
  <2>1. /\ <<>> \o Tail(th[t].todo) = Tail(th[t].todo)
        /\ <<"evict">> \o Tail(th[t].todo) = Then("evict", Tail(th[t].todo))
    BY Callees, Zenon DEF Ready, Typed
  <2>2. Then("evict", Tail(th[t].todo)) \in Todos /\ Away(Then("evict", Tail(th[t].todo)))
    <3>1. Shape(Then("evict", Tail(th[t].todo)), "evict", Tail(th[t].todo))
      BY ThenShape, AreLabels, Zenon DEF Ready
    <3> QED BY <3>1, Zenon DEF Shape, Away
  <2>3. Tail(th[t].todo) \in Todos /\ Away(Tail(th[t].todo))
    BY Onward, Zenon DEF Ready, At
  <2> QED BY <2>1, <2>2, <2>3, Zenon DEF Journal, Call
<1> USE <1>p
<1>x. /\ durable' \in Nat /\ durable <= durable' /\ durable' <= Len(commits)
      /\ durable' \in {durable, th[t].cap} /\ th[t].cap <= durable'
  <2>1. durable \in Nat /\ th[t].cap \in Nat /\ Len(commits) \in Nat
    BY Zenon DEF Ready, Typed, Local
  <2>2. durable <= Len(commits) /\ th[t].cap <= Len(commits)
    BY DEF IInv, Numbers
  <2> QED BY <2>1, <2>2, MaxIs, Zenon DEF Journal
<1> USE <1>x
<1> DEFINE m == [th[t] EXCEPT !.todo = c]
<1>2. th' = [th EXCEPT ![t] = m]
  BY Zenon
<1>3. m \in Local
  BY Zenon DEF Local, Ready
<1>4. th' \in [Threads -> Local] /\ th'[t] = m /\ Others(t)
  <2> HIDE DEF m
  <2> QED BY <1>2, <1>3, Takes, Zenon DEF Ready
<1>5. /\ th'[t].todo = c /\ Holds(t) /\ Reads(t) /\ Same(t) /\ Others(t)
  BY <1>3, <1>4, Zenon DEF Local, Same, Holds, Reads, Ready
<1> USE <1>5
<1> HIDE DEF m
<1>6. Typed'
  BY <1>4, Zenon DEF Ready, Typed, Journal, gate, store, epoch, writeback, bounds
<1> USE <1>6
<1>7. Aside(t)
  BY Zenon DEF Aside
<1>8. /\ Counted(t) /\ Harmless(t) /\ (Same(t) => Carry(t))
      /\ Same(t) /\ th'[t].snap = th[t].snap => Batched(t)
  <2>1. Quiet(t)
    BY <1>7, Zenon DEF Quiet, Others, Journal, writeback, bounds, At, Aside, Away, Same, Holds
  <2>2. Counted(t)
    BY <1>7, Ungated, Zenon DEF Journal, Holds
  <2> QED BY <2>1, <2>2, QuietStep, Zenon DEF Holds
<1>9. Numbers' /\ Snapshots'
  <2>1. Numbers'
    <3>1. UNCHANGED <<commits, evicted, atBoundary, epoch, cursor>>
      BY Zenon DEF Journal
    <3> QED BY <3>1, NumbersGrow, SMTT(30) DEF Reads, Ready
  <2>2. Snapshots'
    BY SnapshotsKept, Zenon DEF Journal, writeback, Holds, Reads
  <2> QED BY <2>1, <2>2, Zenon
<1>10. Point(t)'
  <2>1. ASSUME NEW k \in BoundaryConts, Bounding(t, k) PROVE Point(t)'
    <3>1. journaled /\ Free(t) /\ DueCap(t, k) /\ Tail(th[t].todo) = BUnlock(k)
      BY <2>1, BoundAt, Zenon
    <3> USE <3>1
    <3>2. /\ Free(t)' /\ journaled' = journaled /\ th'[t].kind = th[t].kind /\ th[t].cap \in Nat
          /\ Stored(t) => Stored(t)'
          /\ Owed(t, k) => Owed(t, k)'
      BY <1>8, Zenon DEF Ready, Local, Free, Holds, Same, Carry, Harmless, Grows
    <3> USE <3>2
    <3>3. Within(t, th[t].cap) => Within(t, durable)'
      <4> SUFFICES ASSUME Within(t, th[t].cap), NEW o \in th[t].need \ lost, NEW i \in CommitsOf(o)
                   PROVE  i <= durable'
        BY Zenon DEF Within, Same, Journal, CommitsOf
      <4>1. i <= th[t].cap /\ i \in Int
        BY SMTT(30) DEF Within, CommitsOf
      <4> QED BY <4>1, SMTT(30)
    <3>4. th[t].seen.head <= th[t].cap => th'[t].seen.head <= durable'
      <4>1. th[t].seen.head \in Nat
        BY Zenon DEF Ready, Local, Epochs
      <4> QED BY <4>1, SMTT(30) DEF Reads
    <3>5. DueDurable(t, k)' /\ DueOpen(t, k)'
      BY <3>3, <3>4, Zenon DEF DueOpen, DueCap, DueDurable, Captured, Secured
    <3>6. th'[t].cap <= durable'
      BY Zenon DEF Reads
    <3>7. Bounding(t, k)'
      BY <3>5, <3>6, Zenon DEF Bounding, DueEnd, JEvict
    <3> QED BY <3>7, Zenon DEF Point
  <2> QED BY <2>1, Parts, Zenon DEF Ready, At
<1> QED BY <1>8, <1>9, <1>10, Zenon DEF Moves, Harmless

\* Without a journal the flush takes what the store has.
LEMMA FlushDirectStep ==
    ASSUME IInv, NEW t \in Threads, FlushDirect(t)
    PROVE  Moves(t)
<1>1. Ready(t) /\ At(t, "flush")
  BY IsReady, Zenon DEF FlushDirect, At
<1> USE <1>1
<1>j. ~ journaled
  BY Parts, BoundAt, Zenon DEF Ready, At
<1>x. /\ durable' \in Nat /\ durable <= durable' /\ durable' <= Len(commits)
      /\ durable' = Len(commits)
  <2>1. durable \in Nat /\ th[t].cap \in Nat /\ Len(commits) \in Nat
    BY Zenon DEF Ready, Typed, Local
  <2>2. durable <= Len(commits) /\ th[t].cap <= Len(commits)
    BY Zenon DEF IInv, Numbers
  <2> QED BY <2>1, <2>2, SMTT(30) DEF FlushDirect
<1> USE <1>x
<1> DEFINE m == [th[t] EXCEPT !.cap = Len(commits), !.todo = Tail(th[t].todo)]
<1>2. th' = [th EXCEPT ![t] = m]
  BY Call0, Zenon DEF FlushDirect, Call, Done, Ready
<1>3. m \in Local
  BY Zenon DEF Local, Ready
<1>4. th' \in [Threads -> Local] /\ th'[t] = m /\ Others(t)
  <2> HIDE DEF m
  <2> QED BY <1>2, <1>3, Takes, Zenon DEF Ready
<1>5. /\ th'[t].todo = Tail(th[t].todo) /\ Holds(t) /\ Same(t)
      /\ th'[t].cap = Len(commits) /\ th'[t].seen = th[t].seen /\ Others(t)
  BY <1>3, <1>4 DEF Local, Same, Holds, Reads, Ready
<1> USE <1>5
<1> HIDE DEF m
<1>6. Typed'
  BY <1>4, Zenon DEF Ready, Typed, FlushDirect, gate, store, epoch, writeback, bounds
<1> USE <1>6
<1>7. Aside(t)
  BY Onward, Zenon DEF Aside, Ready, At
<1>8. /\ Counted(t) /\ Harmless(t) /\ (Same(t) => Carry(t))
      /\ Same(t) /\ th'[t].snap = th[t].snap => Batched(t)
  <2>1. Quiet(t)
    BY <1>j, <1>7, Zenon DEF Quiet, Others, FlushDirect, writeback, bounds, At, Aside, Away,
       Same, Holds
  <2>2. Counted(t)
    BY <1>7, Ungated, Zenon DEF FlushDirect, Holds
  <2> QED BY <2>1, <2>2, QuietStep, Zenon DEF Holds
<1>9. Numbers' /\ Snapshots'
  <2>1. Numbers'
    <3>1. UNCHANGED <<commits, evicted, atBoundary, epoch, cursor>>
      BY Zenon DEF FlushDirect
    <3> QED BY <3>1, NumbersGrow, Zenon DEF Ready
  <2>2. Snapshots'
    BY <1>j, SnapshotsKept, Zenon DEF FlushDirect, writeback, Holds
  <2> QED BY <2>1, <2>2
<1>10. Point(t)'
  <2>1. ASSUME NEW k \in BoundaryConts, Bounding(t, k) PROVE Point(t)'
    <3>1. ~ journaled /\ Free(t) /\ DueOpen(t, k) /\ Tail(th[t].todo) = BUnlock(k)
      BY <2>1, BoundAt, Zenon
    <3> USE <3>1
    <3>2. /\ Free(t)' /\ th'[t].kind = th[t].kind
          /\ Stored(t) => Stored(t)'
          /\ Owed(t, k) => Owed(t, k)'
          /\ DueOpen(t, k) => DueOpen(t, k)'
      BY <1>8, Zenon DEF Free, Holds, Same, Carry
    <3>3. Within(t, durable)'
      BY SMTT(30) DEF Within, CommitsOf, FlushDirect
    <3>4. th'[t].seen.head <= durable' /\ th'[t].cap <= durable'
      BY SMTT(30) DEF IInv, Numbers, FlushDirect, Ready
    <3>5. DueDurable(t, k)'
      BY <3>2, <3>3, <3>4, Zenon DEF DueOpen, DueDurable, Secured
    <3>6. Bounding(t, k)'
      BY <3>2, <3>4, <3>5, Zenon DEF Bounding, DueEnd
    <3> QED BY <3>6 DEF Point
  <2> QED BY <2>1, Parts, Zenon DEF Ready, At
<1> QED BY <1>8, <1>9, <1>10, Zenon DEF Moves, Harmless

\* A device error leaves cursor and durable position alone.
LEMMA DeviceFailsStep ==
    ASSUME IInv, NEW t \in Threads, DeviceFails(t)
    PROVE  Moves(t)
<1>1. Ready(t) /\ \E l \in {"journal", "flush"} : At(t, l)
  BY IsReady DEF DeviceFails, At
<1> USE <1>1
<1> DEFINE m == [th[t] EXCEPT !.failed = TRUE, !.todo = Tail(th[t].todo)]
<1>2. th' = [th EXCEPT ![t] = m]
  BY Call0, Zenon DEF DeviceFails, Call, Done, Ready
<1>3. m \in Local
  BY Zenon DEF Local, Ready
<1>4. th' \in [Threads -> Local] /\ th'[t] = m /\ Others(t)
  <2> HIDE DEF m
  <2> QED BY <1>2, <1>3, Takes, Zenon DEF Ready
<1>5. /\ th'[t].todo = Tail(th[t].todo) /\ Holds(t) /\ Same(t)
      /\ th'[t].failed /\ th'[t].cap = th[t].cap /\ th'[t].seen = th[t].seen /\ Others(t)
  BY <1>3, <1>4 DEF Local, Same, Holds, Reads, Ready
<1> USE <1>5
<1> HIDE DEF m
<1>6. Typed'
  BY <1>4, SMTT(30) DEF Ready, Typed, DeviceFails, gate, store, epoch, writeback, bounds
<1> USE <1>6
<1>7. Aside(t)
  BY Onward, Zenon DEF Aside, Ready, At
<1>8. /\ Counted(t) /\ Harmless(t) /\ (Same(t) => Carry(t))
      /\ Same(t) /\ th'[t].snap = th[t].snap => Batched(t)
  BY <1>7, Plain, Zenon DEF DeviceFails, store, writeback, bounds, Same, Holds
<1>9. Numbers' /\ Snapshots'
  BY Kept, Zenon DEF DeviceFails, store, writeback, Holds, Reads
<1>10. Point(t)'
  <2>1. ASSUME NEW k \in BoundaryConts, Bounding(t, k) PROVE Point(t)'
    <3>1. Free(t) /\ (DueOpen(t, k) \/ DueCap(t, k)) /\ Tail(th[t].todo) = BUnlock(k)
      BY <2>1, BoundAt, Zenon
    <3>2. Bounding(t, k)'
      BY <1>8, <3>1, Zenon DEF Bounding, DueEnd, DueOpen, DueCap, Captured, Free, Holds, Carry,
         Harmless, Grows
    <3> QED BY <3>2 DEF Point
  <2> QED BY <2>1, Parts, Zenon DEF Ready, At
<1> QED BY <1>8, <1>9, <1>10, Zenon DEF Moves, Harmless

\* The cursor moves to what is durable and the mutex is given back.
LEMMA UnlockStep ==
    ASSUME IInv, NEW t \in Threads, Unlock(t)
    PROVE  Moves(t)
<1>1. Ready(t) /\ At(t, "unlock")
  BY IsReady, Zenon DEF Unlock, At
<1> USE <1>1
<1>p. PICK c \in {EClose(Tail(th[t].todo)), Tail(th[t].todo)} :
        /\ th' = [th EXCEPT ![t] = [th[t] EXCEPT !.todo = c]]
        /\ c \in Todos /\ Away(c)
        /\ (~ journaled /\ ~ th[t].failed) \/ c = Tail(th[t].todo)
  <2>1. /\ <<>> \o Tail(th[t].todo) = Tail(th[t].todo)
        /\ EvictQuiesced \o Tail(th[t].todo) = EClose(Tail(th[t].todo))
    BY Callees, Zenon DEF Ready, Typed
  <2>2. EClose(Tail(th[t].todo)) \in Todos /\ Away(EClose(Tail(th[t].todo)))
    BY FrameShapes, ZenonT(30) DEF Ready, Shape, Away
  <2>3. Tail(th[t].todo) \in Todos /\ Away(Tail(th[t].todo))
    BY Onward, Zenon DEF Ready, At
  <2> QED BY <2>1, <2>2, <2>3, Zenon DEF Unlock, Call
<1> USE <1>p
<1>c. /\ Numbers /\ cursor' \in [through : Nat, owner : Threads \cup {None}]
      /\ cursor'.through <= durable
  <2>1. Numbers
    BY DEF IInv
  <2>2. th[t].failed \/ th[t].cap <= durable
    BY Parts, BoundAt, Zenon DEF Ready, At
  <2>3. cursor.through \in Nat /\ th[t].cap \in Nat /\ durable \in Nat /\ cursor.through <= durable
    BY <2>1, Zenon DEF Ready, Typed, Local, Numbers
  <2> USE <2>3
  <2>4. Max({cursor.through, th[t].cap}) \in {cursor.through, th[t].cap}
    BY MaxIs, Zenon
  <2>5. ~ th[t].failed => Max({cursor.through, th[t].cap}) \in Nat /\ Max({cursor.through, th[t].cap}) <= durable
    BY <2>2, <2>4, Zenon
  <2> QED BY <2>1, <2>5, Zenon DEF Unlock
<1> USE <1>c
<1> DEFINE m == [th[t] EXCEPT !.todo = c]
<1>2. th' = [th EXCEPT ![t] = m]
  BY Zenon
<1>3. m \in Local
  BY Zenon DEF Local, Ready
<1>4. th' \in [Threads -> Local] /\ th'[t] = m /\ Others(t)
  <2> HIDE DEF m
  <2> QED BY <1>2, <1>3, Takes, Zenon DEF Ready
<1>5. /\ th'[t].todo = c /\ Holds(t) /\ Reads(t) /\ Same(t) /\ Others(t)
  BY <1>3, <1>4, Zenon DEF Local, Same, Holds, Reads, Ready
<1> USE <1>5
<1> HIDE DEF m
<1>6. Typed'
  BY <1>4, Zenon DEF Ready, Typed, Unlock, gate, store, epoch, writeback, bounds
<1> USE <1>6
<1>7. Aside(t)
  BY Zenon DEF Aside
<1>8. /\ Counted(t) /\ Harmless(t) /\ (Same(t) => Carry(t))
      /\ Same(t) /\ th'[t].snap = th[t].snap => Batched(t)
  BY <1>7, Plain, Zenon DEF Unlock, store, writeback, bounds, Same, Holds
<1>9. Numbers' /\ Snapshots'
  <2>f. /\ Len(commits) \in Nat /\ mutationEpoch.count \in Nat
        /\ evicted <= durable /\ durable <= Len(commits) /\ cursor.through <= durable
        /\ atBoundary <= durable /\ mutationEpoch.head <= Len(commits) /\ committedEpoch.head <= durable
        /\ committedEpoch.count <= mutationEpoch.count /\ th[t].cap <= Len(commits)
        /\ th[t].seen.head <= Len(commits) /\ th[t].seen.count <= mutationEpoch.count
    BY Zenon DEF Numbers, Ready, Typed, Epochs
  <2>g. UNCHANGED <<commits, durable, evicted, atBoundary, mutationEpoch, committedEpoch>>
    BY Zenon DEF Unlock, store, epoch
  <2>n. Numbers'
    BY <2>f, <2>g, NumbersStep, SMTT(30) DEF Reads
  <2>s. Snapshots'
    BY SnapshotsKept, Zenon DEF Unlock, store, writeback, Holds, Reads
  <2> QED BY <2>n, <2>s, Zenon
<1>10. Point(t)'
  <2>1. ASSUME NEW k \in BoundaryConts, Bounding(t, k) PROVE Point(t)'
    <3>1. Free(t) /\ DueEnd(t, k) /\ Tail(th[t].todo) = k
      BY <2>1, BoundAt, Zenon
    <3>2. /\ Free(t)' /\ journaled' = journaled /\ th'[t].failed = th[t].failed
          /\ DueOpen(t, k) => DueOpen(t, k)'
          /\ DueDurable(t, k) => DueDurable(t, k)'
      BY <1>8, <3>1, Zenon DEF Free, Holds, Reads, Carry, Harmless, Grows
    <3>3. Bounding(t, k)'
      BY <3>1, <3>2, Zenon DEF Bounding, DueEnd
    <3> QED BY <3>3 DEF Point
  <2> QED BY <2>1, Parts, Zenon DEF Ready, At
<1> QED BY <1>8, <1>9, <1>10 DEF Moves, Harmless

\* periodic_commit reads the mutation epoch before the boundary.
LEMMA TickLoadStep ==
    ASSUME IInv, NEW t \in Threads, TickLoad(t)
    PROVE  Moves(t)
<1>1. Ready(t) /\ At(t, "tick_load")
  BY IsReady DEF TickLoad, At
<1> USE <1>1
<1>e. Numbers /\ mutationEpoch \in Epochs
  BY Zenon DEF IInv, Ready, Typed
<1> DEFINE m == [th[t] EXCEPT !.seen = mutationEpoch, !.todo = Tail(th[t].todo)]
<1>2. th' = [th EXCEPT ![t] = m]
  BY Call0, Zenon DEF TickLoad, Call, Done, Ready
<1>3. m \in Local
  BY <1>e, Zenon DEF Local, Ready
<1>4. th' \in [Threads -> Local] /\ th'[t] = m /\ Others(t)
  <2> HIDE DEF m
  <2> QED BY <1>2, <1>3, Takes, Zenon DEF Ready
<1>5. /\ th'[t].todo = Tail(th[t].todo) /\ Holds(t) /\ Same(t)
      /\ th'[t].seen = mutationEpoch /\ th'[t].cap = th[t].cap /\ Others(t)
  BY <1>3, <1>4 DEF Local, Same, Holds, Reads, Ready
<1> USE <1>5
<1> HIDE DEF m
<1>6. Typed'
  BY <1>4 DEF Ready, Typed, TickLoad, gate, store, epoch, writeback, bounds
<1> USE <1>6
<1>7. Aside(t)
  BY Onward, Zenon DEF Aside, Ready, At
<1>8. /\ Counted(t) /\ Harmless(t) /\ (Same(t) => Carry(t))
      /\ Same(t) /\ th'[t].snap = th[t].snap => Batched(t)
  BY <1>7, Plain, Zenon DEF TickLoad, store, writeback, bounds, Same, Holds
<1>9. Numbers' /\ Snapshots'
  <2>f. /\ Len(commits) \in Nat /\ mutationEpoch.count \in Nat
        /\ evicted <= durable /\ durable <= Len(commits) /\ cursor.through <= durable
        /\ atBoundary <= durable /\ mutationEpoch.head <= Len(commits) /\ committedEpoch.head <= durable
        /\ committedEpoch.count <= mutationEpoch.count /\ th[t].cap <= Len(commits)
        /\ th[t].seen.head <= Len(commits) /\ th[t].seen.count <= mutationEpoch.count
    BY <1>e, Zenon DEF Numbers, Ready, Typed, Epochs
  <2>g. UNCHANGED <<commits, durable, evicted, atBoundary, cursor, mutationEpoch, committedEpoch>>
    BY Zenon DEF TickLoad, store, epoch
  <2>n. Numbers'
    BY <2>f, <2>g, NumbersStep, SMTT(30) DEF Reads
  <2>s. Snapshots'
    BY SnapshotsKept, Zenon DEF TickLoad, store, writeback, Holds, Reads
  <2> QED BY <2>n, <2>s
<1>10. Point(t)'
  <2>1. ASSUME Ticking(t) PROVE Point(t)'
    <3>1. th[t].kind = "tick" /\ Free(t) /\ Tail(th[t].todo) = TCheck
      BY <2>1, TickAt, Zenon
    <3>2. Ticking(t)'
      BY <3>1, Zenon DEF Ticking, Free, Holds, Same
    <3> QED BY <3>2 DEF Point
  <2> QED BY <2>1, Parts, Zenon DEF Ready, At
<1> QED BY <1>8, <1>9, <1>10, Zenon DEF Moves, Harmless

\* It goes on if that epoch is not the committed one, or the store is ahead of
\* the cursor.
LEMMA TickCheckStep ==
    ASSUME IInv, NEW t \in Threads, TickCheck(t)
    PROVE  Moves(t)
<1>1. Ready(t) /\ At(t, "tick_check")
  BY IsReady, Zenon DEF TickCheck, At
<1> USE <1>1
<1>p. PICK c \in {BLock(journaled, Then("tick_mark", Tail(th[t].todo))), Tail(th[t].todo)} :
        /\ th' = [th EXCEPT ![t] = [th[t] EXCEPT !.todo = c]]
        /\ c \in Todos /\ Away(c)
  <2> DEFINE k == Then("tick_mark", Tail(th[t].todo))
  <2>1. /\ <<>> \o Tail(th[t].todo) = Tail(th[t].todo)
        /\ (Boundary \o <<"tick_mark">>) \o Tail(th[t].todo) = BLock(journaled, k)
    BY Callees, Zenon DEF Ready, Typed
  <2>k. k \in Todos
    BY ThenIs, AreLabels, Zenon DEF Ready
  <2> HIDE DEF k
  <2>2. BLock(journaled, k) \in Todos /\ Away(BLock(journaled, k))
    BY <2>k, FrameShapes, ZenonT(30) DEF Shape, Away, BLock
  <2>3. Tail(th[t].todo) \in Todos /\ Away(Tail(th[t].todo))
    BY Onward, Zenon DEF Ready, At
  <2> QED BY <2>1, <2>2, <2>3, Zenon DEF TickCheck, Call, k
<1> USE <1>p
<1> DEFINE m == [th[t] EXCEPT !.todo = c]
<1>2. th' = [th EXCEPT ![t] = m]
  OBVIOUS
<1>3. m \in Local
  BY Zenon DEF Local, Ready
<1>4. th' \in [Threads -> Local] /\ th'[t] = m /\ Others(t)
  <2> HIDE DEF m
  <2> QED BY <1>2, <1>3, Takes, Zenon DEF Ready
<1>5. /\ th'[t].todo = c /\ Holds(t) /\ Reads(t) /\ Same(t) /\ Others(t)
  BY <1>3, <1>4, Zenon DEF Local, Same, Holds, Reads, Ready
<1> USE <1>5
<1> HIDE DEF m
<1>6. Typed'
  BY <1>4, Zenon DEF Ready, Typed, TickCheck, gate, store, epoch, writeback, bounds
<1> USE <1>6
<1>7. Aside(t)
  BY Zenon DEF Aside
<1>8. /\ Counted(t) /\ Harmless(t) /\ (Same(t) => Carry(t))
      /\ Same(t) /\ th'[t].snap = th[t].snap => Batched(t)
  BY <1>7, Plain, Zenon DEF TickCheck, store, writeback, bounds, Same, Holds
<1>9. Numbers' /\ Snapshots'
  BY Kept, Zenon DEF TickCheck, store, writeback, Holds, Reads
<1>10. Point(t)'
  <2>1. ASSUME Ticking(t) PROVE Point(t)'
    <3>1. th[t].kind = "tick" /\ Free(t) /\ Tail(th[t].todo) = KReply
      BY <2>1, TickAt, Zenon
    <3> USE <3>1
    <3>2. Free(t)' /\ journaled' = journaled /\ th'[t].kind = "tick"
      BY <1>8, Zenon DEF Free, Holds, Same, Harmless, Grows
    <3> USE <3>2
    <3>3. CASE c = Tail(th[t].todo)
      <4>1. Owed(t, KReply)'
        BY Zenon DEF Owed, Answer
      <4> QED BY <3>3, <4>1, Returned, Zenon DEF Conts
    <3>4. CASE c = BLock(journaled, Then("tick_mark", Tail(th[t].todo)))
      <4>1. Bounding(t, KMark)'
        BY <3>4, Zenon DEF Bounding, DueOpen, BLock, KMark
      <4> QED BY <4>1, Zenon DEF Point, BoundaryConts
    <3> QED BY <3>3, <3>4, Zenon
  <2> QED BY <2>1, Parts, Zenon DEF Ready, At
<1> QED BY <1>8, <1>9, <1>10, Zenon DEF Moves, Harmless

\* It records the epoch that it read, which the boundary covers.
LEMMA TickMarkStep ==
    ASSUME IInv, NEW t \in Threads, TickMark(t)
    PROVE  Moves(t)
<1>1. Ready(t) /\ At(t, "tick_mark")
  BY IsReady, Zenon DEF TickMark, At
<1> USE <1>1
<1>c. /\ Numbers /\ committedEpoch' \in {committedEpoch, th[t].seen}
      /\ committedEpoch' \in Epochs /\ committedEpoch'.head <= durable
  <2>1. Numbers /\ committedEpoch \in Epochs /\ th[t].seen \in Epochs
    BY Zenon DEF IInv, Ready, Typed, Local
  <2>2. th[t].failed \/ th[t].seen.head <= durable
    BY Parts, BoundAt, Zenon DEF Ready, At
  <2> QED BY <2>1, <2>2, Zenon DEF TickMark, Numbers
<1> USE <1>c
<1> DEFINE m == [th[t] EXCEPT !.todo = Tail(th[t].todo)]
<1>2. th' = [th EXCEPT ![t] = m]
  BY Call0, Zenon DEF TickMark, Call, Done, Ready
<1>3. m \in Local
  BY Zenon DEF Local, Ready
<1>4. th' \in [Threads -> Local] /\ th'[t] = m /\ Others(t)
  <2> HIDE DEF m
  <2> QED BY <1>2, <1>3, Takes, Zenon DEF Ready
<1>5. /\ th'[t].todo = Tail(th[t].todo) /\ Holds(t) /\ Reads(t) /\ Same(t) /\ Others(t)
  BY <1>3, <1>4 DEF Local, Same, Holds, Reads, Ready
<1> USE <1>5
<1> HIDE DEF m
<1>6. Typed'
  BY <1>4, Zenon DEF Ready, Typed, TickMark, gate, store, epoch, writeback, bounds
<1> USE <1>6
<1>7. Aside(t)
  BY Onward, Zenon DEF Aside, Ready, At
<1>8. /\ Counted(t) /\ Harmless(t) /\ (Same(t) => Carry(t))
      /\ Same(t) /\ th'[t].snap = th[t].snap => Batched(t)
  BY <1>7, Plain, Zenon DEF TickMark, store, writeback, bounds, Same, Holds
<1>9. Numbers' /\ Snapshots'
  <2>f. /\ Len(commits) \in Nat /\ mutationEpoch.count \in Nat
        /\ evicted <= durable /\ durable <= Len(commits) /\ cursor.through <= durable
        /\ atBoundary <= durable /\ mutationEpoch.head <= Len(commits) /\ committedEpoch.head <= durable
        /\ committedEpoch.count <= mutationEpoch.count /\ th[t].cap <= Len(commits)
        /\ th[t].seen.head <= Len(commits) /\ th[t].seen.count <= mutationEpoch.count
    BY Zenon DEF Numbers, Ready, Typed, Epochs
  <2>g. UNCHANGED <<commits, durable, evicted, atBoundary, cursor, mutationEpoch>>
    BY Zenon DEF TickMark, store, epoch
  <2>n. Numbers'
    BY <2>f, <2>g, NumbersStep, SMTT(30) DEF Reads
  <2>s. Snapshots'
    BY SnapshotsKept, Zenon DEF TickMark, store, writeback, Holds, Reads
  <2> QED BY <2>n, <2>s
<1>10. Point(t)'
  <2>1. ASSUME NEW k \in BoundaryConts, Bounding(t, k) PROVE Point(t)'
    <3>1. th[t].kind = "tick" /\ Free(t) /\ Tail(th[t].todo) = KReply
      BY <2>1, BoundAt, Zenon
    <3>2. Free(t)' /\ th'[t].kind = "tick"
      BY <3>1, Zenon DEF Free, Holds, Same
    <3>3. Owed(t, KReply)'
      BY <3>2, Zenon DEF Owed, Answer
    <3> QED BY <3>1, <3>2, <3>3, Returned, Zenon DEF Conts
  <2> QED BY <2>1, Parts, Zenon DEF Ready, At
<1> QED BY <1>8, <1>9, <1>10, Zenon DEF Moves, Harmless
-----------------------------------------------------------------------------
INSTANCE FiniteSetTheorems
INSTANCE NaturalsInduction
INSTANCE WellFoundedInduction

\* Threads, entries and closers are finitely many.
LEMMA FiniteThreads ==
    IsFiniteSet(Threads) /\ IsFiniteSet(Entries) /\ IsFiniteSet(Closers)
<1>1. IsFiniteSet(Threads)
  BY MutationAssumption, FS_AddElement, Zenon DEF Threads
<1>2. IsFiniteSet({1, 2})
  <2>1. IsFiniteSet({}) /\ {1} = {} \cup {1} /\ {1, 2} = {1} \cup {2}
    BY FS_EmptySet, Zenon
  <2>2. IsFiniteSet({1})
    BY <2>1, FS_AddElement, SMTT(30)
  <2> QED BY <2>1, <2>2, FS_AddElement, SMTT(30)
<1>3. IsFiniteSet(Threads \X {1, 2})
  BY <1>1, <1>2, FS_Product, Zenon
<1>4. Entries \subseteq Threads \X {1, 2} /\ Closers \subseteq Threads
  BY Zenon DEF Entries, Closers
<1> QED BY <1>1, <1>3, <1>4, FS_Subset, Zenon

\* How a step of t changes the number of closers.
LEMMA ClosersStep ==
    ASSUME NEW t \in Threads, Others(t)
    PROVE  /\ (Closed(t)' <=> Closed(t)) => Cardinality(Closers)' = Cardinality(Closers)
           /\ Closed(t)' /\ ~ Closed(t) => Cardinality(Closers)' = Cardinality(Closers) + 1
           /\ ~ Closed(t)' /\ Closed(t) => Cardinality(Closers)' = Cardinality(Closers) - 1
<1>1. \A u \in Threads \ {t} : Closed(u)' <=> Closed(u)
  BY Zenon DEF Others, Closed, At
<1> USE <1>1
<1>2. IsFiniteSet(Closers)
  BY FiniteThreads, Zenon
<1>3. (Closed(t)' <=> Closed(t)) => Closers' = Closers
  BY Zenon DEF Closers
<1>4. Closed(t)' /\ ~ Closed(t) => Closers' = Closers \cup {t} /\ t \notin Closers
  BY Zenon DEF Closers
<1>5. ~ Closed(t)' /\ Closed(t) => Closers' = Closers \ {t} /\ t \in Closers
  BY Zenon DEF Closers
<1> QED BY <1>2, <1>3, <1>4, <1>5, FS_AddElement, FS_RemoveElement, SMTT(30)

\* One pair for each level of each thread.
LEMMA Pairs ==
    ASSUME NEW S, NEW t \in S, NEW d \in {1, 2}
    PROVE  \E p \in S \X {1, 2} :
             /\ p[1] = t /\ p[2] = d
             /\ \A x \in S \X {1, 2} : x[1] = t /\ x[2] = d => x = p
<1> DEFINE p == <<t, d>>
<1>1. p \in S \X {1, 2} /\ p[1] = t /\ p[2] = d
  BY Zenon
<1>2. \A x \in S \X {1, 2} : x[1] = t /\ x[2] = d => x = p
  BY SMTT(30)
<1> QED BY <1>1, <1>2, Zenon

\* How a step of t changes the number of entries.
LEMMA EntriesStep ==
    ASSUME Typed, NEW t \in Threads, Others(t), th'[t].depth \in Int
    PROVE  /\ th'[t].depth = th[t].depth => Cardinality(Entries)' = Cardinality(Entries)
           /\ th[t].depth \in {0, 1} /\ th'[t].depth = th[t].depth + 1
                => Cardinality(Entries)' = Cardinality(Entries) + 1
           /\ th[t].depth \in {1, 2} /\ th'[t].depth = th[t].depth - 1
                => Cardinality(Entries)' = Cardinality(Entries) - 1
<1>d. th[t].depth \in Int
  BY Zenon DEF Typed, Local
<1> USE <1>d
<1>1. \A u \in Threads \ {t} : th'[u].depth = th[u].depth
  BY Zenon DEF Others
<1> USE <1>1
<1>2. IsFiniteSet(Entries)
  BY FiniteThreads, Zenon
<1> DEFINE P == Threads \X {1, 2}
           E == Entries
           F == Entries'
<1>p. \A x \in P : x[1] \in Threads /\ x[2] \in {1, 2}
  BY Zenon
<1> USE <1>p
<1>e. /\ \A x : x \in E <=> x \in P /\ x[2] <= th[x[1]].depth
      /\ \A x : x \in F <=> x \in P /\ x[2] <= th'[x[1]].depth
  BY Zenon DEF Entries
<1> USE <1>e
<1>q. \A d \in {1, 2} : \E p \in P :
        p[1] = t /\ p[2] = d /\ \A x \in P : x[1] = t /\ x[2] = d => x = p
  BY Pairs, SMTT(30)
<1>6. IsFiniteSet(E)
  BY <1>2, Zenon DEF E
<1>7. Cardinality(E) = Cardinality(Entries) /\ Cardinality(F) = Cardinality(Entries)'
  BY Zenon DEF E, F
<1> HIDE DEF P, E, F
<1>3. th'[t].depth = th[t].depth => F = E
  BY Zenon
<1>4. ASSUME th[t].depth \in {0, 1}, th'[t].depth = th[t].depth + 1
      PROVE  \E p : F = E \cup {p} /\ p \notin E
  <2> USE <1>4
  <2>1. PICK p \in P : p[1] = t /\ p[2] = th'[t].depth
                         /\ \A x \in P : x[1] = t /\ x[2] = th'[t].depth => x = p
    <3>1. th'[t].depth \in {1, 2}
      BY SMTT(30)
    <3> QED BY <3>1, <1>q, Zenon
  <2> USE <2>1
  <2>2. p \notin E /\ p \in F
    BY SMTT(30)
  <2>3. \A x : x \in F <=> x \in E \/ x = p
    <3>1. ASSUME NEW x \in P, x[1] # t PROVE x \in F <=> x \in E
      BY <3>1, Zenon
    <3>2. ASSUME NEW x \in P, x[1] = t PROVE x \in F <=> x \in E \/ x = p
      BY <3>2, SMTT(30)
    <3> QED BY <3>1, <3>2, Zenon
  <2> QED BY <2>2, <2>3
<1>5. ASSUME th[t].depth \in {1, 2}, th'[t].depth = th[t].depth - 1
      PROVE  \E p : F = E \ {p} /\ p \in E
  <2> USE <1>5
  <2>1. PICK p \in P : p[1] = t /\ p[2] = th[t].depth
                         /\ \A x \in P : x[1] = t /\ x[2] = th[t].depth => x = p
    BY <1>q, Zenon
  <2> USE <2>1
  <2>2. p \in E /\ p \notin F
    BY SMTT(30)
  <2>3. \A x : x \in F <=> x \in E /\ x # p
    <3>1. ASSUME NEW x \in P, x[1] # t PROVE x \in F <=> x \in E
      BY <3>1
    <3>2. ASSUME NEW x \in P, x[1] = t PROVE x \in F <=> x \in E /\ x # p
      BY <3>2, SMTT(30)
    <3> QED BY <3>1, <3>2, Zenon
  <2> QED BY <2>2, <2>3, Zenon
<1>8. ASSUME NEW p, F = E \cup {p}, p \notin E PROVE Cardinality(F) = Cardinality(E) + 1
  BY <1>6, <1>8, FS_AddElement, Zenon
<1>9. ASSUME NEW p, F = E \ {p}, p \in E PROVE Cardinality(F) = Cardinality(E) - 1
  BY <1>6, <1>9, FS_RemoveElement, Zenon
<1> QED BY <1>3, <1>4, <1>5, <1>7, <1>8, <1>9, Zenon

\* While the gate is drained nobody is inside it, and a boundary that is past
\* its drain keeps it closed.
LEMMA Drained ==
    ASSUME IInv
    PROVE  /\ inFlight = 0 => \A u \in Threads : th[u].depth = 0
           /\ \A u \in Threads : Closed(u) => closing > 0
<1>1. ASSUME NEW u \in Threads, inFlight = 0 PROVE th[u].depth = 0
  <2>1. Entries = {}
    BY <1>1, FiniteThreads, FS_EmptySet, Zenon DEF IInv, Gate
  <2>2. th[u].depth \in 0 .. 2
    BY Depths DEF IInv
  <2>3. ~ (1 <= th[u].depth)
    <3>1. <<u, 1>> \notin Entries
      BY <2>1, Zenon
    <3> QED BY <3>1, Zenon DEF Entries
  <2> QED BY <2>2, <2>3, SMTT(30)
<1>2. ASSUME NEW u \in Threads, Closed(u) PROVE closing > 0
  <2>1. Closers # {}
    BY <1>2, Zenon DEF Closers
  <2>2. Cardinality(Closers) \in Nat /\ Cardinality(Closers) # 0
    BY <2>1, FiniteThreads, FS_EmptySet, FS_CardinalityType, Zenon
  <2> QED BY <2>2, SMTT(30) DEF IInv, Gate
<1> QED BY <1>1, <1>2

\* No thread nests more than twice.
LEMMA AllDepths == \A v \in Threads : Point(v) => th[v].depth \in 0 .. 2
BY Depths, Zenon

\* The gate's invariant follows from what a step does to its counters.
LEMMA GateStepKept ==
    ASSUME IInv, Typed', NEW t \in Threads, Counted(t), \A u \in Threads : Point(u)'
    PROVE  Gate'
<1>t. Gate /\ Typed /\ th[t].depth \in 0 .. 2 /\ th'[t].depth \in 0 .. 2 /\ Others(t)
  <2>1. Gate /\ Typed /\ Point(t) /\ Point(t)' /\ Others(t)
    BY Zenon DEF IInv, Counted
  <2> USE <2>1
  <2>2. th[t].depth \in 0 .. 2
    BY Depths, Zenon
  <2>3. (th[t].depth \in 0 .. 2)'
    BY Depths, PTL
  <2> QED BY <2>2, <2>3, Zenon
<1> USE <1>t
<1>1. closing' = Cardinality(Closers)'
  BY ClosersStep, SMTT(30) DEF Counted, Gate
<1>2. inFlight' = Cardinality(Entries)'
  BY EntriesStep, SMTT(30) DEF Counted, Gate
<1>3. \A u \in asleep' : At(u, "drain")' \/ (At(u, "enter")' /\ th'[u].depth = 0)
  <2>1. ASSUME NEW u \in asleep', u # t PROVE At(u, "drain")' \/ (At(u, "enter")' /\ th'[u].depth = 0)
    <3>1. u \in asleep /\ u \in Threads /\ th'[u] = th[u]
      BY <2>1, Zenon DEF Counted, Typed, Others
    <3> QED BY <3>1, Zenon DEF Gate, At
  <2> QED BY <2>1, Zenon DEF Counted
<1>4. ASSUME NEW u \in Threads, At(u, "capture")' \/ At(u, "evict_direct")'
      PROVE  inFlight' = 0
  <2>1. CASE u = t
    BY <1>4, <2>1, Zenon DEF Counted
  <2>2. CASE u # t
    <3>1. th'[u] = th[u]
      BY <2>2, Zenon DEF Others
    <3>2. (At(u, "capture") \/ At(u, "evict_direct")) /\ Closed(u)
      BY <1>4, <3>1, Zenon DEF At, Closed
    <3>3. inFlight = 0 /\ closing > 0 /\ th[t].depth = 0
      BY <3>2, Drained, Zenon DEF Gate
    <3> QED BY <3>3, SMTT(30) DEF Counted
  <2> QED BY <2>1, <2>2, Zenon
<1>5. ASSUME inFlight' = 0, NEW u \in Threads PROVE th'[u].depth = 0
  <2>1. IsFiniteSet(Entries)' /\ (th[u].depth \in 0 .. 2)'
    <3>1. (\A v \in Threads : Point(v) => th[v].depth \in 0 .. 2)'
      BY AllDepths, PTL
    <3>2. (th[u].depth \in 0 .. 2)'
      BY <3>1, Zenon
    <3>3. IsFiniteSet(Entries)'
      BY FiniteThreads, PTL
    <3> QED BY <3>2, <3>3, Zenon
  <2>2. Entries' = {}
    BY <1>2, <1>5, <2>1, FS_EmptySet, Zenon
  <2>3. ~ (1 <= th'[u].depth)
    <3>1. <<u, 1>> \notin Entries'
      BY <2>2, Zenon
    <3> QED BY <3>1 DEF Entries
  <2> QED BY <2>1, <2>3, SMTT(30)
<1> QED BY <1>1, <1>2, <1>3, <1>4, <1>5, Zenon DEF Gate

\* A nonempty set of naturals has a least element.
LEMMA LeastExists ==
    ASSUME NEW S, S \subseteq Nat, S # {}
    PROVE  \E m \in S : \A d \in S : m <= d
<1>1. PICK m \in S : \A d \in S : ~ (<<d, m>> \in OpToRel(<, Nat))
  BY NatLessThanWellFounded, WFMin, Zenon
<1>2. \A x, y \in Nat : x < y => <<x, y>> \in OpToRel(<, Nat)
  BY DEF OpToRel
<1>3. \A d \in S : ~ (d < m)
  BY <1>1, <1>2, Zenon
<1> QED BY <1>3, SMTT(30)

\* The bound of an eviction is no younger than any registered snapshot.
LEMMA EvictBounds ==
    ASSUME Typed, NEW x \in Nat
    PROVE  /\ EvictBound(x) \in Nat /\ EvictBound(x) <= x
           /\ \A s \in Registered \ {None} : EvictBound(x) <= s
<1> DEFINE S == {x} \cup (Registered \ {None})
<1>1. Registered \subseteq Nat \cup {None}
  <2>1. \A u \in Threads : th[u].reg \in Nat \cup {None}
    BY Zenon DEF Typed, Local
  <2>2. \A u \in Threads : th[u].batch # None => th[u].batch.snap \in Nat \cup {None}
    BY Zenon DEF Typed, Local, Batches
  <2>3. slot # None => slot.snap \in Nat \cup {None}
    BY Zenon DEF Typed, Batches
  <2> QED BY <2>1, <2>2, <2>3, Zenon DEF Registered
<1>2. S \subseteq Nat /\ S # {}
  BY <1>1, Zenon
<1> HIDE DEF S
<1>3. \E n \in S : \A d \in S : n <= d
  BY <1>2, LeastExists, Zenon
<1>4. Min(S) \in S /\ \A d \in S : Min(S) <= d
  BY <1>3 DEF Min
<1>5. EvictBound(x) = Min(S)
  BY Zenon DEF EvictBound, S
<1>6. EvictBound(x) \in S /\ \A d \in S : EvictBound(x) <= d
  BY <1>4, <1>5, Zenon
<1> QED BY <1>2, <1>6, Zenon DEF S

\* An eviction up to the oldest registered snapshot.
LEMMA SnapshotsEvict ==
    ASSUME IInv, Typed', NEW t \in Threads, Others(t), NEW x \in Nat,
           journaled' = journaled, slot' = slot,
           evicted' = evicted \/ evicted' = Max({evicted, EvictBound(x)}),
           \A u \in Threads : th[u].snap # None => x <= th[u].snap,
           th'[t].batch = th[t].batch, th'[t].reg = th[t].reg, th'[t].snap = th[t].snap,
           th'[t].cap = th[t].cap
    PROVE  Snapshots'
<1>1. Snapshots /\ Typed
  BY Zenon DEF IInv
<1> USE <1>1
<1>2. /\ EvictBound(x) \in Nat /\ EvictBound(x) <= x
      /\ \A s \in Registered \ {None} : EvictBound(x) <= s
  BY EvictBounds, Zenon
<1> USE <1>2
<1>3. evicted' \in {evicted, EvictBound(x)}
  BY MaxIs, Zenon DEF Typed
<1> USE <1>3
<1>r. /\ \A u \in Threads : th[u].reg # None => th[u].reg \in Registered \ {None}
      /\ \A u \in Threads : th[u].batch # None /\ th[u].batch.snap # None
           => th[u].batch.snap \in Registered \ {None}
      /\ slot # None /\ slot.snap # None => slot.snap \in Registered \ {None}
  BY Zenon DEF Registered
<1> USE <1>r
<1>4. \A u \in Threads : /\ th'[u].snap = th[u].snap /\ th'[u].reg = th[u].reg
                         /\ th'[u].batch = th[u].batch /\ th'[u].cap = th[u].cap
  BY Zenon DEF Others
<1>5. ASSUME NEW u \in Threads, th[u].snap # None PROVE evicted' <= th[u].snap
  <2>1. th[u].snap \in Nat /\ evicted <= th[u].snap /\ x <= th[u].snap
    BY <1>5, Zenon DEF Typed, Local, Snapshots
  <2> QED BY <2>1, SMTT(30)
<1>6. ASSUME NEW u \in Threads, th[u].reg # None PROVE evicted' <= th[u].reg
  BY <1>6, Zenon DEF Snapshots
<1>7. ASSUME NEW u \in Threads, th[u].batch # None, th[u].batch.snap # None
      PROVE  evicted' <= th[u].batch.snap
  BY <1>7, Zenon DEF Snapshots
<1>8. slot # None /\ slot.snap # None => evicted' <= slot.snap
  BY Zenon DEF Snapshots
<1>9. journaled => \A v, u \in Threads : th[u].snap # None => th[v].cap <= th[u].snap
  BY Zenon DEF Snapshots
<1> QED BY <1>4, <1>5, <1>6, <1>7, <1>8, <1>9, Zenon DEF Snapshots

\* An eviction after a journaled boundary stays below every registered
\* snapshot.
LEMMA EvictStep ==
    ASSUME IInv, NEW t \in Threads, Evict(t)
    PROVE  Moves(t)
<1>1. Ready(t) /\ At(t, "evict")
  BY IsReady, Zenon DEF Evict, At
<1> USE <1>1
<1> DEFINE x == th[t].cap
<1>e. /\ evicted' \in Nat /\ evicted' <= durable
      /\ evicted' = evicted \/ evicted' = Max({evicted, EvictBound(x)})
      /\ x \in Nat /\ \A u \in Threads : th[u].snap # None => x <= th[u].snap
  <2>1. /\ Typed /\ x \in Nat /\ x <= durable /\ durable \in Nat /\ evicted \in Nat /\ evicted <= durable
        /\ \A u \in Threads : th[u].snap # None => x <= th[u].snap
    <3>1. journaled /\ th[t].cap <= durable
      BY Parts, BoundAt, Zenon DEF Ready, At
    <3>2. /\ Typed /\ th[t].cap \in Nat /\ durable \in Nat /\ evicted \in Nat
      BY Zenon DEF Ready, Typed, Local
    <3>3. evicted <= durable /\ Snapshots
      BY Zenon DEF IInv, Numbers
    <3> QED BY <3>1, <3>2, <3>3, Zenon DEF Snapshots
  <2> USE <2>1
  <2>2. EvictBound(x) \in Nat /\ EvictBound(x) <= x
    BY EvictBounds, Zenon
  <2>3. Max({evicted, EvictBound(x)}) \in {evicted, EvictBound(x)}
    BY <2>2, MaxIs, Zenon
  <2>4. evicted' = evicted \/ evicted' = Max({evicted, EvictBound(x)})
    BY Zenon DEF Evict
  <2> QED BY <2>2, <2>3, <2>4, SMTT(30)
<1> USE <1>e
<1>a. atBoundary' \in Nat /\ atBoundary' <= durable
  <2>1. th[t].cap <= durable
    BY Parts, BoundAt, Zenon DEF Ready, At
  <2>2. atBoundary \in Nat /\ th[t].cap \in Nat /\ atBoundary <= durable
    BY Zenon DEF Ready, Typed, Local, IInv, Numbers
  <2>3. Max({atBoundary, th[t].cap}) \in {atBoundary, th[t].cap}
    BY <2>2, MaxIs, Zenon
  <2> QED BY <2>1, <2>2, <2>3, Zenon DEF Evict
<1> HIDE DEF x
<1> DEFINE m == [th[t] EXCEPT !.todo = Tail(th[t].todo)]
<1>2. th' = [th EXCEPT ![t] = m]
  BY Call0, Zenon DEF Evict, Call, Done, Ready
<1>3. m \in Local
  BY Zenon DEF Local, Ready
<1>4. th' \in [Threads -> Local] /\ th'[t] = m /\ Others(t)
  <2> HIDE DEF m
  <2> QED BY <1>2, <1>3, Takes, Zenon DEF Ready
<1>5. /\ th'[t].todo = Tail(th[t].todo) /\ Holds(t) /\ Reads(t) /\ Same(t) /\ Others(t)
  BY <1>3, <1>4, Zenon DEF Local, Same, Holds, Reads, Ready
<1> USE <1>5
<1> HIDE DEF m
<1>6. Typed'
  BY <1>4, <1>a, Zenon DEF Ready, Typed, Evict, gate, store, epoch, writeback, bounds
<1> USE <1>6
<1>7. Aside(t)
  BY Onward, Zenon DEF Aside, Ready, At
<1>8. /\ Counted(t) /\ Harmless(t) /\ (Same(t) => Carry(t))
      /\ Same(t) /\ th'[t].snap = th[t].snap => Batched(t)
  BY <1>7, Plain, Zenon DEF Evict, writeback, bounds, Same, Holds
<1>9. Numbers' /\ Snapshots'
  <2>f. Numbers
    BY DEF IInv
  <2>n. /\ Len(commits) \in Nat /\ mutationEpoch.count \in Nat
        /\ evicted <= durable /\ durable <= Len(commits) /\ cursor.through <= durable
        /\ atBoundary <= durable /\ mutationEpoch.head <= Len(commits) /\ committedEpoch.head <= durable
        /\ committedEpoch.count <= mutationEpoch.count /\ th[t].cap <= Len(commits)
        /\ th[t].seen.head <= Len(commits) /\ th[t].seen.count <= mutationEpoch.count
    BY <2>f, Zenon DEF Numbers, Ready, Typed, Epochs
  <2>g. UNCHANGED <<journaled, slot, commits, durable, cursor, mutationEpoch, committedEpoch>>
    BY Zenon DEF Evict, epoch, writeback
  <2>1. Numbers'
    BY <1>a, <2>n, <2>g, NumbersStep, SMTT(30) DEF Reads
  <2>2. Snapshots'
    BY <2>g, SnapshotsEvict, Zenon DEF Holds, Reads
  <2> QED BY <2>1, <2>2
<1>10. Point(t)'
  <2>1. ASSUME NEW k \in BoundaryConts, Bounding(t, k) PROVE Point(t)'
    <3>1. Free(t) /\ th[t].cap <= durable /\ DueDurable(t, k) /\ Tail(th[t].todo) = BUnlock(k)
      BY <2>1, BoundAt, Zenon
    <3>2. Free(t)' /\ DueDurable(t, k)' /\ th'[t].cap <= durable'
      BY <1>8, <3>1, Zenon DEF Free, Holds, Reads, Carry, Evict
    <3>3. DueOpen(t, k)'
      BY <3>2, Zenon DEF DueOpen, DueDurable, Secured
    <3>4. Bounding(t, k)'
      BY <3>1, <3>2, <3>3, Zenon DEF Bounding, DueEnd
    <3> QED BY <3>4 DEF Point
  <2> QED BY <2>1, Parts, Zenon DEF Ready, At
<1> QED BY <1>8, <1>9, <1>10, Zenon DEF Moves, Harmless

\* An eviction without a journal closes the gate for itself.
LEMMA EvictDirectStep ==
    ASSUME IInv, NEW t \in Threads, EvictDirect(t)
    PROVE  Moves(t)
<1>1. Ready(t) /\ At(t, "evict_direct")
  BY IsReady, Zenon DEF EvictDirect, At
<1> USE <1>1
<1> DEFINE x == cursor.through
<1>e. /\ evicted' \in Nat /\ evicted' <= durable
      /\ evicted' = evicted \/ evicted' = Max({evicted, EvictBound(x)})
      /\ x \in Nat /\ \A u \in Threads : th[u].snap # None => x <= th[u].snap
  <2>1. /\ Typed /\ x \in Nat /\ x <= durable /\ durable \in Nat /\ evicted \in Nat /\ evicted <= durable
        /\ \A u \in Threads : th[u].snap # None => x <= th[u].snap
    <3>1. \A u \in Threads : th[u].depth = 0 /\ Point(u)
      BY Zenon DEF IInv, Gate
    <3>2. /\ Typed /\ cursor.through \in Nat /\ durable \in Nat /\ evicted \in Nat
      BY Zenon DEF Ready, Typed
    <3>3. evicted <= durable /\ cursor.through <= durable
      BY Zenon DEF IInv, Numbers
    <3> QED BY <3>1, <3>2, <3>3, SnapInside, SMTT(30)
  <2> USE <2>1
  <2>2. EvictBound(x) \in Nat /\ EvictBound(x) <= x
    BY EvictBounds, Zenon
  <2>3. Max({evicted, EvictBound(x)}) \in {evicted, EvictBound(x)}
    BY <2>2, MaxIs, Zenon
  <2>4. evicted' = evicted \/ evicted' = Max({evicted, EvictBound(x)})
    BY Zenon DEF EvictDirect
  <2> QED BY <2>2, <2>3, <2>4, SMTT(30)
<1> USE <1>e
<1> HIDE DEF x
<1> DEFINE m == [th[t] EXCEPT !.todo = Tail(th[t].todo)]
<1>2. th' = [th EXCEPT ![t] = m]
  BY Call0, Zenon DEF EvictDirect, Call, Done, Ready
<1>3. m \in Local
  BY Zenon DEF Local, Ready
<1>4. th' \in [Threads -> Local] /\ th'[t] = m /\ Others(t)
  <2> HIDE DEF m
  <2> QED BY <1>2, <1>3, Takes, Zenon DEF Ready
<1>5. /\ th'[t].todo = Tail(th[t].todo) /\ Holds(t) /\ Reads(t) /\ Same(t) /\ Others(t)
  BY <1>3, <1>4 DEF Local, Same, Holds, Reads, Ready
<1> USE <1>5
<1> HIDE DEF m
<1>6. Typed'
  BY <1>4, SMTT(30) DEF Ready, Typed, EvictDirect, gate, store, epoch, writeback, bounds, Reopen
<1> USE <1>6
<1>7. Aside(t)
  BY Onward, Zenon DEF Aside, Ready, At
<1> USE <1>7
<1>8. /\ Counted(t) /\ Harmless(t) /\ (Same(t) => Carry(t))
      /\ Same(t) /\ th'[t].snap = th[t].snap => Batched(t)
  <2>1. Quiet(t)
    BY Zenon DEF Quiet, Others, EvictDirect, writeback, bounds, At, Aside, Away, Same, Holds
  <2>2. Closed(t) /\ ~ Closed(t)'
    BY Zenon DEF Closed, At, Aside, Away
  <2>3. Counted(t)
    BY <2>2, Zenon DEF Counted, EvictDirect, Reopen, At, Aside, Away, Holds
  <2> QED BY <2>1, <2>3, QuietStep, Zenon DEF Holds
<1>9. Numbers' /\ Snapshots'
  <2>f. Numbers
    BY DEF IInv
  <2>n. /\ Len(commits) \in Nat /\ mutationEpoch.count \in Nat
        /\ evicted <= durable /\ durable <= Len(commits) /\ cursor.through <= durable
        /\ atBoundary <= durable /\ mutationEpoch.head <= Len(commits) /\ committedEpoch.head <= durable
        /\ committedEpoch.count <= mutationEpoch.count /\ th[t].cap <= Len(commits)
        /\ th[t].seen.head <= Len(commits) /\ th[t].seen.count <= mutationEpoch.count
    BY <2>f, Zenon DEF Numbers, Ready, Typed, Epochs
  <2>g. UNCHANGED <<journaled, slot, commits, durable, cursor, atBoundary, mutationEpoch, committedEpoch>>
    BY Zenon DEF EvictDirect, epoch, writeback
  <2>1. Numbers'
    BY <2>n, <2>g, NumbersStep, SMTT(30) DEF Reads
  <2>2. Snapshots'
    BY <2>g, SnapshotsEvict, Zenon DEF Holds, Reads
  <2> QED BY <2>1, <2>2
<1>10. Point(t)'
  <2>1. ASSUME NEW k \in BoundaryConts, Bounding(t, k) PROVE Point(t)'
    <3>1. Free(t) /\ DueDurable(t, k) /\ Tail(th[t].todo) = k
      BY <2>1, BoundAt, Zenon
    <3>2. Free(t)' /\ DueDurable(t, k)'
      BY <1>8, <3>1, Zenon DEF Free, Holds, Reads, Carry
    <3>3. DueEnd(t, k)'
      BY <3>2, Zenon DEF DueEnd, DueOpen, DueDurable, Secured
    <3> QED BY <3>1, <3>2, <3>3, BoundaryReturned, Zenon
  <2> QED BY <2>1, Parts, Zenon DEF Ready, At
<1> QED BY <1>8, <1>9, <1>10, Zenon DEF Moves, Harmless

-----------------------------------------------------------------------------
\* Every action of a thread is a move.
LEMMA Steps ==
    ASSUME IInv, NEW t \in Threads, Step(t) \/ \E kind \in Kinds : Start(t, kind)
    PROVE  Moves(t)
<1>1. CASE GateStep(t)
  BY <1>1, EnterStep, LeaveStep, CloseStep, DrainStep, Zenon DEF GateStep
<1>2. CASE MutationStep(t)
  BY <1>2, BeginStep, EagerBeginStep, EagerCommitStep, EagerFailsStep, CommitScopeStep,
     PublishStep, PublishFailsStep, ReleaseStep, BumpStep, PressureStep, Zenon DEF MutationStep
<1>3. CASE BoundaryStep(t)
  BY <1>3, LockStep, CaptureStep, CaptureFailsStep, JournalStep, FlushDirectStep,
     DeviceFailsStep, EvictStep, EvictDirectStep, UnlockStep, TickLoadStep,
     TickCheckStep, TickMarkStep, Zenon DEF BoundaryStep
<1>4. CASE WritebackStep(t)
  BY <1>4, ObserveStep, TakeStep, StageCheckStep, StageLockStep, StageWriteStep,
     StageFailsStep, Zenon DEF WritebackStep
<1>5. CASE Reply(t)
  BY <1>5, ReplyStep, Zenon
<1>6. CASE \E kind \in Kinds : Start(t, kind)
  BY <1>6, StartStep, Zenon
<1> QED BY <1>1, <1>2, <1>3, <1>4, <1>5, <1>6, Zenon DEF Step

\* Every step keeps the invariant.
LEMMA StepInv == IInv /\ [Next]_vars => IInv'
<1> SUFFICES ASSUME IInv, [Next]_vars PROVE IInv'
  BY Zenon
<1>1. CASE UNCHANGED vars
  <2>1. UNCHANGED <<journaled, th, inFlight, closing, asleep, cursor, commits, durable, evicted,
                    atBoundary, mutationEpoch, committedEpoch, slot, slotOwner, acked, lost,
                    workload, requests, failures>>
    BY <1>1, Zenon DEF vars, gate, store, epoch, writeback, bounds
  <2> USE <2>1
  <2>2. Typed' /\ Gate' /\ Numbers' /\ Snapshots'
    <3>1. Typed'
      BY Zenon DEF IInv, Typed
    <3>2. Gate'
      BY Zenon DEF IInv, Gate, Entries, Closers, Closed, At
    <3>3. Numbers'
      BY Zenon DEF IInv, Numbers
    <3>4. Snapshots'
      BY Zenon DEF IInv, Snapshots
    <3> QED BY <3>1, <3>2, <3>3, <3>4, Zenon
  <2>3. \A o : CommitsOf(o)' = CommitsOf(o) /\ (Held(o)' <=> Held(o)) /\ (Decided(o)' <=> Decided(o))
    BY Zenon DEF CommitsOf, Held, Decided
  <2> USE <2>3
  <2>4. Owners' /\ Cuts'
    <3>1. Owners'
      BY Zenon DEF IInv, Owners
    <3>2. Cuts'
      BY Zenon DEF IInv, Cuts, Cut, At
    <3> QED BY <3>1, <3>2, Zenon
  <2>5. ASSUME NEW t \in Threads PROVE Point(t)'
    <3>1. \A i : Above(i)' <=> Above(i)
      BY Zenon DEF Above, At
    <3>2. /\ Free(t)' <=> Free(t)
          /\ Fresh(t)' <=> Fresh(t)
          /\ Loose(t)' <=> Loose(t)
          /\ Stored(t)' <=> Stored(t)
          /\ \A x : Within(t, x)' <=> Within(t, x)
      BY <3>1, Zenon DEF Free, Fresh, Loose, Stored, Within
    <3> USE <3>2
    <3>3. /\ Captured(t)' <=> Captured(t)
          /\ Secured(t)' <=> Secured(t)
          /\ \A k : Syncing(t, k)' <=> Syncing(t, k)
      BY Zenon DEF Captured, Secured, Syncing
    <3> USE <3>3
    <3>4. Answer(t)' <=> Answer(t)
      BY Zenon DEF Answer
    <3>5. \A k : Owed(t, k)' <=> Owed(t, k)
      BY <3>4, Zenon DEF Owed
    <3>6. \A k :
            /\ DueOpen(t, k)' <=> DueOpen(t, k)
            /\ DueCap(t, k)' <=> DueCap(t, k)
            /\ DueDurable(t, k)' <=> DueDurable(t, k)
      BY <3>5, Zenon DEF DueOpen, DueCap, DueDurable
    <3>7. \A k : Bounding(t, k)' <=> Bounding(t, k)
      BY <3>6, Zenon DEF Bounding, DueEnd
    <3>8. \A k : Flushing(t, k)' <=> Flushing(t, k)
      BY <3>5, ZenonT(30) DEF Flushing, Pending, Settled
    <3>9. /\ Mutating(t)' <=> Mutating(t)
          /\ Finalizing(t)' <=> Finalizing(t)
          /\ Staging(t)' <=> Staging(t)
          /\ Ticking(t)' <=> Ticking(t)
      BY <3>4, Zenon DEF Mutating, Finalizing, Staging, Ticking
    <3> QED BY <3>7, <3>8, <3>9, Zenon DEF IInv, Point
  <2> QED BY <2>2, <2>4, <2>5, Zenon DEF IInv
<1>2. CASE Next
  <2>1. PICK t \in Threads : Step(t) \/ \E kind \in Kinds : Start(t, kind)
    BY <1>2, Zenon DEF Next
  <2>2. Moves(t)
    BY <2>1, Steps, Zenon
  <2> USE <2>2
  <2>3. \A u \in Threads : Point(u)'
    BY Zenon DEF Moves, Spares
  <2>4. Gate'
    BY <2>3, GateStepKept, Zenon DEF Moves
  <2> QED BY <2>3, <2>4, Zenon DEF IInv, Moves, Spares
<1> QED BY <1>1, <1>2, Zenon

\* The idle system satisfies the invariant.
LEMMA InitInv == Init => IInv
<1> SUFFICES ASSUME Init PROVE IInv
  BY Zenon
<1>1. \A t \in Threads : th[t] = Idle
  BY Zenon DEF Init
<1>2. \A t \in Threads :
        /\ th[t].todo = <<>> /\ th[t].depth = 0 /\ th[t].batch = None /\ th[t].snap = None
        /\ th[t].reg = None /\ th[t].cap = 0 /\ th[t].seen = NoEpoch
  BY <1>1, SMTT(30) DEF Idle
<1> USE <1>2
<1>3. \A t \in Threads : \A l : ~ At(t, l)
  BY Zenon DEF At
<1> USE <1>3
<1>4. NoEpoch \in Epochs /\ NoEpoch.count = 0 /\ NoEpoch.head = 0
  BY Zenon DEF NoEpoch, Epochs
<1>5. Typed
  <2>1. th \in [Threads -> Local]
    BY IdleLocal, Zenon DEF Init
  <2>2. commits \in Seq(SUBSET Nat)
    BY SMTT(30) DEF Init
  <2>3. workload \in Seq(Kinds)
    BY MutationAssumption, Zenon DEF Init, Kinds
  <2> QED BY <1>4, <2>1, <2>2, <2>3, SMTT(30) DEF Init, Typed
<1>6. Gate
  <2>1. Entries = {}
    BY SMTT(30) DEF Entries
  <2>2. Closers = {}
    BY Zenon DEF Closers, Closed
  <2> QED BY <2>1, <2>2, FS_EmptySet, Zenon DEF Gate, Init
<1>7. Numbers
  BY <1>4, SMTT(30) DEF Numbers, Init
<1>8. Snapshots
  BY Zenon DEF Snapshots, Init
<1>9. Owners
  BY SMTT(30) DEF Owners, Init
<1>10. Cuts
  <2>1. Cut(durable)
    BY DEF Cut, CommitsOf, Init
  <2> QED BY <2>1 DEF Cuts
<1>11. \A t \in Threads : Point(t)
  BY Zenon DEF Point, Free
<1> QED BY <1>5, <1>6, <1>7, <1>8, <1>9, <1>10, <1>11, Zenon DEF IInv

\* The invariant holds of every behaviour of the gate, the boundaries, the
\* writeback slot and the periodic commits.
THEOREM Invariance == Spec => []IInv
BY InitInv, StepInv, PTL DEF Spec

\* mutation_gate's counters are exact, nested entries counted, and what is
\* evicted, marked or at the cursor is durable.
THEOREM TypeCorrect == Spec => []TypeOK
<1>1. IInv => TypeOK
  <2> SUFFICES ASSUME IInv PROVE TypeOK
    BY Zenon
  <2>1. Typed /\ Gate /\ Numbers
    BY Zenon DEF IInv
  <2> USE <2>1
  <2>2. journaled \in BOOLEAN /\ cursor.owner \in Threads \cup {None}
    BY Zenon DEF Typed
  <2>3. \A t \in Threads : th[t].kind \in Kinds
    BY Zenon DEF Typed, Local
  <2>4. \A t \in Threads : th[t].depth \in 0 .. 2
    BY Depths, Zenon DEF IInv
  <2> QED BY <2>2, <2>3, <2>4, Zenon DEF Gate, Numbers, TypeOK, Closers
<1> QED BY <1>1, Invariance, PTL

\* A journaled boundary makes all the commits of an operation durable, or none
\* (capture_mvcc_flush_set under the closed gate).
THEOREM BoundariesAreWhole == Spec => []DurableIsWhole
<1>1. IInv => DurableIsWhole
  BY Zenon DEF IInv, Cuts, Cut, DurableIsWhole
<1> QED BY <1>1, Invariance, PTL

\* No transaction that can still commit, registered or not, has a snapshot older
\* than a chain that evict_durable_chains dropped.
THEOREM EvictionIsSafe == Spec => []EvictionSafe
<1>1. IInv => EvictionSafe
  BY Zenon DEF IInv, Snapshots, Registered, EvictionSafe
<1> QED BY <1>1, Invariance, PTL

\* The committed epoch of the periodic commit covers only what is durable.
THEOREM EpochIsCovered == Spec => []EpochCovered
<1>1. IInv => EpochCovered
  BY Zenon DEF IInv, Numbers, EpochCovered
<1> QED BY <1>1, Invariance, PTL

\* An fsync that succeeds has made durable all that was acknowledged before it
\* looked at the writeback slot, but for what a failed batch lost.
THEOREM FsyncIsDurable == Spec => []FsyncCovers
<1>1. IInv => FsyncCovers
  <2> SUFFICES ASSUME IInv, NEW t \in Threads, At(t, "reply"), th[t].kind = "fsync", ~ th[t].err
               PROVE  \A o \in th[t].need \ lost :
                        CommitsOf(o) # {} /\ \A i \in CommitsOf(o) : i <= durable
    BY Zenon DEF FsyncCovers
  <2>1. Answer(t)
    <3>1. Point(t) /\ th[t].todo # <<>> /\ Head(th[t].todo) = "reply"
      BY DEF IInv, At
    <3> QED BY <3>1, Parts, BoundAt, Zenon
  <2> QED BY <2>1, Zenon DEF Answer, Secured, Stored, Within
<1> QED BY <1>1, Invariance, PTL

=============================================================================
