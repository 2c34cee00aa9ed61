------------------------ MODULE PublicationGateProofs ------------------------
(***************************************************************************)
(* The wait-free publication gate implements ordered publication, and its  *)
(* ring never loses a sequence, for every number of committers, ring size, *)
(* spin count and number of sequences, with ring stores delayed or not.    *)
(*                                                                         *)
(* The mutex path implements it too, and loses no wake-up: a sleeping      *)
(* committer is blocked by a lower sequence or someone will notify it. Its *)
(* definitions and lemmas carry the prefix Mutex.                          *)
(*                                                                         *)
(* The gate in either mode: the mode is fixed when the store is built, so  *)
(* a behaviour of the gate is one of the path it chose, and what is proved *)
(* of the paths holds of the gate.                                         *)
(***************************************************************************)
EXTENDS PublicationGate, Integers, FiniteSetTheorems, TLAPS

\* p has not stored its sequence in the ring yet.
Before(p) ==
    \/ st[p].pc \in {"install", "enter", "claim", "store"}
    \/ st[p].call = "claim" /\ st[p].pc \in {"load", "check", "cas"}

\* No other thread can have seen it there.
Unstored(p) == Before(p) \/ buf[p] # 0

\* A committer inside commit owns an allocated sequence, and no two own the
\* same; outside it has nothing in its store buffer.
Owned ==
    /\ \A p \in Committers : ~ At(p, "idle") => st[p].seq \in 1 .. allocated
    /\ \A p, q \in Committers :
         p # q /\ ~ At(p, "idle") /\ ~ At(q, "idle") => st[p].seq # st[q].seq
    /\ \A p \in Committers : At(p, "idle") => buf[p] = 0

Installed ==
    /\ installed \subseteq 1 .. allocated
    /\ \A p \in Committers : ~ At(p, "idle") /\ ~ At(p, "install") => st[p].seq \in installed

\* The watermark waits for every sequence that is not in the ring.
Pending == \A p \in Committers : Unstored(p) => completed < st[p].seq

\* A sequence is stored, at once or later, only within Ring of the watermark.
Claimed ==
    /\ \A p \in Committers : At(p, "store") => st[p].seq < completed + Ring
    /\ \A p \in Committers : buf[p] # 0 =>
         buf[p] = st[p].seq /\ ~ Before(p) /\ buf[p] < completed + Ring

\* What the ring shows was stored by its owner, in its slot.
RingExact ==
    \A i \in 0 .. Ring - 1 : ring[i] # 0 =>
        /\ ring[i] \in installed /\ Slot(ring[i]) = i /\ ring[i] < completed + Ring
        /\ \A p \in Committers : Unstored(p) => st[p].seq # ring[i]

\* A committer about to swap has seen the next sequence in the ring, or has it
\* in its own store buffer.
SwapSound ==
    \A p \in Committers : At(p, "cas") =>
        /\ st[p].current + 1 \in installed
        /\ \A q \in Committers :
             Unstored(q) /\ st[q].seq = st[p].current + 1 => q = p /\ buf[p] # 0

Released == \A p \in Committers : At(p, "unpark") => completed >= st[p].seq

\* The part of TypeOK the argument uses; the parked counter plays no role in it.
Typed ==
    /\ allocated \in 0 .. MaxSeq
    /\ completed \in 0 .. MaxSeq
    /\ installed \in SUBSET Seqs
    /\ ring \in [0 .. Ring - 1 -> 0 .. MaxSeq]
    /\ buf \in [Committers -> 0 .. MaxSeq]
    /\ st \in [Committers -> Local]

IInv ==
    /\ Typed /\ Owned /\ Installed /\ Pending /\ Claimed /\ RingExact
    /\ SwapSound /\ Released /\ PrefixInstalled

-----------------------------------------------------------------------------
\* A slot is an index of the ring.
LEMMA SlotInRing ==
    ASSUME NEW s \in Nat
    PROVE  Slot(s) \in 0 .. Ring - 1
BY GateAssumption, SMT DEF Slot

\* Two sequences that share a slot are at least Ring apart: PUBLICATION_RING_SLOTS
\* sequences in a row never collide.
LEMMA SlotsApart ==
    ASSUME NEW a \in Nat, NEW b \in Nat, a < b, Slot(a) = Slot(b)
    PROVE  b - a >= Ring
<1> DEFINE qa == a \div Ring
<1> DEFINE qb == b \div Ring
<1>1. Ring \in Nat \ {0}
  BY GateAssumption
<1>2. qa \in Int /\ qb \in Int /\ a % Ring \in Int
  BY <1>1, SMT
<1>3. a = Ring * qa + (a % Ring) /\ b = Ring * qb + (b % Ring)
  BY <1>1, SMT
<1>4. a % Ring = b % Ring
  BY DEF Slot
<1> HIDE DEF qa, qb
<1>5. b - a = Ring * (qb - qa)
  BY <1>1, <1>2, <1>3, <1>4, SMT
<1>6. qb > qa
  BY <1>1, <1>2, <1>5, SMT
<1>7. Ring * (qb - qa) >= Ring
  BY <1>1, <1>2, <1>6, SMT
<1> QED
  BY <1>5, <1>7

\* Before the first commit ring and buffers are empty.
LEMMA InitIInv == Init => IInv
BY GateAssumption, SMT
   DEF Init, IInv, Typed, Owned, Installed, Pending, Claimed, RingExact, SwapSound, Released,
       PrefixInstalled, Before, Unstored, At, Outside, Local, PCs, Calls, Seqs

-----------------------------------------------------------------------------
\* q moves inside publish, and neither stores its sequence nor returns.
Moves(q) ==
    /\ st'[q].seq = st[q].seq
    /\ ~ At(q, "idle") /\ ~ At(q, "install") /\ ~ At(q, "idle")' /\ ~ At(q, "install")'
    /\ Before(q)' <=> Before(q)
    /\ At(q, "store")' => st[q].seq < completed + Ring
    /\ At(q, "unpark")' => completed >= st[q].seq
    /\ At(q, "cas")' =>
         /\ st'[q].current + 1 \in installed
         /\ \A r \in Committers :
              Unstored(r) /\ st[r].seq = st'[q].current + 1 => r = q /\ buf[q] # 0

\* Steps of publish that write none of the shared words keep the invariant.
LEMMA MovesKeep ==
    ASSUME IInv, st' \in [Committers -> Local],
           UNCHANGED <<allocated, installed, completed, ring, buf>>,
           \A q \in Committers : st'[q] = st[q] \/ Moves(q)
    PROVE  IInv'
<1> USE DEF IInv
<1>1. \A q \in Committers :
        /\ st'[q].seq = st[q].seq /\ (Before(q)' <=> Before(q)) /\ (Unstored(q)' <=> Unstored(q))
        /\ At(q, "idle")' <=> At(q, "idle")
        /\ At(q, "install")' <=> At(q, "install")
  BY DEF Moves, Before, Unstored, At
<1>2. Typed'
  BY DEF Typed
<1>3. Owned'
  BY <1>1 DEF Owned
<1>4. Installed' /\ PrefixInstalled'
  BY <1>1 DEF Installed, PrefixInstalled
<1>5. Pending'
  BY <1>1 DEF Pending
<1>6. Claimed'
  BY <1>1 DEF Claimed, Moves, At
<1>7. RingExact'
  BY <1>1 DEF RingExact, Slot
<1>8. SwapSound'
  <2> SUFFICES ASSUME NEW p \in Committers, At(p, "cas")'
               PROVE  /\ st'[p].current + 1 \in installed'
                      /\ \A q \in Committers :
                           Unstored(q)' /\ st'[q].seq = st'[p].current + 1 => q = p /\ buf'[p] # 0
    BY DEF SwapSound
  <2>1. CASE st'[p] = st[p]
    BY <1>1, <2>1 DEF SwapSound, At
  <2>2. CASE Moves(p)
    BY <1>1, <2>2 DEF Moves
  <2> QED
    BY <2>1, <2>2
<1>9. Released'
  BY <1>1 DEF Released, Moves, At
<1> QED
  BY <1>2, <1>3, <1>4, <1>5, <1>6, <1>7, <1>8, <1>9

\* publish(seq) returns only above its sequence, and keeps the invariant.
LEMMA FinishKeeps ==
    ASSUME IInv, NEW p \in Committers, ~ At(p, "idle"), completed >= st[p].seq,
           st' = [st EXCEPT ![p] = Outside],
           UNCHANGED <<allocated, installed, completed, ring, buf>>
    PROVE  IInv' /\ st[p].seq \in installed
<1> USE DEF IInv
<1>1. ~ Unstored(p)
  BY DEF Pending, Typed, Local
<1>2. st[p].seq \in installed
  BY <1>1 DEF Installed, Unstored, Before, At
<1>3. \A q \in Committers : q # p => st'[q] = st[q] /\ (Unstored(q)' <=> Unstored(q))
  BY DEF Typed, Unstored, Before
<1>4. At(p, "idle")' /\ ~ Unstored(p)' /\ ~ Before(p)' /\ buf[p] = 0
  BY <1>1 DEF Typed, Unstored, Before, At, Outside
<1>5. Typed'
  BY GateAssumption DEF Typed, Outside, Local, PCs, Calls
<1>6. Owned'
  BY <1>3, <1>4 DEF Owned, At
<1>7. Installed' /\ PrefixInstalled' /\ Released'
  BY <1>3, <1>4 DEF Installed, PrefixInstalled, Released, At
<1>8. Pending' /\ RingExact'
  BY <1>3, <1>4 DEF Pending, RingExact, Slot
<1>9. Claimed'
  BY <1>3, <1>4 DEF Claimed, At, Before
<1>10. SwapSound'
  BY <1>3, <1>4 DEF SwapSound, At
<1> QED
  BY <1>2, <1>5, <1>6, <1>7, <1>8, <1>9, <1>10

\* An update of one committer's locals keeps their type.
LEMMA LocalUpdate ==
    ASSUME NEW p \in Committers, NEW r \in Local, st \in [Committers -> Local],
           st' = [st EXCEPT ![p] = r]
    PROVE  st' \in [Committers -> Local]
OBVIOUS

\* A fresh sequence belongs to nobody else.
LEMMA AllocateKeeps ==
    ASSUME IInv, NEW p \in Committers, Allocate(p)
    PROVE  IInv'
<1> USE GateAssumption DEF IInv, Allocate
<1>1. \A q \in Committers : q # p =>
        st'[q] = st[q] /\ (Unstored(q)' <=> Unstored(q)) /\ (Before(q)' <=> Before(q))
  BY DEF Typed, Unstored, Before
<1>2. At(p, "install")' /\ st'[p].seq = allocated + 1 /\ buf[p] = 0
  BY DEF Typed, Local, Owned, At
<1>3. Typed'
  <2> DEFINE r == [st[p] EXCEPT !.pc = "install", !.seq = allocated + 1]
  <2>1. st[p] \in Local /\ allocated + 1 \in 0 .. MaxSeq /\ st \in [Committers -> Local]
    BY DEF Typed
  <2>2. r \in Local
    BY <2>1, Zenon DEF Local, PCs
  <2>3. st' = [st EXCEPT ![p] = r]
    BY <2>1, Zenon
  <2> HIDE DEF r
  <2>4. st' \in [Committers -> Local]
    BY <2>1, <2>2, <2>3, LocalUpdate
  <2> QED
    BY <2>1, <2>4 DEF Typed
<1>4. Owned'
  BY <1>1, <1>2 DEF Owned, Typed, At
<1>5. Installed' /\ PrefixInstalled' /\ Released'
  BY <1>1, <1>2 DEF Installed, PrefixInstalled, Released, Typed, At
<1>6. completed <= allocated
  BY DEF PrefixInstalled, Installed, Typed
<1>7. Pending'
  BY <1>1, <1>2, <1>6 DEF Pending, Typed
<1>8. Claimed'
  BY <1>1, <1>2, Zenon DEF Claimed, At
<1>9. RingExact'
  BY <1>1, <1>2 DEF RingExact, Installed, Typed, Slot
<1>10. SwapSound'
  BY <1>1, <1>2 DEF SwapSound, Installed, Typed, At
<1> QED
  BY <1>3, <1>4, <1>5, <1>7, <1>8, <1>9, <1>10

\* A committer installs its versions before it publishes.
LEMMA InstallKeeps ==
    ASSUME IInv, NEW p \in Committers, Install(p)
    PROVE  IInv' /\ st[p].seq \in 1 .. allocated
<1> USE DEF IInv, Install, Goto
<1>1. \A q \in Committers :
        /\ st'[q].seq = st[q].seq /\ (Unstored(q)' <=> Unstored(q)) /\ (Before(q)' <=> Before(q))
        /\ At(q, "idle")' <=> At(q, "idle")
        /\ q # p => st'[q] = st[q]
  BY DEF Typed, Local, Unstored, Before, At
<1>2. At(p, "enter")' /\ st[p].seq \in 1 .. allocated
  BY DEF Typed, Local, Owned, At
<1>3. Typed'
  <2> DEFINE r == [st[p] EXCEPT !.pc = "enter"]
  <2>1. st[p] \in Local /\ st \in [Committers -> Local]
    BY DEF Typed
  <2>2. r \in Local
    BY <2>1 DEF Local, PCs
  <2>3. st' = [st EXCEPT ![p] = r]
    BY <2>1
  <2> HIDE DEF r
  <2>4. st' \in [Committers -> Local]
    BY <2>1, <2>2, <2>3, LocalUpdate
  <2>5. st[p].seq \in Seqs
    BY <1>2, GateAssumption DEF Typed, Seqs
  <2> QED
    BY <2>4, <2>5 DEF Typed
<1>4. Owned'
  BY <1>1 DEF Owned
<1>5. Installed' /\ PrefixInstalled' /\ Released'
  BY <1>1, <1>2 DEF Installed, PrefixInstalled, Released, At
<1>6. Pending' /\ RingExact'
  BY <1>1 DEF Pending, RingExact, Slot
<1>7. Claimed'
  BY <1>1, <1>2 DEF Claimed, At
<1>8. SwapSound'
  BY <1>1, <1>2 DEF SwapSound, At
<1> QED
  BY <1>2, <1>3, <1>4, <1>5, <1>6, <1>7, <1>8

\* A sequence reaches the ring, from the store itself or from the store buffer.
LEMMA RingWriteKeeps ==
    ASSUME IInv, NEW p \in Committers, NEW s \in 1 .. MaxSeq,
           s = st[p].seq, s \in installed, s < completed + Ring, ~ At(p, "idle"),
           ring' = [ring EXCEPT ![Slot(s)] = s], ~ Unstored(p)', buf'[p] = 0,
           UNCHANGED installed, completed' = completed,
           \A q \in Committers : st'[q].seq = st[q].seq
             /\ (q # p => (Unstored(q)' <=> Unstored(q)))
    PROVE  RingExact'
<1>1. \A q \in Committers : Unstored(q) /\ q # p => st[q].seq # s
  BY DEF IInv, Owned, Unstored, Before, At
<1>2. Slot(s) \in 0 .. Ring - 1
  BY SlotInRing, GateAssumption
<1> QED
  BY <1>1, <1>2, GateAssumption, ZenonT(40) DEF IInv, RingExact, Typed, Slot

\* A store into the ring, at once or into the store buffer.
LEMMA StoreKeeps ==
    ASSUME IInv, NEW p \in Committers, Store(p)
    PROVE  IInv'
<1> USE GateAssumption DEF IInv
<1> DEFINE r == [st[p] EXCEPT !.pc = "load", !.advanced = FALSE, !.call = "store", !.spins = Spins]
<1>0. /\ UNCHANGED <<allocated, installed, completed>> /\ At(p, "store") /\ buf[p] = 0
      /\ st' = [st EXCEPT ![p] = r]
      /\ \/ ring' = [ring EXCEPT ![Slot(st[p].seq)] = st[p].seq] /\ buf' = buf
         \/ buf' = [buf EXCEPT ![p] = st[p].seq] /\ ring' = ring
  BY Zenon DEF Store, Drained, Typed
<1>1. \A q \in Committers : q # p =>
        /\ st'[q] = st[q] /\ buf'[q] = buf[q]
        /\ (Unstored(q)' <=> Unstored(q)) /\ (Before(q)' <=> Before(q))
  BY <1>0 DEF Typed, Unstored, Before
<1>2. /\ st'[p].seq = st[p].seq /\ At(p, "load")' /\ ~ Before(p)' /\ Unstored(p)
      /\ buf'[p] \in {0, st[p].seq}
  BY <1>0 DEF Typed, Local, Unstored, Before, At
<1>3. st[p].seq \in 1 .. allocated /\ st[p].seq \in installed /\ st[p].seq < completed + Ring
  BY <1>0 DEF Owned, Installed, Claimed, At
<1>4. Typed'
  <2>0. st[p] \in Local /\ st \in [Committers -> Local]
    BY DEF Typed
  <2>1. r \in Local
    <3>1. Spins \in 0 .. Spins
      OBVIOUS
    <3> QED
      BY <2>0, <3>1, Zenon DEF Local, PCs, Calls
  <2> HIDE DEF r
  <2>2. st' \in [Committers -> Local]
    BY <1>0, <2>0, <2>1, LocalUpdate
  <2>3. st[p].seq \in 0 .. MaxSeq /\ st[p].seq \in Nat
    BY <1>3 DEF Typed
  <2>4. Slot(st[p].seq) \in 0 .. Ring - 1
    BY <2>3, SlotInRing
  <2> QED
    BY <1>0, <2>2, <2>3, <2>4, Zenon DEF Typed
<1> HIDE DEF r
<1>5. Owned'
  BY <1>0, <1>1, <1>2 DEF Owned, At
<1>6. Installed' /\ PrefixInstalled' /\ Released'
  BY <1>0, <1>1, <1>2 DEF Installed, PrefixInstalled, Released, At
<1>7. Pending'
  BY <1>0, <1>1, <1>2 DEF Pending
<1>8. Claimed'
  BY <1>0, <1>1, <1>2, <1>3 DEF Claimed, At
<1>9. RingExact'
  <2>1. CASE ring' = [ring EXCEPT ![Slot(st[p].seq)] = st[p].seq] /\ buf' = buf
    <3>1. ~ Unstored(p)' /\ buf'[p] = 0
      BY <1>0, <1>2, <2>1 DEF Unstored
    <3>2. st[p].seq \in 1 .. MaxSeq
      BY <1>3 DEF Typed
    <3>3. ~ At(p, "idle")
      BY <1>0 DEF At
    <3>4. \A q \in Committers : st'[q].seq = st[q].seq
      BY <1>1, <1>2
    <3> QED
      BY <1>0, <1>1, <1>3, <2>1, <3>1, <3>2, <3>3, <3>4, RingWriteKeeps, Zenon
  <2>2. CASE ring' = ring
    <3>1. \A q \in Committers : st'[q].seq = st[q].seq /\ (Unstored(q)' => Unstored(q))
      BY <1>1, <1>2
    <3> QED
      BY <1>0, <2>2, <3>1 DEF RingExact, Slot
  <2> QED
    BY <1>0, <2>1, <2>2
<1>10. SwapSound'
  <2>1. \A q \in Committers : At(q, "cas")' => q # p /\ At(q, "cas") /\ st'[q] = st[q]
    BY <1>1, <1>2 DEF At
  <2>2. \A q \in Committers : st'[q].seq = st[q].seq /\ (Unstored(q)' => Unstored(q))
    BY <1>1, <1>2
  <2> QED
    BY <1>0, <1>1, <2>1, <2>2 DEF SwapSound
<1> QED
  BY <1>4, <1>5, <1>6, <1>7, <1>8, <1>9, <1>10

\* A delayed store becomes visible: the watermark has not passed it.
LEMMA FlushBufferKeeps ==
    ASSUME IInv, NEW p \in Committers, FlushBuffer(p)
    PROVE  IInv'
<1> USE GateAssumption DEF IInv, FlushBuffer
<1>1. \A q \in Committers :
        st'[q] = st[q] /\ (Before(q)' <=> Before(q)) /\ (q # p => (Unstored(q)' <=> Unstored(q)))
  BY DEF Typed, Unstored, Before
<1>2. /\ buf[p] = st[p].seq /\ buf[p] # 0 /\ buf'[p] = 0 /\ ~ Before(p) /\ ~ Unstored(p)'
      /\ buf[p] < completed + Ring /\ ~ At(p, "idle")
  BY DEF Typed, Claimed, Owned, Drained, Unstored, Before
<1>3. st[p].seq \in installed /\ buf[p] \in 1 .. MaxSeq
  BY <1>2 DEF Installed, Before, At, Typed
<1>4. Typed'
  <2>1. Slot(buf[p]) \in 0 .. Ring - 1
    BY <1>3, SlotInRing
  <2> QED
    BY <1>3, <2>1 DEF Typed
<1>5. Owned' /\ Installed' /\ PrefixInstalled' /\ Released'
  BY <1>1, <1>2 DEF Owned, Installed, PrefixInstalled, Released, At, Typed
<1>6. Pending'
  BY <1>1, <1>2 DEF Pending
<1>7. Claimed'
  BY <1>1, <1>2 DEF Claimed, At, Typed
<1>8. RingExact'
  BY <1>1, <1>2, <1>3, RingWriteKeeps, Zenon
<1>9. SwapSound'
  BY <1>1, <1>2 DEF SwapSound, At, Typed
<1> QED
  BY <1>4, <1>5, <1>6, <1>7, <1>8, <1>9

\* A swap that succeeds moves the watermark to a sequence its owner has stored.
LEMMA AdvanceKeeps ==
    ASSUME IInv, NEW p \in Committers, CompareExchange(p), completed = st[p].current
    PROVE  IInv' /\ completed' = completed + 1 /\ completed + 1 \in installed
<1> USE GateAssumption DEF IInv
<1> DEFINE r == [st[p] EXCEPT !.pc = "load", !.current = 0, !.advanced = TRUE]
<1>0. /\ UNCHANGED <<allocated, installed, ring, buf>> /\ At(p, "cas") /\ buf[p] = 0
      /\ completed' = completed + 1 /\ st' = [st EXCEPT ![p] = r]
  BY Zenon DEF CompareExchange, Drained, Typed
<1>1. \A q \in Committers :
        /\ st'[q].seq = st[q].seq /\ (Unstored(q)' <=> Unstored(q)) /\ (Before(q)' <=> Before(q))
        /\ q # p => st'[q] = st[q]
  BY <1>0, SMTT(30) DEF Typed, Local, Unstored, Before, At
<1>2. At(p, "load")'
  BY <1>0 DEF Typed, Local, At
<1>3. /\ completed + 1 \in installed
      /\ \A q \in Committers : Unstored(q) => st[q].seq # completed + 1
  BY <1>0 DEF SwapSound
<1>4. Typed'
  <2>1. st[p] \in Local /\ st \in [Committers -> Local] /\ 0 \in 0 .. MaxSeq
    BY DEF Typed
  <2>2. r \in Local
    BY <2>1, Zenon DEF Local, PCs
  <2> HIDE DEF r
  <2>3. st' \in [Committers -> Local]
    BY <1>0, <2>1, <2>2, LocalUpdate
  <2>4. completed + 1 \in 0 .. MaxSeq
    BY <1>3 DEF Typed, Seqs
  <2> QED
    BY <1>0, <2>3, <2>4 DEF Typed
<1> HIDE DEF r
<1>5. Owned' /\ Installed'
  BY <1>0, <1>1, <1>2 DEF Owned, Installed, At
<1>6. Pending'
  BY <1>0, <1>1, <1>3, SMTT(30) DEF Pending, Typed, Local
<1>7. Claimed'
  <2>1. \A q \in Committers : st[q].seq \in Nat /\ buf[q] \in Nat
    BY DEF Typed, Local
  <2>2. completed \in Nat /\ completed' = completed + 1 /\ buf' = buf
    BY <1>0 DEF Typed
  <2>3. \A q \in Committers : At(q, "store")' => st'[q].seq < completed' + Ring
    BY <1>1, <1>2, <2>1, <2>2 DEF Claimed, At
  <2>4. \A q \in Committers : buf'[q] # 0 =>
          buf'[q] = st'[q].seq /\ ~ Before(q)' /\ buf'[q] < completed' + Ring
    BY <1>1, <2>1, <2>2 DEF Claimed
  <2> QED
    BY <2>3, <2>4 DEF Claimed
<1>8. RingExact'
  <2>1. /\ ring' = ring /\ installed' = installed
        /\ completed \in Nat /\ completed' = completed + 1
        /\ \A i \in 0 .. Ring - 1 : ring[i] \in Nat
    BY <1>0 DEF Typed
  <2>2. \A i \in 0 .. Ring - 1 : ring'[i] # 0 =>
          ring'[i] \in installed' /\ Slot(ring'[i]) = i
    BY <2>1 DEF RingExact
  <2>3. \A i \in 0 .. Ring - 1 : ring'[i] # 0 => ring'[i] < completed' + Ring
    BY <2>1 DEF RingExact
  <2>4. \A i \in 0 .. Ring - 1 : ring'[i] # 0 =>
          \A q \in Committers : Unstored(q)' => st'[q].seq # ring'[i]
    BY <1>1, <2>1 DEF RingExact
  <2> QED
    BY <2>2, <2>3, <2>4 DEF RingExact
<1>9. SwapSound'
  BY <1>0, <1>1, <1>2 DEF SwapSound, At
<1>10. Released'
  BY <1>0, <1>1, <1>2, SMTT(30) DEF Released, Typed, Local, At
<1>11. PrefixInstalled'
  <2>1. \A i \in 1 .. completed + 1 : i \in 1 .. completed \/ i = completed + 1
    BY DEF Typed
  <2> QED
    BY <1>0, <1>3, <2>1 DEF PrefixInstalled
<1> QED
  BY <1>0, <1>3, <1>4, <1>5, <1>6, <1>7, <1>8, <1>9, <1>10, <1>11

\* A committer that found the next sequence in the ring found one whose owner
\* has stored it.
LEMMA SlotRead ==
    ASSUME IInv, NEW p \in Committers, At(p, "check"), NEW n \in 1 .. MaxSeq + 1,
           LoadRing(p, Slot(n)) = n
    PROVE  /\ n \in installed
           /\ \A q \in Committers : Unstored(q) /\ st[q].seq = n => q = p /\ buf[p] # 0
<1> USE GateAssumption DEF IInv
<1>1. \A q \in Committers : Unstored(q) => ~ At(q, "idle")
  BY DEF Unstored, Before, Owned, At
<1>2. CASE buf[p] # 0 /\ Slot(buf[p]) = Slot(n)
  <2>1. n = st[p].seq
    BY <1>2 DEF LoadRing, Claimed
  <2> QED
    BY <1>1, <1>2, <2>1 DEF Installed, Owned, At
<1>3. CASE ~ (buf[p] # 0 /\ Slot(buf[p]) = Slot(n))
  <2>1. ring[Slot(n)] = n /\ Slot(n) \in 0 .. Ring - 1
    BY <1>3, SlotInRing DEF LoadRing
  <2> QED
    BY <2>1 DEF RingExact
<1> QED
  BY <1>2, <1>3

\* The steps of publish that write no shared word but its lock and its counter.
Quiet(p) ==
    \/ Claim(p) \/ LoadCompleted(p) \/ CheckSlot(p) \/ Notify(p) \/ Wake(p)
    \/ Lock(p) \/ Park(p) \/ Wait(p)
    \/ Enter(p) /\ completed < st[p].seq
    \/ Recheck(p) /\ completed < st[p].seq
    \/ CompareExchange(p) /\ completed # st[p].current

\* The steps that only move a committer within publish.
LEMMA QuietKeeps ==
    ASSUME IInv, NEW p \in Committers, Quiet(p)
    PROVE  IInv' /\ UNCHANGED <<allocated, installed, completed, returned, ring>>
<1> USE GateAssumption
<1>1. st[p] \in Local /\ st \in [Committers -> Local] /\ completed \in 0 .. MaxSeq
      /\ 0 \in 0 .. MaxSeq
  BY DEF IInv, Typed
<1>2. UNCHANGED <<allocated, installed, completed, returned, ring, buf>>
  BY <1>1 DEF Quiet, Claim, LoadCompleted, CheckSlot, Notify, Wake, Lock, Park, Wait, Enter,
              Recheck, CompareExchange, Local
<1> SUFFICES IInv'
  BY <1>2
<1>3. ASSUME st' = [st EXCEPT ![p] = st'[p]], st'[p] \in Local, Moves(p)
      PROVE  IInv'
  <2>1. \A q \in Committers : st'[q] = st[q] \/ Moves(q)
    BY <1>1, <1>3
  <2>2. st' \in [Committers -> Local]
    BY <1>1, <1>3, LocalUpdate
  <2> QED
    BY <1>2, <2>1, <2>2, MovesKeep
<1>4. ASSUME NEW pc \in PCs, Goto(p, pc), ~ At(p, "idle"), ~ At(p, "install"),
             pc \notin {"idle", "install", "cas"},
             (pc \in {"enter", "claim", "store"}) <=> Before(p),
             pc \notin {"load", "check"},
             pc = "store" => st[p].seq < completed + Ring,
             pc = "unpark" => completed >= st[p].seq
      PROVE  IInv'
  <2> DEFINE r == [st[p] EXCEPT !.pc = pc]
  <2>1. r \in Local
    BY <1>1, <1>4, Zenon DEF Local
  <2>2. st' = [st EXCEPT ![p] = r] /\ r.pc = pc /\ r.seq = st[p].seq
    BY <1>1, <1>4 DEF Goto, Local
  <2> HIDE DEF r
  <2>3. st'[p] = r
    BY <1>1, <2>2
  <2>4. Moves(p)
    BY <1>4, <2>2, <2>3 DEF Moves, Before, At
  <2> QED
    BY <1>3, <2>1, <2>2, <2>3, <2>4, Zenon
<1>5. CASE Claim(p)
  <2>1. CASE st[p].seq >= completed + Ring
    <3> DEFINE r == [st[p] EXCEPT !.pc = "load", !.advanced = FALSE, !.call = "claim"]
    <3>1. r \in Local
      BY <1>1, Zenon DEF Local, PCs, Calls
    <3>2. st' = [st EXCEPT ![p] = r] /\ r.pc = "load" /\ r.seq = st[p].seq /\ r.call = "claim"
      BY <1>1, <1>5, <2>1, Zenon DEF Claim, Drain, Local
    <3> HIDE DEF r
    <3>3. st'[p] = r
      BY <1>1, <3>2
    <3>4. Moves(p)
      BY <1>5, <3>2, <3>3 DEF Moves, Before, At, Claim
    <3> QED
      BY <1>3, <3>1, <3>2, <3>3, <3>4, Zenon
  <2>2. CASE ~ (st[p].seq >= completed + Ring)
    <3>1. st[p].seq < completed + Ring
      BY <1>1, <2>2 DEF Local
    <3> QED
      BY <1>4, <1>5, <2>2, <3>1 DEF Claim, At, Before, PCs
  <2> QED
    BY <2>1, <2>2
<1>6. CASE LoadCompleted(p)
  <2> DEFINE r == [st[p] EXCEPT !.pc = "check", !.current = completed]
  <2>1. r \in Local
    BY <1>1, Zenon DEF Local, PCs
  <2>2. /\ st' = [st EXCEPT ![p] = r] /\ r.pc = "check" /\ r.seq = st[p].seq
        /\ r.call = st[p].call
    BY <1>1, <1>6, Zenon DEF LoadCompleted, Local
  <2> HIDE DEF r
  <2>3. st'[p] = r
    BY <1>1, <2>2
  <2>4. Moves(p)
    BY <1>6, <2>2, <2>3 DEF Moves, Before, At, LoadCompleted
  <2> QED
    BY <1>3, <2>1, <2>2, <2>3, <2>4, Zenon
<1>7. CASE CheckSlot(p)
  <2> DEFINE n == st[p].current + 1
  <2>1. At(p, "check") /\ n \in 1 .. MaxSeq + 1
    BY <1>1, <1>7 DEF CheckSlot, Local
  <2>2. CASE LoadRing(p, Slot(n)) = n
    <3> DEFINE r == [st[p] EXCEPT !.pc = "cas"]
    <3>1. r \in Local
      BY <1>1, Zenon DEF Local, PCs
    <3>2. /\ st' = [st EXCEPT ![p] = r] /\ r.pc = "cas" /\ r.seq = st[p].seq
          /\ r.call = st[p].call /\ r.current = st[p].current
      BY <1>1, <1>7, <2>2 DEF CheckSlot, Goto, Local
    <3>3. /\ n \in installed
          /\ \A q \in Committers : Unstored(q) /\ st[q].seq = n => q = p /\ buf[p] # 0
      BY <2>1, <2>2, SlotRead
    <3> HIDE DEF r
    <3>4. st'[p] = r
      BY <1>1, <3>2
    <3>5. Moves(p)
      BY <2>1, <3>2, <3>3, <3>4 DEF Moves, Before, At
    <3> QED
      BY <1>3, <3>1, <3>2, <3>4, <3>5, Zenon
  <2>3. CASE ~ (LoadRing(p, Slot(n)) = n)
    <3> DEFINE c == DrainReturn(p)
    <3> DEFINE r == [st[p] EXCEPT !.pc = c, !.current = 0, !.advanced = FALSE, !.call = "store"]
    <3>1. c \in PCs /\ c \in {"claim", "notify", "recheck"}
            /\ (c = "claim" <=> st[p].call = "claim")
      BY DEF DrainReturn, PCs
    <3>2. Leave(p, c)
      BY <1>7, <2>3 DEF CheckSlot
    <3> HIDE DEF c
    <3>3. r \in Local
      BY <1>1, <3>1, Zenon DEF Local, Calls
    <3>4. st' = [st EXCEPT ![p] = r] /\ r.pc = c /\ r.seq = st[p].seq
      BY <1>1, <3>2, Zenon DEF Leave, Local
    <3> HIDE DEF r
    <3>5. st'[p] = r
      BY <1>1, <3>4
    <3>6. Moves(p)
      BY <2>1, <3>1, <3>4, <3>5 DEF Moves, Before, At
    <3> QED
      BY <1>3, <3>3, <3>4, <3>5, <3>6, Zenon
  <2> QED
    BY <2>2, <2>3
<1>8. CASE Notify(p)
  <2>1. PICK c \in {"wake", "recheck"} : Goto(p, c)
    BY <1>8 DEF Notify
  <2> QED
    BY <1>4, <1>8, <2>1 DEF Notify, At, Before, PCs
<1>9. CASE Wake(p)
  <2>1. \A q \in Committers :
          \/ st'[q] = st[q]
          \/ At(q, "wake") /\ st'[q] = [st[q] EXCEPT !.pc = "recheck"]
          \/ At(q, "asleep") /\ st'[q] = [st[q] EXCEPT !.pc = "relock"]
    BY <1>9 DEF Wake
  <2>2. \A x \in Local : [x EXCEPT !.pc = "recheck"] \in Local
          /\ [x EXCEPT !.pc = "relock"] \in Local
    BY Zenon DEF Local, PCs
  <2>3. \A q \in Committers : st'[q] \in Local
    BY <1>1, <2>1, <2>2, Zenon
  <2>4. st' \in [Committers -> Local]
    <3>1. st' = [q \in Committers |-> st'[q]]
      BY <1>9 DEF Wake
    <3> QED
      BY <2>3, <3>1
  <2>5. \A q \in Committers : st'[q] = st[q] \/ Moves(q)
    <3> SUFFICES ASSUME NEW q \in Committers, st'[q] # st[q] PROVE Moves(q)
      OBVIOUS
    <3>1. st[q] \in Local
      BY <1>1
    <3>2. /\ st[q].pc \in {"wake", "asleep"} /\ st'[q].pc \in {"recheck", "relock"}
          /\ st'[q].seq = st[q].seq
      BY <2>1, <3>1, Zenon DEF At, Local
    <3> QED
      BY <3>2 DEF Moves, Before, At
  <2> QED
    BY <1>2, <2>4, <2>5, MovesKeep
<1>10. CASE Lock(p)
  <2>1. PICK c \in {"park", "wait"} : Goto(p, c)
    BY <1>10 DEF Lock
  <2> QED
    BY <1>4, <1>10, <2>1 DEF Lock, At, Before, PCs
<1>11. CASE Park(p)
  BY <1>4, <1>11 DEF Park, At, Before, PCs
<1>12. CASE Wait(p)
  <2>1. CASE Goto(p, "asleep")
    BY <1>4, <1>12, <2>1 DEF Wait, At, Before, PCs
  <2>2. CASE completed >= st[p].seq /\ Goto(p, "unpark")
    BY <1>4, <1>12, <2>2 DEF Wait, At, Before, PCs
  <2> QED
    BY <1>12, <2>1, <2>2 DEF Wait
<1>13. CASE Enter(p) /\ completed < st[p].seq
  <2>1. Goto(p, "claim")
    BY <1>1, <1>13 DEF Enter, Local
  <2>2. At(p, "enter")
    BY <1>13 DEF Enter
  <2> QED
    BY <1>4, <2>1, <2>2 DEF At, Before, PCs
<1>14. CASE Recheck(p) /\ completed < st[p].seq
  <2>0. At(p, "recheck")
    BY <1>14 DEF Recheck
  <2>1. CASE Goto(p, "lock")
    BY <1>4, <2>0, <2>1 DEF At, Before, PCs
  <2>2. CASE /\ st[p].spins > 0
             /\ st' = [st EXCEPT ![p].pc = "load", ![p].advanced = FALSE, ![p].call = "spin",
                                 ![p].spins = @ - 1]
    <3> DEFINE k == st[p].spins - 1
    <3> DEFINE r == [st[p] EXCEPT !.pc = "load", !.advanced = FALSE, !.call = "spin", !.spins = k]
    <3>1. k \in 0 .. Spins
      BY <1>1, <2>2 DEF Local
    <3>2. /\ st' = [st EXCEPT ![p] = r] /\ r.pc = "load" /\ r.seq = st[p].seq
          /\ r.call = "spin"
      BY <1>1, <2>2 DEF Local
    <3> HIDE DEF k
    <3>3. r \in Local
      BY <1>1, <3>1, Zenon DEF Local, PCs, Calls
    <3> HIDE DEF r
    <3>4. st'[p] = r
      BY <1>1, <3>2
    <3>5. Moves(p)
      BY <2>0, <3>2, <3>4 DEF Moves, Before, At
    <3> QED
      BY <1>3, <3>2, <3>3, <3>4, <3>5, Zenon
  <2>3. ~ (completed >= st[p].seq)
    BY <1>1, <1>14 DEF Local
  <2> QED
    BY <1>14, <2>1, <2>2, <2>3 DEF Recheck
<1>15. CASE CompareExchange(p) /\ completed # st[p].current
  <2> DEFINE r == [st[p] EXCEPT !.pc = "load", !.current = 0]
  <2>1. r \in Local
    BY <1>1, Zenon DEF Local, PCs
  <2>2. /\ st' = [st EXCEPT ![p] = r] /\ r.pc = "load" /\ r.seq = st[p].seq
        /\ r.call = st[p].call
    BY <1>1, <1>15, ZenonT(30) DEF CompareExchange, Local
  <2> HIDE DEF r
  <2>3. st'[p] = r
    BY <1>1, <2>2
  <2>4. Moves(p)
    BY <1>15, <2>2, <2>3 DEF Moves, Before, At, CompareExchange
  <2> QED
    BY <1>3, <2>1, <2>2, <2>3, <2>4, Zenon
<1> QED
  BY <1>5, <1>6, <1>7, <1>8, <1>9, <1>10, <1>11, <1>12, <1>13, <1>14, <1>15, SMTT(30) DEF Quiet

-----------------------------------------------------------------------------
\* Every step is one of six kinds.
LEMMA StepKinds ==
    ASSUME IInv, NEW p \in Committers, Allocate(p) \/ Publish(p) \/ FlushBuffer(p)
    PROVE  \/ Allocate(p) \/ Install(p) \/ Store(p) \/ FlushBuffer(p) \/ Quiet(p)
           \/ CompareExchange(p) /\ completed = st[p].current
           \/ /\ ~ At(p, "idle") /\ completed >= st[p].seq /\ Finish(p)
              /\ UNCHANGED <<allocated, installed, completed, ring, buf>>
<1>1. completed \in Int /\ st[p].seq \in Int
  BY GateAssumption DEF IInv, Typed, Local
<1>2. completed < st[p].seq \/ completed >= st[p].seq
  BY <1>1, SMTT(30)
<1>3. CASE Enter(p)
  BY <1>2, <1>3 DEF Enter, Quiet, At
<1>4. CASE Recheck(p)
  BY <1>1, <1>2, <1>4, SMTT(30) DEF Recheck, Quiet, At
<1>5. CASE Unpark(p)
  BY <1>5 DEF Unpark, IInv, Released, At
<1> QED
  BY <1>3, <1>4, <1>5, Zenon DEF Publish, Quiet

\* The invariant is inductive.
LEMMA NextIInv == IInv /\ [Next]_vars => IInv'
<1> SUFFICES ASSUME IInv, [Next]_vars PROVE IInv'
  BY SMTT(30)
<1>1. CASE UNCHANGED vars
  BY <1>1, SMTT(30) DEF vars, IInv, Typed, Owned, Installed, Pending, Claimed, RingExact,
    SwapSound, Released,
              PrefixInstalled, Before, Unstored, At, Slot
<1>2. ASSUME NEW p \in Committers, Allocate(p) \/ Publish(p) \/ FlushBuffer(p)
      PROVE  IInv'
  <2>1. CASE /\ ~ At(p, "idle") /\ completed >= st[p].seq /\ Finish(p)
             /\ UNCHANGED <<allocated, installed, completed, ring, buf>>
    BY <2>1, FinishKeeps, Zenon DEF Finish
  <2> QED
    BY <1>2, <2>1, StepKinds, AllocateKeeps, InstallKeeps, StoreKeeps, FlushBufferKeeps,
       QuietKeeps, AdvanceKeeps, SMTT(30)
<1> QED
  BY <1>1, <1>2 DEF Next

\* The invariant of the wait-free path holds in every reachable state.
LEMMA Inductive == Spec => []IInv
BY InitIInv, NextIInv, PTL DEF Spec

\* The watermark completed_commit never covers a sequence whose versions are not
\* in the shards: no snapshot has a hole, however many committers race.
THEOREM NoHole == Spec => []PrefixInstalled
<1>1. IInv => PrefixInstalled
  BY DEF IInv
<1> QED
  BY <1>1, Inductive, PTL

\* A ring slot keeps its sequence until the watermark has passed it: the check
\* that seq < completed + PUBLICATION_RING_SLOTS makes untagged slots safe.
THEOREM RingSafe == Spec => RingKeepsPending
<1> DEFINE Keeps == \A i \in 0 .. Ring - 1 : ring[i] > completed => ring'[i] = ring[i]
<1>1. ASSUME IInv, [Next]_vars
      PROVE  [Keeps]_vars
  <2> SUFFICES ASSUME Next PROVE Keeps
    BY <1>1
  <2>1. PICK p \in Committers : Allocate(p) \/ Publish(p) \/ FlushBuffer(p)
    BY DEF Next
  <2>2. ASSUME NEW s \in Nat, completed < s, s < completed + Ring,
               ring' = [ring EXCEPT ![Slot(s)] = s]
        PROVE  Keeps
    <3> SUFFICES ASSUME NEW i \in 0 .. Ring - 1, ring[i] > completed
                 PROVE  ring'[i] = ring[i]
      OBVIOUS
    <3>1. /\ ring \in [0 .. Ring - 1 -> 0 .. MaxSeq] /\ completed \in Nat /\ ring[i] \in Nat
          /\ Ring \in Nat /\ ring[i] # 0
      BY <1>1, GateAssumption DEF IInv, Typed
    <3>2. Slot(ring[i]) = i /\ ring[i] < completed + Ring
      BY <1>1, <3>1 DEF IInv, RingExact
    <3>3. CASE i = Slot(s)
      <4>1. ~ (ring[i] < s) /\ ~ (s < ring[i])
        BY <2>2, <3>1, <3>2, <3>3, SlotsApart
      <4> QED
        BY <2>2, <3>1, <3>3, <4>1
    <3> QED
      BY <2>2, <3>1, <3>3
  <2>3. CASE Store(p)
    <3>1. /\ Unstored(p) /\ st[p].seq \in Nat /\ st[p].seq < completed + Ring
          /\ completed < st[p].seq
      BY <1>1, <2>3, GateAssumption
         DEF Store, IInv, Typed, Local, Claimed, Pending, Unstored, Before, At
    <3>2. CASE ring' = ring
      BY <3>2
    <3> QED
      BY <2>2, <2>3, <3>1, <3>2 DEF Store
  <2>4. CASE FlushBuffer(p)
    <3>1. buf[p] \in Nat /\ buf[p] < completed + Ring /\ completed < buf[p]
      BY <1>1, <2>4, GateAssumption
         DEF FlushBuffer, Drained, IInv, Typed, Claimed, Pending, Unstored
    <3> QED
      BY <2>2, <2>4, <3>1, Zenon DEF FlushBuffer
  <2>5. CASE ring' = ring
    BY <2>5
  <2> QED
    BY <1>1, <2>1, <2>3, <2>4, <2>5, StepKinds, QuietKeeps
      , Zenon DEF Allocate, Install, CompareExchange
<1> QED
  BY <1>1, Inductive, PTL DEF Spec, RingKeepsPending

\* The wait-free gate implements ordered publication: publish(seq) returns only
\* once completed_commit covers seq, and completed_commit advances one installed
\* sequence at a time, under every interleaving and every delay of ring stores.
THEOREM Implements == Spec => ImplementsContract
<1>1. Init => Contract!Init
  BY DEF Init, Contract!Init
<1>2. ASSUME IInv, [Next]_vars
      PROVE  [Contract!Next]_(Contract!vars)
  <2>1. CASE UNCHANGED vars
    BY <2>1 DEF vars, Contract!vars
  <2>2. ASSUME NEW p \in Committers, Allocate(p) \/ Publish(p) \/ FlushBuffer(p)
        PROVE  [Contract!Next]_(Contract!vars)
    <3>1. CASE Allocate(p)
      BY <3>1 DEF Allocate, Contract!Next, Contract!Allocate
    <3>2. CASE Install(p)
      <4>1. st[p].seq \in 1 .. allocated
        BY <1>2, <3>2, InstallKeeps
      <4>2. st[p].seq \in Contract!Seqs
        BY <1>2, <4>1, GateAssumption DEF Contract!Seqs, IInv, Typed
      <4> QED
        BY <3>2, <4>1, <4>2 DEF Install, Contract!Next, Contract!Install
    <3>3. CASE Store(p) \/ FlushBuffer(p) \/ Quiet(p)
      BY <1>2, <3>3, QuietKeeps DEF Store, FlushBuffer, Contract!vars
    <3>4. CASE CompareExchange(p) /\ completed = st[p].current
      <4>1. completed' = completed + 1 /\ completed + 1 \in installed
        BY <1>2, <3>4, AdvanceKeeps
      <4> QED
        BY <3>4, <4>1 DEF CompareExchange, Contract!Next, Contract!Advance
    <3>5. CASE /\ ~ At(p, "idle") /\ completed >= st[p].seq /\ Finish(p)
               /\ UNCHANGED <<allocated, installed, completed, ring, buf>>
      <4>1. st[p].seq \in installed
        BY <1>2, <3>5, FinishKeeps, Zenon DEF Finish
      <4>2. st[p].seq \in Contract!Seqs /\ st[p].seq <= completed
        BY <1>2, <3>5, <4>1, GateAssumption DEF Contract!Seqs, IInv, Typed, Local, Seqs
      <4> QED
        BY <3>5, <4>1, <4>2 DEF Finish, Contract!Next, Contract!Return
    <3> QED
      BY <1>2, <2>2, <3>1, <3>2, <3>3, <3>4, <3>5, StepKinds
  <2> QED
    BY <1>2, <2>1, <2>2 DEF Next
<1> QED
  BY <1>1, <1>2, Inductive, PTL DEF Spec, ImplementsContract, Contract!Spec

-----------------------------------------------------------------------------
(* The parked counter *)

Waiting == {p \in Committers : st[p].pc \in {"wait", "asleep", "relock", "unpark"}}

\* Of the steps only Park and Unpark change the counter or who is counted.
LEMMA WaitingStep ==
    ASSUME IInv, NEW p \in Committers, Allocate(p) \/ Publish(p) \/ FlushBuffer(p)
    PROVE  \/ parked' = parked /\ Waiting' = Waiting
           \/ /\ Park(p) /\ parked' = parked + 1
              /\ p \notin Waiting /\ Waiting' = Waiting \cup {p}
           \/ /\ Unpark(p) /\ parked' = parked - 1
              /\ p \in Waiting /\ Waiting' = Waiting \ {p}
<1>0. st \in [Committers -> Local] /\ st[p] \in Local
  BY DEF IInv, Typed
<1>1. ASSUME NEW r, st' = [st EXCEPT ![p] = r]
      PROVE  /\ st'[p] = r /\ \A q \in Committers : q # p => st'[q] = st[q]
  BY <1>0, <1>1
<1> DEFINE W == {"wait", "asleep", "relock", "unpark"}
<1>2. ASSUME NEW r, st' = [st EXCEPT ![p] = r], r.pc \in W <=> st[p].pc \in W, parked' = parked
      PROVE  parked' = parked /\ Waiting' = Waiting
  BY <1>1, <1>2 DEF Waiting
<1>3. CASE Allocate(p)
  <2> DEFINE r == [st[p] EXCEPT !.pc = "install", !.seq = allocated + 1]
  <2>1. st' = [st EXCEPT ![p] = r] /\ r.pc = "install" /\ parked' = parked /\ st[p].pc = "idle"
    BY <1>0, <1>3, Zenon DEF Allocate, At, Local
  <2> QED BY <1>2, <2>1, Zenon
<1>4. CASE Install(p) \/ Notify(p)
  <2>1. PICK pc \in PCs : Goto(p, pc) /\ pc \in {"enter", "wake", "recheck"}
    BY <1>4 DEF Install, Notify, PCs
  <2> DEFINE r == [st[p] EXCEPT !.pc = pc]
  <2>2. st' = [st EXCEPT ![p] = r] /\ r.pc = pc /\ parked' = parked
          /\ st[p].pc \in {"install", "notify"}
    BY <1>0, <1>4, <2>1 DEF Install, Notify, Goto, At, Local
  <2> QED BY <1>2, <2>1, <2>2, Zenon
<1>5. CASE Enter(p) \/ Recheck(p)
  <2>1. st[p].pc \in {"enter", "recheck"} /\ parked' = parked
    BY <1>5 DEF Enter, Recheck, At
  <2>2. CASE Finish(p)
    BY <1>2, <2>1, <2>2, Zenon DEF Finish, Outside
  <2>3. CASE Goto(p, "claim") \/ Goto(p, "lock")
    <3>1. PICK pc \in {"claim", "lock"} : st' = [st EXCEPT ![p].pc = pc]
      BY <2>3 DEF Goto
    <3> DEFINE r == [st[p] EXCEPT !.pc = pc]
    <3>2. st' = [st EXCEPT ![p] = r] /\ r.pc = pc
      BY <1>0, <3>1 DEF Local
    <3> QED BY <1>2, <2>1, <3>1, <3>2, Zenon
  <2>4. CASE st' = [st EXCEPT ![p].pc = "load", ![p].advanced = FALSE,
                              ![p].call = "spin", ![p].spins = @ - 1]
    <3> DEFINE r == [st[p] EXCEPT !.pc = "load", !.advanced = FALSE, !.call = "spin", !.spins = @ - 1]
    <3>2. st' = [st EXCEPT ![p] = r] /\ r.pc = "load"
      BY <1>0, <2>4 DEF Local
    <3> QED BY <1>2, <2>1, <3>2, Zenon
  <2> QED BY <1>5, <2>2, <2>3, <2>4 DEF Enter, Recheck
<1>6. CASE Claim(p)
  <2>1. st[p].pc = "claim" /\ parked' = parked
    BY <1>6 DEF Claim, At
  <2>2. CASE Drain(p, "claim")
    <3> DEFINE r == [st[p] EXCEPT !.pc = "load", !.advanced = FALSE, !.call = "claim"]
    <3>1. st' = [st EXCEPT ![p] = r] /\ r.pc = "load"
      BY <1>0, <2>2, Zenon DEF Local, Drain
    <3> QED BY <1>2, <2>1, <3>1, Zenon
  <2>3. CASE Goto(p, "store")
    <3> DEFINE r == [st[p] EXCEPT !.pc = "store"]
    <3>1. st' = [st EXCEPT ![p] = r] /\ r.pc = "store"
      BY <1>0, <2>3 DEF Local, Goto
    <3> QED BY <1>2, <2>1, <3>1, Zenon
  <2> QED BY <1>6, <2>2, <2>3 DEF Claim
<1>7. CASE Store(p)
  <2> DEFINE r == [st[p] EXCEPT !.pc = "load", !.advanced = FALSE, !.call = "store", !.spins = Spins]
  <2>1. st' = [st EXCEPT ![p] = r] /\ r.pc = "load" /\ parked' = parked /\ st[p].pc = "store"
    BY <1>0, <1>7, Zenon DEF Local, Store, At
  <2> QED BY <1>2, <2>1, Zenon
<1>8. CASE FlushBuffer(p)
  BY <1>8 DEF FlushBuffer, Waiting
<1>9. CASE LoadCompleted(p)
  <2> DEFINE r == [st[p] EXCEPT !.pc = "check", !.current = completed]
  <2>1. st' = [st EXCEPT ![p] = r] /\ r.pc = "check" /\ parked' = parked /\ st[p].pc = "load"
    BY <1>0, <1>9, Zenon DEF Local, LoadCompleted, At
  <2> QED BY <1>2, <2>1, Zenon
<1>10. CASE CheckSlot(p)
  <2>1. st[p].pc = "check" /\ parked' = parked /\ (Goto(p, "cas") \/ Leave(p, DrainReturn(p)))
    BY <1>10 DEF CheckSlot, At
  <2>2. CASE Goto(p, "cas")
    <3> DEFINE r == [st[p] EXCEPT !.pc = "cas"]
    <3>1. st' = [st EXCEPT ![p] = r] /\ r.pc = "cas"
      BY <1>0, <2>2 DEF Local, Goto
    <3> QED BY <1>2, <2>1, <3>1, Zenon
  <2>3. CASE Leave(p, DrainReturn(p))
    <3>1. PICK pc : pc = DrainReturn(p)
      OBVIOUS
    <3>2. pc \in {"claim", "notify", "recheck"}
      BY <3>1 DEF DrainReturn
    <3> DEFINE r == [st[p] EXCEPT !.pc = pc, !.current = 0, !.advanced = FALSE, !.call = "store"]
    <3>3. st' = [st EXCEPT ![p] = r] /\ r.pc = pc
      BY <1>0, <2>3, <3>1, Zenon DEF Local, Leave
    <3> QED BY <1>2, <2>1, <3>2, <3>3, Zenon
  <2> QED BY <2>1, <2>2, <2>3
<1>11. CASE CompareExchange(p)
  <2>1. st[p].pc = "cas" /\ parked' = parked
    BY <1>11 DEF CompareExchange, At
  <2>2. PICK adv : st' = [st EXCEPT ![p].pc = "load", ![p].current = 0, ![p].advanced = adv]
    <3>1. CASE completed = st[p].current
      BY <1>11, <3>1 DEF CompareExchange
    <3>2. CASE completed # st[p].current
      <4>1. st' = [st EXCEPT ![p].pc = "load", ![p].current = 0, ![p].advanced = st[p].advanced]
        BY <1>0, <1>11, <3>2, Zenon DEF CompareExchange, Local
      <4> QED BY <4>1, Zenon
    <3> QED BY <3>1, <3>2
  <2> DEFINE r == [st[p] EXCEPT !.pc = "load", !.current = 0, !.advanced = adv]
  <2>3. st' = [st EXCEPT ![p] = r] /\ r.pc = "load"
    BY <1>0, <2>2, Zenon DEF Local
  <2> QED BY <1>2, <2>1, <2>3, Zenon
<1>12. CASE Wake(p)
  <2>1. /\ parked' = parked /\ st[p].pc = "wake"
        /\ \A q \in Committers : st'[q] = IF q = p THEN [st[q] EXCEPT !.pc = "recheck"]
                                          ELSE IF At(q, "asleep") THEN [st[q] EXCEPT !.pc = "relock"]
                                          ELSE st[q]
    BY <1>12 DEF Wake, At
  <2>2. \A q \in Committers : st[q] \in Local
    BY <1>0
  <2>3. \A q \in Committers : st'[q].pc = IF q = p THEN "recheck"
                                          ELSE IF st[q].pc = "asleep" THEN "relock" ELSE st[q].pc
    BY <2>1, <2>2, Zenon DEF At, Local
  <2> QED BY <2>1, <2>3 DEF Waiting
<1>13. CASE Lock(p)
  <2>1. PICK pc \in {"park", "wait"} : /\ st' = [st EXCEPT ![p].pc = pc]
                                       /\ st[p].pc = IF pc = "park" THEN "lock" ELSE "relock"
    BY <1>13, Zenon DEF Lock, At, Goto
  <2> DEFINE r == [st[p] EXCEPT !.pc = pc]
  <2>2. st' = [st EXCEPT ![p] = r] /\ r.pc = pc /\ parked' = parked
    BY <1>0, <1>13, <2>1 DEF Local, Lock
  <2> QED BY <1>2, <2>1, <2>2, Zenon
<1>14. CASE Wait(p)
  <2>1. PICK pc \in {"asleep", "unpark"} : st' = [st EXCEPT ![p].pc = pc]
    BY <1>14 DEF Wait, Goto
  <2> DEFINE r == [st[p] EXCEPT !.pc = pc]
  <2>2. st' = [st EXCEPT ![p] = r] /\ r.pc = pc /\ parked' = parked /\ st[p].pc = "wait"
    BY <1>0, <1>14, <2>1 DEF Local, Wait, At
  <2> QED BY <1>2, <2>1, <2>2, Zenon
<1>15. CASE Park(p)
  <2> DEFINE r == [st[p] EXCEPT !.pc = "wait"]
  <2>1. st' = [st EXCEPT ![p] = r] /\ r.pc = "wait" /\ parked' = parked + 1 /\ st[p].pc = "park"
    BY <1>0, <1>15 DEF Local, Park, At, Goto
  <2> HIDE DEF r
  <2> QED BY <1>1, <1>15, <2>1, Zenon DEF Waiting
<1>16. CASE Unpark(p)
  <2>1. st' = [st EXCEPT ![p] = Outside] /\ Outside.pc = "idle" /\ parked' = parked - 1
          /\ st[p].pc = "unpark"
    BY <1>16 DEF Unpark, At, Finish, Outside
  <2> QED BY <1>1, <1>16, <2>1, Zenon DEF Waiting
<1> QED BY <1>3, <1>4, <1>5, <1>6, <1>7, <1>8, <1>9, <1>10, <1>11, <1>12, <1>13, <1>14, <1>15,
       <1>16
       DEF Publish

\* The parked committers are finitely many.
LEMMA WaitingCount == IsFiniteSet(Waiting) /\ Cardinality(Waiting) \in Nat
<1>1. Waiting \in SUBSET Committers
  BY DEF Waiting
<1> QED BY <1>1, GateAssumption, FS_Subset, FS_CardinalityType

\* Every step keeps the parked count exact.
LEMMA ParkedNext == IInv /\ ParkedExact /\ [Next]_vars => ParkedExact'
<1> SUFFICES ASSUME IInv, ParkedExact, [Next]_vars PROVE parked' = Cardinality(Waiting')
  BY DEF ParkedExact, Waiting
<1>1. parked = Cardinality(Waiting)
  BY DEF ParkedExact, Waiting
<1>2. CASE UNCHANGED vars
  BY <1>1, <1>2 DEF vars, Waiting
<1>3. ASSUME NEW p \in Committers, Allocate(p) \/ Publish(p) \/ FlushBuffer(p)
      PROVE  parked' = Cardinality(Waiting')
  <2>1. p \notin Waiting => Cardinality(Waiting \cup {p}) = Cardinality(Waiting) + 1
    BY WaitingCount, FS_AddElement, Zenon
  <2>2. p \in Waiting => Cardinality(Waiting \ {p}) = Cardinality(Waiting) - 1
    BY WaitingCount, FS_RemoveElement, Zenon
  <2> QED BY <1>1, <1>3, <2>1, <2>2, WaitingStep
<1> QED BY <1>2, <1>3 DEF Next

\* The parked counter is the number of committers between park and unpark: a
\* notifier that reads zero leaves no waiter behind.
THEOREM ParkedCounts == Spec => []ParkedExact
<1>1. Init => ParkedExact
  <2> SUFFICES ASSUME Init PROVE ParkedExact
    OBVIOUS
  <2>1. Waiting = {} /\ parked = 0
    BY DEF Init, Waiting, Outside
  <2> QED BY <2>1, FS_EmptySet DEF ParkedExact, Waiting
<1> QED BY <1>1, ParkedNext, Inductive, PTL DEF Spec

\* The state has its shape: the parked counter is never decremented below zero,
\* and only allocated sequences are returned.
THEOREM TypeCorrect == Spec => []TypeOK
<1> DEFINE Rest == returned \in SUBSET Seqs /\ parked \in Nat
      /\ waitLock \in Committers \cup {NoOne}
<1>1. Init => Rest
  BY DEF Init
<1>2. ASSUME IInv, ParkedExact, Rest, [Next]_vars PROVE Rest'
  <2>1. CASE UNCHANGED vars
    BY <1>2, <2>1 DEF vars
  <2>2. ASSUME NEW p \in Committers, Allocate(p) \/ Publish(p) \/ FlushBuffer(p)
        PROVE  Rest'
    <3>1. ~ At(p, "idle") => st[p].seq \in Seqs
      BY <1>2, GateAssumption, SMTT(30) DEF IInv, Typed, Owned, Seqs
    <3>2. returned' = returned \/ (~ At(p, "idle") /\ returned' = returned \cup {st[p].seq})
      BY <2>2, SMTT(30) DEF Publish, Allocate, FlushBuffer, Install, Enter, Claim, Store,
         LoadCompleted,
         CheckSlot, CompareExchange, Notify, Wake, Recheck, Lock, Park, Wait, Unpark, Finish, At
    <3>3. waitLock' \in {waitLock, p, NoOne}
      BY <2>2 DEF Publish, Allocate, FlushBuffer, Install, Enter, Claim, Store, LoadCompleted,
         CheckSlot, CompareExchange, Notify, Wake, Recheck, Lock, Park, Wait, Unpark
    <3>4. parked' = Cardinality(Waiting')
      BY <1>2, ParkedNext DEF ParkedExact, Waiting
    <3>5. parked' \in Nat
      <4>1. Waiting' \in SUBSET Committers
        BY DEF Waiting
      <4> QED BY <3>4, <4>1, GateAssumption, FS_Subset, FS_CardinalityType
    <3> QED BY <1>2, <3>1, <3>2, <3>3, <3>5
  <2> QED BY <1>2, <2>1, <2>2 DEF Next
<1>3. IInv /\ Rest => TypeOK
  BY DEF IInv, Typed, TypeOK
<1> HIDE DEF Rest
<1> QED BY <1>1, <1>2, <1>3, ParkedCounts, Inductive, PTL DEF Spec

-----------------------------------------------------------------------------
(* The mutex path: publish_mutex loses no wakeup. *)

MutexPCs == {"idle", "install", "enter", "lock", "advance", "asleep", "relock"}
MutexLocal == [pc : MutexPCs, seq : 0 .. MaxSeq, advanced : BOOLEAN]

MutexTyped ==
    /\ allocated \in 0 .. MaxSeq
    /\ completed \in 0 .. MaxSeq
    /\ waiters \in Nat
    /\ waitLock \in Committers \cup {NoOne}
    /\ mst \in [Committers -> MutexLocal]

\* The lock is held exactly while ready_commits is advanced.
MutexHolder == \A p \in Committers : Mutex!At(p, "advance") <=> waitLock = p

\* waiters counts the committers in Condvar::wait.
MutexWaiting == {p \in Committers : mst[p].pc \in {"asleep", "relock"}}
MutexCounted == waiters = Cardinality(MutexWaiting)

MutexInstalled ==
    /\ installed \subseteq 1 .. allocated /\ ready \subseteq installed
    /\ \A p \in Committers : ~ Mutex!At(p, "idle") => mst[p].seq \in 1 .. allocated
    /\ \A p \in Committers : ~ Mutex!At(p, "idle") /\ ~ Mutex!At(p, "install")
         => mst[p].seq \in installed

\* A committer past its insertion is ready until the watermark covers it.
MutexInserted ==
    \A p \in Committers :
        mst[p].pc \in {"advance", "asleep", "relock"} /\ mst[p].seq > completed
          => mst[p].seq \in ready

MutexBlocked(p) ==
    /\ mst[p].seq > completed
    /\ \E s \in completed + 1 .. mst[p].seq - 1 : s \notin ready

\* A sleeper whose wait is over has a lock holder that will notify it.
MutexWillWake(q) == Mutex!At(q, "advance") /\ (mst[q].advanced \/ completed + 1 \in ready)
MutexNoLostWakeup ==
    \A p \in Committers : Mutex!At(p, "asleep")
      => MutexBlocked(p) \/ \E q \in Committers : MutexWillWake(q)

MutexIInv ==
    /\ MutexTyped /\ MutexHolder /\ MutexCounted
    /\ MutexInstalled /\ MutexInserted /\ MutexNoLostWakeup

-----------------------------------------------------------------------------
\* Nobody waits at first.
LEMMA MutexInitIInv == Mutex!Init => MutexIInv
<1> SUFFICES ASSUME Mutex!Init PROVE MutexIInv
  OBVIOUS
<1> USE DEF Mutex!Init
<1>1. \A p \in Committers : mst[p].pc = "idle"
  OBVIOUS
<1>2. MutexTyped
  <2>1. 0 \in 0 .. MaxSeq
    BY GateAssumption
  <2>2. [pc |-> "idle", seq |-> 0, advanced |-> FALSE] \in MutexLocal
    BY <2>1, Zenon DEF MutexLocal, MutexPCs
  <2> QED
    BY <2>1, <2>2 DEF MutexTyped
<1>3. MutexWaiting = {}
  BY <1>1 DEF MutexWaiting
<1>4. MutexCounted
  BY <1>3, FS_EmptySet DEF MutexCounted
<1>5. MutexHolder
  BY <1>1, GateAssumption DEF MutexHolder, Mutex!At
<1> QED
  BY <1>1, <1>2, <1>4, <1>5 DEF MutexIInv, MutexInstalled, MutexInserted, MutexNoLostWakeup,
     Mutex!At

\* The waiting committers are finitely many.
LEMMA MutexWaitingFinite ==
    IsFiniteSet(MutexWaiting) /\ Cardinality(MutexWaiting) \in Nat
BY FS_Subset, FS_CardinalityType, GateAssumption DEF MutexWaiting

\* A step of p changes what p knows and no other committer.
LEMMA MutexLocalUpdate ==
    ASSUME NEW p \in Committers, NEW r \in MutexLocal, mst \in [Committers -> MutexLocal],
           mst' = [mst EXCEPT ![p] = r]
    PROVE  /\ mst' \in [Committers -> MutexLocal] /\ mst'[p] = r
           /\ \A q \in Committers : q # p => mst'[q] = mst[q]
OBVIOUS

\* Steps of a committer that neither holds nor takes the lock, and does not wait.
LEMMA MutexUnlockedKeeps ==
    ASSUME MutexIInv, NEW p \in Committers, NEW r \in MutexLocal,
           mst' = [mst EXCEPT ![p] = r],
           UNCHANGED <<completed, ready, waiters, waitLock>>,
           allocated' \in {allocated, allocated + 1},
           allocated' \in 0 .. MaxSeq,
           installed \subseteq installed', installed' \subseteq 1 .. allocated',
           mst[p].pc \notin {"advance", "asleep", "relock"},
           r.pc \notin {"advance", "asleep", "relock"},
           r.pc # "idle" => r.seq \in 1 .. allocated',
           r.pc \notin {"idle", "install"} => r.seq \in installed'
    PROVE  MutexIInv'
<1> USE GateAssumption DEF MutexIInv
<1>1. /\ mst' \in [Committers -> MutexLocal] /\ mst'[p] = r
      /\ \A q \in Committers : q # p => mst'[q] = mst[q]
  BY MutexLocalUpdate DEF MutexTyped
<1>2. MutexTyped'
  BY <1>1 DEF MutexTyped
<1>3. MutexHolder'
  BY <1>1 DEF MutexHolder, Mutex!At
<1>4. MutexWaiting' = MutexWaiting
  BY <1>1 DEF MutexWaiting
<1>5. MutexCounted'
  BY <1>4 DEF MutexCounted
<1>6. MutexInstalled'
  BY <1>1 DEF MutexInstalled, MutexTyped, Mutex!At
<1>7. MutexInserted'
  BY <1>1 DEF MutexInserted
<1>8. MutexNoLostWakeup'
  BY <1>1 DEF MutexNoLostWakeup, MutexBlocked, MutexWillWake, Mutex!At
<1> QED
  BY <1>2, <1>3, <1>5, <1>6, <1>7, <1>8

\* Returning without a wait, before the lock was taken.
LEMMA MutexFinishUnlocked ==
    ASSUME MutexIInv, NEW p \in Committers, Mutex!Finish(p),
           Mutex!At(p, "enter") \/ Mutex!At(p, "lock"),
           UNCHANGED <<allocated, installed, completed, ready, waiters, waitLock>>
    PROVE  MutexIInv' /\ mst[p].seq \in installed
<1> DEFINE r == [mst[p] EXCEPT !.pc = "idle"]
<1>1. mst[p] \in MutexLocal
  BY DEF MutexIInv, MutexTyped
<1>2. r \in MutexLocal
  BY <1>1, Zenon DEF MutexLocal, MutexPCs
<1>3. mst' = [mst EXCEPT ![p] = r] /\ r.pc = "idle"
  BY <1>1 DEF Mutex!Finish, Mutex!Goto, MutexLocal
<1> HIDE DEF r
<1>4. mst[p].seq \in installed /\ installed \subseteq 1 .. allocated /\ allocated \in 0 .. MaxSeq
  BY DEF MutexIInv, MutexInstalled, Mutex!At, MutexTyped
<1> QED
  BY <1>2, <1>3, <1>4, MutexUnlockedKeeps, Zenon DEF Mutex!At

\* A new sequence is above every other.
LEMMA MutexAllocateKeeps ==
    ASSUME MutexIInv, NEW p \in Committers, Mutex!Allocate(p)
    PROVE  MutexIInv'
<1> DEFINE r == [mst[p] EXCEPT !.pc = "install", !.seq = allocated + 1]
<1>1. /\ mst[p] \in MutexLocal /\ allocated + 1 \in 0 .. MaxSeq
           /\ allocated + 1 \in 1 .. allocated + 1
      /\ installed \subseteq 1 .. allocated + 1
  BY GateAssumption DEF MutexIInv, MutexTyped, MutexInstalled, Mutex!Allocate
<1>2. r \in MutexLocal
  BY <1>1, Zenon DEF MutexLocal, MutexPCs
<1>3. mst' = [mst EXCEPT ![p] = r] /\ r.pc = "install" /\ r.seq = allocated + 1
  BY <1>1, Zenon DEF Mutex!Allocate, MutexLocal
<1> HIDE DEF r
<1> QED
  BY <1>1, <1>2, <1>3, MutexUnlockedKeeps, Zenon DEF Mutex!Allocate, Mutex!At

\* Its versions are installed before it is ready.
LEMMA MutexInstallKeeps ==
    ASSUME MutexIInv, NEW p \in Committers, Mutex!Install(p)
    PROVE  MutexIInv' /\ mst[p].seq \in 1 .. allocated
<1> DEFINE r == [mst[p] EXCEPT !.pc = "enter"]
<1>1. /\ mst[p] \in MutexLocal /\ mst[p].seq \in 1 .. allocated /\ allocated \in 0 .. MaxSeq
      /\ installed \subseteq 1 .. allocated
  BY DEF MutexIInv, MutexTyped, MutexInstalled, Mutex!Install, Mutex!At
<1>2. r \in MutexLocal
  BY <1>1, Zenon DEF MutexLocal, MutexPCs
<1>3. mst' = [mst EXCEPT ![p] = r] /\ r.pc = "enter" /\ r.seq = mst[p].seq
  BY <1>1 DEF Mutex!Install, Mutex!Goto, MutexLocal
<1> HIDE DEF r
<1> QED
  BY <1>1, <1>2, <1>3, MutexUnlockedKeeps, Zenon DEF Mutex!Install, Mutex!At

\* The check of the watermark before the lock.
LEMMA MutexEnterKeeps ==
    ASSUME MutexIInv, NEW p \in Committers, Mutex!Enter(p)
    PROVE  MutexIInv'
<1>1. CASE Mutex!Finish(p)
  BY <1>1, MutexFinishUnlocked DEF Mutex!Enter
<1>2. CASE Mutex!Goto(p, "lock")
  <2> DEFINE r == [mst[p] EXCEPT !.pc = "lock"]
  <2>1. /\ mst[p] \in MutexLocal /\ mst[p].seq \in 1 .. allocated /\ mst[p].seq \in installed
        /\ installed \subseteq 1 .. allocated /\ allocated \in 0 .. MaxSeq
    BY DEF MutexIInv, MutexTyped, MutexInstalled, Mutex!Enter, Mutex!At
  <2>2. r \in MutexLocal
    BY <2>1, Zenon DEF MutexLocal, MutexPCs
  <2>3. mst' = [mst EXCEPT ![p] = r] /\ r.pc = "lock" /\ r.seq = mst[p].seq
    BY <1>2, <2>1 DEF Mutex!Goto, MutexLocal
  <2> HIDE DEF r
  <2> QED
    BY <2>1, <2>2, <2>3, MutexUnlockedKeeps, Zenon DEF Mutex!Enter, Mutex!At
<1> QED
  BY <1>1, <1>2 DEF Mutex!Enter

\* A filled hole that frees a sleeper is the next sequence: the inserter will
\* advance over it.
LEMMA MutexInsertKeeps ==
    ASSUME MutexIInv, NEW p \in Committers, Mutex!LockAndInsert(p), ~ (completed >= mst[p].seq)
    PROVE  MutexIInv'
<1> USE GateAssumption DEF MutexIInv
<1> DEFINE r == [mst[p] EXCEPT !.pc = "advance", !.advanced = FALSE]
<1>0. /\ Mutex!At(p, "lock") /\ waitLock = NoOne /\ waitLock' = p
           /\ ready' = ready \cup {mst[p].seq}
      /\ UNCHANGED <<allocated, installed, completed, waiters>>
      /\ mst' = [mst EXCEPT ![p] = r] /\ r.pc = "advance" /\ r.seq = mst[p].seq
      /\ mst[p] \in MutexLocal
  BY Zenon DEF Mutex!LockAndInsert, MutexTyped, MutexLocal
<1>1. r \in MutexLocal
  BY <1>0, Zenon DEF MutexLocal, MutexPCs
<1> HIDE DEF r
<1>2. /\ mst' \in [Committers -> MutexLocal] /\ mst'[p] = r
      /\ \A q \in Committers : q # p => mst'[q] = mst[q]
  BY <1>0, <1>1, MutexLocalUpdate DEF MutexTyped
<1>3. MutexTyped'
  BY <1>0, <1>2 DEF MutexTyped
<1>4. MutexHolder'
  BY <1>0, <1>2 DEF MutexHolder, Mutex!At
<1>5. MutexWaiting' = MutexWaiting
  BY <1>0, <1>2 DEF MutexWaiting, Mutex!At
<1>6. MutexCounted'
  BY <1>0, <1>5 DEF MutexCounted
<1>7. MutexInstalled'
  BY <1>0, <1>2, Zenon DEF MutexInstalled, Mutex!At
<1>8. MutexInserted'
  BY <1>0, <1>2 DEF MutexInserted, Mutex!At
<1>9. MutexNoLostWakeup'
  <2> SUFFICES ASSUME NEW q \in Committers, Mutex!At(q, "asleep")', ~ MutexBlocked(q)'
               PROVE  MutexWillWake(p)'
    BY DEF MutexNoLostWakeup
  <2>1. q # p /\ Mutex!At(q, "asleep") /\ mst'[q] = mst[q]
    BY <1>0, <1>2 DEF Mutex!At
  <2>2. MutexBlocked(q)
    BY <1>0, <2>1 DEF MutexNoLostWakeup, MutexWillWake, MutexHolder
  <2>3. PICK s \in completed + 1 .. mst[q].seq - 1 : s \notin ready
    BY <2>2 DEF MutexBlocked
  <2>4. completed \in Int /\ mst[q].seq \in Int
    BY DEF MutexTyped, MutexLocal
  <2>5. completed + 1 \in completed + 1 .. mst[q].seq - 1
    BY <2>3, <2>4
  <2>6. completed + 1 \in ready'
    BY <1>0, <2>1, <2>2, <2>5 DEF MutexBlocked
  <2> QED
    BY <1>0, <1>2, <2>6 DEF MutexWillWake, Mutex!At
<1> QED
  BY <1>3, <1>4, <1>6, <1>7, <1>8, <1>9

\* The watermark moves over a ready sequence, which is installed.
LEMMA MutexAdvanceKeeps ==
    ASSUME MutexIInv, NEW p \in Committers, Mutex!AdvancePrefix(p)
    PROVE  MutexIInv' /\ completed + 1 \in installed
<1> USE GateAssumption DEF MutexIInv
<1> DEFINE r == [mst[p] EXCEPT !.advanced = TRUE]
<1>0. /\ Mutex!At(p, "advance") /\ completed + 1 \in ready /\ ready' = ready \ {completed + 1}
      /\ completed' = completed + 1 /\ UNCHANGED <<allocated, installed, waiters, waitLock>>
      /\ mst' = [mst EXCEPT ![p] = r] /\ r.pc = "advance" /\ r.seq = mst[p].seq
           /\ r.advanced = TRUE
      /\ mst[p] \in MutexLocal
  BY DEF Mutex!AdvancePrefix, MutexTyped, MutexLocal, Mutex!At
<1>1. r \in MutexLocal
  BY <1>0, Zenon DEF MutexLocal
<1> HIDE DEF r
<1>2. /\ mst' \in [Committers -> MutexLocal] /\ mst'[p] = r
      /\ \A q \in Committers : q # p => mst'[q] = mst[q]
  BY <1>0, <1>1, MutexLocalUpdate DEF MutexTyped
<1>3. \A q \in Committers : mst'[q].pc = mst[q].pc /\ mst'[q].seq = mst[q].seq
  BY <1>0, <1>2 DEF Mutex!At
<1>4. completed + 1 \in installed /\ completed + 1 \in 0 .. MaxSeq
  BY <1>0 DEF MutexInstalled, MutexTyped
<1>5. MutexTyped'
  BY <1>0, <1>2, <1>4 DEF MutexTyped
<1>6. MutexHolder'
  BY <1>0, <1>3 DEF MutexHolder, Mutex!At
<1>7. MutexWaiting' = MutexWaiting
  BY <1>3 DEF MutexWaiting
<1>8. MutexCounted'
  BY <1>0, <1>7 DEF MutexCounted
<1>9. MutexInstalled'
  <2>1. allocated' = allocated /\ installed' = installed /\ ready' \subseteq ready
    BY <1>0
  <2> QED
    BY <1>3, <2>1 DEF MutexInstalled, Mutex!At
<1>10. MutexInserted'
  BY <1>0, <1>3 DEF MutexInserted, MutexTyped, MutexLocal
<1>11. MutexWillWake(p)'
  BY <1>0, <1>2 DEF MutexWillWake, Mutex!At
<1>12. MutexNoLostWakeup'
  BY <1>11 DEF MutexNoLostWakeup
<1> QED
  BY <1>4, <1>5, <1>6, <1>8, <1>9, <1>10, <1>12

\* A woken committer takes the lock again and leaves the waiters.
LEMMA MutexRelockKeeps ==
    ASSUME MutexIInv, NEW p \in Committers, Mutex!Relock(p)
    PROVE  MutexIInv'
<1> USE GateAssumption DEF MutexIInv
<1> DEFINE r == [mst[p] EXCEPT !.pc = "advance", !.advanced = FALSE]
<1>0. /\ Mutex!At(p, "relock") /\ waitLock = NoOne /\ waitLock' = p
      /\ waiters' = (IF waiters > 0 THEN waiters - 1 ELSE 0)
      /\ UNCHANGED <<allocated, installed, completed, ready>>
      /\ mst' = [mst EXCEPT ![p] = r] /\ r.pc = "advance" /\ r.seq = mst[p].seq
      /\ mst[p] \in MutexLocal
  BY Zenon DEF Mutex!Relock, MutexTyped, MutexLocal
<1>1. r \in MutexLocal
  BY <1>0, Zenon DEF MutexLocal, MutexPCs
<1> HIDE DEF r
<1>2. /\ mst' \in [Committers -> MutexLocal] /\ mst'[p] = r
      /\ \A q \in Committers : q # p => mst'[q] = mst[q]
  BY <1>0, <1>1, MutexLocalUpdate DEF MutexTyped
<1>3. MutexWaiting' = MutexWaiting \ {p} /\ p \in MutexWaiting
  BY <1>0, <1>2 DEF MutexWaiting, Mutex!At
<1>4. /\ Cardinality(MutexWaiting \ {p}) = Cardinality(MutexWaiting) - 1
      /\ Cardinality(MutexWaiting \ {p}) \in Nat /\ Cardinality(MutexWaiting) \in Nat
  BY <1>3, MutexWaitingFinite, FS_RemoveElement, FS_CardinalityType
<1>5. MutexCounted' /\ waiters' \in Nat
  BY <1>0, <1>3, <1>4 DEF MutexCounted
<1>6. MutexTyped'
  BY <1>0, <1>2, <1>5 DEF MutexTyped
<1>7. MutexHolder'
  BY <1>0, <1>2 DEF MutexHolder, Mutex!At
<1>8. MutexInstalled'
  BY <1>0, <1>2 DEF MutexInstalled, Mutex!At
<1>9. MutexInserted'
  BY <1>0, <1>2 DEF MutexInserted, Mutex!At
<1>10. MutexNoLostWakeup'
  <2> SUFFICES ASSUME NEW q \in Committers, Mutex!At(q, "asleep")'
               PROVE  MutexBlocked(q)'
    BY DEF MutexNoLostWakeup
  <2>1. Mutex!At(q, "asleep") /\ mst'[q] = mst[q]
    BY <1>0, <1>2 DEF Mutex!At
  <2>2. MutexBlocked(q)
    BY <1>0, <2>1 DEF MutexNoLostWakeup, MutexWillWake, MutexHolder
  <2> QED
    BY <1>0, <2>1, <2>2 DEF MutexBlocked
<1> QED
  BY <1>5, <1>6, <1>7, <1>8, <1>9, <1>10

\* The lock holder wakes the sleepers it may have freed, then returns or sleeps
\* behind a sequence that is not ready.
LEMMA MutexNotifyKeeps ==
    ASSUME MutexIInv, NEW p \in Committers, Mutex!NotifyAndWait(p)
    PROVE  MutexIInv' /\ (completed >= mst[p].seq => mst[p].seq \in installed)
<1> USE GateAssumption DEF MutexIInv
<1> DEFINE done == completed >= mst[p].seq
<1>0. /\ Mutex!At(p, "advance") /\ completed + 1 \notin ready /\ waitLock' = NoOne /\ waitLock = p
      /\ waiters' = Mutex!WaitersAfter(p)
      /\ UNCHANGED <<allocated, installed, completed, ready>>
  BY DEF Mutex!NotifyAndWait, MutexHolder
<1>1. /\ mst' = [q \in Committers |-> mst'[q]]
      /\ mst'[p] = [mst[p] EXCEPT !.pc = IF done THEN "idle" ELSE "asleep"]
      /\ \A q \in Committers : q # p =>
           mst'[q] = IF Mutex!Woken(p) /\ Mutex!At(q, "asleep")
                        THEN [mst[q] EXCEPT !.pc = "relock"] ELSE mst[q]
  BY DEF Mutex!NotifyAndWait
<1>2. \A x \in MutexLocal : \A c \in MutexPCs :
        [x EXCEPT !.pc = c] \in MutexLocal /\ [x EXCEPT !.pc = c].pc = c
          /\ [x EXCEPT !.pc = c].seq = x.seq
  BY Zenon DEF MutexLocal
<1>3. \A q \in Committers : mst[q] \in MutexLocal
  BY DEF MutexTyped
<1>4. mst'[p] \in MutexLocal /\ mst'[p].seq = mst[p].seq
      /\ mst'[p].pc = IF done THEN "idle" ELSE "asleep"
  <2> DEFINE c == IF done THEN "idle" ELSE "asleep"
  <2>1. c \in MutexPCs
    BY DEF MutexPCs
  <2>2. mst'[p] = [mst[p] EXCEPT !.pc = c]
    BY <1>1
  <2>3. mst'[p] \in MutexLocal /\ mst'[p].seq = mst[p].seq /\ mst'[p].pc = c
    <3> HIDE DEF c
    <3> QED
      BY <1>2, <1>3, <2>1, <2>2
  <2> QED
    BY <2>3
<1>5. ASSUME NEW q \in Committers, q # p
      PROVE  /\ mst'[q] \in MutexLocal /\ mst'[q].seq = mst[q].seq
             /\ mst'[q].pc = IF Mutex!Woken(p) /\ Mutex!At(q, "asleep") THEN "relock"
                  ELSE mst[q].pc
  <2>1. "relock" \in MutexPCs
    BY DEF MutexPCs
  <2>2. CASE Mutex!Woken(p) /\ Mutex!At(q, "asleep")
    <3>1. mst'[q] = [mst[q] EXCEPT !.pc = "relock"]
      BY <1>1, <1>5, <2>2
    <3> QED
      BY <1>2, <1>3, <2>1, <2>2, <3>1
  <2>3. CASE ~ (Mutex!Woken(p) /\ Mutex!At(q, "asleep"))
    BY <1>1, <1>3, <1>5, <2>3
  <2> QED
    BY <2>2, <2>3
<1>6. mst' \in [Committers -> MutexLocal]
  <2>1. \A q \in Committers : mst'[q] \in MutexLocal
    BY <1>4, <1>5
  <2> QED
    BY <1>1, <2>1
<1>7. completed \in Int /\ mst[p].seq \in Int /\ waiters \in Nat
  BY <1>3 DEF MutexTyped, MutexLocal
<1>8. MutexWaiting' = (IF done THEN MutexWaiting ELSE MutexWaiting \cup {p})
        /\ p \notin MutexWaiting
  BY <1>0, <1>4, <1>5 DEF MutexWaiting, Mutex!At
<1>9. MutexCounted' /\ waiters' \in Nat
  <2>1. Cardinality(MutexWaiting \cup {p}) = Cardinality(MutexWaiting) + 1
    BY <1>8, MutexWaitingFinite, FS_AddElement, Zenon
  <2> QED
    BY <1>0, <1>7, <1>8, <2>1 DEF MutexCounted, Mutex!WaitersAfter
<1>10. MutexTyped'
  BY <1>0, <1>6, <1>9 DEF MutexTyped
<1>11. MutexHolder'
  BY <1>0, <1>4, <1>5 DEF MutexHolder, Mutex!At
<1>12. MutexInstalled'
  BY <1>0, <1>4, <1>5 DEF MutexInstalled, Mutex!At
<1>13. MutexInserted'
  BY <1>0, <1>4, <1>5 DEF MutexInserted, Mutex!At
<1>14. MutexNoLostWakeup'
  <2> SUFFICES ASSUME NEW q \in Committers, Mutex!At(q, "asleep")'
               PROVE  MutexBlocked(q)'
    BY DEF MutexNoLostWakeup
  <2>1. CASE q = p
    <3>1. mst[p].seq > completed
      BY <1>4, <1>7, <2>1 DEF Mutex!At
    <3>2. mst[p].seq \in ready
      BY <1>0, <3>1 DEF MutexInserted, Mutex!At
    <3>3. completed + 1 \in completed + 1 .. mst[p].seq - 1
      BY <1>0, <1>7, <3>1, <3>2
    <3> QED
      BY <1>0, <1>4, <2>1, <3>1, <3>3 DEF MutexBlocked
  <2>2. CASE q # p
    <3>1. Mutex!At(q, "asleep") /\ ~ Mutex!Woken(p) /\ mst'[q].seq = mst[q].seq
      BY <1>5, <2>2 DEF Mutex!At
    <3>2. waiters > 0
      <4>1. q \in MutexWaiting
        BY <3>1 DEF MutexWaiting, Mutex!At
      <4>2. Cardinality(MutexWaiting) # 0
        BY <4>1, MutexWaitingFinite, FS_EmptySet
      <4> QED
        BY <1>7, <4>2 DEF MutexCounted
    <3>3. ~ mst[p].advanced
      BY <3>1, <3>2 DEF Mutex!Woken
    <3>4. \A x \in Committers : ~ MutexWillWake(x)
      BY <1>0, <3>3 DEF MutexWillWake, MutexHolder
    <3>5. MutexBlocked(q)
      BY <3>1, <3>4 DEF MutexNoLostWakeup
    <3> QED
      BY <1>0, <3>1, <3>5 DEF MutexBlocked
  <2> QED
    BY <2>1, <2>2
<1>15. mst[p].seq \in installed
  BY <1>0 DEF MutexInstalled, Mutex!At
<1> QED
  BY <1>9, <1>10, <1>11, <1>12, <1>13, <1>14, <1>15

-----------------------------------------------------------------------------
\* Every step of the mutex path keeps the invariant.
LEMMA MutexNextIInv == MutexIInv /\ [Mutex!Next]_(Mutex!vars) => MutexIInv'
<1> SUFFICES ASSUME MutexIInv, [Mutex!Next]_(Mutex!vars) PROVE MutexIInv'
  OBVIOUS
<1>1. CASE UNCHANGED Mutex!vars
  BY <1>1 DEF Mutex!vars, MutexIInv, MutexTyped, MutexHolder, MutexCounted, MutexWaiting,
     MutexInstalled, MutexInserted, MutexNoLostWakeup, MutexBlocked,
              MutexWillWake, Mutex!At
<1>2. ASSUME NEW p \in Committers, Mutex!LockAndInsert(p) PROVE MutexIInv'
  <2>1. CASE completed >= mst[p].seq
    BY <1>2, <2>1, MutexFinishUnlocked DEF Mutex!LockAndInsert
  <2> QED
    BY <1>2, <2>1, MutexInsertKeeps
<1> QED
  BY <1>1, <1>2, MutexAllocateKeeps, MutexInstallKeeps, MutexEnterKeeps, MutexAdvanceKeeps,
     MutexNotifyKeeps, MutexRelockKeeps
     DEF Mutex!Next, Mutex!Publish

\* The invariant of the mutex path holds in every reachable state.
LEMMA MutexInductive == Mutex!Spec => []MutexIInv
<1>1. Mutex!Init => MutexIInv
  BY MutexInitIInv
<1>2. MutexIInv /\ [Mutex!Next]_(Mutex!vars) => MutexIInv'
  BY MutexNextIInv
<1> QED
  BY <1>1, <1>2, PTL DEF Mutex!Spec

\* publish_mutex loses no wakeup: whenever wait_lock is free, every committer in
\* Condvar::wait still waits for a lower sequence that is not ready.
THEOREM MutexNoSleeperLeft == Mutex!Spec => []Mutex!SleepersAreBlocked
<1>1. MutexIInv => Mutex!SleepersAreBlocked
  BY GateAssumption DEF MutexIInv, Mutex!SleepersAreBlocked, MutexNoLostWakeup, MutexWillWake,
     MutexBlocked, MutexHolder
<1>2. Mutex!Spec => []MutexIInv
  BY MutexInductive
<1> QED
  BY <1>1, <1>2, PTL

\* The mutex gate implements the same contract as the wait-free one.
THEOREM MutexImplements == Mutex!Spec => ImplementsContract
<1>1. Mutex!Init => Contract!Init
  BY DEF Mutex!Init, Contract!Init
<1>2. MutexIInv /\ [Mutex!Next]_(Mutex!vars) => [Contract!Next]_(Contract!vars)
  <2> SUFFICES ASSUME MutexIInv, [Mutex!Next]_(Mutex!vars) PROVE [Contract!Next]_(Contract!vars)
    OBVIOUS
  <2>1. CASE UNCHANGED Mutex!vars
    BY <2>1 DEF Mutex!vars, Contract!vars
  <2>2. ASSUME NEW p \in Committers, mst[p].seq \in installed, completed >= mst[p].seq,
               returned' = returned \cup {mst[p].seq},
               UNCHANGED <<allocated, installed, completed>>
        PROVE  Contract!Next
    <3>0. mst[p].seq \in 1 .. allocated /\ allocated \in 0 .. MaxSeq /\ completed \in 0 .. MaxSeq
      BY <2>2, Zenon DEF MutexIInv, MutexInstalled, MutexTyped
    <3>1. mst[p].seq \in Contract!Seqs /\ mst[p].seq <= completed
      BY <2>2, <3>0, GateAssumption DEF Contract!Seqs
    <3> QED
      BY <2>2, <3>1 DEF Contract!Next, Contract!Return
  <2>3. ASSUME NEW p \in Committers, Mutex!Allocate(p) \/ Mutex!Publish(p)
        PROVE  [Contract!Next]_(Contract!vars)
    <3>1. CASE Mutex!Allocate(p)
      BY <3>1 DEF Mutex!Allocate, Contract!Next, Contract!Allocate
    <3>2. CASE Mutex!Install(p)
      <4>1. mst[p].seq \in 1 .. allocated
        BY <3>2, MutexInstallKeeps
      <4>2. mst[p].seq \in Contract!Seqs
        BY <4>1, GateAssumption DEF Contract!Seqs, MutexIInv, MutexTyped
      <4> QED
        BY <3>2, <4>1, <4>2 DEF Mutex!Install, Contract!Next, Contract!Install
    <3>3. CASE Mutex!Enter(p)
      <4>1. mst[p].seq \in installed
        BY <3>3 DEF MutexIInv, MutexInstalled, Mutex!Enter, Mutex!At
      <4> QED
        BY <2>2, <3>3, <4>1 DEF Mutex!Enter, Mutex!Finish, Contract!vars
    <3>4. CASE Mutex!LockAndInsert(p)
      <4>1. mst[p].seq \in installed
        BY <3>4 DEF MutexIInv, MutexInstalled, Mutex!LockAndInsert, Mutex!At
      <4> QED
        BY <2>2, <3>4, <4>1 DEF Mutex!LockAndInsert, Mutex!Finish, Contract!vars
    <3>5. CASE Mutex!AdvancePrefix(p)
      BY <3>5, MutexAdvanceKeeps, Zenon DEF Mutex!AdvancePrefix, Contract!Next, Contract!Advance
    <3>6. CASE Mutex!NotifyAndWait(p)
      BY <2>2, <3>6, MutexNotifyKeeps, SMTT(30) DEF Mutex!NotifyAndWait, Contract!vars
    <3>7. CASE Mutex!Relock(p)
      BY <3>7 DEF Mutex!Relock, Contract!vars
    <3> QED
      BY <2>3, <3>1, <3>2, <3>3, <3>4, <3>5, <3>6, <3>7 DEF Mutex!Publish
  <2> QED
    BY <2>1, <2>3 DEF Mutex!Next
<1>3. Mutex!Spec => []MutexIInv
  BY MutexInductive
<1> QED
  BY <1>1, <1>2, <1>3, PTL DEF Mutex!Spec, ImplementsContract, Contract!Spec

\* Only allocated sequences are returned.
LEMMA MutexReturnedNext ==
    MutexIInv /\ returned \subseteq Mutex!Seqs /\ [Mutex!Next]_(Mutex!vars)
      => (returned \subseteq Mutex!Seqs)'
<1> SUFFICES ASSUME MutexIInv, returned \subseteq Mutex!Seqs, Mutex!Next
      PROVE returned' \subseteq Mutex!Seqs
  BY Zenon DEF Mutex!vars, Mutex!Seqs
<1>1. PICK p \in Committers : Mutex!Allocate(p) \/ Mutex!Publish(p)
  BY DEF Mutex!Next
<1>2. ~ Mutex!At(p, "idle") => mst[p].seq \in Mutex!Seqs
  BY GateAssumption DEF MutexIInv, MutexInstalled, MutexTyped, Mutex!Seqs
<1> QED
  BY <1>1, <1>2 DEF Mutex!Allocate, Mutex!Publish, Mutex!Install, Mutex!Enter,
     Mutex!LockAndInsert, Mutex!AdvancePrefix, Mutex!NotifyAndWait,
     Mutex!Relock, Mutex!Finish, Mutex!At

\* The state of the mutex path keeps its shape; a committer is counted once in
\* waiters while it waits, so the counter never exceeds the committers.
THEOREM MutexTypeCorrect == Mutex!Spec => []Mutex!TypeOK
<1>1. Mutex!Init => returned \subseteq Mutex!Seqs
  BY DEF Mutex!Init
<1>2. ASSUME MutexIInv, returned \subseteq Mutex!Seqs PROVE Mutex!TypeOK
  <2>1. installed \subseteq Mutex!Seqs /\ ready \subseteq Mutex!Seqs
    BY <1>2, GateAssumption DEF MutexIInv, MutexInstalled, MutexTyped, Mutex!Seqs
  <2>2. MutexWaiting \subseteq Committers
    BY DEF MutexWaiting
  <2>3. Cardinality(MutexWaiting) <= Cardinality(Committers) /\ Cardinality(Committers) \in Nat
    BY <2>2, FS_Subset, FS_CardinalityType, GateAssumption
  <2>4. waiters \in 0 .. Cardinality(Committers)
    BY <1>2, <2>3, MutexWaitingFinite DEF MutexIInv, MutexCounted
  <2>5. Mutex!Cardinality(Committers) = Cardinality(Committers)
    BY DEF Mutex!Cardinality, Cardinality, Mutex!IsFiniteSet, IsFiniteSet
  <2> QED
    BY <1>2, <2>1, <2>4, <2>5, Zenon DEF Mutex!TypeOK, MutexIInv, MutexTyped, MutexLocal, MutexPCs
<1>3. Mutex!Spec => []MutexIInv
  BY MutexInductive
<1>4. MutexIInv /\ returned \subseteq Mutex!Seqs /\ [Mutex!Next]_(Mutex!vars)
        => (returned \subseteq Mutex!Seqs)'
  BY MutexReturnedNext
<1> QED
  BY <1>1, <1>2, <1>3, <1>4, PTL DEF Mutex!Spec

-----------------------------------------------------------------------------
(* The gate of a store: either path. *)

WaitFreePath == mode = "WaitFree"
MutexPath == mode = "Mutex"

\* The path that was not chosen keeps its first values.
MutexRests == ready = {} /\ waiters = 0
              /\ mst = [p \in Committers |-> [pc |-> "idle", seq |-> 0, advanced |-> FALSE]]
WaitFreeRests ==
    /\ ring = [i \in 0 .. Ring - 1 |-> 0] /\ buf = [p \in Committers |-> 0] /\ parked = 0
    /\ st = [p \in Committers |-> Outside]

\* On the wait-free path the gate behaves as GateWaitFree does.
LEMMA WaitFreeRefines ==
    GateSpec /\ WaitFreePath => Spec /\ [](WaitFreePath /\ MutexRests)
<1>1. GateInit => Init /\ MutexRests
    BY DEF GateInit, Mutex!Init, MutexRests
<1>2. ASSUME WaitFreePath, [GateNext]_gateVars
      PROVE  [Next]_vars /\ WaitFreePath' /\ UNCHANGED mutexVars
    BY <1>2 DEF WaitFreePath, GateNext, GateAllocate, GatePublish, gateVars, Next
<1>3. ASSUME MutexRests, UNCHANGED mutexVars PROVE MutexRests'
    BY <1>3 DEF MutexRests, mutexVars
<1> QED BY <1>1, <1>2, <1>3, PTL DEF GateSpec, Spec

\* A gate built with the mutex path is that path, and the ring rests.
LEMMA MutexRefines ==
    GateSpec /\ MutexPath => Mutex!Spec /\ [](MutexPath /\ WaitFreeRests)
<1>1. GateInit => Mutex!Init /\ WaitFreeRests
    BY DEF GateInit, Init, WaitFreeRests
<1>2. ASSUME MutexPath, [GateNext]_gateVars
      PROVE  [Mutex!Next]_(Mutex!vars) /\ MutexPath' /\ UNCHANGED waitFreeVars
  <2>1. CASE UNCHANGED gateVars
    BY <1>2, <2>1, SMTT(30) DEF gateVars, vars, mutexVars, waitFreeVars, Mutex!vars, MutexPath
  <2>2. CASE GateNext
    <3>1. PICK p \in Committers : /\ Mutex!Allocate(p) \/ Mutex!Publish(p)
                                  /\ UNCHANGED waitFreeVars /\ UNCHANGED mode
        BY <1>2, <2>2, SMTT(30) DEF GateNext, GateAllocate, GatePublish, MutexPath
    <3> QED BY <1>2, <3>1, SMTT(30) DEF Mutex!Next, MutexPath
  <2> QED BY <1>2, <2>1, <2>2, SMTT(30)
<1>3. ASSUME WaitFreeRests, UNCHANGED waitFreeVars PROVE WaitFreeRests'
    BY <1>3 DEF WaitFreeRests, waitFreeVars
<1> QED BY <1>1, <1>2, <1>3, PTL DEF GateSpec, Mutex!Spec

\* On either path no committer sleeps on a watermark that already covers it.
THEOREM SleepersBlocked ==
    ASSUME ProgramOrder PROVE GateSpec => []SleepersAreBlocked
<1>1. GateInit => WaitFreePath \/ MutexPath
    BY DEF GateInit, WaitFreePath, MutexPath
<1>2. MutexRests => SleepersAreBlocked
    BY DEF MutexRests, SleepersAreBlocked, Mutex!SleepersAreBlocked, Mutex!At
<1> QED BY <1>1, <1>2, MutexNoSleeperLeft, WaitFreeRefines, MutexRefines, PTL DEF GateSpec,
       SleepersAreBlocked

\* The state of either path keeps its shape, and so does the other's.
THEOREM GateTypeCorrect ==
    ASSUME ProgramOrder PROVE GateSpec => []GateTypeOK
<1>1. GateInit => WaitFreePath \/ MutexPath
    BY DEF GateInit, WaitFreePath, MutexPath
<1>2. Cardinality(Committers) \in Nat
    BY GateAssumption, FS_CardinalityType, SMTT(30)
<1>c. Mutex!Cardinality(Committers) = Cardinality(Committers)
    BY DEF Mutex!Cardinality, Cardinality, Mutex!IsFiniteSet, IsFiniteSet
<1>3. ASSUME TypeOK, MutexRests PROVE GateTypeOK
  <2>1. [pc |-> "idle", seq |-> 0, advanced |-> FALSE]
            \in [pc : {"idle", "install", "enter", "lock", "advance", "asleep", "relock"},
                 seq : 0 .. MaxSeq, advanced : BOOLEAN]
    BY GateAssumption, SMTT(30)
  <2> QED BY <1>2, <1>c, <1>3, <2>1, SMTT(30) DEF MutexRests, GateTypeOK, TypeOK, Mutex!TypeOK,
         Seqs, Mutex!Seqs
<1>4. ASSUME Mutex!TypeOK, WaitFreeRests PROVE GateTypeOK
  <2>1. Outside \in Local
    BY GateAssumption, SMTT(30) DEF Outside, Local, PCs, Calls
  <2> QED BY <1>c, <1>4, <2>1, GateAssumption, SMTT(30) DEF WaitFreeRests, GateTypeOK, TypeOK,
         Mutex!TypeOK,
      Seqs, Mutex!Seqs
<1> QED BY <1>1, <1>3, <1>4, TypeCorrect, MutexTypeCorrect, WaitFreeRefines, MutexRefines,
       PTL DEF GateSpec

\* The gate publishes in order whichever path it was built with.
THEOREM GateImplements ==
    ASSUME ProgramOrder PROVE GateSpec => ImplementsContract
<1>1. GateInit => WaitFreePath \/ MutexPath
    BY DEF GateInit, WaitFreePath, MutexPath
<1> QED BY <1>1, Implements, MutexImplements, WaitFreeRefines, MutexRefines, PTL DEF GateSpec
=============================================================================
