----------------------------- MODULE GateWaitFree -----------------------------
(***************************************************************************)
(* CommitPublicationGate in its wait-free modes (sharded.rs): committers   *)
(* store their sequence in a ring, walk the ready prefix forward with a    *)
(* compare-and-swap, and park on a condition variable when a predecessor   *)
(* is late.  One action is one access to shared memory.                    *)
(*                                                                         *)
(* The ring store has Release order and the loads that follow it Acquire   *)
(* order, so hardware may delay the store past those loads.  StoreBuffer   *)
(* adds that delay: buf[p] holds a ring store of p that no other thread    *)
(* sees yet.  A read-modify-write or a mutex operation waits for it.       *)
(***************************************************************************)
EXTENDS Naturals, FiniteSets

CONSTANTS
    Committers,  \* threads inside commit
    MaxSeq,      \* bound: sequences are 1..MaxSeq
    Ring,        \* PUBLICATION_RING_SLOTS
    Spins,       \* PUBLICATION_SPIN_ROUNDS, 0 for WaitFreeNoSpin
    StoreBuffer, \* ring stores may be delayed
    NoOne        \* nobody holds wait_lock

ASSUME GateAssumption ==
    /\ MaxSeq \in Nat
    /\ Ring \in Nat \ {0}
    /\ Spins \in Nat
    /\ StoreBuffer \in BOOLEAN
    /\ NoOne \notin Committers
    /\ IsFiniteSet(Committers)

VARIABLES
    allocated,   \* next_commit - 1
    installed,   \* sequences whose versions are in the shards
    completed,   \* completed_commit
    returned,    \* sequences whose publish call has returned
    ring,        \* the ready-sequence ring
    buf,         \* buf[p]: the ring store of p still in its store buffer, or 0
    parked,      \* the parked counter
    waitLock,    \* holder of wait_lock
    st           \* st[p]: program counter and locals of p

vars == <<allocated, installed, completed, returned, ring, buf, parked, waitLock, st>>

Seqs == 1 .. MaxSeq
Slot(s) == s % Ring

PCs == {"idle", "install", "enter", "claim", "store", "load", "check", "cas",
        "notify", "wake", "recheck", "lock", "park", "wait", "asleep", "relock",
        "unpark"}
\* Where drain_ready_prefix was called from
Calls == {"claim", "store", "spin"}

Local == [pc : PCs, seq : 0 .. MaxSeq, current : 0 .. MaxSeq, advanced : BOOLEAN,
          call : Calls, spins : 0 .. Spins]

\* A thread outside commit; locals that are dead have these values, too.
Outside == [pc |-> "idle", seq |-> 0, current |-> 0, advanced |-> FALSE,
            call |-> "store", spins |-> 0]

Init ==
    /\ allocated = 0
    /\ installed = {}
    /\ completed = 0
    /\ returned = {}
    /\ ring = [i \in 0 .. Ring - 1 |-> 0]
    /\ buf = [p \in Committers |-> 0]
    /\ parked = 0
    /\ waitLock = NoOne
    /\ st = [p \in Committers |-> Outside]

At(p, pc) == st[p].pc = pc
Goto(p, pc) == st' = [st EXCEPT ![p].pc = pc]
Drained(p) == buf[p] = 0
LoadRing(p, i) == IF buf[p] # 0 /\ Slot(buf[p]) = i THEN buf[p] ELSE ring[i]

\* publish returns
Finish(p) ==
    /\ st' = [st EXCEPT ![p] = Outside]
    /\ returned' = returned \cup {st[p].seq}

\* next_commit_seq, under the commit's shard locks
Allocate(p) ==
    /\ At(p, "idle") /\ allocated < MaxSeq
    /\ allocated' = allocated + 1
    /\ st' = [st EXCEPT ![p].pc = "install", ![p].seq = allocated + 1]
    /\ UNCHANGED <<installed, completed, returned, ring, buf, parked, waitLock>>

\* The versions are pushed and the shard locks dropped.
Install(p) ==
    /\ At(p, "install")
    /\ installed' = installed \cup {st[p].seq}
    /\ Goto(p, "enter")
    /\ UNCHANGED <<allocated, completed, returned, ring, buf, parked, waitLock>>

\* Mutant of Enter: returns one sequence early.
EnterEarly(p) ==
    /\ At(p, "enter")
    /\ IF completed + 1 >= st[p].seq
       THEN Finish(p)
       ELSE Goto(p, "claim") /\ UNCHANGED returned
    /\ UNCHANGED <<allocated, installed, completed, ring, buf, parked, waitLock>>

Enter(p) ==
    /\ At(p, "enter")
    /\ IF completed >= st[p].seq
       THEN Finish(p)
       ELSE Goto(p, "claim") /\ UNCHANGED returned
    /\ UNCHANGED <<allocated, installed, completed, ring, buf, parked, waitLock>>

\* Call drain_ready_prefix.
Drain(p, call) ==
    st' = [st EXCEPT ![p].pc = "load", ![p].advanced = FALSE, ![p].call = call]

\* Mutant of Claim: nobody waits for the slot.
ClaimUnchecked(p) ==
    /\ At(p, "claim")
    /\ Goto(p, "store")
    /\ UNCHANGED <<allocated, installed, completed, returned, ring, buf, parked, waitLock>>

\* The ring slot is taken until the watermark has passed its last occupant.
Claim(p) ==
    /\ At(p, "claim")
    /\ IF st[p].seq >= completed + Ring THEN Drain(p, "claim") ELSE Goto(p, "store")
    /\ UNCHANGED <<allocated, installed, completed, returned, ring, buf, parked, waitLock>>

\* ring[slot].store(seq, Release), then the first drain
Store(p) ==
    /\ At(p, "store") /\ Drained(p)
    /\ \/ /\ ring' = [ring EXCEPT ![Slot(st[p].seq)] = st[p].seq]
          /\ UNCHANGED buf
       \/ /\ StoreBuffer
          /\ buf' = [buf EXCEPT ![p] = st[p].seq]
          /\ UNCHANGED ring
    /\ st' = [st EXCEPT ![p].pc = "load", ![p].advanced = FALSE, ![p].call = "store",
                        ![p].spins = Spins]
    /\ UNCHANGED <<allocated, installed, completed, returned, parked, waitLock>>

\* The hardware makes a delayed ring store visible.
FlushBuffer(p) ==
    /\ ~ Drained(p)
    /\ ring' = [ring EXCEPT ![Slot(buf[p])] = buf[p]]
    /\ buf' = [buf EXCEPT ![p] = 0]
    /\ UNCHANGED <<allocated, installed, completed, returned, parked, waitLock, st>>

\* drain_ready_prefix: load completed_commit,
LoadCompleted(p) ==
    /\ At(p, "load")
    /\ st' = [st EXCEPT ![p].pc = "check", ![p].current = completed]
    /\ UNCHANGED <<allocated, installed, completed, returned, ring, buf, parked, waitLock>>

\* drain_ready_prefix goes on, or returns to its caller.
Leave(p, pc) ==
    st' = [st EXCEPT ![p].pc = pc, ![p].current = 0, ![p].advanced = FALSE,
                     ![p].call = "store"]
DrainReturn(p) ==
    IF st[p].call = "claim" THEN "claim" ELSE IF st[p].advanced THEN "notify" ELSE "recheck"

\* Mutant of CheckSlot: an occupied slot is taken for the next sequence.
CheckSlotOccupied(p) ==
    /\ At(p, "check")
    /\ IF LoadRing(p, Slot(st[p].current + 1)) # 0
       THEN Goto(p, "cas")
       ELSE Leave(p, DrainReturn(p))
    /\ UNCHANGED <<allocated, installed, completed, returned, ring, buf, parked, waitLock>>

\* load the slot of the next sequence, and leave the loop when it is not there,
CheckSlot(p) ==
    /\ At(p, "check")
    /\ LET next == st[p].current + 1
       IN  IF LoadRing(p, Slot(next)) = next
           THEN Goto(p, "cas")
           ELSE Leave(p, DrainReturn(p))
    /\ UNCHANGED <<allocated, installed, completed, returned, ring, buf, parked, waitLock>>

\* or else compare-and-swap, which may fail, and go round again.
CompareExchange(p) ==
    /\ At(p, "cas") /\ Drained(p)
    /\ IF completed = st[p].current
       THEN /\ completed' = completed + 1
            /\ st' = [st EXCEPT ![p].pc = "load", ![p].current = 0, ![p].advanced = TRUE]
       ELSE /\ UNCHANGED completed
            /\ st' = [st EXCEPT ![p].pc = "load", ![p].current = 0]
    /\ UNCHANGED <<allocated, installed, returned, ring, buf, parked, waitLock>>

\* Mutant of Notify: nobody is woken.
NotifyNobody(p) ==
    /\ At(p, "notify")
    /\ Goto(p, "recheck")
    /\ UNCHANGED <<allocated, installed, completed, returned, ring, buf, parked, waitLock>>

\* notify_parked: load parked,
Notify(p) ==
    /\ At(p, "notify")
    /\ Goto(p, IF parked > 0 THEN "wake" ELSE "recheck")
    /\ UNCHANGED <<allocated, installed, completed, returned, ring, buf, parked, waitLock>>

\* and notify_all under wait_lock.
Wake(p) ==
    /\ At(p, "wake") /\ waitLock = NoOne /\ Drained(p)
    /\ st' = [q \in Committers |->
                 IF q = p THEN [st[q] EXCEPT !.pc = "recheck"]
                 ELSE IF At(q, "asleep") THEN [st[q] EXCEPT !.pc = "relock"]
                 ELSE st[q]]
    /\ UNCHANGED <<allocated, installed, completed, returned, ring, buf, parked, waitLock>>

\* Mutant of Recheck: one spin round too many
RecheckOverspin(p) ==
    /\ At(p, "recheck")
    /\ \/ /\ completed >= st[p].seq
          /\ Finish(p)
       \/ /\ completed < st[p].seq
          /\ st' = [st EXCEPT ![p].pc = "load", ![p].advanced = FALSE,
                              ![p].call = "spin", ![p].spins = @ - 1]
          /\ UNCHANGED returned
    /\ UNCHANGED <<allocated, installed, completed, ring, buf, parked, waitLock>>

\* The watermark covers seq, or one more spin round, or park.
Recheck(p) ==
    /\ At(p, "recheck")
    /\ \/ /\ completed >= st[p].seq
          /\ Finish(p)
       \/ /\ completed < st[p].seq /\ st[p].spins > 0
          /\ st' = [st EXCEPT ![p].pc = "load", ![p].advanced = FALSE,
                              ![p].call = "spin", ![p].spins = @ - 1]
          /\ UNCHANGED returned
       \/ /\ completed < st[p].seq /\ st[p].spins = 0
          /\ Goto(p, "lock")
          /\ UNCHANGED returned
    /\ UNCHANGED <<allocated, installed, completed, ring, buf, parked, waitLock>>

\* wait_lock.lock(), on the way in and when the wait returns
Lock(p) ==
    /\ At(p, "lock") \/ At(p, "relock")
    /\ waitLock = NoOne /\ Drained(p)
    /\ waitLock' = p
    /\ Goto(p, IF At(p, "lock") THEN "park" ELSE "wait")
    /\ UNCHANGED <<allocated, installed, completed, returned, ring, buf, parked>>

\* Mutant of Park: the waiter does not count itself.
ParkUncounted(p) ==
    /\ At(p, "park")
    /\ Goto(p, "wait")
    /\ UNCHANGED <<allocated, installed, completed, returned, ring, buf, parked, waitLock>>

Park(p) ==
    /\ At(p, "park")
    /\ parked' = parked + 1
    /\ Goto(p, "wait")
    /\ UNCHANGED <<allocated, installed, completed, returned, ring, buf, waitLock>>

\* while completed_commit < seq: Condvar::wait drops the lock and sleeps in one step.
Wait(p) ==
    /\ At(p, "wait")
    /\ \/ /\ completed < st[p].seq
          /\ waitLock' = NoOne
          /\ Goto(p, "asleep")
       \/ /\ completed >= st[p].seq
          /\ Goto(p, "unpark")
          /\ UNCHANGED waitLock
    /\ UNCHANGED <<allocated, installed, completed, returned, ring, buf, parked>>

Unpark(p) ==
    /\ At(p, "unpark")
    /\ parked' = parked - 1
    /\ waitLock' = NoOne
    /\ Finish(p)
    /\ UNCHANGED <<allocated, installed, completed, ring, buf>>

Publish(p) ==
    \/ Install(p) \/ Enter(p) \/ Claim(p) \/ Store(p)
    \/ LoadCompleted(p) \/ CheckSlot(p) \/ CompareExchange(p)
    \/ Notify(p) \/ Wake(p) \/ Recheck(p)
    \/ Lock(p) \/ Park(p) \/ Wait(p) \/ Unpark(p)

Next == \E p \in Committers : Allocate(p) \/ Publish(p) \/ FlushBuffer(p)

Spec == Init /\ [][Next]_vars

\* A thread inside publish keeps running, and a store buffer drains.
FairSpec == Spec /\ \A p \in Committers : WF_vars(Publish(p)) /\ WF_vars(FlushBuffer(p))

-----------------------------------------------------------------------------
\* The state has its shape.
TypeOK ==
    /\ allocated \in 0 .. MaxSeq
    /\ installed \in SUBSET Seqs
    /\ completed \in 0 .. MaxSeq
    /\ returned \in SUBSET Seqs
    /\ ring \in [0 .. Ring - 1 -> 0 .. MaxSeq]
    /\ buf \in [Committers -> 0 .. MaxSeq]
    /\ parked \in Nat
    /\ waitLock \in Committers \cup {NoOne}
    /\ st \in [Committers -> Local]

\* The watermark covers only sequences whose versions are installed: no
\* snapshot taken from completed_commit sees a commit with a hole below it.
PrefixInstalled == \A s \in 1 .. completed : s \in installed

\* The parked counter is the number of committers between park and unpark, so
\* notify_parked never skips a sleeping one.
ParkedExact ==
    parked = Cardinality({p \in Committers : st[p].pc \in {"wait", "asleep", "relock", "unpark"}})

\* A slot that holds a sequence still to be published keeps it: the ring needs
\* no tags, whatever the number of sequences that share a slot.
RingKeepsPending ==
    [][\A i \in 0 .. Ring - 1 : ring[i] > completed => ring'[i] = ring[i]]_vars

\* Every commit that starts to publish returns.  Holds of FairSpec with stores in
\* program order only: a delayed ring store leaves a committer asleep.
PublishReturns == \A p \in Committers : At(p, "install") ~> At(p, "idle")

\* The wait-free gate implements the contract.
Contract == INSTANCE OrderedPublication
ImplementsContract == Contract!Spec
=============================================================================
