------------------------------ MODULE GateMutex ------------------------------
(***************************************************************************)
(* CommitPublicationGate in its mutex mode (publish_mutex in sharded.rs):  *)
(* the compatibility gate, with a set of ready sequences and a count of    *)
(* waiters under wait_lock and a condition variable.  The watermark is     *)
(* stored one sequence at a time and read without the lock.                *)
(***************************************************************************)
EXTENDS Naturals, FiniteSets

CONSTANTS
    Committers,  \* threads inside commit
    MaxSeq,      \* bound: sequences are 1..MaxSeq
    NoOne        \* nobody holds wait_lock

VARIABLES
    allocated,   \* next_commit - 1
    installed,   \* sequences whose versions are in the shards
    completed,   \* completed_commit
    returned,    \* sequences whose publish call has returned
    ready,       \* PublicationState::ready_commits
    waiters,     \* PublicationState::waiters
    waitLock,    \* holder of wait_lock
    st           \* st[p]: program counter, sequence and the advanced flag of p

vars == <<allocated, installed, completed, returned, ready, waiters, waitLock, st>>

Seqs == 1 .. MaxSeq

Init ==
    /\ allocated = 0
    /\ installed = {}
    /\ completed = 0
    /\ returned = {}
    /\ ready = {}
    /\ waiters = 0
    /\ waitLock = NoOne
    /\ st = [p \in Committers |-> [pc |-> "idle", seq |-> 0, advanced |-> FALSE]]

At(p, pc) == st[p].pc = pc
Goto(p, pc) == st' = [st EXCEPT ![p].pc = pc]

Finish(p) ==
    /\ Goto(p, "idle")
    /\ returned' = returned \cup {st[p].seq}

\* next_commit_seq, under the commit's shard locks
Allocate(p) ==
    /\ At(p, "idle") /\ allocated < MaxSeq
    /\ allocated' = allocated + 1
    /\ st' = [st EXCEPT ![p].pc = "install", ![p].seq = allocated + 1]
    /\ UNCHANGED <<installed, completed, returned, ready, waiters, waitLock>>

\* The versions are pushed and the shard locks dropped.
Install(p) ==
    /\ At(p, "install")
    /\ installed' = installed \cup {st[p].seq}
    /\ Goto(p, "enter")
    /\ UNCHANGED <<allocated, completed, returned, ready, waiters, waitLock>>

\* Mutant of Enter: returns one sequence early.
EnterEarly(p) ==
    /\ At(p, "enter")
    /\ IF completed + 1 >= st[p].seq
       THEN Finish(p)
       ELSE Goto(p, "lock") /\ UNCHANGED returned
    /\ UNCHANGED <<allocated, installed, completed, ready, waiters, waitLock>>

\* The check without the lock
Enter(p) ==
    /\ At(p, "enter")
    /\ IF completed >= st[p].seq
       THEN Finish(p)
       ELSE Goto(p, "lock") /\ UNCHANGED returned
    /\ UNCHANGED <<allocated, installed, completed, ready, waiters, waitLock>>

\* wait_lock.lock(), the check again, and the insertion into ready_commits
LockAndInsert(p) ==
    /\ At(p, "lock") /\ waitLock = NoOne
    /\ IF completed >= st[p].seq
       THEN /\ Finish(p)
            /\ UNCHANGED <<ready, waitLock>>
       ELSE /\ waitLock' = p
            /\ ready' = ready \cup {st[p].seq}
            /\ st' = [st EXCEPT ![p].pc = "advance", ![p].advanced = FALSE]
            /\ UNCHANGED returned
    /\ UNCHANGED <<allocated, installed, completed, waiters>>

\* One turn of advance_ready_prefix
AdvancePrefix(p) ==
    /\ At(p, "advance") /\ completed + 1 \in ready
    /\ ready' = ready \ {completed + 1}
    /\ completed' = completed + 1
    /\ st' = [st EXCEPT ![p].advanced = TRUE]
    /\ UNCHANGED <<allocated, installed, returned, waiters, waitLock>>

\* Mutant of Woken: off by one in the test for waiters
WokenIfMany(p) == st[p].advanced /\ waiters > 1

\* advanced && waiters > 0
Woken(p) == st[p].advanced /\ waiters > 0

\* The waiter count when p leaves the loop or goes to sleep
WaitersAfter(p) == IF completed >= st[p].seq THEN waiters ELSE waiters + 1

\* notify_all when the watermark moved and someone waits; both outcomes give
\* the lock up, by returning or inside Condvar::wait.
NotifyAndWait(p) ==
    /\ At(p, "advance") /\ completed + 1 \notin ready
    /\ LET done == completed >= st[p].seq
       IN  /\ st' = [q \in Committers |->
                        IF q = p THEN [st[q] EXCEPT !.pc = IF done THEN "idle" ELSE "asleep"]
                        ELSE IF Woken(p) /\ At(q, "asleep") THEN [st[q] EXCEPT !.pc = "relock"]
                        ELSE st[q]]
           /\ returned' = IF done THEN returned \cup {st[p].seq} ELSE returned
    /\ waiters' = WaitersAfter(p)
    /\ waitLock' = NoOne
    /\ UNCHANGED <<allocated, installed, completed, ready>>

\* The wait returns with the lock held; back to the head of the loop.
Relock(p) ==
    /\ At(p, "relock") /\ waitLock = NoOne
    /\ waitLock' = p
    /\ waiters' = IF waiters > 0 THEN waiters - 1 ELSE 0
    /\ st' = [st EXCEPT ![p].pc = "advance", ![p].advanced = FALSE]
    /\ UNCHANGED <<allocated, installed, completed, returned, ready>>

Publish(p) ==
    \/ Install(p) \/ Enter(p) \/ LockAndInsert(p)
    \/ AdvancePrefix(p) \/ NotifyAndWait(p) \/ Relock(p)

Next == \E p \in Committers : Allocate(p) \/ Publish(p)

Spec == Init /\ [][Next]_vars

-----------------------------------------------------------------------------
\* The state has its shape, and at most every committer is counted as waiting.
TypeOK ==
    /\ allocated \in 0 .. MaxSeq
    /\ installed \in SUBSET Seqs
    /\ completed \in 0 .. MaxSeq
    /\ returned \in SUBSET Seqs
    /\ ready \in SUBSET Seqs
    /\ waiters \in 0 .. Cardinality(Committers)
    /\ waitLock \in Committers \cup {NoOne}
    /\ st \in [Committers -> [pc : {"idle", "install", "enter", "lock", "advance",
                                    "asleep", "relock"},
                              seq : 0 .. MaxSeq, advanced : BOOLEAN]]

\* Every sleeping committer still waits for a sequence below its own that is
\* not ready, and so for a committer that will come and advance over it: no
\* committer sleeps on a watermark that already covers it.
SleepersAreBlocked ==
    waitLock = NoOne =>
        \A p \in Committers : At(p, "asleep") =>
            /\ st[p].seq > completed
            /\ \E s \in completed + 1 .. st[p].seq - 1 : s \notin ready
=============================================================================
