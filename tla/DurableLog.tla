------------------------------ MODULE DurableLog ------------------------------
(***************************************************************************)
(* What a persistent MVCC store promises its callers (ffs-mvcc/src/        *)
(* persist.rs): commits enter a log in order; a prefix of the log is       *)
(* durable; a crash keeps that prefix and cuts the rest anywhere.  A       *)
(* commit whose outcome no caller learned may turn up after a crash, as    *)
(* the successor of everything committed before it, or never.              *)
(***************************************************************************)
EXTENDS Naturals, Sequences

CONSTANT Ids  \* the commit attempts

VARIABLES
    sync,     \* PersistOptions::sync_on_commit
    log,      \* the commits callers were told of, in commit order
    durable,  \* length of the prefix that survives any crash
    doubt     \* at most one attempt whose outcome is open

vars == <<sync, log, durable, doubt>>

Init ==
    /\ sync \in BOOLEAN
    /\ log = <<>>
    /\ durable = 0
    /\ doubt = {}

\* An attempt starts, and its record may reach the disk from here on.
Attempt(id) ==
    /\ doubt = {}
    /\ doubt' = {id}
    /\ UNCHANGED <<sync, log, durable>>

\* It is acknowledged; with sync_on_commit only when all of the log is durable.
Acknowledge ==
    /\ \E id \in doubt : log' = Append(log, id)
    /\ durable' = IF sync THEN Len(log') ELSE durable
    /\ doubt' = {}
    /\ UNCHANGED sync

\* It fails and is gone for good: no crash brings it back.
Fail ==
    /\ doubt # {}
    /\ doubt' = {}
    /\ UNCHANGED <<sync, log, durable>>

\* More of the log becomes durable.
Harden ==
    /\ durable' \in durable + 1 .. Len(log)
    /\ UNCHANGED <<sync, log, doubt>>

\* Recovery keeps the durable prefix, cuts the rest anywhere, and settles the
\* open attempt if nothing before it was lost.
Recover ==
    /\ log' \in {SubSeq(log, 1, n) : n \in durable .. Len(log)}
                \cup {Append(log, id) : id \in doubt}
    /\ durable' = Len(log')
    /\ doubt' = {}
    /\ UNCHANGED sync

Next == (\E id \in Ids : Attempt(id)) \/ Acknowledge \/ Fail \/ Harden \/ Recover

Spec == Init /\ [][Next]_vars
=============================================================================
