-------------------------- MODULE OrderedPublication --------------------------
(***************************************************************************)
(* What CommitPublicationGate promises to the sharded store, in the words  *)
(* of PublicationMode: publish(seq) returns only once completed >= seq,    *)
(* and completed only ever advances over a contiguous prefix of sequences  *)
(* whose versions are installed.  completed is what current_snapshot()     *)
(* reads.                                                                  *)
(***************************************************************************)
EXTENDS Naturals

CONSTANT MaxSeq      \* bound: sequences are 1..MaxSeq

VARIABLES
    allocated,  \* sequences handed out by next_commit_seq
    installed,  \* sequences whose versions are in the shards
    completed,  \* the published watermark
    returned    \* sequences whose publish call has returned

vars == <<allocated, installed, completed, returned>>

Seqs == 1 .. MaxSeq

Init ==
    /\ allocated = 0
    /\ installed = {}
    /\ completed = 0
    /\ returned = {}

Allocate ==
    /\ allocated < MaxSeq
    /\ allocated' = allocated + 1
    /\ UNCHANGED <<installed, completed, returned>>

Install(s) ==
    /\ s \in 1 .. allocated
    /\ installed' = installed \cup {s}
    /\ UNCHANGED <<allocated, completed, returned>>

Advance ==
    /\ completed + 1 \in installed
    /\ completed' = completed + 1
    /\ UNCHANGED <<allocated, installed, returned>>

Return(s) ==
    /\ s \in installed /\ s <= completed
    /\ returned' = returned \cup {s}
    /\ UNCHANGED <<allocated, installed, completed>>

Next ==
    \/ Allocate
    \/ \E s \in Seqs : Install(s) \/ Return(s)
    \/ Advance

Spec == Init /\ [][Next]_vars
=============================================================================
