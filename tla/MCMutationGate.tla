--------------------------- MODULE MCMutationGate ---------------------------
(***************************************************************************)
(* MutationGate with two workers and the periodic commit.                  *)
(***************************************************************************)
EXTENDS MutationGate

\* Batches that fill up or change file before an fsync; a batch that a mutation
\* commits while an fsync looks for it; nested entries between two boundaries;
\* unregistered snapshots and two mutations against the periodic commit.
MCWorkloads ==
    {<<"stage", "stage", "fsync">>, <<"stage", "mutate", "fsync">>,
     <<"mutate", "fsync", "tick">>, <<"finalize", "mutate", "tick">>}

=============================================================================
