--------------------------- MODULE PublicationGate ---------------------------
(***************************************************************************)
(* The commit publication gate of a sharded store: CommitPublicationGate   *)
(* reads its mode once, when the store is built, and every publish call    *)
(* then takes the mutex path or the wait-free path.  The variables of the  *)
(* path that was not chosen keep their first values.  Ring stores become   *)
(* visible in program order here (ProgramOrder); GateWaitFree alone has    *)
(* the delays.                                                             *)
(***************************************************************************)
EXTENDS GateWaitFree

ProgramOrder == ~ StoreBuffer

VARIABLES
    mode,     \* CommitPublicationGate::mode
    ready,    \* the mutex path's PublicationState
    waiters,
    mst       \* the mutex path's program counters

Mutex == INSTANCE GateMutex WITH st <- mst

waitFreeVars == <<ring, buf, parked, st>>
mutexVars == <<ready, waiters, mst>>
gateVars == <<vars, mode, mutexVars>>

GateInit ==
    /\ mode \in {"WaitFree", "Mutex"}
    /\ Init
    /\ Mutex!Init

GatePublish(p) ==
    \/ mode = "WaitFree" /\ Publish(p) /\ UNCHANGED mutexVars
    \/ mode = "Mutex" /\ Mutex!Publish(p) /\ UNCHANGED waitFreeVars

GateAllocate(p) ==
    \/ mode = "WaitFree" /\ Allocate(p) /\ UNCHANGED mutexVars
    \/ mode = "Mutex" /\ Mutex!Allocate(p) /\ UNCHANGED waitFreeVars

GateNext ==
    /\ \E p \in Committers : GateAllocate(p) \/ GatePublish(p)
    /\ UNCHANGED mode

\* A thread inside commit keeps running.
GateSpec ==
    /\ GateInit /\ [][GateNext]_gateVars
    /\ \A p \in Committers : WF_gateVars(GatePublish(p) /\ UNCHANGED mode)

-----------------------------------------------------------------------------
\* The state of either path has its shape.
GateTypeOK == TypeOK /\ Mutex!TypeOK

\* Every committer that sleeps in the mutex path waits for a sequence that is
\* not ready: none sleeps on a watermark that already covers it.
SleepersAreBlocked == Mutex!SleepersAreBlocked

\* Every commit that starts to publish returns, on either path: a committer that
\* goes to sleep just as the watermark moves is not left behind.
EveryPublishReturns ==
    \A p \in Committers :
        At(p, "install") \/ Mutex!At(p, "install") ~> At(p, "idle") /\ Mutex!At(p, "idle")
=============================================================================
