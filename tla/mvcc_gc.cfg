SPECIFICATION Spec
CONSTANTS
    Txns = {t1, t2}
    Readers = {r1}
    NumBlocks = 2
    Slots = {x1}
    MaxCommit = 2
    MaxStage = 1
    MaxGc = 3
    Cap = 0
    CriticalFactor = 4
    Policies = {"Strict", "SafeMerge"}
    Modes = {"fcw", "journaled"}
    NoTxn = NoTxn
    None = None
    Identical = Identical
    Unsafe = Unsafe
SYMMETRY Symmetry
PROPERTY ActiveViewStable
INVARIANT FlushExact
CHECK_DEADLOCK FALSE
