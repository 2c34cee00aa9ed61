SPECIFICATION Spec
CONSTANTS
    Txns = {t1, t2, t3}
    Readers = {r1, r2}
    NumBlocks = 1
    Slots = {x1}
    MaxCommit = 3
    MaxStage = 1
    MaxGc = 0
    Cap = 1
    CriticalFactor = 2
    Policies = {"Strict"}
    Modes = {"fcw"}
    NoTxn = NoTxn
    None = None
    Identical = Identical
    Unsafe = Unsafe
SYMMETRY Symmetry
PROPERTY ActiveViewStable
INVARIANT RefcountBalance
CHECK_DEADLOCK FALSE
