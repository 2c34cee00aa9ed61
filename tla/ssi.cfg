SPECIFICATION Spec
CONSTANTS
    Txns = {t1, t2, t3}
    Blocks = {b1, b2}
    MaxCommit = 3
SYMMETRY Symmetry
INVARIANT TypeOK
INVARIANT NoLatePivot
CHECK_DEADLOCK FALSE
