SPECIFICATION Spec
CONSTANTS
    Committers = {p1, p2, p3, p4}
    MaxSeq = 4
    Ring = 3
    Spins = 1
    StoreBuffer = TRUE
    NoOne = NoOne
SYMMETRY Symmetry
INVARIANT TypeOK
INVARIANT PrefixInstalled
INVARIANT ParkedExact
PROPERTY RingKeepsPending
PROPERTY ImplementsContract
CHECK_DEADLOCK FALSE
