SPECIFICATION GateSpec
CONSTANTS
    Committers = {p1, p2, p3}
    MaxSeq = 3
    Ring = 3
    Spins = 1
    StoreBuffer = FALSE
    NoOne = NoOne
INVARIANT GateTypeOK
INVARIANT SleepersAreBlocked
PROPERTY ImplementsContract
 
CHECK_DEADLOCK FALSE
