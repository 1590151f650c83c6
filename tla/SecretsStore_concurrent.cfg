SPECIFICATION Spec
CONSTANTS
    Keys = {k1, k2}
    Flushers = {f1, f2}
    MaxVersion = 3
    MaxCrashes = 2
    Empty = Empty
    Torn = Torn
INVARIANTS
    NeverHalfWritten
CHECK_DEADLOCK FALSE
