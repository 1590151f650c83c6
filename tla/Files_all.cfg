SPECIFICATION MCSpec
CONSTANTS
    Keys = {k1, k2}
    Flushers = {f1, f2}
    MaxVersion = 2
    MaxCrashes = 2
    Empty = Empty
    Torn = Torn
    MaxProcesses = 3
    MaxFaults = 1
INVARIANTS
    AlwaysRunnable
PROPERTIES
    ReadableIsGenuine
    ImplementsAtomicStore
CHECK_DEADLOCK FALSE
