SPECIFICATION AccountsSpec
CONSTANTS
    Names = {username}
    Real = usr
    Pending = {p1}
    Instances = {a1, a2}
    Flows = {f1, f2}
    None = None
    MaxCrashes = 1
INVARIANTS RemovedIsForgotten
CHECK_DEADLOCK FALSE
