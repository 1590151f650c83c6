SPECIFICATION MCSpec
CONSTANTS
    Names = {username, email}
    Real = usr
    Pending = {p1, p2}
    Instances = {a1, a2}
    Flows = {f1, f2}
    None = None
    MaxCrashes = 1
    MaxTurns = 3
    MaxGeneration = 5
    IdleDetection = TRUE
    MaxLogins = 3
INVARIANTS
    NoOrphanRow
    TrustSurvives
    OneLoginPerExpiry
    OneLiveSocket
    NoStall
PROPERTIES
    EstablishedIsKept
    EveryCallEnds
    FlappingKeepsTheStreak
    ValidSessionGetsConnected
CHECK_DEADLOCK FALSE
