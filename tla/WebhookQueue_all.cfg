SPECIFICATION FairSpec
CONSTANTS
    Hooks = {h1, h2}
    MaxEvents = 2
    MaxAttempts = 2
    MaxDeadBeforeDisable = 2
    BatchSize = 1
    MaxCrashes = 1
PROPERTIES
    OwedIsNotLost
    HealthFollowsRows
    ImplementsFeed
    EveryRowSettles
CHECK_DEADLOCK FALSE
