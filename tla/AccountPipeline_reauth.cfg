SPECIFICATION FairAppSpec
CONSTANTS
    MaxGeneration = 4
    IdleDetection = TRUE
    MaxLogins = 3
PROPERTIES
    ReauthBringsThePipelineBack
CHECK_DEADLOCK FALSE
