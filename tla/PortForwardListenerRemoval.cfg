CONSTANTS
    MuxEnabled = TRUE
    PreReadLimit = 1
    MaxTunnels = 1
    MaxAccepts = 2
SPECIFICATION FairSpec
PROPERTIES
    RemovalStops
CHECK_DEADLOCK FALSE
