CONSTANTS
    MaxChannels = 1
    QueueFrames = 1
    MaxOpens = 1
    MaxFrames = 1
    MaxUpdates = 1
SPECIFICATION FairSpec
PROPERTIES
    TeardownEndsChannels
    EndsTogether
CHECK_DEADLOCK FALSE
