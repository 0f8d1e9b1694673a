CONSTANTS
    MaxChannels = 1
    QueueFrames = 1
    MaxOpens = 1
    MaxFrames = 2
    MaxUpdates = 1
    SlotOpens = 2
SPECIFICATION MCSpec
INVARIANTS
    OpenArrivesFirst
    NoDeadEntry
PROPERTIES
    ImplementsChannel
CHECK_DEADLOCK FALSE
