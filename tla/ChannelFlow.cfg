CONSTANTS
    InitialWindow = 4
    ChannelWindow = 8
    MinFrameCharge = 2
    MaxFrame = 4
    UpdateThreshold = 4
    U32Max = 20
    MaxSent = 18
    MaxRepeats = 1
SPECIFICATION FairSpec
INVARIANTS NoOverrun CreditConserved WindowConserved InFlightBounded NoStall
PROPERTIES EverythingWritten
CHECK_DEADLOCK FALSE
