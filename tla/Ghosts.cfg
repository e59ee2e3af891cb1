SPECIFICATION FairGhostSpec
CONSTANTS
    o1 = o1
    o2 = o2
    b1 = b1
    b2 = b2
    NoObject = NoObject
    First = 0
    Window = 2
    Faithful = TRUE
    Object <- MCObject
    MaxGhostCount = 2
    MaskBit <- MCMaskBit
    PartialUpdates <- MCOneObject
    MaxPerPacket = 1
    MaxLost = 1
    MaxChanges = 1
    MaxEmptyPackets = 1
    SafeClears = TRUE
INVARIANTS
    GhostStateOK
    GhostIdsAgree
    AvailableIsThere
    NothingForgotten
PROPERTY EventuallyUpToDate
CHECK_DEADLOCK FALSE
