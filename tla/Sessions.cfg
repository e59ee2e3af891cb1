SPECIFICATION FairSessionSpec
CONSTANTS
    o1 = o1
    o2 = o2
    b1 = b1
    NoObject = NoObject
    First = 0
    Window = 2
    Faithful = TRUE
    Object <- MCObject
    MaxGhostCount = 1
    MaskBit <- MCMaskBit
    PartialUpdates = {}
    MaxPerPacket = 1
    MaxLost = 1
    MaxChanges = 0
    MaxEmptyPackets = 1
    SafeClears = TRUE
    MaxSessions = 2
    MaxCalls = 1
INVARIANTS
    SessionStateOK
    GhostIdsAgree
    CallsReachParent
PROPERTIES
    EventuallyGhosting
CHECK_DEADLOCK FALSE
