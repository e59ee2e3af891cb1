SPECIFICATION FairEventSpec
CONSTANTS
    First = 0
    Window = 2
    Faithful = TRUE
    EventWindow = 2
    EventSeqSpace = 3
    Ghosting = TRUE
    MaxPost <- MCPost
    MaxPerPacket = 2
    MaxLost = 1
INVARIANTS
    EventStateOK
    OrderedInOrder
    UnguaranteedInOrder
    NumberedExactly
    ToldTruth
    EventConserved
PROPERTIES
    EventuallyProcessed
CHECK_DEADLOCK FALSE
