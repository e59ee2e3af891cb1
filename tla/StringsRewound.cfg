SPECIFICATION StringSpec
CONSTANTS
    s1 = s1
    s2 = s2
    s3 = s3
    s4 = s4
    First = 0
    Window = 2
    Faithful = TRUE
    EntryCount = 2
    String <- MCString
    NoString = NoString
    MaxPerPacket = 1
    MaxSent = 3
    MaxRewound = 1
SYMMETRY MCSymmetry
INVARIANTS
    ConfirmedIsKnown
CHECK_DEADLOCK FALSE
