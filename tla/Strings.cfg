SPECIFICATION StringSpec
CONSTANTS
    s1 = s1
    s2 = s2
    s3 = s3
    s4 = s4
    First = 0
    Window = 2
    Faithful = TRUE
    EntryCount = 2
    String <- MCStrings
    NoString = NoString
    MaxPerPacket = 2
    MaxSent = 5
    MaxRewound = 0
SYMMETRY MCSymmetry
INVARIANTS
    StringTypeOK
    ConfirmedIsKnown
    ReadAsWritten
CHECK_DEADLOCK FALSE
