SPECIFICATION Spec
CONSTANTS
    a = a
    b = b
    Host <- MCHost
    InitialSendSeq <- MCInitialSendSeq
    MaxSend <- MCMaxSendFour
    MaxPacketWindowSize = 4
    SequenceNumberWindowSize = 8
    AckSequenceNumberWindowSize = 8
    AckBits = 2
    Word = 64
    PingRetryCount <- MCPings
    InFlight <- MCInFlight
    Encrypted = FALSE
    Duplicating = TRUE
    Overtaking = FALSE
INVARIANTS
    TypeOK
    DroppedNeverProcessed
    ReceivedWasProcessed
    ProcessedOnceInOrder
    HeaderDecodedExactly
    AckMaskCoversNotifies
PROPERTIES
    ImplementsService
CHECK_DEADLOCK FALSE
