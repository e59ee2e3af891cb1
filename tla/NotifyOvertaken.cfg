SPECIFICATION Spec
CONSTANTS
    a = a
    b = b
    Host <- MCHost
    InitialSendSeq <- MCInitialSendSeq
    MaxSend <- MCMaxSend
    MaxPacketWindowSize = 4
    SequenceNumberWindowSize = 8
    AckSequenceNumberWindowSize = 8
    AckBits = 2
    Word = 64
    PingRetryCount <- MCPings
    InFlight <- MCInFlight
    Encrypted = FALSE
    Duplicating = TRUE
    Overtaking = TRUE
INVARIANTS
    ReceivedWasProcessed
CHECK_DEADLOCK FALSE
