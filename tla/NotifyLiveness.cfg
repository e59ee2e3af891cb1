SPECIFICATION FairSpec
CONSTANTS
    a = a
    b = b
    Host <- MCHost
    InitialSendSeq <- MCInitialBeforeWrap
    MaxSend <- MCMaxSendFew
    MaxPacketWindowSize = 4
    SequenceNumberWindowSize = 8
    AckSequenceNumberWindowSize = 8
    AckBits = 2
    Word = 16
    PingRetryCount <- MCPingsBoth
    InFlight <- MCInFlight
    Encrypted = TRUE
    Duplicating = FALSE
    Overtaking = FALSE
INVARIANTS
    NotifyQueueNotEmpty
PROPERTIES
    EventuallyNotified
CHECK_DEADLOCK FALSE
