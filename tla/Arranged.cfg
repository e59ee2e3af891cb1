SPECIFICATION FairSpec
CONSTANTS
    c1 = c1
    c2 = c2
    s = s
    Client <- MCClient
    GameServer <- MCGameServer
    SeenPort <- MCSeenPort
    InitialQueryIds <- MCApart
    MaxAddresses = 3
    PunchRetryCount = 1
    ConnectRetryCount = 0
    MaxJoins = 2
INVARIANTS
    ArrangedStateOK
    ArrangedAgree
    NoGameLeft
PROPERTIES
    AcceptedOnce
    EventuallyDecided
CHECK_DEADLOCK FALSE
