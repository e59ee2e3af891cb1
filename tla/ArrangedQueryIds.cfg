SPECIFICATION Spec
CONSTANTS
    c1 = c1
    c2 = c2
    s = s
    Client <- MCClient
    GameServer <- MCGameServer
    SeenPort <- MCSeenPort
    InitialQueryIds <- MCAny
    MaxAddresses = 3
    PunchRetryCount = 1
    ConnectRetryCount = 0
    MaxJoins = 3
INVARIANT AnswersReachRequester
CHECK_DEADLOCK FALSE
