SPECIFICATION FairSpec
CONSTANTS
    client = client
    server = server
    Host <- MCHost
    Target <- MCTarget
    Acceptor <- MCServer
    ChallengeRetryCount = 1
    ConnectRetryCount = 1
    Refusals = {"CHR_INVALID", "accept"}
    MaxAttempts = 2
    MaxRefreshes = 1
INVARIANTS
    InterfaceStateOK
    AtMostOnce
    ConnectionsAgree
    ToldOnce
PROPERTY EventuallyDecided
CHECK_DEADLOCK FALSE
