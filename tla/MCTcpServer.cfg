SPECIFICATION FairSpec
CONSTANTS
    MaxConn = 3
    Ip <- MCIp
    Fd <- MCFd
    QueueLen = 1
    MaxReq = 2
    MaxPing = 1
    None = None
INVARIANTS
    HandledAsReceived
    ListMatchesSockets
PROPERTIES
    RequestsHandled
    SocketsComeBack
CHECK_DEADLOCK FALSE
