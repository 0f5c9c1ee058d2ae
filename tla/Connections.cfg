SPECIFICATION FairSpec
CONSTANTS
    Clients = {c1, c2}
    Sessions = {s1, s2}
    MaxFd = 4
    Backlog = 1
    MaxRecvs = 2
INVARIANTS SocketsOwn WorkWhenReady
PROPERTIES ClientsEnd
CHECK_DEADLOCK FALSE
