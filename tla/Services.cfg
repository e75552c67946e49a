SPECIFICATION ServicesSpec
CONSTANTS
    Parts = {"forfeits", "mailbox", "runtime", "nodes"}
    f1 = f1  f2 = f2  f3 = f3
    Forfeited <- MCForfeited
    WatchModes <- MCWatchModes
    MaxWatchFaults = 1
    a1 = a1  a2 = a2  a3 = a3
    r1 = r1  r2 = r2  u1 = u1  u2 = u2
    Posts <- MCPosts
    Readers = {r1, r2}
    Pullers = {u1, u2}
    MailModes <- MCMailModes
    MaxConnects = 2
    Services <- MCServiceNames
    RtModes <- MCRuntimeModes
    n1 = n1  n2 = n2
    ClnNodes = {n1, n2}
    Priority <- MCPriority
    WithHold = {n1}
    MaxNodeFaults = 2
    NodeModes <- MCNodeModes
INVARIANTS
    ConnectorsDistinct RuntimeSound ServicesSound

    
CHECK_DEADLOCK FALSE
