CONSTANTS
    PollTasks = {"a", "b"}
    NoTask = "NULL"
    PollFds = {1, 2}
    Listening = {2}
    Memory = {1, 2}
    Reports = {{"read"}}
    Size = 5
    MaxAge = 3
    MaxBytes = 3
    MaxCalls = 5
    SockFds = {3, 4, 5}
    Socks = {"a", "b"}
    MaxConn = 4
    MaxHandler = 2
    Threads = {"a", "b"}
    Versions = {4, 771, 772}
    Wanted <- SmallWanted
    MaxOpen = 3
    OrgExtensions <- SmallExtensions
    Set1Results = {0, 1}
    Hellos <- SmallHellos
    Cuts = {3, 5, 40, 130}
    MaxConns = 3
SPECIFICATION Spec
INVARIANTS
    PollersReached
    ReadsRight
    SocketsRight
    TlsRight
    ListsRight
PROPERTIES
    NotEarly
CHECK_DEADLOCK FALSE
