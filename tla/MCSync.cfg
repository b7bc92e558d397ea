CONSTANTS
    ChanTasks = {"s", "r1", "r2"}
    ChanElems = {"x", "y"}
    capacity = 2
    ChanOps <- SmallOps
    Senders = {"s1", "s2", "s3"}
    Receivers = {"r1", "r2", "r3"}
    nelems = 2
    SemTasks = {"a", "b", "c"}
    NoTask = "null"
    Count = 1
    MaxPosts = 4
    MaxTakes = 5
    Runners = {"i1", "i2", "o1"}
    Inside = {"i1", "i2"}
    Workers = {"w1", "w2", "w3"}
    ChanSize = 1
    KeepAlive = TRUE
    Getters = {"a", "b", "c"}
    Runner = "r"
    Nobody = "nobody"
    MaxSpurious = 2
    Threads = {"a", "b", "c"}
    MaxCalls = 2
SPECIFICATION Spec
INVARIANTS
    ChannelsSafe
    SemaphoreExact
    RunnersKept
    PublishedOnce
PROPERTIES
    RefinesFifo
    WaitsEnd
CHECK_DEADLOCK FALSE
