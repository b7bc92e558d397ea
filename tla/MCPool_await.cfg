CONSTANTS
    Users = {u1, u2}
    Workers = {w1, w2}
    Main = Main
    Pill = Pill
    NoThread = NoThread
    Threads <- PoolThreads
    Elems <- PoolElems
    Uses <- PoolUses
    threadNum = 1
    Casts = {{u1, u2}, {u1, Main}}
    Capacity = 2
SPECIFICATION FairSpec
CHECK_DEADLOCK FALSE
INVARIANTS JobKept RunnableAlive
PROPERTY StartedAwaitReturns
