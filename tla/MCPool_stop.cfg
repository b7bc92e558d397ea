CONSTANTS
    Users = {u1}
    Workers = {w1, w2}
    Main = Main
    Pill = Pill
    NoThread = NoThread
    Threads <- PoolThreads
    Elems <- PoolElems
    Uses <- PoolUses
    threadNum = 2
    Casts = {{u1, Main}}
    Capacity = 4
SPECIFICATION FairSpec
CHECK_DEADLOCK FALSE
PROPERTY StopReturns
