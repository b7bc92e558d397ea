CONSTANTS
    Users = {u1, u2}
    Workers = {w1, w2}
    Main = Main
    Pill = Pill
    NoThread = NoThread
    Threads <- PoolThreads
    Elems <- PoolElems
    Uses <- PoolUses
    threadNum = 1
    Casts = {{u1, u2}}
    Capacity = 2
SPECIFICATION FairSpec
CHECK_DEADLOCK FALSE
PROPERTY AwaitReturns
