CONSTANTS
    t1 = t1  t2 = t2
    Threads = {t1, t2, t3, t4}
    Elems = {a, b}
    Capacity = 2
    NoThread = NoThread
    Uses <- SmallUses
SPECIFICATION MCSpec
INVARIANTS
    TypeOK
    LockHeld
    NoStaleWait
    LockGivenBack
PROPERTIES
    IsFifo
    PutTakeMoves
CHECK_DEADLOCK FALSE
