CONSTANTS
    a = a  p = p  q = q
    Tasks = {a, b, c}
    Threads = {p, q}
    Placements <- OneOrTwoThreads
    NoTask = NoTask
SPECIFICATION FairSpec
INVARIANTS
    TypeOK
    MutualExclusion
    NoLostWakeup
    NoTaskForgotten
    OneThreadSafe
PROPERTY OneThreadServes
CHECK_DEADLOCK FALSE
