CONSTANTS
    a = a  p = p  q = q
    Tasks = {a, b, c}
    Threads = {p, q}
    Placements <- TwoThreads
    NoTask = NoTask
SPECIFICATION Spec
INVARIANT LinkInOneList
CHECK_DEADLOCK FALSE
