\* A runner submitted by a thread without tasks.
CONSTANTS
    Runners = {o1}
    Inside = {}
    Workers = {w1}
    ChanSize = 1
    KeepAlive = TRUE
SPECIFICATION Spec
PROPERTY SubmittedRuns
CHECK_DEADLOCK FALSE
