CONSTANTS
    Tasks = {t1, t2}
    Act = Act
    NoTask = NoTask
    Workers = {w1, w2}
    PipeCap = 2
    ReadMax = 1
SPECIFICATION FairSpec
INVARIANTS
    TypeOK
    NoSleepOnWork
    ActiveNeverDies
    AwaitAfterRun
    AwaitRemembered
PROPERTY AwaitReturns
