SPECIFICATION FairSpec
CONSTANTS
    Threads = {t1, t2, t3}
    Callers = {t1, t2}
    Waiters = {t1}
    MaxEvents = 3
    HandleTableSize = 3
INVARIANTS
    MutualExclusion
    RefsAreCounted
    NoLostWakeup
PROPERTIES
    SomebodyGetsIn
    DeadlinesEnd
