SPECIFICATION FairSpec
CONSTANTS
    MaxThreads = 3
    MaxProcesses = 1
    MaxCpus = 2
    Threads = {1, 2, 3}
    Nobody = 0
    Wrap = 4
    EndAsked = {1}
    PauseAsked = {1}
PROPERTIES
    RequestsAreServed
    EveryThreadRuns
