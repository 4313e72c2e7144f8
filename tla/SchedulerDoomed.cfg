SPECIFICATION FairSpec
CONSTANTS
    MaxThreads = 2
    MaxProcesses = 2
    MaxCpus = 2
    Threads = {1, 2}
    Nobody = 0
    Wrap = 3
    EndAsked = {1, 2}
    PauseAsked = {}
PROPERTY
    DoomedEnds
