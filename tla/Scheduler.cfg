SPECIFICATION Spec
CONSTANTS
    MaxThreads = 3
    MaxProcesses = 2
    MaxCpus = 2
    Threads = {1, 2, 3}
    Nobody = 0
    Wrap = 4
    EndAsked = {2}
    PauseAsked = {2}
INVARIANTS
    NoCpuInFreedSpace
    
    TicketHoldersExist
    
    NoLostWakeup
PROPERTIES
    
    PausedStaysOut
