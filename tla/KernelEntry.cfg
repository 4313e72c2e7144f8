SPECIFICATION FairSpec
CONSTANTS
    c0 = c0
    c1 = c1
    t0 = t0
    t1 = t1
    space = space
    Cpus <- MCCpus
    BootCpu = c0
    Threads <- MCThreads
    HomeCpu <- MCHomeCpu
    SpaceOf <- MCSpaceOf
    Loaders = {t0}
    KernelSpace = KernelSpace
    NoSpace = NoSpace
    Lines <- MCLines
    CpuTick = CpuTick
    Free = Free
    Idle = Idle
INVARIANTS
    OneCpuInKernel
    DepthIsNesting
    NoInterruptLost
    DeferredServedNext
    NoStaleTranslationUnlessLoadSlept
PROPERTIES
    FlushEnds
