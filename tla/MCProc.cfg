CONSTANTS
    NPROC = 3
    Cpu = {c1, c2}
    NoCpu = NoCpu
    MaxPid = 3
    KillPids = {2}
SPECIFICATION Spec
SYMMETRY CpuSymmetry
INVARIANTS
    OneCpuPerProcess
    FreedIsOffCpu
    NoLostExit
    EveryChildHasLiveParent
    SleeperHasLiveChild
    LockDiscipline
    ProcInv
