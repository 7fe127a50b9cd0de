CONSTANTS
    NPROC = 3
    Cpu = {c1}
    NoCpu = NoCpu
    MaxPid = 3
    KillPids = {2}
SPECIFICATION FairSpec
PROPERTIES
    RunnableRuns
    OrphansReaped
