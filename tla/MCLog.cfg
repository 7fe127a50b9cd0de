CONSTANTS
    Block = {b1, b2}
    Val = {v0, v1}
    InitVal = v0
    NoVal = NoVal
    Thread = {t1, t2, t3}
    MAXOPBLOCKS = 2
    OpBlocks = 2
    LOGSIZE = 4
    LogSize = 3
SPECIFICATION FairSpec
INVARIANT
    LogInv
PROPERTIES
    CrashAtomic
    LogProgress
