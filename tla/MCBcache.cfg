CONSTANTS
    NBUF = 3
    Block = {k1, k2, k3, k4}
    NoBlock = NoBlock
    Val = {v0, v1}
    InitVal = v0
    NoVal = NoVal
    Thread = {t1, t2}
    NoThread = NoThread
    LogMax = 1
SPECIFICATION Spec
SYMMETRY BcacheSymmetry
INVARIANT
    BcacheInv
PROPERTY
    IsBlockStore
