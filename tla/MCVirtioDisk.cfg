CONSTANTS
    NUM = 8
    UMAX = 8
    Thread = {t1, t2, t3}
    NoThread = NoThread
    Block = {k1, k2, k3}
    NoBlock = NoBlock
    Val = {v0, v1}
    NoVal = NoVal
SPECIFICATION Spec
SYMMETRY VirtioSymmetry
INVARIANTS
    TransferDone
    VirtioInv
    NothingLost
