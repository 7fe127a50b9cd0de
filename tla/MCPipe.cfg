CONSTANTS
    Reader = {r1, r2}
    Writer = {w1}
    Killable = {r1, w1}
    Nobody = Nobody
    Byte = {x, y}
    NoByte = NoByte
    PIPESIZE = 2
    UMAX = 4
    ReadSizes = {2}
    WriteSizes = {0, 3}
SPECIFICATION FairSpec
INVARIANTS
    NobodyStranded
    PipeInv
PROPERTIES
    IsFifo
    SeesClose
CHECK_DEADLOCK FALSE
