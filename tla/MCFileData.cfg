SPECIFICATION Spec
CONSTANTS
    BSIZE = 2
    NDIRECT = 1
    NINDIRECT = 1
    NBLOCKS = 3
    BPB = 1
    MAXOPBLOCKS = 6
    UINT = 16
    Inum = {1, 2}
    Proc = {0, 1}
    File = {1, 2, 3}
    ip <- MCip
    readable = {1, 2}
    writable = {1, 3}
    Calls <- MCCalls
INVARIANTS BlocksPartitioned ChunkFits
PROPERTY IsByteFile
