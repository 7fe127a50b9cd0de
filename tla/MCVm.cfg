SPECIFICATION Spec
CONSTANTS
    NPAGES = 21
    PGSIZE = 2
    FAN = 3
    UINT = 32
    ULONG = 256
    Proc = {1, 2, 3}
    initproc = 1
    Images <- MCImages
    ArgCounts = {1}
    SbrkArgs <- MCSbrkArgs
    MaxPipes = 1
INVARIANTS PagesConserved MappingExact CopyExact
PROPERTY FailureUndone
