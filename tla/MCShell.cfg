SPECIFICATION Spec
CONSTANTS
    Proc = {1, 2, 3, 4, 5, 6}
    sh = 1
    NFILE = 6
    NOFILE = 8
    NPIPE = 5
    PIPESIZE = 3
    FileName = {"f", "g"}
    MAXARGS = 3
    LASTNUM = 7
    Lines <- MCLines
    Contents <- MCContents
    MaxTokens = 5
    MaxPattern = 4
    MaxText = 4
    BUFSIZE = 4
INVARIANTS
    FileRefExact
    OutputIsMeaning
    ParseIsGrammar
    GrepIsExact
PROPERTY
    LineEnds
