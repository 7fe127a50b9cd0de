CONSTANTS
    Letter = {a}
    Newline = NL
    Return = CR
    Nul = NUL
    CtrlD = D
    CtrlH = H
    CtrlU = U
    CtrlP = P
    Reader = {p1, p2}
    Killable = {p1, p2}
    Nobody = Nobody
    INPUT_BUF = 3
    UMAX = 6
    MaxN = 2
SPECIFICATION Spec
SYMMETRY ConsoleSymmetry
INVARIANT
    ReaderNotStranded
PROPERTY
    IsLineDiscipline
