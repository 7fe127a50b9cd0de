CONSTANTS
    Writer = {p1, p2}
    Echoer = {e1}
    Intr = Intr
    Nobody = Nobody
    Byte = {x, y}
    EchoByte = {z}
    NoByte = NoByte
    FIFO_DEPTH = 2
    UART_TX_BUF_SIZE = 2
    UMAX = 4
SPECIFICATION FairSpec
INVARIANT
    NoOverrun
PROPERTIES
    OutputIsFifo
    OutputProgress
