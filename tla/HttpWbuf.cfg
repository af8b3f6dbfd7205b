SPECIFICATION FairSpec
CONSTANTS
    Wires <- MCWires
    WireMax = 10
    RBUF_BASE = 3
    RBUF_GROW = 1
    RBUF_MAX = 4
    WR_ERROR = WR_ERROR
    None = None
    Width = 5
INVARIANT WbufFreed
