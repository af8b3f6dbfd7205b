SPECIFICATION Spec
CONSTANTS
    FDs = {f1, f2}
    Conns = {c1, c2, c3}
    Workers = {w1, w2}
    acMgmt = acMgmt
    acHttp = acHttp
    Acceptors = {acMgmt, acHttp}
    Main = main
    PostAccept <- MCPostAccept
    EpollMayFail = TRUE
    None = None
SYMMETRY Symmetry
CHECK_DEADLOCK FALSE
INVARIANTS Exclusive Accounted EpollUsage QuitCount AloneAtQuit IInv
