SPECIFICATION FairSpec
CONSTANTS
    FDs = {f1, f2}
    Conns = {c1, c2}
    Workers = {w1}
    acMgmt = acMgmt
    acHttp = acHttp
    Acceptors = {acMgmt}
    Main = main
    PostAccept <- MCPostAccept
    EpollMayFail = FALSE
    None = None
PROPERTIES Served QuitEnds
INVARIANT QuitCountExact
