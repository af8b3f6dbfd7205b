SPECIFICATION FairSpec
CONSTANTS
    Threads = {t1, t2, t3}
    Acceptors = {t1}
    NFds = 3
    FD_PER_HEAP = 2
    FirstFd = 1
    h1 = h1
    h2 = h2
    file = file
    Objs = {h1, h2, file}
    KindOf <- MCKindOf
    None = None
INVARIANTS IInv SlotReady LiveKept ShutdownRight
PROPERTIES Completes
CHECK_DEADLOCK FALSE
