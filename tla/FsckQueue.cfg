SPECIFICATION FairSpec
CONSTANTS
    Clients = {c1, c2, c3}
    Devices = {d1}
    MaxActive = 1
    NThreads = 2
    SizeMax = 3
    FstatMayFail = TRUE
    EpollMayFail = TRUE
    None = None
INVARIANTS SlotCount NoIdleSlot QueueExact QuitPrio IInv
PROPERTIES Unparked
