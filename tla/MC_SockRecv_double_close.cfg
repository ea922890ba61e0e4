\* The ILP32 host of MC_SockRecv.cfg; the loop may fail to install.
CONSTANTS
    IntSize = 4
    CmsgHdr = 12
    CmsgAlign = 4
    FdsLens = {0, 1, 2, 3}
    Queued <- MC_Queued
    Slots = {0, 1}
    Obj = {"a", "c", "d", "e", "f"}
    NoObj = "none"
    Table0 <- MC_Table0
SPECIFICATION Spec
INVARIANT DescriptorClosedOnce
