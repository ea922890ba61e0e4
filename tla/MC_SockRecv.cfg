\* A host whose control messages are aligned to 4 bytes (ILP32).
CONSTANTS
    IntSize = 4
    CmsgHdr = 12
    CmsgAlign = 4
    FdsLens = {0, 1, 2, 3}
    Queued <- MC_Queued
    Slots = {0, 1}
    Obj = {"a", "c", "d", "e", "f"}
    NoObj = "none"
    Table0 <- MC_Table0
SPECIFICATION Spec
INVARIANT WritesWithinFds
INVARIANT NoDescriptorLeak
