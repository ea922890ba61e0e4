\* A 64-bit host: struct cmsghdr is 16 bytes and CMSG_ALIGN rounds to 8.
CONSTANTS
    IntSize = 4
    CmsgHdr = 16
    CmsgAlign = 8
    FdsLens = {0, 1, 2, 3}
    Queued <- MC_Queued
    Slots = {0, 1}
    Obj = {"a", "c", "d", "e", "f"}
    NoObj = "none"
    Table0 <- MC_Table0
SPECIFICATION Spec
INVARIANT WritesWithinFds
