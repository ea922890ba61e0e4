CONSTANTS
    t1 = t1
    t2 = t2
    o1 = o1
    o2 = o2
    o3 = o3
    Read = Read
    Readdir = Readdir
    NoObj = NoObj
    NoThread = NoThread
    Threads <- MC_Threads
    Obj <- MC_Obj
    Types <- MC_Types
    Dir = "directory"
    Socket = "socket_stream"
    RightsSet <- MC_Rights
    FileReaddir = Readdir
    TypeBase <- MC_TypeBase
    TypeInh <- MC_TypeInh
    SlotBound = 4
    MaxUsed = 2
SPECIFICATION Spec
INVARIANT NoStaleEntryRead
