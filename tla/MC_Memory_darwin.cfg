CONSTANTS
    NoMap = NoMap
    NoPage = NoPage
    Abi <- MC_Abi
    Host <- Darwin
    Addrs = {1, 2}
    FilePages = {0}
    FileFds = {3}
    AnonFd = 9
    BadFd = 5
    ProtWords <- MC_ProtWords
    MapWords <- MC_MapWords
    MsWords <- MC_MsWords
    Advice = {1, 2, 3, 4, 5}
SPECIFICATION Spec
INVARIANT NoLostWrite
