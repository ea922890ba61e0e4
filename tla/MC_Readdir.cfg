CONSTANTS
    Threads = {t1, t2, t3}
    K = 4
    RecSize <- MC_RecSize
    Cookie <- MC_Cookie
    START = 0
    NBytes = {5, 6, 9}
    HostErrors = FALSE
SPECIFICATION Spec
INVARIANT ListingComplete
