\* sys_poll, sys_sock_send and sys_sock_recv on one table of three slots,
\* with a thread closing slots, on an ILP32 host.
CONSTANTS
    a = a
    b = b
    c = c
    d = d
    NoObj = NoObj
    Slots = {0, 1, 2}
    Handles = {0, 1, 2, 3}
    Obj = {a, b, c, d}
    Number <- MC_Number
    Table0 <- MC_Table0
    CanPoll <- MC_CanPoll
    Inputs <- MC_Inputs
    Million = 10
    IntMax = 3
    Vecs <- MC_Vecs
    IntSize = 4
    CmsgHdr = 12
    CmsgAlign = 4
    FdsLens = {1, 2}
    Queued <- MC_Queued
SPECIFICATION Spec
INVARIANT TypeOK
INVARIANT ReferencesCounted
INVARIANT PolledDescriptorOpen
INVARIANT OneEventPerSubscription
INVARIANT ReturnReportsEvent
INVARIANT SentDescriptorsOpen
INVARIANT NoDescriptorLeak
PROPERTY ImmediateErrorsReturn
