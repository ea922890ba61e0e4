CONSTANTS
    a = a
    b = b
    NoObj = NoObj
    Slots = {0, 1, 2}
    Handles = {0, 1, 2, 3}
    Obj = {a, b}
    Number <- MC_Number
    Table0 <- MC_Table0
    CanPoll <- MC_CanPoll
    Inputs <- MC_Inputs
    Million = 10
    IntMax = 3
SPECIFICATION Spec
PROPERTY TimedPollReturns
