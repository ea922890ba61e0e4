\* A 64-bit time_t (6) and a 32-bit one (3); stamps below, at and past
\* both cut-offs.
CONSTANTS
    Billion = 3
    Width = 4
    TimeMaxes = {3, 6}
    MinSec <- MC_MinSec
    Stamps = {5, 10, 14, 15}
    Sizes = {0, 1}
    FlagSets <- MC_FlagSets
    Clocks = {"REALTIME", "MONOTONIC", "BOGUS"}
SPECIFICATION Spec
INVARIANT TypeOK
INVARIANT TimesAsAsked
PROPERTY ClockNonDecreasing
