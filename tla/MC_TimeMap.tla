------------------------------ MODULE MC_TimeMap ------------------------------
(* Three nanoseconds per second and a 4-bit timestamp: UINT64_MAX is 15   *)
(* and the saturation cut-off is second 5.  With a 64-bit time_t          *)
(* (timeMax 6) the host clock reaches the cut-off; with a 32-bit one      *)
(* (timeMax 3) the time_t clamp bites first.                              *)
EXTENDS TimeMap

(* No flags, SIZE alone and with a time flag, each time flag, a plain     *)
(* flag together with its _NOW flag, both fields, an unknown bit.         *)
MC_MinSec == -1

MC_FlagSets ==
    { {}, {"SIZE"}, {"SIZE", "MTIM"}, {"ATIM"}, {"MTIM_NOW"},
      {"MTIM", "MTIM_NOW"}, {"ATIM", "MTIM_NOW"}, {"MTIM", "OTHER"} }
=============================================================================
