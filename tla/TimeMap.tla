------------------------------ MODULE TimeMap ------------------------------
(***************************************************************************)
(* The time map of src/libemulator/posix.c and the calls that use it:     *)
(* convert_timespec (host {sec, nsec} to a 64-bit nanosecond timestamp),  *)
(* convert_timestamp (the inverse, clamped to time_t), sys_clock_time_get, *)
(* convert_stat under sys_file_stat_fget, and convert_utimens_arguments   *)
(* under sys_file_stat_fput and sys_file_stat_put.                       *)
(*                                                                         *)
(* Nanoseconds per second, the width of cloudabi_timestamp_t and the      *)
(* largest time_t are Billion, Width and timeMax, scaled down so that     *)
(* both clamps are reachable; timeMax is fixed by the build, and a        *)
(* behaviour starts by picking one of TimeMaxes.  Arithmetic on          *)
(* timestamps is modulo 2^Width as in C.  The host has one realtime      *)
(* clock, which only moves forward and never past timeMax seconds, and    *)
(* one file whose access and modification times are host timespecs.      *)
(* Flag words are sets of flag names.                                     *)
(***************************************************************************)
EXTENDS Integers, FiniteSets

CONSTANTS
    Billion,    \* nanoseconds per second (scaled)
    Width,      \* bits of cloudabi_timestamp_t (scaled)
    TimeMaxes,  \* NUMERIC_MAX(time_t) of the builds checked (scaled)
    MinSec,     \* the earliest second the host clock starts at
    Stamps,     \* timestamps the guest passes to stat_fput / stat_put
    Sizes,      \* file sizes the guest passes
    FlagSets,   \* CLOUDABI_FILESTAT_* flag words the guest passes
    Clocks      \* clock identifiers the guest passes

UintMax == 2^Width - 1
Fields == {"atim", "mtim"}
TimeFlags == {"ATIM", "ATIM_NOW", "MTIM", "MTIM_NOW"}
SetFlag == [atim |-> "ATIM", mtim |-> "MTIM"]
NowFlag == [atim |-> "ATIM_NOW", mtim |-> "MTIM_NOW"]

ASSUME /\ Billion \in Nat \ {0} /\ Width \in Nat /\ TimeMaxes \subseteq Nat
       /\ Stamps \subseteq 0 .. UintMax
       /\ FlagSets \subseteq SUBSET (TimeFlags \cup {"SIZE", "OTHER"})

VARIABLES
    timeMax, \* NUMERIC_MAX(time_t) of this build
    clock,  \* the host's CLOCK_REALTIME
    times,  \* [Fields -> Timespec]: the file's st_atim and st_mtim
    size,   \* the file's st_size
    asked,  \* ghost: per field, how the guest last set it
    ret     \* what the last call returned

vars == <<timeMax, clock, times, size, asked, ret>>

Timespec == [sec : MinSec .. timeMax, nsec : 0 .. Billion - 1]

(* convert_timespec(): negative seconds are 0, seconds at or above        *)
(* UINT64_MAX / 10^9 saturate, else sec * 10^9 + nsec in uint64.          *)
ConvertTimespecGT(ts) ==
    IF ts.sec < 0 THEN 0
    ELSE IF ts.sec > UintMax \div Billion THEN UintMax
    ELSE (ts.sec * Billion + ts.nsec) % (UintMax + 1)
ConvertTimespecUnsigned(ts) ==
    LET s == ts.sec % (UintMax + 1)
    IN IF s >= UintMax \div Billion THEN UintMax
       ELSE (s * Billion + ts.nsec) % (UintMax + 1)
ConvertTimespec(ts) ==
    IF ts.sec < 0 THEN 0
    ELSE IF ts.sec >= UintMax \div Billion THEN UintMax
    ELSE (ts.sec * Billion + ts.nsec) % (UintMax + 1)

(* convert_timestamp(): the sub-second remainder, and the seconds clamped *)
(* to the largest time_t.  Without the clamp the seconds would wrap into  *)
(* a negative time_t.                                                     *)
ConvertTimestampUnclamped(t) ==
    [nsec |-> t % Billion,
     sec |-> LET s == (t \div Billion) % (2 * (timeMax + 1))
             IN IF s > timeMax THEN s - 2 * (timeMax + 1) ELSE s]
ConvertTimestamp(t) ==
    [nsec |-> t % Billion,
     sec |-> IF t \div Billion < timeMax THEN t \div Billion ELSE timeMax]

(* convert_stat(): the times sys_file_stat_fget returns for the file.     *)
ConvertStat == [f \in Fields |-> ConvertTimespec(times[f])]

(* convert_utimens_arguments(): per field, UTIME_NOW if its _NOW flag is  *)
(* set, else the converted timestamp if its flag is set, else UTIME_OMIT. *)
(* The two markers are tv_nsec values beyond a second, as on the hosts;   *)
(* tv_sec is left unset, and the host ignores it.                         *)
UTIME_NOW == [sec |-> 0, nsec |-> Billion]
UTIME_OMIT == [sec |-> 0, nsec |-> Billion + 1]
UtimensNowLast(flags, buf) ==
    [f \in Fields |-> IF SetFlag[f] \in flags THEN ConvertTimestamp(buf[f])
                      ELSE IF NowFlag[f] \in flags THEN UTIME_NOW ELSE UTIME_OMIT]
UtimensArguments(flags, buf) ==
    [f \in Fields |-> IF NowFlag[f] \in flags THEN UTIME_NOW
                      ELSE IF SetFlag[f] \in flags THEN ConvertTimestamp(buf[f])
                      ELSE UTIME_OMIT]

(* The host's futimens()/utimensat(): NOW takes the clock, OMIT keeps the *)
(* field.  The ghost asked records the guest's request in its own terms.  *)
Utimens(ts, flags, buf) ==
    /\ times' = [f \in Fields |-> CASE ts[f].nsec = UTIME_NOW.nsec -> clock
                                    [] ts[f].nsec = UTIME_OMIT.nsec -> times[f]
                                    [] OTHER -> ts[f]]
    /\ asked' = [f \in Fields |->
                   CASE NowFlag[f] \in flags -> [how |-> "now", t |-> ConvertTimespec(clock)]
                     [] SetFlag[f] \in flags -> [how |-> "value", t |-> buf[f]]
                     [] OTHER -> asked[f]]
    /\ ret' = "ok"

Init ==
    /\ timeMax \in TimeMaxes
    /\ clock = [sec |-> MinSec, nsec |-> 0]
    /\ times \in [Fields -> {clock}]
    /\ size = 0
    /\ asked = [f \in Fields |-> [how |-> "none", t |-> 0]]
    /\ ret = "ok"

(* The host clock advances by a nanosecond; it never passes timeMax.      *)
clock_tick ==
    /\ clock.sec < timeMax \/ clock.nsec < Billion - 1
    /\ clock' = IF clock.nsec < Billion - 1 THEN [clock EXCEPT !.nsec = @ + 1]
                ELSE [sec |-> clock.sec + 1, nsec |-> 0]
    /\ UNCHANGED <<timeMax, times, size, asked, ret>>

(* sys_clock_time_get(): convert_clockid, clock_gettime, convert_timespec; *)
(* the timestamp it returns is ConvertTimespec(clock).  Every host clock  *)
(* is modelled by the one clock, which moves forward.                     *)
ClockIds == {"MONOTONIC", "PROCESS_CPUTIME_ID", "REALTIME", "THREAD_CPUTIME_ID"}
clock_time_get ==
    /\ \E id \in Clocks : ret' = IF id \in ClockIds THEN "ok" ELSE "EINVAL"
    /\ UNCHANGED <<timeMax, clock, times, size, asked>>

(* sys_file_stat_fput(): SIZE alone truncates (the host then marks st_mtim *)
(* for update if the size changed); time flags alone go to futimens();     *)
(* anything else is EINVAL.                                              *)
file_stat_fput ==
    \E flags \in FlagSets, at \in Stamps, mt \in Stamps, sz \in Sizes :
        LET buf == [atim |-> at, mtim |-> mt]
        IN \/ "SIZE" \in flags /\ flags # {"SIZE"}
              /\ ret' = "EINVAL" /\ UNCHANGED <<times, size, asked>>
           \/ flags = {"SIZE"}
              /\ size' = sz
              /\ (IF sz # size
                  THEN /\ times' = [times EXCEPT !.mtim = clock]
                       /\ asked' = [asked EXCEPT !.mtim = [how |-> "now",
                                                           t |-> ConvertTimespec(clock)]]
                  ELSE UNCHANGED <<times, asked>>)
              /\ ret' = "ok"
           \/ "SIZE" \notin flags /\ flags \cap TimeFlags # {}
              /\ ~(flags \subseteq TimeFlags)
              /\ ret' = "EINVAL" /\ UNCHANGED <<times, size, asked>>
           \/ "SIZE" \notin flags /\ flags \cap TimeFlags # {}
              /\ flags \subseteq TimeFlags
              /\ Utimens(UtimensArguments(flags, buf), flags, buf)
              /\ UNCHANGED size
           \/ flags \cap (TimeFlags \cup {"SIZE"}) = {}
              /\ ret' = "EINVAL" /\ UNCHANGED <<times, size, asked>>
    /\ UNCHANGED <<timeMax, clock>>

(* sys_file_stat_put(): only time flags; the path is resolved to the file. *)
file_stat_put ==
    \E flags \in FlagSets, at \in Stamps, mt \in Stamps :
        LET buf == [atim |-> at, mtim |-> mt]
        IN \/ ~(flags \subseteq TimeFlags)
              /\ ret' = "EINVAL" /\ UNCHANGED <<times, asked>>
           \/ flags \subseteq TimeFlags
              /\ Utimens(UtimensArguments(flags, buf), flags, buf)
    /\ UNCHANGED <<timeMax, clock, size>>

Next == clock_tick \/ clock_time_get \/ file_stat_fput \/ file_stat_put
Spec == Init /\ [][Next]_vars
-----------------------------------------------------------------------------
(* Every time the host holds for the file is a time_t the host accepts.   *)
TypeOK ==
    /\ clock \in Timespec
    /\ times \in [Fields -> Timespec]
    /\ size \in Sizes \cup {0}
    /\ ret \in {"ok", "EINVAL"}

(* Largest second below which a timestamp survives both conversions.     *)
Limit == IF timeMax < UintMax \div Billion THEN timeMax ELSE UintMax \div Billion

(* sys_clock_time_get never goes backwards while the host clock moves      *)
(* forward: what it returns after a tick is no less than before, across   *)
(* the negative-second and the saturation cut-offs of convert_timespec.   *)
ClockNonDecreasing ==
    [][clock_tick => ConvertTimespec(clock') >= ConvertTimespec(clock)]_vars

(* What sys_file_stat_fget returns for a time is what the guest last set: *)
(* the clock reading for a _NOW flag (which wins over the plain flag), the *)
(* timestamp itself below Limit seconds, and a saturated value no earlier *)
(* than Limit seconds for a larger timestamp.                             *)
TimesAsAsked ==
    \A f \in Fields :
        /\ asked[f].how = "now" => ConvertStat[f] = asked[f].t
        /\ asked[f].how = "value" =>
              IF asked[f].t < Limit * Billion THEN ConvertStat[f] = asked[f].t
              ELSE ConvertStat[f] \in Limit * Billion .. UintMax
====
