-------------------------------- MODULE Poll --------------------------------
(***************************************************************************)
(* sys_poll() of src/libemulator/posix.c: the single-clock sleep and the   *)
(* general path through the host's poll(), for one polling thread, while   *)
(* another thread closes table slots (sys_fd_close) at any time.          *)
(*                                                                         *)
(* The scan of the subscriptions runs under the table's read lock, so it  *)
(* is one action; the close is one action too (its detach and release    *)
(* have nothing between them that the poller looks at).  The host's       *)
(* poll() is three actions: descriptors become ready, the timeout expires *)
(* or a signal interrupts it.  Nanoseconds per millisecond and INT_MAX are *)
(* the constants Million and IntMax, scaled down so that TLC's integers   *)
(* hold the timeouts.                                                      *)
(*                                                                         *)
(* futex_op_poll() is assumed to decline the vector: the subscriptions    *)
(* modelled are fd, clock and "other" (an unsupported type).              *)
(***************************************************************************)
EXTENDS Integers, Sequences, FiniteSets
LOCAL INSTANCE SequencesExt

CONSTANTS
    Slots,      \* guest handle numbers present in the table at the start
    Handles,    \* handle numbers subscriptions name (Slots and unused ones)
    Obj,        \* fd_objects behind the slots
    Number,     \* [Obj -> Nat]: fd_number(fo), the host descriptor
    Table0,     \* [Slots -> Obj \cup {NoObj}]: the table when poll is called
    CanPoll,    \* [Slots -> BOOLEAN]: CLOUDABI_RIGHT_POLL_FD_READWRITE held
    Inputs,     \* subscription vectors tried
    Million,    \* nanoseconds per millisecond (scaled)
    IntMax,     \* INT_MAX (scaled)
    NoObj

Sub == [type : {"fd_read", "fd_write"}, fd : Handles]
       \cup [type : {"clock"}, timeout : Nat, abstime : BOOLEAN,
             clockOk : BOOLEAN]
       \cup [type : {"other"}]
Event == [ud : Nat, type : {"fd_read", "fd_write", "clock", "other"},
          error : {"none", "EBADF", "ENOTCAPABLE", "ENOSYS", "ENOTSUP",
                   "EINTR", "EIO"},
          hup : BOOLEAN]
Revent == {"nval", "err", "hup", "ready"}

ASSUME /\ Inputs \subseteq Seq(Sub) /\ Table0 \in [Slots -> Obj \cup {NoObj}]
       /\ Slots \subseteq Handles /\ NoObj \notin Obj
       /\ Million \in Nat \ {0} /\ IntMax \in Nat

VARIABLES
    subs,      \* in[0 .. nsubscriptions - 1]
    pc,        \* "start", "poll", "collect", "release", "done"
    fos,       \* fos[i]: the reference taken for subscription i, or NoObj
    pfds,      \* pfds[i].fd: the host descriptor, or -1
    revents,   \* pfds[i].revents after poll()
    out,       \* out[0 .. *nevents - 1]
    timer,     \* the index of clock_subscription, 0 for NULL
    timeout,   \* the poll() timeout in milliseconds
    ret,       \* poll()'s return value
    error,     \* sys_poll's return value
    entries,   \* the table's slots: object or NoObj
    refcount,  \* fo->refcount
    closed,    \* the object's host descriptor has been closed
    waited     \* nanoseconds poll() slept before it timed out

vars == <<subs, pc, fos, pfds, revents, out, timer, timeout, ret, error,
          entries, refcount, closed, waited>>

N == Len(subs)
Idx == 1 .. N
Ev(i, err, hup) == [ud |-> i, type |-> subs[i].type, error |-> err, hup |-> hup]
IsFd(i) == subs[i].type \in {"fd_read", "fd_write"}
(* out[nevents++] = ... for i in order: each i adds none, one or more.  *)
Appended(f) == FlattenSeq([i \in Idx |-> f[i]])

-----------------------------------------------------------------------------
(* The scan, under rwlock_rdlock(&ft->lock).                               *)

(* fd_object_get_locked(POLL_FD_READWRITE) for subscription i.            *)
Lookup(i) ==
    IF subs[i].fd \notin Slots \/ entries[subs[i].fd] = NoObj THEN "EBADF"
    ELSE IF ~CanPoll[subs[i].fd] THEN "ENOTCAPABLE"
    ELSE "none"

(* The first relative clock subscription becomes clock_subscription.      *)
IsTimer(i) ==
    LET Rel(j) == subs[j].type = "clock" /\ ~subs[j].abstime
    IN Rel(i) /\ \A j \in 1 .. i - 1 : ~Rel(j)

Polled(i) == IsFd(i) /\ Lookup(i) = "none"

(* The immediate events of subscription i: none or one.                  *)
ScanEvent(i) ==
    IF IsFd(i) THEN IF Lookup(i) = "none" THEN <<>> ELSE <<Ev(i, Lookup(i), FALSE)>>
    ELSE IF IsTimer(i) THEN <<>>
    ELSE <<Ev(i, "ENOSYS", FALSE)>>

(* Fault variant: no INT_MAX test on the millisecond value.             *)
TimeoutUnclamped(nev, tm) ==
    IF nev # 0 THEN 0 ELSE IF tm = 0 THEN -1 ELSE subs[tm].timeout \div Million

(* Fault variant: events already queued do not make the timeout zero.    *)
TimeoutIgnoresQueued(nev, tm) ==
    IF tm = 0 THEN -1
    ELSE IF subs[tm].timeout \div Million > IntMax THEN -1
    ELSE subs[tm].timeout \div Million

(* Zero if events are already queued, -1 without a timer, else the timer *)
(* in milliseconds, or -1 if that exceeds INT_MAX.                        *)
PollTimeout(nev, tm) ==
    IF nev # 0 THEN 0
    ELSE IF tm = 0 THEN -1
    ELSE IF subs[tm].timeout \div Million > IntMax THEN -1
    ELSE subs[tm].timeout \div Million

(* Releasing k references to o; the last one closes the descriptor.       *)
Drop(o, k) == refcount[o] - k
ReleaseAll(holds) ==
    /\ refcount' = [o \in Obj |-> Drop(o, holds[o])]
    /\ closed' = [o \in Obj |-> closed[o] \/ (holds[o] > 0 /\ Drop(o, holds[o]) = 0)]

Init ==
    /\ subs \in Inputs
    /\ pc = "start"
    /\ fos = <<>> /\ pfds = <<>> /\ revents = <<>> /\ out = <<>>
    /\ timer = 0 /\ timeout = 0 /\ ret = 0 /\ error = "none"
    /\ entries = Table0
    /\ refcount = [o \in Obj |-> Cardinality({s \in Slots : Table0[s] = o})]
    /\ closed = [o \in Obj |-> FALSE]
    /\ waited = 0

(* nsubscriptions == 1 and a clock: clock_nanosleep(), one event echoing  *)
(* the subscription; ENOTSUP for a clock convert_clockid() rejects, the  *)
(* sleep's error (EINTR) if it is interrupted.                            *)
sleep ==
    /\ pc = "start" /\ N = 1 /\ subs[1].type = "clock"
    /\ \E err \in IF subs[1].clockOk THEN {"none", "EINTR"} ELSE {"ENOTSUP"} :
          out' = <<Ev(1, err, FALSE)>>
    /\ pc' = "done"
    /\ UNCHANGED <<subs, fos, pfds, revents, timer, timeout, ret, error,
                   entries, refcount, closed, waited>>

(* Fault variant: the scan keeps the object without refcount_acquire().  *)
ScanNoAcquire ==
    /\ pc = "start" /\ ~(N = 1 /\ subs[1].type = "clock")
    /\ LET f == [i \in Idx |-> IF Polled(i) THEN entries[subs[i].fd] ELSE NoObj]
           tm == IF \E i \in Idx : IsTimer(i) THEN CHOOSE i \in Idx : IsTimer(i) ELSE 0
           imm == Appended([i \in Idx |-> ScanEvent(i)])
       IN /\ fos' = f
          /\ pfds' = [i \in Idx |-> IF f[i] = NoObj THEN -1 ELSE Number[f[i]]]
          /\ out' = imm /\ timer' = tm /\ timeout' = PollTimeout(Len(imm), tm)
    /\ pc' = "poll"
    /\ UNCHANGED <<subs, revents, ret, error, entries, refcount, closed, waited>>

(* Either malloc() fails (ENOMEM, the first array freed), or the scan     *)
(* takes a reference per pollable descriptor and queues the immediate     *)
(* events in subscription order; then the timeout is computed.           *)
scan ==
    /\ pc = "start" /\ ~(N = 1 /\ subs[1].type = "clock")
    /\ \/ /\ pc' = "done" /\ error' = "ENOMEM"
          /\ UNCHANGED <<fos, pfds, out, timer, timeout, refcount, closed, waited>>
       \/ LET f == [i \in Idx |-> IF Polled(i) THEN entries[subs[i].fd] ELSE NoObj]
              tm == IF \E i \in Idx : IsTimer(i)
                    THEN CHOOSE i \in Idx : IsTimer(i) ELSE 0
              imm == Appended([i \in Idx |-> ScanEvent(i)])
          IN /\ fos' = f
             /\ pfds' = [i \in Idx |-> IF f[i] = NoObj THEN -1 ELSE Number[f[i]]]
             /\ refcount' = [o \in Obj |->
                               refcount[o] + Cardinality({i \in Idx : f[i] = o})]
             /\ out' = imm
             /\ timer' = tm
             /\ timeout' = PollTimeout(Len(imm), tm)
             /\ pc' = "poll"
             /\ UNCHANGED <<error, closed, waited>>
    /\ UNCHANGED <<subs, revents, ret, entries>>

-----------------------------------------------------------------------------
(* The host's poll(pfds, nsubscriptions, timeout).  Descriptors with fd   *)
(* -1 are ignored; "nval" is reported only for a descriptor that is no    *)
(* longer open.  A timeout waits at least the milliseconds asked for.     *)

Possible(i) ==
    IF pfds[i] < 0 THEN {{}}
    ELSE IF closed[fos[i]] THEN {{"nval"}}
    ELSE {{"ready"}, {"hup"}, {"hup", "ready"}, {"err"}, {"err", "hup"}, {}}

poll_ready ==
    /\ pc = "poll"
    /\ \E rv \in [Idx -> SUBSET Revent] :
          /\ \A i \in Idx : rv[i] \in Possible(i)
          /\ \E i \in Idx : rv[i] # {}
          /\ revents' = rv
          /\ ret' = Cardinality({i \in Idx : rv[i] # {}})
    /\ pc' = "collect"
    /\ UNCHANGED <<subs, fos, pfds, out, timer, timeout, error, entries,
                   refcount, closed, waited>>

poll_timeout ==
    /\ pc = "poll" /\ timeout >= 0
    /\ revents' = [i \in Idx |-> {}]
    /\ ret' = 0
    /\ waited' = timeout * Million
    /\ pc' = "collect"
    /\ UNCHANGED <<subs, fos, pfds, out, timer, timeout, error, entries,
                   refcount, closed>>

poll_interrupted ==
    /\ pc = "poll"
    /\ revents' = [i \in Idx |-> {}]
    /\ ret' = -1
    /\ pc' = "collect"
    /\ UNCHANGED <<subs, fos, pfds, out, timer, timeout, error, entries,
                   refcount, closed, waited>>

(* Fault variant: each revents bit tested by an if of its own.          *)
PollEventUnchained(i) ==
    IF pfds[i] < 0 THEN <<>>
    ELSE (IF "nval" \in revents[i] THEN <<Ev(i, "EBADF", FALSE)>> ELSE <<>>)
         \o (IF "err" \in revents[i] THEN <<Ev(i, "EIO", FALSE)>> ELSE <<>>)
         \o (IF "hup" \in revents[i] THEN <<Ev(i, "none", TRUE)>> ELSE <<>>)
         \o (IF "ready" \in revents[i] THEN <<Ev(i, "none", FALSE)>> ELSE <<>>)

(* Fault variant: the collect loop takes pfds[i].fd > 0 for "polled",    *)
(* which drops host descriptor 0.                                        *)
PollEventSkipsZero(i) ==
    IF pfds[i] <= 0 THEN <<>>
    ELSE IF "nval" \in revents[i] THEN <<Ev(i, "EBADF", FALSE)>>
    ELSE IF "err" \in revents[i] THEN <<Ev(i, "EIO", FALSE)>>
    ELSE IF "hup" \in revents[i] THEN <<Ev(i, "none", TRUE)>>
    ELSE IF "ready" \in revents[i] THEN <<Ev(i, "none", FALSE)>>
    ELSE <<>>

(* The events for a polled descriptor: one for the first of POLLNVAL,    *)
(* POLLERR, POLLHUP, POLLRDNORM|POLLWRNORM in revents, or none.           *)
PollEvent(i) ==
    IF pfds[i] < 0 THEN <<>>
    ELSE IF "nval" \in revents[i] THEN <<Ev(i, "EBADF", FALSE)>>
    ELSE IF "err" \in revents[i] THEN <<Ev(i, "EIO", FALSE)>>
    ELSE IF "hup" \in revents[i] THEN <<Ev(i, "none", TRUE)>>
    ELSE IF "ready" \in revents[i] THEN <<Ev(i, "none", FALSE)>>
    ELSE <<>>

(* After poll(): its error, or the clock event if nothing fired at all,  *)
(* or one event per descriptor with revents, in subscription order.      *)
collect ==
    /\ pc = "collect"
    /\ IF ret = -1
       THEN /\ error' = "EINTR" /\ UNCHANGED out
       ELSE IF ret = 0 /\ out = <<>> /\ timer # 0
       THEN /\ out' = <<Ev(timer, "none", FALSE)>> /\ UNCHANGED error
       ELSE /\ out' = out \o Appended([i \in Idx |-> PollEvent(i)])
            /\ UNCHANGED error
    /\ pc' = "release"
    /\ UNCHANGED <<subs, fos, pfds, revents, timer, timeout, ret, entries,
                   refcount, closed, waited>>

(* Fault variant: an error from poll() returns before the releases.     *)
ReleaseSkippedOnError ==
    /\ pc = "release"
    /\ IF ret = -1 THEN UNCHANGED <<refcount, closed>>
       ELSE ReleaseAll([o \in Obj |-> Cardinality({i \in Idx : fos[i] = o})])
    /\ pc' = "done"
    /\ UNCHANGED <<subs, fos, pfds, revents, out, timer, timeout, ret, error,
                   entries, waited>>

(* fd_object_release() of every reference the scan took.                 *)
release ==
    /\ pc = "release"
    /\ ReleaseAll([o \in Obj |-> Cardinality({i \in Idx : fos[i] = o})])
    /\ pc' = "done"
    /\ UNCHANGED <<subs, fos, pfds, revents, out, timer, timeout, ret, error,
                   entries, waited>>

-----------------------------------------------------------------------------
(* Another thread: sys_fd_close() on a slot, not while the scan holds the *)
(* read lock (the scan is atomic).                                        *)
close_slot ==
    /\ \E s \in Slots :
          /\ entries[s] # NoObj
          /\ entries' = [entries EXCEPT ![s] = NoObj]
          /\ ReleaseAll([o \in Obj |-> IF o = entries[s] THEN 1 ELSE 0])
    /\ UNCHANGED <<subs, pc, fos, pfds, revents, out, timer, timeout, ret,
                   error, waited>>

(* The call has returned; a poll with nothing to wait for and no timeout *)
(* (nsubscriptions == 0) stays in poll() for ever.                        *)
Finished ==
    /\ \/ pc = "done"
       \/ pc = "poll" /\ timeout = -1 /\ \A i \in Idx : pfds[i] < 0
    /\ UNCHANGED vars

Poller == sleep \/ scan \/ poll_timeout \/ collect \/ release

Next ==
    \/ Poller \/ poll_ready \/ poll_interrupted \/ close_slot
    \/ Finished

(* The polling thread keeps running, and the host's poll() returns when  *)
(* its timeout expires.  Readiness, signals and the closing thread are   *)
(* the environment's choice: no fairness.                                 *)
Spec == Init /\ [][Next]_vars /\ WF_vars(Poller)

-----------------------------------------------------------------------------
(* Properties.                                                            *)

TypeOK ==
    /\ subs \in Seq(Sub)
    /\ pc \in {"start", "poll", "collect", "release", "done"}
    /\ out \in Seq(Event)
    /\ timer \in 0 .. N
    /\ timeout \in -1 .. IntMax
    /\ entries \in [Slots -> Obj \cup {NoObj}]
    /\ refcount \in [Obj -> Nat]
    /\ closed \in [Obj -> BOOLEAN]

(* While the thread is in poll() and reads the results, every descriptor *)
(* it polls is still open, whatever sys_fd_close() does to the slots     *)
(* meanwhile: the scan's references keep them alive.                      *)
PolledDescriptorOpen ==
    pc \in {"poll", "collect"} =>
       \A i \in Idx : fos[i] # NoObj => ~closed[fos[i]]

(* When sys_poll() has returned, every reference it took is released:    *)
(* each object's count is again the slots pointing at it, and a          *)
(* descriptor is closed exactly when nothing refers to it any more.       *)
NoReferenceLeak ==
    pc = "done" =>
       \A o \in Obj :
          /\ refcount[o] = Cardinality({s \in Slots : entries[s] = o})
          /\ closed[o] <=> refcount[o] = 0

(* No subscription is reported twice: immediate errors, descriptor events *)
(* and the clock event never overlap, and each set of revents gives one  *)
(* event, so nevents never exceeds nsubscriptions.                        *)
OneEventPerSubscription ==
    /\ \A j \in 1 .. Len(out) : out[j].ud \in Idx
    /\ \A j, k \in 1 .. Len(out) : j # k => out[j].ud # out[k].ud

(* A successful return always reports at least one event: the caller    *)
(* never gets nevents == 0 without an error, whichever descriptors,       *)
(* host numbers included, fired.                                          *)
ReturnReportsEvent ==
    pc = "done" /\ error = "none" => Len(out) > 0

(* A poll in which some subscription failed at once returns, whatever    *)
(* the descriptors and the other subscriptions do.                        *)
ImmediateErrorsReturn == (pc = "poll" /\ out # <<>>) ~> (pc = "done")

(* A poll with a relative clock subscription returns, at the latest when *)
(* the clock expires (spec: the timeout is clamped to poll's range).      *)
TimedPollReturns == (pc = "poll" /\ timer # 0) ~> (pc = "done")

(* The clock event of a relative clock subscription is reported only     *)
(* after its timeout has elapsed: sys_poll sleeps at least the requested  *)
(* nanoseconds before it returns the clock subscription's event.          *)
ClockEventNotEarly ==
    (pc = "done" /\ timer # 0 /\ \E j \in 1 .. Len(out) : out[j].ud = timer)
       => waited >= subs[timer].timeout

=============================================================================
