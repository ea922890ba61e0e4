------------------------------ MODULE Readdir ------------------------------
(***************************************************************************)
(* The directory cursor of sys_file_readdir() in src/libemulator/posix.c: *)
(* the DIR stream opened lazily on the object, the cached offset           *)
(* fo->directory.offset, the rewind or seek when the guest's cookie        *)
(* differs from it, and the loop that reads entries and packs records     *)
(* into the guest's buffer with file_readdir_put().                       *)
(*                                                                         *)
(* The directory holds the entries 1 .. K in the host's order, unchanged. *)
(* The DIR stream's position is how many entries it has returned, and     *)
(* telldir() at position p is the host cookie Cookie[p].  A call holds    *)
(* fo->directory.lock throughout (FdTable models that lock), so a call is *)
(* one step here.  Guest threads share the descriptor; each lists the     *)
(* directory the way a CloudABI program does: start at                    *)
(* CLOUDABI_DIRCOOKIE_START, keep the complete records, continue from the *)
(* last complete record's d_next, and stop at a buffer that is not full.  *)
(***************************************************************************)
EXTENDS Integers, Sequences, FiniteSets

CONSTANTS
    Threads,     \* guest threads listing the directory
    K,           \* number of directory entries
    RecSize,     \* [1 .. K -> Nat]: sizeof(cloudabi_dirent_t) + d_namlen
    Cookie,      \* [1 .. K -> Nat]: telldir() after entry p
    START,       \* CLOUDABI_DIRCOOKIE_START
    NBytes,      \* buffer sizes the guest passes
    HostErrors   \* whether the host's readdir() may fail with an error

ASSUME /\ K \in Nat /\ RecSize \in [1 .. K -> Nat \ {0}]
       /\ \A p, q \in 1 .. K : Cookie[p] = Cookie[q] => p = q
       /\ START \notin {Cookie[p] : p \in 1 .. K}
       /\ NBytes \subseteq Nat \ {0}   \* nbyte = 0 skips the loop
       /\ HostErrors \in BOOLEAN

VARIABLES
    handle,   \* fo->directory.handle # NULL
    pos,      \* the DIR stream's position
    offset,   \* fo->directory.offset
    cookie,   \* per guest thread: the cookie of its next call
    got,      \* per guest thread: the entries it has listed so far
    gstate    \* per guest thread: "run", "eof" or "error"

vars == <<handle, pos, offset, cookie, got, gstate>>

(* Bytes of the records of entries 1 .. p. *)
RECURSIVE SizeUpTo(_)
SizeUpTo(p) == IF p = 0 THEN 0 ELSE SizeUpTo(p - 1) + RecSize[p]

(* seekdir() to a cookie telldir() gave. *)
PosOf(c) == CHOOSE p \in 1 .. K : Cookie[p] = c

(* file_readdir_put() of the records of entries from + 1 .. to: each is   *)
(* cut at the end of the buffer, so bufused is the smaller of the two.    *)
BufUsed(from, to, nbyte) ==
    IF SizeUpTo(to) - SizeUpTo(from) < nbyte THEN SizeUpTo(to) - SizeUpTo(from)
    ELSE nbyte

(* The position the call starts reading at: the cached one if the cookie *)
(* matches, the start for CLOUDABI_DIRCOOKIE_START, else seekdir().      *)
Seek(p, off, c) ==
    IF off = c THEN p ELSE IF c = START THEN 0 ELSE PosOf(c)

(* Fault variant: d_next taken before readdir() moves the stream.       *)
DNextBeforeRead(j) == IF j = 1 THEN START ELSE Cookie[j - 1]

(* .d_next = telldir() after readdir() returned entry j. *)
DNext(j) == Cookie[j]

(* The guest takes the records wholly inside bufused, in order, and goes  *)
(* on from the d_next of the last; a buffer that is not full is the end.  *)
Consume(t, from, to, used, nbyte) ==
    LET whole == {j \in from + 1 .. to : SizeUpTo(j) - SizeUpTo(from) <= used}
        last == from + Cardinality(whole)
    IN /\ got' = [got EXCEPT ![t] = @ \o [i \in 1 .. last - from |-> from + i]]
       /\ cookie' = [cookie EXCEPT ![t] = IF last > from THEN DNext(last) ELSE @]
       /\ gstate' = [gstate EXCEPT ![t] = IF used < nbyte THEN "eof" ELSE "run"]

Init ==
    /\ handle = FALSE
    /\ pos = 0
    /\ offset = START
    /\ cookie = [t \in Threads |-> START]
    /\ got = [t \in Threads |-> <<>>]
    /\ gstate = [t \in Threads |-> "run"]

(* sys_file_readdir(fd, buf, nbyte, cookie, &bufused) by guest thread t. *)
(* fdopendir() may fail; then the stream is positioned, and readdir()     *)
(* is called until it returns NULL: at the end, or (HostErrors) with an   *)
(* error after entry stop.  The loop runs on while the buffer is full;   *)
(* the offset is the telldir() of the last entry returned.  An error is  *)
(* reported only if nothing was copied.                                   *)
file_readdir(t) ==
    /\ gstate[t] = "run"
    /\ \/ /\ ~handle
          /\ gstate' = [gstate EXCEPT ![t] = "error"]
          /\ UNCHANGED <<handle, pos, offset, cookie, got>>
       \/ /\ handle' = TRUE
          /\ LET p0 == IF handle THEN pos ELSE 0
                 off0 == IF handle THEN offset ELSE START
                 from == Seek(p0, off0, cookie[t])
             IN \E nbyte \in NBytes,
                   stop \in IF HostErrors THEN from .. K ELSE {K} :
                   LET used == BufUsed(from, stop, nbyte) IN
                   /\ pos' = stop
                   /\ offset' = IF stop > from THEN Cookie[stop] ELSE cookie[t]
                   /\ IF stop < K /\ used = 0
                      THEN /\ gstate' = [gstate EXCEPT ![t] = "error"]
                           /\ UNCHANGED <<cookie, got>>
                      ELSE Consume(t, from, stop, used, nbyte)

(* The guest starts over from CLOUDABI_DIRCOOKIE_START (rewinddir()).    *)
rewind(t) ==
    /\ gstate[t] # "run"
    /\ cookie' = [cookie EXCEPT ![t] = START]
    /\ got' = [got EXCEPT ![t] = <<>>]
    /\ gstate' = [gstate EXCEPT ![t] = "run"]
    /\ UNCHANGED <<handle, pos, offset>>

Next == \E t \in Threads : file_readdir(t) \/ rewind(t)

Spec == Init /\ [][Next]_vars

-----------------------------------------------------------------------------
Listing == [i \in 1 .. K |-> i]

(* Whatever the other threads do to the shared stream and its cached      *)
(* offset, and however records are cut at the end of a buffer, each       *)
(* thread lists the entries in order, none twice, and a listing that      *)
(* reached the end of the directory without an error has every entry.     *)
ListingComplete ==
    \A t \in Threads :
        /\ Len(got[t]) <= K /\ got[t] = SubSeq(Listing, 1, Len(got[t]))
        /\ gstate[t] = "eof" => got[t] = Listing
=============================================================================
