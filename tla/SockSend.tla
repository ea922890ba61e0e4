------------------------------ MODULE SockSend ------------------------------
(***************************************************************************)
(* sys_sock_send() of src/libemulator/posix.c with descriptors attached:  *)
(* the control buffer and fos[] allocations, the loop under the table's   *)
(* read lock that takes a reference on each descriptor and writes its     *)
(* host number into the SCM_RIGHTS message, the lookup of the socket,     *)
(* sendmsg(), and the release of every reference at out:.  Another        *)
(* thread may sys_fd_close() any slot whenever the table is not locked.   *)
(*                                                                         *)
(* Objects in the table always have a host number (fd_table_attach runs   *)
(* after it is set), so the fos[i]->number < 0 test never fires and is    *)
(* left out.  The socket's own reference follows fd_object_get's pattern  *)
(* (FdTable) and is not counted here.                                     *)
(***************************************************************************)
EXTENDS Integers, Sequences, FiniteSets

CONSTANTS
    Slots,     \* the table's slots
    Obj,       \* descriptor objects
    NoObj,     \* an empty slot
    Table0,    \* [Slots -> Obj \cup {NoObj}]: the table when the call starts
    Vecs       \* in->si_fds vectors the guest passes (any descriptor numbers)

VARIABLES
    vec,       \* in->si_fds
    pc,        \* "alloc", "acquire", "sock", "send", "release", "done"
    fos,       \* fos[0 .. nfos - 1]
    entries,   \* the table's slots
    refcount,  \* per object
    closed,    \* per object: its host descriptor has been closed
    error,     \* the error the call returns
    stale      \* ghost: sendmsg() passed a descriptor that was closed

vars == <<vec, pc, fos, entries, refcount, closed, error, stale>>

Counts(s) == [o \in Obj |-> Cardinality({i \in DOMAIN s : s[i] = o})]

(* fd_table_get_entry(): EBADF for a number past the table or a free slot.*)
Valid(fd) == fd \in Slots /\ entries[fd] # NoObj

(* Releasing holds[o] references to each o; the last one closes it.       *)
ReleaseAll(holds) ==
    /\ refcount' = [o \in Obj |-> refcount[o] - holds[o]]
    /\ closed' = [o \in Obj |-> closed[o] \/ (holds[o] > 0 /\ refcount[o] = holds[o])]

Init ==
    /\ vec \in Vecs
    /\ pc = "alloc"
    /\ fos = <<>>
    /\ entries = Table0
    /\ refcount = Counts([s \in Slots |-> Table0[s]])
    /\ closed = [o \in Obj |-> FALSE]
    /\ error = "none"
    /\ stale = FALSE

(* calloc() of the control message and malloc() of fos[], if descriptors *)
(* are attached; either failing returns ENOMEM before any reference.     *)
send_alloc ==
    /\ pc = "alloc"
    /\ \/ Len(vec) = 0 /\ pc' = "sock" /\ UNCHANGED error
       \/ Len(vec) > 0 /\ pc' = "acquire" /\ UNCHANGED error
       \/ Len(vec) > 0 /\ pc' = "done" /\ error' = "ENOMEM"
    /\ UNCHANGED <<vec, fos, entries, refcount, closed, stale>>

(* The loop's lookups: the first bad number in si_fds, if any, and the  *)
(* objects of the numbers before it.                                      *)
Bad == {i \in DOMAIN vec : ~Valid(vec[i])}
Nfos == IF Bad = {} THEN Len(vec) ELSE (CHOOSE i \in Bad : \A j \in Bad : i <= j) - 1
Got == [i \in 1 .. Nfos |-> entries[vec[i]]]
AcquireExit == IF Bad = {} THEN pc' = "sock" /\ UNCHANGED error
               ELSE pc' = "release" /\ error' = "EBADF"

(* Fault variant: nfos is set only once the whole vector is looked up.   *)
AcquireCountsOnSuccess ==
    /\ pc = "acquire"
    /\ fos' = IF Bad = {} THEN Got ELSE <<>>
    /\ refcount' = [o \in Obj |-> refcount[o] + Counts(Got)[o]]
    /\ AcquireExit
    /\ UNCHANGED <<vec, entries, closed, stale>>

(* Fault variant: the loop keeps fos[i] without refcount_acquire().      *)
AcquireNoRef ==
    /\ pc = "acquire"
    /\ fos' = Got
    /\ AcquireExit
    /\ UNCHANGED <<vec, entries, refcount, closed, stale>>

(* Under rwlock_rdlock(&ft->lock): fd_object_get_locked() on each number  *)
(* in order, nfos = i + 1 after each success; the first bad number       *)
(* unlocks and goes to out: with EBADF, keeping the references so far.   *)
send_acquire ==
    /\ pc = "acquire"
    /\ fos' = Got
    /\ refcount' = [o \in Obj |-> refcount[o] + Counts(Got)[o]]
    /\ AcquireExit
    /\ UNCHANGED <<vec, entries, closed, stale>>

(* fd_object_get(sock, FD_WRITE); failing goes to out:.                  *)
send_sock ==
    /\ pc = "sock"
    /\ \/ \E err \in {"EBADF", "ENOTCAPABLE"} : pc' = "release" /\ error' = err
       \/ pc' = "send" /\ UNCHANGED error
    /\ UNCHANGED <<vec, fos, entries, refcount, closed, stale>>

(* sendmsg() with the host numbers written under the lock; it succeeds or *)
(* fails (EPIPE), then out:.                                              *)
sendmsg ==
    /\ pc = "send"
    /\ stale' = \E i \in DOMAIN fos : closed[fos[i]]
    /\ error' \in {"none", "EPIPE"}
    /\ pc' = "release"
    /\ UNCHANGED <<vec, fos, entries, refcount, closed>>

(* out: fd_object_release(fos[i]) for i < nfos, free, return.           *)
send_release ==
    /\ pc = "release"
    /\ ReleaseAll(Counts(fos))
    /\ pc' = "done"
    /\ UNCHANGED <<vec, fos, entries, error, stale>>

(* Another thread: sys_fd_close() on a slot, not while the table is read *)
(* locked by the loop (send_acquire is one step).                         *)
close_slot ==
    /\ \E s \in Slots :
          /\ entries[s] # NoObj
          /\ entries' = [entries EXCEPT ![s] = NoObj]
          /\ ReleaseAll([o \in Obj |-> IF o = entries[s] THEN 1 ELSE 0])
    /\ UNCHANGED <<vec, pc, fos, error, stale>>

Finished ==
    /\ pc = "done"
    /\ UNCHANGED vars

Next == send_alloc \/ send_acquire \/ send_sock \/ sendmsg \/ send_release
        \/ close_slot \/ Finished

Spec == Init /\ [][Next]_vars
-----------------------------------------------------------------------------
(* Every descriptor sendmsg() passes is still open when it runs, however  *)
(* the other thread closes the slots between the unlock and the send: the *)
(* references taken under the lock keep the host descriptors alive.       *)
SentDescriptorsOpen == ~stale

(* When sys_sock_send() returns, on success or any error path, every       *)
(* reference it took is released: each object's count is again the slots *)
(* holding it, and it is closed exactly when none does.                   *)
NoReferenceLeak ==
    pc = "done" =>
       \A o \in Obj :
          /\ refcount[o] = Counts([s \in Slots |-> entries[s]])[o]
          /\ closed[o] <=> refcount[o] = 0
=============================================================================
