----------------------------- MODULE Descriptors -----------------------------
(***************************************************************************)
(* Three system calls of src/libemulator/posix.c running in three guest    *)
(* threads on one descriptor table, with a fourth thread closing slots:   *)
(* sys_poll() (Poll), sys_sock_send() (SockSend) and sys_sock_recv()      *)
(* (SockRecv).  They share the table's slots, the objects' reference      *)
(* counts and the host descriptors' open state; each keeps its own        *)
(* program counter and locals.  The closing thread is sys_fd_close(),     *)
(* the same action in all three modules.                                  *)
(*                                                                         *)
(* sys_sock_recv() inserts what it receives into free slots, which        *)
(* sys_poll() and sys_sock_send() may then name, and the closing thread   *)
(* may close; references taken by one call must survive the others.       *)
(***************************************************************************)
EXTENDS Integers, Sequences, FiniteSets

CONSTANTS
    Slots, Handles, Obj, NoObj, Number, Table0, CanPoll,  \* the table
    Inputs, Million, IntMax,                               \* sys_poll
    Vecs,                                                  \* sys_sock_send
    IntSize, CmsgHdr, CmsgAlign, FdsLens, Queued           \* sys_sock_recv

VARIABLES
    entries, refcount, closed,                             \* shared
    subs, ppc, pfos, pfds, revents, out, timer, timeout, pret, perror,
    waited,                                                \* sys_poll
    vec, spc, sfos, serror, stale,                         \* sys_sock_send
    fdsLen, queued, rpc, delivered, fdslen, written, rret,
    reclosed                                               \* sys_sock_recv

table == <<entries, refcount, closed>>
pvars == <<subs, ppc, pfos, pfds, revents, out, timer, timeout, pret, perror,
           waited>>
svars == <<vec, spc, sfos, serror, stale>>
rvars == <<fdsLen, queued, rpc, delivered, fdslen, written, rret>>
vars == <<table, pvars, svars, rvars, reclosed>>

PollCall == INSTANCE Poll
                WITH pc <- ppc, fos <- pfos, ret <- pret, error <- perror
SendCall == INSTANCE SockSend WITH pc <- spc, fos <- sfos, error <- serror
RecvCall == INSTANCE SockRecv WITH pc <- rpc, ret <- rret

Init == PollCall!Init /\ SendCall!Init /\ RecvCall!Init

(* A step of one thread leaves the others' locals alone; only            *)
(* sys_sock_recv() closes with its ghost of closes.                      *)
PollStep(A) == A /\ UNCHANGED <<svars, rvars, reclosed>>
SendStep(A) == A /\ UNCHANGED <<pvars, rvars, reclosed>>
RecvStep(A) == A /\ UNCHANGED <<pvars, svars>>

Poller == PollStep(PollCall!Poller)

(* All three calls have returned, or poll() waits for ever on nothing.    *)
Returned ==
    /\ \/ ppc = "done"
       \/ ppc = "poll" /\ timeout = -1 /\ \A i \in 1 .. Len(subs) : pfds[i] < 0
    /\ spc = "done" /\ rpc = "done"
    /\ UNCHANGED vars

Next ==
    \/ Poller
    \/ PollStep(PollCall!poll_ready \/ PollCall!poll_interrupted)
    \/ SendStep(SendCall!send_alloc \/ SendCall!send_acquire
                \/ SendCall!send_sock \/ SendCall!sendmsg
                \/ SendCall!send_release)
    \/ RecvStep(RecvCall!recv_alloc \/ RecvCall!recv_get
                \/ RecvCall!recvmsg \/ RecvCall!install
                \/ RecvCall!recv_done)
    \/ PollStep(PollCall!close_slot)
    \/ Returned

(* As in Poll: only the polling thread's own steps are fair.             *)
Spec == Init /\ [][Next]_vars /\ WF_vars(Poller)

-----------------------------------------------------------------------------
(* Properties.                                                            *)

(* The poller's state, the table and the counts keep their types.       *)
TypeOK == PollCall!TypeOK

(* The references on each object are exactly its slots plus those that   *)
(* sys_poll() and sys_sock_send() hold between their lookups and their   *)
(* releases, whatever the closing thread and sys_sock_recv()'s inserts   *)
(* do meanwhile; a closed host descriptor has none left.                 *)
ReferencesCounted ==
    \A o \in Obj :
       /\ refcount[o] =
            Cardinality({s \in Slots : entries[s] = o})
            + (IF ppc \in {"poll", "collect", "release"}
               THEN Cardinality({i \in DOMAIN pfos : pfos[i] = o}) ELSE 0)
            + (IF spc \in {"sock", "send", "release"}
               THEN SendCall!Counts(sfos)[o] ELSE 0)
       /\ closed[o] => refcount[o] = 0

(* sys_poll() polls only open descriptors, descriptors sys_sock_recv()   *)
(* has just inserted included, while other threads close slots.          *)
PolledDescriptorOpen == PollCall!PolledDescriptorOpen

(* sys_poll() reports each subscription at most once.                    *)
OneEventPerSubscription == PollCall!OneEventPerSubscription

(* A successful sys_poll() reports an event.                             *)
ReturnReportsEvent == PollCall!ReturnReportsEvent

(* A sys_poll() with an immediate error returns, whatever the other      *)
(* threads do.                                                            *)
ImmediateErrorsReturn == PollCall!ImmediateErrorsReturn

(* sys_sock_send() passes only open descriptors to sendmsg(), while the  *)
(* closing thread closes slots and sys_sock_recv() refills them.         *)
SentDescriptorsOpen == SendCall!SentDescriptorsOpen

(* Every descriptor sys_sock_recv() received is in the table or closed   *)
(* once it has returned, even when the other threads race for the slots *)
(* and close them.                                                        *)
NoDescriptorLeak == RecvCall!NoDescriptorLeak
=============================================================================
