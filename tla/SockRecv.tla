------------------------------ MODULE SockRecv ------------------------------
(***************************************************************************)
(* sys_sock_recv() of src/libemulator/posix.c and the descriptors it      *)
(* receives: the control buffer sized with CMSG_SPACE() for the guest's   *)
(* ri_fds_len descriptors, the host's recvmsg() delivering as many        *)
(* SCM_RIGHTS descriptors as fit in it (and closing the rest), and the   *)
(* loop that installs each one with fd_determine_type_rights() and        *)
(* fd_table_insert_fd(), or closes it and stores -1.                      *)
(*                                                                         *)
(* A received host descriptor is an object of Obj that is in no slot yet; *)
(* installing it puts it in a free slot of the table with one reference.  *)
(* The table does not grow past Slots: with no free slot, fd_table_grow() *)
(* stands for a failed realloc().                                          *)
(*                                                                         *)
(* Sizes are in bytes as on the host: an int is IntSize bytes, the        *)
(* cmsghdr CmsgHdr bytes, and CMSG_ALIGN rounds up to CmsgAlign.  The     *)
(* peer's queued descriptors are the objects they will become.           *)
(***************************************************************************)
EXTENDS Integers, Sequences, FiniteSets

CONSTANTS
    IntSize,     \* sizeof(int)
    CmsgHdr,     \* sizeof(struct cmsghdr), already aligned
    CmsgAlign,   \* the alignment of CMSG_ALIGN
    FdsLens,     \* ri_fds_len values the guest passes
    Queued,      \* descriptor sequences the peer may have sent
    Slots,       \* the table's slots
    Obj,         \* descriptor objects, received ones included
    NoObj,       \* an empty slot
    Table0       \* [Slots -> Obj \cup {NoObj}]: the table at the start

ASSUME /\ IntSize > 0 /\ CmsgAlign > 0 /\ CmsgHdr % CmsgAlign = 0
       /\ \A q \in Queued : q \in Seq(Obj)

VARIABLES
    fdsLen,     \* in->ri_fds_len
    queued,     \* what the peer sent with the message
    pc,         \* "alloc", "get", "recv", "install", "done"
    delivered,  \* the descriptors recvmsg() put in the control buffer
    fdslen,     \* the loop's fdslen: slots of in->ri_fds written
    written,    \* the indices of in->ri_fds written
    ret,        \* the returned error
    entries,    \* the table's slots
    refcount,   \* per object
    closed,     \* per object: its host descriptor has been closed
    reclosed    \* ghost: close() was called on a closed descriptor

vars == <<fdsLen, queued, pc, delivered, fdslen, written, ret, entries,
          refcount, closed, reclosed>>
tvars == <<entries, refcount, closed, reclosed>>

AlignUp(n) == ((n + CmsgAlign - 1) \div CmsgAlign) * CmsgAlign
CMSG_SPACE(l) == CmsgHdr + AlignUp(l)
CMSG_LEN(l) == CmsgHdr + l

(* Fault variant: one descriptor more than asked for in the buffer size. *)
ControlLenPlusOne(n) == CMSG_SPACE((n + 1) * IntSize)

(* hdr.msg_controllen = CMSG_SPACE(in->ri_fds_len * sizeof(int)).        *)
ControlLen(n) == CMSG_SPACE(n * IntSize)

(* How many descriptors the host puts in a control buffer of len bytes:  *)
(* as many ints as fit after the header.                                  *)
Fits(len) == (len - CMSG_LEN(0)) \div IntSize

Init ==
    /\ fdsLen \in FdsLens
    /\ queued \in Queued
    /\ pc = "alloc"
    /\ delivered = <<>>
    /\ fdslen = 0
    /\ written = {}
    /\ ret = "none"
    /\ entries = Table0
    /\ refcount = [o \in Obj |-> Cardinality({s \in Slots : Table0[s] = o})]
    /\ closed = [o \in Obj |-> FALSE]
    /\ reclosed = FALSE

(* close() of the host descriptors of the objects in S.                   *)
Close(S) ==
    /\ closed' = [o \in Obj |-> closed[o] \/ o \in S]
    /\ reclosed' = (reclosed \/ \E o \in S : closed[o])

Finish(err) == pc' = "done" /\ ret' = err

(* malloc() of the control buffer, only if descriptors are wanted.       *)
recv_alloc ==
    /\ pc = "alloc"
    /\ \/ fdsLen > 0 /\ Finish("ENOMEM")
       \/ pc' = "get" /\ UNCHANGED ret
    /\ UNCHANGED <<fdsLen, queued, delivered, fdslen, written>> /\ UNCHANGED tvars

(* fd_object_get(sock, FD_READ): EBADF or ENOTCAPABLE frees and returns.  *)
recv_get ==
    /\ pc = "get"
    /\ \/ \E err \in {"EBADF", "ENOTCAPABLE"} : Finish(err)
       \/ pc' = "recv" /\ UNCHANGED ret
    /\ UNCHANGED <<fdsLen, queued, delivered, fdslen, written>> /\ UNCHANGED tvars

(* recvmsg(): an error, or the message; descriptors that do not fit in    *)
(* the control buffer are closed by the host (MSG_CTRUNC).               *)
recvmsg ==
    /\ pc = "recv"
    /\ \/ /\ Finish("EAGAIN")
          /\ UNCHANGED <<delivered, closed, reclosed>>
       \/ LET room == IF fdsLen > 0 THEN Fits(ControlLen(fdsLen)) ELSE 0
              n == IF Len(queued) < room THEN Len(queued) ELSE room
          IN /\ delivered' = SubSeq(queued, 1, n)
             /\ Close({queued[i] : i \in n + 1 .. Len(queued)})
             /\ pc' = "install"
             /\ UNCHANGED ret
    /\ UNCHANGED <<fdsLen, queued, fdslen, written, entries, refcount>>

(* Fault variant: a descriptor that cannot be installed is not closed.  *)
InstallNoClose ==
    /\ pc = "install" /\ fdslen < Len(delivered)
    /\ LET nfd == delivered[fdslen + 1] IN
       \/ /\ \E s \in Slots : entries[s] = NoObj /\ entries' = [entries EXCEPT ![s] = nfd]
          /\ refcount' = [refcount EXCEPT ![nfd] = 1]
          /\ UNCHANGED <<closed, reclosed>>
       \/ UNCHANGED tvars
    /\ written' = written \cup {fdslen}
    /\ fdslen' = fdslen + 1
    /\ UNCHANGED <<fdsLen, queued, pc, delivered, ret>>

(* One iteration of the SCM_RIGHTS loop, writing in->ri_fds[fdslen]:      *)
(*  - fd_table_insert_fd() puts a new object in a free slot;              *)
(*  - fd_determine_type_rights() fails: close(nfd);                       *)
(*  - fd_table_insert_fd() fails: it has closed nfd itself (close(in)     *)
(*    when fd_object_new() fails, fd_object_release() when the table     *)
(*    cannot grow), and the loop calls close(nfd) once more.              *)
(* Then ++fdslen.                                                          *)
install ==
    /\ pc = "install" /\ fdslen < Len(delivered)
    /\ LET nfd == delivered[fdslen + 1] IN
       \/ /\ \E s \in Slots : entries[s] = NoObj /\ entries' = [entries EXCEPT ![s] = nfd]
          /\ refcount' = [refcount EXCEPT ![nfd] = 1]
          /\ UNCHANGED <<closed, reclosed>>
       \/ /\ Close({nfd})
          /\ UNCHANGED <<entries, refcount>>
       \/ /\ closed' = [closed EXCEPT ![nfd] = TRUE]
          /\ reclosed' = TRUE
          /\ UNCHANGED <<entries, refcount>>
    /\ written' = written \cup {fdslen}
    /\ fdslen' = fdslen + 1
    /\ UNCHANGED <<fdsLen, queued, pc, delivered, ret>>

(* The loop is done: the flags are set and the control buffer freed.      *)
recv_done ==
    /\ pc = "install" /\ fdslen = Len(delivered)
    /\ Finish("none")
    /\ UNCHANGED <<fdsLen, queued, delivered, fdslen, written>> /\ UNCHANGED tvars

Done ==
    /\ pc = "done"
    /\ UNCHANGED vars

Next == recv_alloc \/ recv_get \/ recvmsg \/ install \/ recv_done \/ Done

Spec == Init /\ [][Next]_vars
-----------------------------------------------------------------------------
(* sys_sock_recv() writes only the ri_fds_len elements of the guest's    *)
(* in->ri_fds array, however many descriptors the peer sent.              *)
WritesWithinFds == written \subseteq 0 .. fdsLen - 1

(* No descriptor the peer sent is leaked: once the call has returned,    *)
(* each one the host received is owned by the table or closed, by the   *)
(* host for lack of room or by the loop when it cannot be installed, and *)
(* a closed descriptor has no references left.                           *)
NoDescriptorLeak ==
    /\ pc = "done" /\ ret = "none" =>
         \A i \in DOMAIN queued : closed[queued[i]] \/ refcount[queued[i]] > 0
    /\ \A o \in Obj : closed[o] => refcount[o] = 0

(* sys_sock_recv() closes each host descriptor it gives up on exactly     *)
(* once: a second close() could hit a descriptor another thread has      *)
(* opened under the same number in the meantime.                         *)
DescriptorClosedOnce == ~reclosed
=============================================================================
