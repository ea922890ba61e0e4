------------------------------ MODULE FdTable ------------------------------
(***************************************************************************)
(* The emulated process's file descriptor table (struct fd_table) and the *)
(* reference-counted objects it points at (struct fd_object), as used by  *)
(* several guest threads at once (src/libemulator/posix.c).               *)
(*                                                                         *)
(* Every section the code runs under the table's rwlock is one action:    *)
(* the lock makes it atomic with respect to the other sections.  What the *)
(* code does outside the lock (a host call on a referenced object, the    *)
(* fd_object_release() after close or replace, the readdir work under the *)
(* object mutex) is a step of its own, so other threads interleave there. *)
(*                                                                         *)
(* Rights are sets of model values instead of 64-bit masks: only subset   *)
(* tests and intersections are ever applied to them.                      *)
(***************************************************************************)
EXTENDS Naturals, FiniteSets

CONSTANTS
    Threads,      \* guest threads sharing the table (curfds)
    Obj,          \* fd_object records that can be allocated
    Types,        \* cloudabi_filetype_t values the model distinguishes
    Dir,          \* CLOUDABI_FILETYPE_DIRECTORY
    Socket,       \* the type fd_create_socketpair() gives both ends
    RightsSet,    \* the right bits the model distinguishes
    FileReaddir,  \* CLOUDABI_RIGHT_FILE_READDIR
    TypeBase,     \* [Types -> SUBSET RightsSet]: RIGHTS_<type>_BASE
    TypeInh,      \* [Types -> SUBSET RightsSet]: RIGHTS_<type>_INHERITING
    SlotBound,    \* entries[] is modelled up to this many slots
    MaxUsed,      \* bound: calls that add slots keep used <= MaxUsed
    NoObj,        \* a NULL fd_entry.object
    NoThread      \* an unlocked directory mutex

ASSUME /\ Dir \in Types /\ Socket \in Types /\ FileReaddir \in RightsSet
       /\ TypeBase \in [Types -> SUBSET RightsSet]
       /\ TypeInh \in [Types -> SUBSET RightsSet]
       /\ NoObj \notin Obj /\ NoThread \notin Threads
       /\ MaxUsed \in Nat /\ SlotBound \in Nat

VARIABLES
    entries,     \* ft->entries: slot -> [obj, base, inh]
    size,        \* ft->size
    used,        \* ft->used
    refcount,    \* fo->refcount
    objState,    \* "unused" (not yet malloc'ed), "live", "freed"
    type,        \* fo->type
    dirHandle,   \* fo->directory.handle # NULL
    dirLock,     \* holder of fo->directory.lock
    hostCloses,  \* close()/closedir() calls made on fo->number
    pc,          \* where each thread is inside its current system call
    held,        \* the object reference a thread holds across an unlock
    held2,       \* the second object of fd_table_insert_fdpair()
    crashed,     \* the process took a NULL pointer dereference
    staleRead    \* an fd_entry was read through a pointer into freed memory

vars == <<entries, size, used, refcount, objState, type, dirHandle, dirLock,
          hostCloses, pc, held, held2, crashed, staleRead>>

Slots == 0 .. SlotBound - 1
Fds == 0 .. SlotBound            \* guest-supplied numbers, one out of range
Empty == [obj |-> NoObj, base |-> {}, inh |-> {}]
Entry == [obj : Obj \cup {NoObj}, base : SUBSET RightsSet,
          inh : SUBSET RightsSet]
PC == {"idle", "use", "release", "rd_lock", "rd_read", "insert",
       "insert_pair"}

(* fd_table_get_entry(): the slot exists, is occupied and has the rights. *)
GetEntryOk(fd, rb, ri) ==
    /\ fd < size
    /\ entries[fd].obj # NoObj
    /\ rb \subseteq entries[fd].base
    /\ ri \subseteq entries[fd].inh

(* Fault variant: the loop stops at used + incr instead of twice that.  *)
RECURSIVE DoubledTooSmall(_, _, _)
DoubledTooSmall(s, min, need) == IF s <= min \/ s < need
                                 THEN DoubledTooSmall(s * 2, min, need) ELSE s

(* The size fd_table_grow() doubles the table to. *)
RECURSIVE Doubled(_, _, _)
Doubled(s, min, need) == IF s <= min \/ s < need * 2
                         THEN Doubled(s * 2, min, need) ELSE s

NeedsGrow(min, incr) == size <= min \/ size < (used + incr) * 2

GrownSize(min, incr) ==
    IF NeedsGrow(min, incr)
    THEN Doubled(IF size = 0 THEN 1 ELSE size, min, used + incr)
    ELSE size

FreeSlots(sz) == {fd \in 0 .. sz - 1 : entries[fd].obj = NoObj}

(* Fault variant: a directory with a DIR is closed by close() and by     *)
(* closedir() both.                                                       *)
ReleaseClosesTwice(o) ==
    /\ refcount' = [refcount EXCEPT ![o] = @ - 1]
    /\ IF refcount[o] = 1
       THEN /\ objState' = [objState EXCEPT ![o] = "freed"]
            /\ hostCloses' = [hostCloses EXCEPT ![o] = @ +
                                  IF type[o] = Dir /\ dirHandle[o] THEN 2 ELSE 1]
       ELSE UNCHANGED <<objState, hostCloses>>

(* fd_object_release(): drop one reference; the last one closes the       *)
(* descriptor, through closedir() if a DIR was installed (which closes    *)
(* fo->number too) and through close() otherwise, and frees the record.   *)
Release(o) ==
    /\ refcount' = [refcount EXCEPT ![o] = @ - 1]
    /\ IF refcount[o] = 1
       THEN /\ objState' = [objState EXCEPT ![o] = "freed"]
            /\ hostCloses' = [hostCloses EXCEPT ![o] = @ + 1]
       ELSE UNCHANGED <<objState, hostCloses>>

Running(t, where) == ~crashed /\ pc[t] = where

(* Objects created but not inserted yet; the bound MaxUsed counts them.  *)
Pending == Cardinality({t \in Threads : pc[t] = "insert"})
           + 2 * Cardinality({t \in Threads : pc[t] = "insert_pair"})
WithinBound(incr) == used + Pending + incr <= MaxUsed

Init ==
    /\ entries = [fd \in Slots |-> Empty]
    /\ size = 0
    /\ used = 0
    /\ refcount = [o \in Obj |-> 0]
    /\ objState = [o \in Obj |-> "unused"]
    /\ type = [o \in Obj |-> Dir]
    /\ dirHandle = [o \in Obj |-> FALSE]
    /\ dirLock = [o \in Obj |-> NoThread]
    /\ hostCloses = [o \in Obj |-> 0]
    /\ pc = [t \in Threads |-> "idle"]
    /\ held = [t \in Threads |-> NoObj]
    /\ held2 = [t \in Threads |-> NoObj]
    /\ crashed = FALSE
    /\ staleRead = FALSE

-----------------------------------------------------------------------------
(* Creating objects: fd_table_insert_fd() and fd_table_insert_fdpair().   *)

(* fd_object_new() for a descriptor the host just returned (file_open,    *)
(* fd_create1, sock_recv); a directory gets an unopened DIR slot.         *)
fd_object_new(t) ==
    /\ Running(t, "idle")
    /\ WithinBound(1)
    /\ \E o \in Obj, ty \in Types :
          /\ objState[o] = "unused"
          /\ objState' = [objState EXCEPT ![o] = "live"]
          /\ refcount' = [refcount EXCEPT ![o] = 1]
          /\ type' = [type EXCEPT ![o] = ty]
          /\ dirHandle' = [dirHandle EXCEPT ![o] = FALSE]
          /\ held' = [held EXCEPT ![t] = o]
    /\ pc' = [pc EXCEPT ![t] = "insert"]
    /\ UNCHANGED <<entries, size, used, dirLock, hostCloses, held2, crashed,
                   staleRead>>

(* fd_table_insert(): grow by one under the write lock, pick a free slot, *)
(* attach with the requested rights cut down to what the type allows     *)
(* (sys_file_open's rights_base & max_base).  If realloc() fails the      *)
(* reference is released, which closes the new descriptor.               *)
fd_table_insert(t) ==
    /\ Running(t, "insert")
    /\ LET o == held[t] IN
       \/ /\ \E rb, ri \in SUBSET RightsSet, fd \in FreeSlots(GrownSize(0, 1)) :
                entries' = [entries EXCEPT ![fd] =
                              [obj |-> o, base |-> rb \cap TypeBase[type[o]],
                               inh |-> ri \cap TypeInh[type[o]]]]
          /\ size' = GrownSize(0, 1)
          /\ used' = used + 1
          /\ UNCHANGED <<refcount, objState, hostCloses>>
       \/ /\ NeedsGrow(0, 1)
          /\ Release(o)
          /\ UNCHANGED <<entries, size, used>>
    /\ pc' = [pc EXCEPT ![t] = "idle"]
    /\ held' = [held EXCEPT ![t] = NoObj]
    /\ UNCHANGED <<type, dirHandle, dirLock, held2, crashed, staleRead>>

(* fd_create_socketpair(): two fd_object_new() calls.  When the second    *)
(* malloc() fails the first object is released again at once.            *)
fd_create_socketpair(t) ==
    /\ Running(t, "idle")
    /\ WithinBound(2)
    /\ \E o1, o2 \in Obj :
          /\ o1 # o2
          /\ objState[o1] = "unused" /\ objState[o2] = "unused"
          /\ type' = [type EXCEPT ![o1] = Socket, ![o2] = Socket]
          /\ \/ /\ objState' = [objState EXCEPT ![o1] = "live", ![o2] = "live"]
                /\ refcount' = [refcount EXCEPT ![o1] = 1, ![o2] = 1]
                /\ held' = [held EXCEPT ![t] = o1]
                /\ held2' = [held2 EXCEPT ![t] = o2]
                /\ pc' = [pc EXCEPT ![t] = "insert_pair"]
                /\ UNCHANGED hostCloses
             \/ /\ objState' = [objState EXCEPT ![o1] = "freed"]
                /\ hostCloses' = [hostCloses EXCEPT ![o1] = 1]
                /\ UNCHANGED <<refcount, held, held2, pc>>
    /\ UNCHANGED <<entries, size, used, dirHandle, dirLock, crashed, staleRead>>

(* fd_table_insert_fdpair(): grow by two, then two fd_table_unused() and  *)
(* fd_table_attach() pairs in one write-locked section.                   *)
fd_table_insert_fdpair(t) ==
    /\ Running(t, "insert_pair")
    /\ LET o1 == held[t]
           o2 == held2[t]
           Rec(o) == [obj |-> o, base |-> TypeBase[Socket],
                      inh |-> TypeInh[Socket]]
       IN \/ /\ \E fd1, fd2 \in FreeSlots(GrownSize(0, 2)) :
                   /\ fd1 # fd2
                   /\ entries' = [entries EXCEPT ![fd1] = Rec(o1),
                                                 ![fd2] = Rec(o2)]
             /\ size' = GrownSize(0, 2)
             /\ used' = used + 2
             /\ UNCHANGED <<refcount, objState, hostCloses>>
          \/ /\ NeedsGrow(0, 2)
             /\ refcount' = [refcount EXCEPT ![o1] = 0, ![o2] = 0]
             /\ objState' = [objState EXCEPT ![o1] = "freed", ![o2] = "freed"]
             /\ hostCloses' = [hostCloses EXCEPT ![o1] = @ + 1, ![o2] = @ + 1]
             /\ UNCHANGED <<entries, size, used>>
    /\ pc' = [pc EXCEPT ![t] = "idle"]
    /\ held' = [held EXCEPT ![t] = NoObj]
    /\ held2' = [held2 EXCEPT ![t] = NoObj]
    /\ UNCHANGED <<type, dirHandle, dirLock, crashed, staleRead>>

-----------------------------------------------------------------------------
(* Write-locked operations on slots.                                      *)

(* Fault variant: close without the fe->object == NULL test.             *)
CloseUnchecked(t) ==
    /\ Running(t, "idle")
    /\ \E fd \in Fds :
          /\ fd < size
          /\ entries' = [entries EXCEPT ![fd] = Empty]
          /\ used' = used - 1
          /\ held' = [held EXCEPT ![t] = entries[fd].obj]
    /\ pc' = [pc EXCEPT ![t] = "release"]
    /\ UNCHANGED <<size, refcount, objState, type, dirHandle, dirLock,
                   hostCloses, held2, crashed, staleRead>>

(* sys_fd_close(): detach under the lock, release after unlocking.        *)
sys_fd_close(t) ==
    /\ Running(t, "idle")
    /\ \E fd \in Fds :
          /\ GetEntryOk(fd, {}, {})
          /\ entries' = [entries EXCEPT ![fd] = Empty]
          /\ used' = used - 1
          /\ held' = [held EXCEPT ![t] = entries[fd].obj]
    /\ pc' = [pc EXCEPT ![t] = "release"]
    /\ UNCHANGED <<size, refcount, objState, type, dirHandle, dirLock,
                   hostCloses, held2, crashed, staleRead>>

(* sys_fd_replace(): look both slots up, detach 'to', take a reference on *)
(* fe_from->object and attach it at 'to' with fe_from's rights; release   *)
(* the detached object after unlocking.  fe_from and fe_to are pointers   *)
(* to slots: when from = to, fe_from->object is NULL after the detach and *)
(* refcount_acquire() dereferences it.                                    *)
sys_fd_replace(t) ==
    /\ Running(t, "idle")
    /\ \E from, to \in Fds :
          /\ GetEntryOk(from, {}, {})
          /\ GetEntryOk(to, {}, {})
          /\ IF from = to
             THEN /\ crashed' = TRUE
                  /\ UNCHANGED <<entries, refcount, held, pc>>
             ELSE /\ entries' = [entries EXCEPT ![to] = entries[from]]
                  /\ refcount' = [refcount EXCEPT ![entries[from].obj] = @ + 1]
                  /\ held' = [held EXCEPT ![t] = entries[to].obj]
                  /\ pc' = [pc EXCEPT ![t] = "release"]
                  /\ UNCHANGED crashed
    /\ UNCHANGED <<size, used, objState, type, dirHandle, dirLock, hostCloses,
                   held2, staleRead>>

(* Fault variant: dup attaches the object without refcount_acquire().   *)
DupNoAcquire(t) ==
    /\ Running(t, "idle")
    /\ WithinBound(1)
    /\ \E from \in Fds, fd \in FreeSlots(GrownSize(0, 1)) :
          /\ GetEntryOk(from, {}, {})
          /\ entries' = [entries EXCEPT ![fd] = entries[from]]
    /\ size' = GrownSize(0, 1)
    /\ used' = used + 1
    /\ UNCHANGED <<refcount, objState, type, dirHandle, dirLock, hostCloses,
                   pc, held, held2, crashed, staleRead>>

(* sys_fd_dup(): fe = &entries[from], then fd_table_grow(), then a new    *)
(* slot gets fe->object and fe's rights.  When the grow realloc()s the    *)
(* array to a new address, fe points into freed memory: the model lets   *)
(* the read return the old contents and records that it was stale.       *)
sys_fd_dup(t) ==
    /\ Running(t, "idle")
    /\ WithinBound(1)
    /\ \E from \in Fds, moved \in BOOLEAN :
          /\ GetEntryOk(from, {}, {})
          /\ moved => NeedsGrow(0, 1)
          /\ \E fd \in FreeSlots(GrownSize(0, 1)) :
                entries' = [entries EXCEPT ![fd] = entries[from]]
          /\ refcount' = [refcount EXCEPT ![entries[from].obj] = @ + 1]
          /\ staleRead' = (staleRead \/ moved)
    /\ size' = GrownSize(0, 1)
    /\ used' = used + 1
    /\ UNCHANGED <<objState, type, dirHandle, dirLock, hostCloses, pc, held,
                   held2, crashed>>

(* Fault variant: the new rights are stored without being checked.      *)
RightsUnchecked(t) ==
    /\ Running(t, "idle")
    /\ \E fd \in Fds, rb, ri \in SUBSET RightsSet :
          /\ GetEntryOk(fd, {}, {})
          /\ entries' = [entries EXCEPT ![fd].base = rb, ![fd].inh = ri]
    /\ UNCHANGED <<size, used, refcount, objState, type, dirHandle, dirLock,
                   hostCloses, pc, held, held2, crashed, staleRead>>

(* sys_fd_stat_put(CLOUDABI_FDSTAT_RIGHTS): fd_table_get_entry() with the *)
(* new rights as the required ones, so they can only shrink, then store.  *)
sys_fd_stat_put_rights(t) ==
    /\ Running(t, "idle")
    /\ \E fd \in Fds, rb, ri \in SUBSET RightsSet :
          /\ GetEntryOk(fd, rb, ri)
          /\ entries' = [entries EXCEPT ![fd].base = rb, ![fd].inh = ri]
    /\ UNCHANGED <<size, used, refcount, objState, type, dirHandle, dirLock,
                   hostCloses, pc, held, held2, crashed, staleRead>>

(* The fd_object_release() that sys_fd_close() and sys_fd_replace() do   *)
(* after unlocking, and that ends every fd_object_get() user.            *)
release_detached(t) ==
    /\ Running(t, "release")
    /\ Release(held[t])
    /\ pc' = [pc EXCEPT ![t] = "idle"]
    /\ held' = [held EXCEPT ![t] = NoObj]
    /\ UNCHANGED <<entries, size, used, type, dirHandle, dirLock, held2,
                   crashed, staleRead>>

-----------------------------------------------------------------------------
(* Read-locked lookups that keep a reference across the unlock.           *)

(* Fault variant: the object is returned without refcount_acquire().    *)
GetNoAcquire(t) ==
    /\ Running(t, "idle")
    /\ \E fd \in Fds, need \in SUBSET RightsSet :
          /\ GetEntryOk(fd, need, {})
          /\ held' = [held EXCEPT ![t] = entries[fd].obj]
    /\ pc' = [pc EXCEPT ![t] = "use"]
    /\ UNCHANGED <<entries, size, used, refcount, objState, type, dirHandle,
                   dirLock, hostCloses, held2, crashed, staleRead>>

(* fd_object_get(): under the read lock, fd_table_get_entry() with the    *)
(* rights the system call needs, then refcount_acquire().                 *)
fd_object_get(t) ==
    /\ Running(t, "idle")
    /\ \E fd \in Fds, need \in SUBSET RightsSet :
          /\ GetEntryOk(fd, need, {})
          /\ refcount' = [refcount EXCEPT ![entries[fd].obj] = @ + 1]
          /\ held' = [held EXCEPT ![t] = entries[fd].obj]
    /\ pc' = [pc EXCEPT ![t] = "use"]
    /\ UNCHANGED <<entries, size, used, objState, type, dirHandle, dirLock,
                   hostCloses, held2, crashed, staleRead>>

(* The host call on fd_number(fo) (fsync, preadv, lseek, shutdown, ...)  *)
(* followed by fd_object_release(fo), as in sys_fd_sync().               *)
host_call(t) ==
    /\ Running(t, "use")
    /\ Release(held[t])
    /\ pc' = [pc EXCEPT ![t] = "idle"]
    /\ held' = [held EXCEPT ![t] = NoObj]
    /\ UNCHANGED <<entries, size, used, type, dirHandle, dirLock, held2,
                   crashed, staleRead>>

(* sys_file_readdir(), first step: fd_object_get(FILE_READDIR).  The code *)
(* does not look at fo->type: only the right stands for "is a directory". *)
readdir_get(t) ==
    /\ Running(t, "idle")
    /\ \E fd \in Fds :
          /\ GetEntryOk(fd, {FileReaddir}, {})
          /\ refcount' = [refcount EXCEPT ![entries[fd].obj] = @ + 1]
          /\ held' = [held EXCEPT ![t] = entries[fd].obj]
    /\ pc' = [pc EXCEPT ![t] = "rd_lock"]
    /\ UNCHANGED <<entries, size, used, objState, type, dirHandle, dirLock,
                   hostCloses, held2, crashed, staleRead>>

(* mutex_lock(&fo->directory.lock); open the DIR with fdopendir() if none *)
(* is installed yet.  If fdopendir() fails: unlock, then release.        *)
readdir_lock(t) ==
    /\ Running(t, "rd_lock")
    /\ LET o == held[t] IN
       /\ dirLock[o] = NoThread
       /\ \/ /\ dirHandle[o]
             /\ dirLock' = [dirLock EXCEPT ![o] = t]
             /\ pc' = [pc EXCEPT ![t] = "rd_read"]
             /\ UNCHANGED dirHandle
          \/ /\ ~dirHandle[o]
             /\ dirHandle' = [dirHandle EXCEPT ![o] = TRUE]
             /\ dirLock' = [dirLock EXCEPT ![o] = t]
             /\ pc' = [pc EXCEPT ![t] = "rd_read"]
          \/ /\ ~dirHandle[o]
             /\ pc' = [pc EXCEPT ![t] = "release"]
             /\ UNCHANGED <<dirHandle, dirLock>>
    /\ UNCHANGED <<entries, size, used, refcount, objState, type, hostCloses,
                   held, held2, crashed, staleRead>>

(* Fault variant: the read returns without mutex_unlock().              *)
ReadNoUnlock(t) ==
    /\ Running(t, "rd_read")
    /\ pc' = [pc EXCEPT ![t] = "release"]
    /\ UNCHANGED <<entries, size, used, refcount, objState, type, dirHandle,
                   dirLock, hostCloses, held, held2, crashed, staleRead>>

(* Seek if the cookie differs, read entries into the buffer, unlock; the  *)
(* fd_object_release() that follows is release_detached().               *)
readdir_read(t) ==
    /\ Running(t, "rd_read")
    /\ dirLock' = [dirLock EXCEPT ![held[t]] = NoThread]
    /\ pc' = [pc EXCEPT ![t] = "release"]
    /\ UNCHANGED <<entries, size, used, refcount, objState, type, dirHandle,
                   hostCloses, held, held2, crashed, staleRead>>

(* A process may stop issuing system calls; after a crash nothing runs.  *)
Stop ==
    /\ crashed \/ \A t \in Threads : pc[t] = "idle"
    /\ UNCHANGED vars

Next ==
    \/ \E t \in Threads :
          \/ fd_object_new(t) \/ fd_table_insert(t)
          \/ fd_create_socketpair(t) \/ fd_table_insert_fdpair(t)
          \/ sys_fd_close(t) \/ sys_fd_replace(t) \/ sys_fd_dup(t)
          \/ sys_fd_stat_put_rights(t) \/ release_detached(t)
          \/ fd_object_get(t) \/ host_call(t)
          \/ readdir_get(t) \/ readdir_lock(t) \/ readdir_read(t)
    \/ Stop

Spec == Init /\ [][Next]_vars

-----------------------------------------------------------------------------
(* Properties.                                                            *)

TypeOK ==
    /\ entries \in [Slots -> Entry]
    /\ size \in 0 .. SlotBound /\ used \in 0 .. SlotBound
    /\ refcount \in [Obj -> Nat]
    /\ objState \in [Obj -> {"unused", "live", "freed"}]
    /\ type \in [Obj -> Types]
    /\ dirHandle \in [Obj -> BOOLEAN]
    /\ dirLock \in [Obj -> Threads \cup {NoThread}]
    /\ hostCloses \in [Obj -> Nat]
    /\ pc \in [Threads -> PC]
    /\ held \in [Threads -> Obj \cup {NoObj}]
    /\ held2 \in [Threads -> Obj \cup {NoObj}]
    /\ crashed \in BOOLEAN /\ staleRead \in BOOLEAN

Holders(o) == {t \in Threads : held[t] = o} \cup
              {<<t, 2>> : t \in {u \in Threads : held2[u] = o}}
SlotsOf(o) == {fd \in Slots : entries[fd].obj = o}

(* Every live object's reference count equals the table slots pointing at *)
(* it plus the references threads hold across an unlock (fd_object_get,  *)
(* close, replace, insert), and no slot or thread refers to an object    *)
(* that is not live.  This is what dup, replace, close and the error     *)
(* paths of insert must each keep balanced.                               *)
ReferencesCounted ==
    \A o \in Obj :
       IF objState[o] = "live"
       THEN refcount[o] = Cardinality(SlotsOf(o)) + Cardinality(Holders(o))
       ELSE SlotsOf(o) = {} /\ Holders(o) = {}

(* A thread between fd_object_get() and its fd_object_release(), or      *)
(* inside readdir, works on a descriptor that is still open, whatever    *)
(* other threads close or replace meanwhile (spec scenario 4).            *)
HeldDescriptorOpen ==
    \A t \in Threads :
       pc[t] \in {"use", "rd_lock", "rd_read"} =>
          objState[held[t]] = "live" /\ hostCloses[held[t]] = 0

(* Each object's descriptor is closed exactly once, when it is freed, and *)
(* never while it is live: closedir() and close() are never both applied. *)
DescriptorClosedOnce ==
    \A o \in Obj : hostCloses[o] = IF objState[o] = "freed" THEN 1 ELSE 0

(* ft->used counts the occupied slots, no slot at or beyond ft->size is   *)
(* occupied, and at least half the table is free, so fd_table_unused()'s *)
(* random probing finds a slot (the assertion in fd_table_attach()).     *)
TableHalfFree ==
    /\ used = Cardinality({fd \in Slots : entries[fd].obj # NoObj})
    /\ \A fd \in Slots : fd >= size => entries[fd].obj = NoObj
    /\ 2 * used <= size

(* No slot ever holds rights beyond those of its object's type: rights    *)
(* enter only through insert (cut to the type's maximum) and are copied   *)
(* or narrowed afterwards.  In particular FILE_READDIR, the only guard    *)
(* readdir has, never reaches a non-directory.                            *)
RightsWithinType ==
    \A fd \in Slots :
       entries[fd].obj # NoObj =>
          /\ entries[fd].base \subseteq TypeBase[type[entries[fd].obj]]
          /\ entries[fd].inh \subseteq TypeInh[type[entries[fd].obj]]

(* A directory mutex is held only by a thread in the middle of readdir on *)
(* that object, so every exit path of sys_file_readdir() unlocks it and   *)
(* the object is never freed (mutex_destroy) while locked.                *)
DirLockHeldByReader ==
    \A o \in Obj :
       dirLock[o] # NoThread =>
          /\ pc[dirLock[o]] = "rd_read"
          /\ held[dirLock[o]] = o
          /\ objState[o] = "live"

(* sys_fd_replace() never dereferences a NULL object pointer.             *)
NoNullDereference == ~crashed

(* sys_fd_dup() never reads the source slot through a pointer into the    *)
(* array fd_table_grow() has just reallocated.                            *)
NoStaleEntryRead == ~staleRead
=============================================================================
