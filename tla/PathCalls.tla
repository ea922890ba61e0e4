------------------------------ MODULE PathCalls ------------------------------
(***************************************************************************)
(* The path calls of src/libemulator/posix.c that take one lease of        *)
(* path_get() on a host without Capsicum: sys_file_open(),                 *)
(* sys_file_create(), sys_file_unlink(), sys_file_symlink(),               *)
(* sys_file_readlink(), sys_file_stat_get() and sys_file_stat_put().  Each *)
(* checks its arguments, asks path_get() (PathGet) for the final name with *)
(* the rights it needs, runs one host call on the lease and puts it back.  *)
(* sys_file_open() derives the host open mode and the rights the directory *)
(* must pass on, and inserts the descriptor it opened into the table with  *)
(* the type and rights fd_determine_type_rights() infers.                  *)
(*                                                                         *)
(* The host is a constant tree (HostTree) with one exception: between     *)
(* path_get() returning the final name and the host call using it, another *)
(* host process may rename a symlink leading out of the subtree over that *)
(* name (spec section 4.F).  Each host call is modelled by what Linux does *)
(* with the flags the code passes.  Rights are sets of right names.        *)
(***************************************************************************)
EXTENDS Integers, Sequences, FiniteSets

CONSTANTS
    Nodes, Names, Slash, Kind, Child, Target, Parent, Start, Inputs,
    MaxFds, MaxPaths, MaxExpansions, NoNode,     \* the lookup, as in PathGet
    Requests,   \* [base, inh, flags, oflags]: the guest's fdstat and oflags
    DirRights,  \* [base, inh]: rights of the directory descriptor's entry
    MaxBase,    \* RIGHTS_<class>_BASE of the cloudabi headers, per class
    MaxInh,     \* RIGHTS_<class>_INHERITING
    Resolved,   \* [Nodes -> Nodes \cup {NoNode}]: the host's own resolution
                \* of each symlink, NoNode where it gives ELOOP
    Escape,     \* the symlink another host process renames over a name
    NewFile,    \* the entry O_CREAT, mkdirat() or symlinkat() makes
    Calls       \* the calls modelled: "open", "create", "unlink", "symlink",
                \* "readlink", "stat_get", "stat_put"

VARIABLES
    follow, needsFinal, fds, paths, expansions, live, hostOpen, lease,
    status, error, input,                          \* path_get(), as in PathGet
    call,       \* which system call runs
    badArg,     \* sys_file_create()'s type is not a directory, or
                \* sys_file_stat_put()'s flags hold an unknown bit
    removedir,  \* sys_file_unlink()'s CLOUDABI_UNLINK_REMOVEDIR
    req,        \* sys_file_open(): *fds and oflags
    dir,        \* the rights of the directory descriptor's table entry
    fpc,        \* "start", "lookup", "type", "done"
    renamed,    \* Escape has been renamed over the returned name
    nfd,        \* the host descriptor openat() returned
    entry,      \* the table entry fd_table_insert_fd() made
    acted,      \* the entry another host call found under the name
    ret         \* what the call returned

lvars == <<follow, needsFinal, fds, paths, expansions, live, hostOpen, lease,
           status, error, input>>
fvars == <<call, badArg, removedir, req, dir, fpc, renamed, nfd, entry, acted,
           ret>>
vars == <<lvars, fvars>>

Lookup == INSTANCE PathGet

NoFile == [state |-> "none", node |-> NoNode, mode |-> "none",
           created |-> FALSE, truncated |-> FALSE]
NoEntry == [type |-> "none", base |-> {}, inh |-> {}]
NoRequest == [base |-> {}, inh |-> {}, flags |-> {}, oflags |-> {}]

(* The calls that look up with path_get_nofollow(), so never follow a     *)
(* final symlink, and the right each call other than open asks of the     *)
(* directory (rights_inheriting 0).                                       *)
NoFollowCalls == {"create", "unlink", "symlink", "readlink"}
CallRight == [create |-> "FILE_CREATE_DIRECTORY", unlink |-> "FILE_UNLINK",
              symlink |-> "FILE_SYMLINK", readlink |-> "FILE_READLINK",
              stat_get |-> "FILE_STAT_GET", stat_put |-> "FILE_STAT_PUT_TIMES"]
(* needs_final_component: the calls that make or remove the final name.   *)
NeedsFinalOf(c, r) ==
    IF c = "open" THEN "CREAT" \in r.oflags
    ELSE c \in {"create", "unlink", "symlink"}

-----------------------------------------------------------------------------
(* The open mode and the rights needed on the directory.                  *)

(* read: the base rights include FD_READ, FILE_READDIR or MEM_MAP_EXEC;   *)
(* write: FD_DATASYNC, FD_WRITE, FILE_ALLOCATE or FILE_STAT_FPUT_SIZE.    *)
IsRead(r) == r.base \cap {"FD_READ", "FILE_READDIR", "MEM_MAP_EXEC"} # {}

IsWrite(r) ==
    r.base \cap {"FD_DATASYNC", "FD_WRITE", "FILE_ALLOCATE",
                 "FILE_STAT_FPUT_SIZE"} # {}

AccMode(r) == IF IsWrite(r) THEN IF IsRead(r) THEN "RDWR" ELSE "WRONLY"
              ELSE "RDONLY"

NeededBase(r) ==
    {"FILE_OPEN"} \cup (IF "CREAT" \in r.oflags THEN {"FILE_CREATE_FILE"}
                        ELSE {})

(* The flag-driven rights: O_TRUNC, DSYNC, RSYNC or SYNC, and FD_SEEK for *)
(* a writer that neither appends nor truncates.                           *)
FlagRights(r) ==
    (IF "TRUNC" \in r.oflags THEN {"FILE_STAT_FPUT_SIZE"} ELSE {})
    \cup (IF "DSYNC" \in r.flags THEN {"FD_DATASYNC"} ELSE {})
    \cup (IF r.flags \cap {"RSYNC", "SYNC"} # {} THEN {"FD_SYNC"} ELSE {})
    \cup (IF IsWrite(r) /\ "APPEND" \notin r.flags /\ "TRUNC" \notin r.oflags
          THEN {"FD_SEEK"} ELSE {})

(* Fault variant: only the inheriting rights are asked of the directory. *)
NeededInheritingNoBase(r) == r.inh \cup FlagRights(r)

NeededInheriting(r) == r.base \cup r.inh \cup FlagRights(r)

(* fd_table_get_entry(): every needed right is on the directory's entry. *)
Denied ==
    IF call = "open"
    THEN ~(/\ NeededBase(req) \subseteq dir.base
           /\ NeededInheriting(req) \subseteq dir.inh)
    ELSE CallRight[call] \notin dir.base

(* pa->follow: always false in emulated mode, so noflags gets O_NOFOLLOW. *)
(* Fault variant: the lookup's own follow flag, as the Capsicum branch.   *)
PaFollowLookupFlag == follow

PaFollow == FALSE

-----------------------------------------------------------------------------
(* The host.                                                              *)

(* What openat(dirfd, name, flags) does on Linux to the entry e under the *)
(* name: O_CREAT with a trailing slash is EISDIR before any lookup; a     *)
(* symlink is followed if the name has a trailing slash or O_NOFOLLOW is  *)
(* absent; O_TRUNC on a regular file opened read-only is unspecified and  *)
(* may truncate.                                                          *)
HostOpen(e, r, nofollow, slash) ==
    LET creat == "CREAT" \in r.oflags
        followed == e # NoNode /\ Kind[e] = "lnk" /\ (slash \/ ~nofollow)
        n == IF followed THEN Resolved[e] ELSE e
        Err(x) == [ok |-> FALSE, err |-> x, node |-> n, created |-> FALSE]
    IN CASE creat /\ slash -> Err("EISDIR")
         [] followed /\ n = NoNode -> Err("ELOOP")
         [] n = NoNode /\ creat ->
              [ok |-> TRUE, err |-> "none", node |-> NewFile, created |-> TRUE]
         [] n = NoNode -> Err("ENOENT")
         [] creat /\ "EXCL" \in r.oflags -> Err("EEXIST")
         [] Kind[n] = "lnk" -> Err("ELOOP")
         [] ("DIRECTORY" \in r.oflags \/ slash) /\ Kind[n] # "dir" ->
              Err("ENOTDIR")
         [] Kind[n] = "dir" /\ AccMode(r) # "RDONLY" -> Err("EISDIR")
         [] Kind[n] \in {"stream", "dgram"} -> Err("ENXIO")
         [] OTHER -> [ok |-> TRUE, err |-> "none", node |-> n, created |-> FALSE]

(* The entry under the returned name when openat() runs. *)
AtOpen == CASE lease.name = "." -> lease.dir
            [] renamed -> Escape
            [] OTHER -> Child[lease.dir, lease.name]

(* What the other host calls do on Linux to the entry e under the name,   *)
(* as an error ("none" on success) and the entry acted on or read.        *)
HostResult(x, m) == [err |-> x, node |-> m]

(* mkdirat() never follows the name and fails with EEXIST on any entry.   *)
HostMkdir(e) ==
    IF e # NoNode THEN HostResult("EEXIST", e) ELSE HostResult("none", NewFile)

(* symlinkat() likewise, and a trailing slash on a new name is ENOENT.    *)
HostSymlink(e, slash) ==
    CASE e # NoNode -> HostResult("EEXIST", e)
      [] slash -> HostResult("ENOENT", NoNode)
      [] OTHER -> HostResult("none", NewFile)

(* unlinkat() never follows: with AT_REMOVEDIR it refuses "." (EINVAL), a *)
(* non-directory and a directory that is not empty; without it a          *)
(* directory is EISDIR and a trailing slash on anything else ENOTDIR.     *)
HostUnlink(e, slash, rmdir) ==
    CASE e = NoNode -> HostResult("ENOENT", NoNode)
      [] rmdir /\ lease.name = "." -> HostResult("EINVAL", e)
      [] rmdir /\ Kind[e] # "dir" -> HostResult("ENOTDIR", e)
      [] rmdir /\ \E x \in Names : Child[e, x] # NoNode ->
           HostResult("ENOTEMPTY", e)
      [] rmdir -> HostResult("none", e)
      [] Kind[e] = "dir" -> HostResult("EISDIR", e)
      [] slash -> HostResult("ENOTDIR", e)
      [] OTHER -> HostResult("none", e)

(* readlinkat() needs a symlink.                                          *)
HostReadlink(e) ==
    CASE e = NoNode -> HostResult("ENOENT", NoNode)
      [] Kind[e] # "lnk" -> HostResult("EINVAL", e)
      [] OTHER -> HostResult("none", e)

(* fstatat() and utimensat() follow a symlink unless AT_SYMLINK_NOFOLLOW  *)
(* is set and the name has no trailing slash.                            *)
HostStat(e, nofollow, slash) ==
    LET followed == e # NoNode /\ Kind[e] = "lnk" /\ (slash \/ ~nofollow)
        n == IF followed THEN Resolved[e] ELSE e
    IN CASE followed /\ n = NoNode -> HostResult("ELOOP", NoNode)
         [] n = NoNode -> HostResult("ENOENT", NoNode)
         [] OTHER -> HostResult("none", n)

(* sys_file_unlink(): Linux's EISDIR becomes the EPERM POSIX requires.    *)
UnlinkError(err) == IF err = "EISDIR" THEN "EPERM" ELSE err

(* sys_file_stat_get()'s file type by the st_mode of fstatat(): a FIFO   *)
(* and a socket of any type are SOCKET_STREAM.                           *)
StatType == [blk |-> "BLOCK_DEVICE", chr |-> "CHARACTER_DEVICE",
             tty |-> "CHARACTER_DEVICE", dir |-> "DIRECTORY",
             fifo |-> "SOCKET_STREAM", lnk |-> "SYMBOLIC_LINK",
             reg |-> "REGULAR_FILE", stream |-> "SOCKET_STREAM",
             dgram |-> "SOCKET_STREAM"]

-----------------------------------------------------------------------------
(* fd_determine_type_rights(): the type and the most rights a descriptor  *)
(* of a host file kind may have, by fstat() (and isatty(), getsockopt(    *)
(* SO_TYPE)), less FD_WRITE or FD_READ by the F_GETFL access mode.  A     *)
(* socket of another type, or another file kind, is EINVAL.               *)
TypeOf == [dir |-> "DIRECTORY", reg |-> "REGULAR_FILE", blk |-> "BLOCK_DEVICE",
           chr |-> "CHARACTER_DEVICE", tty |-> "CHARACTER_DEVICE",
           dgram |-> "SOCKET_DGRAM", stream |-> "SOCKET_STREAM",
           fifo |-> "SOCKET_STREAM"]
RightsClass == [dir |-> "DIRECTORY", reg |-> "REGULAR_FILE",
                blk |-> "BLOCK_DEVICE", chr |-> "CHARACTER_DEVICE",
                tty |-> "TTY", dgram |-> "SOCKET", stream |-> "SOCKET",
                fifo |-> "SOCKET"]

StripAccess(b, mode) == CASE mode = "RDONLY" -> b \ {"FD_WRITE"}
                          [] mode = "WRONLY" -> b \ {"FD_READ"}
                          [] OTHER -> b

fd_determine_type_rights(k, mode) ==
    IF k \in DOMAIN TypeOf
    THEN [err |-> "none", type |-> TypeOf[k],
          base |-> StripAccess(MaxBase[RightsClass[k]], mode),
          inh |-> MaxInh[RightsClass[k]]]
    ELSE [err |-> "EINVAL", type |-> "none", base |-> {}, inh |-> {}]

-----------------------------------------------------------------------------
(* The call.                                                              *)

Init ==
    /\ Lookup!Init
    /\ call \in Calls
    /\ badArg \in IF call \in {"create", "stat_put"} THEN BOOLEAN ELSE {FALSE}
    /\ removedir \in IF call = "unlink" THEN BOOLEAN ELSE {FALSE}
    /\ req \in IF call = "open" THEN Requests ELSE {NoRequest}
    /\ dir \in DirRights
    /\ needsFinal = NeedsFinalOf(call, req)
    /\ call \in NoFollowCalls => ~follow
    /\ fpc = "start"
    /\ renamed = FALSE
    /\ nfd = NoFile
    /\ entry = NoEntry
    /\ acted = NoNode
    /\ ret = "none"

(* sys_file_create() of a type other than a directory, and              *)
(* sys_file_stat_put() with an unknown flag, return EINVAL at once.        *)
bad_argument ==
    /\ fpc = "start" /\ badArg
    /\ fpc' = "done" /\ ret' = "EINVAL"
    /\ UNCHANGED <<lvars, call, badArg, removedir, req, dir, renamed, nfd,
                   entry, acted>>

(* path_get()'s fd_object_get() on the directory with the needed rights: *)
(* ENOTCAPABLE frees the pathname copy and returns, else the lookup runs. *)
path_get_rights ==
    /\ fpc = "start" /\ ~badArg
    /\ IF Denied
       THEN /\ status' = "failed" /\ error' = "ENOTCAPABLE" /\ live' = {}
            /\ fpc' = "done" /\ ret' = "ENOTCAPABLE"
            /\ UNCHANGED <<follow, needsFinal, fds, paths, expansions,
                           hostOpen, lease, input>>
       ELSE /\ fpc' = "lookup"
            /\ UNCHANGED <<lvars, ret>>
    /\ UNCHANGED <<call, badArg, removedir, req, dir, renamed, nfd, entry,
                   acted>>

(* One iteration of path_get()'s loop. *)
lookup ==
    /\ fpc = "lookup"
    /\ Lookup!Loop
    /\ UNCHANGED fvars

(* path_get() failed: the call returns its error. *)
lookup_failed ==
    /\ fpc = "lookup" /\ status = "failed"
    /\ fpc' = "done" /\ ret' = error
    /\ UNCHANGED <<lvars, call, badArg, removedir, req, dir, renamed, nfd,
                   entry, acted>>

(* Another host process renames Escape over the name path_get() returned, *)
(* before openat() uses it.                                                *)
rename_over ==
    /\ fpc = "lookup" /\ status = "leased"
    /\ ~renamed /\ lease.name # "."
    /\ renamed' = TRUE
    /\ UNCHANGED <<lvars, call, badArg, removedir, req, dir, fpc, nfd, entry,
                   acted, ret>>

(* openat(pa.fd, pa.path, noflags), with O_NOFOLLOW unless pa.follow;     *)
(* then path_put() on every branch.  ENXIO is ENOTSUP when fstatat()      *)
(* finds a socket.                                                        *)
openat ==
    /\ call = "open"
    /\ fpc = "lookup" /\ status = "leased"
    /\ Lookup!path_put
    /\ LET o == HostOpen(AtOpen, req, ~PaFollow, lease.slash) IN
       IF o.ok
       THEN /\ \E ub \in BOOLEAN :
                 nfd' = [state |-> "open", node |-> o.node, mode |-> AccMode(req),
                         created |-> o.created,
                         truncated |-> /\ "TRUNC" \in req.oflags
                                       /\ ~o.created /\ Kind[o.node] = "reg"
                                       /\ (AccMode(req) # "RDONLY" \/ ub)]
            /\ fpc' = "type"
            /\ UNCHANGED ret
       ELSE /\ fpc' = "done"
            /\ ret' = IF o.err = "ENXIO" /\ Kind[o.node] \in {"stream", "dgram"}
                      THEN "ENOTSUP" ELSE o.err
            /\ UNCHANGED nfd
    /\ UNCHANGED <<call, badArg, removedir, req, dir, renamed, entry, acted>>

(* The host call of the other calls on pa.fd and pa.path: mkdirat(),      *)
(* unlinkat() with AT_REMOVEDIR if asked, symlinkat(), readlinkat(), and  *)
(* fstatat() or utimensat() with AT_SYMLINK_NOFOLLOW unless pa.follow;    *)
(* then path_put().  sys_file_stat_get() fills in the file type.          *)
host_call ==
    /\ call # "open"
    /\ fpc = "lookup" /\ status = "leased"
    /\ Lookup!path_put
    /\ LET h == CASE call = "create" -> HostMkdir(AtOpen)
                   [] call = "symlink" -> HostSymlink(AtOpen, lease.slash)
                   [] call = "unlink" ->
                        HostUnlink(AtOpen, lease.slash, removedir)
                   [] call = "readlink" -> HostReadlink(AtOpen)
                   [] OTHER -> HostStat(AtOpen, ~PaFollow, lease.slash)
       IN
       /\ acted' = h.node
       /\ ret' = CASE h.err # "none" /\ call = "unlink" -> UnlinkError(h.err)
                    [] h.err # "none" -> h.err
                    [] call = "stat_get" -> StatType[Kind[h.node]]
                    [] OTHER -> "ok"
    /\ fpc' = "done"
    /\ UNCHANGED <<call, badArg, removedir, req, dir, renamed, nfd, entry>>

(* close(nfd), or fd_object_release() of the object holding it.  Fault   *)
(* variant: the descriptor is left open.                                  *)
CloseNewLeaks == nfd

CloseNew == [nfd EXCEPT !.state = "closed"]

(* fd_determine_type_rights(); on failure close(nfd).  Then               *)
(* fd_table_insert_fd() with rights_base & max_base and                    *)
(* rights_inheriting & max_inheriting: fd_object_new() or growing the     *)
(* table may fail with ENOMEM, which closes the descriptor.  (Every kind   *)
(* openat() opens has a type, so the EINVAL branch is not reached here.)   *)
insert ==
    /\ fpc = "type"
    /\ LET t == fd_determine_type_rights(Kind[nfd.node], nfd.mode) IN
       IF t.err # "none"
       THEN nfd' = CloseNew /\ ret' = t.err /\ UNCHANGED entry
       ELSE \/ /\ entry' = [type |-> t.type, base |-> req.base \cap t.base,
                            inh |-> req.inh \cap t.inh]
               /\ nfd' = [nfd EXCEPT !.state = "table"]
               /\ ret' = "ok"
            \/ nfd' = CloseNew /\ ret' = "ENOMEM" /\ UNCHANGED entry
    /\ fpc' = "done"
    /\ UNCHANGED <<lvars, call, badArg, removedir, req, dir, renamed, acted>>

(* The call has returned, or the lookup stopped at an invalid free().     *)
Finished ==
    /\ fpc = "done" \/ status = "invalid_free"
    /\ UNCHANGED vars

Call == \/ bad_argument \/ path_get_rights \/ lookup \/ lookup_failed
        \/ openat \/ host_call \/ insert

Next == Call \/ rename_over \/ Finished

(* The call runs on one thread; the other host process is not fair: it   *)
(* may never rename.                                                      *)
Spec == Init /\ [][Next]_vars /\ WF_vars(Call)

-----------------------------------------------------------------------------
(* Properties.                                                            *)

TypeOK ==
    /\ Lookup!TypeOK
    /\ call \in Calls /\ badArg \in BOOLEAN /\ removedir \in BOOLEAN
    /\ req \in Requests \cup {NoRequest} /\ dir \in DirRights
    /\ acted \in Nodes \cup {NoNode}
    /\ fpc \in {"start", "lookup", "type", "done"}
    /\ renamed \in BOOLEAN
    /\ nfd.state \in {"none", "open", "closed", "table"}
    /\ nfd.mode \in {"none", "RDONLY", "WRONLY", "RDWR"}
    /\ entry.base \subseteq req.base /\ entry.inh \subseteq req.inh

(* The lookup's own properties (PathGet), for the lookups the calls run:  *)
(* the directories it holds stay below the directory descriptor, and what *)
(* it opens and allocates is released.                                    *)
Confined == Lookup!Confined
DescriptorsBalanced == Lookup!DescriptorsBalanced
BuffersReleased == Lookup!BuffersReleased

(* Every call returns, unless its lookup stops at the invalid free().     *)
Terminates == <>(fpc = "done" \/ status = "invalid_free")

(* A lookup the directory's rights allow implements the lookup of spec    *)
(* section 4.F; one they refuse never reaches it.                         *)
Resolver == INSTANCE PathResolve
                WITH result <- IF badArg \/ Denied
                               THEN [ok |-> FALSE, err |-> "pending"]
                               ELSE Lookup!Returned
ResolverRefined == Resolver!Spec

(* Everything sys_file_open() makes the host do, and every right the new  *)
(* descriptor gets, the directory descriptor's entry allowed: a file is   *)
(* created only if it holds FILE_CREATE_FILE, an existing file truncated  *)
(* (O_TRUNC, also when opened read-only) only if it passes on             *)
(* FILE_STAT_FPUT_SIZE, and the new descriptor's base and inheriting       *)
(* rights are rights it passes on.                                        *)
OpenAuthorized ==
    /\ nfd.state # "none" => "FILE_OPEN" \in dir.base
    /\ nfd.created => "FILE_CREATE_FILE" \in dir.base
    /\ nfd.truncated => "FILE_STAT_FPUT_SIZE" \in dir.inh
    /\ entry.base \cup entry.inh \subseteq dir.inh

(* No path call makes the host open, stat, read, change or remove an      *)
(* entry outside the directory descriptor's subtree (what it creates is   *)
(* made in a directory of the subtree), even when another host process   *)
(* renames a symlink leading out over the final name between path_get()  *)
(* and the host call: at most the symlink itself, now in the subtree, is  *)
(* acted on.  Without a trailing slash AT_SYMLINK_NOFOLLOW and O_NOFOLLOW *)
(* refuse to follow it; a trailing slash reaches the host only in the     *)
(* calls with needs_final_component, where openat() with O_CREAT is       *)
(* EISDIR and the others do not follow.                                   *)
OpenConfined ==
    /\ nfd.state # "none" => nfd.node \in Lookup!Subtree \cup {NewFile}
    /\ acted # NoNode => acted \in Lookup!Subtree \cup {NewFile, Escape}

(* When sys_file_open() returns, the host descriptor it opened is in the *)
(* table if it succeeded and closed on every error path after openat().  *)
NoHostFdLeak ==
    fpc = "done" /\ call = "open" => /\ nfd.state # "open"
                    /\ (nfd.state = "table" <=> ret = "ok")

=============================================================================
