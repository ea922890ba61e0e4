------------------------------ MODULE PathGet ------------------------------
(***************************************************************************)
(* path_get() and path_put() of src/libemulator/posix.c on a host without *)
(* Capsicum: the emulated, confined lookup of a guest pathname underneath *)
(* a directory descriptor.  One action is one iteration of the loop (one  *)
(* pathname component); the host filesystem is a constant tree.           *)
(*                                                                         *)
(* A pathname is a sequence of tokens: a component name, or Slash.  The   *)
(* code's strcspn/strspn split is NameAt, EndsWithSlashes and Advanced: *)
(* a name, whether slashes follow it, the position after them.  A buffer  *)
(* on the path stack is [id, buf, pos]: paths_start[i] is the buffer and *)
(* paths[i] points at token pos of it; ids are reused as malloc() does.  *)
(***************************************************************************)
EXTENDS Integers, Sequences, FiniteSets

CONSTANTS
    Nodes,          \* host inodes
    Names,          \* component names other than "." and ".."
    Slash,          \* the '/' separator
    Kind,           \* [Nodes -> {"dir", "lnk", "reg", "fifo", "sock", ...}]
    Child,          \* [Nodes \X Names -> Nodes \cup {NoNode}]: directory entries
    Target,         \* [Nodes -> Seq(Token)]: symlink contents
    Parent,         \* [Nodes -> Nodes]: the host's ".." of a directory
    Start,          \* the directory the guest's descriptor refers to
    Inputs,         \* guest pathnames tried
    MaxFds,         \* sizeof(fds) / sizeof(fds[0])      (128 in the code)
    MaxPaths,       \* sizeof(paths) / sizeof(paths[0])  (32 in the code)
    MaxExpansions,  \* the symlink expansion limit        (128 in the code)
    NoNode

Token == Names \cup {".", "..", Slash}
BufIds == 0 .. MaxPaths + 1

ASSUME /\ Start \in Nodes /\ Kind[Start] = "dir" /\ NoNode \notin Nodes
       /\ Slash \notin Names /\ "." \notin Names /\ ".." \notin Names
       /\ Inputs \subseteq Seq(Token)
       /\ MaxFds \in Nat \ {0} /\ MaxPaths \in Nat \ {0}
       /\ MaxExpansions \in Nat \ {0}

VARIABLES
    follow,      \* fd.flags & CLOUDABI_LOOKUP_SYMLINK_FOLLOW
    needsFinal,  \* needs_final_component
    fds,         \* fds[0 .. curfd] as a sequence of directories
    paths,       \* paths[0 .. curpath] as a sequence of [id, buf, pos]
    expansions,  \* symlink expansions so far
    live,        \* ids of pathname buffers allocated and not yet freed
    hostOpen,    \* descriptors opened by path_get and not yet closed
    lease,       \* the struct path_access returned on success
    status,      \* "run", "leased", "done", "failed", "invalid_free"
    error,       \* the error path_get returned
    input        \* ghost: the guest's pathname, as str_nullterminate made it

vars == <<follow, needsFinal, fds, paths, expansions, live, hostOpen, lease,
          status, error, input>>

NoLease == [dir |-> NoNode, name |-> "", slash |-> FALSE, start |-> -1]

-----------------------------------------------------------------------------
(* Splitting a component off paths[curpath].                              *)

RECURSIVE SkipSlashes(_, _)
SkipSlashes(b, i) == IF i <= Len(b) /\ b[i] = Slash THEN SkipSlashes(b, i + 1)
                     ELSE i

(* file .. file_end: the name at pos, "" if a slash or the end is there. *)
NameAt(e) == IF e.pos <= Len(e.buf) /\ e.buf[e.pos] # Slash
             THEN e.buf[e.pos] ELSE ""
NameEnd(e) == IF NameAt(e) = "" THEN e.pos ELSE e.pos + 1
EndsWithSlashes(e) == NameEnd(e) <= Len(e.buf) /\ e.buf[NameEnd(e)] = Slash
Advanced(e) == [e EXCEPT !.pos = SkipSlashes(e.buf, NameEnd(e))]
AtEnd(e) == e.pos > Len(e.buf)                   \* *paths[curpath] == '\0'

Top == paths[Len(paths)]
File == NameAt(Top)
Ews == EndsWithSlashes(Top)
Dirfd == fds[Len(fds)]
Entry == Child[Dirfd, File]
AfterSplit == [paths EXCEPT ![Len(paths)] = Advanced(Top)]
StartIds(ps) == {ps[i].id : i \in 1 .. Len(ps)}
FreshId(l) == CHOOSE i \in BufIds \ l : \A j \in BufIds \ l : i <= j

-----------------------------------------------------------------------------
(* Exits of the loop.                                                     *)

(* Fault variant: the fail loop runs i < curfd and leaks the top one.   *)
FailLeaksTop(err, ps) ==
    /\ hostOpen' = hostOpen - (IF Len(fds) > 1 THEN Len(fds) - 2 ELSE 0)
    /\ live' = live \ StartIds(ps)
    /\ status' = "failed"
    /\ error' = err
    /\ UNCHANGED <<fds, paths, lease>>

(* fail: close fds[1 .. curfd], free paths_start[0 .. curpath].           *)
Fail(err, ps) ==
    /\ hostOpen' = hostOpen - (Len(fds) - 1)
    /\ live' = live \ StartIds(ps)
    /\ status' = "failed"
    /\ error' = err
    /\ UNCHANGED <<fds, paths, lease>>

(* success: close fds[1 .. curfd - 1]; the top one is the lease's fd.     *)
Succeed(fs, ho, name, slash, start) ==
    /\ hostOpen' = ho - (IF Len(fs) > 1 THEN Len(fs) - 2 ELSE 0)
    /\ lease' = [dir |-> fs[Len(fs)], name |-> name, slash |-> slash,
                 start |-> start]
    /\ status' = "leased"
    /\ fds' = fs

(* The end of an iteration that did not expand a symlink: if paths[curpath]*)
(* is used up, either the whole lookup is done (the result is ".") or the *)
(* expansion is finished and free(paths[curpath--]) pops it.  That pointer*)
(* is past the component just split off, never paths_start[curpath]:      *)
(* freeing it is undefined, and the model stops the lookup there.         *)
Continue(fs, ps, ho) ==
    LET e == ps[Len(ps)] IN
    IF ~AtEnd(e)
    THEN /\ fds' = fs /\ paths' = ps /\ hostOpen' = ho
         /\ UNCHANGED <<live, lease, status>>
    ELSE IF Len(ps) = 1
    THEN /\ live' = live \ {e.id}
         /\ Succeed(fs, ho, ".", FALSE, -1)
         /\ paths' = ps
    ELSE /\ status' = "invalid_free"
         /\ fds' = fs /\ paths' = ps /\ hostOpen' = ho
         /\ UNCHANGED <<live, lease>>

(* Fault variants of push_symlink: the replaced buffer is not freed; the *)
(* expansions are not counted.                                            *)
PushSymlinkLeaks(ps, link, ews) ==
    LET id == FreshId(live)
        e == [id |-> id, pos |-> 1,
              buf |-> IF ews THEN Target[link] \o <<Slash>> ELSE Target[link]]
    IN
    IF expansions + 1 = MaxExpansions
    THEN /\ expansions' = expansions + 1 /\ Fail("ELOOP", ps)
    ELSE IF AtEnd(ps[Len(ps)])
    THEN /\ paths' = [ps EXCEPT ![Len(ps)] = e]
         /\ live' = live \cup {id}
         /\ expansions' = expansions + 1
         /\ UNCHANGED <<fds, hostOpen, lease, status, error>>
    ELSE IF Len(ps) = MaxPaths
    THEN /\ expansions' = expansions + 1 /\ Fail("ELOOP", ps)
    ELSE /\ paths' = Append(ps, e) /\ live' = live \cup {id}
         /\ expansions' = expansions + 1
         /\ UNCHANGED <<fds, hostOpen, lease, status, error>>

PushSymlinkUncounted(ps, link, ews) ==
    LET id == FreshId(live)
        e == [id |-> id, pos |-> 1,
              buf |-> IF ews THEN Target[link] \o <<Slash>> ELSE Target[link]]
    IN
    /\ UNCHANGED expansions
    /\ IF AtEnd(ps[Len(ps)])
       THEN /\ paths' = [ps EXCEPT ![Len(ps)] = e]
            /\ live' = (live \ {ps[Len(ps)].id}) \cup {id}
            /\ UNCHANGED <<fds, hostOpen, lease, status, error>>
       ELSE IF Len(ps) = MaxPaths
       THEN Fail("ELOOP", ps)
       ELSE /\ paths' = Append(ps, e) /\ live' = live \cup {id}
            /\ UNCHANGED <<fds, hostOpen, lease, status, error>>

(* push_symlink: count the expansion; replace paths[curpath] if it is used *)
(* up, else push the target; re-append the trailing slash if there was one.*)
PushSymlink(ps, link, ews) ==
    LET id == FreshId(live)
        e == [id |-> id, pos |-> 1,
              buf |-> IF ews THEN Target[link] \o <<Slash>> ELSE Target[link]]
    IN
    IF expansions + 1 = MaxExpansions
    THEN /\ expansions' = expansions + 1
         /\ Fail("ELOOP", ps)
    ELSE IF AtEnd(ps[Len(ps)])
    THEN /\ paths' = [ps EXCEPT ![Len(ps)] = e]
         /\ live' = (live \ {ps[Len(ps)].id}) \cup {id}
         /\ expansions' = expansions + 1
         /\ UNCHANGED <<fds, hostOpen, lease, status, error>>
    ELSE IF Len(ps) = MaxPaths
    THEN /\ expansions' = expansions + 1
         /\ Fail("ELOOP", ps)
    ELSE /\ paths' = Append(ps, e)
         /\ live' = live \cup {id}
         /\ expansions' = expansions + 1
         /\ UNCHANGED <<fds, hostOpen, lease, status, error>>

-----------------------------------------------------------------------------
(* The state path_get() is in after str_nullterminate() and               *)
(* fd_object_get() on the directory descriptor succeeded.                 *)
Init ==
    /\ follow \in BOOLEAN
    /\ needsFinal \in BOOLEAN
    /\ input \in Inputs
    /\ paths = <<[id |-> 0, buf |-> input, pos |-> 1]>>
    /\ fds = <<Start>>
    /\ expansions = 0
    /\ live = {0}
    /\ hostOpen = 0
    /\ lease = NoLease
    /\ status = "run"
    /\ error = "none"

Running == status = "run"
Keep == UNCHANGED <<follow, needsFinal, input>>

(* An empty component: a leading slash (absolute path) or an empty path.  *)
empty_component ==
    /\ Running /\ File = ""
    /\ Fail(IF Ews THEN "ENOTCAPABLE" ELSE "ENOENT", paths)
    /\ UNCHANGED expansions /\ Keep

(* Fault variant: ".." at fds[0] is not refused but opened on the host. *)
DotDotUnchecked ==
    /\ Running /\ File = ".."
    /\ IF Len(fds) = 1
       THEN Continue(Append(fds, Parent[Dirfd]), AfterSplit, hostOpen + 1)
       ELSE Continue(SubSeq(fds, 1, Len(fds) - 1), AfterSplit, hostOpen - 1)
    /\ UNCHANGED <<expansions, error>> /\ Keep

(* "." is skipped. *)
skip_dot ==
    /\ Running /\ File = "."
    /\ Continue(fds, AfterSplit, hostOpen)
    /\ UNCHANGED <<expansions, error>> /\ Keep

(* ".." pops and closes the top directory, but never fds[0].              *)
pop_dotdot ==
    /\ Running /\ File = ".."
    /\ IF Len(fds) = 1
       THEN Fail("ENOTCAPABLE", paths)
       ELSE /\ Continue(SubSeq(fds, 1, Len(fds) - 1), AfterSplit, hostOpen - 1)
            /\ UNCHANGED error
    /\ UNCHANGED expansions /\ Keep

(* A component that must be a directory: more components follow, it is   *)
(* inside a symlink expansion, or it has trailing slashes and the caller  *)
(* does not need the final name.                                          *)
MustBeDirectory ==
    /\ File \notin {"", ".", ".."}
    /\ \/ Len(paths) > 1
       \/ ~AtEnd(Advanced(Top))
       \/ Ews /\ ~needsFinal

(* Fault variant: no test that fds[] is full.                            *)
OpenNoLimit ==
    /\ Running /\ MustBeDirectory
    /\ \/ Entry = NoNode /\ Fail("ENOENT", paths)
       \/ /\ Entry # NoNode /\ Kind[Entry] \notin {"dir", "lnk"}
          /\ Fail("ENOTDIR", paths)
       \/ /\ Entry # NoNode /\ Kind[Entry] = "dir"
          /\ Continue(Append(fds, Entry), AfterSplit, hostOpen + 1)
          /\ UNCHANGED error
    /\ UNCHANGED expansions /\ Keep

(* openat(O_DIRECTORY | O_NOFOLLOW) and push it, or fail.                 *)
open_directory ==
    /\ Running /\ MustBeDirectory
    /\ \/ /\ Entry = NoNode
          /\ Fail("ENOENT", paths)
       \/ /\ Entry # NoNode /\ Kind[Entry] \notin {"dir", "lnk"}
          /\ Fail("ENOTDIR", paths)
       \/ /\ Entry # NoNode /\ Kind[Entry] = "dir"
          /\ IF Len(fds) = MaxFds
             THEN Fail("ENAMETOOLONG", paths)
             ELSE /\ Continue(Append(fds, Entry), AfterSplit, hostOpen + 1)
                  /\ UNCHANGED error
    /\ UNCHANGED expansions /\ Keep

(* openat() failed with ELOOP: readlinkat_dup() and push_symlink.         *)
expand_directory_symlink ==
    /\ Running /\ MustBeDirectory
    /\ Entry # NoNode /\ Kind[Entry] = "lnk"
    /\ PushSymlink(AfterSplit, Entry, Ews)
    /\ Keep

(* The final component is expanded if it has trailing slashes or the      *)
(* lookup follows symlinks, and readlinkat() finds a symlink.             *)
(* Fault variant: only the follow flag makes the final component expand. *)
ReadsLinkFollowOnly == follow /\ Entry # NoNode /\ Kind[Entry] = "lnk"

ReadsLink == (Ews \/ follow) /\ Entry # NoNode /\ Kind[Entry] = "lnk"

expand_final_symlink ==
    /\ Running /\ ~MustBeDirectory /\ File \notin {"", ".", ".."}
    /\ ReadsLink
    /\ PushSymlink(AfterSplit, Entry, Ews)
    /\ Keep

(* Otherwise (readlinkat() said EINVAL or ENOENT) the name is the result, *)
(* with its trailing slash put back, in the buffer paths_start[0].        *)
return_final_name ==
    /\ Running /\ ~MustBeDirectory /\ File \notin {"", ".", ".."}
    /\ ~ReadsLink
    /\ Succeed(fds, hostOpen, File, Ews, paths[1].id)
    /\ UNCHANGED <<paths, expansions, live, error>> /\ Keep

(* path_put(): free path_start, close the fd if it is not fd_number(fo).  *)
path_put ==
    /\ status = "leased"
    /\ live' = live \ {lease.start}
    /\ hostOpen' = hostOpen - (IF Len(fds) > 1 THEN 1 ELSE 0)
    /\ status' = "done"
    /\ UNCHANGED <<fds, paths, expansions, lease, error>> /\ Keep

Finished ==
    /\ status \in {"done", "failed", "invalid_free"}
    /\ UNCHANGED vars

(* One iteration of the lookup loop. *)
Loop ==
    \/ empty_component \/ skip_dot \/ pop_dotdot
    \/ open_directory \/ expand_directory_symlink
    \/ expand_final_symlink \/ return_final_name

Step == Loop \/ path_put

Next == Step \/ Finished

(* path_get() runs on one thread with nothing to wait for. *)
Spec == Init /\ [][Next]_vars /\ WF_vars(Step)

-----------------------------------------------------------------------------
(* Properties.                                                            *)

TypeOK ==
    /\ follow \in BOOLEAN /\ needsFinal \in BOOLEAN
    /\ fds \in Seq(Nodes) /\ Len(fds) \in 1 .. MaxFds
    /\ paths \in Seq([id : BufIds, buf : Seq(Token), pos : Nat])
    /\ Len(paths) \in 1 .. MaxPaths
    /\ expansions \in 0 .. MaxExpansions
    /\ live \subseteq BufIds
    /\ hostOpen \in Nat
    /\ status \in {"run", "leased", "done", "failed", "invalid_free"}

(* The directories below Start in the host tree, Start included. *)
Subtree ==
    LET RECURSIVE Grow(_)
        Grow(S) == LET S2 == S \cup ({Child[d, x] : d \in S, x \in Names}
                                      \ {NoNode})
                   IN IF S2 = S THEN S ELSE Grow(S2)
    IN Grow({Start})

(* Confinement: every directory the lookup holds open, and the directory  *)
(* of the lease it returns, lies at or below the guest's directory, and   *)
(* the name it returns is never "..": neither "..", nor absolute paths,   *)
(* nor symlinks lead a lookup out of the subtree.                         *)
Confined ==
    /\ \A i \in 1 .. Len(fds) : fds[i] \in Subtree
    /\ status \in {"leased", "done"} =>
          lease.dir \in Subtree /\ lease.name # ".."

(* Every directory descriptor path_get() opens is closed again: while it *)
(* runs the open ones are exactly fds[1 .. curfd]; a lease keeps only the *)
(* top one; after failure or path_put() none remain.                      *)
DescriptorsBalanced ==
    /\ status = "run" => hostOpen = Len(fds) - 1
    /\ status = "leased" => hostOpen = IF Len(fds) > 1 THEN 1 ELSE 0
    /\ status \in {"done", "failed"} => hostOpen = 0

(* Every pathname buffer (the copy of the guest path and each symlink     *)
(* target) is freed: while running the live ones are the stack's; a lease *)
(* keeps only path_start; after failure or path_put() none remain.        *)
BuffersReleased ==
    /\ status = "run" => live = StartIds(paths)
    /\ status = "leased" => live = {lease.start} \cap BufIds
    /\ status \in {"done", "failed"} => live = {}

(* Every lookup ends, symlink loops included.                             *)
Terminates == <>(status \in {"done", "failed", "invalid_free"})

(* path_get() only ever passes free() a pointer malloc() returned.        *)
NoInvalidFree == status # "invalid_free"

(* The result path_get() has returned: its lease, or its error.  A lookup *)
(* that reached the invalid free has not returned.                        *)
Returned ==
    CASE status \in {"leased", "done"} ->
           [ok |-> TRUE, dir |-> lease.dir, name |-> lease.name, slash |-> lease.slash]
      [] status = "failed" -> [ok |-> FALSE, err |-> error]
      [] OTHER -> [ok |-> FALSE, err |-> "pending"]

Resolver == INSTANCE PathResolve WITH result <- Returned

(* path_get() implements the lookup of section 4.F: whenever it returns,  *)
(* the directory, final name and trailing slash of its lease, or its      *)
(* error, are those of resolving the pathname by popping "..", splicing  *)
(* each symlink target into the pathname and checking the limits.        *)
ResolverRefined == Resolver!Spec
=============================================================================
