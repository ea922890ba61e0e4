# TLA+ models of the CloudABI POSIX emulator

This directory models `src/src/libemulator/posix.c`. That file runs CloudABI
programs on an ordinary POSIX host. It translates each CloudABI system call
into host calls. It also keeps the state CloudABI needs and POSIX lacks: a
capability-style descriptor table with rights, and lookups confined to a
directory.

## 1. The system: parts, state, interactions

| Part | Code | State | Operations |
|---|---|---|---|
| Handle object | `struct fd_object`, `fd_object_new`, `fd_object_release` (241-254, 317-327, 443-462) | refcount, type, host number; for directories a mutex, a `DIR *` and a cookie | create, acquire, release (the last release closes through `closedir` or `close`) |
| Handle table | `struct fd_table`, `fd_table_*` (256-608) | `entries[size]` of {object, base rights, inheriting rights}, `used`, an rwlock | get_entry, grow, unused, attach, detach, insert, insert_fd, insert_fdpair, insert_existing |
| Table syscalls | `sys_fd_close/dup/replace/stat_put` (591-1041) | the table | close, dup, replace, restrict rights |
| Reference users | `fd_object_get` plus every I/O call (668-1160, 1766-1865, 2379-2570) | a reference held across the unlock | get, host call, release |
| Directory stream | `sys_file_readdir` (1614-1703) | `fo->directory.{lock, handle, offset}` | lazy `fdopendir`, seek on cookie, read records |
| Path resolver | `path_get`, `path_put`, `readlinkat_dup` (1168-1437) | fds stack (128), paths stack (32), expansion count (128) | one loop iteration per pathname component |
| Multiplexer | `sys_poll` (2103-2327) | subscriptions, `fos[]`, `pfds[]`, out events | futex short-circuit, single sleep, general poll |
| Maps | `convert_errno`, `convert_timespec`, `convert_timestamp` (85-207, 1790-1800) | none | pure conversions |
| Inferrer | `fd_determine_type_rights` (359-430) | none (host probe) | type and maximal rights of a host descriptor; `sys_file_open` (1495-1600) applies it |
| Threads, memory, process | `sys_thread_*`, `sys_mem_*`, `sys_proc_*` (1967-2100, 2330-2648) | the thread's table pointer | spawn, exit, map, protect, sync |

How they interact:

* Every guest thread shares one table (`curfds`).
* `sys_file_open` runs the resolver under rights it derives from the
  requested ones and the flags, opens the final name with `openat`, asks the
  inferrer what the new descriptor is, and inserts it into the table.
* `sys_file_create`, `sys_file_unlink`, `sys_file_symlink`,
  `sys_file_readlink`, `sys_file_stat_get` and `sys_file_stat_put` run the
  resolver with one fixed right and run one host call on the lease.
* Table sections run under the table's rwlock. Writers are close, dup, replace,
  restrict and the inserts. Readers are `fd_object_get` and poll's scan.
* A reference taken under the lock outlives the unlock. The object is freed,
  and its host descriptor closed, only by the last release. Close and replace
  release the detached object after unlocking.
* `path_get` begins with an `fd_object_get` on the directory. It resolves the
  path on the host by `openat`/`readlinkat` with no lock held, and returns a
  lease. `path_put` closes the lease's directory and drops the reference.
* Readdir serializes on the object's own mutex and installs the `DIR` once.

What makes the code hard to test:

* other threads run between a lock section and the release that follows it;
* a pointer to a table slot is taken before a call that moves the table;
* error paths that must release exactly what was created;
* symlink expansion, which juggles two stacks and three limits;
* poll's timeout arithmetic.

## 2. Modules

| Module | Models | Composes |
|---|---|---|
| `FdTable` | handle objects, table, table syscalls, reference users, readdir locking | — |
| `MC_FdTable` | 2 threads, 3 objects, 3 types, 2 rights | `FdTable` |
| `PathGet` | `path_get` (emulated, no Capsicum) and `path_put` | — |
| `HostTree` | the host tree (18 nodes: directories, files, symlinks, a FIFO, a socket) and 19 lookup paths, shared by the two MC modules below | — |
| `MC_PathGet` | the tree and the 19 paths (for `MC_PathGet_invalid_free.cfg`) | `PathGet`, `HostTree` |
| `PathCalls` | the single-lease path calls. For `sys_file_open`: rights and mode computation, `openat`, the ENXIO mapping, `fd_determine_type_rights`, insertion. For create, unlink, symlink, readlink, stat_get and stat_put: the argument check, the right, the host call and its error mapping. All of them run the lookup, against a host process renaming a symlink | `PathGet` (as `Lookup`), `PathResolve` |
| `MC_PathCalls` | the tree, 23 paths, the 7 calls, 8 open requests, 2 directory rights, the cloudabi maximum rights | `PathCalls`, `HostTree` |
| `Poll` | `sys_poll`: single-clock sleep and the general poll path, with a concurrent `sys_fd_close` | — |
| `MC_Poll` | 2 objects behind 3 slots, 13 subscription vectors (for `MC_Poll_timeout.cfg`, outside the runs) | `Poll` |
| `SockSend` | `sys_sock_send` with descriptors attached: references across `sendmsg` | — |
| `SockRecv` | `sys_sock_recv`: control buffer size, host truncation, insertion into the table or close | — |
| `MC_SockRecv` | ILP32 and LP64 control-message layouts, 0 to 3 wanted, 0 to 4 sent, one free slot | `SockRecv` |
| `Descriptors` | `sys_poll`, `sys_sock_send` and `sys_sock_recv` in three threads on one table, with a closing thread | `Poll`, `SockSend`, `SockRecv` |
| `MC_Descriptors` | 3 slots, 4 objects (2 received), 5 poll vectors, 3 send vectors, 2 peer messages | `Descriptors` |
| `PathResolve` | the abstract confined lookup of spec §4.F, as a RECURSIVE set of outcomes | — |
| `Readdir` | `sys_file_readdir`'s cursor: cached offset, seek, read loop, record truncation | — |
| `MC_Readdir` | 4 entries, 3 guest threads, 3 buffer sizes | `Readdir` |
| `Memory` | `sys_mem_advise/map/protect/sync/unmap` and their flag translations, over a host with a page cache | — |
| `MC_Memory` | the CloudABI bit values and the Linux and Darwin ones; 2 addresses, 1 file page | `Memory` |
| `TimeMap` | `convert_timespec`, `convert_timestamp`, `sys_clock_time_get`, `sys_file_stat_fput/put` and `convert_utimens_arguments` | — |
| `MC_TimeMap` | a 4-bit timestamp, 3 ns per second, 8 flag words | `TimeMap` |

### FdTable

* **State.** `entries`, `size` and `used` are `struct fd_table`. `refcount`,
  `type`, `dirHandle` and `dirLock` are the objects' fields. `objState`
  records malloc and free. `hostCloses` counts `close`/`closedir` calls on
  each object's host descriptor. `pc`, `held` and `held2` record where each
  thread is inside a system call and which references it holds across an
  unlock.
* **Actions.** Each action is one locked section, or one step done outside
  the lock. The table calls are:
  * `fd_table_insert` (with its realloc-failure path);
  * `fd_create_socketpair` with `fd_table_insert_fdpair`;
  * `sys_fd_close`, `sys_fd_replace`, `sys_fd_dup`, `sys_fd_stat_put_rights`.

  Where a thread holds a reference across an unlock:
  * `fd_object_get` followed by `host_call` (e.g. `sys_fd_sync`);
  * `readdir_get`, `readdir_lock` and `readdir_read`, then `release_detached`.
* **Rights.** Rights are sets of model values. `fd_table_get_entry` only
  ever applies subset tests to them.
* **fd_dup.** The model chooses whether the grow moved the array (`moved`).
  When it did, the dangling read returns the old bytes. It is recorded in
  `staleRead`.
* **fd_replace(x, x).** This crashes (`crashed`). Nothing runs after a crash.

### PathGet

* **Pathnames.** A pathname is a sequence of tokens: names, `"."`, `".."` and
  `Slash`. The code's `strcspn`/`strspn` split is `NameAt`, `EndsWithSlashes`
  and `Advanced`.
* **Stacks.** `fds` is `fds[0..curfd]`. `paths` is `paths[0..curpath]` as
  records {buffer id, tokens, position}. `live` is the set of allocated
  buffers. `hostOpen` counts descriptors opened and not yet closed.
* **Actions.** Each action is one loop iteration, by the branch it takes:
  * `empty_component`;
  * `skip_dot`;
  * `pop_dotdot`;
  * `open_directory` (`ENOENT`, `ENOTDIR`, `ENAMETOOLONG`, or push);
  * `expand_directory_symlink` (openat said `ELOOP`);
  * `expand_final_symlink`;
  * `return_final_name`.

  `path_put` ends a lease. The end of an iteration, with its pop and free, is
  `Continue`. `push_symlink` is `PushSymlink`. `success:` and `fail:` are
  `Succeed` and `Fail`.
* **The host tree.** It is a constant: `Child`, `Kind` and `Target`.
* **Refinement.** `input` is a ghost of the guest's pathname. `Returned`
  maps the code's state to the abstract result: the lease's directory,
  final name and trailing slash once `success:` has run, the error once
  `fail:` has, and pending before. `ResolverRefined` is
  `PathResolve!Spec` under that mapping.

### PathResolve

What a confined lookup promises, without descriptors, buffers or
pointers. `Outcomes(d, s, x)` is the set of results of resolving the
stack `s` of token sequences (the top one is read) from the stack `d` of
directories walked through, after `x` expansions. It recurses through
`Proceed`, which pops a used-up pathname, and `Expand`, which replaces a
used-up pathname by the symlink's target or pushes the target on top.
It keeps the three limits of spec section 4.F: 128 directories
(`ENAMETOOLONG`), 32 nested pathnames and 128 expansions (both `ELOOP`).
So ELOOP in the middle of a pathname comes only from a full pathname
stack, as in the code.
`resolve` returns one of the outcomes in one step.

### PathCalls

* **State.** The lookup's variables are `PathGet`'s, and `Lookup ==
  INSTANCE PathGet` gives its actions. `call` is the system call that runs.
  `badArg` is the argument error `sys_file_create` (a type other than a
  directory) and `sys_file_stat_put` (an unknown flag) return as `EINVAL`
  before the lookup. `removedir` is unlink's `CLOUDABI_UNLINK_REMOVEDIR`.
  `acted` is the entry a host call other than `openat` found under the name.
  `req` is the guest's `fdstat` and `oflags`, for open. `dir` is the directory entry's rights. `fpc` is where the call is.
  `nfd` is the host descriptor `openat` returned, with its access mode and
  whether it created or truncated a file. `entry` is the table entry made,
  and `ret` is the result.
* **Derived values.** `IsRead`, `IsWrite` and `AccMode` are the open-mode
  choice. `NeededBase` and `NeededInheriting` (with `FlagRights`) are the
  rights asked of the directory for open; `CallRight` is the one right
  each other call asks. `Denied` is `fd_table_get_entry`'s subset test.
  `NeedsFinalOf` is the `needs_final_component` argument, and
  `NoFollowCalls` the calls that use `path_get_nofollow`.
* **Actions.** There is one action per section of the call:
  * `path_get_rights` is `path_get`'s `fd_object_get`;
  * `lookup` is one loop iteration of `PathGet`, and `lookup_failed` passes
    its error on;
  * `openat` is the host open with `O_NOFOLLOW` (`pa->follow` is always false
    in emulated mode), the ENXIO/ENOTSUP branch, and `path_put` on every
    branch;
  * `insert` is `fd_determine_type_rights`, then `fd_table_insert_fd`, whose
    `ENOMEM` branch closes the descriptor;
  * `bad_argument` is the early `EINVAL` of create and stat_put;
  * `host_call` is `mkdirat`, `unlinkat`, `symlinkat`, `readlinkat`,
    `fstatat` or `utimensat` on the lease, then `path_put`, unlink's
    EISDIR-to-EPERM mapping (`UnlinkError`) and stat_get's file type
    (`StatType`: a FIFO and every socket are `SOCKET_STREAM`).
* **The environment.** `rename_over` is another host process renaming a
  symlink to `/etc` over the returned name, between `path_get` and `openat`
  (the race the comment at posix.c:1336 and spec section 4.F accept).
* **The host.** `HostOpen` is what Linux's `openat` does with those flags:
  * `O_CREAT` with a trailing slash is `EISDIR`;
  * a symlink is followed if the name has a trailing slash or `O_NOFOLLOW`
    is absent;
  * `O_TRUNC` on a read-only open may truncate, since it is unspecified.

  `HostMkdir`, `HostSymlink`, `HostUnlink`, `HostReadlink` and `HostStat`
  are what Linux does for the other calls. `mkdirat` and
  `symlinkat` never follow and fail with `EEXIST` on any entry. `unlinkat`
  never follows: with `AT_REMOVEDIR` it refuses `.`, non-directories and
  non-empty directories; without it, a directory is `EISDIR` and a
  trailing slash on anything else is `ENOTDIR`. `fstatat` and `utimensat`
  follow a symlink when `AT_SYMLINK_NOFOLLOW` is absent or the name ends in
  a slash.
* **Inferrer.** `fd_determine_type_rights` is an operator over the host file
  kinds, less `FD_WRITE` or `FD_READ` by the access mode. The
  `RIGHTS_*_BASE/INHERITING` constants come from the cloudabi headers, which
  are not in the repository. `MC_PathCalls` gives them cut down to the
  rights used.

### Poll

* **State.** The variables mirror `sys_poll`'s locals: `subs` (`in`),
  `fos`, `pfds`, `revents`, `out`, `timer` (`clock_subscription`),
  `timeout`, `ret` and `error`. The table's slots (`entries`), `refcount`
  and `closed` are the part of `FdTable` that a concurrent `sys_fd_close`
  touches.
* **Actions.**
  * `sleep` is the one-clock branch (the `clock_nanosleep` build).
  * `scan` is the two mallocs and the loop under the read lock, then the
    timeout computation (`PollTimeout`).
  * The host's `poll()` is `poll_ready`, `poll_timeout` or
    `poll_interrupted`.
  * `collect` is the code after `poll()`, with `PollEvent` the
    `revents` else-chain. `release` is the final release loop.
  * `close_slot` is the other thread.
  * `waited` records the nanoseconds a timed-out `poll()` slept: the
    millisecond timeout times `Million`, the least the kernel waits.
* **Scaling.** `Million` (ns per ms) and `IntMax` are scaled to 10 and 3, so
  the three timeout regimes (below 1 ms, in range, above `INT_MAX`) fit
  TLC's integers.

### SockSend

* **State.** `vec` is `in->si_fds`. `fos` is `fos[0 .. nfos-1]`. `entries`,
  `refcount` and `closed` are the table, as in `Poll`. `stale` is a ghost:
  `sendmsg` was passed a closed descriptor.
* **Actions.** The actions are `send_alloc` (the two allocations),
  `send_acquire`, `send_sock`, `sendmsg` and `send_release` (`out:`).
  `send_acquire` is the loop under the read lock, stopping at the first bad
  number. `send_sock` is the socket lookup. `close_slot` is the other
  thread.

### SockRecv

* **State.** `fdsLen` is `ri_fds_len`, and `queued` is what the peer sent.
  `delivered` is what fits in the control buffer. `fdslen` is the loop
  counter, and `written` is the set of `ri_fds` indices stored. `reclosed`
  is a ghost: `close()` was called on a closed descriptor. A received
  descriptor is an object that no slot holds yet.
* **Actions.**
  * `recv_alloc` and `recv_get` are the two early returns.
  * `recvmsg` is the host's: an error, or the first descriptors that fit in
    `CMSG_SPACE(ri_fds_len * sizeof(int))`. The host closes the rest.
  * `install` is one iteration of the loop. The descriptor goes into a free
    slot with one reference. Or `fd_determine_type_rights` fails and the
    loop closes it. Or `fd_table_insert_fd` fails after closing it itself,
    and the loop closes it again.
  * `recv_done` returns.
* **Bounds.** The table does not grow beyond its slots. With no free slot,
  the insertion fails as a failed `realloc` would.
* **Layouts.** `IntSize`, `CmsgHdr` and `CmsgAlign` are the host's
  `sizeof(int)`, `sizeof(struct cmsghdr)` and `CMSG_ALIGN` unit: 4/12/4
  on ILP32, and 4/16/8 on LP64.

### Descriptors

The three calls above as three guest threads, sharing `entries`,
`refcount` and `closed`. Each call is an `INSTANCE` whose program counter
and locals are renamed (`ppc`, `spc`, `rpc`, ...). A thread's step leaves
the other threads' locals unchanged, and the closing thread is `Poll`'s
`close_slot`. Received descriptors land in slot 2. That slot starts
free, and poll vector `<<R(2), C(20, FALSE)>>` and send vector `<<2, 0>>`
name it. So both calls may find a descriptor that `sys_sock_recv` has
just inserted, or the EBADF of the free slot. `ReferencesCounted` is the
one invariant no single module can state. It says that an object's
count is its slots, plus poll's references, plus send's references.

### Readdir

* **State.** `handle`, `pos` and `offset` are the object's `DIR` stream,
  its position and `fo->directory.offset`. Each guest thread has its
  `cookie`, the entries it has listed (`got`) and its state.
* **Actions.** `file_readdir(t)` is one whole call, since the directory
  mutex covers it. It is the lazy `fdopendir` and the seek when the cookie
  is not the cached offset (`Seek`). Then the read loop, with
  `file_readdir_put` cutting the last record at `nbyte` (`BufUsed`), and
  the offset saved from `telldir` (`DNext`). The guest keeps the whole
  records and continues from the last `d_next`. `rewind(t)` starts a
  listing again.
* **Host.** `Cookie[p]` is `telldir()` after entry `p`. `HostErrors` lets
  `readdir()` fail after any entry.

### Memory

* **State.** `maps` is the host's mapping per address: the file page or
  anonymous memory behind it, its host protection and whether it is
  shared. `want` is a ghost of what the guest asked for, in CloudABI terms.
  `dirty` is the set of file pages with stores not yet written back, and
  `lost` records a discarded store. `ret` is the last result.
* **Actions.** One per syscall: `mem_advise`, `mem_map`, `mem_protect`,
  `mem_sync` and `mem_unmap`. Each has every early return of the code as a
  disjunct. The host's `mmap`, `mprotect` and `msync` are `HostMmap`, the
  mapping update and `HostMsync`. `store` and `flush` are the environment:
  a guest write to a shared page, and the kernel's own write-back.
* **Translations.** `ConvertMprot` and `MapFlags` are bit operations over
  the `Abi` and `Host` records, precomputed as tables (`Mprot`, `MapKind`,
  `MapOut`) over the flag words the guest may pass. `MsyncArg` is line
  2092: the guest's flags go to `msync` unconverted.

### TimeMap

* **State.** `clock` is the host's realtime clock, as a `{sec, nsec}`
  timespec. `times` holds the file's `st_atim` and `st_mtim`, `size` its
  size. `asked` is a ghost of how the guest last set each time: to the
  clock (`now`) or to a timestamp (`value`).
* **Actions.** `clock_tick` moves the clock forward by a nanosecond.
  `clock_time_get`, `file_stat_fput` and `file_stat_put` are the syscalls,
  with every flag combination the code tells apart. `file_stat_fput` with
  `SIZE` alone is `ftruncate`, which marks `st_mtim` when the size changes.
* **Scaling.** A second has `Billion` = 3 ns, a timestamp `Width` = 4 bits
  and `time_t` tops out at `timeMax`, which a behaviour picks from
  `TimeMaxes` = {3, 6} (two builds) and keeps. With 6 the clamp of
  `convert_timespec` (at `UintMax \div Billion` = 5 s) bites first; with 3
  (a 32-bit `time_t`) the clamp of `convert_timestamp` does.
  The clock starts at second -1, so the negative-time cut-off is reached.

## 3. Runs

| Run | Checks | Shows |
|---|---|---|
| `fdtable_safety` (pass) | TypeOK, ReferencesCounted, HeldDescriptorOpen, DescriptorClosedOnce, TableHalfFree, RightsWithinType, DirLockHeldByReader | 2,107,843 distinct states of two threads interleaving every operation |
| `fdtable_replace_self` (violation) | NoNullDereference | `fd_replace(x, x)` dereferences NULL (posix.c:890) |
| `fdtable_dup_realloc` (violation) | NoStaleEntryRead | `fd_dup` reads the entry through a pointer into the array `realloc` freed (posix.c:737) |
| `path_calls` (pass) | TypeOK, Confined, DescriptorsBalanced, BuffersReleased, OpenAuthorized, OpenConfined, NoHostFdLeak, Terminates, ResolverRefined | 5,140 states of the seven single-lease path calls with their lookup. Every lookup stays below its directory, closes what it opens and frees its buffers, and every call returns. A lookup the rights allow implements `PathResolve`. The host creates, truncates and grants only what the directory's rights pass on. No call opens, stats, reads, changes or removes an entry outside the subtree, even with the rename race. The new host descriptor is in the table or closed. |
| `pathget_invalid_free` (violation) | NoInvalidFree | `free(paths[curpath--])` gets an interior pointer whenever a directory-symlink expansion is used up (posix.c:1366) |
| `descriptors` (pass) | TypeOK, ReferencesCounted, PolledDescriptorOpen, OneEventPerSubscription, ReturnReportsEvent, SentDescriptorsOpen, NoDescriptorLeak, ImmediateErrorsReturn | 936,964 states of poll, send, recv and a closer on one table (ILP32 layout, where the control buffer has room for exactly the descriptors asked for, so `WritesWithinFds` is checked only by `sock_recv_lp64`). Every reference is accounted for. Polled and sent descriptors stay open. Received ones end in the table or closed. Poll reports each subscription once, reports an event on success, and returns after an immediate error |
| `memory_safety` (pass) | MappingAsRequested | on Linux every host mapping has the protection and sharing the guest asked for, through map, protect and unmap |
| `memory_sync_darwin` (violation) | NoLostWrite | on Darwin `mem_sync(MS_SYNC)` passes CloudABI's `MS_SYNC` (4) to `msync`, where 4 is `MS_KILLPAGES`: a shared store is discarded (posix.c:2092) |
| `time_map` (pass) | TypeOK, TimesAsAsked, ClockNonDecreasing | 8,790 states over both `time_t` widths. A time set through `stat_fput`/`stat_put` reads back through `stat_fget` as set, or saturated. The clock never reads backwards across the conversion's cut-offs. `convert_timestamp`'s clamp keeps every time a valid `time_t` |
| `readdir_listing` (pass) | ListingComplete | 350 states of three threads sharing a stream. Each thread lists the entries in order, none twice, and a listing that reaches the end has them all |
| `sock_recv_lp64` (violation) | WritesWithinFds | on LP64 `CMSG_SPACE(4)` is 24 bytes, room for two descriptors, so a guest asking for one gets two and `ri_fds[1]` is written (posix.c:2395) |
| `sock_recv_double_close` (violation) | DescriptorClosedOnce | a received descriptor that `fd_table_insert_fd` fails to insert is closed by it and then again by the loop (posix.c:2433) |

Two properties are stated but checked by no run:

* **TimedPollReturns** (Poll). `MC_Poll_timeout.cfg` shows it failing: a
  relative timer above `INT_MAX` ms becomes an infinite `poll()` timeout
  (posix.c:2255). The spec says the timeout is clamped.
* **ClockEventNotEarly** (Poll). It fails with the 5 ns timer of `MC_Poll`,
  which is truncated to a 0 ms `poll()` (posix.c:2254).

`Readdir` with `HostErrors` TRUE shows that a `readdir()` error after
some records reads as the end of the directory (posix.c:1657). The spec
says nothing about that case.

What the properties of `path_calls` add to `PathGet`'s:

* **OpenAuthorized.** A file is created only with `FILE_CREATE_FILE` on the
  directory. An existing file is truncated only if the directory passes on
  `FILE_STAT_FPUT_SIZE`, read-only opens included. The new descriptor's
  rights are all passed on by the directory.
* **OpenConfined.** The node opened, or the entry another host call acts
  on, lies in the subtree, or is what the call created there, or is the
  renamed symlink itself; whether or not the rename happened. Without a
  trailing slash, `O_NOFOLLOW` and `AT_SYMLINK_NOFOLLOW` refuse the renamed
  symlink. A trailing slash comes back from `path_get` only with
  `needs_final_component`: open with `O_CREAT`, which Linux refuses with
  `EISDIR` (a model without that rule finds the escape through `sub/`), and
  mkdir, unlink and symlink, which never follow.

What each property of `fdtable_safety` says:

* **ReferencesCounted.** A live object's refcount equals the slots pointing
  at it plus the references threads hold.
* **HeldDescriptorOpen.** A thread between get and release always works on an
  open descriptor (spec scenario 4).
* **DescriptorClosedOnce.** Each host descriptor is closed exactly once, and
  only when its object is freed.
* **TableHalfFree.** `used` counts the occupied slots, and at least half the
  table is free (the assertion in `fd_table_attach`).
* **RightsWithinType.** No slot has rights beyond its type's maximum. Readdir
  relies on this, because it checks the right and never the type.
* **DirLockHeldByReader.** A directory mutex is held only by a thread inside
  readdir on that object.

Every property of a passing run has a fault variant in its module. Each is a
plausible bug: a dropped check, a missing `refcount_acquire` or unlock, an
off-by-one, a forgotten free. TLC finds the property violated when the
variant replaces the definition it mutates (see `mutants` in `PROJECT.json`).

### Bounds

**FdTable:** 2 threads, 3 objects, `MaxUsed` = 2 occupied-or-pending slots,
up to 4 slots. This is enough for the cases that matter:

* a grow from 0 to 2 to 4;
* two threads contending for the same object, one closing it while the other
  holds it;
* replace and dup of shared objects;
* both outcomes of `fdopendir`;
* the socket pair's partial failure.

**PathGet:** the code's limits of 128 directories, 32 pathnames and 128
expansions are scaled to 3, 2 and 4. The inputs reach each limit:
`sub/d/e/ok`, `s2/e` and `loop`. They also reach every error and every
branch of `push_symlink`, and the scenarios of spec §8:

* confinement: `../etc` and `sub/../..`;
* symlink escape: `bad/ok`, `bad`, `up`, `/etc`.

**PathCalls:** every call runs on every path. The tree adds `x` (absent, for `O_CREAT`), a FIFO, a socket
and `sub/` to the lookup paths. The 8 requests cover:

* each open mode;
* `O_CREAT` with and without `O_EXCL`, and `O_DIRECTORY`;
* `O_TRUNC` read-only and write-only;
* `APPEND`, `DSYNC`, `RSYNC` and `SYNC`.

One directory passes on every right used. The other passes on only read
rights, `FILE_STAT_GET` and `FILE_READLINK`, so each missing right in a
mutant is reached and the other calls meet `ENOTCAPABLE`.

**Descriptors:** the poll vectors cover:

* a timer above the `INT_MAX` ms cut-off next to host descriptor 0;
* an unsupported type before a valid descriptor;
* a relative timer next to the slot that `sys_sock_recv` fills;
* the single sleep;
* the empty vector.

The send vectors cover none, a valid then an invalid number, and the
receiver's slot then a valid one. The peer sends one or two descriptors
to a guest asking for one or two, so truncation, insertion and both
failures occur. Each property's fault variant is caught with these
inputs.

**SockRecv** (the violation runs): 0 to 3 wanted, 0 to 4 sent, one free
slot.

**Readdir:** 4 entries of record sizes 3, 4, 3 and 5, and buffers of 5, 6
and 9 bytes. A record is cut at every buffer size. Three threads, so one
thread's call can move the stream between another's calls.

**Memory:** two addresses, so a `MAP_FIXED` overlay and an address-space
exhaustion (ENOMEM) both happen; one file page, mapped shared and private;
protection words 0..8 (every combination and one unknown bit); nine mapping
words (anonymous, private, shared, fixed, both, neither, an unknown bit);
sync words 0..8. The bit values are the real ones of CloudABI, Linux and
Darwin.

**TimeMap:** timestamps just below, at and above both clamps (5, 10, 14,
15); two sizes; eight flag words covering SIZE
alone and mixed, each plain and `_NOW` flag, `_NOW` with its plain flag,
and an unknown flag; a valid and an unknown clock.

### Fairness

FdTable checks safety only. The directory mutex and the rwlock are not
fair, so a starvation-free liveness property would need fairness the code
does not give.

PathGet runs on one thread with nothing to wait for, so weak fairness of
its step is just "a running function keeps running".

Memory and TimeMap check safety only: they are single calls of one
thread, and what they promise holds in every state.

Descriptors (like Poll) gives weak fairness only to the polling thread's
own steps, and to `poll_timeout`: the kernel returns from `poll()` once a
finite timeout expires. Descriptor readiness, signals, the closing thread
and the socket calls are the environment's, and get no fairness. So the
liveness property only ever relies on poll's own thread.

Readdir and PathResolve check safety only.

PathCalls gives weak fairness to the call's own steps, which run on one
thread. The renaming host process gets none: it may never act.

## 4. Not modelled (yet), and the plan

* **Done:** the single-lease path calls (`sys_file_open` with the inferrer; create, unlink, symlink, readlink, stat_get, stat_put), the time maps, the memory calls, the readdir cursor,
  `sock_send`/`sock_recv` with their composition with `sys_poll`, and the
  abstract resolver with `PathGet`'s refinement.
* **Next sittings, in order:**
  1. Poll's event order against an abstract specification of §4.H, by
     refinement.
  2. Composition of `PathGet` with `FdTable`'s reference on the directory
     object (the rights computation is in `PathCalls`).
  3. `fd_table_insert_existing`, and a table in `Descriptors` that grows.
  4. A readdir cursor against an abstract directory listing, as a
     refinement.
* **Out of scope:**
  * `convert_errno` is a table from host to CloudABI error names. The models
    use the same name on both sides.
  * `MEM_MAP` is in neither open-mode list. A descriptor opened write-only
    with `MEM_MAP` keeps it, and the host's `mmap` refuses it with
    `EACCES`. This is a usability issue, not a rights escape, so no property
    states it.
  * `mem_map` never checks the descriptor's rights; the model has no
    rights for the file descriptors it maps, so this is a hazard only.
  * The two-lease calls `sys_file_link` and `sys_file_rename` are not
    modelled: two lookups on two directory descriptors, and on OS X a
    symlink copy, would square the lookup's state space. Their host calls
    never follow the final name (`linkat` without `AT_SYMLINK_FOLLOW`,
    `renameat`), so the rename race acts at most on the symlink itself as
    for unlink. `sys_file_readdir`'s lookup-free path is `Readdir`.
  * Thread start and process calls have no shared state beyond the table
    pointer.
