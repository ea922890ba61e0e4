------------------------------- MODULE Memory -------------------------------
(***************************************************************************)
(* The memory calls of src/libemulator/posix.c: sys_mem_advise,           *)
(* convert_mprot, sys_mem_map, sys_mem_protect, sys_mem_sync and          *)
(* sys_mem_unmap.  Each call translates CloudABI flag words into the      *)
(* host's and makes one host call; the flag words are numbers, and the    *)
(* translation is done bit by bit as the code does it.  The bit values of *)
(* both sides are the constants Abi and Host, so that one model covers    *)
(* hosts whose <sys/mman.h> differ.                                       *)
(*                                                                         *)
(* The host is the guest's address space (one page per address) and the  *)
(* page cache of one file: which file pages hold writes not yet on disk  *)
(* (dirty), and whether a write was ever thrown away (lost).  The guest's *)
(* stores and the kernel's background writeback are environment steps.   *)
(***************************************************************************)
EXTENDS Integers, FiniteSets, Bitwise

CONSTANTS
    Abi,        \* CLOUDABI_PROT_*, CLOUDABI_MAP_*, CLOUDABI_MS_* bit values
    Host,       \* PROT_*, MAP_*, MS_* of the host; MS_VALID: msync's mask
    Addrs,      \* page addresses the guest passes
    FilePages,  \* offsets of the one mappable file
    FileFds,    \* handles naming that file
    AnonFd,     \* CLOUDABI_MAP_ANON_FD
    BadFd,      \* a handle that is not in the table
    ProtWords, MapWords, MsWords,   \* flag words the guest passes
    Advice,     \* the five CLOUDABI_ADVICE_* values
    NoMap, NoPage

Prot == {"r", "w", "x"}
AbiProtBit == [r |-> Abi.PROT_READ, w |-> Abi.PROT_WRITE, x |-> Abi.PROT_EXEC]
HostProtBit == [r |-> Host.PROT_READ, w |-> Host.PROT_WRITE, x |-> Host.PROT_EXEC]
Mapping == [prot : SUBSET Prot, shared : BOOLEAN, page : FilePages \cup {NoPage}]
Errno == {"ok", "EINVAL", "ENOTSUP", "EBADF", "ENOMEM"}

VARIABLES
    maps,   \* the host's mapping at each address, or NoMap
    want,   \* what the guest asked for at each address (prot, shared)
    dirty,  \* file pages whose page-cache copy is newer than the disk
    lost,   \* a guest store to the file was discarded, never written
    ret     \* what the last call returned

vars == <<maps, want, dirty, lost, ret>>

Set(w, bit) == (w & bit) # 0

(* The protection a host word grants, and a guest word asks for.          *)
HostProt(nprot) == {r \in Prot : Set(nprot, HostProtBit[r])}
AbiProt(prot) == {r \in Prot : Set(prot, AbiProtBit[r])}

(* convert_mprot(): FALSE on unknown bits or on WRITE together with EXEC; *)
(* else the host word.                                                    *)
ConvertMprot(in) ==
    LET mask == Abi.PROT_READ | Abi.PROT_WRITE | Abi.PROT_EXEC
    IN IF (in | mask) # mask THEN [ok |-> FALSE, out |-> 0]
       ELSE IF Set(in, Abi.PROT_WRITE) /\ Set(in, Abi.PROT_EXEC)
       THEN [ok |-> FALSE, out |-> 0]
       ELSE [ok |-> TRUE,
             out |-> (IF Set(in, Abi.PROT_READ) THEN Host.PROT_READ ELSE 0)
                   | (IF Set(in, Abi.PROT_WRITE) THEN Host.PROT_WRITE ELSE 0)
                   | (IF Set(in, Abi.PROT_EXEC) THEN Host.PROT_EXEC ELSE 0)]

(* convert_mprot and the decoded protections, for each word the guest    *)
(* can pass: constant, so that TLC computes them once.                    *)
Mprot == [w \in ProtWords |-> ConvertMprot(w)]
Asked == [w \in ProtWords |-> AbiProt(w)]
Granted == [w \in ProtWords |-> HostProt(Mprot[w].out)]

Fail(r) == ret' = r /\ UNCHANGED <<maps, want, dirty, lost>>

Init ==
    /\ maps = [a \in Addrs |-> NoMap]
    /\ want = [a \in Addrs |-> NoMap]
    /\ dirty = {}
    /\ lost = FALSE
    /\ ret = "ok"

(* sys_mem_advise(): unknown advice (0 is none) is EINVAL; posix_madvise() changes    *)
(* nothing the model observes.                                            *)
mem_advise ==
    \E adv \in Advice \cup {0} :
        Fail(IF adv \in Advice THEN "ok" ELSE "EINVAL")

(* The host's mmap(): MAP_FIXED replaces what is at addr; otherwise the   *)
(* kernel picks a free address, or fails with ENOMEM.                     *)
HostMmap(addr, granted, nflags, page, asked) ==
    LET targets == IF Set(nflags, Host.MAP_FIXED) THEN {addr}
                   ELSE {a \in Addrs : maps[a] = NoMap}
    IN \/ targets = {} /\ Fail("ENOMEM")
       \/ \E a \in targets :
            /\ maps' = [maps EXCEPT ![a] = [prot |-> granted,
                          shared |-> Set(nflags, Host.MAP_SHARED), page |-> page]]
            /\ want' = [want EXCEPT ![a] = asked]
            /\ ret' = "ok"
            /\ UNCHANGED <<dirty, lost>>

(* sys_mem_map(): convert_mprot, exactly one of PRIVATE and SHARED, then  *)
(* an anonymous mapping (handle CLOUDABI_MAP_ANON_FD, offset 0) or one    *)
(* backed by the file behind fd_object_get(fd, 0, 0).  The reference is   *)
(* released right after mmap(), on the same thread.                      *)
MapFlagsSwapped(flags) ==
    (IF Set(flags, Abi.MAP_FIXED) THEN Host.MAP_FIXED ELSE 0)
    | (CASE (flags & (Abi.MAP_PRIVATE | Abi.MAP_SHARED)) = Abi.MAP_PRIVATE -> Host.MAP_SHARED
         [] OTHER -> Host.MAP_PRIVATE)
MapFlags(flags) ==
    (IF Set(flags, Abi.MAP_FIXED) THEN Host.MAP_FIXED ELSE 0)
    | (CASE (flags & (Abi.MAP_PRIVATE | Abi.MAP_SHARED)) = Abi.MAP_PRIVATE -> Host.MAP_PRIVATE
         [] OTHER -> Host.MAP_SHARED)
(* The same for the map flag words: the kind, MAP_ANON and nflags.        *)
MapKind == [f \in MapWords |-> f & (Abi.MAP_PRIVATE | Abi.MAP_SHARED)]
MapAnon == [f \in MapWords |-> Set(f, Abi.MAP_ANON)]
MapOut == [f \in MapWords |-> IF MapAnon[f] THEN MapFlags(f) | Host.MAP_ANON
                               ELSE MapFlags(f)]
mem_map ==
    \E addr \in Addrs, prot \in ProtWords, flags \in MapWords,
       fd \in FileFds \cup {AnonFd, BadFd}, off \in FilePages :
        LET cp == Mprot[prot]
            kind == MapKind[flags]
            valid == cp.ok /\ kind \in {Abi.MAP_PRIVATE, Abi.MAP_SHARED}
            anon == MapAnon[flags]
            asked == [prot |-> Asked[prot], shared |-> kind = Abi.MAP_SHARED]
        IN \/ ~cp.ok /\ Fail("ENOTSUP")
           \/ cp.ok /\ ~valid /\ Fail("EINVAL")
           \/ valid /\ anon /\ (fd # AnonFd \/ off # 0) /\ Fail("EINVAL")
           \/ valid /\ anon /\ fd = AnonFd /\ off = 0
              /\ HostMmap(addr, Granted[prot], MapOut[flags], NoPage, asked)
           \/ valid /\ ~anon /\ fd \notin FileFds /\ Fail("EBADF")
           \/ valid /\ ~anon /\ fd \in FileFds
              /\ HostMmap(addr, Granted[prot], MapOut[flags], off, asked)

(* sys_mem_protect(): convert_mprot, then mprotect(), which fails with    *)
(* ENOMEM on an unmapped page.                                            *)
mem_protect ==
    \E addr \in Addrs, prot \in ProtWords :
        LET cp == Mprot[prot]
        IN \/ ~cp.ok /\ Fail("ENOTSUP")
           \/ cp.ok /\ maps[addr] = NoMap /\ Fail("ENOMEM")
           \/ cp.ok /\ maps[addr] # NoMap
              /\ maps' = [maps EXCEPT ![addr].prot = Granted[prot]]
              /\ want' = [want EXCEPT ![addr].prot = Asked[prot]]
              /\ ret' = "ok"
              /\ UNCHANGED <<dirty, lost>>

(* The host's msync() on a shared file page: unknown bits are EINVAL; a  *)
(* synchronous flush writes the page back; MS_KILLPAGES (Darwin) drops    *)
(* it from the cache, with whatever it held.  Where MS_SYNC is 0         *)
(* (FreeBSD) a flush is synchronous unless MS_ASYNC is set.               *)
HostMsync(addr, word) ==
    LET m == maps[addr]
        cached == m # NoMap /\ m.shared /\ m.page # NoPage
        p == IF cached THEN m.page ELSE NoPage
        flushes == IF Host.MS_SYNC = 0 THEN ~Set(word, Host.MS_ASYNC)
                   ELSE Set(word, Host.MS_SYNC)
        kills == Host.MS_KILLPAGES # 0 /\ Set(word, Host.MS_KILLPAGES)
    IN \/ m = NoMap /\ Fail("ENOMEM")
       \/ m # NoMap /\ (word | Host.MS_VALID) # Host.MS_VALID /\ Fail("EINVAL")
       \/ m # NoMap /\ (word | Host.MS_VALID) = Host.MS_VALID
          /\ dirty' = (IF cached /\ (flushes \/ kills) THEN dirty \ {p} ELSE dirty)
          /\ lost' = (lost \/ (cached /\ kills /\ ~flushes /\ p \in dirty))
          /\ ret' = "ok"
          /\ UNCHANGED <<maps, want>>

(* The word sys_mem_sync() hands to msync(): its own argument flags, not  *)
(* the nflags it has just translated.                                     *)
MsyncArg(flags, nflags) == flags

(* sys_mem_sync(): exactly one of MS_ASYNC and MS_SYNC, then the          *)
(* translation into nflags, then msync().                                 *)
mem_sync ==
    \E addr \in Addrs, flags \in MsWords :
        LET mode == flags & (Abi.MS_ASYNC | Abi.MS_SYNC)
            nflags == (IF mode = Abi.MS_ASYNC THEN Host.MS_ASYNC ELSE Host.MS_SYNC)
                      | (IF Set(flags, Abi.MS_INVALIDATE) THEN Host.MS_INVALIDATE ELSE 0)
        IN \/ mode \notin {Abi.MS_ASYNC, Abi.MS_SYNC} /\ Fail("EINVAL")
           \/ mode \in {Abi.MS_ASYNC, Abi.MS_SYNC}
              /\ HostMsync(addr, MsyncArg(flags, nflags))

(* sys_mem_unmap(): munmap() of a page, mapped or not, succeeds.         *)
mem_unmap ==
    \E addr \in Addrs :
        /\ maps' = [maps EXCEPT ![addr] = NoMap]
        /\ want' = [want EXCEPT ![addr] = NoMap]
        /\ ret' = "ok"
        /\ UNCHANGED <<dirty, lost>>

(* The guest stores to a writable page; on a shared file mapping the      *)
(* file page becomes dirty.  The kernel writes dirty pages back whenever   *)
(* it likes.                                                              *)
store ==
    \E a \in Addrs :
        /\ maps[a] # NoMap /\ "w" \in maps[a].prot
        /\ dirty' = IF maps[a].shared /\ maps[a].page # NoPage
                    THEN dirty \cup {maps[a].page} ELSE dirty
        /\ UNCHANGED <<maps, want, lost, ret>>
flush ==
    \E p \in dirty :
        /\ dirty' = dirty \ {p}
        /\ UNCHANGED <<maps, want, lost, ret>>

Next == mem_advise \/ mem_map \/ mem_protect \/ mem_sync \/ mem_unmap
        \/ store \/ flush
Spec == Init /\ [][Next]_vars
-----------------------------------------------------------------------------
(* The bit-by-bit translations of mem_map and mem_protect are right for   *)
(* the host's values: after any sequence of calls, each mapped page has   *)
(* the protection and sharing the guest last asked for, and no page is    *)
(* mapped that the guest did not ask for.                                 *)
MappingAsRequested ==
    \A a \in Addrs :
        /\ (maps[a] = NoMap) = (want[a] = NoMap)
        /\ maps[a] # NoMap => /\ maps[a].prot = want[a].prot
                              /\ maps[a].shared = want[a].shared

(* A mem_sync that succeeds never throws away a store the guest made to   *)
(* a shared file mapping: every store reaches the disk or stays in the    *)
(* page cache.                                                            *)
NoLostWrite == ~lost
====
