------------------------------ MODULE MC_Memory ------------------------------
(* Bit values of <cloudabi_types.h> and of two hosts' <sys/mman.h>:       *)
(* Linux, where the CloudABI msync bits happen to equal the host's, and   *)
(* Darwin, where CloudABI's MS_SYNC (4) is the host's MS_KILLPAGES.       *)
(* Two guest pages, one file page, one valid handle.                      *)
EXTENDS Memory

MC_Abi == [PROT_EXEC |-> 1, PROT_WRITE |-> 2, PROT_READ |-> 4,
           MAP_ANON |-> 1, MAP_FIXED |-> 2, MAP_PRIVATE |-> 4, MAP_SHARED |-> 8,
           MS_ASYNC |-> 1, MS_INVALIDATE |-> 2, MS_SYNC |-> 4]

Linux == [PROT_READ |-> 1, PROT_WRITE |-> 2, PROT_EXEC |-> 4,
          MAP_SHARED |-> 1, MAP_PRIVATE |-> 2, MAP_FIXED |-> 16, MAP_ANON |-> 32,
          MS_ASYNC |-> 1, MS_INVALIDATE |-> 2, MS_SYNC |-> 4,
          MS_KILLPAGES |-> 0, MS_VALID |-> 7]

Darwin == [PROT_READ |-> 1, PROT_WRITE |-> 2, PROT_EXEC |-> 4,
           MAP_SHARED |-> 1, MAP_PRIVATE |-> 2, MAP_FIXED |-> 16, MAP_ANON |-> 4096,
           MS_ASYNC |-> 1, MS_INVALIDATE |-> 2, MS_SYNC |-> 16,
           MS_KILLPAGES |-> 4, MS_VALID |-> 31]

(* Every protection word, and one with an unknown bit.                    *)
MC_ProtWords == 0 .. 8
(* Neither, private, shared and both kinds; anonymous and fixed variants; *)
(* an unknown bit, which sys_mem_map ignores.                             *)
MC_MapWords == {0, 4, 8, 12, 5, 9, 10, 7, 24}
(* Every msync word, and one with an unknown bit.                         *)
MC_MsWords == 0 .. 8
=============================================================================
