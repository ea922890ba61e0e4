----------------------------- MODULE MC_FdTable -----------------------------
(* Model-checking instance of FdTable: two threads, three objects, the    *)
(* rights FD_READ and FILE_READDIR, of which only directories get readdir. *)
EXTENDS FdTable, TLC

CONSTANTS t1, t2, o1, o2, o3, Read, Readdir

MC_Threads == {t1, t2}
MC_Obj == {o1, o2, o3}
MC_Types == {"directory", "regular_file", "socket_stream"}
MC_Rights == {Read, Readdir}
MC_TypeBase == [ty \in MC_Types |->
                   IF ty = "directory" THEN {Read, Readdir} ELSE {Read}]
MC_TypeInh == [ty \in MC_Types |->
                   IF ty = "directory" THEN {Read} ELSE {}]

Symmetry == Permutations(MC_Threads) \cup Permutations(MC_Obj)
=============================================================================
