----------------------------- MODULE MC_PathGet -----------------------------
(* PathGet on the host tree of HostTree.  The limits of 128, 32 and 128    *)
(* in the code are scaled to 3 directories, 2 pathnames and 4 expansions,  *)
(* and the inputs reach each of them.                                      *)
EXTENDS PathGet, HostTree

MC_Inputs == LookupInputs
=============================================================================
