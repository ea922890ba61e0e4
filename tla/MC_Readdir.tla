----------------------------- MODULE MC_Readdir -----------------------------
(* Four entries whose records take 3, 4, 3 and 5 bytes, host cookies that*)
(* are not in entry order (as hashed telldir() values are), and buffers  *)
(* of 5, 6 and 9 bytes (the cfg's NBytes), each of which cuts a record.    *)
EXTENDS Readdir

MC_RecSize == <<3, 4, 3, 5>>
MC_Cookie == <<7, 5, 9, 2>>
=============================================================================
