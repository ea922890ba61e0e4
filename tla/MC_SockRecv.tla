----------------------------- MODULE MC_SockRecv -----------------------------
(* Guests asking for 0 to 3 descriptors, and peers sending 0 to 4, into a *)
(* table of two slots, one of them free.                                   *)
EXTENDS SockRecv

MC_Queued == {<<>>, <<"c">>, <<"c", "d">>, <<"c", "d", "e">>,
              <<"c", "d", "e", "f">>}
MC_Table0 == [s \in Slots |-> IF s = 0 THEN "a" ELSE "none"]
=============================================================================
