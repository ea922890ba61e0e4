------------------------------- MODULE MC_Poll -------------------------------
(* Two objects behind three slots: a (host descriptor 0) at slots 0 and 2, *)
(* both with POLL_FD_READWRITE, b (host descriptor 4) at slot 1 without   *)
(* it; handle 3 is unused.  With Million = 10 and IntMax = 3, a clock of  *)
(* 5 truncates to 0 ms, 20 is 2 ms and 50 exceeds INT_MAX.                *)
EXTENDS Poll

CONSTANTS a, b

MC_Number == [o \in {a, b} |-> IF o = a THEN 0 ELSE 4]
MC_Table0 == [s \in {0, 1, 2} |-> IF s = 1 THEN b ELSE a]
MC_CanPoll == [s \in {0, 1, 2} |-> s # 1]

R(fd) == [type |-> "fd_read", fd |-> fd]
W(fd) == [type |-> "fd_write", fd |-> fd]
C(t, abs) == [type |-> "clock", timeout |-> t, abstime |-> abs, clockOk |-> TRUE]
Other == [type |-> "other"]

MC_Inputs ==
    { <<R(0)>>, <<R(0), C(20, FALSE)>>, <<R(2), C(50, FALSE)>>,
      <<R(1), C(20, FALSE)>>, <<W(2), R(3), C(5, FALSE)>>,
      <<C(20, FALSE), R(0), C(20, FALSE)>>, <<C(20, TRUE), R(2)>>,
      <<C(20, FALSE)>>, <<[C(20, TRUE) EXCEPT !.clockOk = FALSE]>>,
      <<Other, R(2)>>, <<>>, <<R(0), W(2)>>, <<R(0), C(5, FALSE)>> }
=============================================================================
