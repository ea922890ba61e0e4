--------------------------- MODULE MC_Descriptors ---------------------------
(* Slot 0 holds a (host descriptor 0) and slot 1 holds b (host descriptor *)
(* 4, no POLL_FD_READWRITE right); slot 2 is free for what sys_sock_recv()*)
(* receives, c and d (host descriptors 5 and 6); handle 3 is never valid. *)
(* With Million = 10 and IntMax = 3, a clock of 20 is 2 ms and 50 exceeds *)
(* INT_MAX.                                                                *)
EXTENDS Descriptors

CONSTANTS a, b, c, d

MC_Number == [o \in {a, b, c, d} |-> CASE o = a -> 0 [] o = b -> 4 [] o = c -> 5 [] OTHER -> 6]
MC_Table0 == [s \in {0, 1, 2} |-> CASE s = 0 -> a [] s = 1 -> b [] OTHER -> NoObj]
MC_CanPoll == [s \in {0, 1, 2} |-> s # 1]

R(fd) == [type |-> "fd_read", fd |-> fd]
C(t, abs) == [type |-> "clock", timeout |-> t, abstime |-> abs, clockOk |-> TRUE]
Other == [type |-> "other"]

MC_Inputs ==
    { <<R(0), C(50, FALSE)>>, <<Other, R(0)>>, <<R(2), C(20, FALSE)>>,
      <<C(20, TRUE)>>, <<>> }
MC_Vecs == {<<>>, <<0, 3>>, <<2, 0>>}
MC_Queued == {<<c>>, <<c, d>>}
=============================================================================
