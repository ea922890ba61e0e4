------------------------------ MODULE HostTree ------------------------------
(* The host tree the lookup models run on.  The guest's directory is       *)
(* "root"; "etc" lies beside it, outside.  Symlinks: bad -> /etc,          *)
(* up -> ../etc, loop -> loop, sl -> sub, s2 -> sl/d, sub/back -> ..       *)
(* Beside the directories and regular files, root holds a FIFO ("pipe")    *)
(* and a socket ("sock").  Two nodes are in no directory yet: "escape",    *)
(* the symlink to /etc another host process may rename over a name, and    *)
(* "new", the file an O_CREAT open makes.                                  *)

MC_Nodes == {"top", "etc", "passwd", "root", "sub", "d", "e", "ok", "bad",
             "up", "loop", "sl", "s2", "back", "pipe", "sock", "escape", "new"}
MC_Names == {"etc", "root", "sub", "d", "e", "ok", "bad", "up", "loop", "sl",
             "s2", "back", "pipe", "sock", "x"}
Edges == {<<"top", "etc", "etc">>, <<"top", "root", "root">>,
          <<"etc", "ok", "passwd">>,
          <<"root", "sub", "sub">>, <<"root", "bad", "bad">>,
          <<"root", "up", "up">>, <<"root", "loop", "loop">>,
          <<"root", "sl", "sl">>, <<"root", "s2", "s2">>,
          <<"root", "pipe", "pipe">>, <<"root", "sock", "sock">>,
          <<"sub", "ok", "ok">>, <<"sub", "d", "d">>, <<"sub", "back", "back">>,
          <<"d", "e", "e">>}
MC_Child == [p \in MC_Nodes \X MC_Names |->
               IF \E x \in Edges : x[1] = p[1] /\ x[2] = p[2]
               THEN (CHOOSE x \in Edges : x[1] = p[1] /\ x[2] = p[2])[3]
               ELSE "none"]
MC_Kind == [n \in MC_Nodes |->
              CASE n \in {"passwd", "ok", "new"} -> "reg"
                [] n \in {"bad", "up", "loop", "sl", "s2", "back", "escape"}
                     -> "lnk"
                [] n = "pipe" -> "fifo"
                [] n = "sock" -> "stream"
                [] OTHER -> "dir"]
MC_Target == [n \in MC_Nodes |->
                CASE n = "bad"    -> <<"/", "etc">>
                  [] n = "up"     -> <<"..", "/", "etc">>
                  [] n = "loop"   -> <<"loop">>
                  [] n = "sl"     -> <<"sub">>
                  [] n = "s2"     -> <<"sl", "/", "d">>
                  [] n = "back"   -> <<"..">>
                  [] n = "escape" -> <<"/", "etc">>
                  [] OTHER        -> <<>>]
(* Where the host's own resolution of each symlink ends ("none": ELOOP).  *)
MC_Resolved == [n \in MC_Nodes |->
                  CASE n \in {"bad", "up", "escape"} -> "etc"
                    [] n = "loop" -> "none"
                    [] n = "sl"   -> "sub"
                    [] n = "s2"   -> "d"
                    [] n = "back" -> "root"
                    [] OTHER      -> n]
MC_Parent == [n \in MC_Nodes |->
                CASE n = "sub" -> "root" [] n = "d" -> "sub" [] n = "e" -> "d"
                  [] OTHER -> "top"]
(* Pathnames that reach every exit of the lookup loop.                    *)
LookupInputs ==
    { <<"sub", "/", "ok">>, <<"..", "/", "etc">>,
      <<"sub", "/", "..", "/", "..">>, <<"bad", "/", "ok">>, <<"bad">>,
      <<"up">>, <<"sl", "/", "ok">>, <<"loop">>, <<"s2", "/", "e">>,
      <<"sub", "/", "d", "/", "e", "/", "ok">>, <<"sub", "/", "back">>,
      <<"sub", "/", "/">>, <<"/", "etc">>, <<>>, <<".">>, <<"sl", "/">>,
      <<"e", "/", "ok">>, <<"sub", "/", "ok", "/", "d">>, <<"sub", "/", ".">> }
=============================================================================
