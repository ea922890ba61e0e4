---------------------------- MODULE PathResolve ----------------------------
(***************************************************************************)
(* What a confined lookup promises (spec section 4.F), without the code's *)
(* two stacks, buffers and pointers: the pathname is a token sequence     *)
(* consumed from the front, ".." pops a directory off the stack of the    *)
(* directories walked through and is refused at the start directory, and *)
(* a symlink is expanded by splicing its target in front of the rest of   *)
(* the pathname.  The result is a directory and a final name, or an       *)
(* error.  The expansion limit and the directory-depth limit are part of  *)
(* the contract, and so is the limit on nested pathnames (spec section   *)
(* 4.F: "depth limit 32; exceeding it is loop"): the pathname is read as  *)
(* a stack of token sequences, an expansion replaces a used-up one and is *)
(* pushed on top of one with components left, and a used-up expansion is *)
(* popped.                                                                 *)
(***************************************************************************)
EXTENDS Integers, Sequences

CONSTANTS Nodes, Names, Slash, Kind, Child, Target, Start, Inputs,
          MaxFds, MaxPaths, MaxExpansions, NoNode

VARIABLES
    input,       \* the guest's pathname
    follow,      \* CLOUDABI_LOOKUP_SYMLINK_FOLLOW
    needsFinal,  \* the caller needs the final component as a name
    result       \* Pending until the lookup has returned

vars == <<input, follow, needsFinal, result>>

Pending == [ok |-> FALSE, err |-> "pending"]
Err(e) == [ok |-> FALSE, err |-> e]
Ok(d, n, s) == [ok |-> TRUE, dir |-> d, name |-> n, slash |-> s]

RECURSIVE DropSlashes(_)
DropSlashes(t) == IF t # <<>> /\ Head(t) = Slash THEN DropSlashes(Tail(t)) ELSE t

(* The outcomes of resolving the pathname stack s (the top one is read)  *)
(* from the directory stack d after x expansions.                         *)
RECURSIVE Outcomes(_, _, _), Proceed(_, _, _), Expand(_, _, _, _, _)

(* After a component: a used-up pathname is popped, and a used-up guest  *)
(* pathname ends the lookup with ".".                                     *)
Proceed(d, s, x) ==
    CASE s[Len(s)] # <<>> -> Outcomes(d, s, x)
      [] Len(s) = 1 -> {Ok(d[Len(d)], ".", FALSE)}
      [] OTHER -> Proceed(d, SubSeq(s, 1, Len(s) - 1), x)

(* A symlink's target, with the link's trailing slash, replaces the used- *)
(* up top pathname or is pushed on a stack that is not full.              *)
Expand(d, link, ews, s, x) ==
    LET seg == IF ews THEN Target[link] \o <<Slash>> ELSE Target[link]
    IN CASE x + 1 = MaxExpansions -> {Err("ELOOP")}
         [] s[Len(s)] = <<>> -> Outcomes(d, [s EXCEPT ![Len(s)] = seg], x + 1)
         [] Len(s) = MaxPaths -> {Err("ELOOP")}
         [] OTHER -> Outcomes(d, Append(s, seg), x + 1)

Outcomes(d, s, x) ==
    LET t == s[Len(s)] IN
    IF t = <<>> THEN {Err("ENOENT")}
    ELSE IF Head(t) = Slash THEN {Err("ENOTCAPABLE")}
    ELSE
    LET name == Head(t)
        ews == Len(t) > 1 /\ t[2] = Slash
        rest == [s EXCEPT ![Len(s)] = DropSlashes(Tail(t))]
        more == rest[Len(s)] # <<>> \/ Len(s) > 1
        e == Child[d[Len(d)], name]
        isLink == e # NoNode /\ Kind[e] = "lnk"
    IN CASE name = "." -> Proceed(d, rest, x)
         [] name = ".." -> IF Len(d) = 1 THEN {Err("ENOTCAPABLE")}
                           ELSE Proceed(SubSeq(d, 1, Len(d) - 1), rest, x)
         [] more \/ (ews /\ ~needsFinal) ->
              CASE e = NoNode -> {Err("ENOENT")}
                [] Kind[e] \notin {"dir", "lnk"} -> {Err("ENOTDIR")}
                [] isLink -> Expand(d, e, ews, rest, x)
                [] Len(d) = MaxFds -> {Err("ENAMETOOLONG")}
                [] OTHER -> Proceed(Append(d, e), rest, x)
         [] (ews \/ follow) /\ isLink -> Expand(d, e, ews, rest, x)
         [] OTHER -> {Ok(d[Len(d)], name, ews)}

Init ==
    /\ input \in Inputs
    /\ follow \in BOOLEAN
    /\ needsFinal \in BOOLEAN
    /\ result = Pending

(* The lookup returns one of the outcomes of its pathname.               *)
resolve ==
    /\ result = Pending
    /\ result' \in Outcomes(<<Start>>, <<input>>, 0)
    /\ UNCHANGED <<input, follow, needsFinal>>

Spec == Init /\ [][resolve]_vars
=============================================================================
