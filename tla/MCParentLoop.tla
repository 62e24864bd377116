---------------------------- MODULE MCParentLoop ----------------------------
(***************************************************************************)
(* Small instances of ParentLoop.                                          *)
(***************************************************************************)
EXTENDS ParentLoop

(* What the producers have to offer: two or three buffers each.            *)
SizeTwo == [s \in Producers |-> 2]

(* More than the pipe holds, or what it holds for producers that ask one   *)
(* write() for everything.                                                 *)
SizeFitting == [s \in Producers |-> IF s \in Static \cup Strings THEN 2 ELSE 3]
=============================================================================
