---------------------------- MODULE MCChildSetup ----------------------------
(***************************************************************************)
(* Small instances of ChildSetup.                                          *)
(***************************************************************************)
EXTENDS ChildSetup

CONSTANTS a, b

(* a runs a program on a file, leaves it stdout and talks to it over a     *)
(* socket pair at handle 4, which is EINTR; b hands over the file that is  *)
(* stdin already, talks over a socket pair and feeds a pipe at handles     *)
(* that pipes may well get, with a stray "no handle" among its parameters. *)
Mixed == [c \in Callers |-> IF c = a
  THEN [s \in {0, 1, 4} |-> CASE s = 0 -> "file" [] s = 1 -> "keep" [] s = 4 -> "both"]
  ELSE [s \in {NoHandle, 0, 2, 5} |->
          CASE s = NoHandle -> "keep" [] s = 0 -> "file" [] s = 2 -> "both"
            [] s = 5 -> "produce"]]
MixedAt == [c \in Callers |-> IF c = a THEN [s \in {0} |-> 3] ELSE [s \in {0} |-> 0]]

(* A child with one stream, its stdin.                                     *)
Fed == [c \in Callers |-> [s \in {0} |-> "produce"]]

NoFiles == [c \in Callers |-> [s \in {} |-> 0]]
=============================================================================
