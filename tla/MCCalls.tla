------------------------------ MODULE MCCalls -------------------------------
(* All lines of up to three characters, and words of up to one.            *)
EXTENDS Calls, TLC

CONSTANTS a, b, e

AllCharacters == {"a", "=", Space, Escape}
Sequences3(n) == UNION {[1 .. k -> AllCharacters \ {"="}] : k \in 0 .. n}

AllLines == Sequences3(3)
AllArrays == UNION {[1 .. n -> Sequences3(1)] : n \in 0 .. 2}
AllValues == {<<>>, << <<"a", "=", "a">> >>}

(* The caller has them filled before it calls.                             *)
Both == [producer |-> "file", consumer |-> "sink"]
Own == [producer |-> "producer", consumer |-> None]
SomeMaps ==
  {[h \in {NoHandle, 1} |-> IF h = 1 THEN Own ELSE Both],
   [h \in {0, 1} |-> IF h = 0 THEN Both ELSE [Both EXCEPT !.consumer = None]]}

RunLines == {<<"a">>}
Symmetric == Permutations({a, b})
=============================================================================
