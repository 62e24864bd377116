----------------------------- MODULE ByteStream -----------------------------
(***************************************************************************)
(* What a producer promises of its content: it arrives in order, each unit *)
(* once, and its end is told only after the last one, or because something *)
(* has failed.                                                             *)
(***************************************************************************)
EXTENDS Naturals, Sequences

CONSTANT Length    \* units of the content, which are the numbers from 1 on

VARIABLES
  delivered,       \* what has arrived
  ending           \* "open" until the end was told
vars == <<delivered, ending>>

Content(n) == [i \in 1 .. n |-> i]

Init == delivered = Content(0) /\ ending = "open"

Deliver ==
  /\ ending = "open"
  /\ \E n \in Len(delivered) + 1 .. Length :
       /\ delivered' = Content(n)
       /\ ending' \in {"open"} \cup (IF n = Length THEN {"complete"} ELSE {})

TellEnd ==
  /\ ending = "open"
  /\ ending' \in {"failed"} \cup (IF delivered = Content(Length) THEN {"complete"} ELSE {})
  /\ UNCHANGED delivered

Next == Deliver \/ TellEnd

Spec == Init /\ [][Next]_vars
=============================================================================
