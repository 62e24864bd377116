----------------------------- MODULE Execution ------------------------------
(***************************************************************************)
(* What a call of Process::execute() promises its caller, whatever loop    *)
(* implements it: the child is fed what the producers offer and is told of *)
(* the end only after the last unit, the consumers take all that it makes, *)
(* and the call returns, with a number that says how the child ended, once *)
(* the child is gone and nothing is left to take.                          *)
(***************************************************************************)
EXTENDS WaitStatus

CONSTANTS
  Producers, Consumers,  \* the streams of the call, by what serves them
  Size,                  \* units each producer offers
  Ends                   \* the wait statuses the child may end with

VARIABLES
  phase,                 \* "running" until execute() returns
  fed,                   \* units of each producer that the child has read
  ended,                 \* producers whose end the child has seen
  made, taken,           \* units the child wrote, and the consumer was given
  status,                \* the child's wait status
  rc                     \* the value execute() returns
vars == <<phase, fed, ended, made, taken, status, rc>>

Init ==
  /\ phase = "running" /\ status = Running /\ rc = ExitFailure
  /\ fed = [s \in Producers |-> 0] /\ ended = {}
  /\ made = [s \in Consumers |-> 0] /\ taken = [s \in Consumers |-> 0]

Feed(s) ==
  /\ status = Running
  /\ fed[s] < Size[s] /\ s \notin ended
  /\ fed' = [fed EXCEPT ![s] = @ + 1]
  /\ UNCHANGED <<phase, ended, made, taken, status, rc>>

TellEnd(s) ==
  /\ status = Running
  /\ fed[s] = Size[s]
  /\ ended' = ended \cup {s}
  /\ UNCHANGED <<phase, fed, made, taken, status, rc>>

Make(s) ==
  /\ status = Running
  /\ made' = [made EXCEPT ![s] = @ + 1]
  /\ UNCHANGED <<phase, fed, ended, taken, status, rc>>

Take(s) ==
  /\ phase = "running"
  /\ taken[s] < made[s]
  /\ taken' = [taken EXCEPT ![s] = @ + 1]
  /\ UNCHANGED <<phase, fed, ended, made, status, rc>>

End ==
  /\ status = Running
  /\ status' \in Ends
  /\ UNCHANGED <<phase, fed, ended, made, taken, rc>>

Return ==
  /\ phase = "running" /\ status # Running
  /\ \A s \in Consumers : taken[s] = made[s]
  /\ phase' = "returned" /\ rc' = ReturnCode(status)
  /\ UNCHANGED <<fed, ended, made, taken, status>>

Next ==
  \/ \E s \in Producers : Feed(s) \/ TellEnd(s)
  \/ \E s \in Consumers : Make(s) \/ Take(s)
  \/ End \/ Return

(* What was made is taken, and the call returns: the caller relies on it.  *)
Spec ==
  /\ Init /\ [][Next]_vars
  /\ \A s \in Consumers : WF_vars(Take(s))
  /\ WF_vars(Return)
=============================================================================
