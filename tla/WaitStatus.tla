----------------------------- MODULE WaitStatus -----------------------------
(***************************************************************************)
(* Wait statuses of a process, and the number Process::execute() makes of  *)
(* one: the exit code, or 128 plus the signal as bash does.                *)
(***************************************************************************)
EXTENDS Integers

SIGKILL == 9
SIGPIPE == 13
SIGTERM == 15
ExitFailure == 1

Running == [how |-> "running", num |-> 0]
Exited(code) == [how |-> "exited", num |-> code]
Signaled(sig) == [how |-> "signaled", num |-> sig]

(* Mutation: the negative of the signal, as some shells and libraries have *)
(* it.                                                                     *)
ReturnCodeNegative(st) == IF st.how = "exited" THEN st.num ELSE -st.num

(* WIFEXITED and WEXITSTATUS, else WIFSIGNALED and WTERMSIG.               *)
ReturnCode(st) == IF st.how = "exited" THEN st.num ELSE 128 + st.num
=============================================================================
