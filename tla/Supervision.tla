---------------------------- MODULE Supervision -----------------------------
(***************************************************************************)
(* The life of the processes of one zsystem::Process::execute(): the child *)
(* that it forks either becomes the program or, when a FeatureTime asks    *)
(* for times, forks once more and stays as the monitor of the program.     *)
(* Meanwhile another thread may call FeatureProcess::stop() or kill(), or  *)
(* Signal::sendSignal() with the number of getHandle(), and the caller's   *)
(* process may die.                                                        *)
(*                                                                         *)
(* ParentLoop and ChildSetup model what happens to descriptors; here they  *)
(* are single steps.                                                       *)
(***************************************************************************)
EXTENDS WaitStatus

CONSTANTS
  Timings,      \* whether a FeatureTime is given: a set of Booleans
  Handlings,    \* whether the caller has a handler for SIGTERM: likewise
  ExitCodes,    \* exit codes the program may choose
  CallerMayDie, \* something may kill the caller's process
  MaxStops      \* bound: calls of stop(), kill() and sendSignal()

NoHandle == -1
Number == 1     \* the process number that the child gets

First == "first"  \* the process that childRun() forks
Inner == "inner"  \* the process that it forks to measure times
Procs == {First, Inner}

ASSUME SettingsAssumption ==
  /\ Timings \subseteq BOOLEAN /\ Handlings \subseteq BOOLEAN
  /\ CallerMayDie \in BOOLEAN

ASSUME CodesAssumption == ExitCodes \subseteq 0 .. 255 /\ MaxStops \in Nat

VARIABLES
  timed, handling, \* which of the settings is the case
  caller,          \* how far the caller is in execute()
  pid,             \* member of Process
  featurePid,      \* member of FeatureProcess
  owner,           \* which process has the number
  rc,              \* what execute() returns
  times            \* the FeatureTime's own copy
callerVars == <<caller, pid, featurePid, rc, times>>

VARIABLES
  stage,           \* how far each process is in childRun()
  deathSig,        \* processes that get SIGTERM when their parent dies
  pending,         \* processes that were sent a SIGTERM they have not got yet
  told,            \* programs that got SIGTERM and handle it
  missed,          \* processes that a SIGTERM was lost on
  status,          \* wait status of each process
  shared           \* times in the shared memory
procVars == <<stage, deathSig, pending, told, missed, status, shared>>

VARIABLES
  stopper,         \* the other thread
  stops,           \* how often it has called so far
  stray            \* where execute() was when calls began that hit another process
stopVars == <<stopper, stops, stray>>

vars == <<timed, handling, owner, callerVars, procVars, stopVars>>

-----------------------------------------------------------------------------
Callers == {"fork", "forked", "assigned", "loop", "reaped", "retracted",
            "returned", "threw", "dead"}
Stages == {"none", "setup", "armed", "monitor", "measured", "program", "zombie", "gone"}
Idle == [pc |-> "idle"]

Alive(p) == stage[p] \notin {"none", "zombie", "gone"}
ParentDead(p) == IF p = First THEN caller = "dead" ELSE ~Alive(First)

Init ==
  /\ timed \in Timings /\ handling \in Handlings
  /\ caller = "fork" /\ owner = "nobody" /\ rc = ExitFailure /\ times = "zero"
  /\ pid = NoHandle /\ featurePid = NoHandle
  /\ stage = [p \in Procs |-> "none"] /\ status = [p \in Procs |-> Running]
  /\ deathSig = {} /\ pending = {} /\ told = {} /\ missed = {} /\ shared = "zero"
  /\ stopper = Idle /\ stops = 0 /\ stray = {}

(* A process ends; the kernel sends its child the signal that the child    *)
(* asked for.                                                              *)
Ends(p, st) ==
  /\ stage' = [stage EXCEPT ![p] = "zombie"]
  /\ status' = [status EXCEPT ![p] = st]
  /\ pending' = (pending \ {p}) \cup
       (IF p = First /\ Alive(Inner) THEN {Inner} \cap deathSig ELSE {})

-----------------------------------------------------------------------------
(* The caller's thread.                                                    *)

Fork ==
  /\ caller = "fork" /\ caller' = "forked"
  /\ owner' = First
  /\ stage' = [stage EXCEPT ![First] = "setup"]
  /\ UNCHANGED <<timed, handling, pid, featurePid, rc, times, deathSig, pending,
                 told, missed, status, shared, stopVars>>

ForkFails ==
  /\ caller = "fork" /\ caller' = "threw"
  /\ UNCHANGED <<timed, handling, owner, pid, featurePid, rc, times, procVars, stopVars>>

(* "pid = childRun(...)".                                                  *)
Assign ==
  /\ caller = "forked" /\ caller' = "assigned"
  /\ pid' = Number
  /\ UNCHANGED <<timed, handling, owner, featurePid, rc, times, procVars, stopVars>>

(* parentRun() tells the FeatureProcess the number.                        *)
Announce ==
  /\ caller = "assigned" /\ caller' = "loop"
  /\ featurePid' = Number
  /\ UNCHANGED <<timed, handling, owner, pid, rc, times, procVars, stopVars>>

(* waitpid() returns: from now on the number may be given to others.       *)
Reap ==
  /\ caller = "loop" /\ stage[First] = "zombie"
  /\ caller' = "reaped"
  /\ rc' = ReturnCode(status[First])
  /\ stage' = [stage EXCEPT ![First] = "gone"]
  /\ owner' = "nobody"
  /\ UNCHANGED <<timed, handling, pid, featurePid, times, deathSig, pending, told,
                 missed, status, shared, stopVars>>

(* Mutation: the features are not told that the child is gone.             *)
RetractNothing ==
  /\ caller = "reaped" /\ caller' = "retracted"
  /\ UNCHANGED <<timed, handling, owner, pid, featurePid, rc, times, procVars, stopVars>>

(* parentRun() takes the number back, and has FeatureTime copy the times.  *)
Retract ==
  /\ caller = "reaped" /\ caller' = "retracted"
  /\ featurePid' = NoHandle
  /\ times' = IF timed THEN shared ELSE times
  /\ UNCHANGED <<timed, handling, owner, pid, rc, procVars, stopVars>>

Return ==
  /\ caller = "retracted" /\ caller' = "returned"
  /\ pid' = NoHandle
  /\ UNCHANGED <<timed, handling, owner, featurePid, rc, times, procVars, stopVars>>

CallerStep ==
  Fork \/ ForkFails \/ Assign \/ Announce \/ Reap \/ Retract \/ Return

(* The caller's process dies, with all its threads.                        *)
CallerDies ==
  /\ CallerMayDie /\ caller \notin {"returned", "threw", "dead"}
  /\ caller' = "dead"
  /\ stopper' = Idle
  /\ pending' = pending \cup (IF Alive(First) THEN {First} \cap deathSig ELSE {})
  /\ UNCHANGED <<timed, handling, owner, pid, featurePid, rc, times, stage, deathSig,
                 told, missed, status, shared, stops, stray>>

-----------------------------------------------------------------------------
(* The child, the monitor and the program.                                 *)

(* Mutation: prctl() is called once, before the inner fork.                *)
ArmOnce(p) ==
  /\ stage[p] = "setup"
  /\ stage' = [stage EXCEPT ![p] = "armed"]
  /\ deathSig' = IF p = First THEN deathSig \cup {p} ELSE deathSig
  /\ missed' = IF p = First /\ ParentDead(p) THEN missed \cup {p} ELSE missed
  /\ UNCHANGED <<timed, handling, owner, callerVars, pending, told, status, shared, stopVars>>

(* prctl(PR_SET_PDEATHSIG): it says nothing of a parent that is dead.      *)
Arm(p) ==
  /\ stage[p] = "setup"
  /\ stage' = [stage EXCEPT ![p] = "armed"]
  /\ deathSig' = deathSig \cup {p}
  /\ missed' = IF ParentDead(p) THEN missed \cup {p} ELSE missed
  /\ UNCHANGED <<timed, handling, owner, callerVars, pending, told, status, shared, stopVars>>

(* opendir() or chdir() fails in the child, or exec in either process.     *)
GivesUp(p) ==
  /\ stage[p] = "armed"
  /\ Ends(p, Exited(ExitFailure))
  /\ UNCHANGED <<timed, handling, owner, callerVars, deathSig, told, missed, shared, stopVars>>

InnerFork ==
  /\ stage[First] = "armed" /\ timed
  /\ stage' = [stage EXCEPT ![First] = "monitor", ![Inner] = "setup"]
  /\ UNCHANGED <<timed, handling, owner, callerVars, deathSig, pending, told, missed,
                 status, shared, stopVars>>

(* "_exit(-2)", of which the parent gets eight bits.                       *)
InnerForkFails ==
  /\ stage[First] = "armed" /\ timed
  /\ Ends(First, Exited((-2) % 256))
  /\ UNCHANGED <<timed, handling, owner, callerVars, deathSig, told, missed, shared, stopVars>>

Exec(p) ==
  /\ stage[p] = "armed" /\ (p = First => ~timed)
  /\ stage' = [stage EXCEPT ![p] = "program"]
  /\ UNCHANGED <<timed, handling, owner, callerVars, deathSig, pending, told, missed,
                 status, shared, stopVars>>

(* The monitor reaps the program and writes its times.                     *)
Measure ==
  /\ stage[First] = "monitor" /\ stage[Inner] = "zombie"
  /\ stage' = [stage EXCEPT ![First] = "measured", ![Inner] = "gone"]
  /\ shared' = "final"
  /\ UNCHANGED <<timed, handling, owner, callerVars, deathSig, pending, told, missed,
                 status, stopVars>>

(* Mutation: the monitor exits with the bare exit code or signal.          *)
PassOnUndecoded ==
  /\ stage[First] = "measured"
  /\ Ends(First, Exited(status[Inner].num))
  /\ UNCHANGED <<timed, handling, owner, callerVars, deathSig, told, missed, shared, stopVars>>

(* It exits as the program did, a signal being turned into an exit code.   *)
PassOn ==
  /\ stage[First] = "measured"
  /\ Ends(First, Exited(ReturnCode(status[Inner]) % 256))
  /\ UNCHANGED <<timed, handling, owner, callerVars, deathSig, told, missed, shared, stopVars>>

(* The program exits, or is killed by somebody else, at any time.          *)
ProgramEnds(p) ==
  /\ stage[p] = "program"
  /\ \E st \in {Exited(c) : c \in ExitCodes} \cup {Signaled(SIGKILL)} : Ends(p, st)
  /\ UNCHANGED <<timed, handling, owner, callerVars, deathSig, told, missed, shared, stopVars>>

(* SIGTERM arrives.  A program may handle it; until then, and in the       *)
(* monitor, the caller's handler runs if it has one, and nothing else      *)
(* happens: the monitor writes times and goes back to waitpid().           *)
GetsTerm(p) ==
  /\ p \in pending /\ Alive(p)
  /\ \/ /\ stage[p] = "program"
        /\ pending' = pending \ {p} /\ told' = told \cup {p}
        /\ UNCHANGED <<stage, status, missed, shared>>
     \/ /\ stage[p] # "program" /\ handling
        /\ pending' = pending \ {p} /\ missed' = missed \cup {p}
        /\ shared' = IF stage[p] = "monitor" THEN "early" ELSE shared
        /\ UNCHANGED <<stage, status, told>>
     \/ /\ stage[p] = "program" \/ ~handling
        /\ Ends(p, Signaled(SIGTERM))
        /\ UNCHANGED <<told, missed, shared>>
  /\ UNCHANGED <<timed, handling, owner, callerVars, deathSig, stopVars>>

ChildStep ==
  \/ InnerFork \/ InnerForkFails \/ Measure \/ PassOn
  \/ \E p \in Procs : Arm(p) \/ GivesUp(p) \/ Exec(p) \/ GetsTerm(p)

-----------------------------------------------------------------------------
(* The other thread, and the rest of the system.                           *)

(* It reads the number, from the FeatureProcess or by getHandle(); without *)
(* one, it does nothing.                                                   *)
Begin(via, sig) ==
  /\ stopper = Idle /\ stops < MaxStops /\ caller # "dead"
  /\ stops' = stops + 1
  /\ LET seen == IF via = "feature" THEN featurePid ELSE pid
     IN  stopper' = IF seen = NoHandle THEN Idle
                    ELSE [pc |-> "checked", via |-> via, seen |-> seen, sig |-> sig,
                          began |-> caller]
  /\ UNCHANGED <<timed, handling, owner, callerVars, procVars, stray>>

(* The processes of ours that kill(2) reaches with a number that is, by    *)
(* now, that of the child, of somebody else, of nobody, or -1, which means *)
(* everybody.                                                              *)
Hit(number) ==
  {p \in Procs : Alive(p) /\ (number = NoHandle \/ p = owner)}

Signals(number) ==
  /\ stray' = IF number = NoHandle \/ owner = "other" THEN stray \cup {stopper.began}
                                                     ELSE stray
  /\ \/ /\ stopper.sig = SIGTERM
        /\ pending' = pending \cup Hit(number)
        /\ UNCHANGED <<stage, status>>
     \/ /\ stopper.sig = SIGKILL
        /\ \E p \in Hit(number) : Ends(p, Signaled(SIGKILL))
     \/ /\ stopper.sig = SIGKILL /\ Hit(number) = {}
        /\ UNCHANGED <<stage, status, pending>>

(* FeatureProcess reads its member a second time, which a compiler may     *)
(* keep or leave out; sendSignal() has a copy.                             *)
Send ==
  /\ stopper # Idle /\ caller # "dead"
  /\ \/ Signals(stopper.seen)
     \/ stopper.via = "feature" /\ featurePid # stopper.seen /\ Signals(featurePid)
  /\ stopper' = Idle
  /\ UNCHANGED <<timed, handling, owner, callerVars, deathSig, told, missed, shared, stops>>

(* The kernel gives the number to a process that is none of ours.          *)
Recycle ==
  /\ owner = "nobody" /\ caller # "fork"
  /\ owner' = "other"
  /\ UNCHANGED <<timed, handling, callerVars, procVars, stopVars>>

Over ==
  /\ caller \in {"returned", "threw", "dead"}
  /\ UNCHANGED vars

Next ==
  \/ CallerStep \/ CallerDies \/ ChildStep \/ Recycle \/ Send \/ Over
  \/ \E p \in Procs : ProgramEnds(p)
  \/ \E via \in {"feature", "handle"}, sig \in {SIGTERM, SIGKILL} : Begin(via, sig)

Spec == Init /\ [][Next]_vars

(* The kernel schedules threads and processes, and delivers signals; the   *)
(* program may run for ever.                                               *)
FairSpec == Spec /\ WF_vars(CallerStep) /\ WF_vars(Send) /\ WF_vars(ChildStep)

-----------------------------------------------------------------------------
(* Properties.                                                             *)

Statuses == {Running, Exited(ExitFailure), Exited(254)}
              \cup {Exited(c) : c \in ExitCodes}
              \cup {Exited(ReturnCode(Signaled(sig))) : sig \in {SIGTERM, SIGKILL}}
              \cup {Signaled(SIGTERM), Signaled(SIGKILL)}

(* The types; a process has a final status exactly when it has ended.      *)
TypeOK ==
  /\ timed \in BOOLEAN /\ handling \in BOOLEAN
  /\ caller \in Callers /\ owner \in {"nobody", First, "other"}
  /\ pid \in {NoHandle, Number} /\ featurePid \in {NoHandle, Number}
  /\ rc \in 0 .. 255 /\ times \in {"zero", "early", "final"}
  /\ stage \in [Procs -> Stages] /\ status \in [Procs -> Statuses]
  /\ deathSig \subseteq Procs /\ pending \subseteq Procs
  /\ told \subseteq Procs /\ missed \subseteq Procs
  /\ shared \in {"zero", "early", "final"}
  /\ stops \in 0 .. MaxStops /\ stray \subseteq Callers
  /\ \/ stopper = Idle
     \/ stopper \in [pc : {"checked"}, via : {"feature", "handle"}, seen : {Number},
                     sig : {SIGTERM, SIGKILL}, began : Callers]
  /\ \A p \in Procs : status[p] = Running <=> Alive(p) \/ stage[p] = "none"

Reaped == caller \in {"reaped", "retracted", "returned"}

(* With the monitor in between, execute() returns what it returns without: *)
(* the code of the program's own end, unless the monitor was killed.       *)
MonitorIsTransparent ==
  Reaped /\ stage[Inner] # "none" /\ status[First].how # "signaled" =>
    status[Inner] # Running /\ rc = ReturnCode(status[Inner])

(* And the times that the FeatureTime keeps are the final ones, unless the *)
(* program was never started or the monitor was killed.                    *)
TimesAreFinal ==
  caller = "returned" /\ stage[Inner] # "none" /\ status[First].how # "signaled" =>
    times = "final"

(* A program that runs on when its parent is gone, the caller's process or *)
(* the monitor, was sent SIGTERM, or the signal was lost in one of two     *)
(* ways: prctl() came too late, or the caller's handler took it.           *)
NobodyForgotten ==
  \A p \in Procs : stage[p] = "program" /\ ParentDead(p) =>
    p \in pending \cup told \cup missed

(* Whoever runs the program is told when its parent is gone                *)
(* (Process.cpp:219 and 296, "Terminate child, if parent killed").         *)
DeathIsTold ==
  \A p \in Procs : stage[p] = "program" /\ ParentDead(p) => p \in pending \cup told

(* A call of stop(), kill() or sendSignal() that begins once execute() has *)
(* returned signals nobody, whoever has the number by then.                *)
LateStopIsHarmless == "returned" \notin stray

(* SIGTERM that is sent to the child gets to the program, through the      *)
(* monitor if there is one, or ends the set-up before it runs, if it is    *)
(* not lost in one of those ways.                                          *)
Stopped ==
  \A p \in Procs : (p = Inner \/ ~Alive(Inner)) => ~Alive(p) \/ p \in told

StopArrives == First \in pending ~> Stopped \/ missed # {}
=============================================================================
