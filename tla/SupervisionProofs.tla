------------------------- MODULE SupervisionProofs --------------------------
(***************************************************************************)
(* Proofs about Supervision.                                               *)
(***************************************************************************)
EXTENDS Supervision, TLAPS

LEMMA FirstOrInner == First \in Procs /\ Inner \in Procs /\ First # Inner
  BY DEF Procs, First, Inner

(* What execute() makes of a status has eight bits, and an exit code of    *)
(* that many bits is passed on as it is.                                   *)
LEMMA Codes ==
  /\ \A st \in Statuses : ReturnCode(st) \in 0 .. 255
  /\ \A st \in Statuses : st # Running => Exited(ReturnCode(st) % 256) \in Statuses
  /\ \A st \in Statuses : ReturnCode(st) % 256 = ReturnCode(st)
  <1>1. \A c \in ExitCodes : c \in 0 .. 255
    BY CodesAssumption
  <1>2. ASSUME NEW st \in Statuses
        PROVE  /\ ReturnCode(st) \in 0 .. 255
               /\ st # Running => Exited(ReturnCode(st)) \in Statuses
    <2>1. CASE st = Running
      BY <2>1 DEF ReturnCode, Running
    <2>2. CASE st \in {Exited(ExitFailure), Exited(254)}
      BY <2>2 DEF ReturnCode, Exited, ExitFailure, Statuses
    <2>3. CASE \E c \in ExitCodes : st = Exited(c)
      BY <2>3, <1>1 DEF ReturnCode, Exited, Statuses
    <2>4. CASE \E sig \in {SIGTERM, SIGKILL} : st = Exited(ReturnCode(Signaled(sig)))
      BY <2>4 DEF ReturnCode, Exited, Signaled, SIGTERM, SIGKILL, Statuses
    <2>5. CASE st \in {Signaled(SIGTERM), Signaled(SIGKILL)}
      BY <2>5 DEF ReturnCode, Exited, Signaled, SIGTERM, SIGKILL, Statuses
    <2> QED
      BY <2>1, <2>2, <2>3, <2>4, <2>5 DEF Statuses
  <1>3. \A n \in 0 .. 255 : n % 256 = n
    OBVIOUS
  <1> QED
    BY <1>2, <1>3

-----------------------------------------------------------------------------
(* Late calls.                                                             *)

(* The numbers are taken back before execute() returns, so that no call    *)
(* that begins later finds one.                                            *)
StopInv ==
  /\ caller \in {"retracted", "returned"} => featurePid = NoHandle
  /\ caller = "returned" => pid = NoHandle
  /\ stopper # Idle => stopper.began # "returned"
  /\ LateStopIsHarmless

LEMMA StopStep == StopInv /\ [Next]_vars => StopInv'
  <1> SUFFICES ASSUME StopInv, [Next]_vars
               PROVE  StopInv'
    OBVIOUS
  <1> USE DEF StopInv, LateStopIsHarmless
  <1>1. CASE CallerStep \/ CallerDies
    BY <1>1 DEF CallerStep, Fork, ForkFails, Assign, Announce, Reap, Retract, Return,
       CallerDies, stopVars, procVars
  <1>2. CASE ChildStep
    BY <1>2 DEF ChildStep, InnerFork, InnerForkFails, Measure, PassOn, Arm, GivesUp, Exec,
       GetsTerm, callerVars, stopVars
  <1>3. CASE Recycle \/ Over \/ (\E p \in Procs : ProgramEnds(p)) \/ UNCHANGED vars
    BY <1>3 DEF Recycle, Over, ProgramEnds, callerVars, stopVars, vars
  <1>4. CASE Send
    BY <1>4 DEF Send, Signals, callerVars
  <1>5. ASSUME NEW via \in {"feature", "handle"}, NEW sig, Begin(via, sig)
        PROVE  StopInv'
    BY <1>5 DEF Begin, callerVars, Idle
  <1> QED
    BY <1>1, <1>2, <1>3, <1>4, <1>5 DEF Next

(* A call of stop(), kill() or sendSignal() that begins once execute() has *)
(* returned signals nobody: FeatureProcess and getHandle() have given up   *)
(* the number by then (Process.cpp 195, 418).                              *)
THEOREM LateStop == Spec => []LateStopIsHarmless
  <1>1. Init => StopInv
    BY DEF Init, StopInv, LateStopIsHarmless
  <1>2. StopInv => LateStopIsHarmless
    BY DEF StopInv
  <1> QED
    BY <1>1, <1>2, StopStep, PTL DEF Spec

-----------------------------------------------------------------------------
(* Nobody is forgotten.                                                    *)

Armed(p) == stage[p] \in {"armed", "monitor", "measured", "program"}

(* Whoever has called prctl() is to be signalled, or has been.             *)
ArmedInv ==
  /\ stage \in [Procs -> Stages]
  /\ \A p \in Procs : Armed(p) => p \in deathSig
  /\ \A p \in Procs : Armed(p) /\ ParentDead(p) =>
       p \in pending \cup told \cup missed
  /\ stage[First] = "none" => stage[Inner] = "none"

(* When a process ends, its child is told.                                 *)
LEMMA EndTells ==
  ASSUME ArmedInv, NEW p \in Procs, NEW st, Ends(p, st), Alive(p), UNCHANGED <<caller, deathSig>>,
         told \subseteq told', missed \subseteq missed'
  PROVE  ArmedInv'
  BY FirstOrInner DEF ArmedInv, Armed, Ends, Alive, ParentDead, Procs, Stages

LEMMA ArmedStep == ArmedInv /\ [Next]_vars => ArmedInv'
  <1> SUFFICES ASSUME ArmedInv, [Next]_vars
               PROVE  ArmedInv'
    OBVIOUS
  <1> USE FirstOrInner
  <1>1. CASE CallerStep
    <2>1. CASE Fork
      BY <2>1 DEF Fork, ArmedInv, Armed, Alive, ParentDead, Procs, Stages
    <2>2. CASE Reap
      BY <2>2 DEF Reap, ArmedInv, Armed, Alive, ParentDead, Procs, Stages
    <2>3. CASE ForkFails \/ Assign \/ Announce \/ Retract \/ Return
      BY <2>3 DEF ForkFails, Assign, Announce, Retract, Return, procVars, ArmedInv, Armed,
         Alive, ParentDead, Procs
    <2> QED
      BY <1>1, <2>1, <2>2, <2>3 DEF CallerStep
  <1>2. CASE CallerDies
    BY <1>2 DEF CallerDies, ArmedInv, Armed, Alive, ParentDead, Procs
  <1>3. ASSUME NEW p \in Procs, Arm(p)
        PROVE  ArmedInv'
    BY <1>3 DEF Arm, callerVars, ArmedInv, Armed, Alive, ParentDead, Procs, Stages
  <1>4. ASSUME NEW p \in Procs, GivesUp(p) \/ ProgramEnds(p)
        PROVE  ArmedInv'
    BY <1>4, EndTells DEF GivesUp, ProgramEnds, callerVars, Alive
  <1>5. CASE InnerForkFails \/ PassOn
    BY <1>5, EndTells DEF InnerForkFails, PassOn, callerVars, Alive
  <1>6. CASE InnerFork
    BY <1>6 DEF InnerFork, callerVars, ArmedInv, Armed, Alive, ParentDead, Procs, Stages
  <1>7. CASE Measure
    BY <1>7 DEF Measure, callerVars, ArmedInv, Armed, Alive, ParentDead, Procs, Stages
  <1>8. ASSUME NEW p \in Procs, Exec(p)
        PROVE  ArmedInv'
    BY <1>8 DEF Exec, callerVars, ArmedInv, Armed, Alive, ParentDead, Procs, Stages
  <1>9. ASSUME NEW p \in Procs, GetsTerm(p)
        PROVE  ArmedInv'
    <2>1. CASE Ends(p, Signaled(SIGTERM)) /\ UNCHANGED <<told, missed>>
      BY <2>1, <1>9, EndTells DEF GetsTerm, callerVars
    <2>2. CASE /\ UNCHANGED <<stage, missed>>
               /\ told' = told \cup {p} /\ pending' = pending \ {p}
      BY <2>2, <1>9 DEF GetsTerm, callerVars, ArmedInv, Armed, Alive, ParentDead, Procs
    <2>3. CASE /\ UNCHANGED <<stage, told>>
               /\ missed' = missed \cup {p} /\ pending' = pending \ {p}
      BY <2>3, <1>9 DEF GetsTerm, callerVars, ArmedInv, Armed, Alive, ParentDead, Procs
    <2> QED
      BY <1>9, <2>1, <2>2, <2>3 DEF GetsTerm
  <1>10. CASE Send
    <2>1. CASE \E p \in Procs : Alive(p) /\ Ends(p, Signaled(SIGKILL))
      BY <2>1, <1>10, EndTells DEF Send, callerVars
    <2>2. CASE UNCHANGED stage /\ pending \subseteq pending'
      BY <2>2, <1>10 DEF Send, callerVars, ArmedInv, Armed, Alive, ParentDead, Procs
    <2> QED
      BY <1>10, <2>1, <2>2 DEF Send, Signals, Hit
  <1>11. CASE Recycle \/ Over \/ (\E via, sig : Begin(via, sig)) \/ UNCHANGED vars
    BY <1>11 DEF Recycle, Over, Begin, callerVars, procVars, vars, ArmedInv, Armed, Alive,
       ParentDead, Procs
  <1> QED
    BY <1>1, <1>2, <1>3, <1>4, <1>5, <1>6, <1>7, <1>8, <1>9, <1>10, <1>11
    DEF Next, ChildStep

(* A program whose parent is gone was sent SIGTERM, unless the signal was  *)
(* lost because prctl() came too late or a handler took it (Process.cpp    *)
(* 220, 297).                                                              *)
THEOREM Forgotten == Spec => []NobodyForgotten
  <1>1. Init => ArmedInv
    BY FirstOrInner DEF Init, ArmedInv, Armed, Alive, ParentDead, Stages
  <1>2. ArmedInv => NobodyForgotten
    BY DEF ArmedInv, Armed, NobodyForgotten
  <1> QED
    BY <1>1, <1>2, ArmedStep, PTL DEF Spec

-----------------------------------------------------------------------------
(* What comes out of the monitor.                                          *)

StopTypes ==
  /\ stops \in 0 .. MaxStops /\ stray \subseteq Callers
  /\ \/ stopper = Idle
     \/ stopper \in [pc : {"checked"}, via : {"feature", "handle"}, seen : {Number},
                     sig : {SIGTERM, SIGKILL}, began : Callers]

(* The monitor has measured: the program is gone, and its times are there. *)
Final == stage[Inner] = "gone" /\ shared = "final"

(* A first process with a child of its own is the monitor of that, and can *)
(* only exit with what it has waited for.                                  *)
MonitorInv ==
  /\ stage[Inner] # "none" => stage[First] \in {"monitor", "measured", "zombie", "gone"}
  /\ stage[Inner] # "none" => timed
  /\ stage[Inner] # "monitor"
  /\ stage[First] = "measured" => Final
  /\ stage[Inner] # "none" /\ stage[First] \in {"zombie", "gone"} =>
       \/ status[First].how = "signaled"
       \/ Final /\ status[First] = Exited(ReturnCode(status[Inner]))

(* The caller has what the first process left.                             *)
CallerInv ==
  /\ caller \in {"fork", "threw"} => stage[First] = "none"
  /\ Reaped => stage[First] = "gone" /\ rc = ReturnCode(status[First])
  /\ caller \in {"retracted", "returned"} /\ timed => times = shared

LifeInv == TypeOK /\ MonitorInv /\ CallerInv

LEMMA StatusKinds ==
  /\ \A code : Exited(code).how = "exited" /\ Exited(code) # Running
  /\ \A sig : Signaled(sig).how = "signaled" /\ Signaled(sig) # Running
  /\ {Exited(c) : c \in ExitCodes} \subseteq Statuses
  /\ Exited(ExitFailure) \in Statuses /\ Exited((-2) % 256) \in Statuses
  /\ Signaled(SIGTERM) \in Statuses /\ Signaled(SIGKILL) \in Statuses
  <1>1. (-2) % 256 = 254
    <2>1. \A n \in Int : n + 2 = 0 => n % 256 = 254
      OBVIOUS
    <2>2. -2 \in Int /\ (-2) + 2 = 0
      OBVIOUS
    <2> QED
      BY <2>1, <2>2, Zenon
  <1> QED
    BY <1>1 DEF Exited, Signaled, Running, Statuses

(* A process may end by a signal at any time, and exit in ways that keep   *)
(* the monitor's promise.                                                  *)
LEMMA EndLife ==
  ASSUME LifeInv, NEW p \in Procs, NEW st \in Statuses, st # Running,
         Ends(p, st), Alive(p), StopTypes',
         UNCHANGED <<timed, handling, owner, callerVars, deathSig, told, missed, shared>>,
         p = First /\ stage[Inner] # "none" =>
           \/ st.how = "signaled"
           \/ Final /\ st = Exited(ReturnCode(status[Inner]))
  PROVE  LifeInv'
  <1> USE FirstOrInner
  <1>1. TypeOK'
    BY DEF LifeInv, TypeOK, StopTypes, Ends, Alive, callerVars, Procs, Stages
  <1>2. MonitorInv'
    BY DEF LifeInv, MonitorInv, TypeOK, Final, Ends, Alive, callerVars, Procs
  <1>3. CallerInv'
    BY DEF LifeInv, CallerInv, TypeOK, Reaped, Ends, Alive, callerVars, Procs
  <1> QED
    BY <1>1, <1>2, <1>3 DEF LifeInv

LEMMA LifeStep == LifeInv /\ [Next]_vars => LifeInv'
  <1> SUFFICES ASSUME LifeInv, [Next]_vars
               PROVE  LifeInv'
    OBVIOUS
  <1> USE FirstOrInner
  <1>0. StopTypes
    BY DEF LifeInv, TypeOK, StopTypes
  <1>1. CASE CallerStep
    <2>1. CASE Fork
      BY <2>1 DEF Fork, LifeInv, TypeOK, MonitorInv, CallerInv, Final, Reaped, Alive, Procs,
         Stages, Callers, stopVars
    <2>2. CASE Reap
      BY <2>2, Codes DEF Reap, LifeInv, TypeOK, MonitorInv, CallerInv, Final, Reaped, Alive,
         Procs, Stages, Callers, stopVars
    <2>3. CASE ForkFails
      BY <2>3 DEF ForkFails, procVars, stopVars, LifeInv, TypeOK, MonitorInv, CallerInv,
         Final, Reaped, Alive, Callers
    <2>4. CASE Assign
      BY <2>4 DEF Assign, procVars, stopVars, LifeInv, TypeOK, MonitorInv, CallerInv,
         Final, Reaped, Alive, Callers
    <2>5. CASE Announce
      BY <2>5 DEF Announce, procVars, stopVars, LifeInv, TypeOK, MonitorInv, CallerInv,
         Final, Reaped, Alive, Callers
    <2>6. CASE Retract
      BY <2>6 DEF Retract, procVars, stopVars, LifeInv, TypeOK, MonitorInv, CallerInv, Final,
         Reaped, Alive, Callers
    <2>7. CASE Return
      BY <2>7 DEF Return, procVars, stopVars, LifeInv, TypeOK, MonitorInv, CallerInv, Final,
         Reaped, Alive, Callers
    <2> QED
      BY <1>1, <2>1, <2>2, <2>3, <2>4, <2>5, <2>6, <2>7 DEF CallerStep
  <1>2. CASE CallerDies
    BY <1>2 DEF CallerDies, LifeInv, TypeOK, MonitorInv, CallerInv, Final, Reaped, Alive,
       Callers, Procs
  <1>3. ASSUME NEW p \in Procs, Arm(p)
        PROVE  LifeInv'
    BY <1>3 DEF Arm, callerVars, stopVars, LifeInv, TypeOK, MonitorInv, CallerInv, Final,
       Reaped, Alive, Procs, Stages
  <1>4. ASSUME NEW p \in Procs, GivesUp(p)
        PROVE  LifeInv'
    BY <1>0, <1>4, EndLife, StatusKinds
    DEF GivesUp, LifeInv, MonitorInv, Alive, StopTypes, stopVars
  <1>5. ASSUME NEW p \in Procs, ProgramEnds(p)
        PROVE  LifeInv'
    <2>1. PICK st \in {Exited(c) : c \in ExitCodes} \cup {Signaled(SIGKILL)} : Ends(p, st)
      BY <1>5 DEF ProgramEnds
    <2> QED
      BY <1>0, <1>5, <2>1, EndLife, StatusKinds
      DEF ProgramEnds, LifeInv, MonitorInv, Alive, StopTypes, stopVars
  <1>6. CASE InnerForkFails
    BY <1>0, <1>6, EndLife, StatusKinds
    DEF InnerForkFails, LifeInv, MonitorInv, Alive, StopTypes, stopVars
  <1>7. CASE PassOn
    <2>1. Final /\ status[Inner] \in Statuses \ {Running}
      BY <1>7 DEF PassOn, LifeInv, MonitorInv, TypeOK, Final, Alive
    <2>2. Exited(ReturnCode(status[Inner]) % 256) = Exited(ReturnCode(status[Inner]))
      BY <2>1, Codes
    <2> QED
      BY <1>0, <1>7, <2>1, <2>2, EndLife, Codes, StatusKinds
      DEF PassOn, Alive, StopTypes, stopVars
  <1>8. CASE InnerFork
    BY <1>8 DEF InnerFork, callerVars, stopVars, LifeInv, TypeOK, MonitorInv, CallerInv, Final,
       Reaped, Alive, Procs, Stages
  <1>9. CASE Measure
    BY <1>9 DEF Measure, callerVars, stopVars, LifeInv, TypeOK, MonitorInv, CallerInv, Final,
       Reaped, Alive, Procs, Stages
  <1>10. ASSUME NEW p \in Procs, Exec(p)
         PROVE  LifeInv'
    BY <1>10 DEF Exec, callerVars, stopVars, LifeInv, TypeOK, MonitorInv, CallerInv, Final,
       Reaped, Alive, Procs, Stages
  <1>11. ASSUME NEW p \in Procs, GetsTerm(p)
         PROVE  LifeInv'
    <2>1. CASE Ends(p, Signaled(SIGTERM)) /\ UNCHANGED <<told, missed, shared>>
      BY <1>0, <2>1, <1>11, EndLife, StatusKinds DEF GetsTerm, StopTypes, stopVars
    <2>2. CASE /\ UNCHANGED <<stage, status>> /\ pending' = pending \ {p}
               /\ told' \subseteq Procs /\ missed' \subseteq Procs
               /\ shared' = IF stage[p] = "monitor" THEN "early" ELSE shared
      BY <2>2, <1>11 DEF GetsTerm, callerVars, stopVars, LifeInv, TypeOK, MonitorInv, CallerInv,
         Final, Reaped, Alive, Procs
    <2>3. told \cup {p} \subseteq Procs /\ missed \cup {p} \subseteq Procs
      BY DEF LifeInv, TypeOK
    <2> QED
      BY <1>11, <2>1, <2>2, <2>3 DEF GetsTerm, LifeInv, TypeOK
  <1>12. CASE Send
    <2>1. StopTypes'
      BY <1>0, <1>12 DEF Send, Signals, StopTypes, Idle
    <2>2. CASE \E p \in Procs : Alive(p) /\ Ends(p, Signaled(SIGKILL))
      BY <2>1, <2>2, <1>12, EndLife, StatusKinds DEF Send
    <2>3. CASE UNCHANGED <<stage, status>> /\ pending' \subseteq Procs
      BY <2>1, <2>3, <1>12 DEF Send, callerVars, LifeInv, TypeOK, StopTypes, MonitorInv,
         CallerInv, Final, Reaped, Alive
    <2> QED
      BY <1>12, <2>2, <2>3 DEF Send, Signals, Hit, LifeInv, TypeOK
  <1>13. CASE Recycle \/ Over \/ UNCHANGED vars
    BY <1>13 DEF Recycle, Over, callerVars, procVars, stopVars, vars, LifeInv, TypeOK,
       MonitorInv, CallerInv, Final, Reaped, Alive
  <1>14. ASSUME NEW via \in {"feature", "handle"}, NEW sig \in {SIGTERM, SIGKILL},
                Begin(via, sig)
         PROVE  LifeInv'
    <2>1. StopTypes'
      BY <1>0, <1>14, CodesAssumption
      DEF Begin, StopTypes, LifeInv, TypeOK, Number, NoHandle
    <2> QED
      BY <1>14, <2>1 DEF Begin, callerVars, procVars, LifeInv, TypeOK, StopTypes, MonitorInv,
         CallerInv, Final, Reaped, Alive
  <1> QED
    BY <1>1, <1>2, <1>3, <1>4, <1>5, <1>6, <1>7, <1>8, <1>9, <1>10, <1>11, <1>12, <1>13, <1>14
    DEF Next, ChildStep

LEMMA LifeInit == Init => LifeInv
  BY FirstOrInner, SettingsAssumption, CodesAssumption
  DEF Init, LifeInv, TypeOK, MonitorInv, CallerInv, Final, Reaped, Alive, Statuses, Stages,
     Callers, NoHandle, ExitFailure, Running

(* The types.                                                              *)
THEOREM TypeCorrect == Spec => []TypeOK
  <1>1. LifeInv => TypeOK
    BY DEF LifeInv
  <1> QED
    BY <1>1, LifeInit, LifeStep, PTL DEF Spec

(* execute() returns the same with a monitor as without (Process.cpp       *)
(* 337-357, 394-412).                                                      *)
THEOREM Transparent == Spec => []MonitorIsTransparent
  <1>1. LifeInv => MonitorIsTransparent
    <2> SUFFICES ASSUME LifeInv, Reaped, stage[Inner] # "none", status[First].how # "signaled"
                 PROVE  status[Inner] # Running /\ rc = ReturnCode(status[Inner])
      BY DEF MonitorIsTransparent
    <2>1. Final /\ status[First] = Exited(ReturnCode(status[Inner]))
      BY DEF LifeInv, MonitorInv, CallerInv
    <2>2. rc = ReturnCode(Exited(ReturnCode(status[Inner])))
      BY <2>1 DEF LifeInv, CallerInv
    <2> QED
      BY <2>1, <2>2, FirstOrInner DEF ReturnCode, Exited, LifeInv, TypeOK, Final, Alive
  <1> QED
    BY <1>1, LifeInit, LifeStep, PTL DEF Spec

(* The times that are left in a FeatureTime are the final ones             *)
(* (FeatureTime.cpp 40-45, Process.cpp 319-335, 424).                      *)
THEOREM FinalTimes == Spec => []TimesAreFinal
  <1>1. LifeInv => TimesAreFinal
    BY DEF LifeInv, MonitorInv, CallerInv, Reaped, Final, TimesAreFinal
  <1> QED
    BY <1>1, LifeInit, LifeStep, PTL DEF Spec
=============================================================================
