-------------------------- MODULE ParentLoopProofs --------------------------
(***************************************************************************)
(* Proofs about ParentLoop, for every set of streams, every kind of        *)
(* producer and consumer, and every bound.                                 *)
(***************************************************************************)
EXTENDS ParentLoop, TLAPS

(* The conversion of a wait status never leaves the natural numbers.       *)
LEMMA ReturnCodeIsNat == \A st \in Statuses : ReturnCode(st) \in Nat
  BY BoundsAssumption
  DEF Statuses, ReturnCode, Running, Exited, Signaled, SIGPIPE, SIGTERM

-----------------------------------------------------------------------------
LEMMA TypeInit == Init => TypeOK
<1> SUFFICES ASSUME Init PROVE TypeOK
  OBVIOUS
<1>1. childOp \in ChildOps /\ status \in Statuses
  BY DEF Init, ChildOps, Statuses
<1>2. /\ \A s \in Producers : got[s] = 0 /\ sent[s] = 0
      /\ \A s \in Consumers : taken[s] = 0 /\ made[s] = 0
  BY DEF Init
<1>3. /\ \A s \in Producers : got[s] <= sent[s] /\ sent[s] <= got[s] + Capacity
      /\ \A s \in Consumers : taken[s] <= made[s] /\ made[s] <= taken[s] + Capacity
  BY <1>2, BoundsAssumption
<1>4. allNpos \in BOOLEAN /\ processed \in BOOLEAN
  BY DEF Init
<1> QED
  BY <1>1, <1>3, <1>4, StreamsAssumption DEF Init, TypeOK, ExitFailure

(* The part of TypeOK about the control of the parent, and the part about  *)
(* the streams that the child has a hand in.                               *)
ControlOK ==
  /\ pc \in {"poll", "process", "write", "waitpid", "returned", "killed"}
  /\ open \subseteq Streams
  /\ toProduce \subseteq Producers /\ toConsume \subseteq Consumers
  /\ allNpos \in BOOLEAN /\ processed \in BOOLEAN
  /\ moved \in Nat /\ rc \in Nat
  /\ dropped \subseteq Consumers

LEMMA TypeParts ==
  TypeOK <=> /\ ControlOK
             /\ pos \in [Producers -> Nat] /\ signals \in Nat
             /\ sent \in [Producers -> Nat] /\ got \in [Producers -> Nat]
             /\ made \in [Consumers -> Nat] /\ taken \in [Consumers -> Nat]
             /\ childEnds \subseteq Streams /\ childOp \in ChildOps
             /\ eof \subseteq Producers /\ status \in Statuses
             /\ \A s \in Producers : got[s] <= sent[s] /\ sent[s] <= got[s] + Capacity
             /\ \A s \in Consumers : taken[s] <= made[s] /\ made[s] <= taken[s] + Capacity
  BY Zenon DEF TypeOK, ControlOK

LEMMA AfterResultType ==
  ASSUME NEW rest, NEW done, AfterResult(rest, done)
  PROVE  pc' \in {"poll", "process", "waitpid"}
  BY DEF AfterResult

(* What every outcome of a produce() leaves alone, and what it may do to   *)
(* the parent's control.                                                   *)
LEMMA ProducedType ==
  ASSUME TypeOK, NEW s \in Producers, NEW npos, NEW count,
         Produced(s, npos, count)
  PROVE  /\ ControlOK'
         /\ UNCHANGED <<got, made, taken, childEnds, childOp, eof, status>>
<1>1. allNpos' \in BOOLEAN
  <2>1. allNpos' = (s \in toConsume => npos)
    BY DEF Produced
  <2> QED
    BY <2>1, Zenon
<1>2. processed' \in BOOLEAN
  <2>1. processed' = (npos \/ count > 0)
    BY DEF Produced
  <2> QED
    BY <2>1, Zenon
<1>3. pc' \in {"poll", "process", "waitpid"}
  BY AfterResultType, Zenon DEF Produced
<1>4. open' \subseteq Streams
  BY DEF TypeOK, Produced, CloseIf
<1>5. /\ toProduce' \subseteq Producers /\ toConsume' \subseteq Consumers
      /\ moved' \in Nat /\ rc' \in Nat /\ dropped' \subseteq Consumers
  BY DEF TypeOK, Produced
<1>6. UNCHANGED <<got, made, taken, childEnds, childOp, eof, status>>
  BY DEF Produced, childVars
<1> QED
  BY <1>1, <1>2, <1>3, <1>4, <1>5, <1>6 DEF ControlOK

(* A caller that dies of SIGPIPE leaves the types intact.                  *)
LEMMA DieType == TypeOK /\ DieOfSigPipe => TypeOK'
  BY DEF TypeOK, DieOfSigPipe, childVars

(* An outcome of produce() with the bytes it has written.                  *)
LEMMA ProducedStep ==
  ASSUME TypeOK, NEW s \in Producers, NEW npos, NEW count,
         Produced(s, npos, count),
         pos' \in [Producers -> Nat], signals' \in Nat,
         \/ sent' = sent
         \/ HasRoom(s) /\ sent' = [sent EXCEPT ![s] = @ + 1]
  PROVE  TypeOK'
<1>1. /\ ControlOK'
      /\ UNCHANGED <<got, made, taken, childEnds, childOp, eof, status>>
  BY ProducedType
<1>2. /\ sent' \in [Producers -> Nat]
      /\ \A t \in Producers : got[t] <= sent'[t] /\ sent'[t] <= got[t] + Capacity
  BY BoundsAssumption DEF TypeOK, HasRoom
<1> QED
  BY <1>1, <1>2, TypeParts DEF TypeOK, ControlOK

LEMMA WriteReturnsType ==
  ASSUME TypeOK, NEW s \in Producers, NEW count \in Nat, WriteReturns(s, count)
  PROVE  /\ pos' \in [Producers -> Nat]
         /\ Produced(s, s \in Static /\ pos'[s] = Size[s], count)
  BY DEF TypeOK, WriteReturns

LEMMA WriteFailsType ==
  ASSUME TypeOK, NEW s \in Producers, WriteFails(s)
  PROVE  pos' \in [Producers -> Nat] /\ Produced(s, TRUE, 0)
  BY BoundsAssumption DEF TypeOK, WriteFails

(* Nothing moves when a write() begins.                                    *)
LEMMA BeginsType == TypeOK /\ WriteBegins => TypeOK'
  BY DEF TypeOK, WriteBegins, childVars

LEMMA TypeStep == TypeOK /\ [Next]_vars => TypeOK'
<1> SUFFICES ASSUME TypeOK, [Next]_vars PROVE TypeOK'
  OBVIOUS
<1> USE StreamsAssumption, KindsAssumption, BoundsAssumption
<1>1. CASE Poll
  BY <1>1 DEF TypeOK, Poll, childVars
<1>2. CASE Wait
  BY <1>2, ReturnCodeIsNat DEF TypeOK, Wait, childVars, ExitFailure
<1>3. ASSUME NEW s \in Producers, ProduceChunk(s) PROVE TypeOK'
  <2>1. CASE pos[s] = Size[s] /\ Produced(s, TRUE, 0) /\ UNCHANGED <<pos, sent, signals>>
    BY <2>1, ProducedStep DEF TypeOK
  <2>2. CASE /\ HasRoom(s) /\ Produced(s, FALSE, 1)
             /\ pos' = [pos EXCEPT ![s] = @ + 1]
             /\ sent' = [sent EXCEPT ![s] = @ + 1]
             /\ UNCHANGED signals
    <3>1. pos' \in [Producers -> Nat] /\ signals' \in Nat
      BY <2>2 DEF TypeOK
    <3> QED
      BY <2>2, <3>1, ProducedStep
  <2>3. CASE Produced(s, TRUE, 0) /\ UNCHANGED <<pos, sent, signals>>
    BY <2>3, ProducedStep DEF TypeOK
  <2> QED
    BY <1>3, <2>1, <2>2, <2>3, DieType DEF ProduceChunk
<1>4. ASSUME NEW s \in Producers, ProduceNothing(s) PROVE TypeOK'
  BY <1>4, ProducedStep DEF TypeOK, ProduceNothing
<1>5. ASSUME NEW s \in Producers, ProduceString(s) \/ ProduceStatic(s) PROVE TypeOK'
  <2>1. CASE Produced(s, TRUE, 0) /\ UNCHANGED <<pos, sent, signals>>
    BY <2>1, ProducedStep DEF TypeOK
  <2>2. CASE WriteFails(s) /\ UNCHANGED <<sent, signals>>
    BY <2>2, WriteFailsType, ProducedStep DEF TypeOK
  <2> QED
    BY <1>5, <2>1, <2>2, DieType, BeginsType DEF ProduceString, ProduceStatic
<1>6. ASSUME NEW s \in Producers, WriteUnit(s) PROVE TypeOK'
  <2>1. moved + 1 \in Nat
    BY DEF TypeOK
  <2>2. CASE WriteReturns(s, moved + 1) /\ UNCHANGED signals
    <3>1. HasRoom(s) /\ sent' = [sent EXCEPT ![s] = @ + 1] /\ signals' \in Nat
      BY <1>6, <2>2 DEF WriteUnit, TypeOK
    <3> QED
      BY <2>1, <2>2, <3>1, WriteReturnsType, ProducedStep
  <2>3. CASE /\ moved' = moved + 1
             /\ UNCHANGED <<pc, open, toProduce, toConsume, allNpos, processed, pos,
                            dropped, rc, signals, got, made, taken, childVars>>
    BY <1>6, <2>1, <2>3 DEF TypeOK, WriteUnit, HasRoom, childVars
  <2> QED
    BY <1>6, <2>2, <2>3 DEF WriteUnit
<1>7. ASSUME NEW s \in Producers, WriteBreaks(s) PROVE TypeOK'
  <2>1. CASE WriteReturns(s, moved) /\ UNCHANGED <<sent, signals>>
    BY <2>1, WriteReturnsType, ProducedStep DEF TypeOK
  <2>2. CASE WriteFails(s) /\ UNCHANGED <<sent, signals>>
    BY <2>2, WriteFailsType, ProducedStep DEF TypeOK
  <2> QED
    BY <1>7, <2>1, <2>2, DieType DEF WriteBreaks
<1>8. ASSUME NEW s \in Producers, WriteInterrupted(s) PROVE TypeOK'
  <2>1. signals' \in Nat /\ sent' = sent /\ WriteReturns(s, moved)
    BY <1>8 DEF TypeOK, WriteInterrupted
  <2> QED
    BY <2>1, WriteReturnsType, ProducedStep DEF TypeOK
<1>9. ASSUME NEW s \in Consumers, Consume(s) PROVE TypeOK'
  <2>1. PICK success \in BOOLEAN : Consumed(s, success)
    BY <1>9, Zenon DEF Consume
  <2>2. allNpos' \in BOOLEAN /\ processed' \in BOOLEAN
    <3>1. allNpos' = TRUE /\ processed' = (processed \/ success)
      BY <2>1 DEF Consumed
    <3> QED
      BY <3>1, Zenon
  <2>3. /\ toConsume' \subseteq Consumers /\ dropped' \subseteq Consumers
        /\ open' \subseteq Streams
        /\ UNCHANGED <<toProduce, pos, moved, rc, signals, sent, got, made>>
        /\ UNCHANGED <<childEnds, childOp, eof, status>>
    BY <2>1 DEF TypeOK, Consumed, CloseIf, childVars
  <2>4. pc' \in {"poll", "process", "waitpid"}
    BY <2>1, AfterResultType, Zenon DEF Consumed
  <2>5. /\ taken' \in [Consumers -> Nat]
        /\ \A t \in Consumers : taken'[t] <= made[t] /\ made[t] <= taken'[t] + Capacity
    <3>1. CASE HasData(s) /\ taken' = [taken EXCEPT ![s] = @ + 1]
      BY <3>1 DEF TypeOK, HasData
    <3>2. CASE taken' = taken
      BY <3>2 DEF TypeOK
    <3> QED
      BY <1>9, <3>1, <3>2 DEF Consume
  <2>6. ControlOK'
    BY <2>2, <2>3, <2>4 DEF TypeOK, ControlOK
  <2>7. \A t \in Producers : got'[t] <= sent'[t] /\ sent'[t] <= got'[t] + Capacity
    BY <2>3 DEF TypeOK
  <2>8. \A t \in Consumers : taken'[t] <= made'[t] /\ made'[t] <= taken'[t] + Capacity
    BY <2>3, <2>5
  <2>9. /\ pos' \in [Producers -> Nat] /\ signals' \in Nat
        /\ sent' \in [Producers -> Nat] /\ got' \in [Producers -> Nat]
        /\ made' \in [Consumers -> Nat]
        /\ childEnds' \subseteq Streams /\ childOp' \in ChildOps
        /\ eof' \subseteq Producers /\ status' \in Statuses
    BY <2>3, TypeParts
  <2> QED
    BY <2>5, <2>6, <2>7, <2>8, <2>9 DEF TypeOK, ControlOK
<1>10. CASE WaitInterrupted
  BY <1>10 DEF TypeOK, WaitInterrupted, childVars
<1>11. CASE ChildCalls
  BY <1>11 DEF TypeOK, ChildCalls, ChildOps, parentVars
<1>12. CASE ChildExits \/ ChildKilled
  BY <1>12 DEF TypeOK, ChildExits, ChildKilled, ChildVanishes, ChildOps, Statuses, parentVars
<1>13. ASSUME NEW s \in Streams, ChildReads(s) PROVE TypeOK'
  <2>1. s \in Producers /\ Idle \in ChildOps
    BY <1>13 DEF TypeOK, ChildReads, ChildOps, Idle
  <2>2. /\ got' \in [Producers -> Nat] /\ eof' \subseteq Producers
        /\ \A t \in Producers : got'[t] <= sent[t] /\ sent[t] <= got'[t] + Capacity
    <3>1. CASE got[s] < sent[s] /\ got' = [got EXCEPT ![s] = @ + 1] /\ UNCHANGED eof
      BY <2>1, <3>1, BoundsAssumption DEF TypeOK
    <3>2. CASE eof' = eof \cup {s} /\ UNCHANGED got
      BY <2>1, <3>2 DEF TypeOK
    <3> QED
      BY <1>13, <3>1, <3>2 DEF ChildReads
  <2>3. childOp' = Idle /\ UNCHANGED <<parentVars, sent, made, taken, childEnds, status>>
    BY <1>13 DEF ChildReads
  <2> QED
    BY <2>1, <2>2, <2>3 DEF TypeOK, parentVars
<1>14. ASSUME NEW s \in Streams, ChildWrites(s) PROVE TypeOK'
  BY <1>14 DEF TypeOK, ChildWrites, ChildVanishes, ChildOps, Idle, Statuses, parentVars
<1>15. ASSUME NEW s \in Streams, ChildCloses(s) PROVE TypeOK'
  BY <1>15 DEF TypeOK, ChildCloses, parentVars
<1>16. CASE UNCHANGED vars
  BY <1>16 DEF TypeOK, vars, parentVars, childVars
<1>17. CASE Over
  BY <1>16, <1>17 DEF Over
<1> QED
  BY <1>1, <1>2, <1>3, <1>4, <1>5, <1>6, <1>7, <1>8, <1>9, <1>10, <1>11, <1>12,
     <1>13, <1>14, <1>15, <1>16, <1>17
  DEF Next, ParentStep, ParentInterrupted, ChildStep

(* The types and the accounting of the streams (how much the child can     *)
(* have read or have unread) hold of every behaviour of the loop.          *)
THEOREM TypeCorrect == Spec => []TypeOK
  BY TypeInit, TypeStep, PTL DEF Spec

-----------------------------------------------------------------------------
(* There is one stream at a time that parentProcess() serves.              *)
LEMMA HeadUnique ==
  ASSUME TypeOK, NEW s, NEW t, IsHead(s), IsHead(t)
  PROVE  s = t
<1>1. s \in Nat /\ t \in Nat
  BY StreamsAssumption DEF TypeOK, IsHead
<1>2. s <= t /\ t <= s
  BY DEF IsHead
<1> QED
  BY <1>1, <1>2

(* An outcome of produce() keeps what poll() reported of the others.       *)
LEMMA ProducedSnapshot ==
  ASSUME TypeOK, SnapshotHolds, pc \in {"process", "write"},
         NEW s \in Producers, IsHead(s),
         NEW npos, NEW count, Produced(s, npos, count),
         \A t \in Producers : t # s => sent'[t] = sent[t]
  PROVE  SnapshotHolds'
<1>1. /\ toProduce' = toProduce \ {s} /\ toConsume' = toConsume
      /\ UNCHANGED <<got, made, taken, childEnds>>
  BY DEF Produced, childVars
<1>2. toProduce' \cup toConsume' \subseteq open'
  <2>1. open' = open \/ (open' = open \ {s} /\ s \notin toConsume)
    BY DEF Produced, CloseIf
  <2> QED
    BY <1>1, <2>1 DEF SnapshotHolds
<1>3. ASSUME NEW t \in toConsume' PROVE PollIn(t)'
  BY <1>1, <1>3 DEF SnapshotHolds, PollIn, HasData, Socket
<1>4. ASSUME NEW t \in toProduce' PROVE PollOut(t)'
  <2>1. t \in toProduce /\ t # s /\ t \in Producers
    BY <1>1, <1>4 DEF TypeOK
  <2>2. ~IsHead(t)
    BY <2>1, HeadUnique
  <2>3. PollOut(t)
    BY <2>1, <2>2 DEF SnapshotHolds
  <2> QED
    BY <1>1, <2>1, <2>3 DEF PollOut, HasRoom, Socket
<1> QED
  BY <1>2, <1>3, <1>4 DEF SnapshotHolds

LEMMA SnapshotStep == TypeOK /\ SnapshotHolds /\ [Next]_vars => SnapshotHolds'
<1> SUFFICES ASSUME TypeOK, SnapshotHolds, [Next]_vars PROVE SnapshotHolds'
  OBVIOUS
<1>0. ASSUME DieOfSigPipe PROVE SnapshotHolds'
  BY <1>0 DEF DieOfSigPipe, SnapshotHolds
<1>1. CASE Poll
  BY <1>1 DEF Poll, SnapshotHolds, PollOut, PollIn, HasRoom, HasData, Socket, childVars
<1>2. CASE Wait \/ WaitInterrupted
  BY <1>2 DEF Wait, WaitInterrupted, SnapshotHolds
<1>3. ASSUME NEW s \in Producers, ProduceChunk(s) PROVE SnapshotHolds'
  <2>1. pc = "process" /\ IsHead(s)
    BY <1>3 DEF ProduceChunk
  <2>2. CASE Produced(s, TRUE, 0) /\ UNCHANGED sent
    BY <2>1, <2>2, ProducedSnapshot
  <2>3. CASE Produced(s, FALSE, 1) /\ sent' = [sent EXCEPT ![s] = @ + 1]
    <3>1. \A t \in Producers : t # s => sent'[t] = sent[t]
      BY <2>3 DEF TypeOK
    <3> QED
      BY <2>1, <2>3, <3>1, ProducedSnapshot
  <2> QED
    BY <1>0, <1>3, <2>2, <2>3 DEF ProduceChunk
<1>4. ASSUME NEW s \in Producers, ProduceNothing(s) PROVE SnapshotHolds'
  BY <1>4, ProducedSnapshot DEF ProduceNothing
<1>5. ASSUME NEW s \in Producers, ProduceString(s) \/ ProduceStatic(s)
      PROVE  SnapshotHolds'
  <2>1. pc = "process" /\ IsHead(s)
    BY <1>5 DEF ProduceString, ProduceStatic
  <2>2. CASE Produced(s, TRUE, 0) /\ UNCHANGED sent
    BY <2>1, <2>2, ProducedSnapshot
  <2>3. CASE WriteBegins
    BY <2>1, <2>3
    DEF WriteBegins, SnapshotHolds, PollOut, PollIn, HasRoom, HasData, Socket, childVars
  <2> QED
    BY <1>0, <1>5, <2>2, <2>3 DEF ProduceString, ProduceStatic, WriteFails
<1>6. ASSUME NEW s \in Producers, pc = "write", IsHead(s), NEW count \in Nat,
             WriteReturns(s, count),
             sent' = sent \/ sent' = [sent EXCEPT ![s] = @ + 1]
      PROVE  SnapshotHolds'
  <2>1. \A t \in Producers : t # s => sent'[t] = sent[t]
    BY <1>6 DEF TypeOK
  <2> QED
    BY <1>6, <2>1, WriteReturnsType, ProducedSnapshot
<1>7. ASSUME NEW s \in Producers, WriteUnit(s) PROVE SnapshotHolds'
  <2>1. /\ pc = "write" /\ IsHead(s)
        /\ sent' = [sent EXCEPT ![s] = @ + 1]
        /\ moved + 1 \in Nat
    BY <1>7 DEF WriteUnit, TypeOK
  <2>2. CASE UNCHANGED <<pc, open, toProduce, toConsume, got, made, taken, childVars>>
    <3>1. ASSUME NEW t \in toProduce PROVE PollOut(t)' \/ IsHead(t)'
      <4>1. CASE t = s
        BY <2>1, <2>2, <4>1 DEF IsHead
      <4>2. CASE t # s
        <5>1. ~IsHead(t)
          BY <2>1, <4>2, HeadUnique
        <5>2. PollOut(t) /\ sent'[t] = sent[t]
          BY <2>1, <3>1, <4>2, <5>1 DEF SnapshotHolds, TypeOK
        <5> QED
          BY <2>2, <5>2 DEF PollOut, HasRoom, Socket, childVars
      <4> QED
        BY <4>1, <4>2
    <3> QED
      BY <2>1, <2>2, <3>1 DEF SnapshotHolds, PollIn, HasData, Socket, childVars
  <2> QED
    BY <1>6, <1>7, <2>1, <2>2 DEF WriteUnit
<1>8. ASSUME NEW s \in Producers, WriteBreaks(s) PROVE SnapshotHolds'
  <2>1. pc = "write" /\ IsHead(s) /\ moved \in Nat
    BY <1>8 DEF WriteBreaks, TypeOK
  <2>2. CASE Produced(s, TRUE, 0) /\ UNCHANGED sent
    BY <2>1, <2>2, ProducedSnapshot
  <2> QED
    BY <1>0, <1>6, <1>8, <2>1, <2>2 DEF WriteBreaks, WriteFails
<1>9. ASSUME NEW s \in Producers, WriteInterrupted(s) PROVE SnapshotHolds'
  BY <1>6, <1>9 DEF WriteInterrupted, TypeOK
<1>10. ASSUME NEW s \in Consumers, Consume(s) PROVE SnapshotHolds'
  <2>1. PICK success \in BOOLEAN : Consumed(s, success)
    BY <1>10, Zenon DEF Consume
  <2>2. /\ toConsume' = toConsume \ {s} /\ toProduce' = toProduce
        /\ UNCHANGED <<sent, got, made, childEnds>>
        /\ open' = open \/ open' = open \ {s}
    BY <2>1 DEF Consumed, CloseIf, childVars
  <2>3. pc = "process" /\ s \notin toProduce
        /\ \A t \in Consumers : t # s => taken'[t] = taken[t]
    BY <1>10 DEF Consume, TypeOK
  <2>4. ASSUME NEW t \in toConsume' PROVE PollIn(t)'
    BY <2>2, <2>3, <2>4 DEF SnapshotHolds, PollIn, HasData, Socket, TypeOK
  <2>5. ASSUME NEW t \in toProduce' PROVE PollOut(t)'
    BY <2>2, <2>3, <2>5 DEF SnapshotHolds, PollOut, HasRoom, Socket
  <2> QED
    BY <2>2, <2>3, <2>4, <2>5 DEF SnapshotHolds
<1>11. ASSUME UNCHANGED <<parentVars, sent, taken>>, childEnds' \subseteq childEnds,
              \A t \in Producers : got[t] <= got'[t] /\ got'[t] \in Nat,
              \A t \in Consumers : made[t] <= made'[t] /\ made'[t] \in Nat
       PROVE  SnapshotHolds'
  <2>1. ASSUME NEW t \in toConsume, PollIn(t) PROVE PollIn(t)'
    BY <1>11, <2>1 DEF PollIn, HasData, Socket, TypeOK
  <2>2. ASSUME NEW t \in toProduce, PollOut(t) PROVE PollOut(t)'
    BY <1>11, <2>2, BoundsAssumption DEF PollOut, HasRoom, Socket, TypeOK
  <2> QED
    BY <1>11, <2>1, <2>2 DEF SnapshotHolds, IsHead, parentVars
<1>12. CASE ChildCalls
  BY <1>11, <1>12 DEF ChildCalls, TypeOK
<1>13. CASE ChildExits \/ ChildKilled
  BY <1>11, <1>13 DEF ChildExits, ChildKilled, ChildVanishes, TypeOK
<1>14. ASSUME NEW s \in Streams, ChildReads(s) PROVE SnapshotHolds'
  <2>1. \A t \in Producers : got[t] <= got'[t] /\ got'[t] \in Nat
    BY <1>14 DEF ChildReads, TypeOK
  <2> QED
    BY <1>11, <1>14, <2>1 DEF ChildReads, TypeOK
<1>15. ASSUME NEW s \in Streams, ChildWrites(s) PROVE SnapshotHolds'
  <2>1. \A t \in Consumers : made[t] <= made'[t] /\ made'[t] \in Nat
    BY <1>15 DEF ChildWrites, ChildVanishes, TypeOK
  <2> QED
    BY <1>11, <1>15, <2>1 DEF ChildWrites, ChildVanishes, TypeOK
<1>16. ASSUME NEW s \in Streams, ChildCloses(s) PROVE SnapshotHolds'
  BY <1>11, <1>16 DEF ChildCloses, TypeOK
<1>17. CASE UNCHANGED vars
  BY <1>11, <1>17 DEF vars, childVars, TypeOK
<1>18. CASE Over
  BY <1>17, <1>18 DEF Over
<1> QED
  BY <1>1, <1>2, <1>3, <1>4, <1>5, <1>7, <1>8, <1>9, <1>10, <1>12, <1>13, <1>14,
     <1>15, <1>16, <1>17, <1>18
  DEF Next, ParentStep, ParentInterrupted, ChildStep

(* What poll() reported of a stream still holds when parentProcess() gets  *)
(* to it, so no read() and no first write() of the loop ever blocks.       *)
THEOREM Snapshot == Spec => []SnapshotHolds
<1>1. Init => SnapshotHolds
  BY DEF Init, SnapshotHolds
<1> QED
  BY <1>1, TypeCorrect, SnapshotStep, PTL DEF Spec

-----------------------------------------------------------------------------
(* The strengthening of NoTruncatedInput.                                  *)

(* A child that is gone holds nothing and calls nothing, and a child that  *)
(* reads a stream has it open and has not read its end.                    *)
ChildInv ==
  /\ status # Running => childEnds = {} /\ childOp = Idle
  /\ \A s \in Producers : childOp = <<"read", s>> => s \in childEnds \ eof

(* What a write() in progress has moved of stream s.                       *)
InFlight(s) == IF pc = "write" /\ IsHead(s) THEN moved ELSE 0

(* As long as the child can read a stream, it has been sent what           *)
(* currentPos counts, and what the write() in progress has moved.          *)
WriteInv ==
  /\ pc \notin {"write", "killed"} => moved = 0
  /\ \A s \in Producers : pos[s] <= Size[s]
  /\ pc = "write" => \A s \in Streams :
       IsHead(s) => s \in toProduce /\ pos[s] + moved < Size[s]
  /\ \A s \in Producers \cap childEnds : sent[s] = pos[s] + InFlight(s)

(* A descriptor that the parent has closed, and the child has not, was     *)
(* closed after the last unit.                                             *)
CloseInv ==
  pc # "killed" =>
    \A s \in Producers \ Refusers : s \in childEnds \ open => sent[s] = Size[s]

InputInv == ChildInv /\ WriteInv /\ CloseInv /\ NoTruncatedInput

-----------------------------------------------------------------------------
LEMMA ParentLeavesChild ==
  ParentStep \/ ParentInterrupted => UNCHANGED <<got, made, childVars>> /\ pc # "killed"
<1>1. ASSUME Poll \/ Wait \/ WaitInterrupted
      PROVE  UNCHANGED <<got, made, childVars>> /\ pc # "killed"
  BY <1>1 DEF Poll, Wait, WaitInterrupted
<1>2. ASSUME NEW s \in Producers, \/ ProduceChunk(s) \/ ProduceNothing(s)
                                  \/ ProduceString(s) \/ ProduceStatic(s)
      PROVE  UNCHANGED <<got, made, childVars>> /\ pc # "killed"
  BY <1>2 DEF ProduceChunk, ProduceNothing, ProduceString, ProduceStatic, WriteBegins,
              WriteFails, Produced, DieOfSigPipe
<1>3. ASSUME NEW s \in Producers, WriteUnit(s) \/ WriteBreaks(s) \/ WriteInterrupted(s)
      PROVE  UNCHANGED <<got, made, childVars>> /\ pc # "killed"
  BY <1>3
  DEF WriteUnit, WriteBreaks, WriteInterrupted, WriteReturns, WriteFails, Produced,
      DieOfSigPipe
<1>4. ASSUME NEW s \in Consumers, Consume(s)
      PROVE  UNCHANGED <<got, made, childVars>> /\ pc # "killed"
  BY <1>4 DEF Consume, Consumed
<1> QED
  BY <1>1, <1>2, <1>3, <1>4 DEF ParentStep, ParentInterrupted

LEMMA ChildLeavesParent ==
  ChildStep \/ ChildKilled =>
    UNCHANGED <<parentVars, sent, taken>> /\ childEnds' \subseteq childEnds
  BY DEF ChildStep, ChildKilled, ChildCalls, ChildExits, ChildVanishes, ChildReads,
         ChildWrites, ChildCloses

LEMMA ChildInvStep == TypeOK /\ ChildInv /\ [Next]_vars => ChildInv'
<1> SUFFICES ASSUME TypeOK, ChildInv, [Next]_vars PROVE ChildInv'
  OBVIOUS
<1>1. CASE UNCHANGED childVars
  BY <1>1 DEF ChildInv, childVars
<1>2. ASSUME NEW st, ChildVanishes(st) PROVE ChildInv'
  BY <1>2 DEF ChildInv, ChildVanishes, Idle
<1>3. CASE ChildCalls
  <2>1. status = Running /\ UNCHANGED <<childEnds, eof, status>>
    BY <1>3 DEF ChildCalls
  <2>2. ASSUME NEW s \in Producers, childOp' = <<"read", s>> PROVE s \in childEnds \ eof
    BY <1>3, <2>2 DEF ChildCalls
  <2> QED
    BY <2>1, <2>2 DEF ChildInv
<1>4. ASSUME NEW s \in Streams, ChildReads(s) \/ ChildWrites(s) \/ ChildCloses(s)
      PROVE  ChildInv'
  BY <1>2, <1>4 DEF ChildInv, ChildReads, ChildWrites, ChildCloses, Idle
<1>5. CASE ChildExits \/ ChildKilled
  BY <1>2, <1>5 DEF ChildExits, ChildKilled
<1> QED
  BY <1>1, <1>3, <1>4, <1>5, ParentLeavesChild DEF Next, ChildStep, Over, vars

(* An outcome of produce() after which, if the child can still read the    *)
(* stream, currentPos counts what was sent.                                *)
LEMMA ProducedWrite ==
  ASSUME TypeOK, WriteInv, NEW s \in Producers, IsHead(s), pc \in {"process", "write"},
         NEW npos, NEW count, Produced(s, npos, count),
         NEW n \in Nat, n <= Size[s], pos' = [pos EXCEPT ![s] = n],
         sent' = sent \/ sent' = [sent EXCEPT ![s] = @ + 1],
         s \in childEnds => sent'[s] = n
  PROVE  WriteInv'
<1>1. pc' \in {"poll", "process", "waitpid"} /\ moved' = 0 /\ childEnds' = childEnds
  BY AfterResultType DEF Produced, childVars
<1>2. \A t \in Producers : pos'[t] <= Size[t]
  BY DEF TypeOK, WriteInv
<1>3. ASSUME NEW t \in Producers \cap childEnds PROVE sent'[t] = pos'[t]
  <2>1. CASE t = s
    BY <1>3, <2>1 DEF TypeOK
  <2>2. CASE t # s
    <3>1. InFlight(t) = 0
      BY <2>2, HeadUnique DEF InFlight
    <3>2. sent'[t] = sent[t] /\ pos'[t] = pos[t]
      BY <2>2 DEF TypeOK
    <3> QED
      BY <3>1, <3>2 DEF WriteInv, TypeOK
  <2> QED
    BY <2>1, <2>2
<1>4. \A t : InFlight(t)' = 0
  BY <1>1 DEF InFlight
<1>5. \A t \in Producers \cap childEnds : sent'[t] = pos'[t] + InFlight(t)'
  BY <1>3, <1>4, <1>2 DEF TypeOK
<1> QED
  BY <1>1, <1>2, <1>5 DEF WriteInv

(* A caller that dies of SIGPIPE does so on a stream the child has left.   *)
LEMMA DieWrite ==
  ASSUME TypeOK, WriteInv, NEW s \in Producers \ childEnds, IsHead(s), DieOfSigPipe
  PROVE  WriteInv'
<1>1. pc' = "killed" /\ UNCHANGED <<pos, sent, childEnds>>
  BY DEF DieOfSigPipe, childVars
<1>2. \A t \in Producers \cap childEnds : InFlight(t) = 0 /\ InFlight(t)' = 0
  BY <1>1, HeadUnique DEF InFlight
<1> QED
  BY <1>1, <1>2 DEF WriteInv

LEMMA WriteReturnsWrite ==
  ASSUME TypeOK, WriteInv, NEW s \in Producers, IsHead(s), pc = "write",
         NEW count \in Nat, WriteReturns(s, count), pos[s] + count <= Size[s],
         \/ sent' = sent /\ count = moved
         \/ sent' = [sent EXCEPT ![s] = @ + 1] /\ count = moved + 1
  PROVE  WriteInv'
<1>1. pos' = [pos EXCEPT ![s] = pos[s] + count] /\ pos[s] + count \in Nat
  BY DEF WriteReturns, TypeOK
<1>2. s \in childEnds => sent'[s] = pos[s] + count
  BY DEF TypeOK, WriteInv, InFlight
<1> QED
  BY <1>1, <1>2, WriteReturnsType, ProducedWrite

(* A write() that fails does so on a stream the child has left.            *)
LEMMA WriteFailsWrite ==
  ASSUME TypeOK, WriteInv, NEW s \in Producers \ childEnds, IsHead(s),
         pc \in {"process", "write"}, WriteFails(s), UNCHANGED sent
  PROVE  WriteInv'
<1>1. pos[s] \in Nat /\ pos[s] <= Size[s] /\ Size[s] \in Nat /\ Size[s] <= Size[s]
  BY BoundsAssumption DEF TypeOK, WriteInv
<1>2. CASE s \in Static
  BY <1>1, <1>2, ProducedWrite DEF WriteFails
<1>3. CASE s \notin Static
  <2>1. pos' = [pos EXCEPT ![s] = pos[s]] /\ Produced(s, TRUE, 0)
    BY <1>3 DEF WriteFails, TypeOK
  <2> QED
    BY <1>1, <2>1, ProducedWrite
<1> QED
  BY <1>2, <1>3

LEMMA WriteInvStep == TypeOK /\ WriteInv /\ [Next]_vars => WriteInv'
<1> SUFFICES ASSUME TypeOK, WriteInv, [Next]_vars PROVE WriteInv'
  OBVIOUS
<1> USE BoundsAssumption
<1>1. ASSUME pc \notin {"write", "killed"}, pc' \notin {"write", "killed"},
             UNCHANGED <<moved, pos, sent, childEnds>>
      PROVE  WriteInv'
  BY <1>1 DEF WriteInv, InFlight
<1>2. CASE Poll \/ Wait \/ WaitInterrupted
  BY <1>1, <1>2 DEF Poll, Wait, WaitInterrupted, childVars
<1>3. ASSUME NEW s \in Producers, ProduceChunk(s) PROVE WriteInv'
  <2>1. /\ pc = "process" /\ IsHead(s) /\ InFlight(s) = 0
        /\ pos[s] \in Nat /\ Size[s] \in Nat /\ sent[s] \in Nat
        /\ pos = [pos EXCEPT ![s] = pos[s]] /\ pos[s] <= Size[s]
        /\ s \in childEnds => sent[s] = pos[s]
    BY <1>3 DEF ProduceChunk, InFlight, TypeOK, WriteInv
  <2>2. CASE Produced(s, TRUE, 0) /\ UNCHANGED <<pos, sent>>
    <3>1. pos' = [pos EXCEPT ![s] = pos[s]] /\ (s \in childEnds => sent'[s] = pos[s])
      BY <2>1, <2>2
    <3> QED
      BY <2>1, <2>2, <3>1, ProducedWrite
  <2>3. CASE /\ pos[s] < Size[s] /\ Produced(s, FALSE, 1)
             /\ pos' = [pos EXCEPT ![s] = @ + 1]
             /\ sent' = [sent EXCEPT ![s] = @ + 1]
    <3>1. /\ pos[s] + 1 \in Nat /\ pos[s] + 1 <= Size[s]
          /\ s \in childEnds => sent'[s] = pos[s] + 1
      BY <2>1, <2>3 DEF TypeOK
    <3> QED
      BY <2>1, <2>3, <3>1, ProducedWrite
  <2>4. CASE s \notin childEnds /\ DieOfSigPipe
    BY <2>1, <2>4, DieWrite
  <2> QED
    BY <1>3, <2>2, <2>3, <2>4 DEF ProduceChunk
<1>4. ASSUME NEW s \in Producers, ProduceNothing(s) PROVE WriteInv'
  <2>1. /\ pos[s] \in Nat /\ pos[s] <= Size[s] /\ pos' = [pos EXCEPT ![s] = pos[s]]
        /\ s \in childEnds => sent'[s] = pos[s]
    BY <1>4 DEF ProduceNothing, InFlight, TypeOK, WriteInv
  <2> QED
    BY <1>4, <2>1, ProducedWrite DEF ProduceNothing
<1>5. ASSUME NEW s \in Producers, ProduceString(s) \/ ProduceStatic(s) PROVE WriteInv'
  <2>0. pc = "process" /\ IsHead(s) /\ s \in toProduce
    BY <1>5 DEF ProduceString, ProduceStatic
  <2>1. /\ pc = "process" /\ IsHead(s) /\ s \in toProduce
        /\ pos[s] \in Nat /\ Size[s] \in Nat /\ sent[s] \in Nat
        /\ pos = [pos EXCEPT ![s] = pos[s]] /\ pos[s] <= Size[s]
        /\ s \in childEnds => sent[s] = pos[s]
    BY <2>0 DEF InFlight, TypeOK, WriteInv
  <2>2. CASE Produced(s, TRUE, 0) /\ UNCHANGED <<pos, sent>>
    <3>1. pos' = [pos EXCEPT ![s] = pos[s]] /\ (s \in childEnds => sent'[s] = pos[s])
      BY <2>1, <2>2
    <3> QED
      BY <2>1, <2>2, <3>1, ProducedWrite
  <2>3. CASE pos[s] < Size[s] /\ WriteBegins
    <3>1. moved = 0 /\ moved' = 0
      BY <2>1, <2>3 DEF WriteInv, WriteBegins
    <3>2. \A t : IsHead(t)' => t = s
      BY <2>1, <2>3, HeadUnique DEF IsHead, WriteBegins
    <3>3. \A t : InFlight(t)' = 0 /\ InFlight(t) = 0
      BY <2>1, <3>1 DEF InFlight
    <3> QED
      BY <2>1, <2>3, <3>1, <3>2, <3>3 DEF WriteInv, WriteBegins, childVars
  <2>4. CASE s \notin childEnds /\ WriteFails(s) /\ UNCHANGED sent
    BY <2>1, <2>4, WriteFailsWrite
  <2>5. CASE s \notin childEnds /\ DieOfSigPipe
    BY <2>1, <2>5, DieWrite
  <2> QED
    BY <1>5, <2>2, <2>3, <2>4, <2>5 DEF ProduceString, ProduceStatic
<1>6. ASSUME NEW s \in Producers, pc = "write", IsHead(s)
      PROVE  /\ pos[s] \in Nat /\ moved \in Nat /\ Size[s] \in Nat
             /\ s \in toProduce /\ pos[s] + moved < Size[s]
  BY <1>6, StreamsAssumption DEF TypeOK, WriteInv
<1>7. ASSUME NEW s \in Producers, WriteUnit(s) PROVE WriteInv'
  <2>1. /\ pc = "write" /\ IsHead(s) /\ s \in childEnds
        /\ sent' = [sent EXCEPT ![s] = @ + 1]
    BY <1>7 DEF WriteUnit
  <2>2. CASE WriteReturns(s, moved + 1)
    <3>1. moved + 1 \in Nat /\ pos[s] + (moved + 1) <= Size[s]
      BY <1>6, <2>1
    <3> QED
      BY <2>1, <2>2, <3>1, WriteReturnsWrite
  <2>3. CASE /\ pos[s] + moved + 1 # Size[s] /\ moved' = moved + 1
             /\ UNCHANGED <<pc, toProduce, toConsume, pos, childVars>>
    <3>1. pos[s] + moved' < Size[s] /\ s \in toProduce
      BY <1>6, <2>1, <2>3
    <3>2. \A t : IsHead(t)' <=> IsHead(t)
      BY <2>3 DEF IsHead
    <3>3. \A t : IsHead(t) => t = s
      BY <2>1, HeadUnique
    <3>4. ASSUME NEW t \in Producers \cap childEnds
          PROVE  sent'[t] = pos[t] + InFlight(t)'
      <4>1. CASE t = s
        BY <1>6, <2>1, <2>3, <3>2, <4>1 DEF TypeOK, WriteInv, InFlight
      <4>2. CASE t # s
        BY <2>1, <2>3, <3>2, <3>3, <4>2 DEF TypeOK, WriteInv, InFlight
      <4> QED
        BY <4>1, <4>2
    <3> QED
      BY <2>1, <2>3, <3>1, <3>2, <3>3, <3>4 DEF WriteInv, childVars
  <2> QED
    BY <1>7, <2>2, <2>3 DEF WriteUnit
<1>8. ASSUME NEW s \in Producers, WriteBreaks(s) PROVE WriteInv'
  <2>1. pc = "write" /\ IsHead(s) /\ s \notin childEnds
    BY <1>8 DEF WriteBreaks
  <2>2. CASE WriteReturns(s, moved) /\ UNCHANGED sent
    BY <1>6, <2>1, <2>2, WriteReturnsWrite
  <2>3. CASE WriteFails(s) /\ UNCHANGED sent
    BY <2>1, <2>3, WriteFailsWrite
  <2>4. CASE DieOfSigPipe
    BY <2>1, <2>4, DieWrite
  <2> QED
    BY <1>8, <2>2, <2>3, <2>4 DEF WriteBreaks
<1>9. ASSUME NEW s \in Producers, WriteInterrupted(s) PROVE WriteInv'
  BY <1>6, <1>9, WriteReturnsWrite DEF WriteInterrupted
<1>10. ASSUME NEW s \in Consumers, Consume(s) PROVE WriteInv'
  <2>1. PICK success \in BOOLEAN : Consumed(s, success)
    BY <1>10, Zenon DEF Consume
  <2>2. pc' \in {"poll", "process", "waitpid"} /\ UNCHANGED <<moved, pos, sent, childEnds>>
    BY <2>1, AfterResultType DEF Consumed, childVars
  <2> QED
    BY <1>1, <1>10, <2>2 DEF Consume
<1>11. CASE ChildStep \/ ChildKilled
  BY <1>11, ChildLeavesParent DEF WriteInv, InFlight, IsHead, parentVars
<1>12. CASE UNCHANGED vars
  BY <1>12 DEF WriteInv, InFlight, IsHead, vars, parentVars, childVars
<1> QED
  BY <1>2, <1>3, <1>4, <1>5, <1>7, <1>8, <1>9, <1>10, <1>11, <1>12
  DEF Next, ParentStep, ParentInterrupted, Over

-----------------------------------------------------------------------------
(* The stream being served is still open.                                  *)
LEMMA HeadIsOpen ==
  SnapshotHolds /\ pc \in {"process", "write"} => \A s : IsHead(s) => s \in open
  BY DEF SnapshotHolds, IsHead

(* produce() closes a descriptor that the child reads after its last unit. *)
LEMMA ProducedClose ==
  ASSUME TypeOK, CloseInv, WriteInv', NEW s \in Producers, s \in open, pc # "killed",
         NEW npos, NEW count, Produced(s, npos, count),
         \A t \in Producers : t # s => sent'[t] = sent[t],
         npos /\ s \in childEnds => pos'[s] = Size[s]
  PROVE  CloseInv'
<1>1. /\ pc' \in {"poll", "process", "waitpid"} /\ childEnds' = childEnds
      /\ open' = open \/ (npos /\ open' = open \ {s})
  BY AfterResultType DEF Produced, CloseIf, childVars
<1>2. ASSUME NEW t \in Producers \ Refusers, t \in childEnds \ open'
      PROVE  sent'[t] = Size[t]
  <2>1. CASE t = s
    <3>1. pos'[s] = Size[s] /\ InFlight(s)' = 0
      BY <1>1, <1>2, <2>1 DEF InFlight
    <3> QED
      BY <1>1, <1>2, <2>1, <3>1, BoundsAssumption DEF WriteInv
  <2>2. CASE t # s
    BY <1>1, <1>2, <2>2 DEF CloseInv
  <2> QED
    BY <2>1, <2>2
<1> QED
  BY <1>1, <1>2 DEF CloseInv

LEMMA CloseInvStep ==
  TypeOK /\ SnapshotHolds /\ ChildInv /\ WriteInv /\ CloseInv /\ [Next]_vars => CloseInv'
<1> SUFFICES ASSUME TypeOK, SnapshotHolds, ChildInv, WriteInv, CloseInv, [Next]_vars
             PROVE  CloseInv'
  OBVIOUS
<1>1. WriteInv'
  BY WriteInvStep
<1>2. ASSUME pc # "killed", open' = open, UNCHANGED <<sent, childEnds>> PROVE CloseInv'
  BY <1>2 DEF CloseInv
<1>3. ASSUME DieOfSigPipe PROVE CloseInv'
  BY <1>3 DEF DieOfSigPipe, CloseInv
<1>4. CASE Poll \/ WaitInterrupted
  BY <1>2, <1>4 DEF Poll, WaitInterrupted, childVars
<1>5. CASE Wait
  BY <1>5 DEF Wait, ChildInv, CloseInv, childVars
<1>6. ASSUME NEW s \in Producers, ProduceChunk(s) PROVE CloseInv'
  <2>1. pc # "killed" /\ s \in open
    BY <1>6, HeadIsOpen DEF ProduceChunk
  <2>2. CASE /\ pos[s] = Size[s] \/ s \notin childEnds
             /\ Produced(s, TRUE, 0) /\ UNCHANGED <<pos, sent>>
    BY <1>1, <2>1, <2>2, ProducedClose
  <2>3. CASE Produced(s, FALSE, 1) /\ sent' = [sent EXCEPT ![s] = @ + 1]
    <3>1. \A t \in Producers : t # s => sent'[t] = sent[t]
      BY <2>3 DEF TypeOK
    <3> QED
      BY <1>1, <2>1, <2>3, <3>1, ProducedClose
  <2> QED
    BY <1>3, <1>6, <2>2, <2>3 DEF ProduceChunk
<1>7. ASSUME NEW s \in Producers, ProduceNothing(s) PROVE CloseInv'
  BY <1>1, <1>7, HeadIsOpen, ProducedClose DEF ProduceNothing
<1>8. ASSUME NEW s \in Producers, ProduceString(s) \/ ProduceStatic(s) PROVE CloseInv'
  <2>1. pc # "killed" /\ s \in open
    BY <1>8, HeadIsOpen DEF ProduceString, ProduceStatic
  <2>2. CASE /\ pos'[s] = Size[s] \/ s \notin childEnds
             /\ Produced(s, TRUE, 0) /\ UNCHANGED sent
    BY <1>1, <2>1, <2>2, ProducedClose
  <2>3. CASE WriteBegins
    BY <1>2, <2>1, <2>3 DEF WriteBegins, childVars
  <2> QED
    BY <1>3, <1>8, <2>2, <2>3 DEF ProduceString, ProduceStatic, WriteFails
<1>9. ASSUME NEW s \in Producers, pc = "write", IsHead(s), NEW count \in Nat,
             WriteReturns(s, count),
             sent' = sent \/ sent' = [sent EXCEPT ![s] = @ + 1]
      PROVE  CloseInv'
  <2>1. s \in open /\ \A t \in Producers : t # s => sent'[t] = sent[t]
    BY <1>9, HeadIsOpen DEF TypeOK
  <2>2. Produced(s, s \in Static /\ pos'[s] = Size[s], count)
    BY <1>9 DEF WriteReturns
  <2> QED
    BY <1>1, <1>9, <2>1, <2>2, ProducedClose
<1>10. ASSUME NEW s \in Producers, WriteUnit(s) PROVE CloseInv'
  <2>1. /\ pc = "write" /\ IsHead(s) /\ s \in open
        /\ sent' = [sent EXCEPT ![s] = @ + 1] /\ moved + 1 \in Nat
    BY <1>10, HeadIsOpen DEF WriteUnit, TypeOK
  <2>2. CASE UNCHANGED <<pc, open, childVars>>
    BY <2>1, <2>2 DEF TypeOK, CloseInv, childVars
  <2> QED
    BY <1>9, <1>10, <2>1, <2>2 DEF WriteUnit
<1>11. ASSUME NEW s \in Producers, WriteBreaks(s) PROVE CloseInv'
  <2>1. pc = "write" /\ IsHead(s) /\ s \in open /\ moved \in Nat
    BY <1>11, HeadIsOpen DEF WriteBreaks, TypeOK
  <2>2. CASE s \notin childEnds /\ Produced(s, TRUE, 0) /\ UNCHANGED sent
    BY <1>1, <2>1, <2>2, ProducedClose
  <2> QED
    BY <1>3, <1>9, <1>11, <2>1, <2>2 DEF WriteBreaks, WriteFails
<1>12. ASSUME NEW s \in Producers, WriteInterrupted(s) PROVE CloseInv'
  BY <1>9, <1>12 DEF WriteInterrupted, TypeOK
<1>13. ASSUME NEW s \in Consumers, Consume(s) PROVE CloseInv'
  <2>1. PICK success \in BOOLEAN :
             Consumed(s, success) /\ (~success => s \in Refusers \/ s \notin childEnds)
    BY <1>13, Zenon DEF Consume
  <2>2. /\ pc # "killed" /\ UNCHANGED <<sent, childEnds>>
        /\ open' = open \/ (open' = open \ {s} /\ ~success)
    BY <1>13, <2>1 DEF Consume, Consumed, CloseIf, childVars
  <2> QED
    BY <2>1, <2>2 DEF CloseInv
<1>14. CASE ChildStep \/ ChildKilled
  BY <1>14, ChildLeavesParent DEF CloseInv, parentVars
<1>15. CASE UNCHANGED vars
  BY <1>15 DEF CloseInv, vars, parentVars, childVars
<1> QED
  BY <1>4, <1>5, <1>6, <1>7, <1>8, <1>10, <1>11, <1>12, <1>13, <1>14, <1>15
  DEF Next, ParentStep, ParentInterrupted, Over

LEMMA InputStep ==
  TypeOK /\ SnapshotHolds /\ InputInv /\ [Next]_vars => InputInv'
<1> SUFFICES ASSUME TypeOK, SnapshotHolds, InputInv, [Next]_vars PROVE InputInv'
  OBVIOUS
<1>1. ChildInv' /\ WriteInv' /\ CloseInv'
  BY ChildInvStep, WriteInvStep, CloseInvStep DEF InputInv
<1>2. NoTruncatedInput'
  <2>1. CASE UNCHANGED <<got, eof>> /\ (pc' # "killed" => pc # "killed")
    BY <2>1 DEF InputInv, NoTruncatedInput
  <2>2. CASE ParentStep \/ ParentInterrupted
    BY <2>1, <2>2, ParentLeavesChild DEF childVars
  <2>3. ASSUME NEW s \in Streams, ChildReads(s) PROVE NoTruncatedInput'
    <3>1. /\ s \in Producers /\ s \in childEnds \ eof /\ pc' = pc /\ sent' = sent
      BY <2>3 DEF ChildReads, TypeOK, ChildOps, Idle, InputInv, ChildInv, parentVars
    <3>2. CASE got' = [got EXCEPT ![s] = @ + 1] /\ eof' = eof
      BY <3>1, <3>2 DEF TypeOK, InputInv, NoTruncatedInput
    <3>3. CASE got[s] = sent[s] /\ s \notin open /\ eof' = eof \cup {s} /\ got' = got
      BY <3>1, <3>3 DEF InputInv, NoTruncatedInput, CloseInv
    <3> QED
      BY <2>3, <3>2, <3>3 DEF ChildReads
  <2>4. ASSUME NEW s \in Streams, ChildWrites(s) \/ ChildCloses(s) PROVE NoTruncatedInput'
    BY <2>1, <2>4 DEF ChildWrites, ChildCloses, ChildVanishes, parentVars
  <2>5. CASE ChildCalls \/ ChildExits \/ ChildKilled
    BY <2>1, <2>5 DEF ChildCalls, ChildExits, ChildKilled, ChildVanishes, parentVars
  <2>6. CASE UNCHANGED vars
    BY <2>1, <2>6 DEF vars, parentVars, childVars
  <2> QED
    BY <2>2, <2>3, <2>4, <2>5, <2>6 DEF Next, ChildStep, Over
<1> QED
  BY <1>1, <1>2 DEF InputInv

LEMMA InputInit == Init => InputInv
<1> SUFFICES ASSUME Init PROVE InputInv
  OBVIOUS
<1>1. ChildInv
  BY DEF Init, ChildInv, Idle
<1>2. WriteInv
  BY BoundsAssumption DEF Init, WriteInv, InFlight
<1>3. CloseInv /\ NoTruncatedInput
  BY DEF Init, CloseInv, NoTruncatedInput
<1> QED
  BY <1>1, <1>2, <1>3 DEF InputInv

(* A child that reads end of file on a stream has read all that the        *)
(* producer offered, however the loop interleaves with the child.          *)
THEOREM CompleteInput == Spec => []NoTruncatedInput
<1>1. Spec => []InputInv
  BY TypeCorrect, Snapshot, InputInit, InputStep, PTL DEF Spec
<1>2. InputInv => NoTruncatedInput
  BY DEF InputInv
<1> QED
  BY <1>1, <1>2, PTL

(* A POLLOUT promises room for one buffer; but what a ProducerStatic, or a *)
(* ProducerDynamic of a string, has sent of a content that fits is less    *)
(* than the content, so that there is room for the rest, whatever the      *)
(* child has read of it.                                                   *)
THEOREM FittingWrites == Spec => []FittingWriteNeverBlocks
<1>1. Spec => []InputInv
  BY TypeCorrect, Snapshot, InputInit, InputStep, PTL DEF Spec
<1>2. TypeOK /\ InputInv => FittingWriteNeverBlocks
  <2> SUFFICES ASSUME TypeOK, WriteInv, pc = "write",
                      NEW s \in toProduce, IsHead(s), Size[s] <= Capacity, s \in childEnds
               PROVE  HasRoom(s)
    BY DEF FittingWriteNeverBlocks, InputInv
  <2>1. s \in Producers /\ s \in Streams
    BY StreamsAssumption DEF TypeOK
  <2>2. sent[s] = pos[s] + moved /\ pos[s] + moved < Size[s]
    BY <2>1 DEF WriteInv, InFlight
  <2>3. got[s] \in Nat /\ sent[s] \in Nat /\ Size[s] \in Nat /\ Capacity \in Nat
    BY <2>1, BoundsAssumption DEF TypeOK
  <2> QED
    BY <2>2, <2>3 DEF HasRoom
<1> QED
  BY <1>1, <1>2, TypeCorrect, PTL

-----------------------------------------------------------------------------
(* What closes descriptors, and what ends consumers.                       *)

(* A pipe's consumer that wanted no more data has lost its descriptor,     *)
(* since allNpos holds whenever a stream that is only consumed is served.  *)
DroppedInv ==
  /\ \A s \in dropped \ Producers : s \notin open /\ s \notin toConsume
  /\ \A s \in Streams \ Producers : IsHead(s) => allNpos

LEMMA ProducedDropped ==
  ASSUME TypeOK, DroppedInv, NEW s \in Producers, IsHead(s),
         NEW npos, NEW count, Produced(s, npos, count)
  PROVE  DroppedInv'
<1>1. /\ toProduce' = toProduce \ {s} /\ UNCHANGED <<toConsume, dropped>>
      /\ open' \subseteq open
      /\ s \notin toConsume => allNpos'
  BY DEF Produced, CloseIf
<1>2. ASSUME NEW t \in Streams \ Producers, IsHead(t)' PROVE allNpos'
  <2>1. t # s /\ s <= t
    BY <1>1, <1>2 DEF IsHead
  <2>2. s \in toConsume => t <= s
    BY <1>1, <1>2 DEF IsHead
  <2>3. s \in Nat /\ t \in Nat
    BY StreamsAssumption
  <2> QED
    BY <1>1, <2>1, <2>2, <2>3
<1> QED
  BY <1>1, <1>2 DEF DroppedInv

LEMMA DroppedStep == TypeOK /\ DroppedInv /\ [Next]_vars => DroppedInv'
<1> SUFFICES ASSUME TypeOK, DroppedInv, [Next]_vars PROVE DroppedInv'
  OBVIOUS
<1>1. ASSUME UNCHANGED <<toProduce, toConsume, dropped, allNpos>>, open' \subseteq open
      PROVE  DroppedInv'
  BY <1>1 DEF DroppedInv, IsHead
<1>2. CASE Poll
  <2>1. allNpos' /\ UNCHANGED <<open, dropped>> /\ toConsume' \subseteq open
    BY <1>2 DEF Poll
  <2> QED
    BY <2>1 DEF DroppedInv
<1>3. CASE Wait \/ WaitInterrupted \/ DieOfSigPipe
  BY <1>1, <1>3 DEF Wait, WaitInterrupted, DieOfSigPipe
<1>4. ASSUME NEW s \in Producers, ProduceChunk(s) \/ ProduceNothing(s)
      PROVE  DroppedInv'
  BY <1>3, <1>4, ProducedDropped DEF ProduceChunk, ProduceNothing
<1>5. ASSUME NEW s \in Producers, ProduceString(s) \/ ProduceStatic(s)
      PROVE  DroppedInv'
  <2>1. CASE UNCHANGED <<toProduce, toConsume, dropped, allNpos, open>>
    BY <1>1, <2>1
  <2>2. IsHead(s) /\ (\/ Produced(s, TRUE, 0) \/ DieOfSigPipe
                      \/ UNCHANGED <<toProduce, toConsume, dropped, allNpos, open>>)
    BY <1>5 DEF ProduceString, ProduceStatic, WriteBegins, WriteFails
  <2> QED
    BY <1>3, <2>1, <2>2, ProducedDropped
<1>6. ASSUME NEW s \in Producers, WriteUnit(s) \/ WriteBreaks(s) \/ WriteInterrupted(s)
      PROVE  DroppedInv'
  <2>1. CASE UNCHANGED <<toProduce, toConsume, dropped, allNpos, open>>
    BY <1>1, <2>1
  <2>2. IsHead(s) /\ (\/ \E npos, count : Produced(s, npos, count)
                      \/ DieOfSigPipe
                      \/ UNCHANGED <<toProduce, toConsume, dropped, allNpos, open>>)
    BY <1>6 DEF WriteUnit, WriteBreaks, WriteInterrupted, WriteReturns, WriteFails
  <2> QED
    BY <1>3, <2>1, <2>2, ProducedDropped
<1>7. ASSUME NEW s \in Consumers, Consume(s) PROVE DroppedInv'
  <2>1. PICK success \in BOOLEAN : Consumed(s, success)
    BY <1>7 DEF Consume
  <2>2. /\ IsHead(s) /\ s \in Streams /\ UNCHANGED toProduce
        /\ toConsume' = toConsume \ {s} /\ allNpos'
        /\ dropped' = IF success THEN dropped ELSE dropped \cup {s}
        /\ open' = IF allNpos /\ ~success THEN open \ {s} ELSE open
    BY <1>7, <2>1, StreamsAssumption DEF Consume, Consumed, CloseIf
  <2>3. s \notin Producers => allNpos
    BY <2>2 DEF DroppedInv
  <2> QED
    BY <2>2, <2>3 DEF DroppedInv
<1>8. CASE ChildStep \/ ChildKilled
  BY <1>1, <1>8, ChildLeavesParent DEF parentVars
<1>9. CASE UNCHANGED vars
  BY <1>1, <1>9 DEF vars, parentVars
<1> QED
  BY <1>2, <1>3, <1>4, <1>5, <1>6, <1>7, <1>8, <1>9
  DEF Next, ParentStep, ParentInterrupted, Over

(* A pipe's consumer that wanted no more data is never handed data again,  *)
(* although the null is set in a copy, whatever is on the other streams.   *)
THEOREM NeverHandedAgain == Spec => []DroppedStaysDropped
<1>1. Init => DroppedInv
  BY DEF Init, DroppedInv
<1>2. DroppedInv => DroppedStaysDropped
  BY DEF DroppedInv, DroppedStaysDropped
<1> QED
  BY <1>1, <1>2, DroppedStep, TypeCorrect, PTL DEF Spec

-----------------------------------------------------------------------------
(* What holds when the streams are pipes, no producer or consumer gives up *)
(* and the child keeps its streams until it ends, as when a Process runs   *)
(* an ordinary filter with the library's own producers and consumers.      *)
Gentle ==
  /\ Producers \cap Consumers = {}
  /\ Idlers = {} /\ Refusers = {} /\ Closers = {}

(* The loop then reaches waitpid() only after a poll() that a hangup ended *)
(* or that had nothing left to look at.                                    *)
QuietInv ==
  /\ status = Running => childEnds = Streams
  /\ pc \notin {"returned", "killed"} => Consumers \subseteq open
  /\ pc = "waitpid" => /\ status # Running \/ open = {}
                       /\ \A s \in Consumers : taken[s] = made[s]
  /\ pc \in {"returned", "killed"} => status # Running
  /\ pc = "returned" => \A s \in Consumers : taken[s] = made[s]

(* An outcome of produce() that has written something, or is the last.     *)
LEMMA ProducedQuiet ==
  ASSUME Gentle, QuietInv, NEW s \in Producers, pc \in {"process", "write"},
         NEW npos, NEW count, Produced(s, npos, count), npos \/ count > 0
  PROVE  QuietInv'
<1>1. pc' \in {"poll", "process"} /\ UNCHANGED <<childEnds, status>>
  BY DEF Produced, AfterResult, childVars
<1>2. Consumers \subseteq open'
  BY DEF Gentle, QuietInv, Produced, CloseIf
<1> QED
  BY <1>1, <1>2 DEF QuietInv

(* A broken pipe has lost its child.                                       *)
LEMMA DieQuiet ==
  ASSUME QuietInv, NEW s \in Producers \ childEnds, DieOfSigPipe
  PROVE  QuietInv'
  BY StreamsAssumption DEF QuietInv, DieOfSigPipe, childVars

LEMMA PollQuiet == ASSUME TypeOK, QuietInv, Poll PROVE QuietInv'
<1>1. /\ pc = "poll" /\ PollWakes
      /\ UNCHANGED <<open, made, taken, childEnds, status>>
      /\ pc' = IF toProduce' \cup toConsume' = {} THEN "waitpid" ELSE "process"
  BY DEF Poll, childVars
<1>2. CASE toProduce' \cup toConsume' = {}
  <2>1. /\ \A s \in open \cap Producers : ~PollOut(s)
        /\ \A s \in open \cap Consumers : ~PollIn(s)
    BY <1>2 DEF Poll
  <2>2. \A s \in Consumers : taken[s] = made[s]
    BY <1>1, <2>1 DEF QuietInv, PollIn, HasData, TypeOK
  <2>3. status # Running \/ open = {}
    BY <1>1, <2>1 DEF QuietInv, PollWakes, PollHup, TypeOK
  <2> QED
    BY <1>1, <1>2, <2>2, <2>3 DEF QuietInv
<1>3. CASE toProduce' \cup toConsume' # {}
  BY <1>1, <1>3 DEF QuietInv
<1> QED
  BY <1>2, <1>3

LEMMA QuietStep ==
  ASSUME Gentle, TypeOK, ChildInv, QuietInv, [Next]_vars
  PROVE  QuietInv'
<1>1. CASE Poll
  BY <1>1, PollQuiet
<1>2. CASE Wait \/ WaitInterrupted
  BY <1>2 DEF Wait, WaitInterrupted, QuietInv, childVars
<1>3. ASSUME NEW s \in Producers, ProduceChunk(s) PROVE QuietInv'
  <2>1. pc = "process"
    BY <1>3 DEF ProduceChunk
  <2>2. CASE Produced(s, TRUE, 0)
    BY <2>1, <2>2, ProducedQuiet
  <2>3. CASE Produced(s, FALSE, 1)
    <3>1. FALSE \/ 1 > 0
      OBVIOUS
    <3> QED
      BY <2>1, <2>3, <3>1, ProducedQuiet
  <2> QED
    BY <1>3, <2>2, <2>3, DieQuiet DEF ProduceChunk
<1>4. ASSUME NEW s \in Producers, ProduceNothing(s) PROVE QuietInv'
  BY <1>4 DEF ProduceNothing, Gentle
<1>5. ASSUME NEW s \in Producers, ProduceString(s) \/ ProduceStatic(s) PROVE QuietInv'
  <2>1. pc = "process"
    BY <1>5 DEF ProduceString, ProduceStatic
  <2>2. CASE Produced(s, TRUE, 0)
    BY <2>1, <2>2, ProducedQuiet
  <2>3. CASE WriteBegins
    BY <2>1, <2>3 DEF WriteBegins, QuietInv, childVars
  <2> QED
    BY <1>5, <2>2, <2>3, DieQuiet DEF ProduceString, ProduceStatic, WriteFails
<1>6. ASSUME NEW s \in Producers, pc = "write", NEW count \in Nat, count > 0,
             WriteReturns(s, count)
      PROVE  QuietInv'
  BY <1>6, ProducedQuiet DEF WriteReturns
<1>7. ASSUME NEW s \in Producers, WriteUnit(s) PROVE QuietInv'
  <2>1. moved + 1 \in Nat /\ moved + 1 > 0 /\ pc = "write"
    BY <1>7 DEF WriteUnit, TypeOK
  <2>2. CASE UNCHANGED <<pc, open, childVars>>
    BY <2>1, <2>2 DEF QuietInv, childVars
  <2> QED
    BY <1>6, <1>7, <2>1, <2>2 DEF WriteUnit
<1>8. ASSUME NEW s \in Producers, WriteBreaks(s) PROVE QuietInv'
  <2>1. moved \in Nat /\ pc = "write" /\ s \notin childEnds
    BY <1>8 DEF WriteBreaks, TypeOK
  <2> QED
    BY <1>6, <1>8, <2>1, ProducedQuiet, DieQuiet DEF WriteBreaks, WriteFails
<1>9. ASSUME NEW s \in Producers, WriteInterrupted(s) PROVE QuietInv'
  BY <1>6, <1>9 DEF WriteInterrupted, TypeOK
<1>10. ASSUME NEW s \in Consumers, Consume(s) PROVE QuietInv'
  <2>1. Consumed(s, TRUE)
    BY <1>10 DEF Consume, Gentle, Socket
  <2>2. /\ pc' \in {"poll", "process"} /\ open' = open
        /\ UNCHANGED <<childEnds, status>>
    BY <2>1 DEF Consumed, CloseIf, AfterResult, childVars
  <2> QED
    BY <1>10, <2>2 DEF QuietInv, Consume
<1>11. ASSUME NEW st, ChildVanishes(st), st # Running PROVE QuietInv'
  BY <1>11 DEF ChildVanishes, QuietInv, parentVars
<1>12. CASE ChildExits \/ ChildKilled
  BY <1>11, <1>12 DEF ChildExits, ChildKilled, Exited, Signaled, Running
<1>13. ASSUME UNCHANGED <<parentVars, made, taken, childEnds, status>> PROVE QuietInv'
  BY <1>13 DEF QuietInv, parentVars
<1>14. CASE ChildCalls
  BY <1>13, <1>14 DEF ChildCalls
<1>15. ASSUME NEW s \in Streams, ChildReads(s) \/ ChildCloses(s) PROVE QuietInv'
  BY <1>13, <1>15 DEF ChildReads, ChildCloses, Gentle
<1>16. ASSUME NEW s \in Streams, ChildWrites(s) PROVE QuietInv'
  <2>1. s \in Consumers /\ status = Running
    BY <1>16 DEF ChildWrites, TypeOK, ChildOps, Idle, ChildInv
  <2>2. CASE s \in open /\ UNCHANGED <<parentVars, taken, childEnds, status>>
    BY <2>1, <2>2 DEF QuietInv, parentVars
  <2>3. CASE ChildVanishes(IF SigPipeIgnored THEN Exited(1) ELSE Signaled(SIGPIPE))
    BY <1>11, <2>3 DEF Exited, Signaled, Running
  <2> QED
    BY <1>16, <2>2, <2>3 DEF ChildWrites
<1>17. CASE UNCHANGED vars
  BY <1>13, <1>17 DEF vars, childVars
<1> QED
  BY <1>1, <1>2, <1>3, <1>4, <1>5, <1>7, <1>8, <1>9, <1>10, <1>12, <1>14, <1>15,
     <1>16, <1>17
  DEF Next, ParentStep, ParentInterrupted, ChildStep, Over

(* The invariant that the theorems below use.                              *)
LoopInv == TypeOK /\ SnapshotHolds /\ InputInv /\ QuietInv

LEMMA LoopInvariant == ASSUME Gentle PROVE Spec => []LoopInv
<1>1. Init => QuietInv
  BY StreamsAssumption DEF Init, QuietInv
<1>2. TypeOK /\ InputInv /\ QuietInv /\ [Next]_vars => QuietInv'
  BY QuietStep DEF InputInv
<1>3. Spec => []InputInv
  BY TypeCorrect, Snapshot, InputInit, InputStep, PTL DEF Spec
<1>4. Spec => []QuietInv
  BY <1>1, <1>2, <1>3, TypeCorrect, PTL DEF Spec
<1>5. TypeOK /\ SnapshotHolds /\ InputInv /\ QuietInv => LoopInv
  BY DEF LoopInv
<1> QED
  BY <1>3, <1>4, <1>5, TypeCorrect, Snapshot, PTL

(* With such streams, the parent blocks in waitpid() only when each        *)
(* descriptor that it holds is of no more use to the child or to itself.   *)
THEOREM WaitWhenQuiet == ASSUME Gentle PROVE Spec => []WaitOnlyWhenQuiet
<1>1. LoopInv => WaitOnlyWhenQuiet
  BY DEF LoopInv, TypeOK, InputInv, ChildInv, QuietInv, WaitOnlyWhenQuiet, HasData
<1> QED
  BY <1>1, LoopInvariant, PTL

(* And when execute() returns, the consumers have all that was written.    *)
THEOREM AllConsumed == ASSUME Gentle PROVE Spec => []NothingLost
<1>1. LoopInv => NothingLost
  BY DEF LoopInv, QuietInv, NothingLost
<1> QED
  BY <1>1, LoopInvariant, PTL

-----------------------------------------------------------------------------
(* Each step of the loop is a step of Execution, or changes nothing that   *)
(* Execution speaks of.                                                    *)

LEMMA InitImplements == Init => Exec!Init
  BY DEF Init, Exec!Init, Exec!ExitFailure, ExitFailure, Exec!Running, Running

(* The parent's steps that are of no concern to Execution.                 *)
LEMMA ParentStutters ==
  ASSUME NEW s \in Producers,
         \/ ProduceChunk(s) \/ ProduceNothing(s) \/ ProduceString(s) \/ ProduceStatic(s)
         \/ WriteUnit(s) \/ WriteBreaks(s) \/ WriteInterrupted(s)
  PROVE  /\ UNCHANGED <<got, eof, made, taken, status, rc>>
         /\ pc # "returned" /\ pc' # "returned"
<1>1. ASSUME NEW npos, NEW count, Produced(s, npos, count)
      PROVE  /\ UNCHANGED <<got, eof, made, taken, status, rc>>
             /\ pc' # "returned"
  BY <1>1, AfterResultType DEF Produced, childVars
<1>2. ASSUME DieOfSigPipe
      PROVE  /\ UNCHANGED <<got, eof, made, taken, status, rc>>
             /\ pc' # "returned"
  BY <1>2 DEF DieOfSigPipe, childVars
<1>3. CASE ProduceChunk(s) \/ ProduceNothing(s)
  BY <1>1, <1>2, <1>3 DEF ProduceChunk, ProduceNothing
<1>4. CASE ProduceString(s) \/ ProduceStatic(s)
  BY <1>1, <1>2, <1>4 DEF ProduceString, ProduceStatic, WriteBegins, WriteFails, childVars
<1>5. CASE WriteUnit(s)
  BY <1>1, <1>5 DEF WriteUnit, WriteReturns, childVars
<1>6. CASE WriteBreaks(s) \/ WriteInterrupted(s)
  BY <1>1, <1>2, <1>6 DEF WriteBreaks, WriteInterrupted, WriteReturns, WriteFails
<1> QED
  BY <1>3, <1>4, <1>5, <1>6

(* A stream that the child reads has been sent no more than was offered.   *)
LEMMA SentWithinSize ==
  ASSUME LoopInv, NEW s \in Producers \cap childEnds
  PROVE  sent[s] <= Size[s]
<1>1. s \in Streams /\ pos[s] \in Nat /\ moved \in Nat /\ Size[s] \in Nat
  BY StreamsAssumption, BoundsAssumption DEF LoopInv, TypeOK
<1> QED
  BY <1>1 DEF LoopInv, InputInv, WriteInv, InFlight

LEMMA EndImplements ==
  ASSUME LoopInv, NEW st \in Statuses \ {Running}, status = Running, ChildVanishes(st)
  PROVE  Exec!End
  BY DEF ChildVanishes, Exec!End, Exec!Running, Running, parentVars

LEMMA StepImplements ==
  ASSUME Gentle, ~AutoReap, LoopInv, [Next]_vars
  PROVE  [Exec!Next]_(Exec!vars)
<1>1. ASSUME UNCHANGED <<got, eof, made, taken, status, rc>>,
             pc = "returned" <=> pc' = "returned"
      PROVE  UNCHANGED Exec!vars
  BY <1>1 DEF Exec!vars
<1>2. CASE Poll \/ WaitInterrupted
  BY <1>1, <1>2 DEF Poll, WaitInterrupted, childVars
<1>3. CASE Wait
  <2>1. /\ pc = "waitpid" /\ pc' = "returned" /\ status # Running
        /\ rc' = ReturnCode(status)
        /\ UNCHANGED <<got, eof, made, taken, status>>
    BY <1>3 DEF Wait, childVars
  <2>2. \A s \in Consumers : taken[s] = made[s]
    BY <2>1 DEF LoopInv, QuietInv
  <2>3. Exec!Return
    BY <2>1, <2>2 DEF Exec!Return, Exec!Running, Running, Exec!ReturnCode, ReturnCode
  <2> QED
    BY <2>3 DEF Exec!Next
<1>4. ASSUME NEW s \in Producers,
             \/ ProduceChunk(s) \/ ProduceNothing(s)
             \/ ProduceString(s) \/ ProduceStatic(s)
             \/ WriteUnit(s) \/ WriteBreaks(s) \/ WriteInterrupted(s)
      PROVE  UNCHANGED Exec!vars
  BY <1>1, <1>4, ParentStutters
<1>5. ASSUME NEW s \in Consumers, Consume(s) PROVE Exec!Take(s)
  <2>1. /\ pc = "process" /\ HasData(s) /\ taken' = [taken EXCEPT ![s] = @ + 1]
        /\ Consumed(s, TRUE)
    BY <1>5 DEF Consume, Gentle, Socket
  <2>2. pc' \in {"poll", "process", "waitpid"} /\ UNCHANGED <<rc, got, made, eof, status>>
    BY <2>1, AfterResultType DEF Consumed, childVars
  <2> QED
    BY <2>1, <2>2 DEF Exec!Take, HasData
<1>6. ASSUME NEW s \in Streams, ChildReads(s) PROVE Exec!Feed(s) \/ Exec!TellEnd(s)
  <2>1. /\ s \in Producers /\ s \in childEnds \ eof /\ status = Running
        /\ UNCHANGED <<pc, rc, sent, made, taken, status>>
    BY <1>6
    DEF ChildReads, LoopInv, TypeOK, ChildOps, Idle, InputInv, ChildInv, parentVars
  <2>2. CASE got[s] < sent[s] /\ got' = [got EXCEPT ![s] = @ + 1] /\ eof' = eof
    <3>1. got[s] < Size[s]
      <4>1. sent[s] <= Size[s]
        BY <2>1, SentWithinSize
      <4>2. got[s] \in Nat /\ sent[s] \in Nat /\ Size[s] \in Nat
        BY <2>1, BoundsAssumption DEF LoopInv, TypeOK
      <4> QED
        BY <2>2, <4>1, <4>2
    <3> QED
      BY <2>1, <2>2, <3>1 DEF Exec!Feed, Exec!Running, Running
  <2>3. CASE got[s] = sent[s] /\ s \notin open /\ eof' = eof \cup {s} /\ got' = got
    <3>1. got[s] = Size[s]
      BY <2>1, <2>3 DEF LoopInv, QuietInv, InputInv, CloseInv, Gentle
    <3> QED
      BY <2>1, <2>3, <3>1 DEF Exec!TellEnd, Exec!Running, Running
  <2> QED
    BY <1>6, <2>2, <2>3 DEF ChildReads
<1>7. ASSUME NEW s \in Streams, ChildWrites(s) PROVE Exec!Make(s) \/ Exec!End
  <2>1. s \in Consumers /\ status = Running
    BY <1>7 DEF ChildWrites, LoopInv, TypeOK, ChildOps, Idle, InputInv, ChildInv
  <2>2. CASE /\ made' = [made EXCEPT ![s] = @ + 1]
             /\ UNCHANGED <<parentVars, got, taken, eof, status>>
    BY <2>1, <2>2 DEF Exec!Make, Exec!Running, Running, parentVars
  <2>3. CASE ChildVanishes(IF SigPipeIgnored THEN Exited(1) ELSE Signaled(SIGPIPE))
    BY <2>1, <2>3, EndImplements DEF Statuses, Exited, Signaled, Running
  <2> QED
    BY <1>7, <2>2, <2>3 DEF ChildWrites
<1>8. CASE ChildExits \/ ChildKilled
  <2>1. Exec!End
    BY <1>8, EndImplements DEF ChildExits, ChildKilled, Statuses, Exited, Signaled, Running
  <2> QED
    BY <2>1 DEF Exec!Next
<1>9. ASSUME NEW s \in Streams, ChildCalls \/ ChildCloses(s) PROVE UNCHANGED Exec!vars
  BY <1>1, <1>9 DEF ChildCalls, ChildCloses, parentVars
<1>10. CASE UNCHANGED vars
  BY <1>1, <1>10 DEF vars, parentVars, childVars
<1>11. CASE ChildCalls
  BY <1>1, <1>11 DEF ChildCalls, parentVars
<1>12. \A s \in Streams : s \in Producers \/ s \in Consumers
  BY StreamsAssumption
<1>13. ASSUME NEW s \in Streams, ChildReads(s) PROVE Exec!Next
  <2>1. s \in Producers
    BY <1>13 DEF ChildReads, LoopInv, TypeOK, ChildOps, Idle
  <2> QED
    BY <1>6, <1>13, <2>1 DEF Exec!Next
<1>14. ASSUME NEW s \in Streams, ChildWrites(s) PROVE Exec!Next
  <2>1. s \in Consumers
    BY <1>14 DEF ChildWrites, LoopInv, TypeOK, ChildOps, Idle
  <2> QED
    BY <1>7, <1>14, <2>1 DEF Exec!Next
<1>15. ASSUME NEW s \in Consumers, Consume(s) PROVE Exec!Next
  BY <1>5, <1>15 DEF Exec!Next
<1> QED
  BY <1>2, <1>3, <1>4, <1>8, <1>9, <1>10, <1>11, <1>13, <1>14, <1>15
  DEF Next, ParentStep, ParentInterrupted, ChildStep, Over

(* With pipes whose users do not give up, and a caller that can wait for   *)
(* its children, every behaviour of the loop keeps the safety part of what *)
(* Execution promises: it feeds, takes and returns as stated there.        *)
THEOREM ImplementsSafety ==
  ASSUME Gentle, ~AutoReap PROVE Spec => Exec!Init /\ [][Exec!Next]_(Exec!vars)
  BY InitImplements, StepImplements, LoopInvariant, PTL DEF Spec
=============================================================================
