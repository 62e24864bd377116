---------------------------- MODULE CallsProofs -----------------------------
(***************************************************************************)
(* Proofs about Calls, for any parameters, any number of calls and any     *)
(* bounds.                                                                 *)
(***************************************************************************)
EXTENDS Calls, OwnershipProofs

(* Calls change no object, and the program's other steps nothing that      *)
(* calls have changed.                                                     *)
LEMMA CallsKeepObjects == [Next]_allVars => [ObjectStep]_vars
  BY DEF Next, CallStep, Between, Done, allVars, Begin, BeginWithMap, Collected, Refused,
         AddStream, AddConflicting, AddFeature, Prepare, OpenFails, MapTimes, MapFails,
         Fork, ForkFails, ServingThrows, Reap, Return, Throw

LEMMA ObjectsInit == CallsInit => Inv /\ Typed
  BY InvInit, TypedInit DEF CallsInit

LEMMA ObjectsStep == Inv /\ Typed /\ [Next]_allVars => (Inv /\ Typed)'
<1>1. Typed /\ UNCHANGED vars => Typed'
  BY DEF Typed, vars
<1> QED
  BY <1>1, CallsKeepObjects, InvStep, InvStutter, TypedStep

(* Whatever else a program does, also with a Process whose calls throw, an *)
(* array of strings belongs to one object.                                 *)
THEOREM ArraysOwnedByCalls == Spec => []Owned
<1>1. Inv => Owned
  BY DEF Inv
<1> QED
  BY ObjectsInit, ObjectsStep, <1>1, PTL DEF Spec

(* What argumentCopy() writes fits what was allocated for it, for the      *)
(* command line of every call.                                             *)
THEOREM PassesFitByCalls == Spec => []CopyFits
<1>1. Typed => CopyFits
  BY PassesAgree DEF Typed, CopyFits
<1> QED
  BY ObjectsInit, ObjectsStep, <1>1, PTL DEF Spec

(* An object that a call is made with, or that is copied into a Process,   *)
(* has the words of its line, whatever the program did with it before.     *)
THEOREM WordsKeptByCalls == Spec => []WordsOfLine
<1>1. CallsInit => Faithful
  BY FaithfulInit DEF CallsInit
<1>2. Inv /\ Faithful /\ [Next]_allVars => Faithful'
  BY CallsKeepObjects, FaithfulStep, FaithfulStutter
<1> QED
  BY <1>1, <1>2, ObjectsInit, ObjectsStep, FaithfulMeans, PTL DEF Spec

-----------------------------------------------------------------------------
(* What a call may have set so far, by how far it is; all the rest is of   *)
(* calls that threw.                                                       *)
OfCall == IF stage = "loop" THEN {call} ELSE {}

Effects ==
  /\ call \in Nat /\ (stage # "idle" => call # 0)
  /\ mapped \in {0, call}
  /\ stage \in {"idle", "collect", "refused", "prepare"} => mapped = 0
  /\ stage \in {"fork", "loop", "return"} /\ "time" \in features => mapped = call
  /\ children \subseteq broken \cup OfCall
  /\ stage = "loop" => call \in children
  /\ pid \in {0} \cup broken \cup (IF stage \in {"loop", "return"} THEN {call} ELSE {})
  /\ featurePid \in {0} \cup broken \cup (IF "process" \in features THEN OfCall ELSE {})
  /\ timePtr \in {0} \cup broken
       \cup (IF "time" \in features /\ stage \in {"fork", "loop"} THEN {call} ELSE {})
  /\ stage \in {"fork", "loop"} /\ "time" \in features => timePtr = call
  /\ stage = "return" \/ (stage = "idle" /\ last = "returned") =>
       /\ call \notin children
       /\ "process" \in features => featurePid = 0
       /\ "time" \in features => timePtr = 0
  /\ stage = "idle" /\ last = "returned" => pid = 0

LEMMA EffectsInit == CallsInit => Effects
  BY DEF CallsInit, Effects, OfCall

LEMMA ThrowEffects ==
  ASSUME Effects, Throw, stage # "idle", stage # "return"
  PROVE  Effects'
<1>1. /\ stage' = "idle" /\ last' = "threw" /\ mapped' = 0
      /\ UNCHANGED <<call, features, timePtr, pid, featurePid, children>>
      /\ broken \subseteq broken'
      /\ mapped = call \/ call \in children => call \in broken'
  BY DEF Throw
<1>2. stage = "loop" => call \in children
  BY DEF Effects
<1>3. children \subseteq broken'
  BY <1>1, <1>2 DEF Effects, OfCall
<1>4. pid \in {0} \cup broken' /\ featurePid \in {0} \cup broken'
  BY <1>1, <1>2 DEF Effects, OfCall
<1>5. timePtr \in {0} \cup broken'
  BY <1>1 DEF Effects
<1> QED
  BY <1>1, <1>3, <1>4, <1>5 DEF Effects, OfCall

LEMMA EffectsStep == Effects /\ [Next]_allVars => Effects'
<1> SUFFICES ASSUME Effects, [Next]_allVars PROVE Effects'
  OBVIOUS
<1> USE DEF effectVars, callVars
<1>1. CASE Begin
  BY <1>1 DEF Begin, MayCall, Effects, OfCall
<1>2. CASE BeginWithMap
  BY <1>2 DEF BeginWithMap, MayCall, Effects, OfCall
<1>3. CASE Collected
  BY <1>3 DEF Collected, Effects, OfCall
<1>4. CASE Refused
  BY <1>4 DEF Refused, Effects, OfCall
<1>5. ASSUME NEW p \in Parameters, AddStream(p) PROVE Effects'
  BY <1>5 DEF AddStream, MayAdd, Effects, OfCall
<1>6. ASSUME NEW p \in Parameters, AddConflicting(p) PROVE Effects'
  BY <1>6 DEF AddConflicting, MayAdd, Effects, OfCall
<1>7. ASSUME NEW p \in Parameters, AddFeature(p) PROVE Effects'
  BY <1>7 DEF AddFeature, MayAdd, Effects, OfCall
<1>8. CASE Prepare
  BY <1>8 DEF Prepare, Effects, OfCall
<1>9. CASE OpenFails \/ MapFails \/ ForkFails \/ ServingThrows
  BY <1>9, ThrowEffects DEF OpenFails, MapFails, ForkFails, ServingThrows
<1>10. CASE MapTimes
  BY <1>10 DEF MapTimes, SetTimeDataPtr, Effects, OfCall
<1>11. CASE Fork
  BY <1>11 DEF Fork, Effects, OfCall
<1>12. CASE Reap
  BY <1>12 DEF Reap, SetTimeDataPtr, Effects, OfCall
<1>13. CASE Return
  BY <1>13 DEF Return, Effects, OfCall
<1>14. CASE Between \/ UNCHANGED allVars
  BY <1>14 DEF Between, allVars, Effects, OfCall
<1> QED
  BY <1>1, <1>2, <1>3, <1>4, <1>5, <1>6, <1>7, <1>8, <1>9, <1>10, <1>11, <1>12,
     <1>13, <1>14 DEF Next, CallStep, Done

(* A call that returns leaves no child, number or pointer behind, for any  *)
(* number of calls before it that threw.                                   *)
THEOREM NothingLeft == Spec => []LeavesNothing
<1>1. Effects => LeavesNothing
  BY DEF Effects, OfCall, LeavesNothing
<1> QED
  BY EffectsInit, EffectsStep, <1>1, PTL DEF Spec

(* A FeatureTime points to mapped memory unless a call threw.              *)
THEOREM PointersValid == Spec => []PointerValid
<1>1. Effects => PointerValid
  BY DEF Effects, OfCall, PointerValid
<1> QED
  BY EffectsInit, EffectsStep, <1>1, PTL DEF Spec

-----------------------------------------------------------------------------
(* The types of the call, which need that no stream is left to prepare     *)
(* once the child is about to be forked, and that calls have numbers.      *)
CallTyped ==
  /\ stage \in {"idle", "collect", "refused", "prepare", "fork", "loop", "return"}
  /\ last \in {"none", "refused", "threw", "returned"}
  /\ call \in 0 .. MaxCalls
  /\ {timePtr, pid, featurePid} \subseteq 0 .. call
  /\ children \cup broken \subseteq 1 .. call
  /\ DOMAIN streams \subseteq Handles \cup UNION {DOMAIN map : map \in Maps}
  /\ todo \subseteq DOMAIN streams
  /\ features \subseteq Features /\ held \subseteq Files /\ handed \subseteq DOMAIN streams
  /\ stage # "prepare" => todo = {}
  /\ stage \in {"idle", "collect", "refused"} => handed = {}

LEMMA CallTypedStep == Effects /\ CallTyped /\ [Next]_allVars => CallTyped'
<1> SUFFICES ASSUME Effects, CallTyped, [Next]_allVars PROVE CallTyped'
  OBVIOUS
<1> USE DEF effectVars, callVars
<1>1. MaxCalls \in Nat /\ call \in Nat /\ (stage # "idle" => call \in 1 .. call)
  BY BoundsAssumption DEF Effects, CallTyped
<1>2. DOMAIN NoStreams = {}
  BY DEF NoStreams
<1>3. ASSUME call' = call + 1, call < MaxCalls
      PROVE  /\ call' \in 0 .. MaxCalls /\ 0 .. call \subseteq 0 .. call'
             /\ 1 .. call \subseteq 1 .. call'
  BY <1>1, <1>3
<1>4. CASE Begin
  BY <1>2, <1>3, <1>4 DEF Begin, MayCall, CallTyped
<1>5. CASE BeginWithMap
  BY <1>3, <1>5 DEF BeginWithMap, MayCall, CallTyped
<1>6. CASE Throw /\ stage # "idle"
  BY <1>1, <1>2, <1>6 DEF Throw, CallTyped
<1>7. CASE Refused \/ Return
  BY <1>1, <1>2, <1>7 DEF Refused, Return, CallTyped
<1>8. ASSUME NEW p \in Parameters, AddStream(p) PROVE CallTyped'
  <2>1. p.handle \in Handles
    BY <1>8 DEF AddStream, Parameters, Features, Streams, Producers, Consumers
  <2>2. DOMAIN streams' = DOMAIN streams \cup {p.handle}
    BY <1>8 DEF AddStream, With
  <2> QED
    BY <1>8, <2>1, <2>2 DEF AddStream, MayAdd, CallTyped
<1>9. ASSUME NEW p \in Parameters, AddConflicting(p) \/ AddFeature(p) PROVE CallTyped'
  BY <1>2, <1>9 DEF AddConflicting, AddFeature, MayAdd, CallTyped
<1>10. CASE Collected
  BY <1>10 DEF Collected, CallTyped
<1>11. CASE Prepare
  BY <1>11 DEF Prepare, CallTyped
<1>12. CASE MapTimes
  BY <1>1, <1>12 DEF MapTimes, SetTimeDataPtr, CallTyped
<1>13. CASE Fork
  BY <1>1, <1>13 DEF Fork, CallTyped
<1>14. CASE Reap
  BY <1>1, <1>14 DEF Reap, SetTimeDataPtr, CallTyped
<1>15. CASE Between \/ UNCHANGED allVars
  BY <1>15 DEF Between, allVars, CallTyped
<1> QED
  BY <1>4, <1>5, <1>6, <1>7, <1>8, <1>9, <1>10, <1>11, <1>12, <1>13, <1>14, <1>15
  DEF Next, CallStep, Done, OpenFails, MapFails, ForkFails, ServingThrows

(* The types, with the numbers of calls bounded by the current one.        *)
THEOREM TypeCorrect == Spec => []TypeOK
<1>1. CallsInit => CallTyped
  BY BoundsAssumption DEF CallsInit, CallTyped, NoStreams
<1>2. Inv /\ Typed /\ Effects /\ CallTyped => TypeOK
  BY DEF Inv, Shape, Typed, Effects, CallTyped, TypeOK
<1> QED
  BY <1>1, <1>2, ObjectsInit, ObjectsStep, EffectsInit, EffectsStep, CallTypedStep,
     PTL DEF Spec

-----------------------------------------------------------------------------
(* Lists of parameters.                                                    *)

Giving(ps, h, role) == {i \in DOMAIN ps : ps[i].handle = h /\ Role(ps[i]) = role}
RoleIn(ps, h, role) ==
  IF Giving(ps, h, role) = {} THEN None ELSE ps[CHOOSE i \in Giving(ps, h, role) : TRUE].kind
Clashes(ps) == \E i, j \in DOMAIN ps : i < j /\ Excluded(ps[i], ps[j])
Says(ps, h) == [producer |-> RoleIn(ps, h, "producer"), consumer |-> RoleIn(ps, h, "consumer")]

(* What is collected of a list that contradicts itself nowhere.            *)
CollectedOf(ps, fs, ss) ==
  /\ ~Clashes(ps)
  /\ DOMAIN ss = {ps[i].handle : i \in IF fs = {} THEN DOMAIN ps ELSE {}}
  /\ \A h \in DOMAIN ss : ss[h] = Says(ps, h)

LEMMA Kinds ==
  ASSUME NEW p \in Parameters
  PROVE  /\ p.kind # None /\ p.kind \in Streams \cup Features
         /\ p.kind \in Streams =>
              /\ Role(p) \in {"plain", "producer", "consumer"}
              /\ Role(p) = "plain" <=> p.kind = "plain"
              /\ Role(p) = "producer" <=> p.kind \in Producers
              /\ Role(p) = "consumer" <=> p.kind \in Consumers
         /\ p.kind \in Features => Role(p) \notin {"plain", "producer", "consumer"}
  BY BoundsAssumption DEF Parameters, Streams, Producers, Consumers, Features, None, Role

LEMMA RoleGiven ==
  ASSUME NEW ps \in Seq(Parameters), NEW h, NEW role
  PROVE  RoleIn(ps, h, role) = None <=> Giving(ps, h, role) = {}
<1>1. CASE Giving(ps, h, role) = {}
  BY <1>1 DEF RoleIn
<1>2. CASE Giving(ps, h, role) # {}
  <2> DEFINE i == CHOOSE i \in Giving(ps, h, role) : TRUE
  <2>1. i \in Giving(ps, h, role)
    BY <1>2
  <2>2. RoleIn(ps, h, role) = ps[i].kind
    BY <1>2 DEF RoleIn
  <2> HIDE DEF i
  <2>3. ps[i] \in Parameters
    BY <2>1 DEF Giving
  <2> QED
    BY <1>2, <2>2, <2>3, Kinds
<1> QED
  BY <1>1, <1>2

(* One more parameter.                                                     *)
LEMMA OneMore ==
  ASSUME NEW ps \in Seq(Parameters), NEW p \in Parameters
  PROVE  LET q == Append(ps, p)
         IN  /\ q \in Seq(Parameters) /\ q # <<>>
             /\ DOMAIN q = DOMAIN ps \cup {Len(ps) + 1} /\ Len(ps) + 1 \notin DOMAIN ps
             /\ q[Len(ps) + 1] = p /\ \A i \in DOMAIN ps : q[i] = ps[i] /\ i < Len(ps) + 1
             /\ DOMAIN ps \subseteq Nat /\ Len(ps) + 1 \in Nat
  OBVIOUS

LEMMA OneMoreRole ==
  ASSUME NEW ps \in Seq(Parameters), NEW p \in Parameters, NEW h, NEW role,
         p.handle = h /\ Role(p) = role => Giving(ps, h, role) = {}
  PROVE  RoleIn(Append(ps, p), h, role) =
           IF p.handle = h /\ Role(p) = role THEN p.kind ELSE RoleIn(ps, h, role)
<1> DEFINE q == Append(ps, p)
           last1 == Len(ps) + 1
<1>1. /\ DOMAIN q = DOMAIN ps \cup {last1} /\ last1 \notin DOMAIN ps
      /\ q[last1] = p /\ \A i \in DOMAIN ps : q[i] = ps[i]
  BY OneMore
<1> HIDE DEF q, last1
<1>2. CASE p.handle = h /\ Role(p) = role
  <2>1. Giving(q, h, role) = {last1}
    BY <1>1, <1>2 DEF Giving
  <2>2. (CHOOSE i \in {last1} : TRUE) = last1
    OBVIOUS
  <2>3. RoleIn(q, h, role) = p.kind
    BY <1>1, <2>1, <2>2 DEF RoleIn
  <2> QED
    BY <1>2, <2>3 DEF q
<1>3. CASE ~(p.handle = h /\ Role(p) = role)
  <2> DEFINE G == Giving(ps, h, role)
  <2>1. Giving(q, h, role) = G
    BY <1>1, <1>3 DEF Giving
  <2>2. G \subseteq DOMAIN ps
    BY DEF Giving
  <2> HIDE DEF G
  <2>3. CASE G = {}
    BY <2>1, <2>3, <1>3 DEF RoleIn, G, q
  <2>4. CASE G # {}
    <3> DEFINE c == CHOOSE i \in G : TRUE
    <3>1. c \in G
      BY <2>4
    <3>2. RoleIn(q, h, role) = q[c].kind /\ RoleIn(ps, h, role) = ps[c].kind
      BY <2>1, <2>4 DEF RoleIn, G
    <3> HIDE DEF c
    <3>3. q[c] = ps[c]
      BY <1>1, <2>2, <3>1
    <3> QED
      BY <1>3, <3>2, <3>3 DEF q
  <2> QED
    BY <2>3, <2>4
<1> QED
  BY <1>2, <1>3

(* Two parameters exclude each other if the earlier one gives a role.      *)
LEMMA ExcludedMeans ==
  ASSUME NEW p \in Parameters, NEW q \in Parameters, q.kind \in Streams
  PROVE  Excluded(p, q) <=>
           /\ p.handle = q.handle
           /\ \/ Role(p) = "producer" /\ Role(q) \in {"producer", "plain"}
              \/ Role(p) = "consumer" /\ Role(q) \in {"consumer", "plain"}
<1>1. p.kind \in Streams <=> Role(p) \in {"plain", "producer", "consumer"}
  BY Kinds
<1> QED
  BY <1>1, Kinds DEF Excluded

LEMMA StreamAtSays ==
  ASSUME NEW h, parameters \in Seq(Parameters), features = {},
         CollectedOf(parameters, features, streams)
  PROVE  StreamAt(h) = Says(parameters, h)
<1>1. CASE h \in DOMAIN streams
  BY <1>1 DEF CollectedOf, StreamAt
<1>2. CASE h \notin DOMAIN streams
  <2>1. \A i \in DOMAIN parameters : parameters[i].handle # h
    BY <1>2 DEF CollectedOf
  <2>2. Giving(parameters, h, "producer") = {} /\ Giving(parameters, h, "consumer") = {}
    BY <2>1 DEF Giving
  <2> QED
    BY <1>2, <2>2 DEF StreamAt, Says, RoleIn
<1> QED
  BY <1>1, <1>2

(* addParameterStream() throws exactly if the parameter excludes with an   *)
(* earlier one.                                                            *)
LEMMA ConflictMeans ==
  ASSUME NEW p \in Parameters, p.kind \in Streams, parameters \in Seq(Parameters),
         features = {}, CollectedOf(parameters, features, streams)
  PROVE  Conflicts(p) <=> \E i \in DOMAIN parameters : Excluded(parameters[i], p)
<1> DEFINE P == Giving(parameters, p.handle, "producer")
           C == Giving(parameters, p.handle, "consumer")
<1>1. /\ StreamAt(p.handle).producer # None <=> P # {}
      /\ StreamAt(p.handle).consumer # None <=> C # {}
  BY StreamAtSays, RoleGiven DEF Says
<1>2. /\ Role(p) = "plain" => (Conflicts(p) <=> P # {} \/ C # {})
      /\ Role(p) = "producer" => (Conflicts(p) <=> P # {})
      /\ Role(p) = "consumer" => (Conflicts(p) <=> C # {})
      /\ Role(p) \in {"plain", "producer", "consumer"}
  <2> HIDE DEF P, C
  <2>1. p.kind \in {"plain"} \cup Producers \cup Consumers
    BY DEF Streams
  <2>2. /\ p.kind = "plain" => (Conflicts(p) <=> P # {} \/ C # {})
        /\ p.kind \in Producers => (Conflicts(p) <=> P # {})
        /\ p.kind \in Consumers => (Conflicts(p) <=> C # {})
    BY <1>1 DEF Conflicts, Producers, Consumers
  <2> QED
    BY <2>1, <2>2, Kinds
<1>3. \A i \in DOMAIN parameters :
        Excluded(parameters[i], p) <=>
          \/ i \in P /\ Role(p) \in {"producer", "plain"}
          \/ i \in C /\ Role(p) \in {"consumer", "plain"}
  BY ExcludedMeans DEF Giving
<1>4. P \subseteq DOMAIN parameters /\ C \subseteq DOMAIN parameters
  BY DEF Giving
<1> HIDE DEF P, C
<1> QED
  BY <1>2, <1>3, <1>4

(* One more parameter that excludes with none before it: no clash.         *)
LEMMA NoNewClash ==
  ASSUME NEW ps \in Seq(Parameters), NEW p \in Parameters, ~Clashes(ps),
         \A i \in DOMAIN ps : ~Excluded(ps[i], p)
  PROVE  ~Clashes(Append(ps, p))
<1> DEFINE q == Append(ps, p)
           last1 == Len(ps) + 1
<1>1. /\ DOMAIN q = DOMAIN ps \cup {last1} /\ DOMAIN ps \subseteq Nat /\ last1 \in Nat
      /\ q[last1] = p /\ \A i \in DOMAIN ps : q[i] = ps[i] /\ i < last1
  BY OneMore
<1> HIDE DEF q, last1
<1>2. ASSUME NEW i \in DOMAIN q, NEW j \in DOMAIN q, i < j
      PROVE  ~Excluded(q[i], q[j])
  <2>1. i \in DOMAIN ps
    BY <1>1, <1>2
  <2>2. CASE j = last1
    BY <1>1, <2>1, <2>2
  <2>3. CASE j \in DOMAIN ps
    BY <1>1, <1>2, <2>1, <2>3 DEF Clashes
  <2> QED
    BY <1>1, <2>2, <2>3
<1> QED
  BY <1>2 DEF Clashes, q

LEMMA NewClash ==
  ASSUME NEW ps \in Seq(Parameters), NEW p \in Parameters,
         NEW i \in DOMAIN ps, Excluded(ps[i], p)
  PROVE  Clashes(Append(ps, p))
<1> DEFINE q == Append(ps, p)
           last1 == Len(ps) + 1
<1>1. /\ {i, last1} \subseteq DOMAIN q /\ i < last1
      /\ q[i] = ps[i] /\ q[last1] = p
  BY OneMore
<1> HIDE DEF q, last1
<1> QED
  BY <1>1 DEF Clashes, q

(* A parameter that is accepted changes the stream of its handle as it     *)
(* changes what the list says of it, and no other.                         *)
LEMMA AddedSays ==
  ASSUME NEW p \in Parameters, p.kind \in Streams, parameters \in Seq(Parameters),
         features = {}, CollectedOf(parameters, features, streams), ~Conflicts(p), NEW h
  PROVE  Says(Append(parameters, p), h) =
           IF h = p.handle THEN Added(p) ELSE Says(parameters, h)
<1> DEFINE q == Append(parameters, p)
<1>1. /\ Role(p) = "plain" \/ Role(p) = "producer" \/ Role(p) = "consumer"
      /\ Role(p) = "plain" <=> p.kind = "plain"
      /\ Role(p) = "producer" <=> p.kind \in Producers
      /\ Role(p) = "consumer" <=> p.kind \in Consumers
  BY Kinds
<1>2. StreamAt(p.handle) = Says(parameters, p.handle)
  BY StreamAtSays
<1>3. /\ Role(p) = "producer" => Giving(parameters, p.handle, "producer") = {}
      /\ Role(p) = "consumer" => Giving(parameters, p.handle, "consumer") = {}
  <2>1. \A i \in DOMAIN parameters : ~Excluded(parameters[i], p)
    BY ConflictMeans
  <2> QED
    BY <2>1, ExcludedMeans DEF Giving
<1>4. /\ RoleIn(q, h, "producer") =
           IF p.handle = h /\ Role(p) = "producer" THEN p.kind
           ELSE RoleIn(parameters, h, "producer")
      /\ RoleIn(q, h, "consumer") =
           IF p.handle = h /\ Role(p) = "consumer" THEN p.kind
           ELSE RoleIn(parameters, h, "consumer")
  BY <1>3, OneMoreRole
<1> HIDE DEF q
<1>5. CASE h # p.handle
  BY <1>4, <1>5 DEF Says, q
<1>6. CASE h = p.handle /\ p.kind = "plain"
  <2>1. Added(p) = Says(parameters, h)
    BY <1>2, <1>6 DEF Added, Producers, Consumers
  <2> QED
    BY <1>1, <1>4, <1>6, <2>1 DEF Says, q
<1>7. CASE h = p.handle /\ p.kind \in Producers
  <2>1. Added(p) = [Says(parameters, h) EXCEPT !.producer = p.kind]
    BY <1>2, <1>7 DEF Added, Producers, Consumers
  <2> QED
    BY <1>1, <1>4, <1>7, <2>1 DEF Says, q
<1>8. CASE h = p.handle /\ p.kind \in Consumers
  <2>1. Added(p) = [Says(parameters, h) EXCEPT !.consumer = p.kind]
    BY <1>2, <1>8 DEF Added, Producers, Consumers
  <2> QED
    BY <1>1, <1>4, <1>8, <2>1 DEF Says, q
<1> QED
  BY <1>5, <1>6, <1>7, <1>8 DEF Streams

LEMMA AddStreamCollects ==
  ASSUME NEW p \in Parameters, AddStream(p), parameters \in Seq(Parameters),
         CollectedOf(parameters, features, streams)
  PROVE  CollectedOf(parameters', features', streams')
<1>1. /\ features = {} /\ p.kind \in Streams /\ ~Conflicts(p) /\ features' = features
      /\ parameters' = Append(parameters, p)
      /\ streams' = With(streams, p.handle, Added(p))
  BY DEF AddStream, MayAdd, effectVars
<1>2. ~Clashes(parameters')
  BY <1>1, ConflictMeans, NoNewClash DEF CollectedOf
<1>3. DOMAIN streams' = DOMAIN streams \cup {p.handle}
  BY <1>1 DEF With
<1>4. DOMAIN streams' = {parameters'[i].handle : i \in DOMAIN parameters'}
  <2> DEFINE last1 == Len(parameters) + 1
  <2>1. /\ DOMAIN parameters' = DOMAIN parameters \cup {last1}
        /\ parameters'[last1] = p /\ \A i \in DOMAIN parameters : parameters'[i] = parameters[i]
    BY <1>1, OneMore
  <2> HIDE DEF last1
  <2>2. DOMAIN streams = {parameters[i].handle : i \in DOMAIN parameters}
    BY <1>1 DEF CollectedOf
  <2> QED
    BY <1>3, <2>1, <2>2
<1>5. ASSUME NEW h \in DOMAIN streams' PROVE streams'[h] = Says(parameters', h)
  <2>1. Says(parameters', h) = IF h = p.handle THEN Added(p) ELSE Says(parameters, h)
    BY <1>1, AddedSays
  <2>2. streams'[h] = IF h = p.handle THEN Added(p) ELSE streams[h]
    BY <1>1, <1>3 DEF With
  <2>3. h # p.handle => streams[h] = Says(parameters, h)
    BY <1>3 DEF CollectedOf
  <2> QED
    BY <2>1, <2>2, <2>3
<1> QED
  BY <1>1, <1>2, <1>4, <1>5 DEF CollectedOf

LEMMA AddFeatureCollects ==
  ASSUME NEW p \in Parameters, AddFeature(p), parameters \in Seq(Parameters),
         CollectedOf(parameters, features, streams)
  PROVE  CollectedOf(parameters', features', streams')
<1>1. /\ p.kind \in Features /\ features' = {p.kind}
      /\ parameters' = Append(parameters, p) /\ streams' = NoStreams
  BY DEF AddFeature
<1>2. ~Clashes(parameters')
  <2>1. p.kind \notin Streams
    BY <1>1 DEF Features, Streams, Producers, Consumers
  <2>2. \A i \in DOMAIN parameters : ~Excluded(parameters[i], p)
    BY <2>1 DEF Excluded
  <2> QED
    BY <1>1, <2>2, NoNewClash DEF CollectedOf
<1> QED
  BY <1>1, <1>2 DEF CollectedOf, NoStreams

(* The list, and what has been collected of it; a call that was given maps *)
(* has no list.                                                            *)
Gathered ==
  /\ parameters \in Seq(Parameters)
  /\ stage = "refused" => Clashes(parameters)
  /\ stage = "idle" => parameters = <<>>
  /\ stage = "collect" \/ (parameters # <<>> /\ stage # "refused") =>
       CollectedOf(parameters, features, streams)

LEMMA GatheredStep == Gathered /\ [Next]_allVars => Gathered'
<1> SUFFICES ASSUME Gathered, [Next]_allVars PROVE Gathered'
  OBVIOUS
<1> USE DEF effectVars, callVars
<1>1. CASE Begin
  <2>1. /\ stage' = "collect" /\ parameters' = <<>> /\ streams' = NoStreams
        /\ features' = {}
    BY <1>1 DEF Begin
  <2>2. CollectedOf(parameters', features', streams')
    BY <2>1 DEF CollectedOf, Clashes, NoStreams
  <2> QED
    BY <2>1, <2>2 DEF Gathered
<1>2. CASE BeginWithMap
  BY <1>2 DEF BeginWithMap, Gathered
<1>3. CASE Refused \/ Throw \/ Return
  <2>1. stage' = "idle" /\ parameters' = <<>>
    BY <1>3 DEF Refused, Throw, Return
  <2> QED
    BY <2>1 DEF Gathered
<1>4. ASSUME NEW p \in Parameters, AddStream(p) PROVE Gathered'
  <2>1. stage = "collect" /\ stage' = "collect" /\ parameters' \in Seq(Parameters)
    BY <1>4, OneMore DEF AddStream, MayAdd, Gathered
  <2> QED
    BY <1>4, <2>1, AddStreamCollects DEF Gathered
<1>5. ASSUME NEW p \in Parameters, AddConflicting(p) PROVE Gathered'
  <2>1. /\ stage = "collect" /\ stage' = "refused" /\ features = {} /\ p.kind \in Streams
        /\ Conflicts(p) /\ parameters' = Append(parameters, p)
    BY <1>5 DEF AddConflicting, MayAdd
  <2>2. parameters' \in Seq(Parameters)
    BY <2>1, OneMore DEF Gathered
  <2>3. Clashes(parameters')
    BY <2>1, ConflictMeans, NewClash DEF Gathered
  <2> QED
    BY <2>1, <2>2, <2>3 DEF Gathered
<1>6. ASSUME NEW p \in Parameters, AddFeature(p) PROVE Gathered'
  <2>1. stage = "collect" /\ stage' = "collect" /\ parameters' \in Seq(Parameters)
    BY <1>6, OneMore DEF AddFeature, MayAdd, Gathered
  <2> QED
    BY <1>6, <2>1, AddFeatureCollects DEF Gathered
<1>7. CASE Collected \/ Prepare \/ MapTimes \/ Fork \/ Reap
  <2>1. /\ UNCHANGED <<parameters, streams, features>>
        /\ stage \notin {"idle", "refused"} /\ stage' \notin {"idle", "collect", "refused"}
    BY <1>7 DEF Collected, Prepare, MapTimes, Fork, Reap
  <2> QED
    BY <2>1 DEF Gathered
<1>8. CASE Between \/ UNCHANGED allVars
  BY <1>8 DEF Between, allVars, Gathered
<1> QED
  BY <1>1, <1>2, <1>3, <1>4, <1>5, <1>6, <1>7, <1>8
  DEF Next, CallStep, Done, OpenFails, MapFails, ForkFails, ServingThrows

(* Parameters are refused exactly if they contradict each other, and else  *)
(* collected as the list says, for lists and handles of any number.        *)
THEOREM Collects == Spec => []CollectedAsGiven
<1>1. CallsInit => Gathered
  BY DEF CallsInit, Gathered
<1>2. Gathered => CollectedAsGiven
  <2> SUFFICES ASSUME Gathered PROVE CollectedAsGiven
    OBVIOUS
  <2>1. Contradictory <=> Clashes(parameters)
    BY DEF Contradictory, Clashes
  <2>2. \A h, role : RoleAt(h, role) = RoleIn(parameters, h, role)
    BY DEF RoleAt, RoleIn, Giving
  <2>3. CASE stage = "refused"
    BY <2>1, <2>3 DEF Gathered, CollectedAsGiven
  <2>4. CASE stage \notin {"idle", "refused"} /\ parameters # <<>>
    <3>1. CollectedOf(parameters, features, streams)
      BY <2>4 DEF Gathered
    <3> QED
      BY <2>1, <2>2, <2>4, <3>1 DEF CollectedAsGiven, CollectedOf, Says
  <2> QED
    BY <2>3, <2>4 DEF CollectedAsGiven
<1> QED
  BY <1>1, <1>2, GatheredStep, PTL DEF Spec
=============================================================================
