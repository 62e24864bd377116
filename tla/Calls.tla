------------------------------- MODULE Calls --------------------------------
(***************************************************************************)
(* The calls of Process::execute() that a program makes with one Process   *)
(* after another: how the parameters of a call become streams and          *)
(* features, what of the caller's objects a call changes (the descriptors  *)
(* of a ProducerFile and a ConsumerFile, the pointer of a FeatureTime, the *)
(* number of a FeatureProcess), and what it leaves behind when it throws.  *)
(*                                                                         *)
(* The descriptors themselves are in ChildSetup, the content of files is   *)
(* in FileTransfer, and the processes are in Supervision.                  *)
(***************************************************************************)
EXTENDS Ownership

CONSTANTS
  Named,         \* bound: kinds of streams that parameters name
  Handles,       \* handles that parameters name
  Maps,          \* maps of streams that are passed as such
  Bystanders,    \* bound: objects that may exist when execute() is called
  Executed,      \* bound: command lines that are executed
  MaxParameters, \* bound: parameters of a call
  MaxCalls       \* bound: calls of execute()

NoHandle == -1
Files == {"file", "sink"}       \* a ProducerFile and a ConsumerFile
Producers == {"producer", "file"}
Consumers == {"consumer", "sink"}
Streams == {"plain"} \cup Producers \cup Consumers
Features == {"time", "process"}
Parameters == [kind : Named, handle : Handles]
                \cup [kind : Features, handle : {NoHandle}]

ASSUME BoundsAssumption ==
  /\ Named \subseteq Streams
  /\ Handles \subseteq {NoHandle} \cup Nat /\ IsFiniteSet(Handles)
  /\ MaxParameters \in Nat /\ MaxCalls \in Nat

None == "none"
NoStreams == [h \in {} |-> [producer |-> None, consumer |-> None]]

VARIABLES
  stage,       \* how far the call is
  call,        \* its number; calls are counted, and their children named so
  parameters,  \* that were given to it one by one
  streams,     \* parameterStreams: a producer and a consumer by handle
  features,    \* parameterFeatures
  todo,        \* streams it has not prepared yet
  last         \* how the last call ended
VARIABLES
  held,        \* Files that have their descriptor still
  handed,      \* handles of the call whose child's end is such a descriptor
  mapped,      \* the call whose shared memory exists, if any
  timePtr,     \* the call whose memory FeatureTime points to, if any
  pid,         \* member of Process: the child of that call
  featurePid,  \* member of FeatureProcess
  children,    \* children that no waitpid() has returned
  broken       \* calls that threw after they had children or memory
callVars == <<stage, call, parameters, streams, features, todo, last>>
effectVars == <<held, handed, mapped, timePtr, pid, featurePid, children, broken>>
allVars == <<vars, callVars, effectVars>>

CallsInit ==
  /\ Init
  /\ stage = "idle" /\ call = 0 /\ parameters = <<>> /\ streams = NoStreams
  /\ features = {} /\ todo = {} /\ last = "none"
  /\ held = Files /\ handed = {} /\ mapped = 0 /\ timePtr = 0
  /\ pid = 0 /\ featurePid = 0 /\ children = {} /\ broken = {}

-----------------------------------------------------------------------------
(* The parameters.                                                         *)

MayCall ==
  /\ stage = "idle" /\ Member \in alive
  /\ alive \subseteq Bystanders \cup {Member, EnvMember}
  /\ given \in {FromLine(line) : line \in Executed} /\ call < MaxCalls

(* execute(...) with parameters one by one, which may be none.             *)
Begin ==
  /\ MayCall
  /\ stage' = "collect" /\ call' = call + 1
  /\ parameters' = <<>> /\ streams' = NoStreams /\ features' = {}
  /\ UNCHANGED <<vars, todo, last, effectVars>>

(* execute(parameterStreams, parameterFeatures).                           *)
BeginWithMap ==
  /\ MayCall
  /\ stage' = "prepare" /\ call' = call + 1
  /\ streams' \in Maps /\ features' \in SUBSET Features
  /\ parameters' = <<>> /\ todo' = DOMAIN streams'
  /\ UNCHANGED <<vars, last, effectVars>>

(* operator[]: a handle that was not named before has neither.             *)
StreamAt(h) ==
  IF h \in DOMAIN streams THEN streams[h] ELSE [producer |-> None, consumer |-> None]

(* Mutation: a second producer for a handle takes the place of the first.  *)
ConflictsPlain(p) ==
  LET stream == StreamAt(p.handle)
  IN  p.kind = "plain" /\ (stream.producer # None \/ stream.consumer # None)

(* addParameterStream() throws.                                            *)
Conflicts(p) ==
  LET stream == StreamAt(p.handle)
  IN  CASE p.kind = "plain" -> stream.producer # None \/ stream.consumer # None
        [] p.kind \in Producers -> stream.producer # None
        [] p.kind \in Consumers -> stream.consumer # None

Added(p) ==
  LET stream == StreamAt(p.handle)
  IN  CASE p.kind = "plain" -> stream
        [] p.kind \in Producers -> [stream EXCEPT !.producer = p.kind]
        [] p.kind \in Consumers -> [stream EXCEPT !.consumer = p.kind]

(* No template takes anything after a feature.                             *)
MayAdd == stage = "collect" /\ features = {} /\ Len(parameters) < MaxParameters

(* addParameterStream(), called by the template for the parameter's kind.  *)
AddStream(p) ==
  /\ MayAdd /\ p.kind \in Streams /\ ~Conflicts(p)
  /\ parameters' = Append(parameters, p)
  /\ streams' = With(streams, p.handle, Added(p))
  /\ UNCHANGED <<vars, stage, call, features, todo, last, effectVars>>

AddConflicting(p) ==
  /\ MayAdd /\ p.kind \in Streams /\ Conflicts(p)
  /\ parameters' = Append(parameters, p)
  /\ stage' = "refused"
  /\ UNCHANGED <<vars, call, streams, features, todo, last, effectVars>>

(* The exception reaches the caller.                                       *)
Refused ==
  /\ stage = "refused" /\ stage' = "idle" /\ last' = "refused"
  /\ parameters' = <<>> /\ streams' = NoStreams
  /\ UNCHANGED <<vars, call, features, todo, effectVars>>

(* The template for a feature goes on with a fresh map of streams.         *)
AddFeature(p) ==
  /\ MayAdd /\ p.kind \in Features
  /\ parameters' = Append(parameters, p)
  /\ features' = {p.kind} /\ streams' = NoStreams
  /\ UNCHANGED <<vars, stage, call, todo, last, effectVars>>

Collected ==
  /\ stage = "collect"
  /\ stage' = "prepare" /\ todo' = DOMAIN streams
  /\ UNCHANGED <<vars, call, parameters, streams, features, last, effectVars>>

-----------------------------------------------------------------------------
(* The call.                                                               *)

(* Mutation: the shared memory is not owned by anything that is destroyed. *)
ThrowMapped ==
  /\ stage' = "idle" /\ last' = "threw"
  /\ parameters' = <<>> /\ streams' = NoStreams /\ todo' = {} /\ handed' = {}
  /\ broken' = IF mapped = call \/ call \in children THEN broken \cup {call} ELSE broken
  /\ UNCHANGED <<vars, call, features,
                 held, mapped, timePtr, pid, featurePid, children>>

(* An exception leaves execute(): the memory is unmapped, and nothing else *)
(* is taken back.                                                          *)
Throw ==
  /\ stage' = "idle" /\ last' = "threw"
  /\ parameters' = <<>> /\ streams' = NoStreams /\ todo' = {} /\ handed' = {}
  /\ mapped' = 0
  /\ broken' = IF mapped = call \/ call \in children THEN broken \cup {call} ELSE broken
  /\ UNCHANGED <<vars, call, features,
                 held, timePtr, pid, featurePid, children>>

(* The child's end is the file itself, which its object has no more: of a  *)
(* ProducerFile without a consumer, or a ConsumerFile without a producer.  *)
Takes(h) ==
  IF h = NoHandle THEN {}
  ELSE {f \in held : {streams[h].producer, streams[h].consumer} = {f, None}}

(* The parent serves the stream, through a pipe or a socket pair: also     *)
(* that of a file beside a producer or consumer, or which has none left.   *)
Served(h) ==
  /\ h # NoHandle /\ h \notin handed
  /\ streams[h].producer # None \/ streams[h].consumer # None

Prepare ==
  \E h \in todo :
    /\ stage = "prepare" /\ \A other \in todo : h <= other
    /\ todo' = todo \ {h}
    /\ held' = held \ Takes(h)
    /\ handed' = IF Takes(h) = {} THEN handed ELSE handed \cup {h}
    /\ UNCHANGED <<vars, stage, call, parameters, streams, features, last,
                   mapped, timePtr, pid, featurePid, children, broken>>

(* No descriptors are left for the next stream.                            *)
OpenFails ==
  /\ stage = "prepare"
  /\ \E h \in todo : (\A other \in todo : h <= other) /\ Served(h) /\ Takes(h) = {}
  /\ Throw

(* setTimeDataPtr(), of a FeatureTime that is among the features.          *)
SetTimeDataPtr(ptr) == timePtr' = IF "time" \in features THEN ptr ELSE timePtr

MapTimes ==
  /\ stage = "prepare" /\ todo = {}
  /\ stage' = "fork"
  /\ mapped' = IF "time" \in features THEN call ELSE mapped
  /\ SetTimeDataPtr(call)
  /\ UNCHANGED <<vars, call, parameters, streams, features, todo, last,
                 held, handed, pid, featurePid, children, broken>>

MapFails == stage = "prepare" /\ todo = {} /\ "time" \in features /\ Throw

Fork ==
  /\ stage = "fork" /\ stage' = "loop"
  /\ children' = children \cup {call} /\ pid' = call
  /\ featurePid' = IF "process" \in features THEN call ELSE featurePid
  /\ UNCHANGED <<vars, call, parameters, streams, features, todo, last,
                 held, handed, mapped, timePtr, broken>>

ForkFails == stage = "fork" /\ Throw

(* A producer or consumer of the program's own throws, and parentProcess() *)
(* lets it through.                                                        *)
ServingThrows ==
  /\ stage = "loop"
  /\ \E h \in DOMAIN streams :
       Served(h) /\ (streams[h].producer = "producer" \/ streams[h].consumer = "consumer")
  /\ Throw

(* Mutation: the features keep what they were told.                        *)
ReapOnly ==
  /\ stage = "loop" /\ stage' = "return"
  /\ children' = children \ {call}
  /\ UNCHANGED <<vars, call, parameters, streams, features, todo, last,
                 held, handed, mapped, timePtr, pid, featurePid, broken>>

(* waitpid() returns the child, and the features are told of the end.      *)
Reap ==
  /\ stage = "loop" /\ stage' = "return"
  /\ children' = children \ {call}
  /\ featurePid' = IF "process" \in features THEN 0 ELSE featurePid
  /\ SetTimeDataPtr(0)
  /\ UNCHANGED <<vars, call, parameters, streams, features, todo, last,
                 held, handed, mapped, pid, broken>>

(* Mutation: the Process keeps the number of the child that is gone.       *)
ReturnStale ==
  /\ stage = "return" /\ stage' = "idle" /\ last' = "returned"
  /\ mapped' = 0
  /\ parameters' = <<>> /\ streams' = NoStreams /\ handed' = {}
  /\ UNCHANGED <<vars, call, features, todo,
                 held, timePtr, pid, featurePid, children, broken>>

Return ==
  /\ stage = "return" /\ stage' = "idle" /\ last' = "returned"
  /\ pid' = 0 /\ mapped' = 0
  /\ parameters' = <<>> /\ streams' = NoStreams /\ handed' = {}
  /\ UNCHANGED <<vars, call, features, todo,
                 held, timePtr, featurePid, children, broken>>

(* The program's other steps; the call of execute() is one for it.         *)
Between ==
  /\ stage = "idle" /\ call < MaxCalls
  /\ ObjectStep /\ UNCHANGED <<callVars, effectVars>>

(* The bound is reached.                                                   *)
Done == stage = "idle" /\ call = MaxCalls /\ UNCHANGED allVars

CallStep ==
  \/ Begin \/ BeginWithMap \/ Collected \/ Refused
  \/ \E p \in Parameters : AddStream(p) \/ AddConflicting(p) \/ AddFeature(p)
  \/ Prepare \/ OpenFails \/ MapTimes \/ MapFails \/ Fork \/ ForkFails
  \/ ServingThrows \/ Reap \/ Return

Next == CallStep \/ Between \/ Done
Spec == CallsInit /\ [][Next]_allVars

-----------------------------------------------------------------------------
(* Properties.                                                             *)

(* The types; the shared memory is that of the call, and only while it     *)
(* runs.                                                                   *)
TypeOK ==
  /\ alive \subseteq Owners /\ object \in [Owners -> Objects] /\ DOMAIN heap \subseteq Blocks
  /\ stage \in {"idle", "collect", "refused", "prepare", "fork", "loop", "return"}
  /\ last \in {"none", "refused", "threw", "returned"}
  /\ call \in 0 .. MaxCalls /\ mapped \in {0, call}
  /\ {timePtr, pid, featurePid} \subseteq 0 .. call
  /\ children \cup broken \subseteq 1 .. call
  /\ DOMAIN streams \subseteq Handles \cup UNION {DOMAIN map : map \in Maps}
  /\ todo \subseteq DOMAIN streams
  /\ features \subseteq Features /\ held \subseteq Files /\ handed \subseteq DOMAIN streams
  /\ stage \in {"idle", "collect"} => mapped = 0 /\ todo = {}

(* The parameters, in terms of the whole list: two of them exclude each    *)
(* other if they name the same handle and the same role, or the later one  *)
(* names no role at all.                                                   *)
Role(p) == CASE p.kind \in Producers -> "producer" [] p.kind \in Consumers -> "consumer"
             [] OTHER -> p.kind
Excluded(p, q) ==
  /\ {p.kind, q.kind} \subseteq Streams /\ p.handle = q.handle
  /\ Role(p) # "plain" /\ Role(q) \in {Role(p), "plain"}
Contradictory ==
  \E i, j \in DOMAIN parameters : i < j /\ Excluded(parameters[i], parameters[j])

(* Which producer or consumer of the list a handle gets.                   *)
RoleAt(h, role) ==
  LET of == {i \in DOMAIN parameters : parameters[i].handle = h /\ Role(parameters[i]) = role}
  IN  IF of = {} THEN None ELSE parameters[CHOOSE i \in of : TRUE].kind

(* A list is refused exactly if two of its parameters exclude each other,  *)
(* and what is collected of any other is what it says of each handle, in   *)
(* whatever order it says so; of a list that ends in a feature, nothing is *)
(* left but the feature (Process.h:94-132, Process.cpp:573-602).           *)
CollectedAsGiven ==
  /\ stage = "refused" => Contradictory
  /\ stage \notin {"idle", "refused"} /\ parameters # <<>> =>
       /\ ~Contradictory
       /\ DOMAIN streams = {parameters[i].handle : i \in
                              IF features = {} THEN DOMAIN parameters ELSE {}}
       /\ \A h \in DOMAIN streams :
            streams[h] = [producer |-> RoleAt(h, "producer"), consumer |-> RoleAt(h, "consumer")]

(* A FeatureTime points to memory that is mapped, or into that of a call   *)
(* that threw, which no call that is given the FeatureTime and returns     *)
(* leaves behind (Process.cpp:177-187, 415-427, FeatureTime.cpp:28-45).    *)
PointerValid ==
  /\ timePtr \in {0, mapped} \cup broken
  /\ "time" \in features /\ (stage = "return" \/ (stage = "idle" /\ last = "returned")) =>
       timePtr = 0
  /\ "time" \in features /\ stage = "loop" => timePtr = mapped

(* A call that returns leaves nothing behind: neither its child nor any    *)
(* number that Process or FeatureProcess had, of this call or, if it threw *)
(* before, of an earlier one that was given the same objects.  Children    *)
(* that nobody waits for, and their numbers, are left by calls that threw  *)
(* and by no others (Process.cpp:189-197, 374-380, 415-427).               *)
LeavesNothing ==
  stage = "idle" =>
    /\ last = "returned" =>
         pid = 0 /\ call \notin children /\ ("process" \in features => featurePid = 0)
    /\ children \cup ({pid, featurePid} \ {0}) \subseteq broken
=============================================================================
