----------------------------- MODULE ParentLoop -----------------------------
(***************************************************************************)
(* The parent's side of zsystem::Process::execute(): once the child has    *)
(* been forked, parentRun() alternates between parentPoll() and            *)
(* parentProcess(), which moves bytes between the producers, the           *)
(* consumers and the child, and falls into waitpid() when a pass over the  *)
(* poll results has "processed" nothing.                                   *)
(*                                                                         *)
(* The kernel's pipes and sockets and the child, a single-threaded program *)
(* that reads, writes, closes and exits as it likes, run interleaved with  *)
(* it.  Bytes are counted in units of one producer or consumer buffer      *)
(* (char buffer[4096]); since a pipe is first-in first-out, a count says   *)
(* which bytes were moved.                                                 *)
(***************************************************************************)
EXTENDS WaitStatus, FiniteSets

CONSTANTS
  Streams,        \* positions in parentFileDescriptors, in ascending order
  Producers,      \* streams with a producer
  Consumers,      \* streams with a consumer; with both: a socket pair
  Static,         \* streams fed by a ProducerStatic: one write() for everything
  Strings,        \* streams fed by a ProducerDynamic of a string: the same
  Idlers,         \* producers that may report 0 bytes produced
  Refusers,       \* consumers that may report that they want no more data
  Closers,        \* streams whose end the child may close before it exits
  Size,           \* units each producer has to offer
  MaxOut,         \* bound: units the child writes to each stream
  Capacity,       \* units a pipe buffers before a writer blocks
  ExitCodes,      \* exit codes the child may choose
  SigPipeIgnored, \* the caller ignores SIGPIPE, as its children then do
  AutoReap,       \* the caller ignores SIGCHLD: waitpid() fails with ECHILD
  Killable,       \* another process may terminate the child
  MaxSignals      \* bound: signals that interrupt the caller

ASSUME StreamsAssumption ==
  /\ Streams \subseteq Nat
  /\ IsFiniteSet(Streams)
  /\ Streams = Producers \cup Consumers

ASSUME KindsAssumption ==
  /\ Static \subseteq Producers
  /\ Strings \subseteq Producers \ Static
  /\ Idlers \subseteq Producers \ (Static \cup Strings)
  /\ Refusers \subseteq Consumers
  /\ Closers \subseteq Streams

ASSUME BoundsAssumption ==
  /\ Size \in [Producers -> Nat]
  /\ MaxOut \in Nat
  /\ Capacity \in Nat \ {0}
  /\ MaxSignals \in Nat
  /\ ExitCodes \subseteq 0 .. 255
  /\ SigPipeIgnored \in BOOLEAN /\ AutoReap \in BOOLEAN /\ Killable \in BOOLEAN

VARIABLES
  pc,         \* where parentRun() is
  open,       \* streams whose FileDescriptor in the parent holds a handle
  toProduce,  \* poll results with a producer that parentProcess() has not served
  toConsume,  \* the same for consumers
  allNpos,    \* local of parentProcess(), for the stream being served
  processed,  \* local of parentProcess()
  pos,        \* currentPos of each producer
  moved,      \* units moved so far by the write() call in progress
  dropped,    \* consumers nulled in the poll results: "no more data desired"
  rc,         \* what parentRun() returns
  signals     \* signals that interrupted the caller so far

VARIABLES
  sent, got,    \* units written by the parent, and read by the child
  made, taken,  \* units written by the child, and read by the parent
  childEnds,    \* streams whose far end is still open in the child
  childOp,      \* the system call the child is in
  eof,          \* streams on which the child has read end of file
  status        \* the child's wait status

parentVars == <<pc, open, toProduce, toConsume, allNpos, processed, pos, moved,
                dropped, rc, signals>>
childVars == <<childEnds, childOp, eof, status>>
vars == <<parentVars, sent, got, made, taken, childVars>>

-----------------------------------------------------------------------------
(* Wait statuses and system calls of the child.                            *)

Statuses == {Running} \cup {Exited(c) : c \in ExitCodes \cup {1}}
                      \cup {Signaled(SIGPIPE), Signaled(SIGTERM)}

Idle == <<"idle", 0>>
ChildOps == {Idle} \cup ({"read"} \X Producers) \cup ({"write"} \X Consumers)

(* What the kernel reports of a stream.  A pipe with a closed far end and  *)
(* nothing to read raises POLLHUP or POLLERR only; a socket whose peer has *)
(* gone is readable (end of file) and writable (an error).                 *)

Socket(s) == s \in Producers \cap Consumers
HasRoom(s) == sent[s] - got[s] < Capacity
HasData(s) == taken[s] < made[s]
PollOut(s) == HasRoom(s) \/ (Socket(s) /\ s \notin childEnds)
PollIn(s) == HasData(s) \/ (Socket(s) /\ s \notin childEnds)
PollHup(s) == s \notin childEnds

(* The stream parentProcess() serves next: results keep the ascending      *)
(* order of parentFileDescriptors, a producer goes before a consumer.      *)
IsHead(s) == /\ s \in toProduce \cup toConsume
             /\ \A t \in toProduce \cup toConsume : s <= t

-----------------------------------------------------------------------------
Init ==
  /\ pc = "poll" /\ open = Streams
  /\ toProduce = {} /\ toConsume = {}
  /\ allNpos = TRUE /\ processed = FALSE
  /\ pos = [s \in Producers |-> 0] /\ moved = 0
  /\ dropped = {} /\ rc = ExitFailure /\ signals = 0
  /\ sent = [s \in Producers |-> 0] /\ got = [s \in Producers |-> 0]
  /\ made = [s \in Consumers |-> 0] /\ taken = [s \in Consumers |-> 0]
  /\ childEnds = Streams /\ childOp = Idle /\ eof = {} /\ status = Running

-----------------------------------------------------------------------------
(* The parent.                                                             *)

(* poll() sleeps until some open stream has an event, so a stream that has *)
(* hung up ends the call although it yields no poll result.                *)
PollWakes == \/ open = {}
             \/ \E s \in open : \/ PollHup(s)
                                \/ s \in Producers /\ PollOut(s)
                                \/ s \in Consumers /\ PollIn(s)

(* Mutation: trust poll() to mean that every open stream is ready.       *)
PollAllReady ==
  /\ pc = "poll" /\ PollWakes
  /\ toProduce' = open \cap Producers /\ toConsume' = open \cap Consumers
  /\ pc' = IF toProduce' \cup toConsume' = {} THEN "waitpid" ELSE "process"
  /\ allNpos' = TRUE /\ processed' = FALSE
  /\ UNCHANGED <<open, pos, moved, dropped, rc, signals, sent, got, made, taken,
                 childVars>>

(* parentPoll(), and the start of parentProcess() on its results.          *)
Poll ==
  /\ pc = "poll" /\ PollWakes
  /\ toProduce' = {s \in open \cap Producers : PollOut(s)}
  /\ toConsume' = {s \in open \cap Consumers : PollIn(s)}
  /\ pc' = IF toProduce' \cup toConsume' = {} THEN "waitpid" ELSE "process"
  /\ allNpos' = TRUE /\ processed' = FALSE
  /\ UNCHANGED <<open, pos, moved, dropped, rc, signals, sent, got, made, taken,
                 childVars>>

(* Mutation: one pass of parentProcess() is thought to be enough.          *)
AfterResultOnce(rest, done) == pc' = IF rest # {} THEN "process" ELSE "waitpid"

(* parentRun() after parentProcess(): poll again, or wait for the child.   *)
AfterResult(rest, done) ==
  pc' = IF rest # {} THEN "process" ELSE IF done THEN "poll" ELSE "waitpid"

(* Mutation: the descriptor is never closed.                               *)
CloseNever(s, none) == UNCHANGED open

(* The end of an iteration of parentProcess() that has not reset allNpos   *)
(* closes the descriptor, whichever of its two sides said npos.            *)
CloseIf(s, none) == open' = IF none THEN open \ {s} ELSE open

(* Mutation: allNpos is not reset when produce() has written something.    *)
ProducedCloses(s, npos, count) ==
  /\ toProduce' = toProduce \ {s}
  /\ processed' = (npos \/ count > 0)
  /\ allNpos' = TRUE
  /\ CloseIf(s, s \notin toConsume)
  /\ moved' = 0
  /\ AfterResult((toProduce \ {s}) \cup toConsume, npos \/ count > 0)
  /\ UNCHANGED <<toConsume, dropped, rc, got, made, taken, childVars>>

(* What parentProcess() does with the result of produce().                 *)
Produced(s, npos, count) ==
  /\ toProduce' = toProduce \ {s}
  /\ processed' = (npos \/ count > 0)
  /\ allNpos' = (s \in toConsume => npos)
  /\ CloseIf(s, npos /\ s \notin toConsume)
  /\ moved' = 0
  /\ AfterResult((toProduce \ {s}) \cup toConsume, npos \/ count > 0)
  /\ UNCHANGED <<toConsume, dropped, rc, got, made, taken, childVars>>

(* write() on a broken pipe raises SIGPIPE, and fails if the caller has    *)
(* survived that.                                                          *)
DieOfSigPipe ==
  /\ ~SigPipeIgnored
  /\ pc' = "killed" /\ open' = {}
  /\ UNCHANGED <<toProduce, toConsume, allNpos, processed, pos, moved,
                 dropped, rc, signals, sent, got, made, taken, childVars>>

(* produce() of a ProducerFile, and of a ProducerDynamic of a function: at *)
(* most one buffer per call, npos when the data is exhausted or write()    *)
(* has failed.                                                             *)
ProduceChunk(s) ==
  /\ pc = "process" /\ IsHead(s) /\ s \in toProduce \ (Static \cup Strings)
  /\ \/ /\ pos[s] = Size[s]
        /\ Produced(s, TRUE, 0)
        /\ UNCHANGED <<pos, sent, signals>>
     \/ /\ pos[s] < Size[s] /\ s \in childEnds /\ HasRoom(s)
        /\ pos' = [pos EXCEPT ![s] = @ + 1]
        /\ sent' = [sent EXCEPT ![s] = @ + 1]
        /\ Produced(s, FALSE, 1)
        /\ UNCHANGED signals
     \/ /\ pos[s] < Size[s] /\ s \notin childEnds
        /\ SigPipeIgnored
        /\ Produced(s, TRUE, 0)
        /\ UNCHANGED <<pos, sent, signals>>
     \/ pos[s] < Size[s] /\ s \notin childEnds /\ DieOfSigPipe

(* A Producer of the caller's own that has nothing to write right now.     *)
ProduceNothing(s) ==
  /\ pc = "process" /\ IsHead(s) /\ s \in toProduce \cap Idlers
  /\ Produced(s, FALSE, 0)
  /\ UNCHANGED <<pos, sent, signals>>

(* Mutation: currentPos does not advance after a short write().            *)
WriteReturnsStuck(s, count) ==
  /\ pos' = IF pos[s] + count = Size[s] THEN [pos EXCEPT ![s] = Size[s]] ELSE pos
  /\ Produced(s, s \in Static /\ pos'[s] = Size[s], count)

(* produce() after a write() that has moved count units: a ProducerStatic  *)
(* returns npos once currentPos has reached the size.                      *)
WriteReturns(s, count) ==
  /\ pos' = [pos EXCEPT ![s] = @ + count]
  /\ Produced(s, s \in Static /\ pos'[s] = Size[s], count)

(* produce() after a write() that has failed: a ProducerStatic gives up.   *)
WriteFails(s) ==
  /\ pos' = IF s \in Static THEN [pos EXCEPT ![s] = Size[s]] ELSE pos
  /\ Produced(s, TRUE, 0)

(* A write() for everything that is left begins; it may block half way.    *)
WriteBegins ==
  /\ pc' = "write"
  /\ UNCHANGED <<open, toProduce, toConsume, allNpos, processed, pos, moved,
                 dropped, rc, signals, sent, got, made, taken, childVars>>

(* ProducerDynamic::produce() of a string: its "buffer" is the string, so  *)
(* write() is asked for everything that is left.  A write() that fails     *)
(* leaves currentPos alone, and only the call after the last one says npos.*)
ProduceString(s) ==
  /\ pc = "process" /\ IsHead(s) /\ s \in toProduce \cap Strings
  /\ \/ /\ pos[s] = Size[s] \/ (s \notin childEnds /\ SigPipeIgnored)
        /\ Produced(s, TRUE, 0)
        /\ UNCHANGED <<pos, sent, signals>>
     \/ pos[s] < Size[s] /\ s \in childEnds /\ WriteBegins
     \/ pos[s] < Size[s] /\ s \notin childEnds /\ DieOfSigPipe

(* ProducerStatic::produce() asks for everything that is left as well.     *)
ProduceStatic(s) ==
  /\ pc = "process" /\ IsHead(s) /\ s \in toProduce \cap Static
  /\ \/ /\ pos[s] = Size[s] /\ (Socket(s) => s \in childEnds)
        /\ Produced(s, TRUE, 0)
        /\ UNCHANGED <<pos, sent, signals>>
     \/ pos[s] < Size[s] /\ s \in childEnds /\ WriteBegins
     \/ /\ s \notin childEnds /\ (pos[s] < Size[s] \/ Socket(s))
        /\ SigPipeIgnored
        /\ WriteFails(s)
        /\ UNCHANGED <<sent, signals>>
     \/ s \notin childEnds /\ (pos[s] < Size[s] \/ Socket(s)) /\ DieOfSigPipe

(* One more unit of a blocking write() finds room.                         *)
WriteUnit(s) ==
  /\ pc = "write" /\ IsHead(s) /\ s \in childEnds /\ HasRoom(s)
  /\ sent' = [sent EXCEPT ![s] = @ + 1]
  /\ IF pos[s] + moved + 1 = Size[s]
       THEN WriteReturns(s, moved + 1) /\ UNCHANGED signals
       ELSE /\ moved' = moved + 1
            /\ UNCHANGED <<pc, open, toProduce, toConsume, allNpos, processed, pos,
                           dropped, rc, signals, got, made, taken, childVars>>

(* A blocking write() ends early because the child's end closes.           *)
WriteBreaks(s) ==
  /\ pc = "write" /\ IsHead(s)
  /\ \/ /\ s \notin childEnds
        /\ SigPipeIgnored \/ (Socket(s) /\ moved > 0)
        /\ IF moved > 0 THEN WriteReturns(s, moved) ELSE WriteFails(s)
        /\ UNCHANGED <<sent, signals>>
     \/ s \notin childEnds /\ ~(Socket(s) /\ moved > 0) /\ DieOfSigPipe

(* It ends early because a signal handler ran after some units were moved; *)
(* before that, FileDescriptor::write() hides the interruption.            *)
WriteInterrupted(s) ==
  /\ pc = "write" /\ IsHead(s) /\ s \in childEnds
  /\ moved > 0 /\ signals < MaxSignals
  /\ signals' = signals + 1
  /\ WriteReturns(s, moved)
  /\ UNCHANGED sent

(* Mutation: consume() does not count as processing.                       *)
ConsumedSilently(s, success) ==
  /\ toConsume' = toConsume \ {s}
  /\ dropped' = IF success THEN dropped ELSE dropped \cup {s}
  /\ allNpos' = TRUE
  /\ CloseIf(s, allNpos /\ ~success)
  /\ AfterResult(toProduce \cup (toConsume \ {s}), processed)
  /\ UNCHANGED <<processed, toProduce, pos, moved, rc, signals, sent, got, made,
                 childVars>>

(* What parentProcess() does with the result of consume(): a consumer that *)
(* wants no more data is nulled in the copy of the poll results only.      *)
Consumed(s, success) ==
  /\ toConsume' = toConsume \ {s}
  /\ processed' = (processed \/ success)
  /\ dropped' = IF success THEN dropped ELSE dropped \cup {s}
  /\ allNpos' = TRUE
  /\ CloseIf(s, allNpos /\ ~success)
  /\ AfterResult(toProduce \cup (toConsume \ {s}), processed \/ success)
  /\ UNCHANGED <<toProduce, pos, moved, rc, signals, sent, got, made, childVars>>

(* consume() reads at most one buffer.  On a socket whose peer has gone,   *)
(* it reads end of file, which is a success of 0 bytes, or fails when the  *)
(* peer left bytes unread.  A ConsumerFile that has failed reads no more.  *)
Consume(s) ==
  /\ pc = "process" /\ IsHead(s) /\ s \in toConsume \ toProduce
  /\ \/ /\ HasData(s)
        /\ taken' = [taken EXCEPT ![s] = @ + 1]
        /\ \/ Consumed(s, TRUE)
           \/ s \in Refusers /\ Consumed(s, FALSE)
     \/ /\ ~HasData(s) /\ s \notin childEnds /\ Socket(s)
        /\ \/ Consumed(s, TRUE)
           \/ (s \in Refusers \/ got[s] < sent[s]) /\ Consumed(s, FALSE)
        /\ UNCHANGED taken
     \/ /\ s \in Refusers \cap dropped
        /\ Consumed(s, FALSE)
        /\ UNCHANGED taken

(* Mutation: the bare exit code or signal number is returned.              *)
WaitUndecoded ==
  /\ pc = "waitpid" /\ status # Running
  /\ rc' = status.num
  /\ pc' = "returned" /\ open' = {}
  /\ UNCHANGED <<toProduce, toConsume, allNpos, processed, pos, moved, dropped,
                 signals, sent, got, made, taken, childVars>>

(* waitpid() in parentRun(): it returns the status of a child that is      *)
(* gone, or fails.                                                         *)
Wait ==
  /\ pc = "waitpid" /\ status # Running
  /\ rc' = IF AutoReap THEN ExitFailure ELSE ReturnCode(status)
  /\ pc' = "returned" /\ open' = {}
  /\ UNCHANGED <<toProduce, toConsume, allNpos, processed, pos, moved, dropped,
                 signals, sent, got, made, taken, childVars>>

(* waitpid() fails with EINTR: parentRun() goes back to polling.           *)
WaitInterrupted ==
  /\ pc = "waitpid" /\ status = Running /\ signals < MaxSignals
  /\ signals' = signals + 1
  /\ pc' = "poll"
  /\ UNCHANGED <<open, toProduce, toConsume, allNpos, processed, pos, moved,
                 dropped, rc, sent, got, made, taken, childVars>>

ParentStep ==
  \/ Poll \/ Wait
  \/ \E s \in Producers : \/ ProduceChunk(s) \/ ProduceNothing(s)
                          \/ ProduceString(s) \/ ProduceStatic(s)
                          \/ WriteUnit(s) \/ WriteBreaks(s)
  \/ \E s \in Consumers : Consume(s)

(* Signals that interrupt the caller; nothing obliges them to arrive.      *)
ParentInterrupted ==
  \/ WaitInterrupted
  \/ \E s \in Producers : WriteInterrupted(s)

-----------------------------------------------------------------------------
(* The child.                                                              *)

ChildVanishes(st) ==
  /\ status' = st /\ childEnds' = {} /\ childOp' = Idle
  /\ UNCHANGED <<parentVars, sent, got, made, taken, eof>>

(* The child enters a read() or a write().                                 *)
ChildCalls ==
  /\ status = Running /\ childOp = Idle
  /\ \E s \in childEnds :
       \/ s \in Producers \ eof /\ childOp' = <<"read", s>>
       \/ s \in Consumers /\ made[s] < MaxOut /\ childOp' = <<"write", s>>
  /\ UNCHANGED <<parentVars, sent, got, made, taken, childEnds, eof, status>>

(* read() returns a unit, or end of file when the parent has closed its    *)
(* end and the pipe is empty.                                              *)
ChildReads(s) ==
  /\ childOp = <<"read", s>>
  /\ childOp' = Idle
  /\ \/ /\ got[s] < sent[s]
        /\ got' = [got EXCEPT ![s] = @ + 1]
        /\ UNCHANGED eof
     \/ /\ got[s] = sent[s] /\ s \notin open
        /\ eof' = eof \cup {s}
        /\ UNCHANGED got
  /\ UNCHANGED <<parentVars, sent, made, taken, childEnds, status>>

(* write() finds room, or breaks: SIGPIPE, or an error the child exits on. *)
ChildWrites(s) ==
  /\ childOp = <<"write", s>>
  /\ \/ /\ s \in open /\ made[s] - taken[s] < Capacity
        /\ made' = [made EXCEPT ![s] = @ + 1]
        /\ childOp' = Idle
        /\ UNCHANGED <<parentVars, sent, got, taken, childEnds, eof, status>>
     \/ /\ s \notin open
        /\ ChildVanishes(IF SigPipeIgnored THEN Exited(1) ELSE Signaled(SIGPIPE))

ChildCloses(s) ==
  /\ status = Running /\ childOp = Idle
  /\ s \in childEnds \cap Closers
  /\ childEnds' = childEnds \ {s}
  /\ UNCHANGED <<parentVars, sent, got, made, taken, childOp, eof, status>>

ChildExits ==
  /\ status = Running /\ childOp = Idle
  /\ \E c \in ExitCodes : ChildVanishes(Exited(c))

(* SIGTERM from FeatureProcess::stop(), Signal::sendSignal() or elsewhere, *)
(* in the middle of whatever the child does.                               *)
ChildKilled ==
  /\ Killable /\ status = Running
  /\ ChildVanishes(Signaled(SIGTERM))

ChildStep ==
  \/ ChildCalls \/ ChildExits
  \/ \E s \in Streams : ChildReads(s) \/ ChildWrites(s) \/ ChildCloses(s)

(* execute() has returned, or took its caller down with it.                *)
Over ==
  /\ pc \in {"returned", "killed"}
  /\ UNCHANGED vars

Next == ParentStep \/ ParentInterrupted \/ ChildStep \/ ChildKilled \/ Over

Spec == Init /\ [][Next]_vars

(* The caller's thread is scheduled, and the child is a program that does  *)
(* not run for ever: it goes on with its next call until it exits.         *)
FairSpec == Spec /\ WF_vars(ParentStep) /\ WF_vars(ChildStep)

-----------------------------------------------------------------------------
(* Properties.                                                             *)

(* The types of the variables, with the accounting of every stream: the    *)
(* child has read no more than was written, and neither more than fits.    *)
TypeOK ==
  /\ pc \in {"poll", "process", "write", "waitpid", "returned", "killed"}
  /\ open \subseteq Streams
  /\ toProduce \subseteq Producers /\ toConsume \subseteq Consumers
  /\ allNpos \in BOOLEAN /\ processed \in BOOLEAN
  /\ pos \in [Producers -> Nat] /\ moved \in Nat
  /\ dropped \subseteq Consumers
  /\ rc \in Nat /\ signals \in Nat
  /\ sent \in [Producers -> Nat] /\ got \in [Producers -> Nat]
  /\ made \in [Consumers -> Nat] /\ taken \in [Consumers -> Nat]
  /\ childEnds \subseteq Streams /\ childOp \in ChildOps
  /\ eof \subseteq Producers /\ status \in Statuses
  /\ \A s \in Producers : got[s] <= sent[s] /\ sent[s] <= got[s] + Capacity
  /\ \A s \in Consumers : taken[s] <= made[s] /\ made[s] <= taken[s] + Capacity

(* What poll() reported still holds when parentProcess() gets to it, after *)
(* it has served other streams and whatever the child did meanwhile: a     *)
(* consumer's read() never blocks, nor does a producer's first write().    *)
SnapshotHolds ==
  pc \in {"process", "write"} =>
    /\ toProduce \cup toConsume \subseteq open
    /\ \A s \in toConsume : PollIn(s)
    /\ \A s \in toProduce : PollOut(s) \/ (pc = "write" /\ IsHead(s))

(* A child that reads end of file has been given all that the producer had *)
(* to offer: parentProcess() closes a descriptor only for a reason.        *)
NoTruncatedInput ==
  pc # "killed" => \A s \in eof \ Refusers : got[s] = Size[s]

(* A consumer that wanted no more data is never handed data again          *)
(* (Process.cpp:549, "drop responseHandler"), over pipes: its null is set  *)
(* in a copy, so it rests on the descriptor being closed in the same pass. *)
DroppedStaysDropped == dropped \cap toConsume \subseteq Producers

(* A descriptor stays open while its consumer still wants data and the     *)
(* child can still write some: when only the producer is done, only the    *)
(* write side may go (Process.cpp:532, "close write file descriptor").     *)
ConsumerKeepsDescriptor ==
  pc \notin {"returned", "killed"} => (Consumers \ dropped) \cap childEnds \subseteq open

(* A blocking write() of a ProducerStatic, or of a ProducerDynamic of a    *)
(* string, whose content fits the pipe never blocks, although it is issued *)
(* on a POLLOUT that promises one buffer only.                             *)
FittingWriteNeverBlocks ==
  pc = "write" => \A s \in toProduce :
    IsHead(s) /\ Size[s] <= Capacity => HasRoom(s) \/ s \notin childEnds

(* parentRun() blocks in waitpid() only when every descriptor it still     *)
(* holds is useless: the child has let go of it, and nothing is unread.    *)
WaitOnlyWhenQuiet ==
  pc = "waitpid" =>
    \A s \in open : s \notin childEnds /\ (s \in Consumers => ~HasData(s))

(* The deadlock the comment at Process.cpp:389-391 is about: the parent is *)
(* in waitpid() and the child cannot terminate because its output is not   *)
(* being consumed.                                                         *)
NoWaitpidDeadlock ==
  ~ /\ pc = "waitpid"
    /\ \E s \in open \cap Consumers : /\ childOp = <<"write", s>>
                                     /\ made[s] - taken[s] >= Capacity

(* When execute() returns, each consumer has been given all that the child *)
(* wrote to it, unless it wanted no more.                                  *)
NothingLost ==
  pc = "returned" => \A s \in Consumers \ dropped : taken[s] = made[s]

(* execute() returns, when what a ProducerStatic or a ProducerDynamic of a *)
(* string has to offer fits the pipe.                                      *)
Returns == <>(pc = "returned")

(* No system call of the child stays blocked for ever, under that premise. *)
ChildServed ==
  \A op \in ChildOps \ {Idle} : childOp = op ~> childOp # op

(* Over pipes, with producers and consumers that do not give up, contents  *)
(* of the one-write() producers that fit, and a child that closes nothing  *)
(* early, the loop implements Execution.                                   *)
Exec == INSTANCE Execution WITH
  Ends <- Statuses \ {Running},
  phase <- IF pc = "returned" THEN "returned" ELSE "running",
  fed <- got, ended <- eof

ImplementsExecution == Exec!Spec
=============================================================================
