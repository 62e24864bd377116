----------------------------- MODULE ChildSetup -----------------------------
(***************************************************************************)
(* How zsystem::Process::execute() arranges file descriptors: it opens a   *)
(* pipe or socket pair per stream, forks, and childRun() moves the child's *)
(* ends to the handles that were asked for and closes all the others,      *)
(* reading their numbers from /proc.                                       *)
(*                                                                         *)
(* Several threads of the program may be in execute() at once, each with a *)
(* Process of its own; they share the program's descriptor table, and each *)
(* child starts with a copy of it.                                         *)
(***************************************************************************)
EXTENDS Integers, FiniteSets

CONSTANTS
  Callers,   \* threads that call execute(), once each
  Request,   \* of each caller: what it asks for, by handle of the child
  FileAt,    \* of each caller: descriptors of its ProducerFiles, ConsumerFiles
  Preopen,   \* descriptors that are open before any execute()
  MaxFd      \* RLIMIT_NOFILE

NoHandle == -1
EINTR == 4

Fds == 0 .. MaxFd - 1
Kinds == {"keep", "produce", "consume", "both", "file"}

(* The handles that childFileDescriptors gets an entry for.                *)
Handles(c) == DOMAIN Request[c] \ {NoHandle}
Files(c) == {s \in Handles(c) : Request[c][s] = "file"}
Pairs(c) == {s \in Handles(c) : Request[c][s] \in {"produce", "consume", "both"}}

(* Names of descriptors below 1000 fill one buffer of readdir(), so that   *)
(* the child's listing is from before its first close().                   *)
ASSUME LimitAssumption == MaxFd \in 3 .. 1000 /\ Preopen \subseteq Fds

ASSUME RequestAssumption ==
  \A c \in Callers :
    /\ DOMAIN Request[c] \subseteq {NoHandle} \cup Fds
    /\ \A s \in DOMAIN Request[c] : Request[c][s] \in Kinds
    /\ FileAt[c] \in [Files(c) -> Preopen]

(* A descriptor belongs to one FileDescriptor.                             *)
ASSUME OwnerAssumption ==
  \A c, d \in Callers : \A s \in Files(c), t \in Files(d) :
    FileAt[c][s] = FileAt[d][t] => c = d /\ s = t

VARIABLES
  table,      \* the program's descriptor table
  stage,      \* how far each caller is in execute()
  todo,       \* streams that it has not looked at yet
  childEnd,   \* childFileDescriptors, by handle of the child
  parentEnd,  \* handles of the FileDescriptors in parentFileDescriptors
  child,      \* descriptor table of the child of each caller
  childStage, \* how far that child is in childRun()
  install     \* handles of childFileDescriptors it has not looked at yet
parentVars == <<table, stage, todo, childEnd, parentEnd>>
childVars == <<child, childStage, install>>
vars == <<parentVars, childVars>>

-----------------------------------------------------------------------------
(* What a descriptor may refer to: a file the program had open anyway, or  *)
(* an end of the pipe or socket pair of a stream.                          *)
Free == <<"none", 0, "free">>
Own(fd) == <<"program", fd, "file">>
ChildSide(c, s) == <<c, s, "child">>
ParentSide(c, s) == <<c, s, "parent">>

Things ==
  {Free} \cup {Own(fd) : fd \in Fds}
         \cup {<<c, s, side>> : c \in Callers, s \in Fds, side \in {"child", "parent"}}

FreeFds(t) == {fd \in Fds : t[fd] = Free}
Lowest(S, fd) == fd \in S /\ \A other \in S : fd <= other
Closed(t, S) == [fd \in Fds |-> IF fd \in S THEN Free ELSE t[fd]]

(* A decimal name read with base 32.                                       *)
Reread(fd) == 1024 * (fd \div 100) + 32 * ((fd \div 10) % 10) + (fd % 10)

Init ==
  /\ table = [fd \in Fds |-> IF fd \in Preopen THEN Own(fd) ELSE Free]
  /\ stage = [c \in Callers |-> "prepare"]
  /\ todo = [c \in Callers |-> DOMAIN Request[c]]
  /\ childEnd = [c \in Callers |-> [s \in Handles(c) |-> NoHandle]]
  /\ parentEnd = [c \in Callers |-> {}]
  /\ child = [c \in Callers |-> [fd \in Fds |-> Free]]
  /\ childStage = [c \in Callers |-> "unborn"]
  /\ install = [c \in Callers |-> {}]

-----------------------------------------------------------------------------
(* The callers of execute().                                               *)

Ends(c) == {childEnd[c][s] : s \in Handles(c)} \ {NoHandle}

(* Mutation: the parent's ends stay open when execute() throws.            *)
ThrowLeaks(c) ==
  /\ table' = Closed(table, Ends(c))
  /\ parentEnd' = [parentEnd EXCEPT ![c] = {}]
  /\ stage' = [stage EXCEPT ![c] = "thrown"]
  /\ UNCHANGED <<todo, childEnd, childVars>>

(* An exception leaves execute(): both containers of descriptors are       *)
(* destroyed, the files that were moved into them included.                *)
Throw(c) ==
  /\ table' = Closed(table, Ends(c) \cup parentEnd[c])
  /\ parentEnd' = [parentEnd EXCEPT ![c] = {}]
  /\ stage' = [stage EXCEPT ![c] = "thrown"]
  /\ UNCHANGED <<todo, childEnd, childVars>>

(* Mutation: the child gets the end of the pipe that the parent needs.     *)
OpenSwapped(c, s, first, second) ==
  LET mine == IF Request[c][s] = "produce" THEN first ELSE second
      its == IF mine = first THEN second ELSE first
  IN  /\ table' = [table EXCEPT ![its] = ChildSide(c, s), ![mine] = ParentSide(c, s)]
      /\ childEnd' = [childEnd EXCEPT ![c][s] = mine]
      /\ parentEnd' = [parentEnd EXCEPT ![c] = @ \cup {its}]

(* pipe2() or socketpair() take the two lowest numbers that are free; the  *)
(* child reads a producer's pipe from the first, and has the second of a   *)
(* consumer's pipe or of a socket pair.                                    *)
Open(c, s, first, second) ==
  LET its == IF Request[c][s] = "produce" THEN first ELSE second
      mine == IF its = first THEN second ELSE first
  IN  /\ table' = [table EXCEPT ![its] = ChildSide(c, s), ![mine] = ParentSide(c, s)]
      /\ childEnd' = [childEnd EXCEPT ![c][s] = its]
      /\ parentEnd' = [parentEnd EXCEPT ![c] = @ \cup {mine}]

(* execute() looks at the next stream.                                     *)
Prepare(c) ==
  /\ stage[c] = "prepare"
  /\ \E s \in todo[c] :
       /\ Lowest(todo[c], s)
       /\ \/ /\ s \notin Files(c) \cup Pairs(c)
             /\ UNCHANGED <<table, childEnd, parentEnd>>
          \/ /\ s \in Files(c)
             /\ childEnd' = [childEnd EXCEPT ![c][s] = FileAt[c][s]]
             /\ UNCHANGED <<table, parentEnd>>
          \/ /\ s \in Pairs(c)
             /\ \E first, second \in FreeFds(table) :
                  /\ Lowest(FreeFds(table), first)
                  /\ Lowest(FreeFds(table) \ {first}, second)
                  /\ Open(c, s, first, second)
       /\ todo' = [todo EXCEPT ![c] = @ \ {s}]
  /\ UNCHANGED <<stage, childVars>>

(* EMFILE: less than two descriptors are left.                             *)
OpenFails(c) ==
  /\ stage[c] = "prepare"
  /\ \E s \in todo[c] \cap Pairs(c) : Lowest(todo[c], s)
  /\ Cardinality(FreeFds(table)) < 2
  /\ Throw(c)

Fork(c) ==
  /\ stage[c] = "prepare" /\ todo[c] = {}
  /\ stage' = [stage EXCEPT ![c] = "forked"]
  /\ child' = [child EXCEPT ![c] = table]
  /\ childStage' = [childStage EXCEPT ![c] = "install"]
  /\ install' = [install EXCEPT ![c] = Handles(c)]
  /\ UNCHANGED <<table, todo, childEnd, parentEnd>>

ForkFails(c) ==
  /\ stage[c] = "prepare" /\ todo[c] = {}
  /\ Throw(c)

(* Mutation: childRun() takes its descriptors by reference, and nobody     *)
(* closes the child's ends in the parent.                                  *)
ReleaseNothing(c) ==
  /\ stage[c] = "forked"
  /\ stage' = [stage EXCEPT ![c] = "loop"]
  /\ UNCHANGED <<table, todo, childEnd, parentEnd, childVars>>

(* childRun() returns in the parent, and its parameter is destroyed.       *)
Release(c) ==
  /\ stage[c] = "forked"
  /\ table' = Closed(table, Ends(c))
  /\ stage' = [stage EXCEPT ![c] = "loop"]
  /\ UNCHANGED <<todo, childEnd, parentEnd, childVars>>

(* Mutation: FileDescriptor::close() leaves the number in the object, so   *)
(* that its destructor closes it again.                                    *)
CloseEndTwice(c) ==
  /\ stage[c] = "loop"
  /\ \E fd \in parentEnd[c] : table' = Closed(table, {fd})
  /\ UNCHANGED <<stage, todo, childEnd, parentEnd, childVars>>

(* parentProcess() closes a descriptor it is done with.                    *)
CloseEnd(c) ==
  /\ stage[c] = "loop"
  /\ \E fd \in parentEnd[c] :
       /\ table' = Closed(table, {fd})
       /\ parentEnd' = [parentEnd EXCEPT ![c] = @ \ {fd}]
  /\ UNCHANGED <<stage, todo, childEnd, childVars>>

(* parentRun() has waited for the child, and its parameter is destroyed.   *)
Return(c) ==
  /\ stage[c] = "loop" /\ childStage[c] \in {"exec", "failed"}
  /\ table' = Closed(table, parentEnd[c])
  /\ parentEnd' = [parentEnd EXCEPT ![c] = {}]
  /\ stage' = [stage EXCEPT ![c] = "returned"]
  /\ childStage' = [childStage EXCEPT ![c] = "gone"]
  /\ child' = [child EXCEPT ![c] = [fd \in Fds |-> Free]]
  /\ UNCHANGED <<todo, childEnd, install>>

-----------------------------------------------------------------------------
(* The children.                                                           *)

(* Mutation: any result of dup2() but -1 means "again".                    *)
LoopsOnSuccess(result) == result # -1

(* "while(dup2(...) == EINTR)" compares the result, not errno.             *)
Loops(result) == result = EINTR

(* close() the handle, and dup2() the child's end of the stream to it.     *)
Install(c) ==
  /\ childStage[c] = "install"
  /\ \E s \in install[c] :
       /\ Lowest(install[c], s)
       /\ install' = [install EXCEPT ![c] = @ \ {s}]
       /\ IF childEnd[c][s] = NoHandle
            THEN UNCHANGED <<child, childStage>>
            ELSE LET t == Closed(child[c], {s})
                     new == t[childEnd[c][s]]
                     result == IF new = Free THEN -1 ELSE s
                 IN  /\ child' = [child EXCEPT ![c] = [t EXCEPT ![s] = new]]
                     /\ childStage' = IF Loops(result)
                                        THEN [childStage EXCEPT ![c] = "spinning"]
                                        ELSE childStage
  /\ UNCHANGED parentVars

(* Mutation: the handles with nothing to install are not spared.           *)
SparedInstalled(c) == {s \in Handles(c) : childEnd[c][s] # NoHandle}

(* Mutation: the ends that were installed are spared as well.              *)
SparedTwice(c) == Handles(c) \cup Ends(c)

(* What the child does not close: the keys of childFileDescriptors.        *)
Spared(c) == Handles(c)

(* The child lists its descriptors, the one of opendir() included, closes  *)
(* those it does not spare, and goes on to execvp().                       *)
CloseOthers(c) ==
  /\ childStage[c] = "install" /\ install[c] = {}
  /\ \E dir \in FreeFds(child[c]) :
       /\ Lowest(FreeFds(child[c]), dir)
       /\ LET listed == (Fds \ FreeFds(child[c])) \cup {dir}
          IN  child' = [child EXCEPT ![c] =
                          Closed(@, {Reread(fd) : fd \in listed} \ Spared(c))]
  /\ childStage' = [childStage EXCEPT ![c] = "exec"]
  /\ UNCHANGED <<install, parentVars>>

(* opendir() fails: no descriptor is left, or there is no /proc.           *)
CloseOthersFails(c) ==
  /\ childStage[c] = "install" /\ install[c] = {}
  /\ childStage' = [childStage EXCEPT ![c] = "failed"]
  /\ UNCHANGED <<child, install, parentVars>>

CallerStep(c) == \/ Prepare(c) \/ OpenFails(c) \/ Fork(c) \/ ForkFails(c)
                 \/ Release(c) \/ CloseEnd(c) \/ Return(c)
ChildStep(c) == Install(c) \/ CloseOthers(c) \/ CloseOthersFails(c)

(* Every execute() has returned or thrown, or waits for a child that spins. *)
Over ==
  /\ \A c \in Callers : \/ stage[c] \in {"returned", "thrown"}
                        \/ stage[c] = "loop" /\ childStage[c] = "spinning"
  /\ UNCHANGED vars

Next == (\E c \in Callers : CallerStep(c) \/ ChildStep(c)) \/ Over

Spec == Init /\ [][Next]_vars
FairSpec == Spec /\ \A c \in Callers : WF_vars(CallerStep(c)) /\ WF_vars(ChildStep(c))

-----------------------------------------------------------------------------
(* Properties.                                                             *)

Table == [Fds -> Things]

(* The types, and: what the program's FileDescriptors hold is open.        *)
TypeOK ==
  /\ table \in Table
  /\ stage \in [Callers -> {"prepare", "forked", "loop", "returned", "thrown"}]
  /\ \A c \in Callers :
       /\ todo[c] \subseteq DOMAIN Request[c]
       /\ childEnd[c] \in [Handles(c) -> Fds \cup {NoHandle}]
       /\ parentEnd[c] \subseteq Fds
       /\ install[c] \subseteq Handles(c)
       /\ \A fd \in parentEnd[c] : table[fd] # Free
  /\ child \in [Callers -> Table]
  /\ childStage \in
       [Callers -> {"unborn", "install", "spinning", "exec", "failed", "gone"}]

(* The handles that the child replaces by ends of its own.                 *)
Installed(c) == {s \in Handles(c) : childEnd[c][s] # NoHandle}

(* The end for handle s has the number of a handle whose turn comes before *)
(* it, or its own: the child closes it before it duplicates it.            *)
Overwritten(c, s) == \E t \in Installed(c) : t <= s /\ childEnd[c][s] = t

(* Files that the other threads hand over, and close in the program.       *)
OthersFiles(c) ==
  {fd \in Fds : \E d \in Callers \ {c} : \E t \in Files(d) : FileAt[d][t] = fd}

(* What the child of c is to find at a handle that was asked for.          *)
Wanted(c, s) ==
  CASE s \in Pairs(c) -> ChildSide(c, s)
    [] s \in Files(c) -> Own(FileAt[c][s])
    [] OTHER -> Own(s)

(* A program is executed with every stream connected to what was asked for *)
(* but those whose end was closed to make place for it or another one, and *)
(* with the program's own file at every open handle that it was to keep,   *)
(* whatever numbers the pipes got and whatever order the handles come in   *)
(* (Process.cpp:222-234).                                                  *)
Connected ==
  \A c \in Callers : childStage[c] = "exec" =>
    /\ \A s \in Installed(c) : ~Overwritten(c, s) => child[c][s] = Wanted(c, s)
    /\ \A s \in (Handles(c) \ Installed(c)) \cap (Preopen \ OthersFiles(c)) :
         child[c][s] = Wanted(c, s)

(* And with nothing else: no end of a pipe of another thread, nor the      *)
(* parent's end of its own (Process.cpp:237-239, "close all opened file    *)
(* descriptors").                                                          *)
NothingElseOpen ==
  \A c \in Callers : childStage[c] = "exec" =>
    \A fd \in Fds \ Handles(c) : child[c][fd] = Free

(* A FileDescriptor of one execute() never names what another one, or the  *)
(* rest of the program, has opened: nobody closes somebody else's file.    *)
EndsAreOwn ==
  \A c \in Callers :
    /\ \A fd \in parentEnd[c] : \E s \in Pairs(c) : table[fd] = ParentSide(c, s)
    /\ stage[c] \in {"prepare", "forked"} =>
         \A s \in Handles(c) : childEnd[c][s] # NoHandle =>
           table[childEnd[c][s]] = Wanted(c, s)

(* Once every execute() has returned or thrown, the program's table is     *)
(* what it was, but for the files that were handed over to children.       *)
TableRestored ==
  (\A c \in Callers : stage[c] \in {"returned", "thrown"}) =>
    LET handedOver == {fd \in Fds : \E c \in Callers : \E s \in Files(c) : childEnd[c][s] = fd}
    IN  \A fd \in Fds :
          table[fd] = IF fd \in Preopen \ handedOver THEN Own(fd) ELSE Free

(* A child that was forked executes its program, or gives up, unless it is *)
(* to have the handle whose number is that of EINTR.                       *)
ChildStarts ==
  \A c \in Callers : EINTR \notin Handles(c) =>
    (childStage[c] = "install" ~> childStage[c] \in {"exec", "failed"})
=============================================================================
