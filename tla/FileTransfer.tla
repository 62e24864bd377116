---------------------------- MODULE FileTransfer ----------------------------
(***************************************************************************)
(* Which bytes the producers and the ConsumerFile of zsystem move: a child *)
(* that copies its input to its output is fed by one of the library's      *)
(* producers and its output is taken by a ConsumerFile, over a socket pair *)
(* (the only stream on which execute() calls a ConsumerFile that has a     *)
(* file, since it hands the file itself to the child otherwise).           *)
(*                                                                         *)
(* Content is counted in units, which are numbers, so that a sequence says *)
(* which of them were moved and in which order.  How much room the socket  *)
(* has is the subject of ParentLoop; here poll() may say either.           *)
(***************************************************************************)
EXTENDS Integers, Sequences

CONSTANTS
  Kinds,          \* the producers that may be used
  Length,         \* units of the content
  Buffer,         \* units in char buffer[4096]
  Interruptible   \* producers whose write() signals may cut short

ASSUME KindsAssumption ==
  Interruptible \subseteq Kinds /\ Kinds \subseteq {"static", "file", "function", "string"}
ASSUME SizeAssumption == Length \in Nat /\ Buffer \in Nat \ {0}

Npos == -1

VARIABLES
  kind,       \* the producer's class
  source,     \* its members: where the buffer starts, currentPos, currentSize
  written,    \* the units that it wrote, in order
  ending,     \* whether it has returned npos, and why
  open,       \* the parent's FileDescriptor holds the socket
  step,       \* where parentProcess() is in the iteration for the socket
  pollIn,     \* poll() reported POLLIN
  allNpos     \* local of parentProcess()
VARIABLES
  echoed,     \* units that the child has read, and written back
  gone,       \* the child has closed its end
  sink,       \* members of the ConsumerFile, like source
  file        \* what it wrote to its file
producerVars == <<kind, source, written, ending>>
loopVars == <<open, step, pollIn, allNpos>>
vars == <<producerVars, loopVars, echoed, gone, sink, file>>

-----------------------------------------------------------------------------
Units(from, n) == [i \in 1 .. n |-> from + i]
Empty == [from |-> 0, pos |-> 0, size |-> 0]

Init ==
  /\ kind \in Kinds
  /\ source = IF kind = "string" /\ Length = 0 THEN [Empty EXCEPT !.size = Npos]
              ELSE IF kind \in {"static", "string"} THEN [Empty EXCEPT !.size = Length]
              ELSE Empty
  /\ written = <<>> /\ ending = "open"
  /\ open = TRUE /\ step = "poll" /\ pollIn = FALSE /\ allNpos = TRUE
  /\ echoed = 0 /\ gone = FALSE
  /\ sink = Empty /\ file = <<>>

(* "currentPos >= currentSize", with npos the largest number.              *)
Exhausted(b) == b.size # Npos /\ b.pos >= b.size

(* read() of at most one buffer, when "available" units are left.          *)
Refills(b, available) ==
  {[from |-> b.from + b.size, pos |-> 0, size |-> n] :
     n \in {k \in 0 .. Buffer : k <= available /\ (k = 0 => available = 0)}}
Failed(b) == [b EXCEPT !.size = Npos]

(* write() accepts everything, or less if a signal cuts it short; once the *)
(* child has gone it fails (with SIGPIPE ignored, see ParentLoop).         *)
Accepted(n) ==
  {k \in 0 .. n : ~gone /\ (k = n \/ (k > 0 /\ kind \in Interruptible))}

-----------------------------------------------------------------------------
(* One iteration of parentProcess().                                       *)

(* The socket is readable, also at end of file.                            *)
Readable == gone \/ sink.from + sink.size < echoed

Poll ==
  /\ step = "poll" /\ open
  /\ pollIn' = Readable
  /\ step' \in {"produce"} \cup (IF Readable THEN {"consume"} ELSE {})
  /\ allNpos' = TRUE
  /\ UNCHANGED <<producerVars, open, echoed, gone, sink, file>>

(* Mutation: npos closes the socket although consume() is still to come.   *)
ProducedClosesEarly(npos) ==
  /\ allNpos' = npos
  /\ step' = IF pollIn THEN "consume" ELSE "poll"
  /\ open' = ~npos
  /\ UNCHANGED <<kind, pollIn, echoed, gone, sink, file>>

(* What follows a produce(): consume(), if poll() said so, or a close() if *)
(* it returned npos.                                                       *)
Produced(npos) ==
  /\ allNpos' = npos
  /\ step' = IF pollIn THEN "consume" ELSE "poll"
  /\ open' = (pollIn \/ ~npos)
  /\ UNCHANGED <<kind, pollIn, echoed, gone, sink, file>>

(* npos: the first time tells the child the end.                           *)
Ended(why) ==
  /\ ending' = IF ending = "open" THEN why ELSE ending
  /\ UNCHANGED written
  /\ Produced(TRUE)

(* ProducerStatic::produce() writes as much as is left, and always from    *)
(* the start of the content.                                               *)
ProduceStatic ==
  /\ step = "produce" /\ kind = "static"
  /\ \/ \E n \in Accepted(Length - source.pos) :
          /\ source' = [source EXCEPT !.pos = @ + n]
          /\ written' = written \o Units(0, n)
          /\ IF source.pos + n < Length
               THEN UNCHANGED ending /\ Produced(FALSE)
               ELSE ending' = (IF ending = "open" THEN "complete" ELSE ending) /\ Produced(TRUE)
     \/ gone /\ source' = [source EXCEPT !.pos = Length] /\ Ended("failed")

(* What a file or a function yields when the buffer has been written, npos *)
(* if it fails; a string never yields any more.                            *)
Refilled ==
  {Failed(source)} \cup
    (IF kind = "string" THEN {} ELSE Refills(source, Length - source.from - source.size))

(* Mutation: the next buffer is read although this one has a rest.         *)
ReadyAlways == IF source.size = Npos THEN {source} ELSE Refilled

(* The buffer to write from: the rest of the last one comes first.         *)
Ready == IF Exhausted(source) THEN Refilled ELSE {source}

(* ProducerFile::produce() and ProducerDynamic::produce(); a function says *)
(* 0 for its end, which is kept as npos.                                   *)
ProduceBuffer ==
  /\ step = "produce" /\ kind # "static"
  /\ \E b \in Ready :
       \/ /\ b.size \in {0, Npos}
          /\ source' = IF kind = "function" THEN Failed(b) ELSE b
          /\ Ended(IF kind # "string" /\ b.size = Npos THEN "failed" ELSE "complete")
       \/ \E n \in Accepted(b.size - b.pos) :
            /\ b.size \notin {0, Npos}
            /\ source' = [b EXCEPT !.pos = @ + n]
            /\ written' = written \o Units(b.from + b.pos, n)
            /\ UNCHANGED ending /\ Produced(FALSE)
       \/ b.size \notin {0, Npos} /\ gone /\ source' = b /\ Ended("failed")

(* Mutation: allNpos is not reset when consume() has succeeded.            *)
ConsumedCloses(success) ==
  /\ step' = "poll" /\ open' = ~allNpos
  /\ UNCHANGED <<producerVars, pollIn, allNpos, echoed, gone>>

(* What follows a consume(): the socket is closed if nothing is to come of *)
(* either side.                                                            *)
Consumed(success) ==
  /\ step' = "poll" /\ open' = (success \/ ~allNpos)
  /\ UNCHANGED <<producerVars, pollIn, allNpos, echoed, gone>>

(* What read() yields; it may fail (ECONNRESET) if the child has left      *)
(* units unread, and then also before what is there has been read.         *)
Received ==
  Refills(sink, echoed - sink.from - sink.size)
    \cup (IF gone /\ echoed < Len(written) THEN {Failed(sink)} ELSE {})

(* Mutation: every call reads anew.                                        *)
TakenAlways == Received

(* The buffer to store: the rest of the last one comes first.              *)
Taken == IF Exhausted(sink) THEN Received ELSE {sink}

(* ConsumerFile::consume(): a disk that fills up accepts less, then fails, *)
(* and after a failure nothing is read any more.                           *)
Consume ==
  /\ step = "consume"
  /\ \/ sink.pos = Npos /\ UNCHANGED <<sink, file>> /\ Consumed(FALSE)
     \/ /\ sink.pos # Npos
        /\ \E b \in Taken :
             \/ /\ b.size # Npos
                /\ \E n \in {k \in 0 .. b.size - b.pos : k > 0 \/ b.size = b.pos} :
                     /\ sink' = [b EXCEPT !.pos = @ + n]
                     /\ file' = file \o SubSeq(written, b.from + b.pos + 1, b.from + b.pos + n)
                /\ Consumed(TRUE)
             \/ sink' = [b EXCEPT !.pos = Npos] /\ UNCHANGED file /\ Consumed(FALSE)

-----------------------------------------------------------------------------
(* The child.                                                              *)

Copy ==
  /\ ~gone /\ echoed < Len(written)
  /\ echoed' = echoed + 1
  /\ UNCHANGED <<producerVars, loopVars, gone, sink, file>>

Leave ==
  /\ ~gone /\ gone' = TRUE
  /\ UNCHANGED <<producerVars, loopVars, echoed, sink, file>>

ParentStep == Poll \/ ProduceStatic \/ ProduceBuffer \/ Consume

(* The socket is closed, and the loop goes on to waitpid().                *)
Over == ~open /\ UNCHANGED vars

Next == ParentStep \/ Copy \/ Leave \/ Over

Spec == Init /\ [][Next]_vars
FairSpec == Spec /\ WF_vars(ParentStep)

-----------------------------------------------------------------------------
(* Properties.                                                             *)

Buffers == [from : Nat, pos : Nat \cup {Npos}, size : Nat \cup {Npos}]

TypeOK ==
  /\ kind \in Kinds /\ source \in Buffers /\ sink \in Buffers
  /\ written \in Seq(Nat) /\ file \in Seq(Nat)
  /\ ending \in {"open", "complete", "failed"}
  /\ open \in BOOLEAN /\ pollIn \in BOOLEAN /\ allNpos \in BOOLEAN
  /\ step \in {"poll", "produce", "consume"} /\ (step # "poll" => open)
  /\ echoed \in 0 .. Len(written) /\ gone \in BOOLEAN

(* Every unit is written in order and once, whatever write() accepts: what *)
(* is "queued from previous call" (Producer.h:42) comes next.              *)
InOrder == \A i \in 1 .. Len(written) : written[i] = i

(* A producer whose writes are not cut short, or that keeps a buffer,      *)
(* implements the abstract stream: the end, too, comes only after all.     *)
Stream == INSTANCE ByteStream WITH delivered <- written
ImplementsStream == Stream!Spec

(* The file holds, in order and once, what the child has written, and      *)
(* nothing that a failed or short write() left behind is skipped.          *)
FileInOrder ==
  Len(file) <= echoed /\ file = SubSeq(written, 1, Len(file))

(* If the socket is still open when poll() sees that the child is gone,    *)
(* all that it wrote gets to the file, the tail of a short write() too: a  *)
(* producer that is done closes nothing then.  Excepted is a ConsumerFile  *)
(* that has met an error of write(), or of read().                         *)
EverythingStored ==
  gone /\ open /\ step = "poll" ~> Len(file) = echoed \/ sink.pos = Npos
=============================================================================
