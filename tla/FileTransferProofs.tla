------------------------- MODULE FileTransferProofs -------------------------
(***************************************************************************)
(* Proofs about FileTransfer, for a content of any length, buffers of any  *)
(* size and any choice of producers: the file gets what the child wrote,   *)
(* in order and once, and the producers implement ByteStream.              *)
(***************************************************************************)
EXTENDS FileTransfer, SequenceTheorems, TLAPS

-----------------------------------------------------------------------------
(* Sequences of units.                                                     *)

LEMMA UnitsFacts ==
  ASSUME NEW from \in Nat, NEW n \in Nat
  PROVE  /\ Units(from, n) \in Seq(Nat) /\ Len(Units(from, n)) = n
         /\ \A i \in 1 .. n : Units(from, n)[i] = from + i
  BY DEF Units

LEMMA UnitsExtend ==
  ASSUME NEW a \in Nat, NEW n \in Nat
  PROVE  Units(0, a) \o Units(a, n) = Units(0, a + n)
<1> DEFINE u == Units(0, a)
           v == Units(a, n)
           s == u \o v
           t == Units(0, a + n)
<1>1. u \in Seq(Nat) /\ Len(u) = a /\ \A i \in 1 .. a : u[i] = 0 + i
  BY UnitsFacts
<1>2. v \in Seq(Nat) /\ Len(v) = n /\ \A i \in 1 .. n : v[i] = a + i
  BY UnitsFacts
<1>3. t \in Seq(Nat) /\ Len(t) = a + n /\ \A i \in 1 .. a + n : t[i] = 0 + i
  BY UnitsFacts
<1>4. /\ s \in Seq(Nat) /\ Len(s) = a + n
      /\ \A i \in 1 .. a + n : s[i] = IF i <= a THEN u[i] ELSE v[i - a]
  <2> HIDE DEF u, v
  <2> QED
    BY <1>1, <1>2, ConcatProperties, ZenonT(40)
<1> HIDE DEF s, t, u, v
<1>5. \A i \in 1 .. a + n : s[i] = t[i]
  <2> SUFFICES ASSUME NEW i \in 1 .. a + n PROVE s[i] = t[i]
    OBVIOUS
  <2>1. CASE i <= a
    BY <1>1, <1>3, <1>4, <2>1
  <2>2. CASE i > a
    <3>1. i - a \in 1 .. n /\ a + (i - a) = i
      BY <2>2
    <3>2. v[i - a] = i
      BY <1>2, <3>1
    <3> QED
      BY <1>3, <1>4, <2>2, <3>2
  <2> QED
    BY <2>1, <2>2
<1>6. s = t
  BY <1>3, <1>4, <1>5, SeqEqual
<1> QED
  BY <1>6 DEF s, t, u, v

LEMMA PrefixOfConcat ==
  ASSUME NEW s \in Seq(Nat), NEW t \in Seq(Nat), NEW k \in 0 .. Len(s)
  PROVE  SubSeq(s \o t, 1, k) = SubSeq(s, 1, k)
<1> DEFINE u == s \o t
<1>1. /\ u \in Seq(Nat) /\ Len(u) = Len(s) + Len(t)
      /\ \A i \in 1 .. Len(s) : u[i] = s[i]
  BY ConcatProperties
<1> HIDE DEF u
<1>2. \A i \in 1 .. k : u[i] \in Nat /\ s[i] \in Nat /\ u[i] = s[i]
  BY <1>1, SMTT(30)
<1>3. /\ SubSeq(u, 1, k) \in Seq(Nat) /\ Len(SubSeq(u, 1, k)) = k
      /\ \A i \in 1 .. k : SubSeq(u, 1, k)[i] = u[i]
  BY <1>1, <1>2, SubSeqProperties, SMTT(30)
<1>4. /\ SubSeq(s, 1, k) \in Seq(Nat) /\ Len(SubSeq(s, 1, k)) = k
      /\ \A i \in 1 .. k : SubSeq(s, 1, k)[i] = s[i]
  BY <1>2, SubSeqProperties
<1>5. SubSeq(u, 1, k) = SubSeq(s, 1, k)
  BY <1>2, <1>3, <1>4, SeqEqual
<1> QED
  BY <1>5 DEF u

LEMMA PrefixExtend ==
  ASSUME NEW s \in Seq(Nat), NEW k \in Nat, NEW n \in Nat, k + n <= Len(s)
  PROVE  /\ SubSeq(s, 1, k) \o SubSeq(s, k + 1, k + n) = SubSeq(s, 1, k + n)
         /\ SubSeq(s, 1, k + n) \in Seq(Nat) /\ Len(SubSeq(s, 1, k + n)) = k + n
<1> DEFINE a == SubSeq(s, 1, k)
           b == SubSeq(s, k + 1, k + n)
           c == SubSeq(s, 1, k + n)
           d == a \o b
<1>0. \A i \in 1 .. k + n : s[i] \in Nat
  OBVIOUS
<1>1. a \in Seq(Nat) /\ Len(a) = k /\ \A i \in 1 .. k : a[i] = s[i]
  BY <1>0, SubSeqProperties
<1>2. b \in Seq(Nat) /\ Len(b) = n /\ \A i \in 1 .. n : b[i] = s[k + i]
  BY <1>0, SubSeqProperties
<1>3. c \in Seq(Nat) /\ Len(c) = k + n /\ \A i \in 1 .. k + n : c[i] = s[i]
  BY <1>0, SubSeqProperties
<1>4. /\ d \in Seq(Nat) /\ Len(d) = k + n
      /\ \A i \in 1 .. k + n : d[i] = IF i <= k THEN a[i] ELSE b[i - k]
  <2> HIDE DEF a, b
  <2> QED
    BY <1>1, <1>2, ConcatProperties, ZenonT(40)
<1> HIDE DEF a, b, c, d
<1>5. \A i \in 1 .. k + n : d[i] = c[i]
  <2> SUFFICES ASSUME NEW i \in 1 .. k + n PROVE d[i] = c[i]
    OBVIOUS
  <2>0. c[i] = s[i]
    BY <1>3
  <2>1. CASE i <= k
    <3>1. i \in 1 .. k
      BY <2>1
    <3>2. a[i] = s[i]
      BY <1>1, <3>1
    <3>3. d[i] = a[i]
      BY <1>4, <2>1
    <3> QED
      BY <2>0, <3>2, <3>3
  <2>2. CASE i > k
    <3>1. i - k \in 1 .. n /\ k + (i - k) = i
      BY <2>2
    <3>2. b[i - k] = s[i]
      BY <1>2, <3>1
    <3>3. d[i] = b[i - k]
      BY <1>4, <2>2
    <3> QED
      BY <2>0, <3>2, <3>3
  <2> QED
    BY <2>1, <2>2
<1>6. d = c
  BY <1>3, <1>4, <1>5, SeqEqual
<1> QED
  BY <1>3, <1>6 DEF a, b, c, d

LEMMA ContentIsUnits ==
  ASSUME NEW n \in Nat
  PROVE  Stream!Content(n) = Units(0, n)
  BY DEF Stream!Content, Units

-----------------------------------------------------------------------------
(* The invariant: what the ConsumerFile has stored is a prefix of what the *)
(* child has written, which ends where its buffer says.                    *)

Stored ==
  /\ Len(file) <= echoed /\ file = SubSeq(written, 1, Len(file))
  /\ sink.size = Npos => sink.pos = Npos
  /\ sink.pos # Npos => /\ sink.pos <= sink.size /\ sink.from + sink.size <= echoed
                        /\ sink.from + sink.pos = Len(file)

Inv == TypeOK /\ source.pos \in Nat /\ Stored

LEMMA InvInit == Init => Inv
<1> SUFFICES ASSUME Init PROVE Inv
  OBVIOUS
<1>1. /\ written \in Seq(Nat) /\ file \in Seq(Nat) /\ Len(file) = 0 /\ Len(written) = 0
      /\ file = SubSeq(written, 1, 0)
  BY SubSeqEmpty DEF Init
<1>2. source \in Buffers /\ source.pos \in Nat /\ sink \in Buffers
  BY SizeAssumption DEF Init, Empty, Buffers, Npos
<1>3. /\ kind \in Kinds /\ ending = "open" /\ open = TRUE /\ step = "poll"
      /\ pollIn \in BOOLEAN /\ allNpos \in BOOLEAN /\ echoed = 0 /\ gone \in BOOLEAN
  BY DEF Init
<1>4. Stored
  <2>1. sink.from = 0 /\ sink.pos = 0 /\ sink.size = 0 /\ echoed = 0
    BY DEF Init, Empty
  <2> QED
    BY <1>1, <2>1 DEF Stored, Npos
<1>5. TypeOK
  <2>1. open \in BOOLEAN /\ step \in {"poll", "produce", "consume"} /\ (step # "poll" => open)
    BY <1>3
  <2>2. echoed \in 0 .. Len(written) /\ ending \in {"open", "complete", "failed"}
    BY <1>1, <1>3
  <2> QED
    BY <1>1, <1>2, <1>3, <2>1, <2>2 DEF TypeOK
<1> QED
  BY <1>2, <1>4, <1>5 DEF Inv

(* What more is written changes nothing of what is stored.                 *)
LEMMA WrittenKeeps ==
  ASSUME Inv, written' \in Seq(Nat), UNCHANGED <<echoed, gone, sink, file>>,
         NEW u \in Seq(Nat), written' = written \o u
  PROVE  Stored' /\ echoed' \in 0 .. Len(written')
<1>1. Len(written') = Len(written) + Len(u) /\ Len(u) \in Nat
  BY ConcatProperties DEF Inv, TypeOK
<1>2. Len(file) \in 0 .. Len(written)
  BY DEF Inv, TypeOK, Stored
<1>3. SubSeq(written', 1, Len(file)) = SubSeq(written, 1, Len(file))
  BY <1>2, PrefixOfConcat DEF Inv, TypeOK
<1> QED
  BY <1>1, <1>3 DEF Inv, TypeOK, Stored

(* A buffer that read() or a function has filled.                          *)
LEMMA RefillsFacts ==
  ASSUME NEW b \in Buffers, b.size \in Nat, NEW available \in Int,
         NEW c \in Refills(b, available)
  PROVE  /\ c \in Buffers /\ c.from = b.from + b.size /\ c.pos = 0
         /\ c.size \in Nat /\ c.size <= available /\ (c.size = 0 => available = 0)
  BY SizeAssumption DEF Refills, Buffers

LEMMA Advances ==
  ASSUME NEW b \in Buffers, b.pos \in Nat, NEW n \in Nat, NEW c, c = [b EXCEPT !.pos = @ + n]
  PROVE  c \in Buffers /\ c.pos = b.pos + n /\ c.size = b.size /\ c.from = b.from
  BY DEF Buffers

LEMMA PollKeeps ==
  ASSUME Inv, Poll
  PROVE  Inv'
  BY DEF Inv, TypeOK, Stored, Poll, producerVars, Readable

LEMMA ProducedTypes ==
  ASSUME Inv, step = "produce", NEW npos \in BOOLEAN, Produced(npos)
  PROVE  /\ kind' \in Kinds /\ sink' \in Buffers /\ file' \in Seq(Nat)
         /\ open' \in BOOLEAN /\ pollIn' \in BOOLEAN /\ allNpos' \in BOOLEAN
         /\ step' \in {"poll", "produce", "consume"} /\ (step' # "poll" => open')
         /\ gone' \in BOOLEAN /\ UNCHANGED <<echoed, gone, sink, file>>
  BY DEF Inv, TypeOK, Produced

LEMMA EndedKeeps ==
  ASSUME Inv, step = "produce", NEW why \in {"complete", "failed"}, Ended(why),
         source' \in Buffers, source'.pos \in Nat
  PROVE  Inv'
<1>1. Produced(TRUE) /\ UNCHANGED written /\ ending' \in {"open", "complete", "failed"}
  BY DEF Ended, Inv, TypeOK
<1> QED
  BY <1>1, ProducedTypes DEF Inv, TypeOK, Stored

LEMMA WritesKeeps ==
  ASSUME Inv, step = "produce", NEW npos \in BOOLEAN, Produced(npos),
         ending' \in {"open", "complete", "failed"}, source' \in Buffers, source'.pos \in Nat,
         NEW from \in Nat, NEW n \in Nat, written' = written \o Units(from, n)
  PROVE  Inv'
<1>1. Units(from, n) \in Seq(Nat)
  BY UnitsFacts
<1>2. written' \in Seq(Nat)
  BY <1>1, ConcatProperties DEF Inv, TypeOK
<1>3. Stored' /\ echoed' \in 0 .. Len(written')
  BY <1>1, <1>2, WrittenKeeps, ProducedTypes
<1> QED
  BY <1>2, <1>3, ProducedTypes DEF Inv, TypeOK

LEMMA StaticKeeps ==
  ASSUME Inv, ProduceStatic
  PROVE  Inv'
<1>1. source \in Buffers /\ source.pos \in Nat
  BY DEF Inv, TypeOK
<1>2. CASE gone /\ source' = [source EXCEPT !.pos = Length] /\ Ended("failed")
  <2>1. source' \in Buffers /\ source'.pos \in Nat
    BY <1>1, <1>2, SizeAssumption DEF Buffers
  <2> QED
    BY <1>2, <2>1, EndedKeeps DEF ProduceStatic
<1>3. ASSUME NEW n \in Accepted(Length - source.pos),
             source' = [source EXCEPT !.pos = @ + n],
             written' = written \o Units(0, n),
             IF source.pos + n < Length
               THEN UNCHANGED ending /\ Produced(FALSE)
               ELSE ending' = (IF ending = "open" THEN "complete" ELSE ending) /\ Produced(TRUE)
      PROVE  Inv'
  <2>1. n \in Nat
    BY <1>1, SizeAssumption DEF Accepted
  <2>2. source' \in Buffers /\ source'.pos \in Nat
    BY <1>1, <1>3, <2>1 DEF Buffers
  <2>3. ending' \in {"open", "complete", "failed"} /\ (Produced(FALSE) \/ Produced(TRUE))
    BY <1>3 DEF Inv, TypeOK
  <2> QED
    BY <1>3, <2>1, <2>2, <2>3, WritesKeeps DEF ProduceStatic
<1> QED
  BY <1>2, <1>3 DEF ProduceStatic

(* The buffer to write from.                                               *)
LEMMA ReadyFacts ==
  ASSUME Inv, NEW b \in Ready
  PROVE  b \in Buffers /\ b.pos \in Nat
<1>1. source \in Buffers /\ source.pos \in Nat
  BY DEF Inv, TypeOK
<1>2. CASE ~Exhausted(source)
  BY <1>1, <1>2 DEF Ready
<1>3. CASE Exhausted(source)
  <2>1. source.size \in Nat
    BY <1>1, <1>3 DEF Exhausted, Buffers
  <2> DEFINE next == Refills(source, Length - source.from - source.size)
  <2>2. \A c \in next : c \in Buffers /\ c.pos \in Nat
    BY <1>1, <2>1, RefillsFacts, SizeAssumption DEF Buffers
  <2>3. \A c \in Buffers : Failed(c) \in Buffers /\ Failed(c).pos = c.pos
    BY DEF Failed, Buffers
  <2> HIDE DEF next
  <2>4. b \in {Failed(source)} \cup next
    BY <1>3 DEF Ready, Refilled, next
  <2> QED
    BY <1>1, <2>2, <2>3, <2>4
<1> QED
  BY <1>2, <1>3

LEMMA BufferKeeps ==
  ASSUME Inv, ProduceBuffer
  PROVE  Inv'
<1>1. PICK b \in Ready :
        \/ source' \in {b, Failed(b)} /\ (Ended("failed") \/ Ended("complete"))
        \/ \E n \in Accepted(b.size - b.pos) :
             /\ b.size # Npos
             /\ source' = [b EXCEPT !.pos = @ + n]
             /\ written' = written \o Units(b.from + b.pos, n)
             /\ UNCHANGED ending /\ Produced(FALSE)
  BY Zenon DEF ProduceBuffer
<1>2. b \in Buffers /\ b.pos \in Nat
  BY ReadyFacts
<1>3. CASE source' \in {b, Failed(b)} /\ (Ended("failed") \/ Ended("complete"))
  <2>1. source' \in Buffers /\ source'.pos \in Nat
    BY <1>2, <1>3 DEF Failed, Buffers
  <2> QED
    BY <1>3, <2>1, EndedKeeps DEF ProduceBuffer
<1>4. ASSUME NEW n \in Accepted(b.size - b.pos), b.size # Npos,
             source' = [b EXCEPT !.pos = @ + n],
             written' = written \o Units(b.from + b.pos, n),
             UNCHANGED ending, Produced(FALSE)
      PROVE  Inv'
  <2>1. n \in Nat /\ b.from + b.pos \in Nat
    BY <1>2, <1>4 DEF Accepted, Buffers
  <2>2. source' \in Buffers /\ source'.pos \in Nat
    BY <1>2, <1>4, <2>1 DEF Buffers
  <2>3. ending' \in {"open", "complete", "failed"}
    BY <1>4 DEF Inv, TypeOK
  <2> QED
    BY <1>4, <2>1, <2>2, <2>3, WritesKeeps DEF ProduceBuffer
<1> QED
  BY <1>1, <1>3, <1>4

(* The buffer to store, if it has not failed.                              *)
LEMMA TakenFacts ==
  ASSUME Inv, sink.pos # Npos, NEW b \in Taken
  PROVE  /\ b \in Buffers
         /\ b.size # Npos => /\ b.pos \in 0 .. b.size /\ b.from + b.size <= echoed
                             /\ b.from + b.pos = Len(file)
<1>1. /\ sink \in Buffers /\ sink.size \in Nat /\ sink.pos \in 0 .. sink.size
      /\ sink.from + sink.size <= echoed /\ sink.from + sink.pos = Len(file)
      /\ echoed \in Nat /\ sink.from \in Nat
  BY DEF Inv, TypeOK, Stored, Buffers, Npos
<1>2. CASE ~Exhausted(sink)
  BY <1>1, <1>2 DEF Taken
<1>3. CASE Exhausted(sink)
  <2>1. sink.pos = sink.size
    BY <1>1, <1>3 DEF Exhausted
  <2>2. CASE b = Failed(sink)
    BY <1>1, <2>2 DEF Failed, Buffers
  <2>3. CASE b \in Refills(sink, echoed - sink.from - sink.size)
    <3> DEFINE available == echoed - sink.from - sink.size
    <3>1. available \in Int
      BY <1>1
    <3>2. /\ b \in Buffers /\ b.from = sink.from + sink.size /\ b.pos = 0
          /\ b.size \in Nat /\ b.size <= available
      BY <1>1, <2>3, <3>1, RefillsFacts
    <3> QED
      BY <1>1, <2>1, <3>2
  <2> QED
    BY <1>3, <2>2, <2>3 DEF Taken, Received
<1> QED
  BY <1>2, <1>3

LEMMA ConsumeKeeps ==
  ASSUME Inv, Consume
  PROVE  Inv'
<1>1. /\ UNCHANGED <<kind, source, written, ending, pollIn, allNpos, echoed, gone>>
      /\ step' = "poll" /\ open' \in BOOLEAN
  BY DEF Consume, Consumed, producerVars, Inv, TypeOK
<1>2. CASE UNCHANGED <<sink, file>>
  BY <1>1, <1>2 DEF Inv, TypeOK, Stored
<1>3. ASSUME NEW b \in Taken, sink.pos # Npos,
             sink' = [b EXCEPT !.pos = Npos], UNCHANGED file
      PROVE  Inv'
  <2>1. b \in Buffers
    BY <1>3, TakenFacts
  <2>2. sink' \in Buffers /\ sink'.pos = Npos
    BY <1>3, <2>1 DEF Buffers
  <2> QED
    BY <1>1, <1>3, <2>2 DEF Inv, TypeOK, Stored
<1>4. ASSUME NEW b \in Taken, sink.pos # Npos, b.size # Npos, NEW n \in 0 .. b.size - b.pos,
             sink' = [b EXCEPT !.pos = @ + n],
             file' = file \o SubSeq(written, b.from + b.pos + 1, b.from + b.pos + n)
      PROVE  Inv'
  <2>1. /\ b \in Buffers /\ b.pos \in Nat /\ b.size \in Nat /\ b.pos <= b.size
        /\ b.from + b.size <= echoed /\ b.from + b.pos = Len(file) /\ b.from \in Nat
    BY <1>4, TakenFacts DEF Buffers
  <2>0. n \in Nat /\ n <= b.size - b.pos
    BY <1>4, <2>1
  <2>2. sink' \in Buffers /\ sink'.pos = b.pos + n /\ sink'.size = b.size /\ sink'.from = b.from
    BY <1>4, <2>0, <2>1, Advances
  <2> DEFINE k == Len(file)
  <2>3. /\ k \in Nat /\ n \in Nat /\ k + n <= echoed /\ k + n <= Len(written)
        /\ written \in Seq(Nat) /\ file = SubSeq(written, 1, k)
    <3>1. echoed \in Nat /\ echoed <= Len(written) /\ written \in Seq(Nat)
          /\ k \in Nat /\ file = SubSeq(written, 1, k)
      BY DEF Inv, TypeOK, Stored
    <3>2. k + n <= echoed
      BY <2>0, <2>1, <3>1
    <3> QED
      BY <2>0, <3>1, <3>2
  <2>4. file' = SubSeq(written, 1, k) \o SubSeq(written, k + 1, k + n)
    BY <1>4, <2>1, <2>3
  <2> HIDE DEF k
  <2>5. file' = SubSeq(written, 1, k + n) /\ file' \in Seq(Nat) /\ Len(file') = k + n
    BY <2>3, <2>4, PrefixExtend, ZenonT(40)
  <2>6. Stored'
    <3>1. sink'.pos \in Nat /\ sink'.pos <= sink'.size /\ sink'.size \in Nat
          /\ sink'.from + sink'.size <= echoed' /\ sink'.from + sink'.pos = Len(file')
      <4>1. b.pos + n \in Nat /\ b.pos + n <= b.size
        BY <2>0, <2>1
      <4>2. b.from + (b.pos + n) = k + n
        BY <2>0, <2>1, SMTT(30) DEF k
      <4> QED
        BY <1>1, <2>1, <2>2, <2>5, <4>1, <4>2
    <3>2. Len(file') <= echoed' /\ file' = SubSeq(written', 1, Len(file'))
      BY <1>1, <2>3, <2>5
    <3> QED
      BY <3>1, <3>2 DEF Stored, Npos
  <2> QED
    BY <1>1, <2>2, <2>5, <2>6 DEF Inv, TypeOK
<1> QED
  <2>1. \A b \in Taken : {k \in 0 .. b.size - b.pos : k > 0 \/ b.size = b.pos} \subseteq 0 .. b.size - b.pos
    OBVIOUS
  <2> QED
    BY <1>2, <1>3, <1>4, <2>1 DEF Consume

LEMMA ChildKeeps ==
  ASSUME Inv, Copy \/ Leave
  PROVE  Inv'
<1>1. UNCHANGED <<kind, source, written, ending, open, step, pollIn, allNpos, sink, file>>
  BY DEF Copy, Leave, producerVars, loopVars
<1>0. gone' \in BOOLEAN
  <2>1. gone \in BOOLEAN
    BY DEF Inv, TypeOK
  <2>2. gone' = gone \/ gone' = TRUE
    BY DEF Copy, Leave
  <2> QED
    BY <2>1, <2>2
<1>2. /\ echoed' \in 0 .. Len(written) /\ echoed <= echoed'
      /\ echoed \in Nat /\ Len(file) \in Nat
  BY DEF Copy, Leave, Inv, TypeOK, producerVars, loopVars
<1>3. Stored'
  BY <1>1, <1>2 DEF Inv, TypeOK, Stored, Buffers, Npos
<1> QED
  BY <1>0, <1>1, <1>2, <1>3 DEF Inv, TypeOK

LEMMA InvStep ==
  ASSUME Inv, [Next]_vars
  PROVE  Inv'
<1>1. CASE UNCHANGED vars
  BY <1>1 DEF vars, producerVars, loopVars, Inv, TypeOK, Stored
<1> QED
  BY <1>1, PollKeeps, StaticKeeps, BufferKeeps, ConsumeKeeps, ChildKeeps
     DEF Next, ParentStep, Over

LEMMA InvHolds == Spec => []Inv
  BY InvInit, InvStep, PTL DEF Spec

(* Buffers, positions and the loop's step have their types: the socket is  *)
(* open whenever it is produced for or consumed from.                      *)
THEOREM TypeCorrect == Spec => []TypeOK
<1>1. Inv => TypeOK
  BY DEF Inv
<1> QED
  BY <1>1, InvHolds, PTL

(* The ConsumerFile's file holds a prefix of what the child has written,   *)
(* over short reads, short writes, failures and interruptions.             *)
THEOREM StoredInOrder == Spec => []FileInOrder
<1>1. Inv => FileInOrder
  BY DEF Inv, Stored, FileInOrder
<1> QED
  BY <1>1, InvHolds, PTL

-----------------------------------------------------------------------------
(* The refinement.  What was written is a prefix of the content, at whose  *)
(* end the buffer's rest follows; a content that is not complete when its  *)
(* end is told gets no more units, because the child has gone or the       *)
(* source has failed.  It takes that no ProducerStatic is cut short.       *)

StaticAt ==
  kind = "static" =>
    IF ending = "open" THEN source.pos = 0 /\ Len(written) = 0 ELSE source.pos = Length

(* A buffer that continues what was written.                               *)
Continues(b) ==
  b.size # Npos => /\ b.pos <= b.size /\ b.from + b.pos = Len(written)
                   /\ b.from + b.size <= Length
                   /\ kind = "string" => b.from = 0 /\ b.size = Length

BufferAt ==
  kind # "static" =>
    /\ Continues(source)
    /\ source.size = Npos => ending # "open" \/ (Length = 0 /\ kind = "string")
    /\ ending = "failed" => gone \/ source.size = Npos

Promised ==
  /\ "static" \notin Interruptible
  /\ Len(written) <= Length /\ written = Units(0, Len(written))
  /\ ending = "complete" => Len(written) = Length
  /\ StaticAt /\ BufferAt

LEMMA PromisedInit ==
  ASSUME "static" \notin Interruptible, Init
  PROVE  Promised /\ Stream!Init
<1>1. Len(written) = 0 /\ ending = "open"
  BY DEF Init
<1>2. written = Units(0, 0) /\ written = Stream!Content(0)
  BY DEF Init, Units, Stream!Content
<1>3. Len(written) <= Length /\ written = Units(0, Len(written))
  BY <1>1, <1>2, SizeAssumption
<1>4. /\ source.from = 0 /\ source.pos = 0
      /\ source.size = IF kind = "string" /\ Length = 0 THEN Npos
                       ELSE IF kind \in {"static", "string"} THEN Length ELSE 0
  BY DEF Init, Empty
<1>5. StaticAt /\ BufferAt
  BY <1>1, <1>4, SizeAssumption DEF StaticAt, BufferAt, Continues, Npos
<1> QED
  BY <1>1, <1>2, <1>3, <1>5 DEF Promised, Stream!Init

(* Writing the next units is a step of the stream, or nothing.             *)
LEMMA DeliverStep ==
  ASSUME Inv, Promised, NEW n \in Nat, Len(written) + n <= Length,
         written' = written \o Units(Len(written), n),
         \/ n = 0 /\ UNCHANGED ending
         \/ ending = "open" /\ ending' = "open"
         \/ ending = "open" /\ ending' = "complete" /\ Len(written) + n = Length
  PROVE  /\ Len(written') = Len(written) + n /\ written' = Units(0, Len(written'))
         /\ [Stream!Next]_Stream!vars
<1> DEFINE a == Len(written)
<1>1. a \in Nat /\ a + n \in Nat /\ written = Units(0, a) /\ written' = written \o Units(a, n)
  BY DEF Inv, TypeOK, Promised
<1>0. /\ a + n <= Length
      /\ \/ n = 0 /\ UNCHANGED ending
         \/ ending = "open" /\ ending' = "open"
         \/ ending = "open" /\ ending' = "complete" /\ a + n = Length
  OBVIOUS
<1> HIDE DEF a
<1>2. written' = Units(0, a + n) /\ Len(written') = a + n
  <2>1. Units(0, a) \o Units(a, n) = Units(0, a + n)
    BY <1>1, UnitsExtend
  <2>2. Len(Units(0, a + n)) = a + n
    BY <1>1, UnitsFacts
  <2> QED
    BY <1>1, <2>1, <2>2
<1>3. written' = Stream!Content(a + n) /\ written = Stream!Content(a)
  BY <1>1, <1>2, ContentIsUnits
<1>4. ASSUME n = 0 PROVE [Stream!Next]_Stream!vars
  <2>1. written' = written
    BY <1>1, <1>2, <1>4
  <2>2. CASE ending' = ending
    BY <2>1, <2>2 DEF Stream!vars
  <2>3. CASE ending = "open" /\ ending' = "complete" /\ a + n = Length
    BY <1>1, <1>3, <1>4, <2>1, <2>3 DEF Stream!Next, Stream!TellEnd
  <2> QED
    BY <1>0, <1>4, <2>2, <2>3
<1>5. ASSUME n # 0 PROVE [Stream!Next]_Stream!vars
  <2>1. a + n \in a + 1 .. Length
    BY <1>0, <1>1, <1>5, SizeAssumption
  <2>2. ending = "open" /\ ending' \in {"open"} \cup (IF a + n = Length THEN {"complete"} ELSE {})
    BY <1>0, <1>5
  <2> QED
    BY <1>2, <1>3, <2>1, <2>2 DEF a, Stream!Next, Stream!Deliver
<1>6. [Stream!Next]_Stream!vars
  BY <1>4, <1>5
<1> QED
  BY <1>2, <1>6 DEF a

(* Telling the end, too.                                                   *)
LEMMA EndStep ==
  ASSUME Inv, Promised, NEW why \in {"complete", "failed"}, Ended(why),
         ending = "open" /\ why = "complete" => Len(written) = Length
  PROVE  /\ [Stream!Next]_Stream!vars /\ UNCHANGED <<written, gone, kind>>
         /\ ending' = IF ending = "open" THEN why ELSE ending
<1>1. /\ UNCHANGED <<written, gone, kind>> /\ Len(written) \in Nat
      /\ ending' = IF ending = "open" THEN why ELSE ending
  BY DEF Ended, Produced, Inv, TypeOK
<1>2. Len(written) = Length => written = Stream!Content(Length)
  BY ContentIsUnits, SizeAssumption DEF Promised
<1>3. [Stream!Next]_Stream!vars
  BY <1>1, <1>2 DEF Stream!Next, Stream!TellEnd, Stream!vars
<1> QED
  BY <1>1, <1>3

LEMMA StaticStep ==
  ASSUME Inv, Promised, ProduceStatic
  PROVE  Promised' /\ [Stream!Next]_Stream!vars
<1>1. source \in Buffers /\ kind = "static" /\ source.pos \in Nat /\ Len(written) \in Nat
  BY DEF Inv, TypeOK, ProduceStatic
<1>2. CASE gone /\ source' = [source EXCEPT !.pos = Length] /\ Ended("failed")
  <2>1. /\ [Stream!Next]_Stream!vars /\ UNCHANGED <<written, gone, kind>>
        /\ ending' = IF ending = "open" THEN "failed" ELSE ending
    BY <1>2, EndStep
  <2>2. source'.pos = Length
    BY <1>1, <1>2 DEF Buffers
  <2>3. StaticAt' /\ BufferAt'
    BY <1>1, <2>1, <2>2 DEF StaticAt, BufferAt
  <2> QED
    BY <2>1, <2>3 DEF Promised
<1>3. ASSUME NEW n \in Accepted(Length - source.pos),
             source' = [source EXCEPT !.pos = @ + n],
             written' = written \o Units(0, n),
             IF source.pos + n < Length
               THEN UNCHANGED ending /\ Produced(FALSE)
               ELSE ending' = (IF ending = "open" THEN "complete" ELSE ending) /\ Produced(TRUE)
      PROVE  Promised' /\ [Stream!Next]_Stream!vars
  <2>1. n = Length - source.pos /\ n \in Nat
    BY <1>1, SizeAssumption DEF Accepted, Promised
  <2>2. /\ source'.pos = Length /\ UNCHANGED kind
        /\ ending' = (IF ending = "open" THEN "complete" ELSE ending)
    BY <1>1, <1>3, <2>1, SizeAssumption DEF Buffers, Produced
  <2>3. CASE ending = "open"
    <3>1. Len(written) = 0 /\ n = Length
      BY <1>1, <2>1, <2>3, SizeAssumption DEF Promised, StaticAt
    <3>2. /\ Len(written') = Length /\ written' = Units(0, Len(written'))
          /\ [Stream!Next]_Stream!vars
      BY <1>3, <2>1, <2>2, <2>3, <3>1, DeliverStep
    <3> QED
      BY <1>1, <2>2, <2>3, <3>2, SizeAssumption DEF Promised, StaticAt, BufferAt
  <2>4. CASE ending # "open"
    <3>1. n = 0
      BY <1>1, <2>1, <2>4, SizeAssumption DEF Promised, StaticAt
    <3>2. Units(0, n) = Units(Len(written), n)
      BY <3>1 DEF Units
    <3>3. Len(written) + n <= Length /\ Len(written) + n = Len(written)
      BY <1>1, <3>1 DEF Promised
    <3>4. written' = written \o Units(Len(written), n) /\ UNCHANGED ending
      BY <1>3, <2>2, <2>4, <3>2
    <3>5. /\ Len(written') = Len(written) /\ written' = Units(0, Len(written'))
          /\ [Stream!Next]_Stream!vars
      BY <2>1, <3>1, <3>3, <3>4, DeliverStep
    <3> QED
      BY <1>1, <2>2, <2>4, <3>5 DEF Promised, StaticAt, BufferAt
  <2> QED
    BY <2>3, <2>4
<1> QED
  BY <1>2, <1>3 DEF ProduceStatic

(* The buffer to write from continues what was written; there is nothing   *)
(* in it only if that is all, or the source has failed.                    *)
LEMMA ReadyContinues ==
  ASSUME Inv, Promised, kind # "static", NEW b \in Ready
  PROVE  /\ Continues(b)
         /\ b.size = 0 => Len(written) = Length
         /\ b.size = Npos => kind # "string" \/ ending # "open" \/ Len(written) = Length
         /\ source.size = Npos => b.size = Npos
<1>1. /\ source \in Buffers /\ source.pos \in Nat /\ source.from \in Nat
      /\ Len(written) \in Nat /\ Continues(source)
      /\ source.size = Npos => ending # "open" \/ (Length = 0 /\ kind = "string")
  BY DEF Inv, TypeOK, Promised, BufferAt, Buffers
<1>2. CASE ~Exhausted(source)
  <2>1. b = source
    BY <1>2 DEF Ready
  <2>2. source.size # Npos => source.size \in Nat /\ source.pos < source.size
    BY <1>1, <1>2 DEF Exhausted, Buffers
  <2>3. Length = 0 => Len(written) = Length
    BY <1>1 DEF Promised
  <2> QED
    BY <1>1, <2>1, <2>2, <2>3 DEF Npos
<1>3. CASE Exhausted(source)
  <2>1. /\ source.size \in Nat /\ source.pos = source.size
        /\ source.from + source.size = Len(written)
        /\ kind = "string" => Len(written) = Length
    BY <1>1, <1>3 DEF Exhausted, Buffers, Continues
  <2> DEFINE available == Length - source.from - source.size
  <2>2. CASE b \in Refills(source, available) /\ kind # "string"
    <3>1. available \in Int
      BY <1>1, <2>1, SizeAssumption
    <3>2. /\ b \in Buffers /\ b.from = source.from + source.size /\ b.pos = 0
          /\ b.size \in Nat /\ b.size <= available /\ (b.size = 0 => available = 0)
      BY <1>1, <2>1, <2>2, <3>1, RefillsFacts
    <3> DEFINE w == Len(written)
               start == source.from + source.size
    <3>3. w \in Nat /\ start = w /\ start \in Nat /\ available = Length - start /\ Length \in Nat
      BY <1>1, <2>1, SizeAssumption
    <3> HIDE DEF w, start
    <3>4. /\ b.pos <= b.size /\ b.from + b.pos = w /\ b.from + b.size <= Length
          /\ b.size = 0 => w = Length
      <4>1. b.from = start
        BY <3>2 DEF start
      <4> HIDE DEF available
      <4> QED
        BY <3>2, <3>3, <4>1
    <3>5. b.size # Npos /\ source.size # Npos
      BY <2>1, <3>2 DEF Npos
    <3> QED
      BY <2>2, <3>4, <3>5 DEF Continues, w
  <2>3. CASE b = Failed(source)
    <3>1. b.size = Npos
      BY <1>1, <2>3 DEF Failed, Buffers
    <3> QED
      BY <2>1, <2>3, <3>1 DEF Continues, Npos
  <2>4. (b \in Refills(source, available) /\ kind # "string") \/ b = Failed(source)
    BY <1>3 DEF Ready, Refilled, available
  <2> HIDE DEF available
  <2> QED
    BY <2>2, <2>3, <2>4
<1> QED
  BY <1>2, <1>3

LEMMA BufferStep ==
  ASSUME Inv, Promised, ProduceBuffer
  PROVE  Promised' /\ [Stream!Next]_Stream!vars
<1>1. kind # "static"
  BY DEF ProduceBuffer
<1>2. PICK b \in Ready :
       \/ /\ b.size \in {0, Npos} /\ source' = IF kind = "function" THEN Failed(b) ELSE b
          /\ Ended(IF kind # "string" /\ b.size = Npos THEN "failed" ELSE "complete")
       \/ \E n \in Accepted(b.size - b.pos) :
            /\ b.size \notin {0, Npos}
            /\ source' = [b EXCEPT !.pos = @ + n]
            /\ written' = written \o Units(b.from + b.pos, n)
            /\ UNCHANGED ending /\ Produced(FALSE)
       \/ gone /\ source' = b /\ Ended("failed")
  BY Zenon DEF ProduceBuffer
<1>3. /\ b \in Buffers /\ b.pos \in Nat /\ Continues(b)
      /\ b.size = 0 => Len(written) = Length
      /\ b.size = Npos => kind # "string" \/ ending # "open" \/ Len(written) = Length
      /\ source.size = Npos => b.size = Npos
  BY <1>1, ReadyFacts, ReadyContinues
<1>4. ASSUME NEW why \in {"complete", "failed"}, Ended(why), source' \in {b, Failed(b)},
             ending = "open" /\ why = "complete" => Len(written) = Length,
             why = "failed" => gone \/ source'.size = Npos
      PROVE  Promised' /\ [Stream!Next]_Stream!vars
  <2>1. /\ [Stream!Next]_Stream!vars /\ UNCHANGED <<written, gone, kind>>
        /\ ending' = IF ending = "open" THEN why ELSE ending
    BY <1>4, EndStep
  <2>2. /\ Continues(source)' /\ (source.size = Npos => source'.size = Npos)
    <3>1. Failed(b).size = Npos
      BY <1>3 DEF Failed, Buffers
    <3> QED
      BY <1>3, <1>4, <2>1, <3>1 DEF Continues
  <2>3. ending' # "open"
    BY <2>1
  <2>4. ending' = "failed" => gone' \/ source'.size = Npos
    BY <1>1, <1>3, <1>4, <2>1, <2>2 DEF Promised, BufferAt
  <2>5. StaticAt' /\ BufferAt'
    BY <1>1, <2>1, <2>2, <2>3, <2>4 DEF StaticAt, BufferAt
  <2>6. ending' = "complete" => Len(written) = Length
    BY <1>4, <2>1 DEF Promised
  <2> QED
    BY <2>1, <2>5, <2>6 DEF Promised
<1>5. CASE /\ b.size \in {0, Npos} /\ source' = IF kind = "function" THEN Failed(b) ELSE b
           /\ Ended(IF kind # "string" /\ b.size = Npos THEN "failed" ELSE "complete")
  <2>1. source' \in {b, Failed(b)} /\ (b.size = Npos => source'.size = Npos)
    BY <1>3, <1>5 DEF Failed, Buffers
  <2>2. CASE kind # "string" /\ b.size = Npos
    BY <1>4, <1>5, <2>1, <2>2
  <2>3. CASE ~(kind # "string" /\ b.size = Npos)
    <3>1. Ended("complete")
      BY <1>5, <2>3
    <3>2. ending = "open" => Len(written) = Length
      BY <1>3, <1>5, <2>3
    <3> QED
      BY <1>4, <2>1, <3>1, <3>2
  <2> QED
    BY <2>2, <2>3
<1>6. ASSUME NEW n \in Accepted(b.size - b.pos), b.size \notin {0, Npos},
             source' = [b EXCEPT !.pos = @ + n],
             written' = written \o Units(b.from + b.pos, n),
             UNCHANGED ending, Produced(FALSE)
      PROVE  Promised' /\ [Stream!Next]_Stream!vars
  <2> DEFINE a == Len(written)
  <2>1. /\ a \in Nat /\ b.size \in Nat /\ b.pos <= b.size /\ b.from \in Nat
        /\ b.from + b.pos = a /\ b.from + b.size <= Length
        /\ kind = "string" => b.from = 0 /\ b.size = Length
    BY <1>3, <1>6 DEF Buffers, Continues, Inv, TypeOK
  <2>2. n \in Nat /\ n <= b.size - b.pos /\ ~gone
    BY <1>3, <2>1 DEF Accepted
  <2>3. /\ source'.pos = b.pos + n /\ source'.size = b.size /\ source'.from = b.from
    BY <1>3, <1>6, <2>2, Advances
  <2>4. a + n <= Length
    <3> HIDE DEF a
    <3> QED
      BY <1>3, <2>1, <2>2, SizeAssumption
  <2>5. ending = "open" \/ n = 0
    <3>1. ending # "failed"
      BY <1>1, <1>3, <1>6, <2>2 DEF Promised, BufferAt
    <3>2. CASE ending = "complete"
      <4>1. a = Length
        BY <3>2 DEF Promised
      <4> HIDE DEF a
      <4> QED
        BY <2>1, <2>2, <2>4, <4>1, SizeAssumption
    <3> QED
      BY <3>1, <3>2 DEF Inv, TypeOK
  <2>6. /\ Len(written') = a + n /\ written' = Units(0, Len(written'))
        /\ [Stream!Next]_Stream!vars
    BY <1>6, <2>1, <2>2, <2>4, <2>5, DeliverStep
  <2>7. UNCHANGED <<kind, gone, ending>>
    BY <1>6 DEF Produced
  <2> HIDE DEF a
  <2>8. ending' = "complete" => Len(written') = Length
    BY <2>1, <2>5, <2>6, <2>7 DEF Promised, a
  <2>9. Continues(source)'
    <3>1. b.pos \in Int
      BY <1>3 DEF Buffers, Npos
    <3>2. /\ b.pos + n <= b.size /\ b.from + (b.pos + n) = a + n
      BY <2>1, <2>2, <3>1
    <3> QED
      BY <2>1, <2>3, <2>6, <2>7, <3>2 DEF Continues
  <2>10. StaticAt' /\ BufferAt'
    BY <1>1, <1>6, <2>3, <2>7, <2>9, <1>3 DEF StaticAt, BufferAt, Promised
  <2> QED
    BY <2>4, <2>6, <2>8, <2>10 DEF Promised
<1>7. CASE gone /\ source' = b /\ Ended("failed")
  BY <1>4, <1>7
<1> QED
  BY <1>2, <1>5, <1>6, <1>7

LEMMA PromisedStep ==
  ASSUME Inv, Promised, [Next]_vars
  PROVE  Promised' /\ [Stream!Next]_Stream!vars
<1>1. CASE UNCHANGED <<kind, source, written, ending>> /\ (gone => gone')
  BY <1>1 DEF Promised, StaticAt, BufferAt, Continues, Stream!vars
<1>2. CASE Poll \/ Consume \/ Copy \/ Leave \/ UNCHANGED vars
  <2>1. UNCHANGED <<kind, source, written, ending>>
    BY <1>2 DEF Poll, Consume, Consumed, Copy, Leave, vars, producerVars
  <2>2. gone => gone'
    BY <1>2 DEF Poll, Consume, Consumed, Copy, Leave, vars, producerVars, loopVars
  <2> QED
    BY <1>1, <2>1, <2>2
<1> QED
  BY <1>2, StaticStep, BufferStep DEF Next, ParentStep, Over

(* The producers implement the abstract stream, for any content and        *)
(* buffer, if no ProducerStatic is interrupted in write(): every unit in   *)
(* order and once, and "complete" only after the last one.                 *)
THEOREM ProducersImplementStream ==
  "static" \notin Interruptible => (Spec => ImplementsStream)
<1>1. "static" \notin Interruptible /\ Init => Promised /\ Stream!Init
  BY PromisedInit
<1>2. Inv /\ Promised /\ [Next]_vars => Promised' /\ [Stream!Next]_Stream!vars
  BY PromisedStep
<1> QED
  BY <1>1, <1>2, InvHolds, PTL DEF Spec, ImplementsStream, Stream!Spec
=============================================================================
