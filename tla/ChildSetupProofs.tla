-------------------------- MODULE ChildSetupProofs --------------------------
(***************************************************************************)
(* Proofs about ChildSetup, for every number of threads, every request and *)
(* every set of descriptors that is open beforehand.                       *)
(***************************************************************************)
EXTENDS ChildSetup, TLAPS

Entered(c) == stage[c] \in {"prepare", "forked"}

(* What execute() has arranged for the streams that it has looked at.      *)
Arranged ==
  /\ stage \in [Callers -> {"prepare", "forked", "loop", "returned", "thrown"}]
  /\ todo \in [Callers -> SUBSET ({NoHandle} \cup Fds)]
  /\ DOMAIN childEnd = Callers /\ DOMAIN parentEnd = Callers
  /\ \A c \in Callers :
       /\ childEnd[c] \in [Handles(c) -> Fds \cup {NoHandle}]
       /\ parentEnd[c] \subseteq Fds
       /\ \A s \in Files(c) : childEnd[c][s] = IF s \in todo[c] THEN NoHandle ELSE FileAt[c][s]
       /\ \A s \in Pairs(c) : childEnd[c][s] = NoHandle <=> s \in todo[c]
       /\ \A s \in Handles(c) \ (Files(c) \cup Pairs(c)) : childEnd[c][s] = NoHandle
       /\ stage[c] # "prepare" /\ stage[c] # "thrown" => todo[c] = {}

(* No FileDescriptor of any caller is for this file.                       *)
Unclaimed(fd) == \A c \in Callers : \A s \in Files(c) : FileAt[c][s] # fd

(* What the descriptors that matter to somebody refer to.                  *)
TableInv ==
  /\ DOMAIN table = Fds
  /\ \A fd \in Preopen : Unclaimed(fd) => table[fd] = Own(fd)
  /\ \A c \in Callers : Entered(c) =>
       /\ \A s \in Files(c) : table[FileAt[c][s]] = Own(FileAt[c][s])
       /\ \A s \in Pairs(c) \ todo[c] : table[childEnd[c][s]] = ChildSide(c, s)
  /\ \A c \in Callers : \A fd \in parentEnd[c] :
       \E s \in Pairs(c) : table[fd] = ParentSide(c, s)

-----------------------------------------------------------------------------
(* What a descriptor may refer to tells the kinds apart.                   *)
LEMMA Distinct ==
  ASSUME NEW c, NEW s, NEW d, NEW t, NEW fd
  PROVE  /\ Free # Own(fd) /\ Free # ChildSide(c, s) /\ Free # ParentSide(c, s)
         /\ Own(fd) # ChildSide(c, s) /\ Own(fd) # ParentSide(c, s)
         /\ ChildSide(c, s) # ParentSide(d, t)
         /\ ChildSide(c, s) = ChildSide(d, t) => c = d /\ s = t
         /\ ParentSide(c, s) = ParentSide(d, t) => c = d /\ s = t
         /\ Own(s) = Own(t) => s = t
  BY DEF Free, Own, ChildSide, ParentSide

LEMMA KindsApart ==
  ASSUME NEW c \in Callers
  PROVE  /\ Files(c) \subseteq Handles(c) /\ Pairs(c) \subseteq Handles(c)
         /\ Files(c) \cap Pairs(c) = {}
         /\ Handles(c) \subseteq Fds /\ NoHandle \notin Fds
         /\ \A s \in Files(c) : FileAt[c][s] \in Preopen /\ FileAt[c][s] \in Fds
<1>1. Files(c) \subseteq Handles(c) /\ Pairs(c) \subseteq Handles(c)
  BY DEF Files, Pairs
<1>2. Files(c) \cap Pairs(c) = {}
  BY DEF Files, Pairs
<1>3. Handles(c) \subseteq Fds
  BY RequestAssumption DEF Handles
<1>4. NoHandle \notin Fds
  BY LimitAssumption DEF NoHandle, Fds
<1>5. \A s \in Files(c) : FileAt[c][s] \in Preopen /\ FileAt[c][s] \in Fds
  BY RequestAssumption, LimitAssumption
<1> QED
  BY <1>1, <1>2, <1>3, <1>4, <1>5

(* Descriptors that execute() of caller c may close.                       *)
Mine(c, fd) ==
  \/ \E s \in Files(c) : fd = FileAt[c][s] /\ table[fd] = Own(fd)
  \/ \E s \in Pairs(c) : table[fd] = ChildSide(c, s) \/ table[fd] = ParentSide(c, s)

(* As long as childRun() has not returned, the child's ends are c's own.   *)
LEMMA EndsMine ==
  ASSUME Arranged, TableInv, NEW c \in Callers, Entered(c), NEW fd \in Ends(c)
  PROVE  /\ fd \in Fds /\ Mine(c, fd)
         /\ \A s \in Pairs(c) : table[fd] # ParentSide(c, s)
<1>1. PICK s \in Handles(c) : fd = childEnd[c][s] /\ fd # NoHandle
  BY DEF Ends
<1>2. fd \in Fds
  BY <1>1 DEF Arranged
<1>3. CASE s \in Files(c)
  <2>1. fd = FileAt[c][s] /\ table[fd] = Own(fd)
    BY <1>1, <1>3 DEF Arranged, TableInv
  <2> QED
    BY <1>2, <1>3, <2>1, Distinct DEF Mine
<1>4. CASE s \in Pairs(c)
  <2>1. table[fd] = ChildSide(c, s)
    BY <1>1, <1>4 DEF Arranged, TableInv
  <2> QED
    BY <1>2, <1>4, <2>1, Distinct DEF Mine
<1>5. CASE s \notin Files(c) \cup Pairs(c)
  BY <1>1, <1>5 DEF Arranged
<1> QED
  BY <1>3, <1>4, <1>5

(* Closing descriptors of its own, a caller disturbs nobody.               *)
LEMMA CloseMine ==
  ASSUME Arranged, TableInv, NEW c \in Callers, NEW S,
         \A fd \in S : fd \in Fds /\ Mine(c, fd),
         table' = Closed(table, S),
         UNCHANGED <<todo, childEnd>>,
         ~Entered(c)',
         \A d \in Callers \ {c} : stage'[d] = stage[d],
         \A d \in Callers \ {c} : parentEnd'[d] = parentEnd[d],
         parentEnd'[c] \subseteq parentEnd[c] \ S
  PROVE  TableInv'
<1>1. DOMAIN table' = Fds
      /\ \A fd \in Fds : table'[fd] = IF fd \in S THEN Free ELSE table[fd]
  BY DEF Closed
<1>2. ASSUME NEW fd \in Preopen, Unclaimed(fd) PROVE table'[fd] = Own(fd)
  <2>1. fd \in Fds /\ table[fd] = Own(fd)
    BY <1>2, LimitAssumption DEF TableInv
  <2>2. fd \notin S
    BY <1>2, <2>1, Distinct DEF Mine, Unclaimed
  <2> QED
    BY <1>1, <2>1, <2>2
<1>3. ASSUME NEW d \in Callers, Entered(d)', NEW s \in Files(d)
      PROVE  table'[FileAt[d][s]] = Own(FileAt[d][s])
  <2>1. d # c /\ Entered(d)
    BY <1>3 DEF Entered
  <2>2. FileAt[d][s] \in Fds /\ table[FileAt[d][s]] = Own(FileAt[d][s])
    BY <1>3, <2>1, KindsApart DEF TableInv
  <2>3. FileAt[d][s] \notin S
    BY <1>3, <2>1, <2>2, Distinct, OwnerAssumption DEF Mine
  <2> QED
    BY <1>1, <2>2, <2>3
<1>4. ASSUME NEW d \in Callers, Entered(d)', NEW s \in Pairs(d) \ todo'[d]
      PROVE  table'[childEnd'[d][s]] = ChildSide(d, s)
  <2>1. d # c /\ Entered(d)
    BY <1>4 DEF Entered
  <2>2. /\ childEnd[d][s] \in Fds
        /\ table[childEnd[d][s]] = ChildSide(d, s)
    BY <1>4, <2>1, KindsApart DEF TableInv, Arranged
  <2>3. childEnd[d][s] \notin S
    BY <2>1, <2>2, Distinct DEF Mine
  <2> QED
    BY <1>1, <2>2, <2>3
<1>5. ASSUME NEW d \in Callers, NEW fd \in parentEnd'[d]
      PROVE  \E s \in Pairs(d) : table'[fd] = ParentSide(d, s)
  <2>1. fd \in parentEnd[d] /\ fd \in Fds
    BY <1>5 DEF Arranged
  <2>2. PICK s \in Pairs(d) : table[fd] = ParentSide(d, s)
    BY <2>1 DEF TableInv
  <2>3. fd \notin S
    <3>1. CASE d = c
      BY <1>5, <3>1
    <3>2. CASE d # c
      BY <2>2, <3>2, Distinct DEF Mine
    <3> QED
      BY <3>1, <3>2
  <2> QED
    BY <1>1, <2>1, <2>2, <2>3
<1> QED
  BY <1>1, <1>2, <1>3, <1>4, <1>5 DEF TableInv

-----------------------------------------------------------------------------
LEMMA ProgramInit == Init => Arranged /\ TableInv
<1> SUFFICES ASSUME Init PROVE Arranged /\ TableInv
  OBVIOUS
<1>1. Arranged
  <2>1. ASSUME NEW c \in Callers
        PROVE  /\ childEnd[c] \in [Handles(c) -> Fds \cup {NoHandle}]
               /\ parentEnd[c] \subseteq Fds
               /\ todo[c] = DOMAIN Request[c]
               /\ \A s \in Handles(c) : childEnd[c][s] = NoHandle /\ s \in todo[c]
    BY DEF Init, Handles
  <2>2. todo \in [Callers -> SUBSET ({NoHandle} \cup Fds)]
    BY RequestAssumption DEF Init
  <2> QED
    BY <2>1, <2>2, KindsApart DEF Init, Arranged
<1>2. TableInv
  <2>1. \A fd \in Preopen : table[fd] = Own(fd)
    BY LimitAssumption DEF Init
  <2>2. ASSUME NEW c \in Callers PROVE \A s \in Files(c) : table[FileAt[c][s]] = Own(FileAt[c][s])
    BY KindsApart DEF Init
  <2>3. \A c \in Callers : Pairs(c) \ todo[c] = {} /\ parentEnd[c] = {}
    BY DEF Init, Pairs, Handles
  <2> QED
    BY <2>1, <2>2, <2>3 DEF Init, TableInv
<1> QED
  BY <1>1, <1>2

(* Opening a pipe takes two descriptors that nobody depends on.            *)
LEMMA OpenTable ==
  ASSUME Arranged, TableInv, NEW c \in Callers, NEW s \in Pairs(c) \cap todo[c],
         NEW first \in FreeFds(table), NEW second \in FreeFds(table), first # second,
         Open(c, s, first, second), todo' = [todo EXCEPT ![c] = @ \ {s}],
         UNCHANGED stage
  PROVE  /\ TableInv' /\ DOMAIN childEnd' = Callers
         /\ \A d \in Callers \ {c} : childEnd'[d] = childEnd[d] /\ parentEnd'[d] = parentEnd[d]
         /\ \E r, w \in Fds :
              /\ childEnd'[c] = [childEnd[c] EXCEPT ![s] = r]
              /\ parentEnd'[c] = parentEnd[c] \cup {w}
<1> DEFINE its == IF Request[c][s] = "produce" THEN first ELSE second
           mine == IF its = first THEN second ELSE first
<1>1. /\ its \in Fds /\ mine \in Fds /\ its # mine
      /\ table[its] = Free /\ table[mine] = Free
  BY DEF FreeFds
<1>2. /\ table' = [table EXCEPT ![its] = ChildSide(c, s), ![mine] = ParentSide(c, s)]
      /\ childEnd' = [childEnd EXCEPT ![c][s] = its]
      /\ parentEnd' = [parentEnd EXCEPT ![c] = @ \cup {mine}]
  BY DEF Open
<1>3. /\ DOMAIN table' = Fds
      /\ table'[its] = ChildSide(c, s) /\ table'[mine] = ParentSide(c, s)
      /\ \A fd \in Fds : table[fd] # Free => table'[fd] = table[fd]
  BY <1>1, <1>2 DEF TableInv
<1>4. /\ DOMAIN childEnd' = Callers
      /\ \A d \in Callers \ {c} : childEnd'[d] = childEnd[d] /\ parentEnd'[d] = parentEnd[d]
      /\ childEnd'[c] = [childEnd[c] EXCEPT ![s] = its]
      /\ parentEnd'[c] = parentEnd[c] \cup {mine}
  BY <1>2 DEF Arranged
<1>5. childEnd'[c][s] = its /\ \A t \in Handles(c) : t # s => childEnd'[c][t] = childEnd[c][t]
  BY <1>4, KindsApart DEF Arranged
<1>6. ASSUME NEW fd \in Preopen, Unclaimed(fd) PROVE table'[fd] = Own(fd)
  <2>1. fd \in Fds /\ table[fd] = Own(fd) /\ table[fd] # Free
    BY <1>6, LimitAssumption, Distinct DEF TableInv
  <2> QED
    BY <1>3, <2>1
<1>7. ASSUME NEW d \in Callers, Entered(d), NEW t \in Files(d)
      PROVE  table'[FileAt[d][t]] = Own(FileAt[d][t])
  BY <1>3, <1>7, KindsApart, Distinct DEF TableInv
<1>8. ASSUME NEW d \in Callers, Entered(d), NEW t \in Pairs(d) \ todo'[d]
      PROVE  table'[childEnd'[d][t]] = ChildSide(d, t)
  <2>1. CASE d = c /\ t = s
    BY <1>3, <1>5, <2>1
  <2>2. CASE ~(d = c /\ t = s)
    <3>1. t \notin todo[d] /\ childEnd'[d][t] = childEnd[d][t]
      BY <1>4, <1>5, <1>8, <2>2, KindsApart DEF Arranged
    <3>2. childEnd[d][t] \in Fds /\ table[childEnd[d][t]] = ChildSide(d, t)
      BY <1>8, <3>1, KindsApart DEF Arranged, TableInv
    <3> QED
      BY <1>3, <3>1, <3>2, Distinct
  <2> QED
    BY <2>1, <2>2
<1>9. ASSUME NEW d \in Callers, NEW fd \in parentEnd'[d]
      PROVE  \E t \in Pairs(d) : table'[fd] = ParentSide(d, t)
  <2>1. CASE d = c /\ fd = mine
    BY <1>3, <2>1
  <2>2. CASE fd \in parentEnd[d]
    <3>1. PICK t \in Pairs(d) : table[fd] = ParentSide(d, t)
      BY <2>2 DEF TableInv
    <3>2. fd \in Fds
      BY <2>2 DEF Arranged
    <3>3. table[fd] # Free
      BY <3>1, Distinct
    <3> QED
      BY <1>3, <3>1, <3>2, <3>3
  <2> QED
    BY <1>4, <1>9, <2>1, <2>2
<1>10. TableInv'
  BY <1>3, <1>6, <1>7, <1>8, <1>9 DEF TableInv, Entered
<1>11. \E r, w \in Fds :
        /\ childEnd'[c] = [childEnd[c] EXCEPT ![s] = r]
        /\ parentEnd'[c] = parentEnd[c] \cup {w}
  BY <1>1, <1>4
<1> QED
  BY <1>4, <1>10, <1>11

(* Looking at a stream notes where the child's end of it is.               *)
LEMMA PrepareArranged ==
  ASSUME Arranged, NEW c \in Callers, stage[c] = "prepare", NEW s \in todo[c],
         todo' = [todo EXCEPT ![c] = @ \ {s}], UNCHANGED stage,
         DOMAIN childEnd' = Callers, DOMAIN parentEnd' = Callers,
         \A d \in Callers \ {c} : childEnd'[d] = childEnd[d] /\ parentEnd'[d] = parentEnd[d],
         parentEnd'[c] \subseteq Fds,
         \/ s \notin Files(c) \cup Pairs(c) /\ childEnd'[c] = childEnd[c]
         \/ \E r \in Fds : /\ childEnd'[c] = [childEnd[c] EXCEPT ![s] = r]
                           /\ \/ s \in Files(c) /\ r = FileAt[c][s]
                              \/ s \in Pairs(c)
  PROVE  Arranged'
<1>1. /\ todo' \in [Callers -> SUBSET ({NoHandle} \cup Fds)]
      /\ todo'[c] = todo[c] \ {s} /\ \A d \in Callers \ {c} : todo'[d] = todo[d]
  BY DEF Arranged
<1> DEFINE old == childEnd[c]
           new == childEnd'[c]
<1>2. /\ old \in [Handles(c) -> Fds \cup {NoHandle}] /\ NoHandle \notin Fds
      /\ Files(c) \subseteq Handles(c) /\ Pairs(c) \subseteq Handles(c)
      /\ Files(c) \cap Pairs(c) = {}
      /\ \A t \in Files(c) : t \in todo[c] => old[t] = NoHandle
      /\ \A t \in Pairs(c) : old[t] = NoHandle <=> t \in todo[c]
      /\ \A t \in Handles(c) \ (Files(c) \cup Pairs(c)) : old[t] = NoHandle
  BY KindsApart DEF Arranged
<1>3. /\ new \in [Handles(c) -> Fds \cup {NoHandle}]
      /\ \A t \in Handles(c) : t # s => new[t] = old[t]
      /\ s \in Files(c) => new[s] = FileAt[c][s]
      /\ s \in Pairs(c) => new[s] # NoHandle
      /\ s \in Handles(c) \ (Files(c) \cup Pairs(c)) => new[s] = NoHandle
  <2>1. CASE s \notin Files(c) \cup Pairs(c) /\ new = old
    BY <1>2, <2>1
  <2>2. ASSUME NEW r \in Fds, new = [old EXCEPT ![s] = r],
               \/ s \in Files(c) /\ r = FileAt[c][s]
               \/ s \in Pairs(c)
        PROVE  <1>3!:
    <3>1. s \in Handles(c)
      BY <1>2, <2>2
    <3>2. /\ new \in [Handles(c) -> Fds \cup {NoHandle}] /\ new[s] = r
          /\ \A t \in Handles(c) : t # s => new[t] = old[t]
      BY <1>2, <2>2, <3>1
    <3> QED
      BY <1>2, <2>2, <3>1, <3>2
  <2> QED
    BY <2>1, <2>2
<1>4. /\ \A t \in Files(c) : childEnd'[c][t] = IF t \in todo'[c] THEN NoHandle ELSE FileAt[c][t]
      /\ \A t \in Pairs(c) : childEnd'[c][t] = NoHandle <=> t \in todo'[c]
      /\ \A t \in Handles(c) \ (Files(c) \cup Pairs(c)) : childEnd'[c][t] = NoHandle
  BY <1>1, <1>3, <1>2 DEF Arranged
<1> QED
  BY <1>1, <1>3, <1>4 DEF Arranged

LEMMA PrepareStep ==
  ASSUME Arranged, TableInv, NEW c \in Callers, Prepare(c)
  PROVE  Arranged' /\ TableInv'
<1>1. PICK s \in todo[c] :
        /\ \/ /\ s \notin Files(c) \cup Pairs(c)
              /\ UNCHANGED <<table, childEnd, parentEnd>>
           \/ /\ s \in Files(c)
              /\ childEnd' = [childEnd EXCEPT ![c][s] = FileAt[c][s]]
              /\ UNCHANGED <<table, parentEnd>>
           \/ /\ s \in Pairs(c)
              /\ \E first, second \in FreeFds(table) :
                   first # second /\ Open(c, s, first, second)
        /\ todo' = [todo EXCEPT ![c] = @ \ {s}]
  BY DEF Prepare, Lowest
<1>2. stage[c] = "prepare" /\ UNCHANGED stage
  BY DEF Prepare
<1>3. CASE s \notin Files(c) \cup Pairs(c)
  <2>1. UNCHANGED <<table, childEnd, parentEnd>>
    BY <1>1, <1>3
  <2>2. Arranged'
    BY <1>1, <1>2, <1>3, <2>1, PrepareArranged DEF Arranged
  <2>3. \A d \in Callers : Pairs(d) \ todo'[d] = Pairs(d) \ todo[d]
    BY <1>1, <1>3 DEF Arranged
  <2>4. TableInv'
    BY <1>2, <2>1, <2>3 DEF TableInv, Entered
  <2> QED
    BY <2>2, <2>4
<1>4. CASE s \in Files(c)
  <2>1. childEnd' = [childEnd EXCEPT ![c][s] = FileAt[c][s]] /\ UNCHANGED <<table, parentEnd>>
    BY <1>1, <1>4, KindsApart
  <2>2. /\ DOMAIN childEnd' = Callers
        /\ childEnd'[c] = [childEnd[c] EXCEPT ![s] = FileAt[c][s]]
        /\ \A d \in Callers \ {c} : childEnd'[d] = childEnd[d] /\ parentEnd'[d] = parentEnd[d]
    BY <2>1 DEF Arranged
  <2>3. FileAt[c][s] \in Fds
    BY <1>4, KindsApart
  <2>4. Arranged'
    BY <1>1, <1>2, <1>4, <2>1, <2>2, <2>3, PrepareArranged DEF Arranged
  <2>5. \A d \in Callers : \A t \in Pairs(d) :
          (t \in todo'[d] <=> t \in todo[d]) /\ childEnd'[d][t] = childEnd[d][t]
    BY <1>1, <1>4, <2>2, KindsApart DEF Arranged
  <2>6. TableInv'
    BY <1>2, <2>1, <2>5 DEF TableInv, Entered
  <2> QED
    BY <2>4, <2>6
<1>5. CASE s \in Pairs(c)
  <2>1. PICK first, second \in FreeFds(table) : first # second /\ Open(c, s, first, second)
    BY <1>1, <1>5, KindsApart
  <2>2. /\ TableInv' /\ DOMAIN childEnd' = Callers
        /\ \A d \in Callers \ {c} : childEnd'[d] = childEnd[d] /\ parentEnd'[d] = parentEnd[d]
        /\ \E r, w \in Fds : /\ childEnd'[c] = [childEnd[c] EXCEPT ![s] = r]
                             /\ parentEnd'[c] = parentEnd[c] \cup {w}
    BY <1>1, <1>2, <1>5, <2>1, OpenTable, ZenonT(40)
  <2>3. DOMAIN parentEnd' = Callers /\ parentEnd'[c] \subseteq Fds
    BY <2>1, <2>2 DEF Arranged, Open
  <2> QED
    BY <1>1, <1>2, <1>5, <2>2, <2>3, PrepareArranged
<1> QED
  BY <1>3, <1>4, <1>5

(* The steps by which a caller closes descriptors.                         *)
LEMMA ThrowStep ==
  ASSUME Arranged, TableInv, NEW c \in Callers, stage[c] = "prepare", Throw(c)
  PROVE  Arranged' /\ TableInv'
<1>1. /\ DOMAIN parentEnd' = Callers /\ parentEnd'[c] = {}
      /\ \A d \in Callers \ {c} : parentEnd'[d] = parentEnd[d] /\ stage'[d] = stage[d]
      /\ stage' \in [Callers -> {"prepare", "forked", "loop", "returned", "thrown"}]
      /\ stage'[c] = "thrown" /\ UNCHANGED <<todo, childEnd>>
  BY DEF Throw, Arranged
<1>2. \A fd \in Ends(c) \cup parentEnd[c] : fd \in Fds /\ Mine(c, fd)
  BY EndsMine DEF Arranged, TableInv, Entered, Mine
<1>3. Arranged'
  BY <1>1 DEF Arranged
<1>4. TableInv'
  BY <1>1, <1>2, CloseMine DEF Throw, Entered
<1> QED
  BY <1>3, <1>4

LEMMA ReleaseStep ==
  ASSUME Arranged, TableInv, NEW c \in Callers, Release(c)
  PROVE  Arranged' /\ TableInv'
<1>1. /\ stage[c] = "forked" /\ todo[c] = {} /\ UNCHANGED <<todo, childEnd, parentEnd>>
      /\ stage' \in [Callers -> {"prepare", "forked", "loop", "returned", "thrown"}]
      /\ stage'[c] = "loop" /\ \A d \in Callers \ {c} : stage'[d] = stage[d]
  BY DEF Release, Arranged
<1>2. \A fd \in Ends(c) : fd \in Fds /\ Mine(c, fd) /\ fd \notin parentEnd[c]
  BY <1>1, EndsMine DEF TableInv, Entered
<1>3. Arranged'
  BY <1>1 DEF Arranged
<1>4. TableInv'
  BY <1>1, <1>2, CloseMine DEF Release, Entered
<1> QED
  BY <1>3, <1>4

LEMMA CloseEndStep ==
  ASSUME Arranged, TableInv, NEW c \in Callers, CloseEnd(c)
  PROVE  Arranged' /\ TableInv'
<1>1. PICK fd \in parentEnd[c] : /\ table' = Closed(table, {fd})
                                 /\ parentEnd' = [parentEnd EXCEPT ![c] = @ \ {fd}]
  BY DEF CloseEnd
<1>2. stage[c] = "loop" /\ UNCHANGED <<stage, todo, childEnd>>
  BY DEF CloseEnd
<1>3. /\ DOMAIN parentEnd' = Callers /\ parentEnd'[c] = parentEnd[c] \ {fd}
      /\ \A d \in Callers \ {c} : parentEnd'[d] = parentEnd[d]
  BY <1>1 DEF Arranged
<1>4. fd \in Fds /\ Mine(c, fd)
  BY DEF Arranged, TableInv, Mine
<1>5. Arranged'
  BY <1>2, <1>3 DEF Arranged
<1>6. TableInv'
  BY <1>1, <1>2, <1>3, <1>4, CloseMine DEF Entered
<1> QED
  BY <1>5, <1>6

LEMMA ReturnStep ==
  ASSUME Arranged, TableInv, NEW c \in Callers, Return(c)
  PROVE  Arranged' /\ TableInv'
<1>1. /\ stage[c] = "loop" /\ UNCHANGED <<todo, childEnd>>
      /\ stage' \in [Callers -> {"prepare", "forked", "loop", "returned", "thrown"}]
      /\ stage'[c] = "returned" /\ \A d \in Callers \ {c} : stage'[d] = stage[d]
      /\ DOMAIN parentEnd' = Callers /\ parentEnd'[c] = {}
      /\ \A d \in Callers \ {c} : parentEnd'[d] = parentEnd[d]
  BY DEF Return, Arranged
<1>2. \A fd \in parentEnd[c] : fd \in Fds /\ Mine(c, fd)
  BY DEF Arranged, TableInv, Mine
<1>3. Arranged'
  BY <1>1 DEF Arranged
<1>4. TableInv'
  BY <1>1, <1>2, CloseMine DEF Return, Entered
<1> QED
  BY <1>3, <1>4

LEMMA ForkStep ==
  ASSUME Arranged, TableInv, NEW c \in Callers, Fork(c)
  PROVE  Arranged' /\ TableInv'
<1>1. /\ stage[c] = "prepare" /\ todo[c] = {} /\ UNCHANGED <<table, todo, childEnd, parentEnd>>
      /\ stage' \in [Callers -> {"prepare", "forked", "loop", "returned", "thrown"}]
      /\ stage'[c] = "forked" /\ \A d \in Callers \ {c} : stage'[d] = stage[d]
  BY DEF Fork, Arranged
<1>2. Arranged'
  BY <1>1 DEF Arranged
<1>3. TableInv'
  BY <1>1 DEF TableInv, Entered
<1> QED
  BY <1>2, <1>3

LEMMA ProgramStep ==
  Arranged /\ TableInv /\ [Next]_vars => Arranged' /\ TableInv'
<1> SUFFICES ASSUME Arranged, TableInv, [Next]_vars
             PROVE  Arranged' /\ TableInv'
  OBVIOUS
<1>1. CASE UNCHANGED parentVars
  BY <1>1 DEF parentVars, Arranged, TableInv, Entered
<1>2. ASSUME NEW c \in Callers, CallerStep(c) PROVE Arranged' /\ TableInv'
  <2>1. CASE Prepare(c)
    BY <2>1, PrepareStep
  <2>2. CASE OpenFails(c) \/ ForkFails(c)
    BY <2>2, ThrowStep DEF OpenFails, ForkFails
  <2>3. CASE Fork(c)
    BY <2>3, ForkStep
  <2>4. CASE Release(c)
    BY <2>4, ReleaseStep
  <2>5. CASE CloseEnd(c)
    BY <2>5, CloseEndStep
  <2>6. CASE Return(c)
    BY <2>6, ReturnStep
  <2> QED
    BY <1>2, <2>1, <2>2, <2>3, <2>4, <2>5, <2>6 DEF CallerStep
<1>3. ASSUME NEW c \in Callers, ChildStep(c) PROVE UNCHANGED parentVars
  BY <1>3 DEF ChildStep, Install, CloseOthers, CloseOthersFails
<1>4. CASE UNCHANGED vars
  BY <1>1, <1>4 DEF vars
<1> QED
  BY <1>1, <1>2, <1>3, <1>4 DEF Next, Over

(* An end that a caller holds is its own, as long as it holds it: closing  *)
(* it never closes a file of another thread or of the rest of the program. *)
THEOREM OwnEnds == Spec => []EndsAreOwn
<1>1. Init => Arranged /\ TableInv
  BY ProgramInit
<1>2. Arranged /\ TableInv /\ [Next]_vars => Arranged' /\ TableInv'
  BY ProgramStep
<1>3. Arranged /\ TableInv => EndsAreOwn
  <2> SUFFICES ASSUME Arranged, TableInv, NEW c \in Callers, Entered(c),
                      NEW s \in Handles(c), childEnd[c][s] # NoHandle
               PROVE  table[childEnd[c][s]] = Wanted(c, s)
    BY DEF EndsAreOwn, TableInv, Entered
  <2>1. CASE s \in Files(c)
    BY <2>1, KindsApart DEF Arranged, TableInv, Wanted
  <2>2. CASE s \in Pairs(c)
    BY <2>2 DEF Arranged, TableInv, Wanted
  <2> QED
    BY <2>1, <2>2 DEF Arranged
<1> QED
  BY <1>1, <1>2, <1>3, PTL DEF Spec

-----------------------------------------------------------------------------
(* The whole table.                                                        *)

(* execute() of some caller has taken the file, and is done with it.       *)
HandedOver(fd) ==
  \E c \in Callers : ~Entered(c) /\ \E s \in Files(c) : childEnd[c][s] = fd

(* A descriptor is the program's, free, or held by some execute().         *)
Accounted ==
  /\ \A fd \in Fds : table[fd] = Own(fd) <=> fd \in Preopen /\ ~HandedOver(fd)
  /\ \A fd \in Fds :
       \/ table[fd] \in {Free, Own(fd)}
       \/ \E c \in Callers : \/ fd \in parentEnd[c]
                             \/ Entered(c) /\ fd \in Ends(c)
  /\ \A c \in Callers : stage[c] \in {"returned", "thrown"} => parentEnd[c] = {}

LEMMA AccountedInit == Init => Accounted
<1> SUFFICES ASSUME Init PROVE Accounted
  OBVIOUS
<1>1. /\ table = [fd \in Fds |-> IF fd \in Preopen THEN Own(fd) ELSE Free]
      /\ \A c \in Callers : stage[c] = "prepare"
  BY DEF Init
<1>2. \A fd \in Fds : ~HandedOver(fd)
  BY <1>1 DEF HandedOver, Entered
<1> QED
  BY <1>1, <1>2, Distinct DEF Accounted

(* Steps that leave the table alone and let go of nothing.                 *)
LEMMA KeepAccounted ==
  ASSUME Accounted, UNCHANGED <<table, parentEnd>>,
         \A c \in Callers :
           /\ Entered(c)' <=> Entered(c)
           /\ ~Entered(c) => childEnd'[c] = childEnd[c] /\ stage'[c] = stage[c]
           /\ Entered(c) => Ends(c) \subseteq Ends(c)'
  PROVE  Accounted'
<1>1. \A fd : HandedOver(fd)' <=> HandedOver(fd)
  BY DEF HandedOver
<1>2. \A c \in Callers : stage'[c] \in {"returned", "thrown"} =>
        stage[c] \in {"returned", "thrown"}
  BY DEF Entered
<1> QED
  BY <1>1, <1>2 DEF Accounted

(* A caller that closes some of what it holds, and by the end of its       *)
(* set-up all that the child was to have.                                  *)
LEMMA CloseAccounted ==
  ASSUME Arranged, TableInv, Accounted, NEW c \in Callers, NEW S,
         \A fd \in S : 
           /\ fd \in Fds
           /\ fd \in parentEnd[c] \/ (Entered(c) /\ fd \in Ends(c)),
         Entered(c) => Ends(c) \subseteq S,
         table' = Closed(table, S),
         UNCHANGED childEnd, ~Entered(c)',
         \A d \in Callers \ {c} : stage'[d] = stage[d],
         \A d \in Callers \ {c} : parentEnd'[d] = parentEnd[d],
         parentEnd'[c] = parentEnd[c] \ S,
         stage'[c] \in {"returned", "thrown"} => parentEnd'[c] = {}
  PROVE  Accounted'
<1>1. \A fd \in Fds : table'[fd] = IF fd \in S THEN Free ELSE table[fd]
  BY DEF Closed
<1>2. \A d \in Callers \ {c} : Entered(d)' <=> Entered(d)
  BY DEF Entered
<1>3. ASSUME NEW fd \in Fds, HandedOver(fd) PROVE HandedOver(fd)'
  BY <1>2, <1>3 DEF HandedOver
<1>4. ASSUME NEW fd \in Fds, HandedOver(fd)' PROVE HandedOver(fd) \/ fd \in S
  <2>1. PICK d \in Callers : ~Entered(d)' /\ \E s \in Files(d) : childEnd[d][s] = fd
    BY <1>4 DEF HandedOver
  <2>2. CASE ~Entered(d)
    BY <2>1, <2>2 DEF HandedOver
  <2>3. CASE Entered(d)
    <3>1. d = c /\ fd \in Ends(c)
      BY <1>2, <2>1, <2>3, KindsApart DEF Ends
    <3> QED
      BY <2>3, <3>1
  <2> QED
    BY <2>2, <2>3
<1>5. ASSUME NEW fd \in S PROVE fd \notin Preopen \/ HandedOver(fd)'
  <2>1. CASE table[fd] = Own(fd)
    <3>1. fd \notin parentEnd[c]
      BY <2>1, Distinct DEF TableInv
    <3>2. PICK s \in Handles(c) : childEnd[c][s] = fd /\ fd # NoHandle
      BY <1>5, <3>1 DEF Ends
    <3>3. CASE s \in Files(c)
      BY <3>2, <3>3 DEF HandedOver
    <3>4. CASE s \notin Files(c)
      <4>1. s \in Pairs(c) \ todo[c]
        BY <3>2, <3>4 DEF Arranged
      <4>2. table[fd] = ChildSide(c, s)
        BY <3>1, <3>2, <4>1, <1>5 DEF TableInv
      <4> QED
        BY <2>1, <4>2, Distinct
    <3> QED
      BY <3>3, <3>4
  <2>2. CASE table[fd] # Own(fd)
    BY <1>3, <1>5, <2>2 DEF Accounted
  <2> QED
    BY <2>1, <2>2
<1>6. ASSUME NEW fd \in Fds PROVE table'[fd] = Own(fd) <=> fd \in Preopen /\ ~HandedOver(fd)'
  <2>1. CASE fd \in S
    BY <1>1, <1>5, <2>1, Distinct
  <2>2. CASE fd \notin S
    <3>1. HandedOver(fd)' <=> HandedOver(fd)
      BY <1>3, <1>4, <2>2
    <3> QED
      BY <1>1, <2>2, <3>1 DEF Accounted
  <2> QED
    BY <2>1, <2>2
<1>7. ASSUME NEW fd \in Fds
      PROVE  \/ table'[fd] \in {Free, Own(fd)}
             \/ \E d \in Callers : \/ fd \in parentEnd'[d]
                                   \/ Entered(d)' /\ fd \in Ends(d)'
  <2>1. CASE fd \in S
    BY <1>1, <2>1
  <2>2. CASE fd \notin S /\ table[fd] \in {Free, Own(fd)}
    BY <1>1, <2>2
  <2>3. CASE fd \notin S /\ table[fd] \notin {Free, Own(fd)}
    <3>1. PICK d \in Callers : fd \in parentEnd[d] \/ (Entered(d) /\ fd \in Ends(d))
      BY <2>3 DEF Accounted
    <3>2. Ends(d)' = Ends(d)
      BY DEF Ends
    <3> QED
      BY <1>2, <2>3, <3>1, <3>2
  <2> QED
    BY <2>1, <2>2, <2>3
<1>8. ASSUME NEW d \in Callers, stage'[d] \in {"returned", "thrown"} PROVE parentEnd'[d] = {}
  BY <1>8 DEF Accounted
<1> QED
  BY <1>6, <1>7, <1>8 DEF Accounted

(* Looking at a stream only adds to what the caller holds.                 *)
LEMMA PrepareEnds ==
  ASSUME Arranged, NEW c \in Callers, NEW s \in todo[c], NEW r \in Fds,
         s \in Handles(c), childEnd' = [childEnd EXCEPT ![c][s] = r]
  PROVE  /\ Ends(c)' = Ends(c) \cup {r}
         /\ \A d \in Callers \ {c} : childEnd'[d] = childEnd[d] /\ Ends(d)' = Ends(d)
<1>1. /\ \A d \in Callers \ {c} : childEnd'[d] = childEnd[d]
      /\ childEnd'[c] = [childEnd[c] EXCEPT ![s] = r]
      /\ childEnd[c] \in [Handles(c) -> Fds \cup {NoHandle}]
  BY DEF Arranged
<1>2. childEnd[c][s] = NoHandle /\ r # NoHandle
  BY KindsApart DEF Arranged
<1>3. childEnd'[c][s] = r /\ \A t \in Handles(c) : t # s => childEnd'[c][t] = childEnd[c][t]
  BY <1>1
<1> QED
  BY <1>1, <1>2, <1>3 DEF Ends

LEMMA PrepareAccounted ==
  ASSUME Arranged, TableInv, Accounted, NEW c \in Callers, Prepare(c)
  PROVE  Accounted'
<1>1. PICK s \in todo[c] :
        /\ \/ /\ s \notin Files(c) \cup Pairs(c)
              /\ UNCHANGED <<table, childEnd, parentEnd>>
           \/ /\ s \in Files(c)
              /\ childEnd' = [childEnd EXCEPT ![c][s] = FileAt[c][s]]
              /\ UNCHANGED <<table, parentEnd>>
           \/ /\ s \in Pairs(c)
              /\ \E first, second \in FreeFds(table) :
                   first # second /\ Open(c, s, first, second)
        /\ todo' = [todo EXCEPT ![c] = @ \ {s}]
  BY DEF Prepare, Lowest
<1>2. stage[c] = "prepare" /\ UNCHANGED stage /\ Entered(c)
  BY DEF Prepare, Entered
<1>3. \A d \in Callers : Entered(d)' <=> Entered(d)
  BY <1>2 DEF Entered
<1>4. CASE s \notin Files(c) \cup Pairs(c)
  <2>1. UNCHANGED <<table, childEnd, parentEnd>>
    BY <1>1, <1>4
  <2> QED
    BY <1>2, <1>3, <2>1, KeepAccounted DEF Ends
<1>5. CASE s \in Files(c)
  <2>1. childEnd' = [childEnd EXCEPT ![c][s] = FileAt[c][s]] /\ UNCHANGED <<table, parentEnd>>
    BY <1>1, <1>5, KindsApart
  <2>2. s \in Handles(c) /\ FileAt[c][s] \in Fds
    BY <1>5, KindsApart
  <2>3. /\ Ends(c) \subseteq Ends(c)'
        /\ \A d \in Callers \ {c} : childEnd'[d] = childEnd[d] /\ Ends(d)' = Ends(d)
    BY <2>1, <2>2, PrepareEnds
  <2> QED
    BY <1>2, <1>3, <2>1, <2>3, KeepAccounted
<1>6. CASE s \in Pairs(c)
  <2>1. PICK first, second \in FreeFds(table) : first # second /\ Open(c, s, first, second)
    BY <1>1, <1>6, KindsApart
  <2> DEFINE its == IF Request[c][s] = "produce" THEN first ELSE second
             mine == IF its = first THEN second ELSE first
  <2>2. /\ its \in Fds /\ mine \in Fds /\ its # mine
        /\ table[its] = Free /\ table[mine] = Free
    BY <2>1 DEF FreeFds
  <2>3. /\ table' = [table EXCEPT ![its] = ChildSide(c, s), ![mine] = ParentSide(c, s)]
        /\ childEnd' = [childEnd EXCEPT ![c][s] = its]
        /\ parentEnd' = [parentEnd EXCEPT ![c] = @ \cup {mine}]
    BY <2>1 DEF Open
  <2> HIDE DEF its, mine
  <2>4. /\ table'[its] = ChildSide(c, s) /\ table'[mine] = ParentSide(c, s)
        /\ \A fd \in Fds : fd # its /\ fd # mine => table'[fd] = table[fd]
    BY <2>2, <2>3 DEF TableInv
  <2>5. /\ Ends(c)' = Ends(c) \cup {its}
        /\ \A d \in Callers \ {c} : childEnd'[d] = childEnd[d] /\ Ends(d)' = Ends(d)
    BY <1>6, <2>2, <2>3, KindsApart, PrepareEnds
  <2>6. /\ parentEnd'[c] = parentEnd[c] \cup {mine}
        /\ \A d \in Callers \ {c} : parentEnd'[d] = parentEnd[d]
    BY <2>3 DEF Arranged
  <2>7. \A fd : HandedOver(fd)' <=> HandedOver(fd)
    BY <1>2, <1>3, <2>5 DEF HandedOver
  <2>8. ASSUME NEW fd \in Fds PROVE table'[fd] = Own(fd) <=> fd \in Preopen /\ ~HandedOver(fd)
    <3>1. table'[fd] = Own(fd) <=> table[fd] = Own(fd)
      <4>1. CASE fd = its \/ fd = mine
        BY <2>2, <2>4, <4>1, Distinct
      <4>2. CASE fd # its /\ fd # mine
        BY <2>4, <4>2
      <4> QED
        BY <4>1, <4>2
    <3> QED
      BY <3>1 DEF Accounted
  <2>9. ASSUME NEW fd \in Fds
        PROVE  \/ table'[fd] \in {Free, Own(fd)}
               \/ \E d \in Callers : \/ fd \in parentEnd'[d]
                                     \/ Entered(d)' /\ fd \in Ends(d)'
    <3>1. CASE fd = its \/ fd = mine
      BY <1>2, <1>3, <2>5, <2>6, <3>1
    <3>2. CASE fd # its /\ fd # mine
      <4>1. table'[fd] = table[fd]
        BY <2>4, <3>2
      <4>2. \A d \in Callers : parentEnd[d] \subseteq parentEnd'[d] /\ Ends(d) \subseteq Ends(d)'
        BY <2>5, <2>6
      <4> QED
        BY <1>3, <4>1, <4>2 DEF Accounted
    <3> QED
      BY <3>1, <3>2
  <2>10. ASSUME NEW d \in Callers, stage'[d] \in {"returned", "thrown"} PROVE parentEnd'[d] = {}
    BY <1>2, <2>6, <2>10 DEF Accounted
  <2> QED
    BY <2>7, <2>8, <2>9, <2>10 DEF Accounted
<1> QED
  BY <1>4, <1>5, <1>6

LEMMA AccountedStep ==
  Arranged /\ TableInv /\ Accounted /\ [Next]_vars => Accounted'
<1> SUFFICES ASSUME Arranged, TableInv, Accounted, [Next]_vars PROVE Accounted'
  OBVIOUS
<1>1. CASE UNCHANGED parentVars
  BY <1>1, KeepAccounted DEF parentVars, Entered, Ends
<1>2. ASSUME NEW c \in Callers, CallerStep(c) PROVE Accounted'
  <2>1. CASE Prepare(c)
    BY <2>1, PrepareAccounted
  <2>2. CASE Fork(c)
    BY <2>2, KeepAccounted DEF Fork, Entered, Ends, Arranged
  <2>3. CASE OpenFails(c) \/ ForkFails(c)
    <3>1. stage[c] = "prepare" /\ Throw(c)
      BY <2>3 DEF OpenFails, ForkFails
    <3>2. /\ parentEnd'[c] = {} /\ stage'[c] = "thrown"
          /\ \A d \in Callers \ {c} : parentEnd'[d] = parentEnd[d] /\ stage'[d] = stage[d]
          /\ UNCHANGED childEnd /\ table' = Closed(table, Ends(c) \cup parentEnd[c])
      BY <3>1 DEF Throw, Arranged
    <3>3. \A fd \in Ends(c) \cup parentEnd[c] : fd \in Fds
      BY DEF Ends, Arranged
    <3> QED
      BY <3>1, <3>2, <3>3, CloseAccounted DEF Entered
  <2>4. CASE Release(c)
    <3>1. /\ stage[c] = "forked" /\ stage'[c] = "loop" /\ Entered(c)
          /\ \A d \in Callers \ {c} : stage'[d] = stage[d]
          /\ UNCHANGED <<childEnd, parentEnd>> /\ table' = Closed(table, Ends(c))
      BY <2>4 DEF Release, Arranged, Entered
    <3>2. \A fd \in Ends(c) : fd \in Fds /\ fd \notin parentEnd[c]
      BY <3>1, EndsMine DEF TableInv
    <3> QED
      BY <3>1, <3>2, CloseAccounted DEF Entered
  <2>5. CASE CloseEnd(c)
    <3>1. PICK fd \in parentEnd[c] : /\ table' = Closed(table, {fd})
                                     /\ parentEnd' = [parentEnd EXCEPT ![c] = @ \ {fd}]
      BY <2>5 DEF CloseEnd
    <3>2. /\ stage[c] = "loop" /\ UNCHANGED <<stage, childEnd>> /\ fd \in Fds
          /\ parentEnd'[c] = parentEnd[c] \ {fd}
          /\ \A d \in Callers \ {c} : parentEnd'[d] = parentEnd[d]
      BY <2>5, <3>1 DEF CloseEnd, Arranged
    <3> QED
      BY <3>1, <3>2, CloseAccounted DEF Entered
  <2>6. CASE Return(c)
    <3>1. /\ stage[c] = "loop" /\ stage'[c] = "returned" /\ UNCHANGED childEnd
          /\ \A d \in Callers \ {c} : parentEnd'[d] = parentEnd[d] /\ stage'[d] = stage[d]
          /\ parentEnd'[c] = {} /\ table' = Closed(table, parentEnd[c])
          /\ parentEnd[c] \subseteq Fds
      BY <2>6 DEF Return, Arranged
    <3> QED
      BY <3>1, CloseAccounted DEF Entered
  <2> QED
    BY <1>2, <2>1, <2>2, <2>3, <2>4, <2>5, <2>6 DEF CallerStep
<1>3. ASSUME NEW c \in Callers, ChildStep(c) PROVE UNCHANGED parentVars
  BY <1>3 DEF ChildStep, Install, CloseOthers, CloseOthersFails
<1>4. CASE UNCHANGED vars
  BY <1>1, <1>4 DEF vars
<1> QED
  BY <1>1, <1>2, <1>3, <1>4 DEF Next, Over

(* However many threads were in execute(), and wherever each of them threw *)
(* or returned: afterwards no descriptor of the program's is lost, and     *)
(* none is left behind.                                                    *)
THEOREM Restored == Spec => []TableRestored
<1>1. Init => Arranged /\ TableInv /\ Accounted
  BY ProgramInit, AccountedInit
<1>2. Arranged /\ TableInv /\ Accounted /\ [Next]_vars => (Arranged /\ TableInv /\ Accounted)'
  BY ProgramStep, AccountedStep
<1>3. Accounted => TableRestored
  <2> SUFFICES ASSUME Accounted, \A c \in Callers : stage[c] \in {"returned", "thrown"},
                      NEW fd \in Fds
               PROVE  table[fd] = IF /\ fd \in Preopen
                                     /\ fd \notin {g \in Fds : \E c \in Callers :
                                                     \E s \in Files(c) : childEnd[c][s] = g}
                                  THEN Own(fd) ELSE Free
    BY DEF TableRestored
  <2>1. \A c \in Callers : ~Entered(c) /\ parentEnd[c] = {}
    BY DEF Entered, Accounted
  <2>2. table[fd] \in {Free, Own(fd)}
    BY <2>1 DEF Accounted
  <2>3. HandedOver(fd) <=> \E c \in Callers : \E s \in Files(c) : childEnd[c][s] = fd
    BY <2>1 DEF HandedOver
  <2>4. table[fd] = Own(fd) <=> fd \in Preopen /\ ~HandedOver(fd)
    BY DEF Accounted
  <2> QED
    BY <2>2, <2>3, <2>4
<1> QED
  BY <1>1, <1>2, <1>3, PTL DEF Spec

-----------------------------------------------------------------------------
(* The types of what Arranged and TableInv leave open.                     *)
Typed ==
  /\ table \in Table
  /\ child \in [Callers -> Table]
  /\ childStage \in
       [Callers -> {"unborn", "install", "spinning", "exec", "failed", "gone"}]
  /\ install \in [Callers -> SUBSET Fds]
  /\ \A c \in Callers : todo[c] \subseteq DOMAIN Request[c] /\ install[c] \subseteq Handles(c)

LEMMA ThingsOf ==
  /\ Free \in Things
  /\ \A fd \in Fds : Own(fd) \in Things
  /\ \A c \in Callers, s \in Fds : ChildSide(c, s) \in Things /\ ParentSide(c, s) \in Things
  BY DEF Things, ChildSide, ParentSide

LEMMA ClosedType ==
  ASSUME NEW t \in Table, NEW S
  PROVE  Closed(t, S) \in Table
  BY ThingsOf DEF Closed, Table

LEMMA TypedInit == Init => Typed
<1> SUFFICES ASSUME Init PROVE Typed
  OBVIOUS
<1>1. table \in Table /\ child \in [Callers -> Table]
  BY ThingsOf DEF Init, Table
<1> QED
  BY <1>1 DEF Init, Typed

LEMMA CallerTyped ==
  ASSUME Arranged, Typed, NEW c \in Callers, CallerStep(c)
  PROVE  Typed'
<1>1. CASE Prepare(c)
  <2>1. PICK s \in todo[c] :
          /\ \/ UNCHANGED table
             \/ /\ s \in Pairs(c)
                /\ \E first, second \in FreeFds(table) : Open(c, s, first, second)
          /\ todo' = [todo EXCEPT ![c] = @ \ {s}]
    BY <1>1 DEF Prepare
  <2>2. table' \in Table
    <3>1. ASSUME s \in Pairs(c), NEW first \in FreeFds(table), NEW second \in FreeFds(table),
                 Open(c, s, first, second)
          PROVE  table' \in Table
      <4>1. PICK its \in {first, second}, mine \in {first, second} :
              table' = [table EXCEPT ![its] = ChildSide(c, s), ![mine] = ParentSide(c, s)]
        BY <3>1 DEF Open
      <4>2. its \in Fds /\ mine \in Fds /\ s \in Fds
        BY <3>1, <4>1, KindsApart DEF FreeFds
      <4> QED
        BY <4>1, <4>2, ThingsOf DEF Typed, Table
    <3> QED
      BY <2>1, <3>1 DEF Typed
  <2>3. UNCHANGED <<child, childStage, install>>
    BY <1>1 DEF Prepare, childVars
  <2>4. \A d \in Callers : todo'[d] \subseteq todo[d]
    BY <2>1 DEF Arranged
  <2> QED
    BY <2>2, <2>3, <2>4 DEF Typed
<1>2. CASE OpenFails(c) \/ ForkFails(c) \/ Release(c) \/ CloseEnd(c)
  <2>1. /\ \E S : table' = Closed(table, S)
        /\ UNCHANGED <<todo, child, childStage, install>>
    BY <1>2 DEF OpenFails, ForkFails, Throw, Release, CloseEnd, childVars
  <2> QED
    BY <2>1, ClosedType DEF Typed
<1>3. CASE Fork(c)
  <2>1. /\ child' = [child EXCEPT ![c] = table] /\ UNCHANGED <<table, todo>>
        /\ childStage' = [childStage EXCEPT ![c] = "install"]
        /\ install' = [install EXCEPT ![c] = Handles(c)]
    BY <1>3 DEF Fork
  <2> QED
    BY <2>1, KindsApart DEF Typed
<1>4. CASE Return(c)
  <2>1. /\ \E S : table' = Closed(table, S)
        /\ child' = [child EXCEPT ![c] = [fd \in Fds |-> Free]]
        /\ childStage' = [childStage EXCEPT ![c] = "gone"] /\ UNCHANGED <<todo, install>>
    BY <1>4 DEF Return
  <2>2. [fd \in Fds |-> Free] \in Table
    BY ThingsOf DEF Table
  <2> QED
    BY <2>1, <2>2, ClosedType DEF Typed
<1> QED
  BY <1>1, <1>2, <1>3, <1>4 DEF CallerStep

LEMMA ChildTyped ==
  ASSUME Arranged, Typed, NEW c \in Callers, ChildStep(c)
  PROVE  Typed'
<1>1. UNCHANGED <<table, todo>>
  BY DEF ChildStep, Install, CloseOthers, CloseOthersFails, parentVars
<1>2. CASE Install(c)
  <2>1. PICK s \in install[c] :
          /\ install' = [install EXCEPT ![c] = @ \ {s}]
          /\ IF childEnd[c][s] = NoHandle
               THEN UNCHANGED <<child, childStage>>
               ELSE LET t == Closed(child[c], {s})
                        new == t[childEnd[c][s]]
                        result == IF new = Free THEN -1 ELSE s
                    IN  /\ child' = [child EXCEPT ![c] = [t EXCEPT ![s] = new]]
                        /\ childStage' = IF Loops(result)
                                           THEN [childStage EXCEPT ![c] = "spinning"]
                                           ELSE childStage
    BY <1>2 DEF Install
  <2>2. install' \in [Callers -> SUBSET Fds] /\ \A d \in Callers : install'[d] \subseteq Handles(d)
    BY <2>1 DEF Typed
  <2>3. CASE childEnd[c][s] = NoHandle
    BY <1>1, <2>1, <2>2, <2>3 DEF Typed
  <2>4. CASE childEnd[c][s] # NoHandle
    <3> DEFINE t == Closed(child[c], {s})
    <3>1. /\ child' = [child EXCEPT ![c] = [t EXCEPT ![s] = t[childEnd[c][s]]]]
          /\ childStage' \in {childStage, [childStage EXCEPT ![c] = "spinning"]}
      BY <2>1, <2>4
    <3>2. t \in Table
      BY ClosedType DEF Typed
    <3>3. s \in Fds /\ childEnd[c][s] \in Fds
      BY <2>1, <2>4 DEF Typed, Arranged
    <3> HIDE DEF t
    <3>4. [t EXCEPT ![s] = t[childEnd[c][s]]] \in Table
      BY <3>2, <3>3 DEF Table
    <3> QED
      BY <1>1, <2>2, <3>1, <3>4 DEF Typed
  <2> QED
    BY <2>3, <2>4
<1>3. CASE CloseOthers(c)
  <2>1. /\ \E S : child' = [child EXCEPT ![c] = Closed(@, S)]
        /\ childStage' = [childStage EXCEPT ![c] = "exec"] /\ UNCHANGED install
    BY <1>3 DEF CloseOthers
  <2> QED
    BY <1>1, <2>1, ClosedType DEF Typed
<1>4. CASE CloseOthersFails(c)
  BY <1>1, <1>4 DEF CloseOthersFails, Typed
<1> QED
  BY <1>2, <1>3, <1>4 DEF ChildStep

(* Types, for every number of threads and every request.                   *)
THEOREM TypeCorrect == Spec => []TypeOK
<1>1. Init => Arranged /\ TableInv /\ Typed
  BY ProgramInit, TypedInit
<1>2. Arranged /\ TableInv /\ Typed /\ [Next]_vars => (Arranged /\ TableInv /\ Typed)'
  <2>1. Arranged /\ Typed /\ UNCHANGED vars => Typed'
    BY DEF vars, parentVars, childVars, Typed
  <2> QED
    BY <2>1, ProgramStep, CallerTyped, ChildTyped DEF Next, Over
<1>3. Arranged /\ TableInv /\ Typed => TypeOK
  <2> SUFFICES ASSUME Arranged, TableInv, Typed PROVE TypeOK
    OBVIOUS
  <2>1. \A c \in Callers : \A fd \in parentEnd[c] : table[fd] # Free
    BY Distinct DEF TableInv
  <2> QED
    BY <2>1 DEF Arranged, Typed, TypeOK
<1> QED
  BY <1>1, <1>2, <1>3, PTL DEF Spec

-----------------------------------------------------------------------------
(* The children.                                                           *)

(* The handles of the child at which it is to find the program's own file. *)
KeptOpen(c) == (Handles(c) \ Installed(c)) \cap (Preopen \ OthersFiles(c))

(* Where the child has what it is to have at handle s.                     *)
Place(c, s) == IF s \in install[c] THEN childEnd[c][s] ELSE s

(* A child has what was asked for at the handles that it is done with, and *)
(* the rest where nothing that it does until then can harm it.             *)
ChildInv ==
  /\ childStage \in
       [Callers -> {"unborn", "install", "spinning", "exec", "failed", "gone"}]
  /\ DOMAIN child = Callers /\ DOMAIN install = Callers
  /\ \A c \in Callers :
       /\ childStage[c] # "unborn" =>
            stage[c] \notin {"prepare", "thrown"} /\ DOMAIN child[c] = Fds
       /\ childStage[c] = "install" =>
            /\ install[c] \subseteq Handles(c)
            /\ \A s \in Installed(c) : ~Overwritten(c, s) => child[c][Place(c, s)] = Wanted(c, s)
       /\ childStage[c] = "exec" =>
            \A s \in Installed(c) : ~Overwritten(c, s) => child[c][s] = Wanted(c, s)
       /\ childStage[c] \in {"install", "exec"} =>
            \A s \in KeptOpen(c) : child[c][s] = Wanted(c, s)

(* What is to be found where depends on the ends and on nothing else.      *)
LEMMA SameEnds ==
  ASSUME NEW c, childEnd'[c] = childEnd[c]
  PROVE  /\ Installed(c)' = Installed(c) /\ KeptOpen(c)' = KeptOpen(c)
         /\ \A s : Overwritten(c, s)' = Overwritten(c, s) /\ Wanted(c, s)' = Wanted(c, s)
         /\ install'[c] = install[c] => \A s : Place(c, s)' = Place(c, s)
  BY DEF Installed, KeptOpen, Overwritten, Wanted, Place

(* A fork finds every end that the child is to have.                       *)
LEMMA EndsAtFork ==
  ASSUME Arranged, TableInv, NEW c \in Callers, Entered(c), todo[c] = {},
         NEW s \in Installed(c)
  PROVE  table[childEnd[c][s]] = Wanted(c, s)
<1>1. s \in Handles(c) /\ childEnd[c][s] # NoHandle
  BY DEF Installed
<1>2. CASE s \in Files(c)
  <2>1. childEnd[c][s] = FileAt[c][s] /\ table[FileAt[c][s]] = Own(FileAt[c][s])
    BY <1>2 DEF Arranged, TableInv
  <2>2. Wanted(c, s) = Own(FileAt[c][s])
    BY <1>2, KindsApart DEF Wanted
  <2> QED
    BY <2>1, <2>2
<1>3. CASE s \in Pairs(c)
  <2>1. table[childEnd[c][s]] = ChildSide(c, s)
    BY <1>3 DEF TableInv
  <2>2. Wanted(c, s) = ChildSide(c, s)
    BY <1>3, KindsApart DEF Wanted
  <2> QED
    BY <2>1, <2>2
<1>4. CASE s \notin Files(c) \cup Pairs(c)
  BY <1>1, <1>4 DEF Arranged
<1> QED
  BY <1>2, <1>3, <1>4

(* A fork finds the program's own file at a handle that the child keeps:   *)
(* it belongs to nobody, or to the caller itself, which still has it.      *)
LEMMA KeptAtFork ==
  ASSUME Arranged, TableInv, NEW c \in Callers, Entered(c), todo[c] = {},
         NEW s \in KeptOpen(c)
  PROVE  table[s] = Wanted(c, s)
<1>1. s \in Handles(c) /\ childEnd[c][s] = NoHandle /\ s \in Preopen /\ s \notin OthersFiles(c)
  BY DEF KeptOpen, Installed
<1>2. s \notin Files(c) /\ s \notin Pairs(c)
  BY <1>1, KindsApart DEF Arranged
<1>3. Wanted(c, s) = Own(s)
  BY <1>2 DEF Wanted
<1>4. table[s] = Own(s)
  <2>1. CASE Unclaimed(s)
    BY <1>1, <2>1 DEF TableInv
  <2>2. CASE ~Unclaimed(s)
    <3>1. PICK d \in Callers : \E t \in Files(d) : FileAt[d][t] = s
      BY <2>2 DEF Unclaimed
    <3>2. d = c
      BY <1>1, <3>1, LimitAssumption DEF OthersFiles
    <3> QED
      BY <3>1, <3>2 DEF TableInv
  <2> QED
    BY <2>1, <2>2
<1> QED
  BY <1>3, <1>4

LEMMA ForkChild ==
  ASSUME Arranged, TableInv, ChildInv, NEW c \in Callers, Fork(c)
  PROVE  ChildInv'
<1>1. /\ todo[c] = {} /\ Entered(c) /\ UNCHANGED childEnd
      /\ stage'[c] = "forked" /\ \A d \in Callers \ {c} : stage'[d] = stage[d]
      /\ child'[c] = table /\ \A d \in Callers \ {c} : child'[d] = child[d]
      /\ childStage'[c] = "install"
      /\ \A d \in Callers \ {c} : childStage'[d] = childStage[d]
      /\ install'[c] = Handles(c) /\ \A d \in Callers \ {c} : install'[d] = install[d]
  BY DEF Fork, Entered, Arranged, ChildInv
<1>2. /\ childStage' \in
           [Callers -> {"unborn", "install", "spinning", "exec", "failed", "gone"}]
      /\ DOMAIN child' = Callers /\ DOMAIN install' = Callers
  BY DEF Fork, ChildInv
<1>3. \A s \in Installed(c) : child'[c][Place(c, s)'] = Wanted(c, s)
  <2>1. \A s \in Installed(c) : Place(c, s)' = childEnd[c][s]
    BY <1>1 DEF Installed, Place
  <2> QED
    BY <1>1, <2>1, EndsAtFork
<1>4. \A s \in KeptOpen(c) : child'[c][s] = Wanted(c, s)
  BY <1>1, KeptAtFork
<1>5. DOMAIN child'[c] = Fds
  BY <1>1 DEF TableInv
<1>6. ASSUME NEW d \in Callers
      PROVE  /\ Installed(d)' = Installed(d) /\ KeptOpen(d)' = KeptOpen(d)
             /\ \A s : Overwritten(d, s)' = Overwritten(d, s) /\ Wanted(d, s)' = Wanted(d, s)
             /\ d # c => \A s : Place(d, s)' = Place(d, s)
  BY <1>1, SameEnds
<1> QED
  BY <1>1, <1>2, <1>3, <1>4, <1>5, <1>6 DEF ChildInv

LEMMA InstallChild ==
  ASSUME ChildInv, Arranged, NEW c \in Callers, Install(c)
  PROVE  ChildInv'
<1>1. childStage[c] = "install" /\ UNCHANGED <<stage, childEnd>>
  BY DEF Install, parentVars
<1>2. PICK s \in install[c] :
        /\ Lowest(install[c], s)
        /\ install' = [install EXCEPT ![c] = @ \ {s}]
        /\ IF childEnd[c][s] = NoHandle
             THEN UNCHANGED <<child, childStage>>
             ELSE LET t == Closed(child[c], {s})
                      new == t[childEnd[c][s]]
                      result == IF new = Free THEN -1 ELSE s
                  IN  /\ child' = [child EXCEPT ![c] = [t EXCEPT ![s] = new]]
                      /\ childStage' = IF Loops(result)
                                         THEN [childStage EXCEPT ![c] = "spinning"]
                                         ELSE childStage
  BY DEF Install
<1>3. /\ install'[c] = install[c] \ {s} /\ DOMAIN install' = Callers
      /\ \A d \in Callers \ {c} : install'[d] = install[d]
  BY <1>2 DEF ChildInv
<1>4. /\ \A d \in Callers \ {c} : child'[d] = child[d] /\ childStage'[d] = childStage[d]
      /\ childStage'[c] \in {"install", "spinning"}
      /\ DOMAIN child' = Callers
      /\ childStage' \in
           [Callers -> {"unborn", "install", "spinning", "exec", "failed", "gone"}]
  BY <1>1, <1>2 DEF ChildInv
<1>5. /\ DOMAIN child[c] = Fds /\ Handles(c) \subseteq Fds
      /\ \A u \in Installed(c) : u \in Handles(c) /\ childEnd[c][u] \in Fds
      /\ \A u \in Installed(c) :
           ~Overwritten(c, u) => child[c][Place(c, u)] = Wanted(c, u)
      /\ \A u \in KeptOpen(c) : child[c][u] = Wanted(c, u)
  BY <1>1, KindsApart DEF ChildInv, Arranged, Installed
<1>6. /\ DOMAIN child'[c] = Fds
      /\ \A fd \in Fds : fd = s \/ child'[c][fd] = child[c][fd]
      /\ childEnd[c][s] = NoHandle => child'[c] = child[c]
      /\ s \in Installed(c) /\ childEnd[c][s] # s =>
           child'[c][s] = child[c][childEnd[c][s]]
  <2>1. CASE childEnd[c][s] = NoHandle
    BY <1>2, <1>5, <2>1 DEF Installed
  <2>2. CASE childEnd[c][s] # NoHandle
    <3> DEFINE t == Closed(child[c], {s})
    <3>1. child'[c] = [t EXCEPT ![s] = t[childEnd[c][s]]]
      BY <1>2, <2>2 DEF ChildInv
    <3>2. DOMAIN t = Fds /\ \A fd \in Fds : fd # s => t[fd] = child[c][fd]
      BY DEF Closed
    <3> HIDE DEF t
    <3> QED
      BY <1>5, <2>2, <3>1, <3>2
  <2> QED
    BY <2>1, <2>2
<1>7. ASSUME NEW u \in Installed(c), ~Overwritten(c, u)
      PROVE  child'[c][Place(c, u)'] = Wanted(c, u)
  <2>1. u \in Handles(c) /\ u \in Fds /\ childEnd[c][u] # u /\ childEnd[c][u] \in Fds
    BY <1>5, <1>7, LimitAssumption DEF Overwritten, Fds
  <2>2. child[c][Place(c, u)] = Wanted(c, u)
    BY <1>5, <1>7
  <2>3. CASE u = s
    BY <1>2, <1>3, <1>6, <2>1, <2>2, <2>3 DEF Place
  <2>4. CASE u # s /\ u \notin install[c]
    BY <1>2, <1>3, <1>6, <2>1, <2>2, <2>4 DEF Place
  <2>5. CASE u # s /\ u \in install[c]
    <3>1. Place(c, u)' = childEnd[c][u] /\ Place(c, u) = childEnd[c][u]
      BY <1>1, <1>3, <2>5 DEF Place
    <3>2. s <= u
      BY <1>2, <2>5 DEF Lowest
    <3>3. s \in Installed(c) => childEnd[c][u] # s
      BY <1>7, <3>2 DEF Overwritten
    <3>4. s \notin Installed(c) => child'[c] = child[c]
      BY <1>1, <1>2, <1>6 DEF Installed, ChildInv
    <3> QED
      BY <1>6, <2>1, <2>2, <3>1, <3>3, <3>4
  <2> QED
    BY <2>3, <2>4, <2>5
<1>8. ASSUME NEW u \in KeptOpen(c) PROVE child'[c][u] = Wanted(c, u)
  <2>1. u \in Handles(c) /\ u \in Fds /\ childEnd[c][u] = NoHandle
    BY <1>5, <1>8 DEF KeptOpen, Installed
  <2> QED
    BY <1>5, <1>6, <1>8, <2>1
<1>9. ASSUME NEW d \in Callers
      PROVE  /\ Installed(d)' = Installed(d) /\ KeptOpen(d)' = KeptOpen(d)
             /\ \A u : Overwritten(d, u)' = Overwritten(d, u) /\ Wanted(d, u)' = Wanted(d, u)
             /\ d # c => \A u : Place(d, u)' = Place(d, u)
  BY <1>1, <1>3, SameEnds
<1> QED
  BY <1>1, <1>2, <1>3, <1>4, <1>6, <1>7, <1>8, <1>9 DEF ChildInv

LEMMA CloseOthersChild ==
  ASSUME ChildInv, NEW c \in Callers, CloseOthers(c)
  PROVE  ChildInv'
<1>1. /\ childStage[c] = "install" /\ install[c] = {} /\ UNCHANGED install
      /\ UNCHANGED <<stage, childEnd>>
  BY DEF CloseOthers, parentVars
<1>2. PICK S \in SUBSET Int :
        child' = [child EXCEPT ![c] = Closed(@, S \ Handles(c))]
  <2>1. PICK dir \in FreeFds(child[c]) :
          LET listed == (Fds \ FreeFds(child[c])) \cup {dir}
          IN  child' = [child EXCEPT ![c] =
                          Closed(@, {Reread(fd) : fd \in listed} \ Spared(c))]
    BY DEF CloseOthers
  <2>2. \A fd \in Fds : Reread(fd) \in Int
    BY LimitAssumption DEF Fds, Reread
  <2> QED
    BY <2>1, <2>2 DEF Spared, FreeFds
<1>3. /\ \A d \in Callers \ {c} : child'[d] = child[d] /\ childStage'[d] = childStage[d]
      /\ childStage'[c] = "exec" /\ DOMAIN child' = Callers
      /\ childStage' \in
           [Callers -> {"unborn", "install", "spinning", "exec", "failed", "gone"}]
  BY <1>2 DEF CloseOthers, ChildInv
<1>4. DOMAIN child'[c] = Fds /\ \A s \in Handles(c) : child'[c][s] = child[c][s]
  BY <1>2, KindsApart DEF Closed, ChildInv
<1>5. \A s \in Installed(c) : ~Overwritten(c, s) => child'[c][s] = Wanted(c, s)
  BY <1>1, <1>4 DEF ChildInv, Place, Installed
<1>6. \A s \in KeptOpen(c) : child'[c][s] = Wanted(c, s)
  BY <1>1, <1>4 DEF ChildInv, KeptOpen
<1>7. ASSUME NEW d \in Callers
      PROVE  /\ Installed(d)' = Installed(d) /\ KeptOpen(d)' = KeptOpen(d)
             /\ \A u : Overwritten(d, u)' = Overwritten(d, u) /\ Wanted(d, u)' = Wanted(d, u)
             /\ \A u : Place(d, u)' = Place(d, u)
  BY <1>1, SameEnds
<1> QED
  BY <1>1, <1>3, <1>4, <1>5, <1>6, <1>7 DEF ChildInv

LEMMA ReturnChild ==
  ASSUME ChildInv, Arranged, NEW c \in Callers, Return(c)
  PROVE  ChildInv'
<1>1. /\ UNCHANGED <<childEnd, install>>
      /\ stage'[c] = "returned" /\ \A d \in Callers \ {c} : stage'[d] = stage[d]
      /\ childStage'[c] = "gone"
      /\ \A d \in Callers \ {c} : childStage'[d] = childStage[d] /\ child'[d] = child[d]
      /\ DOMAIN child' = Callers /\ DOMAIN child'[c] = Fds
      /\ childStage' \in
           [Callers -> {"unborn", "install", "spinning", "exec", "failed", "gone"}]
  BY DEF Return, Arranged, ChildInv
<1>2. ASSUME NEW d \in Callers
      PROVE  /\ Installed(d)' = Installed(d) /\ KeptOpen(d)' = KeptOpen(d)
             /\ \A u : Overwritten(d, u)' = Overwritten(d, u) /\ Wanted(d, u)' = Wanted(d, u)
             /\ \A u : Place(d, u)' = Place(d, u)
  BY <1>1, SameEnds
<1> QED
  BY <1>1, <1>2 DEF ChildInv

(* The other steps of callers leave the children alone, and the ends of a  *)
(* child that was forked.                                                  *)
LEMMA CallerKeepsChildren ==
  ASSUME ChildInv, Arranged, Arranged', UNCHANGED childVars, NEW c \in Callers,
         \/ Prepare(c) \/ OpenFails(c) \/ ForkFails(c) \/ Release(c) \/ CloseEnd(c)
  PROVE  ChildInv'
<1>1. UNCHANGED <<child, childStage, install>>
  BY DEF childVars
<1>2. /\ \A d \in Callers \ {c} : childEnd'[d] = childEnd[d]
      /\ stage[c] # "prepare" => childEnd'[c] = childEnd[c]
  BY DEF Prepare, Open, OpenFails, ForkFails, Throw, Release, CloseEnd, Arranged
<1>3. /\ \A d \in Callers \ {c} : stage'[d] = stage[d]
      /\ stage[c] # "prepare" => stage'[c] \notin {"prepare", "thrown"}
  BY DEF Prepare, OpenFails, ForkFails, Throw, Release, CloseEnd, Arranged, ChildInv
<1>4. ASSUME NEW d \in Callers, childStage[d] # "unborn"
      PROVE  /\ stage'[d] \notin {"prepare", "thrown"}
             /\ Installed(d)' = Installed(d) /\ KeptOpen(d)' = KeptOpen(d)
             /\ \A u : Overwritten(d, u)' = Overwritten(d, u) /\ Wanted(d, u)' = Wanted(d, u)
             /\ \A u : Place(d, u)' = Place(d, u)
  <2>1. stage[d] \notin {"prepare", "thrown"}
    BY <1>4 DEF ChildInv
  <2>2. stage'[d] \notin {"prepare", "thrown"} /\ childEnd'[d] = childEnd[d]
    BY <1>2, <1>3, <2>1
  <2> QED
    BY <1>1, <2>2, SameEnds
<1> QED
  BY <1>1, <1>4 DEF ChildInv

LEMMA ChildStepInv ==
  Arranged /\ TableInv /\ ChildInv /\ Arranged' /\ [Next]_vars => ChildInv'
<1> SUFFICES ASSUME Arranged, TableInv, ChildInv, Arranged', [Next]_vars
             PROVE  ChildInv'
  OBVIOUS
<1>1. ASSUME UNCHANGED <<stage, childEnd, child, install>>,
             \A c \in Callers : childStage'[c] \in {childStage[c], "failed"},
             \A c \in Callers : childStage[c] = "unborn" => childStage'[c] = "unborn",
             childStage' \in
               [Callers -> {"unborn", "install", "spinning", "exec", "failed", "gone"}]
      PROVE  ChildInv'
  <2>1. ASSUME NEW d \in Callers
        PROVE  /\ Installed(d)' = Installed(d) /\ KeptOpen(d)' = KeptOpen(d)
               /\ \A u : Overwritten(d, u)' = Overwritten(d, u) /\ Wanted(d, u)' = Wanted(d, u)
               /\ \A u : Place(d, u)' = Place(d, u)
    BY <1>1, SameEnds
  <2> QED
    BY <1>1, <2>1 DEF ChildInv
<1>2. CASE UNCHANGED vars
  BY <1>1, <1>2 DEF vars, parentVars, childVars, ChildInv
<1>3. ASSUME NEW c \in Callers, CallerStep(c) PROVE ChildInv'
  <2>1. CASE Fork(c)
    BY <2>1, ForkChild
  <2>2. CASE Return(c)
    BY <2>2, ReturnChild
  <2>3. CASE Prepare(c) \/ OpenFails(c) \/ ForkFails(c) \/ Release(c) \/ CloseEnd(c)
    <3>1. UNCHANGED childVars
      BY <2>3 DEF Prepare, OpenFails, ForkFails, Throw, Release, CloseEnd, childVars
    <3> QED
      BY <2>3, <3>1, CallerKeepsChildren
  <2> QED
    BY <1>3, <2>1, <2>2, <2>3 DEF CallerStep
<1>4. ASSUME NEW c \in Callers, ChildStep(c) PROVE ChildInv'
  <2>1. CASE CloseOthersFails(c)
    BY <1>1, <2>1 DEF CloseOthersFails, parentVars, ChildInv
  <2> QED
    BY <1>4, <2>1, InstallChild, CloseOthersChild DEF ChildStep
<1> QED
  BY <1>2, <1>3, <1>4 DEF Next, Over

(* Whatever is asked for, in whatever order threads call execute(), and    *)
(* whatever is open beforehand: every program is executed with the streams *)
(* connected to what was asked for, but those whose end had the number of  *)
(* a handle that was installed before it, or its own (Process.cpp:231).    *)
THEOREM StreamsConnected == Spec => []Connected
<1>1. Init => Arranged /\ TableInv
  BY ProgramInit
<1>2. Init => ChildInv
  BY DEF Init, ChildInv
<1>3. Arranged /\ TableInv /\ ChildInv /\ [Next]_vars => (Arranged /\ TableInv /\ ChildInv)'
  BY ProgramStep, ChildStepInv
<1>4. ChildInv => Connected
  BY DEF ChildInv, Connected, KeptOpen
<1> QED
  BY <1>1, <1>2, <1>3, <1>4, PTL DEF Spec

-----------------------------------------------------------------------------
(* While every descriptor has one digit, its number is read correctly from *)
(* its name, so that a child has no descriptor but those it asked for.     *)
THEOREM OthersClosed ==
  ASSUME MaxFd <= 10
  PROVE  Spec => []NothingElseOpen
<1> DEFINE Inv == /\ NothingElseOpen
                  /\ DOMAIN child = Callers /\ DOMAIN childStage = Callers
<1>1. Init => Inv
  BY DEF Init, NothingElseOpen
<1>2. \A fd \in Fds : Reread(fd) = fd
  <2>1. ASSUME NEW fd \in 0 .. 9 PROVE Reread(fd) = fd
    BY DEF Reread
  <2> QED
    BY <2>1, LimitAssumption DEF Fds
<1>3. Inv /\ [Next]_vars => Inv'
  <2> SUFFICES ASSUME Inv, [Next]_vars PROVE Inv'
    OBVIOUS
  <2>1. CASE UNCHANGED vars
    BY <2>1 DEF vars, childVars, NothingElseOpen
  <2>2. ASSUME NEW c \in Callers, CallerStep(c) \/ Install(c) \/ CloseOthersFails(c)
        PROVE  Inv'
    <3>1. /\ DOMAIN childStage' = Callers /\ DOMAIN child' = Callers
          /\ \A d \in Callers \ {c} : childStage'[d] = childStage[d] /\ child'[d] = child[d]
      BY <2>2 DEF CallerStep, Prepare, OpenFails, ForkFails, Throw, Fork, Release, CloseEnd,
                  Return, Install, CloseOthersFails, childVars
    <3>2. childStage'[c] = "exec" => childStage[c] = "exec" /\ child'[c] = child[c]
      BY <2>2 DEF CallerStep, Prepare, OpenFails, ForkFails, Throw, Fork, Release, CloseEnd,
                  Return, Install, CloseOthersFails, childVars
    <3> QED
      BY <3>1, <3>2 DEF NothingElseOpen
  <2>3. ASSUME NEW c \in Callers, CloseOthers(c) PROVE Inv'
    <3>1. PICK dir \in FreeFds(child[c]) :
            LET listed == (Fds \ FreeFds(child[c])) \cup {dir}
            IN  child' = [child EXCEPT ![c] =
                            Closed(@, {Reread(fd) : fd \in listed} \ Spared(c))]
      BY <2>3 DEF CloseOthers
    <3> DEFINE listed == (Fds \ FreeFds(child[c])) \cup {dir}
               S == {Reread(fd) : fd \in listed} \ Handles(c)
    <3>2. child'[c] = Closed(child[c], S) /\ DOMAIN child' = Callers
          /\ \A d \in Callers \ {c} : child'[d] = child[d]
      BY <3>1 DEF Spared
    <3>3. DOMAIN childStage' = Callers /\ \A d \in Callers \ {c} : childStage'[d] = childStage[d]
      BY <2>3 DEF CloseOthers
    <3>4. ASSUME NEW fd \in Fds \ Handles(c) PROVE child'[c][fd] = Free
      <4>1. CASE fd \in FreeFds(child[c])
        BY <3>2, <4>1 DEF FreeFds, Closed
      <4>2. CASE fd \notin FreeFds(child[c])
        <5>1. fd \in listed /\ Reread(fd) = fd
          BY <1>2, <4>2
        <5>2. fd \in S
          BY <5>1
        <5> QED
          BY <3>2, <5>2 DEF Closed
      <4> QED
        BY <4>1, <4>2
    <3> QED
      BY <3>2, <3>3, <3>4 DEF NothingElseOpen
  <2> QED
    BY <2>1, <2>2, <2>3 DEF Next, Over, ChildStep
<1> QED
  BY <1>1, <1>3, PTL DEF Spec
=============================================================================
