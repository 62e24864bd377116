-------------------------- MODULE OwnershipProofs ---------------------------
(***************************************************************************)
(* Proofs about Ownership, for any number of objects and anything they may *)
(* be made of.                                                             *)
(***************************************************************************)
EXTENDS Ownership, ArgumentsProofs

(* What the variables look like; an object that does not exist has nothing.*)
Shape ==
  /\ given.words \in Texts
  /\ alive \subseteq Owners
  /\ object = [o \in Owners |-> object[o]]
  /\ \A o \in Owners : object[o].count \in Nat /\ object[o].array \in Blocks \cup {Null}
  /\ \A o \in Owners \ alive : object[o] = Nothing
  /\ heap = [b \in DOMAIN heap |-> heap[b]] /\ DOMAIN heap \subseteq Blocks
  /\ \A b \in DOMAIN heap : heap[b] \in Texts

Inv == Shape /\ Owned

LEMMA ClassesDiffer == Strings \cap Environments = {}
  BY OwnersAssumption DEF Strings, Environments, Member, EnvMember

LEMMA NoBlockIsNull == Null \notin Blocks
  BY DEF Null, Blocks

(* Owned, object by object, of any objects and heap.                       *)
OwnedBy(al, ob, hp) ==
  /\ \A o, p \in al : ob[o].array = ob[p].array /\ ob[o].array # Null => o = p
  /\ \A o \in al : ob[o].array # Null => ob[o].array \in DOMAIN hp
  /\ \A b \in DOMAIN hp : \E o \in al : ob[o].array = b
  /\ \A o \in al : ob[o].array # Null => ob[o].count = Len(hp[ob[o].array])
  /\ \A o \in al : ob[o].array = Null => ob[o].count = 0
  /\ \A o \in al \cap Strings : ob[o].array # Null => ob[o].count > 0

LEMMA OwnedMeans ==
  ASSUME NEW al, NEW ob, NEW hp, Null \notin DOMAIN hp
  PROVE  LET holders == {o \in al : ob[o].array # Null}
         IN  OwnedBy(al, ob, hp) <=>
               /\ \A o, p \in holders : ob[o].array = ob[p].array => o = p
               /\ {ob[o].array : o \in holders} = DOMAIN hp
               /\ \A o \in holders : ob[o].count = Len(hp[ob[o].array])
               /\ \A o \in al \ holders : ob[o].count = 0
               /\ \A o \in holders \cap Strings : ob[o].count > 0
<1> DEFINE holders == {o \in al : ob[o].array # Null}
<1>1. ASSUME OwnedBy(al, ob, hp)
      PROVE  {ob[o].array : o \in holders} = DOMAIN hp
  <2>1. \A o \in holders : ob[o].array \in DOMAIN hp
    BY <1>1 DEF OwnedBy
  <2>2. \A b \in DOMAIN hp : \E o \in holders : ob[o].array = b
    BY <1>1 DEF OwnedBy
  <2> QED
    BY <2>1, <2>2
<1>2. ASSUME {ob[o].array : o \in holders} = DOMAIN hp
      PROVE  /\ \A o \in al : ob[o].array # Null => ob[o].array \in DOMAIN hp
             /\ \A b \in DOMAIN hp : \E o \in al : ob[o].array = b
  BY <1>2
<1> QED
  BY <1>1, <1>2 DEF OwnedBy

LEMMA OwnedNow == Shape => (Owned <=> OwnedBy(alive, object, heap))
<1>1. Shape => Null \notin DOMAIN heap
  BY NoBlockIsNull DEF Shape
<1> QED
  BY <1>1, OwnedMeans DEF Owned, Holders

LEMMA OwnedNext == Shape' => (Owned' <=> OwnedBy(alive', object', heap'))
<1>1. Shape' => Null \notin DOMAIN heap'
  BY NoBlockIsNull DEF Shape, Blocks, Owners, Strings, Environments, Null
<1> QED
  BY <1>1, OwnedMeans DEF Owned, Holders

LEMMA InvMeans == Inv => OwnedBy(alive, object, heap)
  BY OwnedNow DEF Inv

(* An object that does not exist has no array to delete.                   *)
LEMMA DeletedOfNothing ==
  ASSUME Shape, NEW o \in Owners \ alive
  PROVE  Deleted({o}) = heap
<1>1. object[o].array = Null
  BY DEF Shape, Nothing
<1>2. DOMAIN heap \ {object[p].array : p \in {o}} = DOMAIN heap
  BY <1>1, NoBlockIsNull DEF Shape
<1> QED
  BY <1>2 DEF Deleted, Shape

(* What is left on the heap without the arrays of some objects.            *)
LEMMA DeletedHeap ==
  ASSUME NEW S
  PROVE  /\ DOMAIN Deleted(S) = DOMAIN heap \ {object[p].array : p \in S}
         /\ \A b \in DOMAIN Deleted(S) : Deleted(S)[b] = heap[b]
         /\ Deleted(S) = [b \in DOMAIN Deleted(S) |-> Deleted(S)[b]]
  BY DEF Deleted

LEMMA WordsOfType ==
  ASSUME Inv, NEW o \in alive
  PROVE  WordsOf(o) \in Texts
<1>1. CASE object[o].count = 0
  BY <1>1 DEF WordsOf, Texts
<1>2. CASE object[o].count # 0
  <2>1. o \in Holders
    BY <1>2 DEF Inv, Owned
  <2>2. object[o].array \in DOMAIN heap
    BY <2>1 DEF Inv, Owned
  <2> QED
    BY <1>2, <2>2 DEF WordsOf, Inv, Shape
<1> QED
  BY <1>1, <1>2

-----------------------------------------------------------------------------
(* The three ways in which an object comes to its contents.                *)

LEMMA AllocateKeeps ==
  ASSUME Inv, NEW o \in Owners, NEW args, NEW words \in Texts,
         o \in Strings => words # <<>>,
         Allocate(o, args, words, Deleted({o})),
         alive' = alive \cup {o}, UNCHANGED given
  PROVE  Inv'
<1> DEFINE h == Deleted({o})
           new == [args |-> args, count |-> Len(words), array |-> object'[o].array]
<1>1. PICK b \in Fresh(h) :
        /\ object' = [object EXCEPT ![o] = [args |-> args, count |-> Len(words), array |-> b]]
        /\ heap' = With(h, b, words)
  BY DEF Allocate
<1>2. b \in Blocks /\ b \notin DOMAIN h
  BY <1>1 DEF Fresh
<1>3. /\ object' = [p \in Owners |-> object'[p]]
      /\ \A p \in Owners \ {o} : object'[p] = object[p]
      /\ object'[o].count = Len(words) /\ object'[o].array = b
  BY <1>1 DEF Inv, Shape
<1>4. DOMAIN heap' = DOMAIN h \cup {b} /\ heap' = [c \in DOMAIN heap' |-> heap'[c]]
  BY <1>1 DEF With
<1>5. heap'[b] = words /\ \A c \in DOMAIN h : heap'[c] = heap[c]
  BY <1>1, <1>2, DeletedHeap DEF With
<1>6. DOMAIN h = DOMAIN heap \ {object[o].array}
  BY DEF Deleted
<1>7. Len(words) \in Nat /\ (words # <<>> => Len(words) > 0)
  BY DEF Texts
<1>8. Shape'
  BY <1>2, <1>3, <1>4, <1>5, <1>6, <1>7 DEF Inv, Shape
<1>9. \A p \in alive \ {o} :
        /\ object'[p] = object[p]
        /\ object[p].array # Null => object[p].array \in DOMAIN h
  <2>1. o \in alive \/ object[o].array = Null
    BY DEF Inv, Shape, Nothing
  <2>2. \A p \in alive \ {o} :
          object[p].array # Null => object[p].array \in DOMAIN heap \ {object[o].array}
    BY <2>1, InvMeans DEF OwnedBy
  <2> QED
    BY <1>3, <1>6, <2>2 DEF Inv, Shape
<1>10. \A c \in DOMAIN h : \E p \in alive \ {o} : object[p].array = c
  BY <1>6, InvMeans DEF OwnedBy
<1> HIDE DEF h
<1>11. \A p, q \in alive' : object'[p].array = object'[q].array /\ object'[p].array # Null => p = q
  BY <1>2, <1>3, <1>9, InvMeans DEF OwnedBy
<1>12. /\ \A p \in alive' : object'[p].array # Null => object'[p].array \in DOMAIN heap'
       /\ \A c \in DOMAIN heap' : \E p \in alive' : object'[p].array = c
  BY <1>3, <1>4, <1>9, <1>10
<1>13. /\ \A p \in alive' : object'[p].array # Null => object'[p].count = Len(heap'[object'[p].array])
       /\ \A p \in alive' : object'[p].array = Null => object'[p].count = 0
       /\ \A p \in alive' \cap Strings : object'[p].array # Null => object'[p].count > 0
  BY <1>2, <1>3, <1>5, <1>7, <1>9, InvMeans, NoBlockIsNull DEF OwnedBy
<1> QED
  BY <1>8, <1>11, <1>12, <1>13, OwnedNext DEF Inv, OwnedBy

LEMMA NothingKeeps ==
  ASSUME Inv, NEW o \in Owners, NEW args,
         object' = [object EXCEPT ![o] = [Nothing EXCEPT !.args = args]],
         heap' = Deleted({o}),
         alive' = alive \cup {o}, UNCHANGED given
  PROVE  Inv'
<1>1. /\ object' = [p \in Owners |-> object'[p]]
      /\ \A p \in Owners \ {o} : object'[p] = object[p]
      /\ object'[o].count = 0 /\ object'[o].array = Null
  BY DEF Inv, Shape, Nothing
<1>2. /\ DOMAIN heap' = DOMAIN heap \ {object[o].array}
      /\ heap' = [b \in DOMAIN heap' |-> heap'[b]]
      /\ \A b \in DOMAIN heap' : heap'[b] = heap[b]
  BY DEF Deleted
<1>3. alive' \subseteq Owners /\ \A p \in Owners \ alive' : object'[p] = Nothing
  BY <1>1 DEF Inv, Shape
<1>4. \A p \in Owners : object'[p].count \in Nat /\ object'[p].array \in Blocks \cup {Null}
  <2>1. \A p \in Owners \ {o} : object'[p].count \in Nat /\ object'[p].array \in Blocks \cup {Null}
    BY <1>1 DEF Inv, Shape
  <2> QED
    BY <1>1, <2>1
<1>5. Shape'
  BY <1>1, <1>2, <1>3, <1>4 DEF Inv, Shape
<1>6. o \in alive \/ object[o].array = Null
  BY DEF Inv, Shape, Nothing
<1>7. \A p \in alive' : object'[p].array # Null => object'[p].array \in DOMAIN heap'
  BY <1>1, <1>2, <1>3, <1>6, InvMeans DEF OwnedBy
<1>8. \A b \in DOMAIN heap' : \E p \in alive' : object'[p].array = b
  <2> SUFFICES ASSUME NEW b \in DOMAIN heap'
               PROVE  \E p \in alive' : object'[p].array = b
    OBVIOUS
  <2>1. PICK p \in alive : object[p].array = b
    BY <1>2, InvMeans DEF OwnedBy
  <2> QED
    BY <1>1, <1>2, <2>1 DEF Inv, Shape
<1>9. \A p \in alive' : p = o \/ (p \in alive /\ object'[p] = object[p])
  BY <1>1, <1>3
<1>10. \A p \in alive' : object'[p].array # Null => object'[p].count = Len(heap'[object'[p].array])
  <2> SUFFICES ASSUME NEW p \in alive', object'[p].array # Null
               PROVE  object'[p].count = Len(heap'[object'[p].array])
    OBVIOUS
  <2>1. p \in alive /\ object'[p] = object[p]
    BY <1>1, <1>9
  <2>2. heap'[object'[p].array] = heap[object[p].array]
    BY <1>2, <1>7, <2>1
  <2>3. object[p].count = Len(heap[object[p].array])
    BY <2>1, InvMeans DEF OwnedBy
  <2> QED
    BY <2>1, <2>2, <2>3
<1>11. /\ \A p, q \in alive' : object'[p].array = object'[q].array /\ object'[p].array # Null => p = q
       /\ \A p \in alive' : object'[p].array = Null => object'[p].count = 0
       /\ \A p \in alive' \cap Strings : object'[p].array # Null => object'[p].count > 0
  BY <1>1, <1>9, InvMeans DEF OwnedBy
<1> QED
  BY <1>5, <1>7, <1>8, <1>10, <1>11, OwnedNext DEF Inv, OwnedBy

LEMMA StoreKeeps ==
  ASSUME Inv, NEW o \in Owners, NEW args, NEW words \in Texts,
         Store(o, args, words, Deleted({o})),
         alive' = alive \cup {o}, UNCHANGED given
  PROVE  Inv'
<1>1. CASE words = <<>>
  BY <1>1, NothingKeeps DEF Store
<1>2. CASE words # <<>>
  BY <1>2, AllocateKeeps DEF Store
<1> QED
  BY <1>1, <1>2

(* o takes over what p had; p may stay, with nothing, or go.               *)
LEMMA MoveKeeps ==
  ASSUME Inv, NEW o \in Owners, NEW p \in alive, o # p, SameClass(o, p),
         Move(o, p, Deleted({o})),
         alive' = alive \cup {o} \/ alive' = (alive \ {p}) \cup {o}, UNCHANGED given
  PROVE  Inv'
<1>1. p \in Owners
  BY DEF Inv, Shape
<1>2. /\ object' = [q \in Owners |-> object'[q]]
      /\ \A q \in Owners \ {o, p} : object'[q] = object[q]
      /\ object'[o] = object[p] /\ object'[p] = Nothing
  BY <1>1 DEF Inv, Shape, Move
<1>3. /\ DOMAIN heap' = DOMAIN heap \ {object[o].array}
      /\ heap' = [b \in DOMAIN heap' |-> heap'[b]]
      /\ \A b \in DOMAIN heap' : heap'[b] = heap[b]
  BY DEF Deleted, Move
<1>4. Shape'
  BY <1>1, <1>2, <1>3, SMTT(30) DEF Inv, Shape, Nothing
<1>5. o \in alive \/ object[o].array = Null
  BY DEF Inv, Shape, Nothing
<1>6. alive' \subseteq Owners
  BY <1>1 DEF Inv, Shape
<1>7. o \in Strings => p \in Strings
  BY ClassesDiffer DEF SameClass
<1>8. object'[p].array = Null /\ object'[p].count = 0
  BY <1>2 DEF Nothing
<1>9. \A q, r \in alive' : object'[q].array = object'[r].array /\ object'[q].array # Null => q = r
  BY <1>2, <1>5, <1>6, <1>8, InvMeans DEF OwnedBy
<1>10. \A q \in alive' : object'[q].array # Null => object'[q].array \in DOMAIN heap'
  BY <1>2, <1>3, <1>5, <1>6, <1>8, InvMeans DEF OwnedBy
<1>11. \A b \in DOMAIN heap' : \E q \in alive' : object'[q].array = b
  <2> SUFFICES ASSUME NEW b \in DOMAIN heap'
               PROVE  \E q \in alive' : object'[q].array = b
    OBVIOUS
  <2>1. PICK q \in alive : object[q].array = b
    BY <1>3, InvMeans DEF OwnedBy
  <2>2. q # o
    BY <1>3, <2>1
  <2>3. CASE q = p
    BY <1>2, <2>1, <2>3
  <2>4. CASE q # p
    BY <1>2, <2>1, <2>2, <2>4 DEF Inv, Shape
  <2> QED
    BY <2>3, <2>4
<1>12. /\ \A q \in alive' : object'[q].array # Null => object'[q].count = Len(heap'[object'[q].array])
       /\ \A q \in alive' : object'[q].array = Null => object'[q].count = 0
       /\ \A q \in alive' \cap Strings : object'[q].array # Null => object'[q].count > 0
  BY <1>2, <1>3, <1>6, <1>7, <1>8, <1>10, InvMeans DEF OwnedBy
<1> QED
  BY <1>4, <1>9, <1>10, <1>11, <1>12, OwnedNext DEF Inv, OwnedBy

LEMMA DestroyKeeps ==
  ASSUME Inv, NEW S \in SUBSET Owners,
         alive' = alive \ S, heap' = Deleted(S), UNCHANGED given,
         object' = [q \in Owners |-> IF q \in S THEN Nothing ELSE object[q]]
  PROVE  Inv'
<1>1. /\ DOMAIN heap' = DOMAIN heap \ {object[q].array : q \in S}
      /\ heap' = [b \in DOMAIN heap' |-> heap'[b]]
      /\ \A b \in DOMAIN heap' : heap'[b] = heap[b]
  BY DEF Deleted
<1>2. Shape'
  BY <1>1 DEF Inv, Shape, Nothing
<1>3. \A q \in alive' : object'[q] = object[q] /\ q \in alive /\ q \notin S
  BY DEF Inv, Shape
<1>4. \A q \in S : q \in alive \/ object[q].array = Null
  BY DEF Inv, Shape, Nothing
<1>5. \A q \in alive' : object'[q].array # Null => object'[q].array \in DOMAIN heap'
  BY <1>1, <1>3, <1>4, InvMeans DEF OwnedBy
<1>6. \A b \in DOMAIN heap' : \E q \in alive' : object'[q].array = b
  <2> SUFFICES ASSUME NEW b \in DOMAIN heap'
               PROVE  \E q \in alive' : object'[q].array = b
    OBVIOUS
  <2>1. PICK q \in alive : object[q].array = b
    BY <1>1, InvMeans DEF OwnedBy
  <2> QED
    BY <1>1, <1>3, <2>1
<1>7. /\ \A q, r \in alive' : object'[q].array = object'[r].array /\ object'[q].array # Null => q = r
      /\ \A q \in alive' : object'[q].array = Null => object'[q].count = 0
      /\ \A q \in alive' \cap Strings : object'[q].array # Null => object'[q].count > 0
  BY <1>3, InvMeans DEF OwnedBy
<1>8. \A q \in alive' : object'[q].array # Null => object'[q].count = Len(heap'[object'[q].array])
  <2> SUFFICES ASSUME NEW q \in alive', object'[q].array # Null
               PROVE  object'[q].count = Len(heap'[object'[q].array])
    OBVIOUS
  <2>1. heap'[object'[q].array] = heap[object[q].array]
    BY <1>1, <1>3, <1>5
  <2>2. object[q].count = Len(heap[object[q].array])
    BY <1>3, InvMeans DEF OwnedBy
  <2> QED
    BY <1>3, <2>1, <2>2
<1> QED
  BY <1>2, <1>5, <1>6, <1>7, <1>8, OwnedNext DEF Inv, OwnedBy

-----------------------------------------------------------------------------
LEMMA InvInit == Init => Inv
<1> SUFFICES ASSUME Init PROVE Inv
  OBVIOUS
<1>1. given.words \in Texts
  BY TextsAssumption, SplitType DEF Init, FromLine, FromArray, Texts
<1>2. DOMAIN heap = {} /\ heap = [b \in DOMAIN heap |-> heap[b]]
  BY DEF Init
<1>3. Shape
  BY <1>1, <1>2 DEF Init, Shape, Nothing
<1> QED
  BY <1>2, <1>3, OwnedNow DEF Init, Inv, OwnedBy

LEMMA InvStep == Inv /\ ObjectStep => Inv'
<1> SUFFICES ASSUME Inv, ObjectStep PROVE Inv'
  OBVIOUS
<1>0. alive \subseteq Owners /\ Locals \subseteq Strings /\ EnvLocals \subseteq Environments
      /\ Strings \subseteq Owners /\ Environments \subseteq Owners /\ given.words \in Texts
      /\ EnvMember \in Environments /\ Member \in Strings
  BY DEF Inv, Shape, Strings, Environments, Owners
<1>1. ASSUME NEW o \in Locals, Construct(o) PROVE Inv'
  BY <1>0, <1>1, DeletedOfNothing, StoreKeeps DEF Construct, Inv
<1>2. ASSUME NEW e \in EnvLocals, ConstructEnvironment(e) PROVE Inv'
  <2>1. PICK values \in Values : Allocate(e, <<>>, values, heap)
    BY <1>2 DEF ConstructEnvironment
  <2>2. Deleted({e}) = heap /\ e \notin Strings
    BY <1>0, <1>2, DeletedOfNothing, ClassesDiffer DEF ConstructEnvironment, Inv
  <2> QED
    BY <1>0, <1>2, <2>1, <2>2, AllocateKeeps, TextsAssumption DEF ConstructEnvironment
<1>3. ASSUME NEW e \in EnvLocals, SetEnvironment(e) PROVE Inv'
  <2>1. EnvMember # e
    BY OwnersAssumption
  <2> QED
    BY <1>0, <1>3, <2>1, MoveKeeps DEF SetEnvironment, SameClass
<1>4. ASSUME NEW o \in Strings, NEW p \in Strings, CopyConstruct(o, p) PROVE Inv'
  BY <1>0, <1>4, DeletedOfNothing, StoreKeeps, WordsOfType DEF CopyConstruct, Inv
<1>5. ASSUME NEW o \in Strings, NEW p \in Strings, CopyAssign(o, p) PROVE Inv'
  <2>1. alive' = alive \cup {o}
    BY <1>5 DEF CopyAssign
  <2> QED
    BY <1>0, <1>5, <2>1, StoreKeeps, WordsOfType DEF CopyAssign
<1>6. ASSUME NEW o \in Owners, NEW p \in Owners, MoveConstruct(o, p) PROVE Inv'
  <2>1. Deleted({o}) = heap
    BY <1>0, <1>6, DeletedOfNothing DEF MoveConstruct, Inv
  <2> QED
    BY <1>6, <2>1, MoveKeeps DEF MoveConstruct
<1>7. ASSUME NEW o \in Owners, NEW p \in Owners, MoveAssign(o, p) PROVE Inv'
  <2>1. alive' = alive \cup {o}
    BY <1>7 DEF MoveAssign
  <2> QED
    BY <1>7, <2>1, MoveKeeps DEF MoveAssign
<1>8. ASSUME NEW o \in Owners, Destroy(o) PROVE Inv'
  <2>1. object' = [q \in Owners |-> IF q \in {o} THEN Nothing ELSE object[q]]
    BY <1>8 DEF Destroy, Inv, Shape
  <2> QED
    BY <1>8, <2>1, DestroyKeeps DEF Destroy
<1>9. ASSUME DestroyProcess PROVE Inv'
  <2>1. object' = [q \in Owners |-> IF q \in {Member, EnvMember} THEN Nothing ELSE object[q]]
    BY <1>9 DEF DestroyProcess, Inv, Shape
  <2>2. {Member, EnvMember} \in SUBSET Owners
    BY <1>0
  <2> QED
    BY <1>9, <2>1, <2>2, DestroyKeeps DEF DestroyProcess
<1> QED
  BY <1>1, <1>2, <1>3, <1>4, <1>5, <1>6, <1>7, <1>8, <1>9 DEF ObjectStep

LEMMA InvStutter == Inv /\ UNCHANGED vars => Inv'
<1> SUFFICES ASSUME Inv, UNCHANGED vars PROVE Inv'
  OBVIOUS
<1>1. Shape'
  BY DEF vars, Inv, Shape
<1>2. OwnedBy(alive', object', heap')
  BY InvMeans DEF vars
<1> QED
  BY <1>1, <1>2, OwnedNext DEF Inv

(* Whatever a program does with its objects, an array of strings is owned  *)
(* by one of them, from the "new" to the one "delete" that it gets.        *)
THEOREM ArraysOwned == ObjectSpec => []Owned
<1>1. Inv /\ [ObjectStep]_vars => Inv'
  BY InvStep, InvStutter
<1>2. Inv => Owned
  BY DEF Inv
<1> QED
  BY InvInit, <1>1, <1>2, PTL DEF ObjectSpec

-----------------------------------------------------------------------------
(* The types of what the objects are made of and have.                     *)
Typed == given.args \in Seq(Characters) /\ object \in [Owners -> Objects]

LEMMA TypedInit == Init => Typed
<1> SUFFICES ASSUME Init PROVE Typed
  OBVIOUS
<1>1. given.args \in Seq(Characters)
  BY TextsAssumption, JoinedType DEF Init, FromLine, FromArray, Texts
<1>2. Nothing \in Objects
  BY DEF Nothing, Objects
<1> QED
  BY <1>1, <1>2 DEF Init, Typed

LEMMA StoreTyped ==
  ASSUME Typed, NEW o \in Owners, NEW args \in Seq(Characters), NEW words \in Texts, NEW h,
         Store(o, args, words, h) \/ Allocate(o, args, words, h)
  PROVE  object' \in [Owners -> Objects]
<1>1. ASSUME NEW b \in Blocks,
             object' = [object EXCEPT ![o] = [args |-> args, count |-> Len(words), array |-> b]]
      PROVE  object' \in [Owners -> Objects]
  <2>1. [args |-> args, count |-> Len(words), array |-> b] \in Objects
    BY DEF Texts, Objects
  <2> QED
    BY <1>1, <2>1 DEF Typed
<1>2. CASE object' = [object EXCEPT ![o] = [Nothing EXCEPT !.args = args]]
  <2>1. [Nothing EXCEPT !.args = args] \in Objects
    BY DEF Nothing, Objects
  <2> QED
    BY <1>2, <2>1 DEF Typed
<1> QED
  BY <1>1, <1>2 DEF Store, Allocate, Fresh

LEMMA TypedStep == Inv /\ Typed /\ ObjectStep => Typed'
<1> SUFFICES ASSUME Inv, Typed, ObjectStep PROVE Typed'
  OBVIOUS
<1>1. /\ alive \subseteq Owners /\ Strings \subseteq Owners /\ Environments \subseteq Owners
      /\ given.words \in Texts /\ Locals \subseteq Strings /\ EnvLocals \subseteq Environments
      /\ EnvMember \in Owners /\ <<>> \in Seq(Characters) /\ Nothing \in Objects
      /\ \A o \in Owners : object[o] \in Objects /\ object[o].args \in Seq(Characters)
  BY DEF Inv, Shape, Typed, Strings, Environments, Owners, Nothing, Objects
<1>2. given' = given
  BY DEF ObjectStep, Construct, ConstructEnvironment, CopyConstruct, MoveConstruct, CopyAssign,
         MoveAssign, Destroy, SetEnvironment, DestroyProcess
<1>3. ASSUME NEW o \in Owners, NEW p \in Owners, NEW h, Move(o, p, h) PROVE Typed'
  BY <1>1, <1>2, <1>3 DEF Move, Typed
<1>4. ASSUME NEW o \in Locals, Construct(o) PROVE Typed'
  BY <1>1, <1>2, <1>4, StoreTyped DEF Construct, Typed
<1>5. ASSUME NEW e \in EnvLocals, ConstructEnvironment(e) PROVE Typed'
  BY <1>1, <1>2, <1>5, StoreTyped, TextsAssumption DEF ConstructEnvironment, Typed
<1>6. ASSUME NEW o \in Strings, NEW p \in Strings, CopyConstruct(o, p) \/ CopyAssign(o, p)
      PROVE  Typed'
  <2>1. p \in alive
    BY <1>6 DEF CopyConstruct, CopyAssign
  <2> QED
    BY <1>1, <1>2, <1>6, <2>1, StoreTyped, WordsOfType DEF CopyConstruct, CopyAssign, Typed
<1>7. ASSUME NEW o \in Owners, Destroy(o) PROVE Typed'
  BY <1>1, <1>2, <1>7 DEF Destroy, Typed
<1>8. CASE DestroyProcess
  BY <1>1, <1>2, <1>8 DEF DestroyProcess, Typed
<1> QED
  BY <1>1, <1>3, <1>4, <1>5, <1>6, <1>7, <1>8
  DEF ObjectStep, SetEnvironment, MoveConstruct, MoveAssign

(* For every line, the copying pass writes as many characters as the       *)
(* sizing pass has allocated.                                              *)
THEOREM PassesFit == ObjectSpec => []CopyFits
<1>1. Inv /\ Typed /\ [ObjectStep]_vars => (Inv /\ Typed)'
  <2>1. Typed /\ UNCHANGED vars => Typed'
    BY DEF Typed, vars
  <2> QED
    BY <2>1, InvStep, InvStutter, TypedStep
<1>2. Typed => CopyFits
  BY PassesAgree DEF Typed, CopyFits
<1> QED
  BY InvInit, TypedInit, <1>1, <1>2, PTL DEF ObjectSpec

-----------------------------------------------------------------------------
(* What an object says: a line, and the words it has in its array.  For as *)
(* long as a program runs, it is what was given to the constructors, or    *)
(* nothing.                                                                *)
Said(o) == <<object[o].args, WordsOf(o)>>
Meant == <<given.args, given.words>>
NothingSaid == << <<>>, <<>> >>

Faithful ==
  /\ given.array \in BOOLEAN
  /\ IF given.array THEN given.args = Joined(given.words) ELSE given.words = Split(given.args)
  /\ \A o \in Strings \cap alive : Said(o) \in {Meant, NothingSaid}

(* No array is deleted but those of the objects it is done for.            *)
LEMMA Survives ==
  ASSUME Inv, NEW S \in SUBSET Owners, NEW q \in alive \ S, object[q].count # 0
  PROVE  /\ object[q].array \in DOMAIN Deleted(S)
         /\ Deleted(S)[object[q].array] = heap[object[q].array]
<1>1. object[q].array # Null /\ object[q].array \in DOMAIN heap
  BY InvMeans DEF OwnedBy
<1>2. ASSUME NEW p \in S PROVE object[p].array # object[q].array
  <2>1. p \in alive \/ object[p].array = Null
    BY <1>2 DEF Inv, Shape, Nothing
  <2> QED
    BY <1>1, <1>2, <2>1, InvMeans DEF OwnedBy
<1> QED
  BY <1>1, <1>2 DEF Deleted

LEMMA StoreSays ==
  ASSUME Inv, NEW o \in Owners, NEW args, NEW words \in Texts,
         \/ Store(o, args, words, Deleted({o}))
         \/ Allocate(o, args, words, Deleted({o}))
  PROVE  Said(o)' = <<args, words>> /\ \A q \in alive \ {o} : Said(q)' = Said(q)
<1> DEFINE h == Deleted({o})
<1>1. alive \subseteq Owners /\ Len(words) \in Nat /\ (Len(words) = 0 => words = <<>>)
  BY DEF Inv, Shape, Texts
<1>2. \A q \in alive \ {o} : object[q].count # 0 =>
        object[q].array \in DOMAIN h /\ h[object[q].array] = heap[object[q].array]
  BY Survives
<1> HIDE DEF h
<1>3. CASE words = <<>> /\ heap' = h
           /\ object' = [object EXCEPT ![o] = [Nothing EXCEPT !.args = args]]
  <2>1. object'[o].args = args /\ object'[o].count = 0
    BY <1>3 DEF Inv, Shape, Nothing
  <2>2. \A q \in alive \ {o} : object'[q] = object[q]
    BY <1>1, <1>3 DEF Inv, Shape
  <2> QED
    BY <1>2, <1>3, <2>1, <2>2 DEF Said, WordsOf
<1>4. CASE Allocate(o, args, words, h)
  <2>1. PICK b \in Fresh(h) :
          /\ object' = [object EXCEPT ![o] = [args |-> args, count |-> Len(words), array |-> b]]
          /\ heap' = With(h, b, words)
    BY <1>4 DEF Allocate
  <2>2. b \notin DOMAIN h
    BY DEF Fresh
  <2>3. heap'[b] = words /\ \A c \in DOMAIN h : heap'[c] = h[c]
    BY <2>1, <2>2 DEF With
  <2>4. object'[o].args = args /\ object'[o].count = Len(words) /\ object'[o].array = b
    BY <2>1 DEF Inv, Shape
  <2>5. \A q \in alive \ {o} : object'[q] = object[q]
    BY <1>1, <2>1 DEF Inv, Shape
  <2>6. Said(o)' = <<args, words>>
    BY <1>1, <2>3, <2>4 DEF Said, WordsOf
  <2>7. \A q \in alive \ {o} : Said(q)' = Said(q)
    BY <1>2, <2>3, <2>5 DEF Said, WordsOf
  <2> QED
    BY <2>6, <2>7
<1> QED
  BY <1>3, <1>4 DEF Store, h

LEMMA MoveSays ==
  ASSUME Inv, NEW o \in Owners, NEW p \in alive, o # p, Move(o, p, Deleted({o}))
  PROVE  /\ Said(o)' = Said(p) /\ Said(p)' = NothingSaid
         /\ \A q \in alive \ {o, p} : Said(q)' = Said(q)
<1> DEFINE h == Deleted({o})
<1>1. alive \subseteq Owners
  BY DEF Inv, Shape
<1>2. \A q \in alive \ {o} : object[q].count # 0 => h[object[q].array] = heap[object[q].array]
  BY Survives
<1>3. /\ object'[o] = object[p] /\ object'[p] = Nothing /\ heap' = h
      /\ \A q \in alive \ {o, p} : object'[q] = object[q]
  BY <1>1 DEF Inv, Shape, Move
<1> HIDE DEF h
<1> QED
  BY <1>2, <1>3 DEF Said, WordsOf, NothingSaid, Nothing

LEMMA DestroySays ==
  ASSUME Inv, NEW S \in SUBSET Owners, heap' = Deleted(S),
         \A q \in alive \ S : object'[q] = object[q]
  PROVE  \A q \in alive \ S : Said(q)' = Said(q)
<1>1. \A q \in alive \ S : object[q].count # 0 =>
        Deleted(S)[object[q].array] = heap[object[q].array]
  BY Survives
<1> QED
  BY <1>1 DEF Said, WordsOf

LEMMA FaithfulInit == Init => Faithful
<1> SUFFICES ASSUME Init PROVE Faithful
  OBVIOUS
<1>1. CASE \E line \in Lines : given = FromLine(line)
  BY <1>1 DEF Init, FromLine, Faithful
<1>2. CASE \E words \in Arrays : given = FromArray(words)
  BY <1>2 DEF Init, FromArray, Faithful
<1> QED
  BY <1>1, <1>2 DEF Init

LEMMA FaithfulStep == Inv /\ Faithful /\ ObjectStep => Faithful'
<1> SUFFICES ASSUME Inv, Faithful, ObjectStep PROVE Faithful'
  OBVIOUS
<1>1. /\ alive \subseteq Owners /\ Strings \subseteq Owners /\ Environments \subseteq Owners
      /\ given.words \in Texts /\ Locals \subseteq Strings /\ EnvLocals \subseteq Environments
      /\ EnvMember \in Environments /\ Member \in Strings
      /\ \A q : ~ (q \in Strings /\ q \in Environments)
  BY ClassesDiffer DEF Inv, Shape, Strings, Environments, Owners
<1>2. given' = given
  BY DEF ObjectStep, Construct, ConstructEnvironment, CopyConstruct, MoveConstruct, CopyAssign,
         MoveAssign, Destroy, SetEnvironment, DestroyProcess
<1>3. ASSUME \A q \in Strings \cap alive' : Said(q)' \in {Meant, NothingSaid} PROVE Faithful'
  BY <1>2, <1>3 DEF Faithful, Meant
<1>4. \A q \in Strings \cap alive : Said(q) \in {Meant, NothingSaid}
  BY DEF Faithful
<1>5. ASSUME NEW o \in Owners, NEW said, alive' \subseteq alive \cup {o}, Said(o)' = said,
             o \in Strings => said \in {Meant, NothingSaid},
             \A q \in alive \ {o} : Said(q)' = Said(q)
      PROVE  Faithful'
  BY <1>3, <1>4, <1>5
<1>6. ASSUME NEW o \in Owners, NEW p \in alive, o # p, SameClass(o, p), Move(o, p, Deleted({o})),
             alive' \subseteq alive \cup {o}
      PROVE  Faithful'
  <2>1. o \in Strings => p \in Strings
    BY <1>1, <1>6 DEF SameClass
  <2>2. /\ Said(o)' = Said(p) /\ Said(p)' = NothingSaid
        /\ \A q \in alive \ {o, p} : Said(q)' = Said(q)
    BY <1>6, MoveSays
  <2> QED
    BY <1>3, <1>4, <1>6, <2>1, <2>2
<1>7. ASSUME NEW o \in Locals, Construct(o) PROVE Faithful'
  <2>1. Store(o, given.args, given.words, Deleted({o}))
    BY <1>1, <1>7, DeletedOfNothing DEF Construct, Inv
  <2>2. Said(o)' = Meant /\ \A q \in alive \ {o} : Said(q)' = Said(q)
    BY <1>1, <2>1, StoreSays DEF Meant
  <2> QED
    BY <1>1, <1>5, <1>7, <2>2 DEF Construct
<1>8. ASSUME NEW e \in EnvLocals, ConstructEnvironment(e) PROVE Faithful'
  <2>1. PICK values \in Values : Allocate(e, <<>>, values, heap)
    BY <1>8 DEF ConstructEnvironment
  <2>2. Deleted({e}) = heap /\ e \in Owners /\ e \notin Strings
    BY <1>1, <1>8, DeletedOfNothing DEF ConstructEnvironment, Inv
  <2>3. \A q \in alive \ {e} : Said(q)' = Said(q)
    BY <2>1, <2>2, StoreSays, TextsAssumption
  <2> QED
    BY <1>5, <1>8, <2>2, <2>3 DEF ConstructEnvironment
<1>9. ASSUME NEW e \in EnvLocals, SetEnvironment(e) PROVE Faithful'
  <2>1. EnvMember # e
    BY OwnersAssumption
  <2> QED
    BY <1>1, <1>6, <1>9, <2>1 DEF SetEnvironment, SameClass
<1>10. ASSUME NEW o \in Strings, NEW p \in Strings, CopyConstruct(o, p) \/ CopyAssign(o, p)
       PROVE  Faithful'
  <2>1. p \in alive /\ alive' \subseteq alive \cup {o}
    BY <1>10 DEF CopyConstruct, CopyAssign
  <2>2. Store(o, object[p].args, WordsOf(p), Deleted({o}))
    <3>1. CASE CopyConstruct(o, p)
      BY <1>1, <3>1, DeletedOfNothing DEF CopyConstruct, Inv
    <3>2. CASE CopyAssign(o, p)
      BY <3>2 DEF CopyAssign
    <3> QED
      BY <1>10, <3>1, <3>2
  <2>3. Said(o)' = Said(p) /\ \A q \in alive \ {o} : Said(q)' = Said(q)
    BY <1>1, <2>1, <2>2, StoreSays, WordsOfType DEF Said
  <2> QED
    BY <1>1, <1>4, <1>5, <2>1, <2>3
<1>11. ASSUME NEW o \in Owners, NEW p \in Owners, MoveConstruct(o, p) \/ MoveAssign(o, p)
       PROVE  Faithful'
  <2>1. p \in alive /\ o # p /\ SameClass(o, p) /\ alive' \subseteq alive \cup {o}
    BY <1>11 DEF MoveConstruct, MoveAssign
  <2>2. Move(o, p, Deleted({o}))
    <3>1. CASE MoveConstruct(o, p)
      BY <3>1, DeletedOfNothing DEF MoveConstruct, Inv
    <3>2. CASE MoveAssign(o, p)
      BY <3>2 DEF MoveAssign
    <3> QED
      BY <1>11, <3>1, <3>2
  <2> QED
    BY <1>6, <2>1, <2>2
<1>12. ASSUME NEW S \in SUBSET Owners, alive' = alive \ S, heap' = Deleted(S),
              \A q \in alive \ S : object'[q] = object[q]
       PROVE  Faithful'
  <2>1. \A q \in alive \ S : Said(q)' = Said(q)
    BY <1>12, DestroySays
  <2> QED
    BY <1>3, <1>4, <1>12, <2>1
<1>13. ASSUME NEW o \in Owners, Destroy(o) PROVE Faithful'
  <2>1. \A q \in alive \ {o} : object'[q] = object[q]
    BY <1>1, <1>13 DEF Destroy, Inv, Shape
  <2> QED
    BY <1>12, <1>13, <2>1 DEF Destroy
<1>14. CASE DestroyProcess
  <2>1. \A q \in alive \ {Member, EnvMember} : object'[q] = object[q]
    BY <1>1, <1>14 DEF DestroyProcess, Inv, Shape
  <2>2. {Member, EnvMember} \in SUBSET Owners
    BY <1>1
  <2> QED
    BY <1>12, <1>14, <2>1, <2>2 DEF DestroyProcess
<1> QED
  BY <1>7, <1>8, <1>9, <1>10, <1>11, <1>13, <1>14 DEF ObjectStep

LEMMA FaithfulStutter == Faithful /\ UNCHANGED vars => Faithful'
  BY DEF Faithful, Said, Meant, WordsOf, vars

LEMMA FaithfulMeans == Inv /\ Typed /\ Faithful => WordsOfLine
<1> SUFFICES ASSUME Inv, Typed, Faithful, NEW o \in Strings \cap alive
             PROVE  WordsOf(o) = Words(object[o].args) <=> ~given.array \/ Plain(WordsOf(o))
  BY DEF WordsOfLine
<1>1. CASE Said(o) = NothingSaid
  <2>1. object[o].args = <<>> /\ WordsOf(o) = <<>>
    BY <1>1 DEF Said, NothingSaid
  <2>2. <<>> \in Seq(Characters) /\ Plain(<<>>)
    BY DEF Plain
  <2>3. Words(<<>>) = <<>>
    BY <2>2, WordsMean
  <2> QED
    BY <2>1, <2>2, <2>3
<1>2. CASE Said(o) = Meant
  <2>1. object[o].args = given.args /\ WordsOf(o) = given.words
    BY <1>2 DEF Said, Meant
  <2>2. CASE given.array
    BY <2>1, <2>2, JoinedSplits DEF Faithful, Inv, Shape, Texts
  <2>3. CASE ~given.array
    BY <2>1, <2>3, Splits DEF Faithful, Typed
  <2> QED
    BY <2>2, <2>3
<1> QED
  BY <1>1, <1>2 DEF Faithful

(* Through any copies and moves an object keeps the words of its line, and *)
(* those that were given as an array exactly if they are plain.            *)
THEOREM WordsKept == ObjectSpec => []WordsOfLine
<1>1. Inv /\ Typed /\ Faithful /\ [ObjectStep]_vars => (Inv /\ Typed /\ Faithful)'
  <2>1. Typed /\ UNCHANGED vars => Typed'
    BY DEF Typed, vars
  <2> QED
    BY <2>1, InvStep, InvStutter, TypedStep, FaithfulStep, FaithfulStutter
<1> QED
  BY InvInit, TypedInit, FaithfulInit, FaithfulMeans, <1>1, PTL DEF ObjectSpec
=============================================================================
