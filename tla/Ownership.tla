----------------------------- MODULE Ownership ------------------------------
(***************************************************************************)
(* Who owns the arrays of C strings that Arguments and Environment keep on *)
(* the heap: objects are constructed, copied, moved, assigned and          *)
(* destroyed in any order, and given to a Process, which passes the arrays *)
(* to execvpe() whatever has become of the objects they came from.         *)
(***************************************************************************)
EXTENDS Arguments

CONSTANTS
  Lines, Arrays,  \* what the program makes Arguments of
  Values,         \* what it makes Environments of
  Locals,         \* its variables of the class Arguments
  EnvLocals       \* its variables of the class Environment

(* Members of the Process.                                                 *)
Member == "arguments"
EnvMember == "environment"
Strings == Locals \cup {Member}
Environments == EnvLocals \cup {EnvMember}
Owners == Strings \cup Environments

ASSUME OwnersAssumption ==
  /\ IsFiniteSet(Locals) /\ IsFiniteSet(EnvLocals) /\ Locals \cap EnvLocals = {}
  /\ {Member, EnvMember} \cap (Locals \cup EnvLocals) = {}

(* Strings are sequences of characters.                                    *)
Texts == Seq(Seq(Characters))
ASSUME TextsAssumption ==
  /\ Lines \subseteq Seq(Characters)
  /\ Arrays \subseteq Texts /\ Values \subseteq Texts

Null == 0
Blocks == 1 .. Cardinality(Owners)   \* each owner has one array at most
Objects == [args : Seq(Characters), count : Nat, array : Blocks \cup {Null}]

VARIABLES
  given,   \* what the constructors of Arguments are called with
  alive,   \* objects that exist
  object,  \* args, argc or envc, and argv or envp, of each
  heap     \* the strings of each array on the heap
vars == <<given, alive, object, heap>>

-----------------------------------------------------------------------------
FromLine(line) == [args |-> line, words |-> Split(line), array |-> FALSE]
FromArray(words) == [args |-> Joined(words), words |-> words, array |-> TRUE]

Nothing == [args |-> <<>>, count |-> 0, array |-> Null]

Init ==
  /\ given \in {FromLine(line) : line \in Lines} \cup {FromArray(words) : words \in Arrays}
  /\ alive = {} /\ object = [o \in Owners |-> Nothing] /\ heap = <<>>

(* "new": the array takes the first number that is free.                   *)
Fresh(h) ==
  {b \in Blocks : b \notin DOMAIN h /\ \A c \in Blocks \ DOMAIN h : b <= c}
With(h, b, words) == [c \in DOMAIN h \cup {b} |-> IF c = b THEN words ELSE h[c]]

(* "delete[]" of all strings and of the array.                             *)
Deleted(owners) ==
  [b \in DOMAIN heap \ {object[o].array : o \in owners} |-> heap[b]]

(* o gets an array of its own with these words.                            *)
Allocate(o, args, words, h) ==
  \E b \in Fresh(h) :
    /\ object' = [object EXCEPT ![o] = [args |-> args, count |-> Len(words), array |-> b]]
    /\ heap' = With(h, b, words)

(* Arguments without any argument have no array.                           *)
Store(o, args, words, h) ==
  \/ /\ words = <<>>
     /\ object' = [object EXCEPT ![o] = [Nothing EXCEPT !.args = args]]
     /\ heap' = h
  \/ words # <<>> /\ Allocate(o, args, words, h)

WordsOf(o) == IF object[o].count = 0 THEN <<>> ELSE heap[object[o].array]

(* Mutation: the source of a move keeps the array.                         *)
MoveShared(o, p, h) ==
  /\ object' = [object EXCEPT ![o] = object[p]]
  /\ heap' = h

(* The array changes hands, and the source is left with none; a string     *)
(* that was moved from is empty in every usual library.                    *)
Move(o, p, h) ==
  /\ object' = [object EXCEPT ![o] = object[p], ![p] = Nothing]
  /\ heap' = h

-----------------------------------------------------------------------------
(* Variables of the program, and the Process it makes of them.             *)

Construct(o) ==
  /\ o \in Locals \ alive /\ alive' = alive \cup {o}
  /\ Store(o, given.args, given.words, heap)
  /\ UNCHANGED given

ConstructEnvironment(e) ==
  /\ e \in EnvLocals \ alive /\ alive' = alive \cup {e}
  /\ \E values \in Values : Allocate(e, <<>>, values, heap)
  /\ UNCHANGED given

CopyConstruct(o, p) ==
  /\ o \in Strings \ alive /\ p \in Locals \cap alive
  /\ alive' = alive \cup {o}
  /\ Store(o, object[p].args, WordsOf(p), heap)
  /\ UNCHANGED given

SameClass(o, p) == {o, p} \subseteq Strings \/ {o, p} \subseteq Environments

MoveConstruct(o, p) ==
  /\ o \notin alive \cup {EnvMember} /\ p \in alive \ {Member, EnvMember} /\ SameClass(o, p)
  /\ alive' = alive \cup {o}
  /\ Move(o, p, heap)
  /\ UNCHANGED given

(* Mutation: the line is not copied with the words.                        *)
CopyAssignWords(o, p) ==
  /\ o \in Locals \cap alive /\ p \in Locals \cap alive /\ o # p
  /\ Store(o, object[o].args, WordsOf(p), Deleted({o}))
  /\ UNCHANGED <<given, alive>>

(* Assigning an object to itself does nothing.  Memory is taken not to run *)
(* out here: a std::bad_alloc after the old array was deleted would leave  *)
(* the pointer to it in the object, whose destructor deletes it again.     *)
CopyAssign(o, p) ==
  /\ o \in Locals \cap alive /\ p \in Locals \cap alive /\ o # p
  /\ Store(o, object[p].args, WordsOf(p), Deleted({o}))
  /\ UNCHANGED <<given, alive>>

MoveAssign(o, p) ==
  /\ {o, p} \subseteq alive \ {Member, EnvMember} /\ SameClass(o, p) /\ o # p
  /\ Move(o, p, Deleted({o}))
  /\ UNCHANGED <<given, alive>>

Destroy(o) ==
  /\ o \in (Locals \cup EnvLocals) \cap alive
  /\ alive' = alive \ {o} /\ heap' = Deleted({o})
  /\ object' = [object EXCEPT ![o] = Nothing]
  /\ UNCHANGED given

(* setEnvironment(): the Process takes over the object, which it holds by  *)
(* a unique_ptr, and destroys the one it had.                              *)
SetEnvironment(e) ==
  /\ Member \in alive /\ e \in EnvLocals \cap alive
  /\ alive' = (alive \ {e}) \cup {EnvMember}
  /\ Move(EnvMember, e, Deleted({EnvMember}))
  /\ UNCHANGED given

DestroyProcess ==
  /\ Member \in alive
  /\ alive' = alive \ {Member, EnvMember} /\ heap' = Deleted({Member, EnvMember})
  /\ object' = [object EXCEPT ![Member] = Nothing, ![EnvMember] = Nothing]
  /\ UNCHANGED given

ObjectStep ==
  \/ \E o \in Locals : Construct(o)
  \/ \E e \in EnvLocals : ConstructEnvironment(e) \/ SetEnvironment(e)
  \/ \E o, p \in Strings : CopyConstruct(o, p) \/ CopyAssign(o, p)
  \/ \E o, p \in Owners : MoveConstruct(o, p) \/ MoveAssign(o, p)
  \/ \E o \in Owners : Destroy(o)
  \/ DestroyProcess

ObjectSpec == Init /\ [][ObjectStep]_vars

-----------------------------------------------------------------------------
(* Properties.                                                             *)

Holders == {o \in alive : object[o].array # Null}

(* Every array on the heap belongs to exactly one object, which knows how  *)
(* many strings are in it: none is deleted twice, used after it was        *)
(* deleted, or never deleted (Arguments.cpp:109-168, Environment.cpp:      *)
(* 57-84).  Only Arguments that have none are without an argv.             *)
Owned ==
  /\ \A o, p \in Holders : object[o].array = object[p].array => o = p
  /\ {object[o].array : o \in Holders} = DOMAIN heap
  /\ \A o \in Holders : object[o].count = Len(heap[object[o].array])
  /\ \A o \in alive \ Holders : object[o].count = 0
  /\ \A o \in Holders \cap Strings : object[o].count > 0

(* argumentCopy() writes what argumentSize() counted, and both stop at the *)
(* same place, so that it fits "new char[length + 1]" (Arguments.cpp:      *)
(* 64-70).                                                                 *)
CopyFits ==
  \A i \in Places(given.args) :
    LET size == ArgumentSize(given.args)[i]
        copied == ArgumentCopy(given.args)[i]
    IN  size.src = copied.src /\ size.length = Len(copied.dst)

(* Through all copies and moves, the words of an object are those of its   *)
(* line, for every line; for words that were given as an array exactly if  *)
(* the line that is put together needs no escapes (Arguments.cpp:92-95     *)
(* says that it has none).                                                 *)
WordsOfLine ==
  \A o \in Strings \cap alive :
    WordsOf(o) = Words(object[o].args) <=> ~given.array \/ Plain(WordsOf(o))
=============================================================================
