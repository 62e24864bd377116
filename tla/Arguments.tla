----------------------------- MODULE Arguments ------------------------------
(***************************************************************************)
(* How zsystem::process::Arguments splits a command line.  A line is a     *)
(* sequence of characters, and the places in it that a char pointer may    *)
(* have are 1 .. Len(line) + 1, the last of which is the terminating 0.    *)
(***************************************************************************)
EXTENDS Integers, Sequences, FiniteSets

CONSTANT Characters   \* that lines and words are made of

Space == " "
Escape == "\\"
Nul == "NUL"   \* the character 0
ASSUME CharactersAssumption == {Space, Escape} \subseteq Characters /\ Nul \notin Characters

End(line) == Len(line) + 1
Places(line) == 1 .. End(line)
At(line, i) == IF i = End(line) THEN Nul ELSE line[i]

(* Where a pointer to a space is moved to, past the spaces.                *)
AfterSpaces(line) ==
  LET after[i \in Places(line)] == IF At(line, i) = Space THEN after[i + 1] ELSE i
  IN  after

(* Mutation: the character after a backslash is counted as one more.       *)
ArgumentSizeEscapes(line) ==
  LET size[i \in Places(line)] ==
        CASE At(line, i) = Nul -> [src |-> i, length |-> 0]
          [] At(line, i) = Space -> [src |-> AfterSpaces(line)[i], length |-> 0]
          [] OTHER -> [size[i + 1] EXCEPT !.length = @ + 1]
  IN  size

(* argumentSize(): where it stops, and the length, from each place.        *)
ArgumentSize(line) ==
  LET size[i \in Places(line)] ==
        LET char == IF At(line, i) = Escape THEN i + 1 ELSE i
        IN  CASE At(line, i) = Space -> [src |-> AfterSpaces(line)[i], length |-> 0]
              [] At(line, char) = Nul -> [src |-> char, length |-> 0]
              [] OTHER -> [size[char + 1] EXCEPT !.length = @ + 1]
  IN  size

(* argumentCopy(): where it stops, and what it has written.                *)
ArgumentCopy(line) ==
  LET copy[i \in Places(line)] ==
        LET char == IF At(line, i) = Escape THEN i + 1 ELSE i
        IN  CASE At(line, i) = Space -> [src |-> AfterSpaces(line)[i], dst |-> <<>>]
              [] At(line, char) = Nul -> [src |-> char, dst |-> <<>>]
              [] OTHER -> [copy[char + 1] EXCEPT !.dst = <<line[char]>> \o @]
  IN  copy

(* The constructor from a command line.                                    *)
Split(line) ==
  LET argv[i \in Places(line)] ==
        IF At(line, i) = Nul THEN <<>>
        ELSE LET copied == ArgumentCopy(line)[i]
             IN  <<copied.dst>> \o argv[copied.src]
  IN  argv[1]

(* The constructor from an array puts the line together from the words.    *)
Joined(words) ==
  LET line[w \in 0 .. Len(words)] ==
        IF w = 0 THEN <<>>
        ELSE line[w - 1] \o (IF w > 1 THEN <<Space>> ELSE <<>>) \o words[w]
  IN  line[Len(words)]

-----------------------------------------------------------------------------
(* What the words of a line are, without going through it: a character     *)
(* after an odd number of backslashes is escaped, and spaces that are not  *)
(* separate words.                                                         *)
Escaped(line, i) ==
  Cardinality({j \in 1 .. i - 1 : \A k \in j .. i - 1 : line[k] = Escape}) % 2 = 1
Separators(line) == {i \in DOMAIN line : line[i] = Space /\ ~Escaped(line, i)}
Contents(line) == {i \in DOMAIN line : line[i] \notin {Space, Escape} \/ Escaped(line, i)}

(* A gap ends in a separator that no other one follows.                    *)
GapEnds(line) == {i \in Separators(line) : i + 1 \notin Separators(line)}

(* How many of S come before i.                                            *)
Before(S, i) == Cardinality({j \in S : j < i})

Words(line) ==
  [w \in 1 .. IF line = <<>> THEN 0 ELSE 1 + Cardinality(GapEnds(line) \ {Len(line)}) |->
     LET places == {i \in Contents(line) : Before(GapEnds(line), i) = w - 1}
     IN  [n \in 1 .. Cardinality(places) |->
            line[CHOOSE i \in places : Before(places, i) = n - 1]]]

(* Words that a line joined from them splits into again: no blanks and no  *)
(* backslashes, and none is empty but a first one that others follow.      *)
Plain(words) ==
  \A w \in DOMAIN words :
    /\ \A n \in DOMAIN words[w] : words[w][n] \notin {Space, Escape}
    /\ words[w] = <<>> => w = 1 /\ Len(words) > 1
=============================================================================
