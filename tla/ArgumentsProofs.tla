-------------------------- MODULE ArgumentsProofs ---------------------------
(***************************************************************************)
(* Proofs about Arguments, for every line.  The functions of the parser    *)
(* look at later places of the line only, so that they are defined, and    *)
(* are what they should be, by induction from its end.                     *)
(***************************************************************************)
EXTENDS Arguments, TLAPS, WellFoundedInduction, FiniteSetTheorems

LEMMA Least ==
  ASSUME NEW S, S \subseteq Nat, S # {}
  PROVE  \E n \in S : \A m \in S : n <= m
<1> DEFINE R == OpToRel(<, Nat)
<1>1. IsWellFoundedOn(R, Nat)
  BY NatLessThanWellFounded
<1>2. \A n, m \in Nat : m < n => <<m, n>> \in R
  BY DEF OpToRel
<1> HIDE DEF R
<1>3. PICK n \in S : \A m \in S : ~ (<<m, n>> \in R)
  BY <1>1, WFMin
<1>4. \A m \in S : ~ (m < n)
  BY <1>2, <1>3
<1> QED
  BY <1>4

(* Induction from n down, for what holds of a place if it holds of all     *)
(* later ones.                                                             *)
LEMMA Backwards ==
  ASSUME NEW n \in Nat, NEW S,
         \A i \in 1 .. n : (\A j \in i + 1 .. n : j \in S) => i \in S
  PROVE  1 .. n \subseteq S
<1> DEFINE far == {n - i : i \in 1 .. n \ S}
<1> SUFFICES ASSUME 1 .. n \ S # {} PROVE FALSE
  OBVIOUS
<1>1. far \subseteq Nat /\ far # {}
  OBVIOUS
<1>2. PICK i \in 1 .. n \ S : \A j \in 1 .. n \ S : n - i <= n - j
  <2>1. PICK d \in far : \A e \in far : d <= e
    BY <1>1, Least
  <2>2. PICK i \in 1 .. n \ S : d = n - i
    BY <2>1
  <2>3. \A j \in 1 .. n \ S : n - j \in far
    OBVIOUS
  <2> HIDE DEF far
  <2> QED
    BY <2>1, <2>2, <2>3
<1>3. \A j \in i + 1 .. n : j \in S
  BY <1>2
<1> QED
  BY <1>2, <1>3

(* A function may be defined by its values at later places: at those in    *)
(* more, its value comes from that at next, and elsewhere it is base.      *)
LooksAhead(n, V, more, next, base, step) ==
  /\ more \in SUBSET (1 .. n)
  /\ next \in [more -> 1 .. n] /\ \A i \in more : i < next[i]
  /\ base \in [1 .. n -> V] /\ step \in [more \X V -> V]
Solves(f, n, V, more, next, base, step) ==
  \A i \in 1 .. n :
    IF i \in more THEN f[next[i]] \in V => f[i] = step[<<i, f[next[i]]>>] ELSE f[i] = base[i]

LEMMA Exists ==
  ASSUME NEW n \in Nat, NEW V, NEW more, NEW next, NEW base, NEW step,
         LooksAhead(n, V, more, next, base, step)
  PROVE  \E f \in [1 .. n -> V] : Solves(f, n, V, more, next, base, step)
<1> USE DEF LooksAhead, Solves
<1> DEFINE Right(f, k) ==
             \A i \in k .. n :
               f[i] = IF i \in more THEN step[<<i, f[next[i]]>>] ELSE base[i]
           S == {k \in 1 .. n + 1 : \E f \in [k .. n -> V] : Right(f, k)}
<1>1. n + 1 \in S
  <2>1. (n + 1) .. n = {}
    OBVIOUS
  <2>2. [i \in {} |-> base[1]] \in [(n + 1) .. n -> V]
    BY <2>1
  <2>3. \E f \in [(n + 1) .. n -> V] : Right(f, n + 1)
    BY <2>1, <2>2
  <2> HIDE DEF Right
  <2> QED
    BY <2>3
<1>2. PICK k \in S : \A m \in S : k <= m
  <2>1. S \subseteq Nat /\ S # {}
    BY <1>1
  <2> HIDE DEF S
  <2> QED
    BY <2>1, Least
<1>3. k \in 1 .. n + 1
  BY <1>2
<1>4. PICK f \in [k .. n -> V] : Right(f, k)
  BY <1>2
<1>5. CASE k = 1
  BY <1>4, <1>5
<1>6. CASE k > 1
  <2> DEFINE m == k - 1
             v == IF m \in more THEN step[<<m, f[next[m]]>>] ELSE base[m]
             g == [i \in m .. n |-> IF i = m THEN v ELSE f[i]]
  <2>1. m \in 1 .. n /\ k .. n = m .. n \ {m} /\ m < k
    BY <1>3, <1>6
  <2>2. v \in V
    <3>1. CASE m \in more
      <4>1. next[m] \in k .. n
        BY <2>1, <3>1
      <4>2. f[next[m]] \in V
        BY <4>1
      <4> QED
        BY <3>1, <4>2
    <3>2. CASE m \notin more
      BY <2>1, <3>2
    <3> QED
      BY <3>1, <3>2
  <2>3. g \in [m .. n -> V]
    <3> HIDE DEF v
    <3> QED
      BY <2>1, <2>2
  <2>4. \A i \in more : i \in m .. n => next[i] \in m .. n /\ g[next[i]] = f[next[i]]
    BY <2>1
  <2>5. Right(g, m)
    <3> SUFFICES ASSUME NEW i \in m .. n
                 PROVE  g[i] = IF i \in more THEN step[<<i, g[next[i]]>>] ELSE base[i]
      OBVIOUS
    <3>1. CASE i = m
      BY <2>4, <3>1
    <3>2. CASE i # m
      <4>1. i \in k .. n /\ g[i] = f[i]
        BY <2>1, <3>2
      <4> QED
        BY <1>4, <2>4, <4>1
    <3> QED
      BY <3>1, <3>2
  <2>6. m \in S
    <3>1. \E h \in [m .. n -> V] : Right(h, m)
      BY <2>3, <2>5
    <3> HIDE DEF g, m, Right
    <3> QED
      BY <2>1, <3>1
  <2> QED
    BY <1>2, <2>1, <2>6
<1>7. k = 1 \/ k > 1
  BY <1>3
<1> QED
  BY <1>5, <1>6, <1>7

LEMMA Unique ==
  ASSUME NEW n \in Nat, NEW V, NEW more, NEW next, NEW base, NEW step, NEW g, NEW f,
         f \in [1 .. n -> V],
         LooksAhead(n, V, more, next, base, step),
         Solves(f, n, V, more, next, base, step), Solves(g, n, V, more, next, base, step)
  PROVE  \A i \in 1 .. n : g[i] = f[i]
<1> DEFINE S == {i \in 1 .. n : g[i] = f[i]}
<1>1. ASSUME NEW i \in 1 .. n, \A j \in i + 1 .. n : j \in S
      PROVE  i \in S
  <2>1. i \in more => next[i] \in i + 1 .. n
    BY DEF LooksAhead
  <2>2. i \in more => g[next[i]] = f[next[i]] /\ f[next[i]] \in V
    BY <1>1, <2>1
  <2> QED
    BY <2>2 DEF Solves
<1>2. 1 .. n \subseteq S
  <2> HIDE DEF S
  <2> QED
    BY <1>1, Backwards
<1> QED
  BY <1>2

LEMMA Recursion ==
  ASSUME NEW n \in Nat, NEW V, NEW more, NEW next, NEW base, NEW step,
         LooksAhead(n, V, more, next, base, step)
  PROVE  \E f \in [1 .. n -> V] :
           /\ Solves(f, n, V, more, next, base, step)
           /\ \A g : Solves(g, n, V, more, next, base, step) => \A i \in 1 .. n : g[i] = f[i]
<1>1. PICK f \in [1 .. n -> V] : Solves(f, n, V, more, next, base, step)
  BY Exists
<1>2. ASSUME NEW g, Solves(g, n, V, more, next, base, step)
      PROVE  \A i \in 1 .. n : g[i] = f[i]
  BY <1>1, <1>2, Unique
<1> QED
  BY <1>1, <1>2

-----------------------------------------------------------------------------
(* The places of a line.                                                   *)
LEMMA LinePlaces ==
  ASSUME NEW line \in Seq(Characters)
  PROVE  /\ Len(line) \in Nat /\ End(line) = Len(line) + 1 /\ End(line) \in Nat
         /\ DOMAIN line = 1 .. Len(line) /\ Places(line) = 1 .. End(line)
         /\ \A i \in DOMAIN line : line[i] \in Characters /\ At(line, i) = line[i]
         /\ At(line, End(line)) = Nul /\ {Space, Escape} \subseteq Characters
         /\ \A i \in Places(line) : At(line, i) = Nul <=> i = End(line)
         /\ \A i \in Places(line) : i # End(line) => i \in DOMAIN line /\ i + 1 \in Places(line)
         /\ Space # Escape /\ Space # Nul /\ Escape # Nul
<1>1. /\ Len(line) \in Nat /\ DOMAIN line = 1 .. Len(line)
      /\ \A i \in 1 .. Len(line) : line[i] \in Characters
  OBVIOUS
<1>2. Space # Escape /\ Space # Nul /\ Escape # Nul
  BY DEF Space, Escape, Nul
<1> QED
  BY <1>1, <1>2, CharactersAssumption DEF End, Places, At

LEMMA AfterSpacesIs ==
  ASSUME NEW line \in Seq(Characters)
  PROVE  /\ AfterSpaces(line) \in [Places(line) -> Places(line)]
         /\ \A i \in Places(line) :
              AfterSpaces(line)[i] =
                IF At(line, i) = Space THEN AfterSpaces(line)[i + 1] ELSE i
<1> DEFINE n == End(line)
           V == 1 .. n
           more == {i \in 1 .. n : At(line, i) = Space}
           next == [i \in more |-> i + 1]
           base == [i \in 1 .. n |-> i]
           step == [x \in more \X V |-> x[2]]
           Is(g) == g = [i \in Places(line) |-> IF At(line, i) = Space THEN g[i + 1] ELSE i]
<1>1. n \in Nat /\ \A i \in more : i + 1 \in 1 .. n /\ i < i + 1
  BY LinePlaces
<1>2. LooksAhead(n, V, more, next, base, step)
  BY <1>1 DEF LooksAhead
<1>3. PICK f \in [1 .. n -> V] :
        /\ Solves(f, n, V, more, next, base, step)
        /\ \A g : Solves(g, n, V, more, next, base, step) => \A i \in 1 .. n : g[i] = f[i]
  <2> HIDE DEF n, V, more, next, base, step
  <2> QED
    BY <1>1, <1>2, Recursion
<1>4. \A i \in 1 .. n : f[i] = IF At(line, i) = Space THEN f[i + 1] ELSE i
  BY <1>1, <1>3 DEF Solves
<1>5. Places(line) = 1 .. n
  BY LinePlaces
<1>6. Is(f)
  BY <1>4, <1>5
<1> DEFINE after == AfterSpaces(line)
<1>7. after = CHOOSE g : Is(g)
  BY DEF AfterSpaces
<1> HIDE DEF after
<1>8. Is(after)
  <2> HIDE DEF Is
  <2> QED
    BY <1>6, <1>7
<1>9. \A i \in 1 .. n : after[i] = IF At(line, i) = Space THEN after[i + 1] ELSE i
  BY <1>5, <1>8
<1>10. Solves(after, n, V, more, next, base, step)
  BY <1>1, <1>9 DEF Solves
<1>11. \A i \in 1 .. n : after[i] = f[i]
  BY <1>3, <1>10
<1>12. after \in [1 .. n -> V]
  BY <1>5, <1>8, <1>11
<1> QED
  BY <1>5, <1>9, <1>12 DEF after

(* Places at which both passes go on to the next character, the character  *)
(* that they count or copy there, and where they stop at all others.       *)
Char(line, i) == IF At(line, i) = Escape THEN i + 1 ELSE i
Goes(line) == {i \in Places(line) : At(line, i) # Space /\ At(line, Char(line, i)) # Nul}
Stop(line, i) == IF At(line, i) = Space THEN AfterSpaces(line)[i] ELSE Char(line, i)

LEMMA GoesOn ==
  ASSUME NEW line \in Seq(Characters), NEW i \in Places(line)
  PROVE  /\ Char(line, i) \in Places(line) /\ i <= Char(line, i) /\ Char(line, i) \in Nat
         /\ i \in Goes(line) =>
              /\ i # End(line) /\ Char(line, i) \in DOMAIN line
              /\ line[Char(line, i)] \in Characters
              /\ Char(line, i) + 1 \in Places(line) /\ i < Char(line, i) + 1
         /\ i \notin Goes(line) => Stop(line, i) \in Places(line)
<1>1. Char(line, i) \in Places(line) /\ i <= Char(line, i) /\ Char(line, i) \in Nat
  BY LinePlaces DEF Char
<1>2. ASSUME i \in Goes(line) PROVE Char(line, i) # End(line) /\ i # End(line)
  BY <1>2, LinePlaces DEF Goes, Char
<1>3. Stop(line, i) \in Places(line)
  BY <1>1, AfterSpacesIs DEF Stop
<1> QED
  BY <1>1, <1>2, <1>3, LinePlaces

LEMMA ArgumentSizeIs ==
  ASSUME NEW line \in Seq(Characters)
  PROVE  LET size == ArgumentSize(line)
         IN  /\ size \in [Places(line) -> [src : Places(line), length : Nat]]
             /\ \A i \in Places(line) \ Goes(line) :
                  size[i] = [src |-> Stop(line, i), length |-> 0]
             /\ \A i \in Goes(line) :
                  size[i] = [size[Char(line, i) + 1] EXCEPT !.length = @ + 1]
<1> DEFINE n == End(line)
           V == [src : Places(line), length : Nat]
           more == Goes(line)
           next == [i \in more |-> Char(line, i) + 1]
           base == [i \in 1 .. n |-> IF i \in more THEN [src |-> 1, length |-> 0]
                                     ELSE [src |-> Stop(line, i), length |-> 0]]
           step == [x \in more \X V |-> [x[2] EXCEPT !.length = @ + 1]]
           longer(g, i) == [g[Char(line, i) + 1] EXCEPT !.length = @ + 1]
           rule(g, i) == CASE At(line, i) = Space -> [src |-> AfterSpaces(line)[i], length |-> 0]
                           [] At(line, Char(line, i)) = Nul -> [src |-> Char(line, i), length |-> 0]
                           [] OTHER -> longer(g, i)
           Is(g) == g = [i \in Places(line) |-> rule(g, i)]
<1>1. /\ n \in Nat /\ 1 \in 1 .. n /\ Places(line) = 1 .. n /\ more \subseteq 1 .. n
      /\ \A i \in 1 .. n \ more : Stop(line, i) \in 1 .. n
      /\ \A i \in more : Char(line, i) + 1 \in 1 .. n /\ i < Char(line, i) + 1
  BY LinePlaces, GoesOn DEF Goes
<1>2. LooksAhead(n, V, more, next, base, step)
  BY <1>1 DEF LooksAhead
<1>3. PICK f \in [1 .. n -> V] :
        /\ Solves(f, n, V, more, next, base, step)
        /\ \A g : Solves(g, n, V, more, next, base, step) => \A i \in 1 .. n : g[i] = f[i]
  <2> HIDE DEF n, V, more, next, base, step
  <2> QED
    BY <1>1, <1>2, Recursion
<1>4. \A g : \A i \in 1 .. n :
        rule(g, i) = IF i \in more THEN longer(g, i) ELSE [src |-> Stop(line, i), length |-> 0]
  <2> HIDE DEF longer
  <2> TAKE g
  <2> TAKE i \in 1 .. n
  <2>1. i \in more <=> At(line, i) # Space /\ At(line, Char(line, i)) # Nul
    BY <1>1 DEF Goes
  <2>2. CASE At(line, i) = Space
    <3>1. At(line, Char(line, i)) # Nul
      BY <2>2, LinePlaces DEF Char
    <3> QED
      BY <2>1, <2>2, <3>1 DEF Stop
  <2>3. CASE At(line, i) # Space /\ At(line, Char(line, i)) = Nul
    BY <2>1, <2>3 DEF Stop
  <2>4. CASE i \in more
    BY <2>1, <2>4
  <2> QED
    BY <2>1, <2>2, <2>3, <2>4
<1> HIDE DEF rule, more
<1>5. \A i \in 1 .. n : f[i] = rule(f, i)
  <2> SUFFICES ASSUME NEW i \in 1 .. n PROVE f[i] = rule(f, i)
    OBVIOUS
  <2>1. CASE i \in more
    <3>1. next[i] = Char(line, i) + 1 /\ f[next[i]] \in V
      BY <1>1, <2>1
    <3>2. f[i] = step[<<i, f[next[i]]>>]
      BY <1>3, <2>1, <3>1 DEF Solves
    <3>3. step[<<i, f[next[i]]>>] = longer(f, i)
      BY <2>1, <3>1
    <3> QED
      BY <1>4, <2>1, <3>2, <3>3
  <2>2. CASE i \notin more
    BY <1>3, <1>4, <2>2 DEF Solves
  <2> QED
    BY <2>1, <2>2
<1>6. Is(f)
  BY <1>1, <1>5
<1> DEFINE size == ArgumentSize(line)
<1>7. size = CHOOSE g : Is(g)
  BY DEF ArgumentSize, Char, rule
<1> HIDE DEF size
<1>8. Is(size)
  <2> HIDE DEF Is
  <2> QED
    BY <1>6, <1>7
<1>9. \A i \in 1 .. n : size[i] = rule(size, i)
  BY <1>1, <1>8
<1>10. Solves(size, n, V, more, next, base, step)
  BY <1>1, <1>4, <1>9 DEF Solves
<1>11. \A i \in 1 .. n : size[i] = f[i]
  BY <1>3, <1>10
<1>12. size \in [1 .. n -> V]
  BY <1>1, <1>8, <1>11
<1> QED
  BY <1>1, <1>4, <1>9, <1>12 DEF size, more

LEMMA ArgumentCopyIs ==
  ASSUME NEW line \in Seq(Characters)
  PROVE  LET copy == ArgumentCopy(line)
         IN  /\ copy \in [Places(line) -> [src : Places(line), dst : Seq(Characters)]]
             /\ \A i \in Places(line) \ Goes(line) :
                  copy[i] = [src |-> Stop(line, i), dst |-> <<>>]
             /\ \A i \in Goes(line) :
                  copy[i] = [copy[Char(line, i) + 1] EXCEPT !.dst = <<line[Char(line, i)]>> \o @]
<1> DEFINE n == End(line)
           V == [src : Places(line), dst : Seq(Characters)]
           more == Goes(line)
           next == [i \in more |-> Char(line, i) + 1]
           base == [i \in 1 .. n |-> IF i \in more THEN [src |-> 1, dst |-> <<>>]
                                     ELSE [src |-> Stop(line, i), dst |-> <<>>]]
           step == [x \in more \X V |-> [x[2] EXCEPT !.dst = <<line[Char(line, x[1])]>> \o @]]
           longer(g, i) == [g[Char(line, i) + 1] EXCEPT !.dst = <<line[Char(line, i)]>> \o @]
           rule(g, i) == CASE At(line, i) = Space -> [src |-> AfterSpaces(line)[i], dst |-> <<>>]
                           [] At(line, Char(line, i)) = Nul -> [src |-> Char(line, i), dst |-> <<>>]
                           [] OTHER -> longer(g, i)
           Is(g) == g = [i \in Places(line) |-> rule(g, i)]
<1>1. /\ n \in Nat /\ 1 \in 1 .. n /\ Places(line) = 1 .. n /\ more \subseteq 1 .. n
      /\ \A i \in 1 .. n \ more : Stop(line, i) \in 1 .. n
      /\ \A i \in more : /\ Char(line, i) + 1 \in 1 .. n /\ i < Char(line, i) + 1
                         /\ line[Char(line, i)] \in Characters
  BY LinePlaces, GoesOn DEF Goes
<1>2. LooksAhead(n, V, more, next, base, step)
  <2>1. ASSUME NEW x \in more \X V
        PROVE  [x[2] EXCEPT !.dst = <<line[Char(line, x[1])]>> \o @] \in V
    <3>1. line[Char(line, x[1])] \in Characters /\ x[2] \in V
      BY <1>1
    <3>2. <<line[Char(line, x[1])]>> \o x[2].dst \in Seq(Characters)
      BY <3>1
    <3> QED
      BY <3>1, <3>2
  <2>2. step \in [more \X V -> V]
    BY <2>1
  <2>3. base \in [1 .. n -> V]
    BY <1>1
  <2> HIDE DEF V, step, base
  <2> QED
    BY <1>1, <2>2, <2>3 DEF LooksAhead
<1>3. PICK f \in [1 .. n -> V] :
        /\ Solves(f, n, V, more, next, base, step)
        /\ \A g : Solves(g, n, V, more, next, base, step) => \A i \in 1 .. n : g[i] = f[i]
  <2> HIDE DEF n, V, more, next, base, step
  <2> QED
    BY <1>1, <1>2, Recursion
<1>4. \A g : \A i \in 1 .. n :
        rule(g, i) = IF i \in more THEN longer(g, i) ELSE [src |-> Stop(line, i), dst |-> <<>>]
  <2> HIDE DEF longer
  <2> TAKE g
  <2> TAKE i \in 1 .. n
  <2>1. i \in more <=> At(line, i) # Space /\ At(line, Char(line, i)) # Nul
    BY <1>1 DEF Goes
  <2>2. CASE At(line, i) = Space
    <3>1. At(line, Char(line, i)) # Nul
      BY <2>2, LinePlaces DEF Char
    <3> QED
      BY <2>1, <2>2, <3>1 DEF Stop
  <2>3. CASE At(line, i) # Space /\ At(line, Char(line, i)) = Nul
    BY <2>1, <2>3 DEF Stop
  <2>4. CASE i \in more
    BY <2>1, <2>4
  <2> QED
    BY <2>1, <2>2, <2>3, <2>4
<1> HIDE DEF rule, more
<1>5. \A i \in 1 .. n : f[i] = rule(f, i)
  <2> SUFFICES ASSUME NEW i \in 1 .. n PROVE f[i] = rule(f, i)
    OBVIOUS
  <2>1. CASE i \in more
    <3>1. next[i] = Char(line, i) + 1 /\ f[next[i]] \in V
      BY <1>1, <2>1
    <3>2. f[i] = step[<<i, f[next[i]]>>]
      BY <1>3, <2>1, <3>1 DEF Solves
    <3>3. step[<<i, f[next[i]]>>] = longer(f, i)
      BY <2>1, <3>1
    <3> QED
      BY <1>4, <2>1, <3>2, <3>3
  <2>2. CASE i \notin more
    BY <1>3, <1>4, <2>2 DEF Solves
  <2> QED
    BY <2>1, <2>2
<1>6. Is(f)
  BY <1>1, <1>5
<1> DEFINE copy == ArgumentCopy(line)
<1>7. copy = CHOOSE g : Is(g)
  BY DEF ArgumentCopy, Char, rule
<1> HIDE DEF copy
<1>8. Is(copy)
  <2> HIDE DEF Is
  <2> QED
    BY <1>6, <1>7
<1>9. \A i \in 1 .. n : copy[i] = rule(copy, i)
  BY <1>1, <1>8
<1>10. Solves(copy, n, V, more, next, base, step)
  BY <1>1, <1>4, <1>9 DEF Solves
<1>11. \A i \in 1 .. n : copy[i] = f[i]
  BY <1>3, <1>10
<1>12. copy \in [1 .. n -> V]
  BY <1>1, <1>8, <1>11
<1> QED
  BY <1>1, <1>4, <1>9, <1>12 DEF copy, more

-----------------------------------------------------------------------------
(* Spaces are passed forwards.                                             *)
LEMMA SpacesPassed ==
  ASSUME NEW line \in Seq(Characters), NEW i \in Places(line)
  PROVE  i <= AfterSpaces(line)[i] /\ (At(line, i) = Space => i < AfterSpaces(line)[i])
<1> DEFINE after == AfterSpaces(line)
           S == {k \in Places(line) :
                   k <= after[k] /\ (At(line, k) = Space => k < after[k])}
<1>1. /\ End(line) \in Nat /\ Places(line) = 1 .. End(line)
      /\ after \in [Places(line) -> Places(line)]
      /\ \A k \in Places(line) : after[k] = IF At(line, k) = Space THEN after[k + 1] ELSE k
      /\ \A k \in Places(line) : At(line, k) = Space => k + 1 \in Places(line)
  BY LinePlaces, AfterSpacesIs
<1> HIDE DEF after
<1>2. ASSUME NEW k \in 1 .. End(line), \A j \in k + 1 .. End(line) : j \in S
      PROVE  k \in S
  <2>1. CASE At(line, k) = Space
    <3>1. k + 1 \in S /\ after[k] = after[k + 1]
      BY <1>1, <1>2, <2>1
    <3> QED
      BY <1>1, <3>1
  <2>2. CASE At(line, k) # Space
    BY <1>1, <2>2
  <2> QED
    BY <2>1, <2>2
<1>3. 1 .. End(line) \subseteq S
  <2> HIDE DEF S
  <2> QED
    BY <1>1, <1>2, Backwards
<1> QED
  BY <1>1, <1>3 DEF after

(* The copying pass stops where the sizing pass does, which is later       *)
(* unless the line has ended, and has written what that has counted.       *)
LEMMA PassesAgree ==
  ASSUME NEW line \in Seq(Characters), NEW i \in Places(line)
  PROVE  LET size == ArgumentSize(line)[i]
             copied == ArgumentCopy(line)[i]
         IN  /\ size.src = copied.src /\ size.length = Len(copied.dst)
             /\ copied.src \in Places(line) /\ copied.dst \in Seq(Characters)
             /\ i # End(line) => i < copied.src
<1> DEFINE size == ArgumentSize(line)
           copy == ArgumentCopy(line)
           S == {k \in Places(line) :
                   /\ size[k].src = copy[k].src /\ size[k].length = Len(copy[k].dst)
                   /\ k <= copy[k].src /\ (k # End(line) => k < copy[k].src)}
<1>1. End(line) \in Nat /\ Places(line) = 1 .. End(line) /\ Goes(line) \subseteq Places(line)
  BY LinePlaces DEF Goes
<1>2. /\ size \in [Places(line) -> [src : Places(line), length : Nat]]
      /\ \A k \in Places(line) \ Goes(line) : size[k] = [src |-> Stop(line, k), length |-> 0]
      /\ \A k \in Goes(line) : size[k] = [size[Char(line, k) + 1] EXCEPT !.length = @ + 1]
  BY ArgumentSizeIs
<1>3. /\ copy \in [Places(line) -> [src : Places(line), dst : Seq(Characters)]]
      /\ \A k \in Places(line) \ Goes(line) : copy[k] = [src |-> Stop(line, k), dst |-> <<>>]
      /\ \A k \in Goes(line) :
           copy[k] = [copy[Char(line, k) + 1] EXCEPT !.dst = <<line[Char(line, k)]>> \o @]
  BY ArgumentCopyIs
<1> HIDE DEF size, copy
<1>4. ASSUME NEW k \in 1 .. End(line), \A j \in k + 1 .. End(line) : j \in S
      PROVE  k \in S
  <2>1. CASE k \in Goes(line)
    <3> DEFINE next == Char(line, k) + 1
               char == line[Char(line, k)]
    <3>1. k < next /\ next \in Places(line) /\ char \in Characters
      BY <1>1, <2>1, GoesOn
    <3>2. next \in S
      BY <1>1, <1>4, <3>1
    <3>3. size[k].src = size[next].src /\ size[k].length = size[next].length + 1
      <4>1. size[next] \in [src : Places(line), length : Nat]
        BY <1>2, <3>1
      <4> QED
        BY <1>2, <2>1, <4>1
    <3>4. copy[k].src = copy[next].src /\ copy[k].dst = <<char>> \o copy[next].dst
      <4>1. copy[next] \in [src : Places(line), dst : Seq(Characters)]
        BY <1>3, <3>1
      <4> QED
        BY <1>3, <2>1, <4>1
    <3>5. Len(copy[k].dst) = Len(copy[next].dst) + 1
      BY <1>3, <3>1, <3>4
    <3>6. k < copy[next].src /\ copy[next].src \in Places(line)
      <4>1. copy[next].src \in Places(line)
        BY <1>3, <3>1
      <4> HIDE DEF next
      <4> QED
        BY <1>1, <3>1, <3>2, <4>1
    <3> HIDE DEF next
    <3>7. size[k].src = copy[k].src /\ size[k].length = Len(copy[k].dst)
      BY <3>2, <3>3, <3>4, <3>5
    <3>8. k <= copy[k].src /\ k < copy[k].src
      BY <1>1, <3>4, <3>6
    <3> QED
      BY <1>1, <3>7, <3>8
  <2>2. CASE k \notin Goes(line)
    <3>1. k <= Stop(line, k) /\ (k # End(line) => k < Stop(line, k))
      <4>1. CASE At(line, k) = Space
        BY <1>1, <4>1, SpacesPassed DEF Stop
      <4>2. CASE At(line, k) # Space
        <5>1. At(line, Char(line, k)) = Nul
          BY <1>1, <2>2, <4>2 DEF Goes
        <5>2. Char(line, k) = End(line)
          BY <1>1, <5>1, LinePlaces, GoesOn
        <5> QED
          BY <1>1, <4>2, <5>2 DEF Stop
      <4> QED
        BY <4>1, <4>2
    <3> QED
      BY <1>1, <1>2, <1>3, <2>2, <3>1
  <2> QED
    BY <2>1, <2>2
<1>5. 1 .. End(line) \subseteq S
  <2> HIDE DEF S
  <2> QED
    BY <1>1, <1>4, Backwards
<1>6. copy[i].src \in Places(line) /\ copy[i].dst \in Seq(Characters)
  BY <1>3
<1> QED
  BY <1>1, <1>5, <1>6 DEF size, copy

(* The words from each place on.                                           *)
LEMMA SplitIs ==
  ASSUME NEW line \in Seq(Characters)
  PROVE  \E argv \in [Places(line) -> Seq(Seq(Characters))] :
           /\ Split(line) = argv[1] /\ argv[End(line)] = <<>>
           /\ \A i \in DOMAIN line :
                LET copied == ArgumentCopy(line)[i]
                IN  argv[i] = <<copied.dst>> \o argv[copied.src]
<1> DEFINE n == End(line)
           V == Seq(Seq(Characters))
           copy == ArgumentCopy(line)
           more == DOMAIN line
           next == [i \in more |-> copy[i].src]
           base == [i \in 1 .. n |-> <<>>]
           step == [x \in more \X V |-> <<copy[x[1]].dst>> \o x[2]]
           Is(g) == g = [i \in Places(line) |-> IF At(line, i) = Nul THEN <<>>
                                               ELSE <<copy[i].dst>> \o g[copy[i].src]]
<1>1. /\ n \in Nat /\ 1 \in 1 .. n /\ Places(line) = 1 .. n
      /\ more \subseteq 1 .. n /\ n \notin more
      /\ \A i \in 1 .. n : At(line, i) = Nul <=> i \notin more
  BY LinePlaces
<1>2. \A i \in more : /\ copy[i].src \in 1 .. n /\ i < copy[i].src
                      /\ copy[i].dst \in Seq(Characters)
  BY <1>1, PassesAgree
<1> HIDE DEF copy, n, more
<1>3. ASSUME NEW i \in more, NEW v \in V
      PROVE  step[<<i, v>>] = <<copy[i].dst>> \o v /\ <<copy[i].dst>> \o v \in V
  BY <1>2
<1>4. LooksAhead(n, V, more, next, base, step)
  <2>1. step \in [more \X V -> V]
    BY <1>2
  <2>2. next \in [more -> 1 .. n] /\ \A i \in more : i < next[i]
    BY <1>2
  <2>3. base \in [1 .. n -> V]
    OBVIOUS
  <2> HIDE DEF V, step, base, next
  <2> QED
    BY <1>1, <2>1, <2>2, <2>3 DEF LooksAhead
<1>5. PICK f \in [1 .. n -> V] :
        /\ Solves(f, n, V, more, next, base, step)
        /\ \A g : Solves(g, n, V, more, next, base, step) => \A i \in 1 .. n : g[i] = f[i]
  <2> HIDE DEF V, next, base, step
  <2> QED
    BY <1>1, <1>4, Recursion
<1>6. \A i \in more : next[i] = copy[i].src
  OBVIOUS
<1>7. /\ \A i \in 1 .. n \ more : f[i] = <<>>
      /\ \A i \in more : f[copy[i].src] \in V /\ f[i] = <<copy[i].dst>> \o f[copy[i].src]
  <2>1. \A i \in 1 .. n \ more : f[i] = <<>>
    BY <1>5 DEF Solves
  <2>2. ASSUME NEW i \in more
        PROVE  f[copy[i].src] \in V /\ f[i] = <<copy[i].dst>> \o f[copy[i].src]
    <3>1. f[copy[i].src] \in V
      BY <1>2
    <3> HIDE DEF V, next, step
    <3>2. f[i] = step[<<i, f[next[i]]>>]
      BY <1>1, <1>5, <1>6, <3>1 DEF Solves
    <3> QED
      BY <1>3, <1>6, <3>1, <3>2
  <2> QED
    BY <2>1, <2>2
<1>8. Is(f)
  <2> HIDE DEF V
  <2> QED
    BY <1>1, <1>7
<1>9. Split(line) = (CHOOSE g : Is(g))[1]
  BY DEF Split, copy
<1> DEFINE argv == CHOOSE g : Is(g)
<1>10. Is(argv)
  <2> HIDE DEF Is
  <2> QED
    BY <1>8
<1> HIDE DEF argv
<1>11. /\ \A i \in 1 .. n \ more : argv[i] = <<>>
       /\ \A i \in more : argv[i] = <<copy[i].dst>> \o argv[copy[i].src]
  BY <1>1, <1>10
<1>12. Solves(argv, n, V, more, next, base, step)
  <2>1. \A i \in 1 .. n \ more : argv[i] = base[i]
    BY <1>11
  <2>2. \A i \in more : argv[next[i]] \in V => argv[i] = step[<<i, argv[next[i]]>>]
    <3> SUFFICES ASSUME NEW i \in more, argv[next[i]] \in V
                 PROVE  argv[i] = step[<<i, argv[next[i]]>>]
      OBVIOUS
    <3>1. step[<<i, argv[next[i]]>>] = <<copy[i].dst>> \o argv[next[i]]
      <4> HIDE DEF V, step, next
      <4> QED
        BY <1>3
    <3> QED
      BY <1>6, <1>11, <3>1
  <2> HIDE DEF V, step, next, base
  <2> QED
    BY <2>1, <2>2 DEF Solves
<1>13. \A i \in 1 .. n : argv[i] = f[i]
  BY <1>5, <1>12
<1>14. argv \in [1 .. n -> V]
  <2> HIDE DEF V
  <2> QED
    BY <1>1, <1>10, <1>13
<1>15. Split(line) = argv[1]
  BY <1>9 DEF argv
<1>16. argv \in [Places(line) -> V]
  BY <1>1, <1>14
<1>17. argv[End(line)] = <<>>
  BY <1>1, <1>11 DEF n
<1>18. \A i \in DOMAIN line :
         argv[i] = <<ArgumentCopy(line)[i].dst>> \o argv[ArgumentCopy(line)[i].src]
  BY <1>11 DEF more, copy
<1> QED
  BY <1>15, <1>16, <1>17, <1>18

(* The constructor makes words of any line: its passes always come to the  *)
(* end of it (Arguments.cpp:59-81).                                        *)
THEOREM SplitType == \A line \in Seq(Characters) : Split(line) \in Seq(Seq(Characters))
  BY SplitIs, LinePlaces

-----------------------------------------------------------------------------
(* Putting a line together, which goes forwards; Recursion is used with    *)
(* the words counted from the last one.                                    *)
Gap(w) == IF w > 1 THEN <<Space>> ELSE <<>>

LEMMA JoinedIs ==
  ASSUME NEW words \in Seq(Seq(Characters))
  PROVE  \E line \in [0 .. Len(words) -> Seq(Characters)] :
           /\ Joined(words) = line[Len(words)] /\ line[0] = <<>>
           /\ \A w \in DOMAIN words : line[w] = line[w - 1] \o Gap(w) \o words[w]
<1> DEFINE m == Len(words)
           n == m + 1
           V == Seq(Characters)
           more == 1 .. m
           next == [i \in more |-> i + 1]
           base == [i \in 1 .. n |-> <<>>]
           step == [x \in more \X V |-> x[2] \o Gap(n - x[1]) \o words[n - x[1]]]
           Is(g) == g = [w \in 0 .. m |-> IF w = 0 THEN <<>>
                                         ELSE g[w - 1] \o Gap(w) \o words[w]]
<1>1. /\ m \in Nat /\ n \in Nat /\ DOMAIN words = 1 .. m /\ \A w \in 1 .. m : words[w] \in V
      /\ \A i \in 1 .. m : n - i \in 1 .. m
  OBVIOUS
<1>2. \A w : Gap(w) \in V
  BY CharactersAssumption DEF Gap
<1>3. ASSUME NEW i \in more, NEW v \in V
      PROVE  /\ step[<<i, v>>] = v \o Gap(n - i) \o words[n - i]
             /\ v \o Gap(n - i) \o words[n - i] \in V
  <2>1. words[n - i] \in V /\ Gap(n - i) \in V
    BY <1>1, <1>2
  <2>2. v \o Gap(n - i) \o words[n - i] \in V
    BY <2>1
  <2>3. step[<<i, v>>] = v \o Gap(n - i) \o words[n - i]
    <3> HIDE DEF n, more, V
    <3> QED
      OBVIOUS
  <2> QED
    BY <2>2, <2>3
<1>4. LooksAhead(n, V, more, next, base, step)
  <2>1. step \in [more \X V -> V]
    BY <1>3
  <2> HIDE DEF step
  <2> QED
    BY <1>1, <2>1 DEF LooksAhead
<1>5. PICK f \in [1 .. n -> V] :
        /\ Solves(f, n, V, more, next, base, step)
        /\ \A g : Solves(g, n, V, more, next, base, step) => \A i \in 1 .. n : g[i] = f[i]
  <2> HIDE DEF n, V, more, next, base, step
  <2> QED
    BY <1>1, <1>4, Recursion
<1>6. f[n] = <<>> /\ \A i \in more : f[i] = f[i + 1] \o Gap(n - i) \o words[n - i]
  <2>1. n \in 1 .. n /\ n \notin more
    BY <1>1
  <2>2. f[n] = <<>>
    BY <1>5, <2>1 DEF Solves
  <2>3. ASSUME NEW i \in more PROVE f[i] = f[i + 1] \o Gap(n - i) \o words[n - i]
    <3>1. i \in 1 .. n /\ next[i] = i + 1 /\ i + 1 \in 1 .. n
      <4> HIDE DEF m
      <4> QED
        BY <1>1
    <3>2. f[i + 1] \in V
      <4> HIDE DEF n, V
      <4> QED
        BY <3>1
    <3> HIDE DEF step, next, V
    <3>3. f[i] = step[<<i, f[i + 1]>>]
      BY <1>5, <3>1, <3>2 DEF Solves
    <3> QED
      BY <1>3, <3>2, <3>3
  <2> QED
    BY <2>2, <2>3
<1> DEFINE mirrored == [w \in 0 .. m |-> f[n - w]]
<1>7. Is(mirrored)
  <2>1. ASSUME NEW w \in 0 .. m
        PROVE  mirrored[w] = IF w = 0 THEN <<>> ELSE mirrored[w - 1] \o Gap(w) \o words[w]
    <3>1. CASE w = 0
      BY <1>1, <1>6, <3>1
    <3>2. CASE w # 0
      <4>1. n - w \in more /\ n - (n - w) = w /\ w - 1 \in 0 .. m /\ n - (w - 1) = (n - w) + 1
        BY <1>1, <3>2
      <4>2. f[n - w] = f[(n - w) + 1] \o Gap(w) \o words[w]
        BY <1>6, <4>1
      <4> QED
        BY <3>2, <4>1, <4>2
    <3> QED
      BY <3>1, <3>2
  <2>2. mirrored = [w \in 0 .. m |-> mirrored[w]]
    OBVIOUS
  <2> HIDE DEF mirrored
  <2> QED
    BY <2>1, <2>2
<1> DEFINE line == CHOOSE g : Is(g)
<1>8. Joined(words) = line[m]
  BY DEF Joined, Gap
<1>9. Is(line)
  <2> HIDE DEF Is, mirrored
  <2> QED
    BY <1>7
<1> HIDE DEF line, mirrored
<1>10. /\ line = [w \in 0 .. m |-> line[w]] /\ line[0] = <<>>
       /\ \A w \in 1 .. m : line[w] = line[w - 1] \o Gap(w) \o words[w]
  <2> DEFINE next1(w) == line[w - 1] \o Gap(w) \o words[w]
  <2> HIDE DEF m
  <2>1. line = [w \in 0 .. m |-> IF w = 0 THEN <<>> ELSE next1(w)]
    BY <1>9
  <2> HIDE DEF next1
  <2>2. line = [w \in 0 .. m |-> line[w]]
    BY <2>1
  <2>3. line[0] = <<>> /\ \A w \in 1 .. m : line[w] = next1(w)
    BY <1>1, <2>1
  <2> QED
    BY <2>2, <2>3 DEF next1
<1> DEFINE g == [i \in 1 .. n |-> line[n - i]]
<1>11. Solves(g, n, V, more, next, base, step)
  <2>1. ASSUME NEW i \in 1 .. n, i \notin more PROVE g[i] = base[i]
    <3>1. i = n
      BY <1>1, <2>1
    <3>2. n - n = 0
      BY <1>1
    <3> QED
      BY <1>1, <1>10, <3>1, <3>2
  <2>2. ASSUME NEW i \in more, g[next[i]] \in V PROVE g[i] = step[<<i, g[next[i]]>>]
    <3>1. next[i] = i + 1 /\ i \in 1 .. n /\ i + 1 \in 1 .. n /\ n - i \in 1 .. m
          /\ n - (i + 1) = (n - i) - 1
      BY <1>1
    <3>2. g[next[i]] = line[(n - i) - 1] /\ g[i] = line[n - i]
      BY <3>1
    <3>3. step[<<i, g[next[i]]>>] = g[next[i]] \o Gap(n - i) \o words[n - i]
      <4> HIDE DEF g, step, V, next, more, n
      <4> QED
        BY <1>3, <2>2
    <3> HIDE DEF step, next, g, n
    <3> QED
      BY <1>10, <3>1, <3>2, <3>3
  <2> HIDE DEF V, step, next, base, g
  <2> QED
    BY <2>1, <2>2 DEF Solves
<1>12. \A i \in 1 .. n : g[i] = f[i]
  <2> HIDE DEF g
  <2> QED
    BY <1>5, <1>11
<1>13. ASSUME NEW w \in 0 .. m PROVE line[w] \in V
  <2>1. n - w \in 1 .. n /\ n - (n - w) = w
    BY <1>1
  <2>2. line[w] = f[n - w]
    BY <1>12, <2>1
  <2> QED
    BY <2>1, <2>2
<1>14. line \in [0 .. m -> V]
  <2> HIDE DEF V
  <2> QED
    BY <1>10, <1>13
<1> QED
  BY <1>1, <1>8, <1>10, <1>14

LEMMA JoinedType ==
  ASSUME NEW words \in Seq(Seq(Characters))
  PROVE  Joined(words) \in Seq(Characters)
<1>1. PICK line \in [0 .. Len(words) -> Seq(Characters)] : Joined(words) = line[Len(words)]
  BY JoinedIs
<1>2. Len(words) \in 0 .. Len(words)
  OBVIOUS
<1> DEFINE m == Len(words)
<1> HIDE DEF m
<1>3. line \in [0 .. m -> Seq(Characters)] /\ m \in 0 .. m /\ Joined(words) = line[m]
  BY <1>1, <1>2 DEF m
<1> QED
  BY <1>3

-----------------------------------------------------------------------------
(* Counting places.                                                        *)
LEMMA BeforeType ==
  ASSUME NEW S \in SUBSET Nat, NEW i \in Nat
  PROVE  IsFiniteSet({j \in S : j < i}) /\ Before(S, i) \in Nat
<1>1. IsFiniteSet(0 .. i)
  BY FS_Interval
<1>2. {j \in S : j < i} \in SUBSET (0 .. i)
  <2>1. ASSUME NEW j \in S, j < i PROVE j \in 0 .. i
    <3>1. j \in Nat
      OBVIOUS
    <3> QED
      BY <2>1, <3>1
  <2> QED
    BY <2>1
<1>3. IsFiniteSet({j \in S : j < i})
  BY <1>1, <1>2, FS_Subset
<1> QED
  BY <1>3, FS_CardinalityType DEF Before

LEMMA BeforeSame ==
  ASSUME NEW S \in SUBSET Nat, NEW i \in Nat, NEW k \in Nat, i <= k,
         \A g \in S : i <= g => k <= g
  PROVE  Before(S, k) = Before(S, i)
<1>1. ASSUME NEW j \in S PROVE j < k <=> j < i
  <2>1. j \in Nat
    OBVIOUS
  <2> QED
    BY <2>1
<1>2. {j \in S : j < k} = {j \in S : j < i}
  BY <1>1
<1> QED
  BY <1>2 DEF Before

LEMMA BeforeNext ==
  ASSUME NEW S \in SUBSET Nat, NEW i \in Nat, NEW g \in S, i <= g,
         \A h \in S : i <= h => g <= h
  PROVE  Before(S, g + 1) = Before(S, i) + 1
<1> DEFINE A == {j \in S : j < i}
           B == {j \in S : j < g + 1}
<1>1. g \in Nat
  OBVIOUS
<1>2. ASSUME NEW j \in S PROVE j < g + 1 <=> j < i \/ j = g
  <2>1. j \in Nat
    OBVIOUS
  <2> QED
    BY <1>1, <2>1
<1>3. B = A \cup {g} /\ g \notin A
  <2>1. ~ (g < i)
    BY <1>1
  <2>2. B = {j \in S : j < i \/ j = g}
    BY <1>2
  <2> QED
    BY <2>1, <2>2
<1>4. IsFiniteSet(A) /\ Cardinality(A) = Before(S, i) /\ Cardinality(B) = Before(S, g + 1)
  BY BeforeType DEF Before
<1> HIDE DEF A, B
<1> QED
  BY <1>3, <1>4, FS_AddElement

LEMMA BeforeMore ==
  ASSUME NEW S \in SUBSET Nat, NEW i \in Nat, NEW k \in Nat, NEW g \in S, i <= g, g < k
  PROVE  Before(S, i) < Before(S, k)
<1> DEFINE A == {j \in S : j < i}
           B == {j \in S : j < k}
<1>1. /\ IsFiniteSet(A) /\ Cardinality(A) \in Nat /\ IsFiniteSet(B) /\ Cardinality(B) \in Nat
  BY BeforeType DEF Before
<1>2. g \in Nat
  OBVIOUS
<1>3. ASSUME NEW j \in S PROVE j < i => j < k
  <2>1. j \in Nat
    OBVIOUS
  <2> QED
    BY <1>2, <2>1
<1>4. A \cup {g} \in SUBSET B /\ g \notin A
  <2>1. g \in B /\ ~ (g < i)
    BY <1>2
  <2>2. A \in SUBSET B
    BY <1>3
  <2> QED
    BY <2>1, <2>2
<1>5. Cardinality(A) = Before(S, i) /\ Cardinality(B) = Before(S, k)
  BY DEF Before
<1> HIDE DEF A, B
<1>6. Cardinality(A \cup {g}) = Cardinality(A) + 1
  BY <1>1, <1>4, FS_AddElement
<1>7. Cardinality(A \cup {g}) <= Cardinality(B)
  BY <1>1, <1>4, FS_Subset
<1> QED
  BY <1>1, <1>5, <1>6, <1>7

(* The characters of a word are those at the places P, in their order.     *)
Enumerates(word, line, P) ==
  /\ Len(word) = Cardinality(P)
  /\ \A n \in 1 .. Len(word) : \E k \in P : Before(P, k) + 1 = n /\ word[n] = line[k]

LEMMA EnumeratesNone ==
  ASSUME NEW line
  PROVE  Enumerates(<<>>, line, {})
  BY FS_EmptySet DEF Enumerates

LEMMA EnumeratesFirst ==
  ASSUME NEW line, NEW P \in SUBSET Nat, IsFiniteSet(P), NEW c \in Nat, \A k \in P : c < k,
         NEW word \in Seq(Characters), line[c] \in Characters, Enumerates(word, line, P)
  PROVE  Enumerates(<<line[c]>> \o word, line, P \cup {c})
<1> DEFINE Q == P \cup {c}
           longer == <<line[c]>> \o word
<1>1. c \notin P /\ Q \in SUBSET Nat
  OBVIOUS
<1>2. Cardinality(Q) = Cardinality(P) + 1 /\ Cardinality(P) \in Nat
  BY <1>1, FS_AddElement, FS_CardinalityType
<1>3. /\ Len(longer) = Len(word) + 1 /\ Len(word) \in Nat /\ longer[1] = line[c]
      /\ \A n \in 2 .. Len(word) + 1 : longer[n] = word[n - 1]
  OBVIOUS
<1>4. Before(Q, c) = 0
  <2>1. ASSUME NEW j \in Q PROVE ~ (j < c)
    OBVIOUS
  <2>2. {j \in Q : j < c} = {}
    BY <2>1
  <2> QED
    BY <2>2, FS_EmptySet DEF Before
<1>5. ASSUME NEW k \in P PROVE Before(Q, k) = Before(P, k) + 1 /\ Before(P, k) \in Nat
  <2> DEFINE A == {j \in P : j < k}
             B == {j \in Q : j < k}
  <2>1. k \in Nat /\ c < k
    OBVIOUS
  <2>2. B = A \cup {c} /\ c \notin A
    BY <1>1, <2>1
  <2>3. /\ IsFiniteSet(A) /\ Cardinality(A) = Before(P, k) /\ Cardinality(B) = Before(Q, k)
        /\ Before(P, k) \in Nat
    BY <2>1, BeforeType DEF Before
  <2> HIDE DEF A, B
  <2> QED
    BY <2>2, <2>3, FS_AddElement
<1>6. ASSUME NEW n \in 1 .. Len(longer)
      PROVE  \E k \in Q : Before(Q, k) + 1 = n /\ longer[n] = line[k]
  <2>1. CASE n = 1
    BY <1>3, <1>4, <2>1
  <2>2. CASE n # 1
    <3>1. n - 1 \in 1 .. Len(word) /\ longer[n] = word[n - 1]
      BY <1>3, <2>2
    <3>2. PICK k \in P : Before(P, k) + 1 = n - 1 /\ word[n - 1] = line[k]
      BY <3>1 DEF Enumerates
    <3>3. Before(Q, k) + 1 = n
      <4>1. Before(Q, k) = Before(P, k) + 1 /\ Before(P, k) \in Nat
        BY <1>5
      <4>2. n \in Nat
        BY <1>3
      <4> QED
        BY <3>2, <4>1, <4>2
    <3> QED
      BY <3>1, <3>2, <3>3
  <2> QED
    BY <2>1, <2>2
<1> HIDE DEF Q, longer
<1>7. Len(word) = Cardinality(P)
  BY DEF Enumerates
<1>8. Enumerates(longer, line, Q)
  BY <1>2, <1>3, <1>6, <1>7 DEF Enumerates
<1> QED
  BY <1>8 DEF Q, longer

Listed(line, P) ==
  [n \in 1 .. Cardinality(P) |-> line[CHOOSE i \in P : Before(P, i) = n - 1]]

LEMMA EnumeratesOnly ==
  ASSUME NEW line, NEW P \in SUBSET Nat, NEW word \in Seq(Characters),
         Enumerates(word, line, P)
  PROVE  word = Listed(line, P)
<1>1. ASSUME NEW n \in 1 .. Len(word)
      PROVE  word[n] = line[CHOOSE i \in P : Before(P, i) = n - 1]
  <2>1. PICK k \in P : Before(P, k) + 1 = n /\ word[n] = line[k]
    BY DEF Enumerates
  <2>2. k \in Nat /\ Before(P, k) \in Nat
    BY BeforeType
  <2>3. Before(P, k) = n - 1
    BY <2>1, <2>2
  <2> DEFINE c == CHOOSE i \in P : Before(P, i) = n - 1
  <2>4. c \in P /\ Before(P, c) = n - 1
    BY <2>3
  <2> HIDE DEF c
  <2>5. c \in Nat
    BY <2>4
  <2>6. c < k => Before(P, c) < Before(P, k)
    BY <2>2, <2>4, <2>5, BeforeMore
  <2>7. k < c => Before(P, k) < Before(P, c)
    BY <2>2, <2>5, BeforeMore
  <2>8. c = k
    BY <2>2, <2>3, <2>4, <2>5, <2>6, <2>7
  <2> QED
    BY <2>1, <2>8 DEF c
<1>2. word = [n \in 1 .. Len(word) |-> word[n]]
  OBVIOUS
<1> QED
  BY <1>1, <1>2 DEF Enumerates, Listed
-----------------------------------------------------------------------------
(* Places at which a character starts, with its backslash if it has one.   *)
Unescaped(line) == {i \in Places(line) : ~ Escaped(line, i)}

LEMMA EscapedNext ==
  ASSUME NEW line \in Seq(Characters), NEW i \in DOMAIN line
  PROVE  Escaped(line, i + 1) <=> line[i] = Escape /\ ~ Escaped(line, i)
<1> DEFINE run == {j \in 1 .. i - 1 : \A k \in j .. i - 1 : line[k] = Escape}
           longer == {j \in 1 .. i : \A k \in j .. i : line[k] = Escape}
<1>1. i \in Nat /\ (i + 1) - 1 = i
  BY LinePlaces
<1>2. /\ Escaped(line, i) <=> Cardinality(run) % 2 = 1
      /\ Escaped(line, i + 1) <=> Cardinality(longer) % 2 = 1
  BY <1>1 DEF Escaped
<1>3. IsFiniteSet(run) /\ Cardinality(run) \in Nat /\ i \notin run
  <2>1. run \in SUBSET (1 .. i - 1)
    OBVIOUS
  <2>2. IsFiniteSet(run)
    <3>1. 1 \in Int /\ i - 1 \in Int
      BY <1>1
    <3>2. IsFiniteSet(1 .. i - 1)
      BY <3>1, FS_Interval
    <3> QED
      BY <2>1, <3>2, FS_Subset
  <2>3. i \notin run
    BY <1>1
  <2> QED
    BY <2>2, <2>3, FS_CardinalityType
<1>4. CASE line[i] # Escape
  <2>1. longer = {}
    BY <1>1, <1>4
  <2> HIDE DEF longer, run
  <2>2. Cardinality(longer) = 0
    BY <2>1, FS_EmptySet
  <2> QED
    BY <1>2, <1>4, <2>2
<1>5. CASE line[i] = Escape
  <2>1. ASSUME NEW j \in 1 .. i
        PROVE  (\A k \in j .. i : line[k] = Escape) <=>
                 j = i \/ (\A k \in j .. i - 1 : line[k] = Escape)
    <3>1. j .. i = (j .. i - 1) \cup {i}
      BY <1>1
    <3>2. j = i => j .. i - 1 = {}
      BY <1>1
    <3> QED
      BY <1>5, <3>1, <3>2
  <2>2. 1 .. i = (1 .. i - 1) \cup {i}
    BY <1>1, LinePlaces
  <2>3. longer = run \cup {i}
    BY <2>1, <2>2
  <2> HIDE DEF longer, run
  <2>4. Cardinality(longer) = Cardinality(run) + 1
    BY <1>3, <2>3, FS_AddElement
  <2> QED
    BY <1>2, <1>3, <1>5, <2>4
<1> QED
  BY <1>4, <1>5

LEMMA UnescapedFirst ==
  ASSUME NEW line \in Seq(Characters)
  PROVE  1 \in Unescaped(line)
<1>1. {j \in 1 .. 1 - 1 : \A k \in j .. 1 - 1 : line[k] = Escape} = {}
  OBVIOUS
<1>2. ~ Escaped(line, 1)
  BY <1>1, FS_EmptySet DEF Escaped
<1> QED
  BY <1>2, LinePlaces DEF Unescaped

(* What the reference says of the character that starts at a place.        *)
LEMMA Units ==
  ASSUME NEW line \in Seq(Characters), NEW i \in Unescaped(line), i # End(line)
  PROVE  /\ i \in Goes(line) =>
              /\ Char(line, i) \in Contents(line) /\ Char(line, i) + 1 \in Unescaped(line)
              /\ \A k \in i .. Char(line, i) :
                   k \notin Separators(line) /\ (k # Char(line, i) => k \notin Contents(line))
         /\ At(line, i) = Space => i \in Separators(line) /\ i + 1 \in Unescaped(line)
         /\ i \notin Goes(line) /\ At(line, i) # Space =>
              /\ i = Len(line) /\ i \notin Contents(line) /\ Stop(line, i) = End(line)
<1>1. /\ i \in DOMAIN line /\ i \in Places(line) /\ i + 1 \in Places(line) /\ At(line, i) = line[i]
      /\ i \in Nat /\ ~ Escaped(line, i)
  BY LinePlaces DEF Unescaped
<1>2. Escaped(line, i + 1) <=> line[i] = Escape
  BY <1>1, EscapedNext
<1>3. CASE line[i] = Escape
  <2>1. Char(line, i) = i + 1 /\ line[i] # Space
    BY <1>1, <1>3, LinePlaces DEF Char
  <2>2. i \notin Contents(line) /\ i \notin Separators(line)
    BY <1>1, <1>3, <2>1 DEF Contents, Separators
  <2>3. CASE i + 1 = End(line)
    <3>1. i \notin Goes(line) /\ i = Len(line) /\ Stop(line, i) = End(line)
      BY <1>1, <2>1, <2>3, LinePlaces DEF Goes, Stop
    <3> QED
      BY <1>1, <2>1, <2>2, <3>1
  <2>4. CASE i + 1 # End(line)
    <3>1. i + 1 \in DOMAIN line /\ (i + 1) + 1 \in Places(line)
      BY <1>1, <2>4, LinePlaces
    <3>2. ~ Escaped(line, (i + 1) + 1)
      BY <1>2, <1>3, <3>1, EscapedNext
    <3>3. i + 1 \in Contents(line) /\ i + 1 \notin Separators(line)
      BY <1>2, <1>3, <3>1 DEF Contents, Separators
    <3>4. (i + 1) + 1 \in Unescaped(line)
      BY <3>1, <3>2 DEF Unescaped
    <3>5. At(line, i + 1) # Nul
      BY <1>1, <2>4, LinePlaces
    <3>6. i \in Goes(line)
      BY <1>1, <2>1, <3>5 DEF Goes
    <3>7. \A k \in i .. i + 1 : k = i \/ k = i + 1
      BY <1>1
    <3> QED
      BY <1>1, <2>1, <2>2, <3>3, <3>4, <3>6, <3>7
  <2> QED
    BY <2>3, <2>4
<1>4. CASE line[i] # Escape
  <2>1. Char(line, i) = i /\ i + 1 \in Unescaped(line) /\ \A k \in i .. i : k = i
    BY <1>1, <1>2, <1>4 DEF Char, Unescaped
  <2>2. At(line, i) # Nul
    BY <1>1, LinePlaces
  <2>3. CASE line[i] = Space
    <3>1. i \in Separators(line) /\ i \notin Goes(line)
      BY <1>1, <2>3 DEF Separators, Goes
    <3> QED
      BY <1>1, <2>1, <2>3, <3>1
  <2>4. CASE line[i] # Space
    <3>1. i \in Contents(line) /\ i \notin Separators(line) /\ i \in Goes(line)
      BY <1>1, <1>4, <2>1, <2>2, <2>4 DEF Contents, Separators, Goes
    <3> QED
      BY <1>1, <2>1, <2>4, <3>1
  <2> QED
    BY <2>3, <2>4
<1> QED
  BY <1>3, <1>4

LEMMA SpacesSkipped ==
  ASSUME NEW line \in Seq(Characters), NEW i \in Unescaped(line)
  PROVE  LET after == AfterSpaces(line)[i]
         IN  /\ after \in Unescaped(line) /\ At(line, after) # Space
             /\ i .. after - 1 \subseteq Separators(line)
<1> DEFINE after == AfterSpaces(line)
           S == {k \in Places(line) : k \in Unescaped(line) =>
                   /\ after[k] \in Unescaped(line) /\ At(line, after[k]) # Space
                   /\ \A m \in k .. after[k] - 1 : m \in Separators(line)}
<1>1. /\ End(line) \in Nat /\ Places(line) = 1 .. End(line)
      /\ Unescaped(line) \subseteq Places(line)
      /\ after \in [Places(line) -> Places(line)]
      /\ \A k \in Places(line) : after[k] = IF At(line, k) = Space THEN after[k + 1] ELSE k
  BY LinePlaces, AfterSpacesIs DEF Unescaped
<1> HIDE DEF after
<1>2. ASSUME NEW k \in 1 .. End(line), \A j \in k + 1 .. End(line) : j \in S
      PROVE  k \in S
  <2> SUFFICES ASSUME k \in Unescaped(line)
               PROVE  /\ after[k] \in Unescaped(line) /\ At(line, after[k]) # Space
                      /\ \A m \in k .. after[k] - 1 : m \in Separators(line)
    BY <1>1
  <2>1. CASE At(line, k) = Space
    <3>1. k # End(line)
      BY <2>1, LinePlaces
    <3>2. k \in Separators(line) /\ k + 1 \in Unescaped(line)
      BY <2>1, <3>1, Units
    <3>3. k + 1 \in S /\ after[k] = after[k + 1] /\ after[k] \in Nat
      BY <1>1, <1>2, <2>1, <3>2
    <3>4. \A m \in k .. after[k] - 1 : m = k \/ m \in k + 1 .. after[k] - 1
      BY <1>1, <3>3
    <3> QED
      BY <3>2, <3>3, <3>4
  <2>2. CASE At(line, k) # Space
    BY <1>1, <2>2
  <2> QED
    BY <2>1, <2>2
<1>3. 1 .. End(line) \subseteq S
  <2> HIDE DEF S
  <2> QED
    BY <1>1, <1>2, Backwards
<1>4. i \in S
  BY <1>1, <1>3
<1> QED
  BY <1>4 DEF after
(* Where the reference has its words and gaps.                             *)
LEMMA ReferencePlaces ==
  ASSUME NEW line \in Seq(Characters)
  PROVE  /\ GapEnds(line) \in SUBSET Separators(line) /\ Separators(line) \in SUBSET DOMAIN line
         /\ Contents(line) \in SUBSET DOMAIN line /\ Contents(line) \cap Separators(line) = {}
         /\ GapEnds(line) \in SUBSET Nat /\ Contents(line) \in SUBSET Nat
         /\ GapEnds(line) \in SUBSET (1 .. Len(line))
         /\ Unescaped(line) \in SUBSET Places(line) /\ Goes(line) \in SUBSET Places(line)
         /\ IsFiniteSet(GapEnds(line)) /\ IsFiniteSet(Contents(line))
         /\ \A k \in GapEnds(line) : k \in Nat /\ 1 <= k /\ k <= Len(line)
         /\ \A k \in Contents(line) : k \in Nat /\ 1 <= k /\ k <= Len(line)
<1>1. DOMAIN line = 1 .. Len(line) /\ Len(line) \in Nat
  BY LinePlaces
<1>2. IsFiniteSet(DOMAIN line) /\ DOMAIN line \in SUBSET Nat
  BY <1>1, FS_Interval
<1>3. /\ GapEnds(line) \in SUBSET Separators(line) /\ Separators(line) \in SUBSET DOMAIN line
      /\ Contents(line) \in SUBSET DOMAIN line
  BY DEF GapEnds, Separators, Contents
<1>4. Contents(line) \cap Separators(line) = {}
  BY DEF Separators, Contents
<1>5. Unescaped(line) \in SUBSET Places(line) /\ Goes(line) \in SUBSET Places(line)
  BY DEF Unescaped, Goes
<1>6. GapEnds(line) \in SUBSET DOMAIN line
  BY <1>3
<1>7. IsFiniteSet(GapEnds(line)) /\ IsFiniteSet(Contents(line))
  BY <1>2, <1>3, <1>6, FS_Subset
<1> QED
  BY <1>1, <1>2, <1>3, <1>4, <1>5, <1>6, <1>7

(* One word is copied up to the next gap, and all of it.                   *)
LEMMA CopyIsNextWord ==
  ASSUME NEW line \in Seq(Characters), NEW i \in Unescaped(line)
  PROVE  LET copied == ArgumentCopy(line)[i]
         IN  /\ copied.src \in Unescaped(line) \cup {End(line)} /\ i <= copied.src
             /\ \A g \in GapEnds(line) : i <= g => copied.src <= g + 1
             /\ copied.src # End(line) => copied.src - 1 \in GapEnds(line)
             /\ Enumerates(copied.dst, line, {k \in Contents(line) : i <= k /\ k < copied.src})
<1> DEFINE copy == ArgumentCopy(line)
           word(k) == {c \in Contents(line) : k <= c /\ c < copy[k].src}
           S == {k \in Places(line) : k \in Unescaped(line) =>
                   /\ copy[k].src \in Unescaped(line) \cup {End(line)} /\ k <= copy[k].src
                   /\ \A g \in GapEnds(line) : k <= g => copy[k].src <= g + 1
                   /\ copy[k].src # End(line) => copy[k].src - 1 \in GapEnds(line)
                   /\ Enumerates(copy[k].dst, line, word(k))}
<1>1. End(line) \in Nat /\ Places(line) = 1 .. End(line) /\ End(line) = Len(line) + 1
  BY LinePlaces
<1>2. /\ copy \in [Places(line) -> [src : Places(line), dst : Seq(Characters)]]
      /\ \A k \in Places(line) \ Goes(line) : copy[k] = [src |-> Stop(line, k), dst |-> <<>>]
      /\ \A k \in Goes(line) :
           copy[k] = [copy[Char(line, k) + 1] EXCEPT !.dst = <<line[Char(line, k)]>> \o @]
  BY ArgumentCopyIs
<1> HIDE DEF copy
<1>3. ASSUME NEW k \in 1 .. End(line), \A j \in k + 1 .. End(line) : j \in S
      PROVE  k \in S
  <2> SUFFICES ASSUME k \in Unescaped(line)
               PROVE  /\ copy[k].src \in Unescaped(line) \cup {End(line)} /\ k <= copy[k].src
                      /\ \A g \in GapEnds(line) : k <= g => copy[k].src <= g + 1
                      /\ copy[k].src # End(line) => copy[k].src - 1 \in GapEnds(line)
                      /\ Enumerates(copy[k].dst, line, word(k))
    BY <1>1
  <2>1. CASE k \in Goes(line)
    <3> DEFINE char == Char(line, k)
               next == char + 1
    <3>1. /\ char \in Nat /\ k <= char /\ k < next /\ next \in Places(line)
          /\ line[char] \in Characters /\ k # End(line)
      BY <1>1, <2>1, GoesOn
    <3>2. /\ char \in Contents(line) /\ next \in Unescaped(line)
          /\ \A m \in k .. char :
               m \notin Separators(line) /\ (m # char => m \notin Contents(line))
      BY <2>1, <3>1, Units
    <3>3. next \in S
      <4>1. next \in k + 1 .. End(line)
        BY <1>1, <3>1
      <4> HIDE DEF next, S
      <4> QED
        BY <1>3, <4>1
    <3>4. copy[k].src = copy[next].src /\ copy[k].dst = <<line[char]>> \o copy[next].dst
      <4>1. copy[next] \in [src : Places(line), dst : Seq(Characters)]
        BY <1>2, <3>1
      <4> QED
        BY <1>2, <2>1, <4>1
    <3>5. /\ copy[next].src \in Unescaped(line) \cup {End(line)} /\ next <= copy[next].src
          /\ \A g \in GapEnds(line) : next <= g => copy[next].src <= g + 1
          /\ copy[next].src # End(line) => copy[next].src - 1 \in GapEnds(line)
          /\ Enumerates(copy[next].dst, line, word(next))
      BY <3>2, <3>3
    <3>6. copy[next].src \in Nat /\ copy[next].dst \in Seq(Characters)
      BY <1>1, <1>2, <3>1
    <3> HIDE DEF char
    <3>7. \A g \in GapEnds(line) : k <= g => next <= g
      <4> SUFFICES ASSUME NEW g \in GapEnds(line), k <= g PROVE next <= g
        OBVIOUS
      <4>1. g \in Nat /\ g \in Separators(line)
        BY ReferencePlaces
      <4>2. g \notin k .. char
        BY <3>2, <4>1
      <4> QED
        BY <1>1, <3>1, <4>1, <4>2
    <3>8. word(k) = word(next) \cup {char}
      <4>1. ASSUME NEW c \in Contents(line)
            PROVE  k <= c /\ c < copy[k].src <=> (next <= c /\ c < copy[next].src) \/ c = char
        <5>1. c \in Nat
          BY ReferencePlaces
        <5>2. c \in k .. char => c = char
          BY <3>2
        <5> QED
          BY <1>1, <3>1, <3>4, <3>5, <3>6, <5>1, <5>2
      <4> QED
        BY <3>2, <4>1
    <3>9. Enumerates(copy[k].dst, line, word(k))
      <4>1. word(next) \in SUBSET Contents(line)
        OBVIOUS
      <4>2. word(next) \in SUBSET Nat /\ IsFiniteSet(word(next))
        BY <4>1, ReferencePlaces, FS_Subset
      <4>3. \A c \in word(next) : char < c
        <5> SUFFICES ASSUME NEW c \in Contents(line), next <= c PROVE char < c
          OBVIOUS
        <5> QED
          BY <3>1, ReferencePlaces
      <4> HIDE DEF word, next
      <4>4. Enumerates(<<line[char]>> \o copy[next].dst, line, word(next) \cup {char})
        BY <3>1, <3>5, <3>6, <4>2, <4>3, EnumeratesFirst
      <4> QED
        BY <3>4, <3>8, <4>4
    <3>10. k <= copy[k].src
      BY <1>1, <3>1, <3>4, <3>5, <3>6
    <3> HIDE DEF next, word
    <3> QED
      BY <3>4, <3>5, <3>7, <3>9, <3>10
  <2>2. CASE At(line, k) = Space
    <3> DEFINE after == AfterSpaces(line)[k]
    <3>1. k \notin Goes(line) /\ Stop(line, k) = after
      BY <2>2 DEF Goes, Stop
    <3>2. copy[k].src = after /\ copy[k].dst = <<>>
      BY <1>1, <1>2, <3>1
    <3>3. /\ after \in Unescaped(line) /\ At(line, after) # Space
          /\ \A m \in k .. after - 1 : m \in Separators(line)
      BY SpacesSkipped
    <3>4. k < after /\ after \in Places(line) /\ after \in Nat /\ k \in Nat
      BY <1>1, <2>2, SpacesPassed, AfterSpacesIs
    <3> HIDE DEF after
    <3>5. \A g \in GapEnds(line) : k <= g => after <= g + 1
      <4> SUFFICES ASSUME NEW g \in GapEnds(line), k <= g, g + 1 < after PROVE FALSE
        BY <3>4, ReferencePlaces
      <4>1. g \in Nat /\ g + 1 \notin Separators(line)
        BY ReferencePlaces DEF GapEnds
      <4>2. g + 1 \in k .. after - 1
        BY <3>4, <4>1
      <4> QED
        BY <3>3, <4>1, <4>2
    <3>6. after - 1 \in GapEnds(line)
      <4>1. after - 1 \in Separators(line)
        BY <3>3, <3>4
      <4>2. after \notin Separators(line)
        BY <1>1, <3>3, <3>4, LinePlaces DEF Separators
      <4>3. (after - 1) + 1 = after
        BY <3>4
      <4> QED
        BY <4>1, <4>2, <4>3 DEF GapEnds
    <3>7. word(k) = {}
      <4> SUFFICES ASSUME NEW c \in Contents(line), k <= c, c < after PROVE FALSE
        BY <3>2
      <4>1. c \in Nat
        BY ReferencePlaces
      <4>2. c \in k .. after - 1
        BY <3>4, <4>1
      <4> QED
        BY <3>3, <4>2, ReferencePlaces
    <3>8. Enumerates(copy[k].dst, line, word(k))
      BY <3>2, <3>7, EnumeratesNone
    <3> HIDE DEF word
    <3> QED
      BY <3>2, <3>3, <3>4, <3>5, <3>6, <3>8
  <2>3. CASE k \notin Goes(line) /\ At(line, k) # Space
    <3>1. Stop(line, k) = End(line) /\ k + 1 >= End(line) /\ k \notin Contents(line)
      <4>1. CASE k = End(line)
        <5>1. Char(line, k) = k
          BY <1>1, <4>1, LinePlaces DEF Char
        <5>2. k \notin DOMAIN line
          BY <1>1, <4>1, LinePlaces
        <5> QED
          BY <1>1, <2>3, <4>1, <5>1, <5>2 DEF Stop, Contents
      <4>2. CASE k # End(line)
        BY <1>1, <2>3, <4>2, Units
      <4> QED
        BY <4>1, <4>2
    <3>2. copy[k].src = End(line) /\ copy[k].dst = <<>>
      BY <1>1, <1>2, <2>3, <3>1
    <3>3. \A g \in GapEnds(line) : k <= g => End(line) <= g + 1
      BY <1>1, <3>1, ReferencePlaces
    <3>4. word(k) = {}
      <4> SUFFICES ASSUME NEW c \in Contents(line), k <= c, c < End(line) PROVE FALSE
        BY <3>2
      <4>1. c \in Nat
        BY ReferencePlaces
      <4>2. c = k
        BY <1>1, <3>1, <4>1
      <4> QED
        BY <3>1, <4>2
    <3>5. Enumerates(copy[k].dst, line, word(k))
      BY <3>2, <3>4, EnumeratesNone
    <3> HIDE DEF word
    <3> QED
      BY <1>1, <3>2, <3>3, <3>5
  <2> HIDE DEF word
  <2> QED
    BY <2>1, <2>2, <2>3
<1>4. 1 .. End(line) \subseteq S
  <2> HIDE DEF S
  <2> QED
    BY <1>1, <1>3, Backwards
<1>5. i \in S
  BY <1>1, <1>4, ReferencePlaces
<1> QED
  BY <1>5 DEF copy
(* The gaps between words from a place on, and the places of the v-th word *)
(* from there.                                                             *)
GapsFrom(line, i) == {g \in GapEnds(line) \ {Len(line)} : i <= g}
PlacesFrom(line, i, v) ==
  {k \in Contents(line) : i <= k /\ Before(GapEnds(line), k) + 1 = Before(GapEnds(line), i) + v}

(* What the words from a place on are, if those from where the copying     *)
(* pass stops are right.                                                   *)
LEMMA NextWord ==
  ASSUME NEW line \in Seq(Characters), NEW i \in Unescaped(line), i # End(line),
         NEW s, s = ArgumentCopy(line)[i].src
  PROVE  /\ PlacesFrom(line, i, 1) = {k \in Contents(line) : i <= k /\ k < s}
         /\ s = End(line) => GapsFrom(line, i) = {}
         /\ s # End(line) =>
              /\ s \in Unescaped(line)
              /\ Cardinality(GapsFrom(line, i)) = 1 + Cardinality(GapsFrom(line, s))
              /\ \A v \in Nat : v >= 1 => PlacesFrom(line, i, v + 1) = PlacesFrom(line, s, v)
<1> DEFINE G == GapEnds(line)
           P == Contents(line)
<1>1. /\ Len(line) \in Nat /\ End(line) = Len(line) + 1 /\ i \in Nat /\ s \in Nat /\ i < s
      /\ s \in Places(line) /\ s <= End(line)
  BY LinePlaces, ReferencePlaces, PassesAgree
<1>2. /\ s \in Unescaped(line) \cup {End(line)} /\ \A g \in G : i <= g => s <= g + 1
      /\ s # End(line) => s - 1 \in G
  BY CopyIsNextWord
<1>3. /\ G \in SUBSET Nat /\ P \in SUBSET Nat /\ IsFiniteSet(G)
      /\ \A g \in G : g \in Nat /\ g <= Len(line)
      /\ \A k \in P : k \in Nat /\ k <= Len(line)
      /\ \A k \in Nat : Before(G, k) \in Nat
  <2>1. G \in SUBSET Nat
    BY ReferencePlaces
  <2> QED
    BY <2>1, ReferencePlaces, BeforeType
<1> HIDE DEF G, P
<1>4. ASSUME NEW k \in Nat, i <= k, k < s PROVE Before(G, k) = Before(G, i)
  <2>1. ASSUME NEW g \in G, i <= g PROVE k <= g
    <3>1. g \in Nat /\ s <= g + 1
      BY <1>2, <1>3, <2>1
    <3> QED
      BY <1>1, <1>4, <3>1
  <2> QED
    BY <1>1, <1>3, <1>4, <2>1, BeforeSame
<1>5. ASSUME s # End(line), NEW k \in Nat, s <= k PROVE Before(G, i) < Before(G, k)
  <2>1. s - 1 \in G /\ i <= s - 1 /\ s - 1 < k
    BY <1>1, <1>2, <1>5
  <2> QED
    BY <1>1, <1>3, <2>1, BeforeMore
<1>6. PlacesFrom(line, i, 1) = {k \in P : i <= k /\ k < s}
  <2>1. ASSUME NEW k \in P, i <= k
        PROVE  Before(G, k) + 1 = Before(G, i) + 1 <=> k < s
    <3>1. k \in Nat /\ k <= Len(line) /\ Before(G, k) \in Nat /\ Before(G, i) \in Nat
      BY <1>1, <1>3
    <3>2. k < s => Before(G, k) = Before(G, i)
      BY <1>4, <2>1, <3>1
    <3>3. s <= k => Before(G, i) < Before(G, k)
      BY <1>1, <1>5, <3>1
    <3> QED
      BY <1>1, <3>1, <3>2, <3>3
  <2>2. PlacesFrom(line, i, 1) = {k \in P : i <= k /\ Before(G, k) + 1 = Before(G, i) + 1}
    BY DEF PlacesFrom, G, P
  <2> QED
    BY <2>1, <2>2
<1>7. ASSUME s = End(line) PROVE GapsFrom(line, i) = {}
  <2> SUFFICES ASSUME NEW g \in G, g # Len(line), i <= g PROVE FALSE
    BY DEF GapsFrom, G
  <2> QED
    BY <1>1, <1>2, <1>3, <1>7
<1>8. ASSUME s # End(line)
      PROVE  Cardinality(GapsFrom(line, i)) = 1 + Cardinality(GapsFrom(line, s))
  <2>1. ASSUME NEW g \in G PROVE i <= g <=> s <= g \/ g = s - 1
    <3>1. g \in Nat /\ (i <= g => s <= g + 1)
      BY <1>2, <1>3
    <3> QED
      BY <1>1, <3>1
  <2>2. s - 1 \in G /\ s - 1 # Len(line) /\ ~ (s <= s - 1)
    BY <1>1, <1>2, <1>8
  <2>3. /\ GapsFrom(line, i) = {g \in G \ {Len(line)} : i <= g}
        /\ GapsFrom(line, s) = {g \in G \ {Len(line)} : s <= g}
    BY DEF GapsFrom, G
  <2>4. GapsFrom(line, i) = GapsFrom(line, s) \cup {s - 1} /\ s - 1 \notin GapsFrom(line, s)
    BY <2>1, <2>2, <2>3
  <2>5. IsFiniteSet(GapsFrom(line, s)) /\ Cardinality(GapsFrom(line, s)) \in Nat
    <3>1. GapsFrom(line, s) \in SUBSET G
      BY <2>3
    <3> QED
      BY <1>3, <3>1, FS_Subset, FS_CardinalityType
  <2>6. Cardinality(GapsFrom(line, s) \cup {s - 1}) = Cardinality(GapsFrom(line, s)) + 1
    BY <2>4, <2>5, FS_AddElement
  <2> QED
    BY <2>4, <2>5, <2>6
<1>9. ASSUME s # End(line), NEW v \in Nat, v >= 1
      PROVE  PlacesFrom(line, i, v + 1) = PlacesFrom(line, s, v)
  <2>1. Before(G, s) = Before(G, i) + 1
    <3>1. s - 1 \in G /\ i <= s - 1 /\ (s - 1) + 1 = s
      BY <1>1, <1>2, <1>9
    <3>2. ASSUME NEW h \in G, i <= h PROVE s - 1 <= h
      <4>1. h \in Nat /\ s <= h + 1
        BY <1>2, <1>3, <3>2
      <4> QED
        BY <1>1, <4>1
    <3>3. Before(G, (s - 1) + 1) = Before(G, i) + 1
      BY <1>1, <1>3, <3>1, <3>2, BeforeNext
    <3> QED
      BY <3>1, <3>3
  <2>2. ASSUME NEW k \in P
        PROVE  i <= k /\ Before(G, k) + 1 = Before(G, i) + (v + 1)
                 <=> s <= k /\ Before(G, k) + 1 = Before(G, s) + v
    <3>1. k \in Nat /\ Before(G, k) \in Nat /\ Before(G, i) \in Nat
      BY <1>1, <1>3
    <3>2. i <= k /\ k < s => Before(G, k) = Before(G, i)
      BY <1>4, <3>1
    <3>3. v \in Nat /\ v >= 1 /\ Before(G, s) \in Nat
      BY <1>1, <1>3, <1>9
    <3>4. CASE i <= k /\ k < s
      BY <1>1, <3>1, <3>2, <3>3, <3>4
    <3>5. CASE ~ (i <= k /\ k < s)
      BY <1>1, <2>1, <3>1, <3>3, <3>5, SMTT(30)
    <3> QED
      BY <3>4, <3>5
  <2>3. /\ PlacesFrom(line, i, v + 1) =
             {k \in P : i <= k /\ Before(G, k) + 1 = Before(G, i) + (v + 1)}
        /\ PlacesFrom(line, s, v) =
             {k \in P : s <= k /\ Before(G, k) + 1 = Before(G, s) + v}
    BY DEF PlacesFrom, G, P
  <2> QED
    BY <2>2, <2>3
<1> QED
  BY <1>2, <1>6, <1>7, <1>8, <1>9 DEF P

LEMMA SplitsFromEach ==
  ASSUME NEW line \in Seq(Characters),
         NEW argv \in [Places(line) -> Seq(Seq(Characters))], argv[End(line)] = <<>>,
         \A i \in DOMAIN line :
           argv[i] = <<ArgumentCopy(line)[i].dst>> \o argv[ArgumentCopy(line)[i].src],
         NEW i \in Unescaped(line), i # End(line)
  PROVE  /\ Len(argv[i]) = 1 + Cardinality(GapsFrom(line, i))
         /\ \A v \in 1 .. Len(argv[i]) : Enumerates(argv[i][v], line, PlacesFrom(line, i, v))
<1> DEFINE Right(k) ==
             /\ Len(argv[k]) = 1 + Cardinality(GapsFrom(line, k))
             /\ \A v \in 1 .. Len(argv[k]) : Enumerates(argv[k][v], line, PlacesFrom(line, k, v))
           S == {k \in Places(line) : k \in Unescaped(line) /\ k # End(line) => Right(k)}
<1>1. End(line) \in Nat /\ Places(line) = 1 .. End(line)
  BY LinePlaces
<1>2. ASSUME NEW k \in 1 .. End(line), \A j \in k + 1 .. End(line) : j \in S
      PROVE  k \in S
  <2> SUFFICES ASSUME k \in Unescaped(line), k # End(line) PROVE Right(k)
    BY <1>1
  <2> DEFINE word == ArgumentCopy(line)[k].dst
             s == ArgumentCopy(line)[k].src
  <2>1. k \in DOMAIN line /\ s \in Places(line) /\ k < s /\ word \in Seq(Characters)
    BY <1>1, LinePlaces, PassesAgree
  <2>2. argv[k] = <<word>> \o argv[s] /\ argv[s] \in Seq(Seq(Characters))
    BY <2>1
  <2>3. /\ Len(argv[k]) = 1 + Len(argv[s]) /\ Len(argv[s]) \in Nat /\ argv[k][1] = word
        /\ \A v \in 2 .. Len(argv[k]) : argv[k][v] = argv[s][v - 1]
    <3> HIDE DEF word, s
    <3> QED
      BY <2>1, <2>2
  <2>4. Enumerates(word, line, {c \in Contents(line) : k <= c /\ c < s})
    BY CopyIsNextWord
  <2>5. s \in Nat /\ k \in Nat /\ s \in 1 .. End(line)
    BY <1>1, <2>1
  <2> HIDE DEF word, s
  <2>6. /\ PlacesFrom(line, k, 1) = {c \in Contents(line) : k <= c /\ c < s}
        /\ s = End(line) => GapsFrom(line, k) = {}
        /\ s # End(line) =>
             /\ s \in Unescaped(line)
             /\ Cardinality(GapsFrom(line, k)) = 1 + Cardinality(GapsFrom(line, s))
             /\ \A v \in Nat : v >= 1 => PlacesFrom(line, k, v + 1) = PlacesFrom(line, s, v)
    BY NextWord DEF s
  <2>7. Enumerates(argv[k][1], line, PlacesFrom(line, k, 1))
    BY <2>3, <2>4, <2>6
  <2>8. CASE s = End(line)
    <3>1. Len(argv[s]) = 0
      BY <2>8
    <3>2. Len(argv[k]) = 1
      BY <2>3, <3>1
    <3>3. Cardinality(GapsFrom(line, k)) = 0
      <4>1. GapsFrom(line, k) = {}
        BY <2>6, <2>8
      <4> QED
        BY <4>1, FS_EmptySet
    <3>4. \A v \in 1 .. Len(argv[k]) : v = 1
      BY <3>2
    <3> QED
      BY <2>7, <3>2, <3>3, <3>4
  <2>9. CASE s # End(line)
    <3>1. s \in S
      <4>1. s \in k + 1 .. End(line)
        BY <2>1, <2>5
      <4> HIDE DEF S
      <4> QED
        BY <1>2, <4>1
    <3>2. Right(s)
      BY <2>6, <2>9, <3>1
    <3>3. Len(argv[k]) = 1 + Cardinality(GapsFrom(line, k))
      BY <2>3, <2>6, <2>9, <3>2
    <3>4. ASSUME NEW v \in 1 .. Len(argv[k])
          PROVE  Enumerates(argv[k][v], line, PlacesFrom(line, k, v))
      <4>1. CASE v = 1
        BY <2>7, <4>1
      <4>2. CASE v # 1
        <5> DEFINE u == v - 1
        <5>1. u \in 1 .. Len(argv[s]) /\ u \in Nat /\ u >= 1 /\ u + 1 = v /\ v \in 2 .. Len(argv[k])
          BY <2>3, <4>2
        <5>2. Enumerates(argv[s][u], line, PlacesFrom(line, s, u))
          BY <3>2, <5>1
        <5>3. argv[k][v] = argv[s][u]
          BY <2>3, <5>1
        <5> HIDE DEF u
        <5>4. PlacesFrom(line, k, u + 1) = PlacesFrom(line, s, u)
          BY <2>6, <2>9, <5>1
        <5> QED
          BY <5>1, <5>2, <5>3, <5>4
      <4> QED
        BY <4>1, <4>2
    <3> QED
      BY <3>3, <3>4
  <2> QED
    BY <2>8, <2>9
<1>3. 1 .. End(line) \subseteq S
  <2> HIDE DEF S
  <2> QED
    BY <1>1, <1>2, Backwards
<1>4. i \in S
  BY <1>1, <1>3, ReferencePlaces
<1> QED
  BY <1>4

(* The places of the w-th word.                                            *)
WordPlaces(line, w) == {i \in Contents(line) : Before(GapEnds(line), i) = w - 1}
Number(line) == IF line = <<>> THEN 0 ELSE 1 + Cardinality(GapEnds(line) \ {Len(line)})

LEMMA WordsMean ==
  ASSUME NEW line \in Seq(Characters)
  PROVE  /\ line = <<>> => Words(line) = <<>>
         /\ DOMAIN Words(line) = 1 .. Number(line) /\ Number(line) \in Nat
         /\ \A w \in 1 .. Number(line) :
              Words(line)[w] = Listed(line, WordPlaces(line, w))
         /\ Words(line) = [w \in 1 .. Number(line) |-> Words(line)[w]]
<1> DEFINE word(w) == Listed(line, WordPlaces(line, w))
<1>1. Words(line) = [w \in 1 .. Number(line) |-> word(w)]
  BY DEF Words, Number, WordPlaces, Listed
<1> HIDE DEF word
<1>2. Number(line) \in Nat
  <2>1. IsFiniteSet(GapEnds(line)) /\ GapEnds(line) \ {Len(line)} \in SUBSET GapEnds(line)
    BY ReferencePlaces
  <2>2. Cardinality(GapEnds(line) \ {Len(line)}) \in Nat
    BY <2>1, FS_Subset, FS_CardinalityType
  <2> QED
    BY <2>2 DEF Number
<1>3. ASSUME line = <<>> PROVE Words(line) = <<>>
  <2>1. Number(line) = 0 /\ 1 .. 0 = {}
    BY <1>3 DEF Number
  <2>2. Words(line) = [w \in {} |-> word(w)]
    BY <1>1, <2>1
  <2> QED
    BY <2>2
<1> QED
  BY <1>1, <1>2, <1>3 DEF word

LEMMA WordsAre ==
  ASSUME NEW line \in Seq(Characters), NEW words \in Seq(Seq(Characters)),
         Len(words) = Number(line),
         \A w \in 1 .. Len(words) : Enumerates(words[w], line, WordPlaces(line, w))
  PROVE  Words(line) = words
<1>1. ASSUME NEW w \in 1 .. Len(words) PROVE Words(line)[w] = words[w]
  <2> DEFINE P == WordPlaces(line, w)
             word == words[w]
  <2>1. P \in SUBSET Nat
    BY ReferencePlaces DEF WordPlaces
  <2>2. word \in Seq(Characters) /\ Enumerates(word, line, P)
    OBVIOUS
  <2> HIDE DEF P, word
  <2>3. word = Listed(line, P)
    BY <2>1, <2>2, EnumeratesOnly
  <2>4. w \in 1 .. Number(line)
    OBVIOUS
  <2> QED
    BY <2>3, <2>4, WordsMean DEF P, word
<1>2. words = [w \in 1 .. Len(words) |-> words[w]]
  OBVIOUS
<1> QED
  BY <1>1, <1>2, WordsMean

(* Going through a line once, word by word, gives what the reference says  *)
(* the words of the line are (Arguments.cpp:59-81, 182-228).               *)
THEOREM Splits == \A line \in Seq(Characters) : Split(line) = Words(line)
<1> SUFFICES ASSUME NEW line \in Seq(Characters) PROVE Split(line) = Words(line)
  OBVIOUS
<1>1. PICK argv \in [Places(line) -> Seq(Seq(Characters))] :
        /\ Split(line) = argv[1] /\ argv[End(line)] = <<>>
        /\ \A i \in DOMAIN line :
             argv[i] = <<ArgumentCopy(line)[i].dst>> \o argv[ArgumentCopy(line)[i].src]
  BY SplitIs
<1>2. CASE line = <<>>
  <2>1. End(line) = 1
    BY <1>2 DEF End
  <2> QED
    BY <1>1, <1>2, <2>1, WordsMean
<1>3. CASE line # <<>>
  <2> DEFINE G == GapEnds(line)
             words == argv[1]
  <2>1. End(line) # 1 /\ Len(line) \in Nat
    BY <1>3 DEF End
  <2>2. /\ Len(words) = 1 + Cardinality(GapsFrom(line, 1))
        /\ \A v \in 1 .. Len(words) : Enumerates(words[v], line, PlacesFrom(line, 1, v))
    BY <1>1, <2>1, UnescapedFirst, SplitsFromEach
  <2>3. words \in Seq(Seq(Characters))
    BY <1>1, LinePlaces
  <2> HIDE DEF words
  <2>4. /\ \A g \in G : g \in Nat /\ 1 <= g
        /\ \A i \in Contents(line) : 1 <= i /\ i \in Nat /\ Before(G, i) \in Nat
    <3>1. G \in SUBSET Nat
      BY ReferencePlaces
    <3> QED
      BY <3>1, ReferencePlaces, BeforeType
  <2>5. GapsFrom(line, 1) = G \ {Len(line)}
    BY <2>4 DEF GapsFrom
  <2>6. Before(G, 1) = 0
    <3>1. {g \in G : g < 1} = {}
      BY <2>4
    <3> QED
      BY <3>1, FS_EmptySet DEF Before
  <2>7. ASSUME NEW v \in 1 .. Len(words) PROVE PlacesFrom(line, 1, v) = WordPlaces(line, v)
    <3>1. /\ PlacesFrom(line, 1, v) =
               {k \in Contents(line) : 1 <= k /\ Before(G, k) + 1 = Before(G, 1) + v}
          /\ WordPlaces(line, v) = {k \in Contents(line) : Before(G, k) = v - 1}
      BY DEF PlacesFrom, WordPlaces
    <3> HIDE DEF G
    <3> QED
      BY <2>4, <2>6, <3>1
  <2>8. Len(words) = Number(line)
    BY <1>3, <2>2, <2>5 DEF Number
  <2>9. Words(line) = words
    BY <2>2, <2>3, <2>7, <2>8, WordsAre
  <2> QED
    BY <1>1, <2>9 DEF words
<1> QED
  BY <1>2, <1>3

-----------------------------------------------------------------------------
(* The line that is put together from words.                               *)
LEMMA Forwards ==
  ASSUME NEW n \in Nat, NEW S,
         \A i \in 0 .. n : (\A j \in 0 .. i - 1 : j \in S) => i \in S
  PROVE  0 .. n \subseteq S
<1> SUFFICES ASSUME 0 .. n \ S # {} PROVE FALSE
  OBVIOUS
<1>1. 0 .. n \ S \subseteq Nat
  OBVIOUS
<1>2. PICK i \in 0 .. n \ S : \A j \in 0 .. n \ S : i <= j
  BY <1>1, Least
<1>3. \A j \in 0 .. i - 1 : j \in S
  BY <1>2
<1> QED
  BY <1>2, <1>3

(* Where the words are in it: ends[w] is the place of the last character   *)
(* of the w-th word, or of the space before that if it is empty.           *)
Start(words, ends, w) == ends[w] - Len(words[w])
LaidOut(line, words, ends) ==
  /\ line \in Seq(Characters)
  /\ ends \in [0 .. Len(words) -> Nat] /\ ends[0] = 0 /\ Len(line) = ends[Len(words)]
  /\ \A w \in 1 .. Len(words) :
       /\ Start(words, ends, w) = IF w > 1 THEN ends[w - 1] + 1 ELSE ends[w - 1]
       /\ \A n \in 1 .. Len(words[w]) : line[Start(words, ends, w) + n] = words[w][n]
       /\ w > 1 => line[ends[w - 1] + 1] = Space

LEMMA GapIs ==
  ASSUME NEW w \in Nat
  PROVE  /\ Gap(w) \in Seq(Characters) /\ Len(Gap(w)) \in Nat
         /\ w > 1 => Len(Gap(w)) = 1 /\ Gap(w)[1] = Space
         /\ ~ (w > 1) => Len(Gap(w)) = 0
  BY CharactersAssumption DEF Gap

LEMMA Concatenated ==
  ASSUME NEW s \in Seq(Characters), NEW t \in Seq(Characters)
  PROVE  /\ s \o t \in Seq(Characters) /\ Len(s \o t) = Len(s) + Len(t)
         /\ Len(s) \in Nat /\ Len(t) \in Nat
         /\ \A k \in 1 .. Len(s) : (s \o t)[k] = s[k]
         /\ \A n \in 1 .. Len(t) : (s \o t)[Len(s) + n] = t[n]
  OBVIOUS

LEMMA JoinedWord ==
  ASSUME NEW before \in Seq(Characters), NEW word \in Seq(Characters), NEW w \in Nat
  PROVE  LET line == before \o Gap(w) \o word
             start == Len(before) + Len(Gap(w))
         IN  /\ Len(line) = start + Len(word)
             /\ start = IF w > 1 THEN Len(before) + 1 ELSE Len(before)
             /\ \A k \in 1 .. Len(before) : line[k] = before[k]
             /\ w > 1 => line[Len(before) + 1] = Space
             /\ \A n \in 1 .. Len(word) : line[start + n] = word[n]
<1> DEFINE gap == Gap(w)
           first == before \o gap
           line == first \o word
<1>1. /\ gap \in Seq(Characters) /\ Len(gap) \in Nat
      /\ w > 1 => Len(gap) = 1 /\ gap[1] = Space
      /\ ~ (w > 1) => Len(gap) = 0
  BY GapIs
<1> HIDE DEF gap
<1>2. /\ first \in Seq(Characters) /\ Len(first) = Len(before) + Len(gap) /\ Len(before) \in Nat
      /\ \A k \in 1 .. Len(before) : first[k] = before[k]
      /\ \A n \in 1 .. Len(gap) : first[Len(before) + n] = gap[n]
  BY <1>1, Concatenated
<1> HIDE DEF first
<1>3. /\ Len(line) = Len(first) + Len(word) /\ Len(word) \in Nat
      /\ \A k \in 1 .. Len(first) : line[k] = first[k]
      /\ \A n \in 1 .. Len(word) : line[Len(first) + n] = word[n]
  BY <1>2, Concatenated
<1> HIDE DEF line
<1>4. \A k \in 1 .. Len(before) : line[k] = before[k]
  BY <1>1, <1>2, <1>3
<1>5. ASSUME w > 1 PROVE line[Len(before) + 1] = Space
  <2>1. 1 \in 1 .. Len(gap) /\ Len(before) + 1 \in 1 .. Len(first)
    <3>1. Len(gap) = 1 /\ Len(before) \in Nat /\ Len(first) = Len(before) + 1
      BY <1>1, <1>2, <1>5
    <3> QED
      BY <3>1
  <2> QED
    BY <1>1, <1>2, <1>3, <1>5, <2>1
<1>6. Len(before) + Len(gap) = IF w > 1 THEN Len(before) + 1 ELSE Len(before)
  BY <1>1, <1>2
<1> QED
  BY <1>2, <1>3, <1>4, <1>5, <1>6 DEF gap, first, line

LEMMA Layout ==
  ASSUME NEW words \in Seq(Seq(Characters))
  PROVE  \E ends : LaidOut(Joined(words), words, ends)
<1> DEFINE m == Len(words)
<1>1. PICK line \in [0 .. m -> Seq(Characters)] :
        /\ Joined(words) = line[m] /\ line[0] = <<>>
        /\ \A w \in DOMAIN words : line[w] = line[w - 1] \o Gap(w) \o words[w]
  BY JoinedIs
<1>2. m \in Nat /\ DOMAIN words = 1 .. m /\ \A w \in 1 .. m : words[w] \in Seq(Characters)
  OBVIOUS
<1> DEFINE ends == [w \in 0 .. m |-> Len(line[w])]
           start(w) == ends[w - 1] + Len(Gap(w))
           S == {w \in 0 .. m : \A v \in 0 .. w :
                   ends[v] <= ends[w] /\ \A k \in 1 .. ends[v] : line[w][k] = line[v][k]}
<1> HIDE DEF m
<1>3. /\ ends \in [0 .. m -> Nat] /\ ends[0] = 0 /\ Len(line[m]) = ends[m]
      /\ \A w \in 0 .. m : ends[w] = Len(line[w]) /\ ends[w] \in Nat
  BY <1>1, <1>2
<1> HIDE DEF ends
<1>4. ASSUME NEW w \in 1 .. m
      PROVE  /\ ends[w] = start(w) + Len(words[w])
             /\ start(w) = IF w > 1 THEN ends[w - 1] + 1 ELSE ends[w - 1]
             /\ \A k \in 1 .. ends[w - 1] : line[w][k] = line[w - 1][k]
             /\ w > 1 => line[w][ends[w - 1] + 1] = Space
             /\ \A n \in 1 .. Len(words[w]) : line[w][start(w) + n] = words[w][n]
  <2>1. w - 1 \in 0 .. m /\ w \in 0 .. m /\ w \in Nat
    BY <1>2
  <2>2. line[w - 1] \in Seq(Characters) /\ words[w] \in Seq(Characters)
    BY <1>1, <1>2, <2>1
  <2>3. line[w] = line[w - 1] \o Gap(w) \o words[w]
    BY <1>1, <1>2
  <2>4. ends[w - 1] = Len(line[w - 1]) /\ ends[w] = Len(line[w])
    BY <1>3, <2>1
  <2> DEFINE before == line[w - 1]
             word == words[w]
             joined == before \o Gap(w) \o word
             after == Len(before) + Len(Gap(w))
  <2> HIDE DEF before, word
  <2>5. /\ Len(joined) = after + Len(word)
        /\ after = IF w > 1 THEN Len(before) + 1 ELSE Len(before)
        /\ \A k \in 1 .. Len(before) : joined[k] = before[k]
        /\ w > 1 => joined[Len(before) + 1] = Space
        /\ \A n \in 1 .. Len(word) : joined[after + n] = word[n]
    BY <2>1, <2>2, JoinedWord DEF before, word
  <2>6. after = start(w)
    BY <2>4 DEF before
  <2> HIDE DEF joined, after, start
  <2>7. line[w] = joined /\ Len(before) = ends[w - 1] /\ Len(joined) = ends[w]
    BY <2>3, <2>4 DEF before, word, joined
  <2> QED
    BY <2>5, <2>6, <2>7 DEF before, word
<1>5. ASSUME NEW w \in 1 .. m
      PROVE  /\ ends[w - 1] \in Nat /\ ends[w] \in Nat /\ start(w) \in Nat /\ Len(words[w]) \in Nat
             /\ ends[w - 1] <= start(w) /\ start(w) <= ends[w] /\ ends[w - 1] <= ends[w]
             /\ ends[w] - Len(words[w]) = start(w)
  <2>1. w - 1 \in 0 .. m /\ w \in 0 .. m /\ w \in Nat
    BY <1>2
  <2>2. ends[w - 1] \in Nat /\ ends[w] \in Nat /\ Len(words[w]) \in Nat
    <3>1. words[w] \in Seq(Characters)
      BY <1>2
    <3>2. Len(words[w]) \in Nat
      BY <3>1
    <3> QED
      BY <1>3, <2>1, <3>2
  <2>3. start(w) = IF w > 1 THEN ends[w - 1] + 1 ELSE ends[w - 1]
    BY <1>4
  <2>4. start(w) \in Nat /\ ends[w - 1] <= start(w)
    <3> HIDE DEF start
    <3> QED
      BY <2>2, <2>3
  <2>5. ends[w] = start(w) + Len(words[w])
    BY <1>4
  <2> HIDE DEF start
  <2> QED
    BY <2>2, <2>4, <2>5
<1> HIDE DEF start
<1>6. ASSUME NEW w \in 0 .. m, \A j \in 0 .. w - 1 : j \in S PROVE w \in S
  <2> SUFFICES ASSUME NEW v \in 0 .. w
               PROVE  ends[v] <= ends[w] /\ \A k \in 1 .. ends[v] : line[w][k] = line[v][k]
    OBVIOUS
  <2>1. CASE v = w
    BY <1>2, <1>3, <2>1
  <2>2. CASE v # w
    <3>1. w \in 1 .. m /\ v \in 0 .. w - 1 /\ w - 1 \in 0 .. w - 1 /\ v \in 0 .. m
      BY <1>2, <2>2
    <3>2. ends[v] <= ends[w - 1] /\ \A k \in 1 .. ends[v] : line[w - 1][k] = line[v][k]
      BY <1>6, <3>1
    <3>3. ends[w - 1] <= ends[w] /\ ends[v] \in Nat /\ ends[w - 1] \in Nat /\ ends[w] \in Nat
      BY <1>3, <1>5, <3>1
    <3>4. \A k \in 1 .. ends[w - 1] : line[w][k] = line[w - 1][k]
      BY <1>4, <3>1
    <3> QED
      BY <3>2, <3>3, <3>4
  <2> QED
    BY <2>1, <2>2
<1>7. 0 .. m \subseteq S
  <2> HIDE DEF S
  <2> QED
    BY <1>2, <1>6, Forwards
<1>8. \A w \in 0 .. m : \A k \in 1 .. ends[w] : line[m][k] = line[w][k]
  <2>1. m \in 0 .. m /\ \A w \in 0 .. m : w \in 0 .. m
    BY <1>2
  <2> QED
    BY <1>7, <2>1
<1>9. ASSUME NEW w \in 1 .. m
      PROVE  /\ Start(words, ends, w) = IF w > 1 THEN ends[w - 1] + 1 ELSE ends[w - 1]
             /\ \A n \in 1 .. Len(words[w]) : line[m][Start(words, ends, w) + n] = words[w][n]
             /\ w > 1 => line[m][ends[w - 1] + 1] = Space
  <2>1. Start(words, ends, w) = start(w) /\ w \in 0 .. m
    BY <1>2, <1>5 DEF Start
  <2>2. ASSUME NEW n \in 1 .. Len(words[w]) PROVE line[m][start(w) + n] = words[w][n]
    <3>1. /\ start(w) \in Nat /\ ends[w] \in Nat /\ Len(words[w]) \in Nat
          /\ ends[w] = start(w) + Len(words[w])
      BY <1>4, <1>5
    <3>2. start(w) + n \in 1 .. ends[w]
      BY <3>1
    <3> QED
      BY <1>4, <1>8, <2>1, <3>2, SMTT(30)
  <2>3. ASSUME w > 1 PROVE line[m][ends[w - 1] + 1] = Space
    <3>1. /\ ends[w - 1] \in Nat /\ ends[w] \in Nat /\ start(w) \in Nat
          /\ start(w) = ends[w - 1] + 1 /\ start(w) <= ends[w]
      BY <1>4, <1>5, <2>3
    <3>2. ends[w - 1] + 1 \in 1 .. ends[w]
      BY <3>1
    <3> QED
      BY <1>4, <1>8, <2>1, <2>3, <3>2
  <2> QED
    BY <1>4, <2>1, <2>2, <2>3
<1>10. line[m] \in Seq(Characters)
  BY <1>1, <1>2
<1>11. LaidOut(line[m], words, ends)
  BY <1>3, <1>9, <1>10 DEF LaidOut, m
<1> QED
  BY <1>1, <1>11

(* How the words lie.                                                      *)
LEMMA WordLies ==
  ASSUME NEW line, NEW words \in Seq(Seq(Characters)), NEW ends, LaidOut(line, words, ends),
         NEW w \in 1 .. Len(words)
  PROVE  /\ ends[w - 1] \in Nat /\ ends[w] \in Nat /\ Len(words[w]) \in Nat
         /\ Start(words, ends, w) \in Nat
         /\ ends[w] = Start(words, ends, w) + Len(words[w])
         /\ Start(words, ends, w) = IF w > 1 THEN ends[w - 1] + 1 ELSE ends[w - 1]
<1>1. Len(words) \in Nat /\ w \in 0 .. Len(words) /\ w - 1 \in 0 .. Len(words)
  OBVIOUS
<1>2. words[w] \in Seq(Characters)
  OBVIOUS
<1>3. Len(words[w]) \in Nat
  BY <1>2
<1>4. ends[w - 1] \in Nat /\ ends[w] \in Nat
  BY <1>1 DEF LaidOut
<1>5. Start(words, ends, w) = IF w > 1 THEN ends[w - 1] + 1 ELSE ends[w - 1]
  BY DEF LaidOut
<1>6. ends[w] = Start(words, ends, w) + Len(words[w])
  BY <1>3, <1>4 DEF Start
<1>7. Start(words, ends, w) \in Nat
  BY <1>4, <1>5
<1> QED
  BY <1>3, <1>4, <1>5, <1>6, <1>7

LEMMA EndsGrow ==
  ASSUME NEW line, NEW words \in Seq(Seq(Characters)), NEW ends, LaidOut(line, words, ends),
         NEW w \in 0 .. Len(words), NEW v \in 0 .. w
  PROVE  /\ ends[v] \in Nat /\ ends[w] \in Nat /\ ends[v] <= ends[w]
         /\ 0 < v /\ v < w => ends[v] < Start(words, ends, w) /\ ends[v] < ends[w]
<1> DEFINE m == Len(words)
           S == {x \in 0 .. m : \A y \in 0 .. x : ends[y] <= ends[x]}
<1>1. m \in Nat
  OBVIOUS
<1>2. \A x \in 0 .. m : ends[x] \in Nat
  BY DEF LaidOut
<1>3. ASSUME NEW x \in 1 .. m
      PROVE  /\ Start(words, ends, x) \in Nat
             /\ ends[x - 1] <= ends[x] /\ Start(words, ends, x) <= ends[x]
             /\ x > 1 => Start(words, ends, x) = ends[x - 1] + 1
  <2>1. /\ ends[x - 1] \in Nat /\ ends[x] \in Nat /\ Len(words[x]) \in Nat
        /\ Start(words, ends, x) \in Nat
        /\ ends[x] = Start(words, ends, x) + Len(words[x])
        /\ Start(words, ends, x) = IF x > 1 THEN ends[x - 1] + 1 ELSE ends[x - 1]
    BY WordLies
  <2> DEFINE start == Start(words, ends, x)
             end == ends[x]
             last == ends[x - 1]
             length == Len(words[x])
  <2>2. /\ last \in Nat /\ end \in Nat /\ length \in Nat /\ start \in Nat
        /\ end = start + length /\ start = IF x > 1 THEN last + 1 ELSE last
    BY <2>1
  <2> HIDE DEF start, end, last, length
  <2>3. last <= end /\ start <= end /\ (x > 1 => start = last + 1)
    BY <2>2
  <2> QED
    BY <2>1, <2>3 DEF start, end, last
<1> HIDE DEF m
<1>4. ASSUME NEW x \in 0 .. m, \A y \in 0 .. x - 1 : y \in S PROVE x \in S
  <2> SUFFICES ASSUME NEW y \in 0 .. x PROVE ends[y] <= ends[x]
    OBVIOUS
  <2>1. CASE y = x
    BY <1>2, <2>1
  <2>2. CASE y # x
    <3>1. x \in 1 .. m /\ y \in 0 .. x - 1 /\ x - 1 \in 0 .. x - 1 /\ x - 1 \in 0 .. m /\ y \in 0 .. m
      BY <1>1, <2>2
    <3>2. ends[y] <= ends[x - 1] /\ ends[x - 1] <= ends[x]
      BY <1>3, <1>4, <3>1
    <3> QED
      BY <1>2, <3>1, <3>2
  <2> QED
    BY <2>1, <2>2
<1>5. 0 .. m \subseteq S
  <2> HIDE DEF S
  <2> QED
    BY <1>1, <1>4, Forwards
<1>6. ends[v] <= ends[w] /\ v \in 0 .. m /\ w \in 0 .. m
  BY <1>1, <1>5 DEF m
<1>7. ASSUME 0 < v, v < w PROVE ends[v] < Start(words, ends, w) /\ ends[v] < ends[w]
  <2>1. w \in 1 .. m /\ w > 1 /\ w - 1 \in 0 .. m /\ v \in 0 .. w - 1
    BY <1>1, <1>6, <1>7
  <2>2. ends[v] <= ends[w - 1] /\ ends[v] \in Nat /\ ends[w - 1] \in Nat /\ ends[w] \in Nat
    BY <1>2, <1>5, <1>6, <2>1
  <2>3. /\ Start(words, ends, w) \in Nat /\ Start(words, ends, w) = ends[w - 1] + 1
        /\ Start(words, ends, w) <= ends[w]
    BY <1>3, <2>1
  <2> QED
    BY <2>2, <2>3
<1> QED
  BY <1>2, <1>6, <1>7

(* The spaces between the words, up to the w-th one.                       *)
Joints(ends, w) == {ends[v] + 1 : v \in 1 .. w - 1}

LEMMA JointsNumber ==
  ASSUME NEW line, NEW words \in Seq(Seq(Characters)), NEW ends, LaidOut(line, words, ends),
         NEW w \in 1 .. Len(words)
  PROVE  IsFiniteSet(Joints(ends, w)) /\ Cardinality(Joints(ends, w)) = w - 1
<1> DEFINE m == Len(words)
           S == {k \in 0 .. m - 1 : /\ IsFiniteSet(Joints(ends, k + 1))
                                    /\ Cardinality(Joints(ends, k + 1)) = k}
<1>1. m \in Nat /\ m - 1 \in Nat
  OBVIOUS
<1>2. ASSUME NEW k \in 0 .. m - 1, \A j \in 0 .. k - 1 : j \in S PROVE k \in S
  <2>1. CASE k = 0
    <3>1. Joints(ends, k + 1) = {}
      BY <2>1 DEF Joints
    <3> QED
      BY <1>1, <2>1, <3>1, FS_EmptySet
  <2>2. CASE k # 0
    <3> HIDE DEF m
    <3>1. k - 1 \in 0 .. k - 1 /\ (k - 1) + 1 = k /\ k \in 0 .. m /\ (k + 1) - 1 = k /\ k \in Nat
      BY <1>1, <2>2
    <3>2. IsFiniteSet(Joints(ends, k)) /\ Cardinality(Joints(ends, k)) = k - 1
      BY <1>2, <3>1
    <3>3. ASSUME NEW v \in 1 .. k - 1 PROVE ends[v] # ends[k]
      <4>1. v \in 0 .. k /\ 0 < v /\ v < k
        BY <3>1
      <4>2. ends[v] \in Nat /\ ends[k] \in Nat /\ ends[v] < ends[k]
        BY <3>1, <4>1, EndsGrow DEF m
      <4> QED
        BY <4>2
    <3>4. ends[k] \in Nat /\ \A v \in 1 .. k - 1 : ends[v] \in Nat
      <4>1. k \in 0 .. m /\ \A v \in 1 .. k - 1 : v \in 0 .. m
        BY <1>1, <3>1
      <4> QED
        BY <4>1 DEF LaidOut, m
    <3>5. 1 .. k = (1 .. k - 1) \cup {k}
      BY <2>2, <3>1
    <3>6. Joints(ends, k + 1) = Joints(ends, k) \cup {ends[k] + 1}
      BY <3>1, <3>5 DEF Joints
    <3>7. ends[k] + 1 \notin Joints(ends, k)
      <4> SUFFICES ASSUME NEW v \in 1 .. k - 1, ends[v] + 1 = ends[k] + 1 PROVE FALSE
        BY DEF Joints
      <4> DEFINE a == ends[v]
                 b == ends[k]
      <4>1. a \in Nat /\ b \in Nat /\ a # b /\ a + 1 = b + 1
        BY <3>3, <3>4
      <4> HIDE DEF a, b
      <4> QED
        BY <4>1
    <3>8. Cardinality(Joints(ends, k + 1)) = (k - 1) + 1 /\ IsFiniteSet(Joints(ends, k + 1))
      <4> DEFINE J == Joints(ends, k)
                 e == ends[k] + 1
      <4>1. IsFiniteSet(J) /\ e \notin J /\ Cardinality(J) = k - 1
        BY <3>2, <3>7
      <4> HIDE DEF J, e
      <4>2. IsFiniteSet(J \cup {e}) /\ Cardinality(J \cup {e}) = Cardinality(J) + 1
        BY <4>1, FS_AddElement
      <4> QED
        BY <3>6, <4>1, <4>2 DEF J, e
    <3> QED
      BY <3>1, <3>8
  <2> QED
    BY <2>1, <2>2
<1>3. 0 .. m - 1 \subseteq S
  <2> HIDE DEF S
  <2> QED
    BY <1>1, <1>2, Forwards
<1>4. w - 1 \in 0 .. m - 1 /\ (w - 1) + 1 = w
  OBVIOUS
<1> QED
  BY <1>3, <1>4

(* Every place is one of a word, or of a space between two.                *)
LEMMA WordOrJoint ==
  ASSUME NEW line, NEW words \in Seq(Seq(Characters)), NEW ends, LaidOut(line, words, ends),
         words # <<>>, NEW i \in 1 .. Len(line)
  PROVE  \/ i \in Joints(ends, Len(words))
         \/ \E w \in 1 .. Len(words) : Start(words, ends, w) < i /\ i <= ends[w]
<1> DEFINE m == Len(words)
           S == {w \in 1 .. m : i <= ends[w]}
<1>1. m \in Nat /\ m \in 1 .. m /\ Len(line) = ends[m] /\ ends[0] = 0
  BY DEF LaidOut
<1> HIDE DEF m
<1>2. m \in S /\ S \subseteq Nat
  BY <1>1
<1>3. PICK w \in S : \A v \in S : w <= v
  BY <1>2, Least
<1>4. w \in 1 .. m /\ i <= ends[w]
  BY <1>3
<1>5. /\ ends[w - 1] \in Nat /\ Start(words, ends, w) \in Nat
      /\ Start(words, ends, w) = IF w > 1 THEN ends[w - 1] + 1 ELSE ends[w - 1]
  BY <1>4, WordLies DEF m
<1>6. ends[w - 1] < i
  <2>1. CASE w = 1
    <3>1. w - 1 = 0
      BY <2>1
    <3> QED
      BY <1>1, <3>1
  <2>2. CASE w # 1
    <3>1. w - 1 \in 1 .. m /\ w - 1 < w
      BY <1>1, <1>4, <2>2
    <3>2. w - 1 \notin S
      BY <1>3, <1>4, <3>1
    <3>3. ~ (i <= ends[w - 1])
      BY <3>1, <3>2
    <3>4. i \in Nat
      OBVIOUS
    <3> QED
      BY <1>5, <3>3, <3>4
  <2> QED
    BY <2>1, <2>2
<1>7. CASE Start(words, ends, w) < i
  BY <1>4, <1>7 DEF m
<1>8. CASE ~ (Start(words, ends, w) < i)
  <2>1. w > 1 /\ i = ends[w - 1] + 1
    <3>1. i \in Nat
      OBVIOUS
    <3> QED
      BY <1>5, <1>6, <1>8, <3>1
  <2>2. w - 1 \in 1 .. m - 1
    BY <1>1, <1>4, <2>1
  <2> QED
    BY <2>1, <2>2 DEF Joints, m
<1> QED
  BY <1>7, <1>8

LEMMA NoEscapes ==
  ASSUME NEW line \in Seq(Characters), \A i \in DOMAIN line : line[i] # Escape
  PROVE  /\ Separators(line) = {i \in DOMAIN line : line[i] = Space}
         /\ Contents(line) = {i \in DOMAIN line : line[i] # Space}
<1>1. ASSUME NEW i \in DOMAIN line PROVE ~ Escaped(line, i)
  <2>1. DOMAIN line = 1 .. Len(line) /\ Len(line) \in Nat
    BY LinePlaces
  <2>2. CASE i = 1
    BY <2>2, UnescapedFirst DEF Unescaped
  <2>3. CASE i # 1
    <3>1. i - 1 \in DOMAIN line /\ (i - 1) + 1 = i
      BY <2>1, <2>3
    <3> QED
      BY <3>1, EscapedNext
  <2> QED
    BY <2>2, <2>3
<1> QED
  BY <1>1 DEF Separators, Contents

(* A run of places and the characters there.                               *)
LEMMA RunEnumerated ==
  ASSUME NEW line, NEW word \in Seq(Characters), NEW s \in Nat,
         \A n \in 1 .. Len(word) : line[s + n] = word[n]
  PROVE  Enumerates(word, line, s + 1 .. s + Len(word))
<1> DEFINE l == Len(word)
           P == s + 1 .. s + l
<1>1. l \in Nat /\ s + 1 \in Int /\ s + l \in Int
  OBVIOUS
<1> HIDE DEF l
<1>2. Cardinality(P) = l
  <2>1. Cardinality(P) = IF s + 1 > s + l THEN 0 ELSE (s + l) - (s + 1) + 1
    BY <1>1, FS_Interval
  <2> QED
    BY <1>1, <2>1
<1>3. ASSUME NEW n \in 1 .. l PROVE s + n \in P /\ Before(P, s + n) + 1 = n
  <2>1. n \in Nat /\ 1 <= n /\ n <= l
    BY <1>1
  <2>2. s + n \in P
    BY <1>1, <2>1
  <2>3. {j \in P : j < s + n} = s + 1 .. (s + n) - 1
    BY <1>1, <2>1
  <2>4. Cardinality(s + 1 .. (s + n) - 1) =
          IF s + 1 > (s + n) - 1 THEN 0 ELSE ((s + n) - 1) - (s + 1) + 1
    <3>1. s + 1 \in Int /\ (s + n) - 1 \in Int
      BY <2>1
    <3> QED
      BY <3>1, FS_Interval
  <2>5. Cardinality(s + 1 .. (s + n) - 1) = n - 1
    BY <2>1, <2>4
  <2>6. Before(P, s + n) = n - 1
    BY <2>3, <2>5 DEF Before
  <2> HIDE DEF P
  <2> QED
    BY <2>1, <2>2, <2>6
<1> HIDE DEF P
<1>4. ASSUME NEW n \in 1 .. l PROVE \E k \in P : Before(P, k) + 1 = n /\ word[n] = line[k]
  BY <1>3 DEF l
<1> QED
  BY <1>2, <1>4 DEF Enumerates, l, P

(* Words that are plain are the words of the line.                         *)
LEMMA PlainFound ==
  ASSUME NEW line, NEW words \in Seq(Seq(Characters)), NEW ends, LaidOut(line, words, ends),
         words # <<>>, Plain(words)
  PROVE  Words(line) = words
<1> DEFINE m == Len(words)
           start(w) == Start(words, ends, w)
<1>1. /\ m \in Nat /\ m >= 1 /\ m \in 1 .. m /\ DOMAIN words = 1 .. m
      /\ \A w \in 1 .. m : words[w] \in Seq(Characters)
  OBVIOUS
<1> HIDE DEF m
<1>2. line \in Seq(Characters) /\ Len(line) = ends[m] /\ DOMAIN line = 1 .. ends[m]
  BY LinePlaces DEF LaidOut, m
<1>3. ASSUME NEW w \in 1 .. m
      PROVE  /\ ends[w - 1] \in Nat /\ ends[w] \in Nat /\ start(w) \in Nat /\ Len(words[w]) \in Nat
             /\ ends[w] = start(w) + Len(words[w]) /\ start(w) <= ends[w] /\ ends[w] <= ends[m]
             /\ w > 1 => start(w) = ends[w - 1] + 1 /\ start(w) < ends[w]
  <2>1. /\ ends[w - 1] \in Nat /\ ends[w] \in Nat /\ Len(words[w]) \in Nat /\ start(w) \in Nat
        /\ ends[w] = start(w) + Len(words[w])
        /\ start(w) = IF w > 1 THEN ends[w - 1] + 1 ELSE ends[w - 1]
    BY WordLies DEF m
  <2>2. ends[w] <= ends[m]
    <3>1. m \in 0 .. m /\ w \in 0 .. m
      BY <1>1
    <3> QED
      BY <3>1, EndsGrow DEF m
  <2>3. w > 1 => Len(words[w]) # 0
    <3>1. words[w] = <<>> => w = 1
      BY <1>1 DEF Plain
    <3> QED
      BY <1>1, <3>1
  <2> HIDE DEF start
  <2> DEFINE end == ends[w]
             last == ends[w - 1]
             length == Len(words[w])
  <2>4. /\ last \in Nat /\ end \in Nat /\ length \in Nat /\ start(w) \in Nat
        /\ end = start(w) + length /\ start(w) = IF w > 1 THEN last + 1 ELSE last
        /\ w > 1 => length # 0
    BY <2>1, <2>3
  <2> HIDE DEF end, last, length
  <2>5. start(w) <= end /\ (w > 1 => start(w) = last + 1 /\ start(w) < end)
    BY <2>4
  <2> QED
    BY <2>1, <2>2, <2>5 DEF end, last
<1>4. ASSUME NEW w \in 1 .. m, NEW v \in 1 .. w - 1
      PROVE  ends[v] \in Nat /\ ends[v] < start(w) /\ ends[v] + 1 < ends[w]
  <2>1. w \in 0 .. m /\ v \in 0 .. w /\ 0 < v /\ v < w /\ w > 1
    BY <1>1
  <2>2. ends[v] \in Nat /\ ends[v] < start(w)
    BY <2>1, EndsGrow DEF m
  <2>3. start(w) \in Nat /\ ends[w] \in Nat /\ start(w) < ends[w]
    BY <1>3, <2>1
  <2> HIDE DEF start
  <2> QED
    BY <2>2, <2>3
<1> HIDE DEF start
<1>5. ASSUME NEW w \in 1 .. m, NEW i \in Nat, start(w) < i, i <= ends[w]
      PROVE  i \in DOMAIN line /\ line[i] \notin {Space, Escape}
  <2> DEFINE n == i - start(w)
  <2>1. n \in 1 .. Len(words[w]) /\ start(w) + n = i /\ i \in 1 .. ends[m]
    <3>1. /\ start(w) \in Nat /\ ends[w] \in Nat /\ ends[m] \in Nat /\ Len(words[w]) \in Nat
          /\ ends[w] = start(w) + Len(words[w]) /\ ends[w] <= ends[m]
      BY <1>1, <1>3
    <3> DEFINE l == Len(words[w])
               e == ends[w]
    <3>2. i \in Nat /\ start(w) < i /\ i <= e /\ e = start(w) + l /\ l \in Nat /\ e <= ends[m]
      BY <1>5, <3>1
    <3> HIDE DEF l, e
    <3>3. i - start(w) \in 1 .. l /\ start(w) + (i - start(w)) = i
      BY <3>1, <3>2, SMTT(30)
    <3>4. i \in 1 .. ends[m]
      BY <3>1, <3>2 DEF e
    <3> QED
      BY <3>3, <3>4 DEF l
  <2>2. line[i] = words[w][n]
    <3>1. \A k \in 1 .. Len(words[w]) : line[start(w) + k] = words[w][k]
      BY DEF LaidOut, start, m
    <3> HIDE DEF n
    <3> QED
      BY <2>1, <3>1
  <2>3. n \in DOMAIN words[w]
    BY <1>1, <2>1
  <2> HIDE DEF n
  <2> QED
    BY <1>1, <1>2, <2>1, <2>2, <2>3 DEF Plain
<1> DEFINE J == Joints(ends, m)
<1>6. ASSUME NEW v \in 1 .. m - 1
      PROVE  ends[v] + 1 \in DOMAIN line /\ line[ends[v] + 1] = Space /\ ends[v] + 1 < ends[m]
  <2>1. ends[v] \in Nat /\ ends[v] + 1 < ends[m] /\ ends[m] \in Nat
    BY <1>1, <1>3, <1>4
  <2>2. v + 1 \in 1 .. m /\ v + 1 > 1 /\ (v + 1) - 1 = v
    BY <1>1
  <2>3. line[ends[(v + 1) - 1] + 1] = Space
    BY <2>2 DEF LaidOut, m
  <2> QED
    BY <1>2, <2>1, <2>2, <2>3
<1>7. /\ \A j \in J : j \in DOMAIN line /\ line[j] = Space /\ j # ends[m]
      /\ \A i \in DOMAIN line :
           i \in J \/ \E w \in 1 .. m : start(w) < i /\ i <= ends[w]
      /\ \A i \in DOMAIN line : i \in Nat
  <2>1. ends[m] \in Nat /\ \A v \in 1 .. m - 1 : ends[v] \in Nat
    BY <1>1, <1>3
  <2>2. \A v \in 1 .. m - 1 : ends[v] + 1 # ends[m]
    BY <1>6, <2>1
  <2>3. \A i \in DOMAIN line :
           i \in J \/ \E w \in 1 .. m : start(w) < i /\ i <= ends[w]
    BY <1>2, WordOrJoint DEF m, start
  <2> QED
    BY <1>2, <1>6, <2>2, <2>3, LinePlaces DEF Joints
<1> HIDE DEF J
<1>8. Separators(line) = J /\ Contents(line) = DOMAIN line \ J
  <2>1. \A i \in DOMAIN line : line[i] # Escape /\ (line[i] = Space <=> i \in J)
    BY <1>5, <1>7, LinePlaces, <1>2
  <2> QED
    BY <1>2, <1>7, <2>1, NoEscapes
<1>9. GapEnds(line) = J
  <2> SUFFICES ASSUME NEW v \in 1 .. m - 1, NEW u \in 1 .. m - 1, (ends[v] + 1) + 1 = ends[u] + 1
               PROVE  FALSE
    BY <1>8 DEF GapEnds, J, Joints
  <2>1. v \in 1 .. m /\ u \in 1 .. m /\ v \in Nat /\ u \in Nat
    BY <1>1
  <2>2. ends[v] \in Nat /\ ends[u] \in Nat
    BY <1>3, <2>1
  <2>3. u < v => ends[u] + 1 < ends[v]
    BY <1>4, <2>1
  <2>4. v < u => ends[v] + 1 < ends[u]
    BY <1>4, <2>1
  <2>5. u = v \/ u < v \/ v < u
    BY <2>1
  <2>6. ends[u] = ends[v] + 1
    BY <2>2, SMTT(30)
  <2>7. u # v
    BY <2>2, <2>6
  <2> QED
    BY <2>2, <2>3, <2>4, <2>5, <2>6, <2>7
<1>10. m = Number(line)
  <2>1. ends[m] # 0
    <3>1. CASE m > 1
      BY <1>1, <1>3, <3>1
    <3>2. CASE m = 1
      <4>1. words[1] # <<>> /\ words[1] \in Seq(Characters)
        BY <1>1, <3>2 DEF Plain, m
      <4>2. Len(words[1]) # 0
        BY <4>1
      <4> QED
        BY <1>1, <1>3, <3>2, <4>2
    <3> QED
      BY <1>1, <3>1, <3>2
  <2>2. line # <<>>
    BY <1>2, <2>1
  <2>3. GapEnds(line) \ {Len(line)} = J
    BY <1>2, <1>7, <1>9
  <2>4. Cardinality(J) = m - 1
    BY <1>1, JointsNumber DEF m, J
  <2>5. Number(line) = 1 + (m - 1)
    BY <2>2, <2>3, <2>4 DEF Number
  <2> QED
    BY <1>1, <2>5
<1>11. ASSUME NEW w \in 1 .. m, NEW i \in Nat, start(w) < i, i <= ends[w]
       PROVE  Before(J, i) = w - 1 /\ i \in Contents(line)
  <2>1. ASSUME NEW v \in 1 .. m - 1 PROVE ends[v] + 1 < i <=> v \in 1 .. w - 1
    <3>1. v \in 1 .. m /\ v \in Nat /\ w \in Nat /\ ends[v] \in Nat /\ ends[w] \in Nat
      BY <1>1, <1>3
    <3>2. start(w) \in Nat
      BY <1>3
    <3>3. v < w => ends[v] + 1 < i
      <4>1. v < w => ends[v] < start(w)
        BY <1>4, <3>1
      <4> QED
        BY <1>11, <3>1, <3>2, <4>1
    <3>4. ~ (v < w) => ~ (ends[v] + 1 < i)
      <4>1. w < v => ends[w] + 1 < ends[v]
        BY <1>4, <3>1
      <4> QED
        BY <1>11, <3>1, <4>1
    <3> QED
      BY <3>1, <3>3, <3>4
  <2>2. 1 .. w - 1 \subseteq 1 .. m - 1
    BY <1>1
  <2>3. {j \in J : j < i} = Joints(ends, w)
    BY <2>1, <2>2 DEF J, Joints
  <2>4. Before(J, i) = w - 1
    BY <2>3, JointsNumber DEF Before, m
  <2>5. i \in DOMAIN line /\ line[i] # Space
    BY <1>5, <1>11
  <2> QED
    BY <1>7, <1>8, <2>4, <2>5
<1>12. ASSUME NEW w \in 1 .. m PROVE Enumerates(words[w], line, WordPlaces(line, w))
  <2>1. /\ start(w) \in Nat /\ ends[w] \in Nat /\ Len(words[w]) \in Nat
        /\ ends[w] = start(w) + Len(words[w]) /\ words[w] \in Seq(Characters)
        /\ \A n \in 1 .. Len(words[w]) : line[start(w) + n] = words[w][n]
    BY <1>1, <1>3 DEF LaidOut, start, m
  <2>2. ASSUME NEW i \in DOMAIN line
        PROVE  i \in Contents(line) /\ Before(J, i) = w - 1 <=> start(w) < i /\ i <= ends[w]
    <3>1. ASSUME i \in Contents(line), Before(J, i) = w - 1
          PROVE  start(w) < i /\ i <= ends[w]
      <4>1. PICK u \in 1 .. m : start(u) < i /\ i <= ends[u]
        BY <1>7, <1>8, <3>1
      <4>2. u - 1 = w - 1 /\ u \in Nat /\ w \in Nat
        BY <1>1, <1>7, <1>11, <3>1, <4>1
      <4>3. u = w
        BY <4>2
      <4> QED
        BY <4>1, <4>3
    <3> QED
      BY <1>7, <1>11, <3>1
  <2>3. start(w) + 1 .. start(w) + Len(words[w]) = {i \in DOMAIN line : start(w) < i /\ i <= ends[w]}
    <3>1. \A i \in Nat : start(w) < i /\ i <= ends[w] => i \in DOMAIN line
      BY <1>5
    <3>2. start(w) + 1 .. start(w) + Len(words[w]) = {i \in Nat : start(w) < i /\ i <= ends[w]}
      BY <2>1
    <3> QED
      BY <1>7, <3>1, <3>2
  <2>4. WordPlaces(line, w) = start(w) + 1 .. start(w) + Len(words[w])
    <3>1. WordPlaces(line, w) = {i \in Contents(line) : Before(J, i) = w - 1}
      BY <1>9 DEF WordPlaces
    <3>2. Contents(line) \subseteq DOMAIN line
      BY <1>8
    <3> QED
      BY <2>2, <2>3, <3>1, <3>2
  <2> QED
    BY <2>1, <2>4, RunEnumerated
<1> QED
  BY <1>2, <1>10, <1>12, WordsAre DEF m

(* The words of a line, if they are as long as those it was put together   *)
(* from, leave no room for backslashes or for other spaces.                *)
LEMMA ContentsNumber ==
  ASSUME NEW line, NEW words \in Seq(Seq(Characters)), NEW ends, LaidOut(line, words, ends),
         words # <<>>, Words(line) = words
  PROVE  /\ Len(words) = 1 + Cardinality(GapEnds(line) \ {Len(line)})
         /\ line # <<>>
         /\ Cardinality(Contents(line)) + (Len(words) - 1) = Len(line)
<1> DEFINE m == Len(words)
           G == GapEnds(line)
           C(w) == {i \in Contents(line) : Before(G, i) < w}
           P(w) == WordPlaces(line, w)
<1>1. /\ m \in Nat /\ m >= 1 /\ DOMAIN words = 1 .. m /\ m - 1 \in Nat
      /\ \A w \in 1 .. m : words[w] \in Seq(Characters)
  OBVIOUS
<1>2. line \in Seq(Characters) /\ Len(line) = ends[m] /\ ends[0] = 0
  BY DEF LaidOut
<1>3. m = Number(line)
  <2>1. 1 .. m = 1 .. Number(line) /\ Number(line) \in Nat
    BY <1>1, <1>2, WordsMean
  <2> HIDE DEF m
  <2> QED
    BY <1>1, <2>1
<1> HIDE DEF m
<1>4. line # <<>> /\ m = 1 + Cardinality(G \ {Len(line)})
  BY <1>1, <1>3 DEF Number
<1>5. /\ IsFiniteSet(G) /\ IsFiniteSet(Contents(line)) /\ G \in SUBSET Nat
      /\ \A i \in Contents(line) : Before(G, i) \in Nat /\ i <= Len(line) /\ i \in Nat
      /\ Len(line) \in Nat
  <2>1. G \in SUBSET Nat
    BY <1>2, ReferencePlaces
  <2> QED
    BY <1>2, <2>1, ReferencePlaces, BeforeType, LinePlaces
<1>6. \A w : /\ IsFiniteSet(C(w)) /\ Cardinality(C(w)) \in Nat
             /\ IsFiniteSet(P(w)) /\ Cardinality(P(w)) \in Nat
  <2> TAKE w
  <2>1. C(w) \in SUBSET Contents(line) /\ P(w) \in SUBSET Contents(line)
    BY DEF WordPlaces
  <2> HIDE DEF C, P
  <2> QED
    BY <1>5, <2>1, FS_Subset, FS_CardinalityType
<1>7. ASSUME NEW w \in 1 .. m
      PROVE  /\ ends[w] \in Nat /\ ends[w - 1] \in Nat
             /\ w > 1 => ends[w] = ends[w - 1] + 1 + Cardinality(P(w))
             /\ w = 1 => ends[w] = Cardinality(P(w))
  <2>1. Len(words[w]) = Cardinality(P(w))
    <3>1. words[w] = Listed(line, P(w))
      BY <1>2, <1>3, WordsMean
    <3>2. DOMAIN words[w] = 1 .. Cardinality(P(w))
      BY <3>1 DEF Listed
    <3>3. DOMAIN words[w] = 1 .. Len(words[w]) /\ Len(words[w]) \in Nat
      BY <1>1
    <3>4. Cardinality(P(w)) \in Nat
      BY <1>6
    <3> DEFINE a == Len(words[w])
               b == Cardinality(P(w))
    <3>5. a \in Nat /\ b \in Nat /\ 1 .. a = 1 .. b
      BY <3>2, <3>3, <3>4
    <3> HIDE DEF a, b
    <3>6. a = b
      BY <3>5
    <3> QED
      BY <3>6 DEF a, b
  <2>2. /\ ends[w - 1] \in Nat /\ ends[w] \in Nat
        /\ ends[w] = Start(words, ends, w) + Len(words[w])
        /\ Start(words, ends, w) = IF w > 1 THEN ends[w - 1] + 1 ELSE ends[w - 1]
    BY WordLies DEF m
  <2>3. w = 1 => ends[w - 1] = 0
    BY <1>2
  <2>4. Cardinality(P(w)) \in Nat
    BY <1>6
  <2> HIDE DEF P
  <2> QED
    BY <2>1, <2>2, <2>3, <2>4
<1> DEFINE S == {k \in 0 .. m - 1 : Cardinality(C(k + 1)) + k = ends[k + 1]}
<1>8. ASSUME NEW k \in 0 .. m - 1, \A j \in 0 .. k - 1 : j \in S PROVE k \in S
  <2>1. CASE k = 0
    <3>1. \A i \in Contents(line) : Before(G, i) < 1 <=> Before(G, i) = 1 - 1
      BY <1>5
    <3>2. C(1) = P(1)
      BY <3>1 DEF WordPlaces
    <3>3. 1 \in 1 .. m /\ k + 1 = 1
      BY <1>1, <2>1
    <3>4. Cardinality(C(1)) \in Nat /\ ends[1] = Cardinality(P(1))
      BY <1>6, <1>7, <3>3
    <3> HIDE DEF C, P
    <3>5. Cardinality(C(k + 1)) + k = ends[k + 1]
      BY <2>1, <3>2, <3>3, <3>4
    <3> QED
      BY <3>5
  <2>2. CASE k # 0
    <3>1. /\ k \in Nat /\ k - 1 \in 0 .. k - 1 /\ (k - 1) + 1 = k /\ k + 1 \in 1 .. m
          /\ (k + 1) - 1 = k /\ k + 1 > 1
      BY <1>1, <2>2
    <3>2. Cardinality(C(k)) + (k - 1) = ends[k]
      <4>1. k - 1 \in S
        BY <1>8, <3>1
      <4> HIDE DEF C
      <4>2. Cardinality(C((k - 1) + 1)) + (k - 1) = ends[(k - 1) + 1]
        BY <4>1
      <4> QED
        BY <3>1, <4>2
    <3>3. \A i \in Contents(line) :
            /\ Before(G, i) < k + 1 <=> Before(G, i) < k \/ Before(G, i) = (k + 1) - 1
            /\ ~ (Before(G, i) < k /\ Before(G, i) = (k + 1) - 1)
      BY <1>5, <3>1
    <3>4. C(k + 1) = C(k) \cup P(k + 1) /\ C(k) \cap P(k + 1) = {}
      BY <3>3 DEF WordPlaces
    <3>5. /\ Cardinality(C(k)) \in Nat /\ Cardinality(P(k + 1)) \in Nat
          /\ IsFiniteSet(C(k)) /\ IsFiniteSet(P(k + 1))
      BY <1>6
    <3>6. ends[k + 1] = ends[k] + 1 + Cardinality(P(k + 1))
      <4>1. ends[k + 1] = ends[(k + 1) - 1] + 1 + Cardinality(P(k + 1))
        <5> HIDE DEF P
        <5> QED
          BY <1>7, <3>1
      <4> QED
        BY <3>1, <4>1
    <3> HIDE DEF C, P
    <3>7. Cardinality(C(k + 1)) = Cardinality(C(k)) + Cardinality(P(k + 1))
      <4>1. Cardinality(C(k) \cup P(k + 1)) =
              Cardinality(C(k)) + Cardinality(P(k + 1)) - Cardinality(C(k) \cap P(k + 1))
        BY <3>5, FS_Union
      <4>2. Cardinality(C(k) \cap P(k + 1)) = 0
        BY <3>4, FS_EmptySet
      <4>3. Cardinality(C(k) \cup P(k + 1)) = Cardinality(C(k)) + Cardinality(P(k + 1))
        <5> DEFINE a == Cardinality(C(k))
                   b == Cardinality(P(k + 1))
                   c == Cardinality(C(k) \cup P(k + 1))
                   d == Cardinality(C(k) \cap P(k + 1))
        <5>1. a \in Nat /\ b \in Nat /\ c = a + b - d /\ d = 0
          BY <3>5, <4>1, <4>2
        <5> HIDE DEF a, b, c, d
        <5>2. c = a + b
          BY <5>1
        <5> QED
          BY <5>2 DEF a, b, c
      <4>4. C(k + 1) = C(k) \cup P(k + 1)
        BY <3>4
      <4> QED
        BY <4>3, <4>4
    <3>8. Cardinality(C(k + 1)) + k = ends[k + 1]
      BY <3>1, <3>2, <3>5, <3>6, <3>7
    <3> QED
      BY <3>8
  <2> QED
    BY <2>1, <2>2
<1>9. 0 .. m - 1 \subseteq S
  <2> HIDE DEF S
  <2> QED
    BY <1>1, <1>8, Forwards
<1>10. Cardinality(C(m)) + (m - 1) = ends[m]
  <2>1. m - 1 \in 0 .. m - 1 /\ (m - 1) + 1 = m
    BY <1>1
  <2>2. m - 1 \in S
    <3> HIDE DEF S
    <3> QED
      BY <1>9, <2>1
  <2> HIDE DEF C
  <2>3. Cardinality(C((m - 1) + 1)) + (m - 1) = ends[(m - 1) + 1]
    BY <2>2
  <2> QED
    BY <2>1, <2>3
<1>11. C(m) = Contents(line)
  <2> SUFFICES ASSUME NEW i \in Contents(line) PROVE Before(G, i) < m
    OBVIOUS
  <2> DEFINE B == {g \in G : g < i}
             H == G \ {Len(line)}
  <2>1. B \in SUBSET H
    <3> SUFFICES ASSUME NEW g \in G, g < i PROVE g # Len(line)
      OBVIOUS
    <3> QED
      BY <1>5
  <2>2. H \in SUBSET G
    OBVIOUS
  <2>3. IsFiniteSet(H)
    BY <1>5, <2>2, FS_Subset
  <2>4. Cardinality(B) = Before(G, i) /\ Before(G, i) \in Nat
    BY <1>5 DEF Before
  <2>5. Cardinality(H) = m - 1
    <3>1. Cardinality(H) \in Nat
      BY <2>3, FS_CardinalityType
    <3> HIDE DEF H
    <3> QED
      BY <1>1, <1>4, <3>1 DEF H
  <2> HIDE DEF B, H
  <2>6. Cardinality(B) <= Cardinality(H)
    BY <2>1, <2>3, FS_Subset
  <2> QED
    BY <1>1, <2>4, <2>5, <2>6
<1> HIDE DEF C
<1> QED
  BY <1>2, <1>4, <1>10, <1>11 DEF m

LEMMA NothingElse ==
  ASSUME NEW line, NEW words \in Seq(Seq(Characters)), NEW ends, LaidOut(line, words, ends),
         words # <<>>, Words(line) = words
  PROVE  /\ Separators(line) = GapEnds(line) \ {Len(line)}
         /\ \A i \in DOMAIN line : line[i] # Escape
         /\ Joints(ends, Len(words)) = {i \in DOMAIN line : line[i] = Space}
         /\ Joints(ends, Len(words)) = Separators(line)
<1> DEFINE m == Len(words)
           C == Contents(line)
           S == Separators(line)
           H == GapEnds(line) \ {Len(line)}
           D == DOMAIN line
<1>1. m \in Nat /\ m >= 1 /\ m \in 1 .. m
  OBVIOUS
<1>2. line \in Seq(Characters)
  BY DEF LaidOut
<1>3. /\ Len(line) \in Nat /\ D = 1 .. Len(line)
      /\ C \in SUBSET D /\ S \in SUBSET D /\ C \cap S = {} /\ H \in SUBSET S
  BY <1>2, LinePlaces, ReferencePlaces
<1>4. IsFiniteSet(D) /\ Cardinality(D) = Len(line)
  <2>1. 1 \in Int /\ Len(line) \in Int
    BY <1>3
  <2>2. IsFiniteSet(1 .. Len(line)) /\
          Cardinality(1 .. Len(line)) = IF 1 > Len(line) THEN 0 ELSE Len(line) - 1 + 1
    BY <2>1, FS_Interval
  <2>3. (IF 1 > Len(line) THEN 0 ELSE Len(line) - 1 + 1) = Len(line)
    BY <1>3
  <2> QED
    BY <1>3, <2>2, <2>3
<1>5. m = 1 + Cardinality(H) /\ Cardinality(C) + (m - 1) = Len(line)
  BY ContentsNumber
<1> HIDE DEF m, C, S, H, D
<1>6. /\ IsFiniteSet(C) /\ IsFiniteSet(S) /\ IsFiniteSet(H) /\ C \cup S \in SUBSET D
      /\ Cardinality(C) \in Nat /\ Cardinality(S) \in Nat /\ Cardinality(H) \in Nat
      /\ Cardinality(C \cup S) \in Nat
  <2>1. IsFiniteSet(C) /\ IsFiniteSet(S) /\ C \cup S \in SUBSET D
    BY <1>3, <1>4, FS_Subset
  <2>2. IsFiniteSet(H) /\ IsFiniteSet(C \cup S)
    BY <1>3, <1>4, <2>1, FS_Subset
  <2> QED
    BY <2>1, <2>2, FS_CardinalityType
<1>7. Cardinality(C \cup S) = Cardinality(C) + Cardinality(S)
  <2>1. Cardinality(C \cup S) = Cardinality(C) + Cardinality(S) - Cardinality(C \cap S)
    BY <1>6, FS_Union
  <2>2. Cardinality(C \cap S) = 0
    BY <1>3, FS_EmptySet
  <2> QED
    BY <1>6, <2>1, <2>2
<1>8. Cardinality(C \cup S) <= Cardinality(D) /\ Cardinality(H) <= Cardinality(S)
  BY <1>3, <1>4, <1>6, FS_Subset
<1>9. Cardinality(S) = m - 1 /\ Cardinality(H) = Cardinality(S)
      /\ Cardinality(C \cup S) = Cardinality(D)
  BY <1>1, <1>3, <1>4, <1>5, <1>6, <1>7, <1>8, SMTT(30)
<1>10. S = H
  BY <1>3, <1>6, <1>9, FS_Subset
<1>11. C \cup S = D
  BY <1>4, <1>6, <1>9, FS_Subset
<1>12. \A i \in D : line[i] # Escape
  <2> SUFFICES ASSUME {i \in D : line[i] = Escape} # {} PROVE FALSE
    OBVIOUS
  <2>1. {i \in D : line[i] = Escape} \subseteq Nat
    BY <1>3
  <2>2. PICK i \in D : line[i] = Escape /\ \A j \in D : line[j] = Escape => i <= j
    BY <2>1, Least
  <2>3. i \in Nat /\ 1 <= i
    BY <1>3
  <2>4. ~ Escaped(line, i)
    <3>1. CASE i = 1
      BY <1>2, <3>1, UnescapedFirst DEF Unescaped
    <3>2. CASE i # 1
      <4>1. i - 1 \in D /\ (i - 1) + 1 = i /\ ~ (i <= i - 1)
        BY <1>3, <2>3, <3>2
      <4>2. line[i - 1] # Escape
        BY <2>2, <4>1
      <4> QED
        BY <1>2, <4>1, <4>2, EscapedNext DEF D
    <3> QED
      BY <3>1, <3>2
  <2>5. i \notin C /\ i \notin S
    BY <1>2, <2>2, <2>4, LinePlaces DEF C, S, Contents, Separators
  <2> QED
    BY <1>11, <2>5
<1>13. S = {i \in D : line[i] = Space}
  BY <1>2, <1>12, NoEscapes DEF D, S
<1>14. Joints(ends, m) = S
  <2>1. Joints(ends, m) \in SUBSET S
    <3> SUFFICES ASSUME NEW v \in 1 .. m - 1 PROVE ends[v] + 1 \in D /\ line[ends[v] + 1] = Space
      BY <1>13 DEF Joints
    <3>1. v \in 0 .. m /\ m \in 0 .. m /\ v \in 0 .. m /\ 0 < v /\ v < m /\ v + 1 \in 1 .. m
          /\ v + 1 > 1 /\ (v + 1) - 1 = v
      BY <1>1
    <3>2. ends[v] \in Nat /\ ends[m] \in Nat /\ ends[v] < ends[m]
      BY <3>1, EndsGrow DEF m
    <3>3. ends[m] = Len(line)
      BY DEF LaidOut, m
    <3>4. ends[v] + 1 \in D
      BY <1>3, <3>2, <3>3
    <3>5. line[ends[(v + 1) - 1] + 1] = Space
      BY <3>1 DEF LaidOut, m
    <3> QED
      BY <3>1, <3>4, <3>5
  <2>2. Cardinality(Joints(ends, m)) = m - 1
    BY <1>1, JointsNumber DEF m
  <2> QED
    BY <1>6, <1>9, <2>1, <2>2, FS_Subset
<1> QED
  BY <1>10, <1>12, <1>13, <1>14 DEF m, S, H, D

LEMMA FoundPlain ==
  ASSUME NEW line, NEW words \in Seq(Seq(Characters)), NEW ends, LaidOut(line, words, ends),
         words # <<>>, Words(line) = words
  PROVE  Plain(words)
<1> DEFINE m == Len(words)
           J == Joints(ends, m)
           start(w) == Start(words, ends, w)
<1>1. /\ m \in Nat /\ m \in 0 .. m /\ m \in 1 .. m /\ DOMAIN words = 1 .. m
      /\ \A w \in 1 .. m : words[w] \in Seq(Characters)
  OBVIOUS
<1>2. /\ line \in Seq(Characters) /\ Len(line) = ends[m] /\ ends[0] = 0 /\ DOMAIN line = 1 .. ends[m]
      /\ \A w \in 1 .. m : \A n \in 1 .. Len(words[w]) : line[start(w) + n] = words[w][n]
  BY LinePlaces DEF LaidOut
<1>3. /\ J = {i \in DOMAIN line : line[i] = Space} /\ J = Separators(line)
      /\ J = GapEnds(line) \ {Len(line)} /\ \A i \in DOMAIN line : line[i] # Escape
  BY NothingElse
<1> HIDE DEF m, J
<1>4. ASSUME NEW w \in 1 .. m
      PROVE  /\ ends[w - 1] \in Nat /\ ends[w] \in Nat /\ Len(words[w]) \in Nat
             /\ start(w) \in Nat /\ ends[w] = start(w) + Len(words[w])
             /\ start(w) = (IF w > 1 THEN ends[w - 1] + 1 ELSE ends[w - 1])
             /\ ends[m] \in Nat /\ ends[w] <= ends[m]
  <2>1. w \in 0 .. m /\ m \in 0 .. m /\ w <= m
    BY <1>1
  <2>2. /\ ends[w - 1] \in Nat /\ ends[w] \in Nat /\ Len(words[w]) \in Nat
        /\ start(w) \in Nat /\ ends[w] = start(w) + Len(words[w])
        /\ start(w) = (IF w > 1 THEN ends[w - 1] + 1 ELSE ends[w - 1])
    BY WordLies DEF m
  <2> HIDE DEF start
  <2>3. ends[m] \in Nat /\ ends[w] <= ends[m]
    <3>1. ends[m] \in Nat /\ w \in 0 .. m
      BY <2>1, EndsGrow DEF m
    <3> QED
      BY <2>1, <3>1, EndsGrow DEF m
  <2> QED
    BY <2>2, <2>3
<1> HIDE DEF start
<1>5. ASSUME NEW w \in 1 .. m, NEW n \in DOMAIN words[w]
      PROVE  words[w][n] \notin {Space, Escape}
  <2> DEFINE i == start(w) + n
             l == Len(words[w])
  <2>1. n \in Nat /\ 1 <= n /\ n <= l /\ n \in 1 .. l /\ l \in Nat
    BY <1>1
  <2>2. /\ start(w) \in Nat /\ ends[w] \in Nat /\ ends[w] = start(w) + l
        /\ ends[m] \in Nat /\ ends[w] <= ends[m]
    BY <1>4
  <2> HIDE DEF l
  <2>3. i \in Nat /\ start(w) < i /\ i <= ends[w] /\ i \in DOMAIN line
    BY <1>2, <2>1, <2>2, SMTT(30)
  <2>4. line[i] = words[w][n]
    BY <1>2, <2>1 DEF l
  <2> HIDE DEF i
  <2>5. i \notin J
    <3> SUFFICES ASSUME NEW v \in 1 .. m - 1, i = ends[v] + 1 PROVE FALSE
      BY DEF J, Joints
    <3>1. v \in 0 .. m /\ w \in 0 .. m /\ v \in Nat /\ w \in Nat /\ v > 0 /\ v \in 1 .. m
      BY <1>1
    <3>2. ends[v] \in Nat
      BY <1>4, <3>1
    <3>3. CASE v < w
      <4>1. v \in 0 .. w
        BY <3>1, <3>3
      <4>2. ends[v] < start(w)
        BY <3>1, <3>3, <4>1, EndsGrow DEF m, start
      <4> QED
        BY <2>2, <2>3, <3>2, <4>2
    <3>4. CASE ~ (v < w)
      <4>1. w \in 0 .. v
        BY <3>1, <3>4
      <4>2. ends[w] <= ends[v]
        BY <3>1, <4>1, EndsGrow DEF m
      <4> QED
        BY <2>2, <2>3, <3>2, <4>2
    <3> QED
      BY <3>3, <3>4
  <2> QED
    BY <1>3, <2>3, <2>4, <2>5
<1>6. ASSUME NEW w \in 1 .. m, words[w] = <<>> PROVE w = 1 /\ m > 1
  <2>1. Len(words[w]) = 0
    BY <1>6
  <2>2. ends[w] = start(w)
    BY <1>4, <2>1
  <2>3. w = 1
    <3> SUFFICES ASSUME w # 1 PROVE FALSE
      OBVIOUS
    <3>1. w \in Nat /\ w > 1 /\ w - 1 \in 1 .. m - 1
      BY <1>1
    <3>2. ends[w] = ends[w - 1] + 1
      BY <1>4, <2>2, <3>1
    <3>3. ends[w] \in J
      BY <3>1, <3>2 DEF J, Joints
    <3>4. ends[w] + 1 \notin J /\ ends[w] # ends[m]
      BY <1>2, <1>3, <3>3 DEF GapEnds
    <3>5. w \in 1 .. m - 1
      BY <1>1, <3>1, <3>4
    <3> QED
      BY <3>4, <3>5 DEF J, Joints
  <2>4. m # 1
    <3> SUFFICES ASSUME m = 1 PROVE FALSE
      OBVIOUS
    <3>1. start(1) = ends[1 - 1] /\ 1 - 1 = 0
      BY <1>4, <2>3
    <3>2. Len(line) = 0
      BY <1>2, <2>2, <2>3, <3>1
    <3>3. line = <<>>
      BY <1>2, <3>2
    <3> QED
      BY <3>3, ContentsNumber
  <2> QED
    BY <1>1, <2>3, <2>4
<1> QED
  BY <1>1, <1>5, <1>6 DEF Plain, m

(* The line that is put together from words splits into these words again  *)
(* exactly if they are plain, which is when it needs no escapes            *)
(* (Arguments.cpp:83-107).                                                 *)
THEOREM JoinedSplits ==
  \A words \in Seq(Seq(Characters)) : Words(Joined(words)) = words <=> Plain(words)
<1> SUFFICES ASSUME NEW words \in Seq(Seq(Characters))
             PROVE  Words(Joined(words)) = words <=> Plain(words)
  OBVIOUS
<1>1. PICK ends : LaidOut(Joined(words), words, ends)
  BY Layout
<1>2. CASE words = <<>>
  <2>1. ends[Len(words)] = 0 /\ Joined(words) \in Seq(Characters)
    BY <1>1, <1>2 DEF LaidOut
  <2>2. Len(Joined(words)) = 0
    BY <1>1, <2>1 DEF LaidOut
  <2>3. Joined(words) = <<>>
    BY <2>1, <2>2
  <2>4. Plain(words)
    BY <1>2 DEF Plain
  <2> QED
    BY <1>2, <2>1, <2>3, <2>4, WordsMean
<1>3. CASE words # <<>>
  BY <1>1, <1>3, PlainFound, FoundPlain
<1> QED
  BY <1>2, <1>3
=============================================================================
