------------------------ MODULE SignalHandlersProofs ------------------------
(***************************************************************************)
(* Proofs about SignalHandlers, for any signals, handlers and Handles.     *)
(***************************************************************************)
EXTENDS SignalHandlers, TLAPS

LEMMA Entries ==
  /\ NoEntry \notin Numbers /\ "kill" \notin Numbers
  /\ \A t \in Numbers : EntryOf(t) \in Numbers
  /\ \A t \in Types : EntryOf(t) # NoEntry => t \in Numbers
  /\ \A t \in Numbers : t # "child" => EntryOf(t) = t
  /\ EntryOf("child") # "child"
  BY NamesAssumption DEF EntryOf, Types, NoEntry

(* What is left to do, in terms of the entry that it is about.             *)
Pushes(n) == op.do = "push" /\ EntryOf(op.type) = n
Restores(n) == op.do = "restore" /\ op.entry = n

(* A SignalHandler is in the list of its type's entry, and in no other.    *)
ListsMatch ==
  /\ \A e \in Numbers : \A i \in handlers[e] : type[i] \in Numbers /\ EntryOf(type[i]) = e
  /\ \A i \in Ids : type[i] # NoEntry => type[i] \in Numbers /\ i \in handlers[EntryOf(type[i])]

(* A list with handlers, or about to get one, has its signal's action; one *)
(* that is empty has it for a moment only, and remembers the original one. *)
ActionsMatch ==
  /\ \A e \in Numbers : handlers[e] # {} \/ Pushes(e) => action[e] = "saHandler"
  /\ \A e \in Numbers : Restores(e) => handlers[e] = {} /\ action[e] = "saHandler"
  /\ \A e \in Numbers : action[e] = "saHandler" => original[e] # "unset"
  /\ \A e \in Numbers \ spoiled : action[e] = "saHandler" =>
       original[e] = "original" /\ (handlers[e] # {} \/ Pushes(e) \/ Restores(e))

(* A Handle has a SignalHandler that exists, and for itself.               *)
HandlesMatch ==
  \A h \in Handles : handle[h] # NoId =>
    /\ type[handle[h]] # NoEntry
    /\ \A other \in Handles : handle[other] = handle[h] => other = h

Inv == TypeOK /\ ListsMatch /\ ActionsMatch /\ HandlesMatch

LEMMA InvInit == Init => Inv
  BY NamesAssumption DEF Init, Inv, TypeOK, ListsMatch, ActionsMatch, HandlesMatch,
     Pushes, Restores, Idle, NoId

LEMMA OpTypes ==
  ASSUME TypeOK
  PROVE  /\ op.do = "push" => op.type \in Numbers
         /\ op.do = "restore" => op.entry \in Numbers
         /\ op = Idle => op.do = "nothing"
  BY DEF TypeOK, Idle

LEMMA InstallKeeps ==
  ASSUME Inv, NEW t \in Types, Install(t)
  PROVE  Inv'
<1> DEFINE e == EntryOf(t)
<1>1. t \in Numbers /\ e \in Numbers
  BY Entries DEF Install
<1>2. op' = [do |-> "push", type |-> t] /\ UNCHANGED <<handlers, type, handle, spoiled>>
  BY DEF Install
<1>3. /\ action' \in [Numbers -> {"original", "saHandler"}]
      /\ original' \in [Numbers -> {"unset", "original", "saHandler"}]
      /\ \A n \in Numbers : n # e \/ handlers[e] # {} =>
           action'[n] = action[n] /\ original'[n] = original[n]
      /\ handlers[e] = {} => action'[e] = "saHandler" /\ original'[e] = action[e]
  BY <1>1 DEF Install, Inv, TypeOK
<1>4. TypeOK'
  BY <1>1, <1>2, <1>3 DEF Inv, TypeOK
<1>5. \A n \in Numbers : ~Pushes(n) /\ ~Restores(n)
  BY OpTypes DEF Inv, Pushes, Restores, Install
<1>6. \A n \in Numbers : (Pushes(n)' <=> n = e) /\ ~Restores(n)'
  BY <1>1, <1>2 DEF Pushes, Restores
<1>7. ActionsMatch'
  <2>1. \A n \in Numbers : handlers'[n] # {} \/ Pushes(n)' => action'[n] = "saHandler"
    BY <1>1, <1>2, <1>3, <1>6 DEF Inv, ActionsMatch
  <2>2. \A n \in Numbers \ spoiled' : action'[n] = "saHandler" =>
          original'[n] = "original" /\ (handlers'[n] # {} \/ Pushes(n)')
    BY <1>1, <1>2, <1>3, <1>5, <1>6 DEF Inv, ActionsMatch, TypeOK
  <2>3. \A n \in Numbers : action'[n] = "saHandler" => original'[n] # "unset"
    BY <1>1, <1>3 DEF Inv, ActionsMatch, TypeOK
  <2> QED
    BY <1>6, <2>1, <2>2, <2>3 DEF ActionsMatch
<1>8. ListsMatch' /\ HandlesMatch'
  BY <1>2 DEF Inv, ListsMatch, HandlesMatch
<1> QED
  BY <1>4, <1>7, <1>8 DEF Inv

LEMMA PushKeeps ==
  ASSUME Inv, NEW i \in Ids, NEW h \in Handles, Push(i, h)
  PROVE  Inv'
<1> DEFINE e == EntryOf(op.type)
<1>1. op.do = "push" /\ op.type \in Numbers /\ e \in Numbers /\ type[i] = NoEntry
  BY Entries, OpTypes DEF Push, Inv
<1>2. /\ op' = Idle /\ UNCHANGED <<action, original, spoiled>>
      /\ handlers' = [handlers EXCEPT ![e] = @ \cup {i}]
      /\ type' = [type EXCEPT ![i] = op.type]
      /\ handle' = [handle EXCEPT ![h] = i]
  BY DEF Push
<1> HIDE DEF e
<1>3. /\ handlers' \in [Numbers -> SUBSET Ids]
      /\ \A n \in Numbers \ {e} : handlers'[n] = handlers[n]
      /\ handlers'[e] = handlers[e] \cup {i}
  BY <1>1, <1>2 DEF Inv, TypeOK
<1>4. /\ type' \in [Ids -> Types \cup {NoEntry}]
      /\ \A j \in Ids \ {i} : type'[j] = type[j]
      /\ type'[i] = op.type
  BY <1>1, <1>2 DEF Inv, TypeOK, Types
<1>5. TypeOK'
  BY <1>2, <1>3, <1>4 DEF Inv, TypeOK
<1>6. \A n \in Numbers : i \notin handlers[n]
  BY <1>1, Entries DEF Inv, ListsMatch
<1>7. ListsMatch'
  <2>1. \A n \in Numbers : \A j \in handlers'[n] : type'[j] \in Numbers /\ EntryOf(type'[j]) = n
    BY <1>1, <1>3, <1>4, <1>6 DEF Inv, ListsMatch, TypeOK, e
  <2>2. \A j \in Ids : type'[j] # NoEntry => type'[j] \in Numbers /\ j \in handlers'[EntryOf(type'[j])]
    BY <1>1, <1>3, <1>4, Entries DEF Inv, ListsMatch, e
  <2> QED
    BY <2>1, <2>2 DEF ListsMatch
<1>8. \A n \in Numbers : ~Pushes(n)' /\ ~Restores(n)' /\ ~Restores(n) /\ (Pushes(n) => n = e)
  BY <1>1, <1>2 DEF Pushes, Restores, Idle, e
<1>9. action[e] = "saHandler"
  BY <1>1 DEF Inv, ActionsMatch, Pushes, e
<1>10. ActionsMatch'
  BY <1>2, <1>3, <1>8, <1>9 DEF Inv, ActionsMatch
<1>11. HandlesMatch'
  <2>1. \A g \in Handles : handle[g] # i
    BY <1>1, NamesAssumption DEF Inv, HandlesMatch
  <2>2. \A g \in Handles : handle'[g] = (IF g = h THEN i ELSE handle[g])
    BY <1>2 DEF Inv, TypeOK
  <2>3. \A g \in Handles : handle[g] # NoId => type'[handle[g]] # NoEntry
    BY <1>4, <2>1 DEF Inv, HandlesMatch, TypeOK
  <2> QED
    BY <1>1, <1>4, <2>1, <2>2, <2>3, Entries DEF Inv, HandlesMatch
<1> QED
  BY <1>5, <1>7, <1>10, <1>11 DEF Inv

LEMMA ThrowKeeps ==
  ASSUME Inv, InstallThrows
  PROVE  Inv'
<1> DEFINE e == EntryOf(op.type)
<1>1. op.do = "push" /\ op.type \in Numbers /\ e \in Numbers
  BY Entries, OpTypes DEF InstallThrows, Inv
<1>2. /\ op' = Idle /\ UNCHANGED <<handlers, action, original, type, handle>>
      /\ spoiled' = IF handlers[e] = {} THEN spoiled \cup {e} ELSE spoiled
  BY DEF InstallThrows
<1>3. TypeOK'
  BY <1>1, <1>2 DEF Inv, TypeOK
<1>4. \A n \in Numbers : ~Pushes(n)' /\ ~Restores(n)' /\ ~Restores(n) /\ (Pushes(n) => n = e)
  BY <1>1, <1>2 DEF Pushes, Restores, Idle
<1>5. ActionsMatch'
  BY <1>2, <1>4 DEF Inv, ActionsMatch
<1>6. ListsMatch' /\ HandlesMatch'
  BY <1>2 DEF Inv, ListsMatch, HandlesMatch
<1> QED
  BY <1>3, <1>5, <1>6 DEF Inv

LEMMA MoveKeeps ==
  ASSUME Inv, NEW to \in Handles, NEW from \in Handles, Move(to, from)
  PROVE  Inv'
<1>1. UNCHANGED <<handlers, action, original, type, op, spoiled>>
  BY DEF Move
<1>2. \A g \in Handles :
        handle'[g] = (IF g = from THEN NoId ELSE IF g = to THEN handle[from] ELSE handle[g])
  BY DEF Move, Inv, TypeOK
<1>3. handle' \in [Handles -> Ids \cup {NoId}]
  BY DEF Move, Inv, TypeOK
<1>4. TypeOK' /\ ListsMatch' /\ ActionsMatch'
  BY <1>1, <1>3 DEF Inv, TypeOK, ListsMatch, ActionsMatch, Pushes, Restores
<1>5. HandlesMatch'
  BY <1>1, <1>2 DEF Inv, HandlesMatch
<1> QED
  BY <1>4, <1>5 DEF Inv

LEMMA DestroyKeeps ==
  ASSUME Inv, NEW h \in Handles, Destroy(h)
  PROVE  Inv'
<1> DEFINE i == handle[h]
           e == EntryOf(type[i])
<1>1. i \in Ids /\ i # NoId
  BY DEF Destroy, Inv, TypeOK
<1>2. type[i] \in Numbers /\ e \in Numbers /\ i \in handlers[e]
  BY <1>1, Entries DEF Inv, HandlesMatch, ListsMatch
<1>3. /\ handlers' = [handlers EXCEPT ![e] = @ \ {i}]
      /\ op' = IF handlers'[e] = {} THEN [do |-> "restore", entry |-> e] ELSE Idle
      /\ type' = [type EXCEPT ![i] = NoEntry]
      /\ handle' = [handle EXCEPT ![h] = NoId]
      /\ UNCHANGED <<action, original, spoiled>>
  BY DEF Destroy
<1> HIDE DEF i, e
<1>4. /\ handlers' \in [Numbers -> SUBSET Ids]
      /\ \A n \in Numbers \ {e} : handlers'[n] = handlers[n]
      /\ handlers'[e] = handlers[e] \ {i}
  BY <1>2, <1>3 DEF Inv, TypeOK
<1>5. /\ type' \in [Ids -> Types \cup {NoEntry}]
      /\ \A j \in Ids \ {i} : type'[j] = type[j]
      /\ type'[i] = NoEntry
  BY <1>1, <1>3 DEF Inv, TypeOK
<1>6. TypeOK'
  BY <1>2, <1>3, <1>4, <1>5 DEF Inv, TypeOK
<1>7. \A n \in Numbers : n # e => i \notin handlers[n]
  BY DEF Inv, ListsMatch, e
<1>8. ListsMatch'
  <2>1. \A n \in Numbers : \A j \in handlers'[n] : type'[j] \in Numbers /\ EntryOf(type'[j]) = n
    BY <1>4, <1>5, <1>7 DEF Inv, ListsMatch, TypeOK
  <2>2. \A j \in Ids : type'[j] # NoEntry => type'[j] \in Numbers /\ j \in handlers'[EntryOf(type'[j])]
    BY <1>4, <1>5, Entries DEF Inv, ListsMatch
  <2> QED
    BY <2>1, <2>2 DEF ListsMatch
<1>9. \A n \in Numbers : ~Pushes(n) /\ ~Restores(n)
  BY OpTypes DEF Inv, Pushes, Restores, Destroy
<1>10. \A n \in Numbers : ~Pushes(n)' /\ (Restores(n)' <=> n = e /\ handlers'[e] = {})
  BY <1>2, <1>3 DEF Pushes, Restores, Idle
<1>11. ActionsMatch'
  BY <1>2, <1>3, <1>4, <1>9, <1>10 DEF Inv, ActionsMatch
<1>12. HandlesMatch'
  <2>1. \A g \in Handles : handle'[g] = (IF g = h THEN NoId ELSE handle[g])
    BY <1>3 DEF Inv, TypeOK
  <2>2. \A g \in Handles \ {h} : handle[g] # i
    BY <1>1 DEF Inv, HandlesMatch, i
  <2>3. \A g \in Handles \ {h} : handle[g] # NoId => type'[handle[g]] # NoEntry
    BY <1>5, <2>2 DEF Inv, HandlesMatch, TypeOK
  <2> QED
    BY <2>1, <2>3 DEF Inv, HandlesMatch
<1> QED
  BY <1>6, <1>8, <1>11, <1>12 DEF Inv

LEMMA RestoreKeeps ==
  ASSUME Inv, Restore
  PROVE  Inv'
<1> DEFINE e == op.entry
<1>1. op.do = "restore" /\ e \in Numbers /\ handlers[e] = {}
  BY OpTypes DEF Restore, Inv, ActionsMatch, Restores
<1>2. /\ op' = Idle /\ UNCHANGED <<handlers, original, type, handle, spoiled>>
      /\ action' = [action EXCEPT ![e] = original[e]]
  BY DEF Restore
<1> HIDE DEF e
<1>3. original[e] \in {"original", "saHandler"}
  BY <1>1 DEF Inv, TypeOK, ActionsMatch, Restores, e
<1>4. /\ action' \in [Numbers -> {"original", "saHandler"}]
      /\ \A n \in Numbers \ {e} : action'[n] = action[n]
      /\ action'[e] = original[e]
  BY <1>1, <1>2, <1>3 DEF Inv, TypeOK
<1>5. TypeOK'
  BY <1>2, <1>4 DEF Inv, TypeOK
<1>6. \A n \in Numbers : ~Pushes(n)' /\ ~Restores(n)' /\ ~Pushes(n) /\ (Restores(n) <=> n = e)
  BY <1>1, <1>2 DEF Pushes, Restores, Idle, e
<1>7. e \notin spoiled => original[e] = "original"
  BY <1>1, <1>6 DEF Inv, ActionsMatch
<1>8. ActionsMatch'
  BY <1>1, <1>2, <1>3, <1>4, <1>6, <1>7 DEF Inv, ActionsMatch
<1>9. ListsMatch' /\ HandlesMatch'
  BY <1>2 DEF Inv, ListsMatch, HandlesMatch
<1> QED
  BY <1>5, <1>8, <1>9 DEF Inv

LEMMA InvStep ==
  ASSUME Inv, [Next]_vars
  PROVE  Inv'
<1>1. CASE Next
  BY <1>1, InstallKeeps, PushKeeps, ThrowKeeps, MoveKeeps, DestroyKeeps, RestoreKeeps DEF Next
<1>2. CASE UNCHANGED vars
  BY <1>2 DEF vars, Inv, TypeOK, ListsMatch, ActionsMatch, HandlesMatch, Pushes, Restores
<1> QED
  BY <1>1, <1>2

LEMMA InvHolds == Spec => []Inv
  BY InvInit, InvStep, PTL DEF Spec

(* The lists, actions, Handles and what is left to do have their types:    *)
(* what sigaction() stored is there when it is read.                       *)
THEOREM TypeCorrect == Spec => []TypeOK
<1>1. Inv => TypeOK
  BY DEF Inv
<1> QED
  BY <1>1, InvHolds, PTL

(* A handler in a list is called when its signal arrives, in between the   *)
(* steps of install() and remove() too, for any number of signals,         *)
(* handlers and Handles.                                                   *)
THEOREM AllAnswered == Spec => []Answered
<1>1. Inv => Answered
  <2> SUFFICES ASSUME Inv, NEW e \in Numbers, NEW i \in handlers[e], type[i] # "child"
               PROVE  i \in Runs(type[i])
    BY DEF Answered
  <2>1. type[i] \in Numbers /\ EntryOf(type[i]) = e
    BY DEF Inv, ListsMatch
  <2>2. type[i] = e
    BY <2>1, Entries
  <2>3. action[e] = "saHandler"
    BY DEF Inv, ActionsMatch
  <2> QED
    BY <2>1, <2>2, <2>3 DEF Runs, Types
<1> QED
  BY <1>1, InvHolds, PTL

(* A signal without a handler has its original action, but between the     *)
(* steps of install() and remove(), unless install() has thrown half way.  *)
THEOREM OriginalIsBack == Spec => []OriginalReturns
<1>1. Inv => OriginalReturns
  <2> SUFFICES ASSUME Inv, NEW n \in Numbers \ spoiled, Runs(n) = {},
                      action[n] # "original", ~Pushes(n), ~Restores(n)
               PROVE  FALSE
    BY DEF OriginalReturns, Pushes, Restores
  <2>1. action[n] = "saHandler"
    BY DEF Inv, TypeOK
  <2>2. PICK i \in handlers[n] : TRUE
    BY <2>1 DEF Inv, ActionsMatch
  <2>3. type[i] \in Types /\ EntryOf(type[i]) = n
    BY <2>2 DEF Inv, ListsMatch, Types
  <2> QED
    BY <2>1, <2>2, <2>3 DEF Runs
<1> QED
  BY <1>1, InvHolds, PTL

(* A Handle's SignalHandler is in a list, and no other Handle has it: no   *)
(* destructor of a Handle touches one that is gone.                        *)
THEOREM HandlesAreOwners == Spec => []HandlesOwn
<1>1. Inv => HandlesOwn
  BY Entries DEF Inv, TypeOK, ListsMatch, HandlesMatch, HandlesOwn, Listed
<1> QED
  BY <1>1, InvHolds, PTL
=============================================================================
