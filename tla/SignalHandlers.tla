--------------------------- MODULE SignalHandlers ---------------------------
(***************************************************************************)
(* zsystem::SignalHandler: handlers of a signal are kept in a list, the    *)
(* first one replaces the program's action for the signal, the last one    *)
(* restores it, and a Handle removes its handler when it is destroyed.     *)
(*                                                                         *)
(* One thread installs and removes (SignalHandler.h:39); a signal may      *)
(* arrive between any two of its system calls.  Handlers change no list    *)
(* (SignalHandler.h:41), so that a signal changes no state here: Runs says *)
(* what it would do.                                                       *)
(***************************************************************************)
CONSTANTS
  Numbers,    \* signals, named as in Signal::Type, which have an entry
  Ids,        \* SignalHandler objects
  Handles     \* Handle objects of the program

NoEntry == "no entry"
NoId == "nullptr"
Idle == [do |-> "nothing"]

ASSUME NamesAssumption ==
  {"ill", "child"} \subseteq Numbers /\ {"kill", NoEntry} \cap Numbers = {} /\ NoId \notin Ids

VARIABLES
  handlers,   \* the list of each entry; no property needs its order
  action,     \* the program's action for each signal
  original,   \* sigActionOriginal of each entry
  type,       \* type of each SignalHandler, while there is one
  handle,     \* member of each Handle
  op,         \* what is left to do of the install() or remove() in progress
  spoiled     \* entries whose install() threw after it called sigaction()
vars == <<handlers, action, original, type, handle, op, spoiled>>

Types == Numbers \cup {"kill"}

(* The entry of a type, which has one for each signal but SIGKILL and, by  *)
(* its table, SIGCHLD.                                                     *)
EntryOf(t) == CASE t = "child" -> "ill" [] t = "kill" -> NoEntry [] OTHER -> t

(* What saHandler() calls when a signal arrives: nothing of ours while the *)
(* original action is in place.                                            *)
Runs(n) ==
  IF action[n] = "saHandler" /\ \E t \in Types : EntryOf(t) = n THEN handlers[n] ELSE {}

Init ==
  /\ handlers = [e \in Numbers |-> {}]
  /\ action = [n \in Numbers |-> "original"]
  /\ original = [e \in Numbers |-> "unset"]
  /\ type = [i \in Ids |-> NoEntry]
  /\ handle = [h \in Handles |-> NoId]
  /\ op = Idle /\ spoiled = {}

-----------------------------------------------------------------------------
(* Mutation: sigActionOriginal is filled in with every handler.            *)
InstallAnew(t) ==
  /\ op = Idle /\ EntryOf(t) # NoEntry
  /\ LET e == EntryOf(t)
     IN  /\ action' = [action EXCEPT ![e] = "saHandler"]
         /\ original' = [original EXCEPT ![e] = action[e]]
  /\ op' = [do |-> "push", type |-> t]
  /\ UNCHANGED <<handlers, type, handle, spoiled>>

(* Mutation: sigaction() is not asked for the original action.             *)
InstallForgets(t) ==
  /\ op = Idle /\ EntryOf(t) # NoEntry
  /\ action' = [action EXCEPT ![EntryOf(t)] = "saHandler"]
  /\ op' = [do |-> "push", type |-> t]
  /\ UNCHANGED <<handlers, original, type, handle, spoiled>>

(* install() of the first handler of an entry calls sigaction().           *)
Install(t) ==
  /\ op = Idle /\ EntryOf(t) # NoEntry
  /\ LET e == EntryOf(t)
     IN  IF handlers[e] = {}
           THEN /\ action' = [action EXCEPT ![e] = "saHandler"]
                /\ original' = [original EXCEPT ![e] = action[e]]
           ELSE UNCHANGED <<action, original>>
  /\ op' = [do |-> "push", type |-> t]
  /\ UNCHANGED <<handlers, type, handle, spoiled>>

(* It then makes the SignalHandler, adds it to the list, and returns a     *)
(* Handle, which the program keeps in one of its own: by construction, or  *)
(* by an assignment, which forgets the handler that this one had.          *)
Push(i, h) ==
  /\ op.do = "push" /\ type[i] = NoEntry
  /\ handlers' = [handlers EXCEPT ![EntryOf(op.type)] = @ \cup {i}]
  /\ type' = [type EXCEPT ![i] = op.type]
  /\ handle' = [handle EXCEPT ![h] = i]
  /\ op' = Idle
  /\ UNCHANGED <<action, original, spoiled>>

(* Memory is short, or the std::function throws when it is copied.         *)
InstallThrows ==
  /\ op.do = "push"
  /\ op' = Idle
  /\ spoiled' = IF handlers[EntryOf(op.type)] = {} THEN spoiled \cup {EntryOf(op.type)}
                                                    ELSE spoiled
  /\ UNCHANGED <<handlers, action, original, type, handle>>

(* Mutation: the moved-from Handle keeps its pointer.                      *)
MoveShares(to, from) ==
  /\ op = Idle
  /\ handle' = [handle EXCEPT ![to] = handle[from]]
  /\ UNCHANGED <<handlers, action, original, type, op, spoiled>>

(* Handle(Handle&&), and the assignment, which neither asks whether both   *)
(* are the same object nor what the target had: a handler that nobody has  *)
(* then stays installed for good.                                          *)
Move(to, from) ==
  /\ op = Idle
  /\ handle' = [handle EXCEPT ![to] = handle[from], ![from] = NoId]
  /\ UNCHANGED <<handlers, action, original, type, op, spoiled>>

(* Mutation: the original action is restored with any handler.             *)
RemoveAlwaysRestores(h) ==
  /\ op = Idle /\ handle[h] # NoId
  /\ LET e == EntryOf(type[handle[h]])
     IN  /\ handlers' = [handlers EXCEPT ![e] = @ \ {handle[h]}]
         /\ op' = [do |-> "restore", entry |-> e]
  /\ type' = [type EXCEPT ![handle[h]] = NoEntry]
  /\ handle' = [handle EXCEPT ![h] = NoId]
  /\ UNCHANGED <<action, original, spoiled>>

(* ~Handle() has remove() erase the SignalHandler from its list.           *)
Destroy(h) ==
  /\ op = Idle /\ handle[h] # NoId
  /\ LET e == EntryOf(type[handle[h]])
     IN  /\ handlers' = [handlers EXCEPT ![e] = @ \ {handle[h]}]
         /\ op' = IF handlers'[e] = {} THEN [do |-> "restore", entry |-> e] ELSE Idle
  /\ type' = [type EXCEPT ![handle[h]] = NoEntry]
  /\ handle' = [handle EXCEPT ![h] = NoId]
  /\ UNCHANGED <<action, original, spoiled>>

(* And it calls sigaction() if that was the last one.                      *)
Restore ==
  /\ op.do = "restore"
  /\ action' = [action EXCEPT ![op.entry] = original[op.entry]]
  /\ op' = Idle
  /\ UNCHANGED <<handlers, original, type, handle, spoiled>>

Next ==
  \/ \E t \in Types : Install(t)
  \/ \E i \in Ids, h \in Handles : Push(i, h)
  \/ \E to, from \in Handles : Move(to, from)
  \/ \E h \in Handles : Destroy(h)
  \/ InstallThrows \/ Restore

Spec == Init /\ [][Next]_vars

-----------------------------------------------------------------------------
(* Properties.                                                             *)

Listed == UNION {handlers[e] : e \in Numbers}

TypeOK ==
  /\ handlers \in [Numbers -> SUBSET Ids]
  /\ action \in [Numbers -> {"original", "saHandler"}]
  /\ original \in [Numbers -> {"unset", "original", "saHandler"}]
  /\ type \in [Ids -> Types \cup {NoEntry}]
  /\ handle \in [Handles -> Ids \cup {NoId}]
  /\ op \in {Idle} \cup [do : {"push"}, type : Numbers] \cup [do : {"restore"}, entry : Numbers]
  /\ spoiled \subseteq Numbers

(* A handler in a list is called when its signal arrives, whatever else is *)
(* installed and removed, in between their steps too (but for SIGCHLD,     *)
(* whose handlers wait for SIGILL).                                        *)
Answered ==
  \A e \in Numbers : \A i \in handlers[e] :
    type[i] # "child" => i \in Runs(type[i])

(* A signal finds its original action as soon as no handler is left: it    *)
(* gets lost between the steps of install() and remove() only, unless      *)
(* install() has thrown half way.                                          *)
OriginalReturns ==
  \A n \in Numbers \ spoiled : Runs(n) = {} =>
    \/ action[n] = "original"
    \/ op.do = "push" /\ EntryOf(op.type) = n
    \/ op.do = "restore" /\ op.entry = n

(* A Handle has a handler that is installed, and no other Handle has it:   *)
(* no destructor touches a handler that is gone.                           *)
HandlesOwn ==
  \A h \in Handles : handle[h] # NoId =>
    /\ handle[h] \in Listed
    /\ \A other \in Handles : handle[other] = handle[h] => other = h
=============================================================================
