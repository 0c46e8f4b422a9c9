---------------------------- MODULE MemoryContract ----------------------------
(***************************************************************************)
(* What the chat side may count on when it hands a turn over to long-term  *)
(* memory.  The task is lost at once or taken; while it is taken, facts of *)
(* its owner are filed under it, any number of times; then it is settled,  *)
(* once and for all, and nothing more is filed under it.  Only unimportant *)
(* facts are ever forgotten.  The queue, the worker, its crashes, the      *)
(* redeliveries, the checkpoint it reads and the exceptions it swallows in *)
(* MemoryPipeline are invisible here.                                      *)
(***************************************************************************)
EXTENDS Naturals

CONSTANTS
  Users,
  Collections,
  Turns,
  None

VARIABLES
  owner,        \* the user of each turn that was begun, or None
  collection,   \* where the facts of each turn that was handed over go, or None
  place,        \* "none" | "handed" | "taken" | "lost" | "acked" | "dead"
  facts         \* what retrieval can find

vars == <<owner, collection, place, facts>>

Init ==
  /\ owner = [t \in Turns |-> None]
  /\ collection = [t \in Turns |-> None]
  /\ place = [t \in Turns |-> "none"]
  /\ facts = {}

Begin(t) ==
  /\ owner[t] = None
  /\ \E u \in Users : owner' = [owner EXCEPT ![t] = u]
  /\ UNCHANGED <<collection, place, facts>>

Hand(t) ==
  /\ owner[t] # None /\ place[t] = "none"
  /\ \E c \in Collections : collection' = [collection EXCEPT ![t] = c]
  /\ place' = [place EXCEPT ![t] = "handed"]
  /\ UNCHANGED <<owner, facts>>

Take(t) ==
  /\ place[t] = "handed"
  /\ place' \in {[place EXCEPT ![t] = p] : p \in {"taken", "lost"}}
  /\ UNCHANGED <<owner, collection, facts>>

(* A fact may be about any turn of the same user.                          *)
File(t) ==
  /\ place[t] = "taken"
  /\ \E about \in Turns, minor \in BOOLEAN :
       /\ owner[about] = owner[t]
       /\ facts' = facts \cup {[user |-> owner[t], collection |-> collection[t], task |-> t,
                                finding |-> [about |-> about, minor |-> minor]]}
  /\ UNCHANGED <<owner, collection, place>>

Settle(t) ==
  /\ place[t] = "taken"
  /\ place' \in {[place EXCEPT ![t] = p] : p \in {"acked", "dead"}}
  /\ UNCHANGED <<owner, collection, facts>>

Forget(c) ==
  /\ facts' \subseteq facts
  /\ \A f \in facts \ facts' : f.collection = c /\ f.finding.minor
  /\ UNCHANGED <<owner, collection, place>>

Next ==
  \/ \E t \in Turns : Begin(t) \/ Hand(t) \/ Take(t) \/ File(t) \/ Settle(t)
  \/ \E c \in Collections : Forget(c)

(* What is handed over comes to an end.                                    *)
Settles ==
  \A t \in Turns : place[t] = "handed" ~> place[t] \in {"lost", "acked", "dead"}

Safety == Init /\ [][Next]_vars
Spec == Safety /\ Settles
=============================================================================
