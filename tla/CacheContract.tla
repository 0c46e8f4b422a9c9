---------------------------- MODULE CacheContract ----------------------------
(***************************************************************************)
(* What the users of the semantic cache may count on.  It is one map from  *)
(* model versions and prompts to replies.  A set takes effect at most once *)
(* and at one moment, and has done so when it is reported done; a get      *)
(* reads the map at one moment; nothing else ever changes the map, neither *)
(* the failure of a call, nor the restart of a server, nor an upgrade.     *)
(***************************************************************************)
EXTENDS Naturals

CONSTANTS
  Calls,
  Tags,      \* model versions
  Prompts,
  Near,      \* Near[p]: the prompts a reply for p may have been written for
  None

VARIABLES
  store,     \* for each version and prompt the call that wrote, or None
  request,   \* what each call asked, or None
  phase,     \* "idle" | "open" | "done" | "failed"
  took,      \* the sets that have taken effect
  answer     \* the reply each get was given, named by its writer, or None

vars == <<store, request, phase, took, answer>>

Request == [op : {"get", "set"}, version : Tags, prompt : Prompts]

Init ==
  /\ store = [v \in Tags |-> [p \in Prompts |-> None]]
  /\ request = [c \in Calls |-> None]
  /\ phase = [c \in Calls |-> "idle"]
  /\ took = {}
  /\ answer = [c \in Calls |-> None]

Ask(c) ==
  /\ phase[c] = "idle"
  /\ \E r \in Request : request' = [request EXCEPT ![c] = r]
  /\ phase' = [phase EXCEPT ![c] = "open"]
  /\ UNCHANGED <<store, took, answer>>

Put(c) ==
  /\ phase[c] = "open" /\ request[c].op = "set" /\ c \notin took
  /\ store' = [store EXCEPT ![request[c].version][request[c].prompt] = c]
  /\ took' = took \cup {c}
  /\ UNCHANGED <<request, phase, answer>>

Confirm(c) ==
  /\ phase[c] = "open" /\ c \in took
  /\ phase' = [phase EXCEPT ![c] = "done"]
  /\ UNCHANGED <<store, request, took, answer>>

(* A miss is a miss: there was nothing to serve.                           *)
Replies(c) ==
  {store[request[c].version][q] : q \in Near[request[c].prompt]} \ {None}

Reply(c) ==
  /\ phase[c] = "open" /\ request[c].op = "get"
  /\ IF Replies(c) = {} THEN UNCHANGED answer
     ELSE \E w \in Replies(c) : answer' = [answer EXCEPT ![c] = w]
  /\ phase' = [phase EXCEPT ![c] = "done"]
  /\ UNCHANGED <<store, request, took>>

(* Calls may fail together, when their server restarts.                    *)
Fail ==
  /\ \E failed \in SUBSET {c \in Calls : phase[c] = "open"} :
       phase' = [c \in Calls |-> IF c \in failed THEN "failed" ELSE phase[c]]
  /\ UNCHANGED <<store, request, took, answer>>

Next == Fail \/ \E c \in Calls : Ask(c) \/ Put(c) \/ Confirm(c) \/ Reply(c)

Spec == Init /\ [][Next]_vars
=============================================================================
