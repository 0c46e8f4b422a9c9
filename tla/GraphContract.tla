---------------------------- MODULE GraphContract ----------------------------
(***************************************************************************)
(* What one chat thread may observe of the cognitive graph: a request is   *)
(* planned, the planned tasks are finished in plan order, and only then is *)
(* it answered.  The execution lanes, the tool loop, the critic and the    *)
(* rework gate of CognitiveGraph are all invisible here.                   *)
(***************************************************************************)
EXTENDS Naturals, Sequences

VARIABLES
  stage,   \* "planning" | "working" | "answered" | "failed"
  plan,    \* the task ids of the plan, in order
  done     \* the positions of the plan whose task is completed

vars == <<stage, plan, done>>

Open == DOMAIN plan \ done

Init == stage = "planning" /\ plan = <<>> /\ done = {}

(* The request gets its plan, which may be empty and may repeat an id.     *)
Decide ==
  /\ stage = "planning"
  /\ stage' = "working"
  /\ plan' \in Seq(Nat)
  /\ done' = {}

(* The earliest open task is finished, and with it every task that has the *)
(* same id.                                                                *)
FinishTask ==
  /\ stage = "working"
  /\ \E i \in Open :
       /\ \A j \in Open : i <= j
       /\ done' = done \cup {j \in DOMAIN plan : plan[j] = plan[i]}
  /\ UNCHANGED <<stage, plan>>

Answer ==
  /\ stage = "working"
  /\ Open = {}
  /\ stage' = "answered"
  /\ UNCHANGED <<plan, done>>

Fail ==
  /\ stage \in {"planning", "working"}
  /\ stage' = "failed"
  /\ UNCHANGED <<plan, done>>

AskAgain ==
  /\ stage \in {"answered", "failed"}
  /\ stage' = "planning"
  /\ plan' = <<>>
  /\ done' = {}

Next == Decide \/ FinishTask \/ Answer \/ Fail \/ AskAgain

(* Every request that was started is answered or fails.                    *)
Settles == stage \in {"planning", "working"} ~> stage \in {"answered", "failed"}

Safety == Init /\ [][Next]_vars
Spec == Safety /\ Settles
=============================================================================
