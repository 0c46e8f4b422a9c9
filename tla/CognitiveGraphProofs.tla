------------------------- MODULE CognitiveGraphProofs -------------------------
(***************************************************************************)
(* Theorems about CognitiveGraph, for every set of lanes, domains, calls   *)
(* and plans and every value of the limits.                                *)
(***************************************************************************)
EXTENDS CognitiveGraph, TLAPS

Planning == {"supervisor_router", "planner", "direct_executor_init"}

Working == Lanes \cup {"action_tracker", "tools", "finding_extractor",
                       "critic_agent", "reflection_agent", "task_manager"}

(* Before a plan exists the loop state is the one the request came with.   *)
PlanningInv ==
  pc \in Planning =>
    /\ tasks = <<>> /\ current_task_id = None
    /\ iteration_count = 0 /\ tool_call_count = 0 /\ rework_count = 0
    /\ executed = {}

(* The iterations exceed their limit by at most the reworks counted so far,*)
(* and a rework that was counted last at the cap does not run.             *)
LoopInv ==
  /\ iteration_count <= MaxIterations + rework_count
  /\ iteration_count < MaxIterations + MaxReworkCycles
  /\ rework_count <= MaxReworkCycles
  /\ tool_call_count < MaxToolCalls + MaxBatch
  /\ pc \in Planning \cup (Working \ {"task_manager"}) => rework_count < MaxReworkCycles
  /\ pc \in Lanes => iteration_count < MaxIterations + rework_count
  /\ pc \in {"action_tracker", "tools"} =>
       iteration_count < MaxIterations /\ LastMessage.calls \in Batches
  /\ pc = "action_tracker" => tool_call_count < MaxToolCalls

(* What ToolNode ran is in the history, and what it is about to run is in  *)
(* the history only from the tracker on.                                   *)
HistoryInv ==
  /\ executed \subseteq action_history
  /\ pc = "action_tracker" => HashesOf(LastMessage.calls) \cap action_history = {}
  /\ pc = "tools" => HashesOf(LastMessage.calls) \subseteq action_history

(* Tasks that share an id are completed together; the one being worked on  *)
(* is the earliest pending one; the text being judged was written under it.*)
LedgerInv ==
  /\ ResultsOwned
  /\ \A i, j \in DOMAIN tasks :
       tasks[i].id = tasks[j].id => tasks[i].status = tasks[j].status
  /\ pc \in Working =>
       IF tasks = <<>> THEN current_task_id = None
       ELSE \E i \in DOMAIN tasks :
              /\ tasks[i].id = current_task_id /\ tasks[i].status = "pending"
              /\ \A j \in DOMAIN tasks : tasks[j].status = "pending" => i <= j
  /\ pc \in {"finding_extractor", "critic_agent", "reflection_agent", "task_manager"} =>
       LastMessage.about = ActiveTask
  /\ pc \in {"critic_agent", "reflection_agent", "task_manager"} =>
       raw_executor_output \in {None, ActiveTask}
  /\ SynthesisComplete

IInv == TypeOK /\ PlanningInv /\ LoopInv /\ HistoryInv /\ LedgerInv

-----------------------------------------------------------------------------
(* Lemmas on the operators.                                                *)

(* The routers never leave the executor lanes.                             *)
LEMMA LaneOfType == \A d : LaneOf(d) \in Lanes
  BY LanesAssumption DEF LaneOf

(* A batch is a short sequence of calls.                                   *)
LEMMA BatchType ==
  ASSUME NEW calls \in Batches
  PROVE  calls \in Seq(Calls) /\ Len(calls) <= MaxBatch
<1>1. PICK n \in 0..MaxBatch : calls \in [1..n -> Calls]
  BY DEF Batches
<1> QED BY <1>1, LimitsAssumption

(* The hashes of a batch are calls.                                        *)
LEMMA HashesType ==
  ASSUME NEW calls \in Seq(Calls)
  PROVE  HashesOf(calls) \subseteq Calls
  BY DEF HashesOf

(* The last message of a well-typed stream is a message.                   *)
LEMMA LastMessageType ==
  ASSUME TypeOK
  PROVE  LastMessage \in Message
  BY DEF TypeOK, LastMessage

(* What an executor, the synthesizer or ToolNode appends is a message.     *)
LEMMA ResponseType ==
  ASSUME TypeOK, NEW lane \in Lanes \cup {None}, NEW calls \in Seq(Calls)
  PROVE  Response(lane, calls) \in Message
  BY NoneAssumption DEF TypeOK, Message, Response, ActiveTask

LEMMA ObservationType ==
  ASSUME NEW m \in Message
  PROVE  Observation(m) \in Message
  BY DEF Message, Observation

LEMMA PromptType == Prompt \in Message
  BY DEF Prompt, Message

(* The stream stays well typed when a message is appended.                 *)
LEMMA AppendType ==
  ASSUME TypeOK, NEW m \in Message
  PROVE  /\ Append(messages, m) \in Seq(Message)
         /\ Append(messages, m) # <<>>
         /\ Append(messages, m)[Len(Append(messages, m))] = m
  BY DEF TypeOK

(* Completing the current task keeps the ledger well typed.                *)
LEMMA CompleteCurrentType ==
  ASSUME TypeOK
  PROVE  /\ CompleteCurrent \in Seq(TaskRecord)
         /\ DOMAIN CompleteCurrent = DOMAIN tasks
<1>1. LastMessage.about \in Nat
  BY LastMessageType DEF Message
<1>2. PICK n \in Nat : tasks \in [1..n -> TaskRecord]
  BY DEF TypeOK
<1>3. ASSUME NEW i \in 1..n
      PROVE  CompleteCurrent[i] \in TaskRecord
  BY <1>1, <1>2, <1>3 DEF CompleteCurrent, TypeOK, TaskRecord
<1>4. CompleteCurrent \in [1..n -> TaskRecord]
  BY <1>2, <1>3 DEF CompleteCurrent
<1> QED BY <1>2, <1>4

(* The plan of one task that both fallbacks install is such a plan.        *)
LEMMA SingleTask ==
  ASSUME TypeOK
  PROVE  /\ <<Task(1, current_domain)>> \in Seq(TaskRecord)
         /\ \A i \in DOMAIN <<Task(1, current_domain)>> :
              /\ <<Task(1, current_domain)>>[i].status = "pending"
              /\ <<Task(1, current_domain)>>[i].result = None
<1>1. Task(1, current_domain) \in TaskRecord
  BY DEF Task, TaskRecord, TypeOK
<1>2. ASSUME NEW i \in DOMAIN <<Task(1, current_domain)>>
      PROVE  <<Task(1, current_domain)>>[i] = Task(1, current_domain)
  OBVIOUS
<1> QED BY <1>1, <1>2 DEF Task

(* So is the plan the planner's model returns.                             *)
LEMMA PlannedTasks ==
  ASSUME NEW plan \in Plans
  PROVE  LET ts == [i \in DOMAIN plan |-> Task(plan[i].id, plan[i].target_agent)]
         IN  /\ ts \in Seq(TaskRecord)
             /\ \A i \in DOMAIN ts : ts[i].status = "pending" /\ ts[i].result = None
<1> DEFINE ts == [i \in DOMAIN plan |-> Task(plan[i].id, plan[i].target_agent)]
<1>1. plan \in Seq(PlannedTask)
  BY PlansAssumption
<1>2. PICK n \in Nat : plan \in [1..n -> PlannedTask]
  BY <1>1
<1>3. \A i \in 1..n : Task(plan[i].id, plan[i].target_agent) \in TaskRecord
  BY <1>2, LanesAssumption DEF PlannedTask, Task, TaskRecord
<1>4. ts \in Seq(TaskRecord)
  BY <1>2, <1>3
<1>5. \A i \in DOMAIN ts : ts[i].status = "pending" /\ ts[i].result = None
  BY DEF Task
<1> QED BY <1>4, <1>5

-----------------------------------------------------------------------------
(* Types.                                                                  *)

(* The initial state is well typed.                                        *)
LEMMA InitType == Init => TypeOK
  BY PromptType, LanesAssumption, LimitsAssumption
  DEF Init, TypeOK, ControlNodes

(* Installing a plan keeps the types.                                      *)
LEMMA StartPlanType ==
  ASSUME TypeOK, NEW ts \in Seq(TaskRecord), StartPlan(ts)
  PROVE  TypeOK'
<1>1. pc' \in Lanes
  BY LaneOfType DEF StartPlan
<1>2. current_task_id' \in Nat \cup {None}
  <2>1. CASE ts = <<>>
    BY <2>1 DEF StartPlan
  <2>2. CASE ts # <<>>
    <3>1. ts[1] \in TaskRecord
      BY <2>2
    <3> QED BY <2>2, <3>1 DEF StartPlan, TaskRecord
  <2> QED BY <2>1, <2>2
<1> QED BY <1>1, <1>2 DEF StartPlan, TypeOK, history

(* Every step keeps the types.                                             *)
LEMMA NextType == TypeOK /\ [Next]_vars => TypeOK'
<1> SUFFICES ASSUME TypeOK, [Next]_vars PROVE TypeOK'
  OBVIOUS
<1>1. CASE SupervisorRouter
  BY <1>1 DEF SupervisorRouter, TypeOK, ControlNodes, ledger, counters, history
<1>2. CASE PlannerAgent
  <2>1. ASSUME NEW plan \in Plans,
               StartPlan([i \in DOMAIN plan |-> Task(plan[i].id, plan[i].target_agent)])
        PROVE  TypeOK'
    BY <2>1, PlannedTasks, StartPlanType
  <2>2. ASSUME StartPlan(<<Task(1, current_domain)>>) PROVE TypeOK'
    BY <2>2, SingleTask, StartPlanType
  <2> QED BY <1>2, <2>1, <2>2, Zenon DEF PlannerAgent
<1>3. CASE DirectExecutorInit
  BY <1>3, SingleTask, StartPlanType DEF DirectExecutorInit
<1>4. ASSUME NEW lane \in Lanes, Executor(lane) PROVE TypeOK'
  <2>1. PICK calls \in Batches :
          /\ messages' = Append(messages, Response(lane, calls))
          /\ pc' \in {"action_tracker", "finding_extractor"}
    BY <1>4 DEF Executor
  <2>2. messages' \in Seq(Message) /\ messages' # <<>>
    BY <2>1, BatchType, ResponseType, AppendType
  <2> QED BY <1>4, <2>1, <2>2 DEF Executor, TypeOK, ControlNodes, ledger, history
<1>5. CASE ActionTracker
  <2>1. LastMessage.calls \in Seq(Calls)
    BY LastMessageType DEF Message
  <2>2. HashesOf(LastMessage.calls) \subseteq Calls
    BY <2>1, HashesType
  <2> QED BY <1>5, <2>1, <2>2 DEF ActionTracker, TypeOK, ControlNodes, ledger, history
<1>6. CASE Tools
  <2>1. LastMessage.calls \in Seq(Calls)
    BY LastMessageType DEF Message
  <2>2. HashesOf(LastMessage.calls) \subseteq Calls
    BY <2>1, HashesType
  <2>3. messages' \in Seq(Message) /\ messages' # <<>>
    BY <1>6, LastMessageType, ObservationType, AppendType DEF Tools
  <2>4. pc' \in Lanes
    BY <1>6, LaneOfType DEF Tools
  <2> QED BY <1>6, <2>1, <2>2, <2>3, <2>4 DEF Tools, TypeOK, ledger, counters
<1>7. CASE FindingExtractor
  <2>1. LastMessage.about \in Nat
    BY LastMessageType DEF Message
  <2> QED BY <1>7, <2>1
       DEF FindingExtractor, TypeOK, ControlNodes, ledger, counters, history
<1>8. CASE CriticAgent
  BY <1>8 DEF CriticAgent, TypeOK, ControlNodes, ledger, counters, history
<1>9. CASE ReflectionAgent
  <2>1. pc' \in Lanes \cup {"task_manager"}
    BY <1>9, LaneOfType DEF ReflectionAgent, RouteFromReflection
  <2>2. rework_count' \in Nat
    BY <1>9 DEF ReflectionAgent, TypeOK
  <2> QED BY <1>9, <2>1, <2>2 DEF ReflectionAgent, TypeOK, ControlNodes, ledger, history
<1>10. CASE TaskManager
  <2>1. tasks' \in Seq(TaskRecord)
    BY <1>10, CompleteCurrentType DEF TaskManager
  <2>2. ASSUME NEW next \in DOMAIN tasks', Advance(tasks', next)
        PROVE  TypeOK'
    <3>1. current_task_id' \in Nat
      <4>1. tasks'[next] \in TaskRecord
        BY <2>1, <2>2
      <4> QED BY <2>2, <4>1 DEF Advance, TaskRecord
    <3>2. pc' \in Lanes
      BY <2>2, LaneOfType DEF Advance, RouteFromTaskManager
    <3>3. messages' \in Seq(Message) /\ messages' # <<>>
      BY <2>2 DEF Advance, Sandboxed, TypeOK
    <3> QED BY <1>10, <2>1, <2>2, <3>1, <3>2, <3>3
         DEF TaskManager, Advance, TypeOK, history
  <2>3. ASSUME current_task_id' = None, pc' = "final_synthesizer",
               UNCHANGED <<messages, counters, raw_executor_output>>
        PROVE  TypeOK'
    BY <1>10, <2>1, <2>3 DEF TaskManager, TypeOK, ControlNodes, counters, history
  <2> QED BY <1>10, <2>2, <2>3 DEF TaskManager
<1>11. CASE FinalSynthesizer
  <2>1. Response(None, <<>>) \in Message
    <3>1. None \in Lanes \cup {None} /\ <<>> \in Seq(Calls)
      OBVIOUS
    <3> QED BY <3>1, ResponseType
  <2>2. messages' \in Seq(Message) /\ messages' # <<>>
    BY <1>11, <2>1, AppendType DEF FinalSynthesizer
  <2> QED BY <1>11, <2>2 DEF FinalSynthesizer, TypeOK, Ended, ledger, counters, history
<1>12. CASE Abort
  BY <1>12 DEF Abort, TypeOK, Ended, ledger, counters, history
<1>13. CASE NewRequest
  <2>1. messages' \in Seq(Message) /\ messages' # <<>>
    BY <1>13, PromptType, AppendType DEF NewRequest
  <2> QED BY <1>13, <2>1, LanesAssumption, LimitsAssumption
       DEF NewRequest, TypeOK, ControlNodes
<1>14. CASE UNCHANGED vars
  BY <1>14 DEF vars, TypeOK
<1> QED BY <1>1, <1>2, <1>3, <1>4, <1>5, <1>6, <1>7, <1>8, <1>9, <1>10, <1>11,
           <1>12, <1>13, <1>14 DEF Next, GraphStep

(* The state of every request on every thread is well typed.               *)
THEOREM TypeCorrect == Spec => []TypeOK
  BY InitType, NextType, PTL DEF Spec

-----------------------------------------------------------------------------
(* The inductive invariant, part by part.                                  *)

(* No executor node has the name of another node.                          *)
LEMMA LaneNames ==
  \A lane \in Lanes : lane \notin ControlNodes \cup Ended
  BY LanesAssumption

(* The last message after an append.                                       *)
LEMMA LastAppended ==
  ASSUME TypeOK, NEW m \in Message, messages' = Append(messages, m)
  PROVE  LastMessage' = m
  BY AppendType DEF LastMessage

LEMMA InitInv == Init => PlanningInv /\ LoopInv /\ HistoryInv /\ LedgerInv
  BY LimitsAssumption, LaneNames
  DEF Init, PlanningInv, LoopInv, HistoryInv, LedgerInv, ResultsOwned,
      SynthesisComplete, Planning, Working, ControlNodes

(* A plan is installed only from the planning nodes, and starts on a lane. *)
LEMMA StartPlanPc ==
  ASSUME NEW ts, StartPlan(ts)
  PROVE  pc' \in Lanes
  BY LaneOfType DEF StartPlan

LEMMA PlanningNext ==
  ASSUME TypeOK, PlanningInv, [Next]_vars
  PROVE  PlanningInv'
<1>1. CASE SupervisorRouter
  BY <1>1 DEF SupervisorRouter, PlanningInv, Planning, ledger, counters, history
<1>2. ASSUME pc' \in Lanes PROVE PlanningInv'
  BY <1>2, LaneNames DEF PlanningInv, Planning, ControlNodes
<1>3. CASE PlannerAgent
  BY <1>2, <1>3, StartPlanPc, Zenon DEF PlannerAgent
<1>4. CASE DirectExecutorInit
  BY <1>2, <1>4, StartPlanPc DEF DirectExecutorInit
<1>5. CASE NewRequest
  BY <1>5 DEF NewRequest, PlanningInv
<1>6. CASE UNCHANGED vars
  BY <1>6 DEF vars, PlanningInv
<1>7. ASSUME NEW lane \in Lanes, Executor(lane) PROVE PlanningInv'
  BY <1>7 DEF Executor, PlanningInv, Planning
<1>8. CASE Tools
  BY <1>2, <1>8, LaneOfType DEF Tools
<1>9. CASE ReflectionAgent
  BY <1>2, <1>9, LaneOfType DEF ReflectionAgent, RouteFromReflection, PlanningInv, Planning
<1>10. CASE TaskManager
  <2>1. pc' \in Lanes \cup {"final_synthesizer"}
    BY <1>10, LaneOfType DEF TaskManager, Advance, RouteFromTaskManager
  <2> QED BY <1>2, <2>1 DEF PlanningInv, Planning
<1>11. CASE ActionTracker \/ FindingExtractor \/ CriticAgent \/ FinalSynthesizer \/ Abort
  BY <1>11 DEF ActionTracker, FindingExtractor, CriticAgent, FinalSynthesizer, Abort,
               PlanningInv, Planning
<1> QED BY <1>1, <1>3, <1>4, <1>5, <1>6, <1>7, <1>8, <1>9, <1>10, <1>11
        DEF Next, GraphStep

(* The counters stay within the limits and their slack.                    *)
LEMMA StartPlanLoop ==
  ASSUME NEW ts, StartPlan(ts)
  PROVE  LoopInv'
  BY StartPlanPc, LimitsAssumption, LaneNames DEF StartPlan, LoopInv, ControlNodes

LEMMA LoopNext ==
  ASSUME TypeOK, PlanningInv, LoopInv, [Next]_vars
  PROVE  LoopInv'
<1> USE LimitsAssumption DEF Planning, Working
<1>1. CASE SupervisorRouter
  BY <1>1, LaneNames
  DEF SupervisorRouter, PlanningInv, LoopInv, ControlNodes, counters
<1>2. CASE PlannerAgent
  BY <1>2, StartPlanLoop, Zenon DEF PlannerAgent
<1>3. CASE DirectExecutorInit
  BY <1>3, StartPlanLoop DEF DirectExecutorInit
<1>4. ASSUME NEW lane \in Lanes, Executor(lane) PROVE LoopInv'
  <2>1. PICK calls \in Batches :
          /\ messages' = Append(messages, Response(lane, calls))
          /\ pc' = IF MayDispatch(calls, iteration_count + 1)
                   THEN "action_tracker" ELSE "finding_extractor"
    BY <1>4 DEF Executor
  <2>2. LastMessage' = Response(lane, calls)
    BY <2>1, BatchType, ResponseType, LastAppended
  <2>3. LastMessage'.calls = calls
    BY <2>2 DEF Response
  <2>4. /\ iteration_count < MaxIterations + rework_count
        /\ rework_count < MaxReworkCycles
        /\ pc = lane
    BY <1>4, LaneNames DEF LoopInv, Executor, ControlNodes
  <2> QED BY <1>4, <2>1, <2>3, <2>4, LaneNames
       DEF Executor, MayDispatch, LoopInv, TypeOK, ControlNodes
<1>5. CASE ActionTracker
  <2>1. Len(LastMessage.calls) \in Nat /\ Len(LastMessage.calls) <= MaxBatch
    BY <1>5, BatchType DEF ActionTracker, LoopInv
  <2>2. LastMessage' = LastMessage
    BY <1>5 DEF ActionTracker, LastMessage
  <2> QED BY <1>5, <2>1, <2>2, LaneNames DEF ActionTracker, LoopInv, TypeOK, ControlNodes
<1>6. CASE Tools
  BY <1>6, LaneOfType, LaneNames DEF Tools, LoopInv, TypeOK, ControlNodes, counters
<1>7. CASE FindingExtractor
  BY <1>7, LaneNames DEF FindingExtractor, LoopInv, TypeOK, ControlNodes, counters
<1>8. CASE CriticAgent
  BY <1>8, LaneNames DEF CriticAgent, LoopInv, TypeOK, ControlNodes, counters
<1>9. CASE ReflectionAgent
  <2>1. PICK needs_rework \in BOOLEAN :
          /\ rework_count' = IF needs_rework THEN rework_count + 1 ELSE rework_count
          /\ pc' = RouteFromReflection(needs_rework, rework_count')
    BY <1>9 DEF ReflectionAgent
  <2>2. CASE pc' = "task_manager"
    BY <1>9, <2>1, <2>2, LaneNames DEF ReflectionAgent, LoopInv, TypeOK, ControlNodes
  <2>3. CASE pc' # "task_manager"
    <3>1. /\ pc' \in Lanes
          /\ rework_count' = rework_count + 1
          /\ rework_count' < MaxReworkCycles
      BY <2>1, <2>3, LaneOfType DEF RouteFromReflection
    <3> QED BY <1>9, <3>1, LaneNames DEF ReflectionAgent, LoopInv, TypeOK, ControlNodes
  <2> QED BY <2>2, <2>3
<1>10. CASE TaskManager
  <2>1. ASSUME NEW next \in DOMAIN tasks', Advance(tasks', next)
        PROVE  LoopInv'
    <3>1. pc' \in Lanes
      BY <2>1, LaneOfType DEF Advance, RouteFromTaskManager
    <3> QED BY <2>1, <3>1, LaneNames DEF Advance, LoopInv, ControlNodes
  <2>2. ASSUME pc' = "final_synthesizer", UNCHANGED counters
        PROVE  LoopInv'
    BY <2>2, LaneNames DEF LoopInv, ControlNodes, counters
  <2> QED BY <1>10, <2>1, <2>2 DEF TaskManager
<1>11. CASE FinalSynthesizer \/ Abort
  BY <1>11, LaneNames DEF FinalSynthesizer, Abort, LoopInv, Ended, counters
<1>12. CASE NewRequest
  BY <1>12, LaneNames DEF NewRequest, LoopInv, ControlNodes
<1>13. CASE UNCHANGED vars
  BY <1>13 DEF vars, LoopInv, LastMessage
<1> QED BY <1>1, <1>2, <1>3, <1>4, <1>5, <1>6, <1>7, <1>8, <1>9, <1>10, <1>11,
           <1>12, <1>13 DEF Next, GraphStep

(* The duplicate check: what ran is remembered, what is about to run is new.*)
LEMMA StartPlanHistory ==
  ASSUME NEW ts, StartPlan(ts), executed = {}
  PROVE  HistoryInv'
  BY StartPlanPc, LaneNames DEF StartPlan, HistoryInv, ControlNodes, history

LEMMA HistoryNext ==
  ASSUME TypeOK, PlanningInv, HistoryInv, [Next]_vars
  PROVE  HistoryInv'
<1>1. CASE SupervisorRouter
  BY <1>1 DEF SupervisorRouter, HistoryInv, history
<1>2. CASE PlannerAgent
  <2>1. executed = {}
    BY <1>2 DEF PlannerAgent, PlanningInv, Planning
  <2> QED BY <1>2, <2>1, StartPlanHistory, Zenon DEF PlannerAgent
<1>3. CASE DirectExecutorInit
  BY <1>3, StartPlanHistory DEF DirectExecutorInit, PlanningInv, Planning
<1>4. ASSUME NEW lane \in Lanes, Executor(lane) PROVE HistoryInv'
  <2>1. PICK calls \in Batches :
          /\ messages' = Append(messages, Response(lane, calls))
          /\ pc' = IF MayDispatch(calls, iteration_count + 1)
                   THEN "action_tracker" ELSE "finding_extractor"
    BY <1>4 DEF Executor
  <2>2. LastMessage' = Response(lane, calls)
    BY <2>1, BatchType, ResponseType, LastAppended
  <2>3. LastMessage'.calls = calls
    BY <2>2 DEF Response
  <2>4. pc' = "action_tracker" => HashesOf(LastMessage'.calls) \cap action_history = {}
    BY <2>1, <2>3 DEF MayDispatch
  <2> QED BY <1>4, <2>1, <2>4 DEF Executor, HistoryInv, HashesOf, history
<1>5. CASE ActionTracker
  <2>1. LastMessage' = LastMessage
    BY <1>5 DEF ActionTracker, LastMessage
  <2> QED BY <1>5, <2>1 DEF ActionTracker, HistoryInv, HashesOf, history
<1>6. CASE Tools
  <2>1. pc' \in Lanes
    BY <1>6, LaneOfType DEF Tools
  <2> QED BY <1>6, <2>1, LaneNames DEF Tools, HistoryInv, ControlNodes
<1>7. CASE FindingExtractor \/ CriticAgent \/ FinalSynthesizer \/ Abort
  BY <1>7 DEF FindingExtractor, CriticAgent, FinalSynthesizer, Abort, HistoryInv, history
<1>8. CASE ReflectionAgent
  <2>1. pc' \in Lanes \cup {"task_manager"}
    BY <1>8, LaneOfType DEF ReflectionAgent, RouteFromReflection
  <2> QED BY <1>8, <2>1, LaneNames DEF ReflectionAgent, HistoryInv, ControlNodes, history
<1>9. CASE TaskManager
  <2>1. pc' \in Lanes \cup {"final_synthesizer"}
    BY <1>9, LaneOfType DEF TaskManager, Advance, RouteFromTaskManager
  <2> QED BY <1>9, <2>1, LaneNames DEF TaskManager, HistoryInv, ControlNodes, history
<1>10. CASE NewRequest
  BY <1>10 DEF NewRequest, HistoryInv
<1>11. CASE UNCHANGED vars
  BY <1>11 DEF vars, HistoryInv, LastMessage, HashesOf
<1> QED BY <1>1, <1>2, <1>3, <1>4, <1>5, <1>6, <1>7, <1>8, <1>9, <1>10, <1>11
        DEF Next, GraphStep

(* The ledger: what completing the current task does to the results.       *)
LEMMA CompleteCurrentResults ==
  ASSUME TypeOK, LedgerInv, pc = "task_manager"
  PROVE  \A i \in DOMAIN tasks :
           /\ CompleteCurrent[i].id = tasks[i].id
           /\ CompleteCurrent[i].target_agent = tasks[i].target_agent
           /\ IF tasks[i].id = current_task_id
              THEN /\ CompleteCurrent[i].status = "completed"
                   /\ CompleteCurrent[i].result = tasks[i].id
              ELSE CompleteCurrent[i] = tasks[i]
<1> SUFFICES ASSUME NEW i \in DOMAIN tasks
             PROVE  /\ CompleteCurrent[i].id = tasks[i].id
                    /\ CompleteCurrent[i].target_agent = tasks[i].target_agent
                    /\ IF tasks[i].id = current_task_id
                       THEN /\ CompleteCurrent[i].status = "completed"
                            /\ CompleteCurrent[i].result = tasks[i].id
                       ELSE CompleteCurrent[i] = tasks[i]
  OBVIOUS
<1>1. tasks[i] \in TaskRecord
  BY DEF TypeOK
<1>2. tasks[i].id = current_task_id => ActiveTask = tasks[i].id
  BY <1>1, NoneAssumption DEF ActiveTask, TaskRecord
<1>3. LastMessage.about = ActiveTask /\ raw_executor_output \in {None, ActiveTask}
  BY DEF LedgerInv
<1> QED BY <1>1, <1>2, <1>3 DEF CompleteCurrent, TaskRecord

(* A fresh plan of pending tasks is a sound ledger.                        *)
LEMMA StartPlanLedger ==
  ASSUME NEW ts \in Seq(TaskRecord), StartPlan(ts),
         \A i \in DOMAIN ts : ts[i].status = "pending" /\ ts[i].result = None
  PROVE  LedgerInv'
<1>1. pc' \in Lanes
  BY StartPlanPc
<1>2. tasks' = ts
  BY DEF StartPlan
<1>3. ResultsOwned'
  BY <1>2 DEF ResultsOwned
<1>4. IF ts = <<>> THEN current_task_id' = None
      ELSE ts[1].id = current_task_id' /\ 1 \in DOMAIN ts /\ \A j \in DOMAIN ts : 1 <= j
  BY DEF StartPlan
<1> QED BY <1>1, <1>2, <1>3, <1>4, LaneNames
        DEF LedgerInv, SynthesisComplete, ControlNodes, Ended

(* What the nodes that leave the ledger alone have to establish.           *)
LEMMA LedgerFrame ==
  ASSUME LedgerInv, UNCHANGED tasks,
         pc' \notin {"final_synthesizer", "END"} \/ pc = "final_synthesizer",
         pc' \in Working => pc \in Working /\ UNCHANGED current_task_id,
         pc' \in {"finding_extractor", "critic_agent", "reflection_agent", "task_manager"} =>
           LastMessage'.about = ActiveTask',
         pc' \in {"critic_agent", "reflection_agent", "task_manager"} =>
           raw_executor_output' \in {None, ActiveTask'}
  PROVE  LedgerInv'
  BY DEF LedgerInv, ResultsOwned, SynthesisComplete, Completed

LEMMA LedgerNext ==
  ASSUME TypeOK, LedgerInv, [Next]_vars
  PROVE  LedgerInv'
<1> USE DEF Working, ledger
<1>1. CASE SupervisorRouter
  BY <1>1, LaneNames, LedgerFrame DEF SupervisorRouter, ControlNodes
<1>2. CASE PlannerAgent
  <2>1. ASSUME NEW plan \in Plans,
               StartPlan([i \in DOMAIN plan |-> Task(plan[i].id, plan[i].target_agent)])
        PROVE  LedgerInv'
    BY <2>1, PlannedTasks, StartPlanLedger
  <2>2. ASSUME StartPlan(<<Task(1, current_domain)>>) PROVE LedgerInv'
    BY <2>2, SingleTask, StartPlanLedger
  <2> QED BY <1>2, <2>1, <2>2, Zenon DEF PlannerAgent
<1>3. CASE DirectExecutorInit
  BY <1>3, SingleTask, StartPlanLedger DEF DirectExecutorInit
<1>4. ASSUME NEW lane \in Lanes, Executor(lane) PROVE LedgerInv'
  <2>1. PICK calls \in Batches :
          /\ messages' = Append(messages, Response(lane, calls))
          /\ pc' \in {"action_tracker", "finding_extractor"}
    BY <1>4 DEF Executor
  <2>2. LastMessage' = Response(lane, calls)
    BY <2>1, BatchType, ResponseType, LastAppended
  <2>3. LastMessage'.about = ActiveTask'
    BY <1>4, <2>2 DEF Response, ActiveTask, Executor
  <2> QED BY <1>4, <2>1, <2>3, LedgerFrame DEF Executor
<1>5. CASE ActionTracker
  BY <1>5, LaneNames, LedgerFrame DEF ActionTracker, ControlNodes
<1>6. CASE Tools
  <2>1. pc' \in Lanes
    BY <1>6, LaneOfType DEF Tools
  <2> QED BY <1>6, <2>1, LaneNames, LedgerFrame DEF Tools, ControlNodes, Ended
<1>7. CASE FindingExtractor
  <2>1. LastMessage' = LastMessage /\ ActiveTask' = ActiveTask
    BY <1>7 DEF FindingExtractor, LastMessage, ActiveTask
  <2> QED BY <1>7, <2>1, LaneNames, LedgerFrame DEF FindingExtractor, LedgerInv, ControlNodes
<1>8. CASE CriticAgent
  <2>1. LastMessage' = LastMessage /\ ActiveTask' = ActiveTask
    BY <1>8 DEF CriticAgent, LastMessage, ActiveTask
  <2> QED BY <1>8, <2>1, LaneNames, LedgerFrame DEF CriticAgent, LedgerInv, ControlNodes
<1>9. CASE ReflectionAgent
  <2>1. LastMessage' = LastMessage /\ ActiveTask' = ActiveTask
    BY <1>9 DEF ReflectionAgent, LastMessage, ActiveTask
  <2>2. pc' \in Lanes \cup {"task_manager"}
    BY <1>9, LaneOfType DEF ReflectionAgent, RouteFromReflection
  <2> QED BY <1>9, <2>1, <2>2, LaneNames, LedgerFrame
       DEF ReflectionAgent, LedgerInv, ControlNodes, Ended
<1>10. CASE TaskManager
  <2>1. tasks' = CompleteCurrent /\ DOMAIN tasks' = DOMAIN tasks /\ tasks' \in Seq(TaskRecord)
    BY <1>10, CompleteCurrentType DEF TaskManager
  <2>2. \A i \in DOMAIN tasks' :
          /\ tasks'[i].id = tasks[i].id
          /\ IF tasks[i].id = current_task_id
             THEN tasks'[i].status = "completed" /\ tasks'[i].result = tasks[i].id
             ELSE tasks'[i] = tasks[i]
    BY <1>10, <2>1, CompleteCurrentResults DEF TaskManager
  <2>3. ResultsOwned'
    BY <2>1, <2>2 DEF LedgerInv, ResultsOwned
  <2>4. \A i, j \in DOMAIN tasks' :
          tasks'[i].id = tasks'[j].id => tasks'[i].status = tasks'[j].status
    BY <2>1, <2>2 DEF LedgerInv
  <2>5. ASSUME NEW next \in DOMAIN tasks', tasks'[next].status = "pending",
               \A j \in DOMAIN tasks' : tasks'[j].status = "pending" => next <= j,
               Advance(tasks', next)
        PROVE  LedgerInv'
    <3>1. pc' \in Lanes
      BY <2>5, LaneOfType DEF Advance, RouteFromTaskManager
    <3>2. tasks' # <<>>
      BY <2>1, <2>5
    <3>3. \E i \in DOMAIN tasks' :
            /\ tasks'[i].id = current_task_id' /\ tasks'[i].status = "pending"
            /\ \A j \in DOMAIN tasks' : tasks'[j].status = "pending" => i <= j
      BY <2>5 DEF Advance
    <3> QED BY <2>3, <2>4, <3>1, <3>2, <3>3, LaneNames
         DEF LedgerInv, SynthesisComplete, ControlNodes, Ended
  <2>6. ASSUME pc' = "final_synthesizer",
               \A i \in DOMAIN tasks' : tasks'[i].status # "pending"
        PROVE  LedgerInv'
    <3>1. \A i \in DOMAIN tasks' : tasks'[i].status = "completed"
      <4>1. \A i \in DOMAIN tasks' : tasks'[i] \in TaskRecord
        BY <2>1
      <4> QED BY <2>6, <4>1 DEF TaskRecord
    <3>2. SynthesisComplete'
      BY <3>1 DEF SynthesisComplete, Completed
    <3> QED BY <2>3, <2>4, <2>6, <3>2, LaneNames DEF LedgerInv, ControlNodes
  <2> QED BY <1>10, <2>5, <2>6 DEF TaskManager
<1>11. CASE FinalSynthesizer
  BY <1>11, LaneNames, LedgerFrame DEF FinalSynthesizer, Ended
<1>12. CASE Abort
  BY <1>12, LaneNames, LedgerFrame DEF Abort, Ended
<1>13. CASE NewRequest
  BY <1>13, LaneNames
  DEF NewRequest, LedgerInv, ResultsOwned, SynthesisComplete, ControlNodes
<1>14. CASE UNCHANGED vars
  BY <1>14 DEF vars, LedgerInv, ResultsOwned, SynthesisComplete, Completed,
               LastMessage, ActiveTask
<1> QED BY <1>1, <1>2, <1>3, <1>4, <1>5, <1>6, <1>7, <1>8, <1>9, <1>10, <1>11,
           <1>12, <1>13, <1>14 DEF Next, GraphStep

(* The inductive invariant holds throughout.                               *)
THEOREM InvariantCorrect == Spec => []IInv
<1>1. Init => IInv
  BY InitType, InitInv DEF IInv
<1>2. IInv /\ [Next]_vars => IInv'
  BY NextType, PlanningNext, LoopNext, HistoryNext, LedgerNext DEF IInv
<1> QED BY <1>1, <1>2, PTL DEF Spec

-----------------------------------------------------------------------------
(* The safety theorems.                                                    *)

(* The three limits bound every task's counters, with the stated slack.    *)
THEOREM LimitsHold == Spec => [](IterationBound /\ ToolBudgetBound /\ ReworkBound)
<1>1. IInv => IterationBound /\ ToolBudgetBound /\ ReworkBound
  BY DEF IInv, LoopInv, IterationBound, ToolBudgetBound, ReworkBound
<1> QED BY <1>1, InvariantCorrect, PTL

(* A batch is dispatched whole, so a task runs less than a batch too many. *)
THEOREM BudgetHolds == Spec => []ToolBudgetBound
  BY LimitsHold, PTL

(* No task is sent back more often than the cap.                           *)
THEOREM ReworksHold == Spec => []ReworkBound
  BY LimitsHold, PTL

(* No call of an earlier batch of a request is dispatched again.           *)
THEOREM CallsRunOnce == Spec => []NoCallRepeated
<1>1. IInv => NoCallRepeated
  BY DEF IInv, HistoryInv, NoCallRepeated
<1> QED BY <1>1, InvariantCorrect, PTL

(* A completed task holds a text written under it.                         *)
THEOREM ResultsCorrect == Spec => []ResultsOwned
<1>1. IInv => ResultsOwned
  BY DEF IInv, LedgerInv
<1> QED BY <1>1, InvariantCorrect, PTL

(* Synthesis and answer come after the last task of the plan.              *)
THEOREM SynthesisCorrect == Spec => []SynthesisComplete
<1>1. IInv => SynthesisComplete
  BY DEF IInv, LedgerInv
<1> QED BY <1>1, InvariantCorrect, PTL

-----------------------------------------------------------------------------
(* Action properties.                                                      *)

(* The task manager completes the current task, if there is a plan, and    *)
(* touches no completed one.                                               *)
LEMMA TaskManagerStep ==
  ASSUME IInv, TaskManager
  PROVE  /\ DOMAIN tasks' = DOMAIN tasks
         /\ \A i \in Completed : tasks'[i] = tasks[i]
         /\ tasks # <<>> => \E i \in DOMAIN tasks : i \notin Completed /\ i \in Completed'
<1> USE DEF IInv
<1>1. tasks' = CompleteCurrent /\ DOMAIN tasks' = DOMAIN tasks /\ pc = "task_manager"
  BY CompleteCurrentType DEF TaskManager
<1>2. \A i \in DOMAIN tasks :
        IF tasks[i].id = current_task_id THEN tasks'[i].status = "completed"
        ELSE tasks'[i] = tasks[i]
  BY <1>1, CompleteCurrentResults
<1>3. tasks # <<>> => \E i \in DOMAIN tasks :
        tasks[i].id = current_task_id /\ tasks[i].status = "pending"
  BY <1>1 DEF LedgerInv, Working
<1>4. \A i \in Completed : tasks[i].id # current_task_id
  <2> SUFFICES ASSUME NEW i \in Completed, tasks[i].id = current_task_id PROVE FALSE
    OBVIOUS
  <2>1. tasks # <<>> /\ i \in DOMAIN tasks /\ tasks[i].status = "completed"
    BY DEF Completed, TypeOK
  <2> QED BY <1>3, <2>1 DEF LedgerInv
<1>5. \A i \in Completed : tasks'[i] = tasks[i]
  BY <1>2, <1>4 DEF Completed
<1>6. tasks # <<>> => \E i \in DOMAIN tasks : i \notin Completed /\ i \in Completed'
  BY <1>1, <1>2, <1>3 DEF Completed
<1> QED BY <1>1, <1>5, <1>6

(* Every other node leaves the plan as it is, or installs a fresh one where*)
(* there was none.                                                         *)
LEMMA OtherStep ==
  ASSUME IInv, Next, request' = request, ~TaskManager
  PROVE  tasks' = tasks \/ (tasks = <<>> /\ Completed' = {})
<1> USE DEF IInv
<1>1. CASE PlannerAgent
  <2>1. ASSUME NEW plan \in Plans,
               StartPlan([i \in DOMAIN plan |-> Task(plan[i].id, plan[i].target_agent)])
        PROVE  Completed' = {}
    BY <2>1 DEF StartPlan, Task, Completed
  <2>2. ASSUME StartPlan(<<Task(1, current_domain)>>) PROVE Completed' = {}
    BY <2>2 DEF StartPlan, Task, Completed
  <2>3. Completed' = {}
    BY <1>1, <2>1, <2>2, Zenon DEF PlannerAgent
  <2> QED BY <1>1, <2>3 DEF PlannerAgent, PlanningInv, Planning
<1>2. CASE DirectExecutorInit
  BY <1>2 DEF DirectExecutorInit, StartPlan, Task, Completed, PlanningInv, Planning
<1>3. CASE NewRequest
  BY <1>3 DEF NewRequest, TypeOK
<1>4. ASSUME NEW lane \in Lanes, Executor(lane)
      PROVE  tasks' = tasks
  BY <1>4 DEF Executor, ledger
<1>5. CASE SupervisorRouter \/ ActionTracker \/ Tools \/ FindingExtractor
        \/ CriticAgent \/ ReflectionAgent \/ FinalSynthesizer \/ Abort
  BY <1>5 DEF SupervisorRouter, ActionTracker, Tools, FindingExtractor,
              CriticAgent, ReflectionAgent, FinalSynthesizer, Abort, ledger
<1> QED BY <1>1, <1>2, <1>3, <1>4, <1>5 DEF Next, GraphStep

(* A completed task is final until the next request.                       *)
THEOREM ResultsStay == Spec => ResultsFinal
<1>1. IInv /\ [Next]_vars =>
        [request' = request =>
           \A i \in Completed : i \in DOMAIN tasks' /\ tasks'[i] = tasks[i]]_vars
  <2> SUFFICES ASSUME IInv, Next, request' = request, NEW i \in Completed
               PROVE  i \in DOMAIN tasks' /\ tasks'[i] = tasks[i]
    OBVIOUS
  <2>1. i \in DOMAIN tasks
    BY DEF Completed
  <2>2. CASE TaskManager
    BY <2>1, <2>2, TaskManagerStep
  <2>3. CASE ~TaskManager
    BY <2>1, <2>3, OtherStep DEF Completed
  <2> QED BY <2>2, <2>3
<1> QED BY <1>1, InvariantCorrect, PTL DEF Spec, ResultsFinal

-----------------------------------------------------------------------------
(* The safety half of the refinement: the graph implements the contract's  *)
(* initial state and steps.                                                *)

(* The stage the contract sees while a task is being worked on.            *)
LEMMA StageOfNodes ==
  /\ pc \in Working \cup {"final_synthesizer"} => Stage = "working"
  /\ pc \in Planning => Stage = "planning"
  BY LaneNames DEF Stage, Working, Planning, ControlNodes, Ended

LEMMA StageOfNodesNext ==
  /\ pc' \in Working \cup {"final_synthesizer"} => Stage' = "working"
  /\ pc' \in Planning => Stage' = "planning"
  BY LaneNames DEF Stage, Working, Planning, ControlNodes, Ended

PlanIds == [i \in DOMAIN tasks |-> tasks[i].id]

(* Installing a plan decides it.                                           *)
LEMMA StartPlanDecides ==
  ASSUME pc \in Planning, NEW ts \in Seq(TaskRecord), StartPlan(ts),
         \A i \in DOMAIN ts : ts[i].status = "pending"
  PROVE  Contract!Decide
<1>1. pc' \in Lanes /\ tasks' = ts
  BY StartPlanPc DEF StartPlan
<1>2. Stage = "planning" /\ Stage' = "working"
  BY <1>1, StageOfNodes, StageOfNodesNext DEF Working
<1>3. PlanIds' \in Seq(Nat)
  <2>1. PICK n \in Nat : ts \in [1..n -> TaskRecord]
    OBVIOUS
  <2>2. \A i \in 1..n : ts[i].id \in Nat
    BY <2>1 DEF TaskRecord
  <2>3. PlanIds' \in [1..n -> Nat]
    BY <1>1, <2>1, <2>2 DEF PlanIds
  <2> QED BY <2>3
<1>4. Completed' = {}
  BY <1>1 DEF Completed
<1> QED BY <1>2, <1>3, <1>4 DEF Contract!Decide, PlanIds

(* A node that leaves the ledger alone and stays in its stage stutters.    *)
LEMMA LedgerStutter ==
  ASSUME UNCHANGED tasks, Stage' = Stage
  PROVE  UNCHANGED Contract!vars
  BY DEF Contract!vars, Completed

(* With a plan, the task manager finishes its earliest open task.          *)
LEMMA TaskManagerFinishes ==
  ASSUME IInv, TaskManager, tasks # <<>>
  PROVE  Contract!FinishTask
<1> USE DEF IInv
<1>1. tasks' = CompleteCurrent /\ DOMAIN tasks' = DOMAIN tasks /\ pc = "task_manager"
  BY CompleteCurrentType DEF TaskManager
<1>2. \A i \in DOMAIN tasks :
        /\ tasks'[i].id = tasks[i].id
        /\ IF tasks[i].id = current_task_id THEN tasks'[i].status = "completed"
           ELSE tasks'[i] = tasks[i]
  BY <1>1, CompleteCurrentResults
<1>3. PICK i \in DOMAIN tasks :
        /\ tasks[i].id = current_task_id /\ tasks[i].status = "pending"
        /\ \A j \in DOMAIN tasks : tasks[j].status = "pending" => i <= j
  BY <1>1 DEF LedgerInv, Working
<1>4. \A j \in DOMAIN tasks : tasks[j].status \in {"pending", "completed"}
  <2>1. \A j \in DOMAIN tasks : tasks[j] \in TaskRecord
    BY DEF TypeOK
  <2> QED BY <2>1 DEF TaskRecord
<1>5. pc' \in Lanes \cup {"final_synthesizer"}
  BY LaneOfType DEF TaskManager, Advance, RouteFromTaskManager
<1>6. Stage = "working" /\ Stage' = "working"
  BY <1>1, <1>5, StageOfNodes, StageOfNodesNext DEF Working
<1>7. PlanIds' = PlanIds
  BY <1>1, <1>2 DEF PlanIds
<1>8. i \in DOMAIN PlanIds \ Completed
      /\ \A j \in DOMAIN PlanIds \ Completed : i <= j
  BY <1>3, <1>4 DEF PlanIds, Completed
<1>9. Completed' = Completed \cup {j \in DOMAIN PlanIds : PlanIds[j] = PlanIds[i]}
  BY <1>1, <1>2, <1>3, <1>4 DEF Completed, PlanIds
<1> QED BY <1>6, <1>7, <1>8, <1>9 DEF Contract!FinishTask, Contract!Open, PlanIds

LEMMA StepRefines ==
  ASSUME IInv, Next
  PROVE  Contract!Next \/ UNCHANGED Contract!vars
<1> USE DEF IInv
<1>1. CASE SupervisorRouter
  <2>1. Stage' = Stage
    BY <1>1, StageOfNodes, StageOfNodesNext DEF SupervisorRouter, Planning
  <2> QED BY <1>1, <2>1, LedgerStutter DEF SupervisorRouter, ledger
<1>2. CASE PlannerAgent
  <2>1. ASSUME NEW plan \in Plans,
               StartPlan([i \in DOMAIN plan |-> Task(plan[i].id, plan[i].target_agent)])
        PROVE  Contract!Decide
    BY <1>2, <2>1, PlannedTasks, StartPlanDecides DEF PlannerAgent, Planning
  <2>2. ASSUME StartPlan(<<Task(1, current_domain)>>) PROVE Contract!Decide
    BY <1>2, <2>2, SingleTask, StartPlanDecides DEF PlannerAgent, Planning
  <2>3. Contract!Decide
    BY <1>2, <2>1, <2>2, Zenon DEF PlannerAgent
  <2> QED BY <2>3 DEF Contract!Next
<1>3. CASE DirectExecutorInit
  BY <1>3, SingleTask, StartPlanDecides DEF DirectExecutorInit, Planning, Contract!Next
<1>4. ASSUME NEW lane \in Lanes, Executor(lane) PROVE UNCHANGED Contract!vars
  <2>1. pc \in Working /\ pc' \in Working /\ UNCHANGED tasks
    BY <1>4 DEF Executor, Working, ledger
  <2> QED BY <2>1, StageOfNodes, StageOfNodesNext, LedgerStutter
<1>5. ASSUME ActionTracker \/ Tools \/ FindingExtractor \/ CriticAgent \/ ReflectionAgent
      PROVE  UNCHANGED Contract!vars
  <2>1. pc \in Working /\ UNCHANGED tasks
    BY <1>5 DEF ActionTracker, Tools, FindingExtractor, CriticAgent, ReflectionAgent,
                Working, ledger
  <2>2. pc' \in Working
    BY <1>5, LaneOfType DEF ActionTracker, Tools, FindingExtractor, CriticAgent,
                ReflectionAgent, RouteFromReflection, Working
  <2> QED BY <2>1, <2>2, StageOfNodes, StageOfNodesNext, LedgerStutter
<1>6. CASE TaskManager
  <2>1. CASE tasks # <<>>
    BY <1>6, <2>1, TaskManagerFinishes DEF Contract!Next
  <2>2. CASE tasks = <<>>
    <3>1. tasks' = <<>>
      BY <1>6, <2>2 DEF TaskManager, CompleteCurrent
    <3>2. pc' = "final_synthesizer" /\ pc = "task_manager"
      BY <1>6, <3>1 DEF TaskManager
    <3> QED BY <2>2, <3>1, <3>2, StageOfNodes, StageOfNodesNext, LedgerStutter DEF Working
  <2> QED BY <2>1, <2>2
<1>7. CASE FinalSynthesizer
  <2>1. Stage = "working" /\ Stage' = "answered" /\ UNCHANGED tasks
    BY <1>7, StageOfNodes DEF FinalSynthesizer, Stage, ledger
  <2>2. Completed = DOMAIN tasks /\ UNCHANGED Completed
    BY <1>7, <2>1 DEF FinalSynthesizer, LedgerInv, SynthesisComplete, Completed
  <2> QED BY <2>1, <2>2 DEF Contract!Next, Contract!Answer, Contract!Open
<1>8. CASE Abort
  <2>1. Stage \in {"planning", "working"} /\ Stage' = "failed"
    BY <1>8 DEF Abort, Stage, Ended
  <2> QED BY <1>8, <2>1 DEF Abort, ledger, Completed, Contract!Next, Contract!Fail
<1>9. CASE NewRequest
  <2>1. Stage \in {"answered", "failed"}
    BY <1>9, LaneNames DEF NewRequest, Stage, Ended
  <2>2. Stage' = "planning" /\ tasks' = <<>>
    BY <1>9, StageOfNodesNext DEF NewRequest, Planning
  <2>3. PlanIds' = <<>> /\ Completed' = {}
    BY <2>2 DEF PlanIds, Completed
  <2> QED BY <2>1, <2>2, <2>3 DEF PlanIds, Contract!Next, Contract!AskAgain
<1> QED BY <1>1, <1>2, <1>3, <1>4, <1>5, <1>6, <1>7, <1>8, <1>9 DEF Next, GraphStep

(* Every behaviour of the graph, seen through its stage, its plan and its  *)
(* completed tasks, takes only the contract's steps.                       *)
THEOREM ContractSafe == Spec => Contract!Safety
<1>1. Init => Contract!Init
  BY DEF Init, Contract!Init, Stage, Completed
<1>2. IInv /\ [Next]_vars => [Contract!Next]_(Contract!vars)
  <2> SUFFICES ASSUME IInv, [Next]_vars PROVE [Contract!Next]_(Contract!vars)
    OBVIOUS
  <2>1. CASE Next
    BY <2>1, StepRefines
  <2>2. CASE UNCHANGED vars
    BY <2>2 DEF vars, Contract!vars, Stage, Completed
  <2> QED BY <2>1, <2>2
<1> QED BY <1>1, <1>2, InvariantCorrect, PTL DEF Spec, Contract!Safety
=============================================================================
