----------------------- MODULE CognitiveGraphTaskProofs -----------------------
(***************************************************************************)
(* More theorems about CognitiveGraph, on top of its inductive invariant:  *)
(* what a task's executors are shown, where a task starts, and what a whole*)
(* request may cost in tool calls and in super-steps.                      *)
(***************************************************************************)
EXTENDS CognitiveGraphProofs, FiniteSetTheorems

(* A model's message whose calls nobody has answered.                      *)
Unanswered(i) ==
  /\ messages[i].kind = "ai" /\ messages[i].calls # <<>>
  /\ ~(i < Len(messages) /\ messages[i + 1].kind = "tool")

(* On the first request of a thread the stream is the prompt and what was  *)
(* said under the current task; until a rework, only its last message may  *)
(* be unanswered, and never when an executor is next.                      *)
StreamInv ==
  /\ messages[1].kind = "human"
  /\ pc \in Working \ Lanes => LastMessage.kind # "human"
  /\ request = 1 /\ pc \in Planning => Len(messages) = 1
  /\ request = 1 /\ pc \in Working =>
       \A i \in 2..Len(messages) : messages[i].about = ActiveTask
  /\ request = 1 /\ pc \in Working /\ rework_count = 0 =>
       \A i \in DOMAIN messages : Unanswered(i) => i = Len(messages) /\ pc \notin Lanes

(* Only the plan of a single task may name a domain that is no lane.       *)
StartInv ==
  /\ Len(tasks) > 1 => \A i \in DOMAIN tasks : tasks[i].target_agent \in Lanes
  /\ TaskStartsOnItsLane

PerTask == MaxToolCalls + MaxBatch - 1

(* Calls that are counted already, and run next.                           *)
Dispatched == IF pc = "tools" THEN Len(LastMessage.calls) ELSE 0

(* The tasks before the one being worked on cost at most their budgets.    *)
BudgetInv ==
  /\ pc \in Planning => tools_invoked = 0
  /\ pc \in Working /\ tasks = <<>> => tools_invoked + Dispatched <= tool_call_count
  /\ pc \in Working =>
       \A i \in DOMAIN tasks :
         tasks[i].status = "pending" =>
           tools_invoked + Dispatched <= (i - 1) * PerTask + tool_call_count
  /\ RequestToolBound

-----------------------------------------------------------------------------
(* The message stream.                                                     *)

(* The stream grows by one message.                                        *)
LEMMA Grown ==
  ASSUME TypeOK, NEW m \in Message, messages' = Append(messages, m)
  PROVE  /\ Len(messages) \in Nat \ {0}
         /\ Len(messages') = Len(messages) + 1
         /\ DOMAIN messages = 1..Len(messages) /\ DOMAIN messages' = 1..(Len(messages) + 1)
         /\ messages'[Len(messages) + 1] = m
         /\ \A i \in 1..Len(messages) : messages'[i] = messages[i]
  BY DEF TypeOK

(* What a node that says nothing has to establish.                         *)
LEMMA StreamFrame ==
  ASSUME StreamInv, UNCHANGED <<request, messages>>,
         pc' \in Planning => pc \in Planning,
         pc' \in Working => /\ pc \in Working \ Lanes /\ UNCHANGED current_task_id
                            /\ pc' \in Lanes => rework_count' # 0
                            /\ rework_count' = 0 => rework_count = 0
  PROVE  StreamInv'
  BY DEF StreamInv, Unanswered, ActiveTask, LastMessage

(* A plan starts with the prompt alone.                                    *)
LEMMA StartPlanStream ==
  ASSUME TypeOK, StreamInv, pc \in Planning, NEW ts, StartPlan(ts)
  PROVE  StreamInv'
<1>1. pc' \in Lanes
  BY StartPlanPc
<1>2. UNCHANGED <<request, messages>>
  BY DEF StartPlan
<1>3. request = 1 => Len(messages) = 1
  BY DEF StreamInv
<1>4. messages \in Seq(Message) /\ messages[1].kind = "human"
  BY DEF TypeOK, StreamInv
<1>5. pc' \notin Planning
  BY <1>1, LaneNames DEF Planning, ControlNodes
<1>6. ASSUME request = 1
      PROVE  DOMAIN messages = {1} /\ 2..Len(messages) = {}
  <2>1. DOMAIN messages = 1..1 /\ Len(messages) = 1
    BY <1>3, <1>4, <1>6
  <2> QED BY <2>1
<1> QED BY <1>1, <1>2, <1>4, <1>5, <1>6 DEF StreamInv, Unanswered

(* An executor speaks under its task, when everything is answered.         *)
LEMMA ExecutorStream ==
  ASSUME TypeOK, StreamInv, NEW lane \in Lanes, Executor(lane)
  PROVE  StreamInv'
<1>1. PICK calls \in Batches :
        /\ messages' = Append(messages, Response(lane, calls))
        /\ pc' \in {"action_tracker", "finding_extractor"}
  BY DEF Executor
<1> DEFINE m == Response(lane, calls)
<1>2. m \in Message
  BY BatchType, ResponseType
<1>3. m.about = ActiveTask /\ ActiveTask' = ActiveTask
  BY DEF Response, ActiveTask, Executor, ledger
<1>4. pc \in Lanes /\ pc \in Working /\ UNCHANGED <<request, rework_count>>
  BY DEF Executor, Working
<1> HIDE DEF m
<1>5. /\ Len(messages) \in Nat \ {0} /\ Len(messages') = Len(messages) + 1
      /\ DOMAIN messages = 1..Len(messages) /\ DOMAIN messages' = 1..(Len(messages) + 1)
      /\ messages'[Len(messages) + 1] = m
      /\ \A i \in 1..Len(messages) : messages'[i] = messages[i]
  BY <1>1, <1>2, Grown DEF m
<1>6. messages'[1].kind = "human"
  BY <1>5 DEF StreamInv
<1>7. pc' \notin Planning /\ pc' \notin Lanes
  BY <1>1, LaneNames DEF Planning, ControlNodes
<1>8. ASSUME request' = 1, NEW i \in 2..Len(messages')
      PROVE  messages'[i].about = ActiveTask'
  BY <1>3, <1>4, <1>5, <1>8 DEF StreamInv
<1>9. LastMessage'.kind # "human"
  BY <1>5 DEF LastMessage, m, Response
<1>10. ASSUME request' = 1, rework_count' = 0, NEW i \in DOMAIN messages', i # Len(messages')
      PROVE  ~Unanswered(i)'
  <2>1. i \in 1..Len(messages) /\ ~Unanswered(i)
    BY <1>4, <1>5, <1>10 DEF StreamInv
  <2> QED BY <1>5, <2>1 DEF Unanswered
<1> QED BY <1>6, <1>7, <1>8, <1>9, <1>10 DEF StreamInv

(* ToolNode answers the last message.                                      *)
LEMMA ToolsStream ==
  ASSUME TypeOK, StreamInv, Tools
  PROVE  StreamInv'
<1> DEFINE m == Observation(LastMessage)
<1>1. m \in Message /\ m.kind = "tool" /\ m.about = LastMessage.about
  BY LastMessageType, ObservationType DEF Observation, Message
<1>2. ActiveTask' = ActiveTask /\ pc = "tools" /\ pc' \in Lanes
      /\ UNCHANGED <<request, rework_count>> /\ messages' = Append(messages, m)
  BY LaneOfType DEF ActiveTask, Tools, ledger, counters
<1> HIDE DEF m
<1>3. /\ Len(messages) \in Nat \ {0} /\ Len(messages') = Len(messages) + 1
      /\ DOMAIN messages = 1..Len(messages) /\ DOMAIN messages' = 1..(Len(messages) + 1)
      /\ messages'[Len(messages) + 1] = m
      /\ \A i \in 1..Len(messages) : messages'[i] = messages[i]
  BY <1>1, <1>2, Grown
<1>4. messages'[1].kind = "human" /\ pc' \notin Planning /\ pc \in Working
  BY <1>2, <1>3, LaneNames DEF StreamInv, Planning, Working, ControlNodes
<1>5. request = 1 => LastMessage.about = ActiveTask
  <2>1. Len(messages) # 1
    BY <1>2, <1>4, LaneNames DEF StreamInv, LastMessage, ControlNodes
  <2> QED BY <1>3, <1>4, <2>1 DEF StreamInv, LastMessage
<1> QED BY <1>1, <1>2, <1>3, <1>4, <1>5 DEF StreamInv, Unanswered

(* The next task is shown the prompt alone.                                *)
LEMMA AdvanceStream ==
  ASSUME TypeOK, StreamInv, NEW ts, NEW next, Advance(ts, next), UNCHANGED request
  PROVE  StreamInv'
<1>1. messages' = <<messages[1]>> /\ messages[1].kind = "human"
  BY DEF Advance, Sandboxed, StreamInv
<1>2. pc' \in Lanes
  BY LaneOfType DEF Advance, RouteFromTaskManager
<1>3. DOMAIN messages' = {1} /\ Len(messages') = 1 /\ 2..Len(messages') = {}
  BY <1>1
<1>4. pc' \notin Planning /\ messages'[1].kind = "human"
  BY <1>1, <1>2, LaneNames DEF Planning, ControlNodes
<1> QED BY <1>2, <1>3, <1>4 DEF StreamInv, Unanswered

(* Every step keeps the stream in order.                                   *)
LEMMA StreamNext ==
  ASSUME IInv, StreamInv, [Next]_vars
  PROVE  StreamInv'
<1> USE DEF IInv, Working, Planning
<1>1. CASE SupervisorRouter
  BY <1>1, LaneNames, StreamFrame DEF SupervisorRouter, ControlNodes
<1>2. CASE PlannerAgent
  <2>1. pc \in Planning
    BY <1>2 DEF PlannerAgent
  <2> QED BY <1>2, <2>1, StartPlanStream, Zenon DEF PlannerAgent
<1>3. CASE DirectExecutorInit
  BY <1>3, StartPlanStream DEF DirectExecutorInit
<1>4. ASSUME NEW lane \in Lanes, Executor(lane) PROVE StreamInv'
  BY <1>4, ExecutorStream
<1>5. CASE Tools
  BY <1>5, ToolsStream
<1>6. CASE ActionTracker
  BY <1>6, LaneNames, StreamFrame DEF ActionTracker, ledger, ControlNodes
<1>7. CASE FindingExtractor
  BY <1>7, LaneNames, StreamFrame DEF FindingExtractor, ledger, counters, ControlNodes
<1>8. CASE CriticAgent
  BY <1>8, LaneNames, StreamFrame DEF CriticAgent, ledger, counters, ControlNodes
<1>9. CASE ReflectionAgent
  <2>1. PICK needs_rework \in BOOLEAN :
          /\ rework_count' = IF needs_rework THEN rework_count + 1 ELSE rework_count
          /\ pc' = RouteFromReflection(needs_rework, rework_count')
    BY <1>9 DEF ReflectionAgent
  <2>2. pc' \in Lanes => rework_count' # 0
    BY <2>1, LaneNames DEF RouteFromReflection, ControlNodes, TypeOK
  <2>3. pc' \in Lanes \cup {"task_manager"}
    BY <2>1, LaneOfType DEF RouteFromReflection
  <2>4. rework_count' = 0 => rework_count = 0
    BY <2>1 DEF TypeOK
  <2> QED BY <1>9, <2>2, <2>3, <2>4, LaneNames, StreamFrame
       DEF ReflectionAgent, ledger, ControlNodes
<1>10. CASE TaskManager
  <2>1. ASSUME NEW next, Advance(tasks', next) PROVE StreamInv'
    BY <1>10, <2>1, AdvanceStream DEF TaskManager
  <2>2. ASSUME pc' = "final_synthesizer", UNCHANGED messages PROVE StreamInv'
    BY <1>10, <2>2, LaneNames, StreamFrame DEF TaskManager, ControlNodes
  <2> QED BY <1>10, <2>1, <2>2 DEF TaskManager
<1>11. CASE FinalSynthesizer
  <2>1. Response(None, <<>>) \in Message
    <3>1. None \in Lanes \cup {None} /\ <<>> \in Seq(Calls)
      OBVIOUS
    <3> QED BY <3>1, ResponseType
  <2>2. messages'[1].kind = "human"
    BY <1>11, <2>1, Grown DEF FinalSynthesizer, StreamInv
  <2> QED BY <1>11, <2>2, LaneNames DEF FinalSynthesizer, StreamInv, Ended
<1>12. CASE Abort
  BY <1>12, LaneNames, StreamFrame DEF Abort, Ended
<1>13. CASE NewRequest
  <2>1. messages'[1].kind = "human" /\ request' # 1
    BY <1>13, PromptType, Grown DEF NewRequest, StreamInv, TypeOK
  <2> QED BY <1>13, <2>1, LaneNames DEF NewRequest, StreamInv, ControlNodes
<1>14. CASE UNCHANGED vars
  BY <1>14 DEF vars, StreamInv, Unanswered, ActiveTask, LastMessage
<1> QED BY <1>1, <1>2, <1>3, <1>4, <1>5, <1>6, <1>7, <1>8, <1>9, <1>10, <1>11,
           <1>12, <1>13, <1>14 DEF Next, GraphStep

-----------------------------------------------------------------------------
(* Where a task starts.                                                    *)

(* A plan starts on the lane of its first task.                            *)
LEMMA StartPlanStart ==
  ASSUME NEW ts \in Seq(TaskRecord), StartPlan(ts),
         Len(ts) > 1 => \A i \in DOMAIN ts : ts[i].target_agent \in Lanes,
         \A i \in DOMAIN ts : ts[i].status = "pending"
  PROVE  StartInv'
<1>1. tasks' = ts
  BY DEF StartPlan
<1>2. ASSUME ts # <<>>
      PROVE  /\ 1 \in DOMAIN ts /\ ts[1].id = current_task_id' /\ ts[1].status = "pending"
             /\ pc' = LaneOf(ts[1].target_agent)
  BY <1>2 DEF StartPlan
<1> QED BY <1>1, <1>2 DEF StartInv, TaskStartsOnItsLane, LaneOf

(* So does the plan of a single task, whatever domain it names.            *)
LEMMA SingleTaskStart ==
  ASSUME TypeOK, StartPlan(<<Task(1, current_domain)>>)
  PROVE  StartInv'
<1> DEFINE ts == <<Task(1, current_domain)>>
<1>1. ts \in Seq(TaskRecord) /\ \A i \in DOMAIN ts : ts[i].status = "pending"
  BY SingleTask
<1>2. Len(ts) = 1 /\ StartPlan(ts)
  OBVIOUS
<1> HIDE DEF ts
<1>3. ~(Len(ts) > 1)
  BY <1>2
<1> QED BY <1>1, <1>2, <1>3, StartPlanStart

(* What a step that starts no task has to establish.                       *)
LEMMA StartFrame ==
  ASSUME StartInv, UNCHANGED tasks, pc' \in Lanes => LastMessage'.kind # "human"
  PROVE  StartInv'
  BY DEF StartInv, TaskStartsOnItsLane, AtExecutor

(* The task manager goes to the lane of the next task, which is no single  *)
(* one: the single one has just been completed.                            *)
LEMMA TaskManagerStart ==
  ASSUME IInv, StartInv, TaskManager
  PROVE  StartInv'
<1>1. /\ tasks' = CompleteCurrent /\ DOMAIN tasks' = DOMAIN tasks
      /\ tasks \in Seq(TaskRecord) /\ tasks' \in Seq(TaskRecord) /\ Len(tasks') = Len(tasks)
  <2>1. tasks' \in Seq(TaskRecord) /\ tasks \in Seq(TaskRecord) /\ DOMAIN tasks' = DOMAIN tasks
    BY CompleteCurrentType DEF TaskManager, IInv, TypeOK
  <2> QED BY <2>1 DEF TaskManager
<1>2. \A i \in DOMAIN tasks' :
        /\ tasks'[i].id = tasks[i].id /\ tasks'[i].target_agent = tasks[i].target_agent
        /\ IF tasks[i].id = current_task_id THEN tasks'[i].status = "completed"
           ELSE tasks'[i] = tasks[i]
  BY <1>1, CompleteCurrentResults DEF TaskManager, IInv
<1>3. Len(tasks') > 1 => \A i \in DOMAIN tasks' : tasks'[i].target_agent \in Lanes
  BY <1>1, <1>2 DEF StartInv
<1>4. CASE pc' = "final_synthesizer"
  BY <1>3, <1>4, LaneNames DEF StartInv, TaskStartsOnItsLane, AtExecutor, ControlNodes
<1>5. ASSUME NEW next \in DOMAIN tasks', tasks'[next].status = "pending",
             \A j \in DOMAIN tasks' : tasks'[j].status = "pending" => next <= j,
             Advance(tasks', next)
      PROVE  StartInv'
  <2>1. PICK k \in DOMAIN tasks : tasks[k].id = current_task_id
    BY <1>1, <1>5 DEF IInv, LedgerInv, TaskManager, Working
  <2>2. k # next
    BY <1>1, <1>2, <1>5, <2>1
  <2>3. Len(tasks') > 1
    BY <1>1, <1>5, <2>1, <2>2
  <2> DEFINE id == tasks'[next].id
             first(i) == tasks'[i].id = id /\ \A j \in DOMAIN tasks' : tasks'[j].id = id => i <= j
             i == CHOOSE i \in DOMAIN tasks' : first(i)
  <2>4. \E j \in DOMAIN tasks' : first(j)
    <3>1. \A j \in DOMAIN tasks' : tasks'[j].id = id => tasks'[j].status = "pending"
      BY <1>1, <1>2, <1>5 DEF IInv, LedgerInv
    <3> QED BY <1>5, <3>1
  <2>5. i \in DOMAIN tasks' /\ first(i)
    BY <2>4
  <2>6. current_task_id' = id /\ pc' = tasks'[i].target_agent
    <3>1. tasks'[i].target_agent \in Lanes
      BY <1>3, <2>3, <2>5
    <3> QED BY <1>5, <3>1 DEF Advance, RouteFromTaskManager
  <2>7. tasks'[i].status = "pending"
    BY <1>1, <1>2, <1>5, <2>5 DEF IInv, LedgerInv
  <2>8. TaskStartsOnItsLane'
    BY <1>3, <2>3, <2>5, <2>6, <2>7 DEF TaskStartsOnItsLane, LaneOf
  <2> QED BY <1>3, <2>8 DEF StartInv
<1> QED BY <1>4, <1>5 DEF TaskManager

(* Every step keeps to where tasks start.                                  *)
LEMMA StartNext ==
  ASSUME IInv, StreamInv, StartInv, [Next]_vars
  PROVE  StartInv'
<1> USE DEF IInv, Working
<1>1. CASE SupervisorRouter
  BY <1>1, LaneNames, StartFrame DEF SupervisorRouter, ledger, ControlNodes
<1>2. CASE PlannerAgent
  <2>1. ASSUME NEW plan \in Plans,
               StartPlan([i \in DOMAIN plan |-> Task(plan[i].id, plan[i].target_agent)])
        PROVE  StartInv'
    <3> DEFINE ts == [i \in DOMAIN plan |-> Task(plan[i].id, plan[i].target_agent)]
    <3>1. /\ ts \in Seq(TaskRecord)
          /\ \A i \in DOMAIN ts : ts[i].status = "pending"
      BY PlannedTasks
    <3>2. \A i \in DOMAIN plan : plan[i].target_agent \in Lanes
      <4>1. plan \in Seq(PlannedTask)
        BY PlansAssumption
      <4>2. PICK n \in Nat : plan \in [1..n -> PlannedTask]
        BY <4>1
      <4> QED BY <4>2 DEF PlannedTask
    <3>3. \A i \in DOMAIN ts : ts[i].target_agent \in Lanes
      BY <3>2 DEF Task
    <3> HIDE DEF ts
    <3> QED BY <2>1, <3>1, <3>3, StartPlanStart DEF ts
  <2>2. ASSUME StartPlan(<<Task(1, current_domain)>>) PROVE StartInv'
    BY <2>2, SingleTaskStart
  <2> QED BY <1>2, <2>1, <2>2, Zenon DEF PlannerAgent
<1>3. CASE DirectExecutorInit
  BY <1>3, SingleTaskStart DEF DirectExecutorInit
<1>4. ASSUME NEW lane \in Lanes, Executor(lane) PROVE StartInv'
  BY <1>4, LaneNames, StartFrame DEF Executor, ledger, ControlNodes
<1>5. CASE ActionTracker
  BY <1>5, LaneNames, StartFrame DEF ActionTracker, ledger, ControlNodes
<1>6. CASE Tools
  <2>1. Observation(LastMessage) \in Message /\ Observation(LastMessage).kind = "tool"
    BY LastMessageType, ObservationType DEF Observation, Message
  <2>2. LastMessage' = Observation(LastMessage)
    BY <1>6, <2>1, LastAppended DEF Tools
  <2> QED BY <1>6, <2>1, <2>2, StartFrame DEF Tools, ledger
<1>7. CASE FindingExtractor \/ CriticAgent
  BY <1>7, LaneNames, StartFrame DEF FindingExtractor, CriticAgent, ledger, ControlNodes
<1>8. CASE ReflectionAgent
  <2>1. LastMessage' = LastMessage /\ LastMessage.kind # "human"
    BY <1>8, LaneNames DEF ReflectionAgent, LastMessage, StreamInv, ControlNodes
  <2> QED BY <1>8, <2>1, StartFrame DEF ReflectionAgent, ledger
<1>9. CASE TaskManager
  BY <1>9, TaskManagerStart
<1>10. CASE FinalSynthesizer \/ Abort
  BY <1>10, LaneNames, StartFrame DEF FinalSynthesizer, Abort, ledger, Ended
<1>11. CASE NewRequest
  BY <1>11, LaneNames DEF NewRequest, StartInv, TaskStartsOnItsLane, AtExecutor, ControlNodes
<1>12. CASE UNCHANGED vars
  BY <1>12 DEF vars, StartInv, TaskStartsOnItsLane, AtExecutor, LastMessage
<1> QED BY <1>1, <1>2, <1>3, <1>4, <1>5, <1>6, <1>7, <1>8, <1>9, <1>10, <1>11, <1>12
        DEF Next, GraphStep

-----------------------------------------------------------------------------
(* The budget of a request.                                                *)

(* The bound on a task is a number.                                        *)
LEMMA PerTaskType == PerTask \in Nat
  BY LimitsAssumption DEF PerTask

(* Multiples grow with their factor.                                       *)
LEMMA Times ==
  ASSUME NEW p \in Nat, NEW a \in Nat, NEW b \in Nat, a <= b
  PROVE  a * p \in Nat /\ a * p <= b * p /\ (a + 1) * p = a * p + p
<1> DEFINE d == b - a
<1>1. d \in Nat /\ b = a + d
  OBVIOUS
<1> HIDE DEF d
<1>2. a * p \in Nat /\ d * p \in Nat
  BY <1>1
<1>3. (a + d) * p = a * p + d * p /\ (a + 1) * p = a * p + p
  BY <1>1
<1>4. b * p = a * p + d * p
  BY <1>1, <1>3
<1>5. a * p <= b * p
  BY <1>2, <1>4
<1> QED BY <1>2, <1>3, <1>5

(* What more tasks may cost.                                               *)
LEMMA Cost ==
  ASSUME NEW a \in Nat, NEW b \in Nat, a <= b
  PROVE  /\ a * PerTask \in Nat /\ a * PerTask <= b * PerTask
         /\ (a + 1) * PerTask = a * PerTask + PerTask
  BY PerTaskType, Times

(* What the calls of a state may cost, when the counters leave it in shape.*)
LEMMA BudgetType ==
  ASSUME TypeOK
  PROVE  Dispatched \in Nat
<1>1. LastMessage.calls \in Seq(Calls)
  BY LastMessageType DEF Message
<1> QED BY <1>1 DEF Dispatched

(* A plan starts on a budget of its own, before any call.                  *)
LEMMA StartPlanBudget ==
  ASSUME TypeOK, BudgetInv, pc \in Planning, NEW ts \in Seq(TaskRecord), StartPlan(ts)
  PROVE  BudgetInv'
<1>1. tasks' = ts /\ tools_invoked' = 0 /\ tool_call_count' = 0
  BY DEF StartPlan, BudgetInv, history
<1>2. pc' \in Lanes
  BY StartPlanPc
<1>3. pc' \notin Planning /\ Dispatched' = 0
  BY <1>2, LaneNames DEF Planning, ControlNodes, Dispatched
<1>4. RequestToolBound'
  <2>1. Len(ts) \in Nat /\ 0 <= 1 * PerTask /\ 0 <= Len(ts) * PerTask
    BY Cost, PerTaskType
  <2> QED BY <1>1, <2>1, LimitsAssumption DEF RequestToolBound, PerTask
<1>5. \A i \in DOMAIN ts : 0 <= (i - 1) * PerTask + 0
  <2> SUFFICES ASSUME NEW i \in DOMAIN ts PROVE 0 <= (i - 1) * PerTask + 0
    OBVIOUS
  <2>1. i - 1 \in Nat
    OBVIOUS
  <2>2. (i - 1) * PerTask \in Nat
    BY <2>1, Cost
  <2> QED BY <2>2
<1> QED BY <1>1, <1>2, <1>3, <1>4, <1>5 DEF BudgetInv

(* What a step has to establish that starts and finishes no task.          *)
LEMMA BudgetFrame ==
  ASSUME TypeOK, BudgetInv, UNCHANGED <<tasks, tools_invoked>>,
         pc' \in Planning => pc \in Planning,
         pc' \in Working => /\ pc \in Working
                            /\ Dispatched' + tool_call_count <= Dispatched + tool_call_count'
                            /\ Dispatched' \in Nat /\ tool_call_count' \in Nat
  PROVE  BudgetInv'
<1>1. Dispatched \in Nat /\ tool_call_count \in Nat /\ tools_invoked \in Nat
  BY BudgetType DEF TypeOK
<1>2. \A i \in DOMAIN tasks : (i - 1) * PerTask \in Nat
  <2>1. \A i \in DOMAIN tasks : i - 1 \in Nat
    BY DEF TypeOK
  <2> QED BY <2>1, Cost
<1>3. RequestToolBound'
  BY DEF BudgetInv, RequestToolBound
<1> QED BY <1>1, <1>2, <1>3 DEF BudgetInv

(* ToolNode runs what was dispatched.                                      *)
LEMMA ToolsBudget ==
  ASSUME IInv, BudgetInv, Tools
  PROVE  BudgetInv'
<1> USE DEF IInv
<1>1. /\ tools_invoked' = tools_invoked + Dispatched /\ pc \in Working
      /\ UNCHANGED <<tasks, tool_call_count>> /\ pc' \in Lanes
  BY LaneOfType DEF Tools, Dispatched, Working, ledger, counters
<1>2. Dispatched \in Nat /\ tool_call_count \in Nat /\ tools_invoked \in Nat
  BY BudgetType DEF TypeOK
<1>3. pc' \notin Planning /\ Dispatched' = 0
  BY <1>1, LaneNames DEF Planning, ControlNodes, Dispatched
<1>4. tool_call_count <= PerTask
  BY <1>2, LimitsAssumption DEF LoopInv, PerTask
<1>5. RequestToolBound'
  <2>1. CASE tasks = <<>>
    <3>1. tools_invoked' <= tool_call_count
      BY <1>1, <2>1 DEF BudgetInv
    <3>2. tools_invoked' <= 1 * PerTask
      BY <1>1, <1>2, <1>4, <3>1, PerTaskType
    <3> QED BY <1>1, <2>1, <3>2 DEF RequestToolBound, PerTask
  <2>2. CASE tasks # <<>>
    <3>1. PICK k \in DOMAIN tasks : tasks[k].status = "pending"
      BY <1>1, <2>2 DEF LedgerInv
    <3>2. /\ k \in Nat /\ k - 1 \in Nat /\ k - 1 <= k - 1
          /\ Len(tasks) \in Nat /\ k <= Len(tasks) /\ k <= k
      BY <3>1 DEF TypeOK
    <3>3. tools_invoked' <= (k - 1) * PerTask + tool_call_count
      BY <1>1, <3>1 DEF BudgetInv
    <3>4. (k - 1) * PerTask \in Nat /\ (k - 1 + 1) * PerTask = (k - 1) * PerTask + PerTask
      BY <3>2, Cost
    <3>5. k * PerTask <= Len(tasks) * PerTask /\ k * PerTask \in Nat
          /\ Len(tasks) * PerTask \in Nat
      BY <3>2, Cost
    <3>6. k - 1 + 1 = k
      BY <3>2
    <3>7. tools_invoked' <= Len(tasks) * PerTask
      BY <1>1, <1>2, <1>4, <3>3, <3>4, <3>5, <3>6, PerTaskType
    <3> QED BY <1>1, <2>2, <3>7 DEF RequestToolBound, PerTask
  <2> QED BY <2>1, <2>2
<1> QED BY <1>1, <1>2, <1>3, <1>5 DEF BudgetInv

(* A completed task's unused budget lapses, and the next starts on its own.*)
LEMMA TaskManagerBudget ==
  ASSUME IInv, BudgetInv, TaskManager
  PROVE  BudgetInv'
<1> USE DEF IInv
<1>1. /\ tasks' = CompleteCurrent /\ DOMAIN tasks' = DOMAIN tasks
      /\ tasks \in Seq(TaskRecord) /\ tasks' \in Seq(TaskRecord)
  BY CompleteCurrentType DEF TaskManager, TypeOK
<1>2. Len(tasks') = Len(tasks) /\ (tasks' = <<>> <=> tasks = <<>>)
  BY <1>1
<1>3. \A i \in DOMAIN tasks' :
        IF tasks[i].id = current_task_id THEN tasks'[i].status = "completed"
        ELSE tasks'[i] = tasks[i]
  BY <1>1, CompleteCurrentResults DEF TaskManager
<1>4. pc = "task_manager" /\ pc \in Working /\ UNCHANGED tools_invoked /\ Dispatched = 0
  BY DEF TaskManager, Working, history, Dispatched
<1>5. RequestToolBound'
  BY <1>2, <1>4 DEF BudgetInv, RequestToolBound
<1>6. CASE pc' = "final_synthesizer"
  BY <1>5, <1>6, LaneNames DEF BudgetInv, Planning, Working, ControlNodes
<1>7. ASSUME NEW next \in DOMAIN tasks', Advance(tasks', next)
      PROVE  BudgetInv'
  <2>1. pc' \in Lanes /\ tool_call_count' = 0
    BY <1>7, LaneOfType DEF Advance, RouteFromTaskManager
  <2>2. pc' \notin Planning /\ Dispatched' = 0
    BY <2>1, LaneNames DEF Planning, ControlNodes, Dispatched
  <2>3. tool_call_count \in Nat /\ tools_invoked \in Nat /\ tool_call_count <= PerTask
    BY <1>4, LimitsAssumption DEF TypeOK, LoopInv, PerTask
  <2>4. tasks' # <<>>
    BY <1>1, <1>7
  <2>5. PICK k \in DOMAIN tasks :
          /\ tasks[k].id = current_task_id /\ tasks[k].status = "pending"
          /\ \A j \in DOMAIN tasks : tasks[j].status = "pending" => k <= j
    BY <1>2, <1>4, <2>4 DEF LedgerInv
  <2>6. ASSUME NEW i \in DOMAIN tasks', tasks'[i].status = "pending"
        PROVE  tools_invoked <= (i - 1) * PerTask + 0
    <3>1. tasks[i].status = "pending" /\ i # k
      BY <1>1, <1>3, <2>5, <2>6
    <3>2. k \in Nat /\ k - 1 \in Nat /\ i - 1 \in Nat /\ k <= i - 1 /\ k - 1 + 1 = k
      BY <1>1, <2>5, <3>1
    <3>3. tools_invoked <= (k - 1) * PerTask + tool_call_count
      BY <1>4, <2>3, <2>5 DEF BudgetInv
    <3>4. (k - 1) * PerTask \in Nat /\ (k - 1 + 1) * PerTask = (k - 1) * PerTask + PerTask
      BY <3>2, Cost
    <3>5. k * PerTask <= (i - 1) * PerTask /\ k * PerTask \in Nat
          /\ (i - 1) * PerTask \in Nat
      BY <3>2, Cost
    <3> QED BY <2>3, <3>2, <3>3, <3>4, <3>5, PerTaskType
  <2>7. pc' \in Planning => FALSE
    BY <2>2
  <2>8. \A i \in DOMAIN tasks' : tasks'[i].status = "pending" =>
          tools_invoked' + Dispatched' <= (i - 1) * PerTask + tool_call_count'
    BY <1>4, <2>1, <2>2, <2>3, <2>6
  <2> QED BY <1>5, <2>4, <2>7, <2>8 DEF BudgetInv
<1> QED BY <1>6, <1>7 DEF TaskManager

(* Every step keeps the budget.                                            *)
LEMMA BudgetNext ==
  ASSUME IInv, BudgetInv, [Next]_vars
  PROVE  BudgetInv'
<1> USE DEF IInv, Working, Planning
<1>1. CASE SupervisorRouter
  BY <1>1, LaneNames, BudgetFrame DEF SupervisorRouter, ledger, history, ControlNodes
<1>2. CASE PlannerAgent
  <2>1. ASSUME NEW plan \in Plans,
               StartPlan([i \in DOMAIN plan |-> Task(plan[i].id, plan[i].target_agent)])
        PROVE  BudgetInv'
    BY <1>2, <2>1, PlannedTasks, StartPlanBudget DEF PlannerAgent
  <2>2. ASSUME StartPlan(<<Task(1, current_domain)>>) PROVE BudgetInv'
    BY <1>2, <2>2, SingleTask, StartPlanBudget DEF PlannerAgent
  <2> QED BY <1>2, <2>1, <2>2, Zenon DEF PlannerAgent
<1>3. CASE DirectExecutorInit
  BY <1>3, SingleTask, StartPlanBudget DEF DirectExecutorInit
<1>4. ASSUME NEW lane \in Lanes, Executor(lane) PROVE BudgetInv'
  <2>1. pc' \in {"action_tracker", "finding_extractor"} /\ pc = lane
    BY <1>4 DEF Executor
  <2>2. Dispatched = 0 /\ Dispatched' = 0
    BY <2>1, LaneNames DEF Dispatched, ControlNodes
  <2> QED BY <1>4, <2>1, <2>2, LaneNames, BudgetFrame
       DEF Executor, ledger, history, ControlNodes, TypeOK
<1>5. CASE ActionTracker
  <2>1. Len(LastMessage.calls) \in Nat
    BY LastMessageType DEF Message
  <2>2. LastMessage' = LastMessage
    BY <1>5 DEF ActionTracker, LastMessage
  <2>3. Dispatched = 0 /\ Dispatched' = Len(LastMessage.calls)
    BY <1>5, <2>2 DEF ActionTracker, Dispatched
  <2>4. tool_call_count \in Nat /\ tool_call_count' = tool_call_count + Len(LastMessage.calls)
    BY <1>5 DEF ActionTracker, TypeOK
  <2> HIDE DEF IInv
  <2>5. /\ Dispatched' + tool_call_count <= Dispatched + tool_call_count'
        /\ Dispatched' \in Nat /\ tool_call_count' \in Nat
    BY <2>1, <2>3, <2>4
  <2>6. pc \in Working /\ pc' \notin Planning /\ UNCHANGED <<tasks, tools_invoked>>
    BY <1>5 DEF ActionTracker, ledger, history
  <2> QED BY <2>5, <2>6, BudgetFrame DEF IInv
<1>6. CASE Tools
  BY <1>6, ToolsBudget
<1>7. CASE FindingExtractor \/ CriticAgent
  BY <1>7, LaneNames, BudgetFrame
  DEF FindingExtractor, CriticAgent, ledger, counters, history, ControlNodes, Dispatched, TypeOK
<1>8. CASE ReflectionAgent
  <2>1. pc' \in Lanes \cup {"task_manager"}
    BY <1>8, LaneOfType DEF ReflectionAgent, RouteFromReflection
  <2> QED BY <1>8, <2>1, LaneNames, BudgetFrame
       DEF ReflectionAgent, ledger, history, ControlNodes, Dispatched, TypeOK
<1>9. CASE TaskManager
  BY <1>9, TaskManagerBudget
<1>10. CASE FinalSynthesizer \/ Abort
  BY <1>10, LaneNames, BudgetFrame
  DEF FinalSynthesizer, Abort, ledger, history, Ended, ControlNodes
<1>11. CASE NewRequest
  <2>1. tasks' = <<>> /\ tools_invoked' = 0 /\ pc' = "supervisor_router"
    BY <1>11 DEF NewRequest
  <2>2. RequestToolBound'
    <3>1. 0 <= 1 * PerTask
      BY PerTaskType
    <3> QED BY <2>1, <3>1 DEF RequestToolBound, PerTask
  <2> QED BY <2>1, <2>2, LaneNames DEF BudgetInv, ControlNodes
<1>12. CASE UNCHANGED vars
  BY <1>12 DEF vars, BudgetInv, RequestToolBound, Dispatched, LastMessage
<1> QED BY <1>1, <1>2, <1>3, <1>4, <1>5, <1>6, <1>7, <1>8, <1>9, <1>10, <1>11, <1>12
        DEF Next, GraphStep

-----------------------------------------------------------------------------
(* Theorems.                                                               *)

TaskInv == StreamInv /\ StartInv /\ BudgetInv

(* The start.                                                              *)
LEMMA InitTask == Init => TaskInv
<1> SUFFICES ASSUME Init PROVE TaskInv
  OBVIOUS
<1>1. StreamInv
  BY LaneNames DEF Init, StreamInv, Working, Prompt, ControlNodes
<1>2. StartInv
  BY LaneNames DEF Init, StartInv, TaskStartsOnItsLane, AtExecutor, ControlNodes
<1>3. BudgetInv
  <2>1. 0 <= 1 * PerTask
    BY PerTaskType
  <2> QED BY <2>1, LaneNames DEF Init, BudgetInv, Working, ControlNodes, RequestToolBound, PerTask
<1> QED BY <1>1, <1>2, <1>3 DEF TaskInv

(* The message stream, the start of a task and the budget, throughout.     *)
LEMMA TaskInvariance == Spec => []TaskInv
<1>1. Init => TaskInv
  BY InitTask
<1>2. IInv /\ TaskInv /\ [Next]_vars => TaskInv'
  BY StreamNext, StartNext, BudgetNext DEF TaskInv
<1> QED BY <1>1, <1>2, InvariantCorrect, PTL DEF Spec

(* On a fresh thread an executor is shown nothing of another task.         *)
THEOREM TasksIsolated == Spec => []TaskIsolation
<1>1. StreamInv => TaskIsolation
  BY DEF StreamInv, TaskIsolation, AtExecutor, Working
<1> QED BY <1>1, TaskInvariance, PTL DEF TaskInv

(* Before a rework, no executor is shown tool calls without their results. *)
THEOREM CallsStayAnswered == Spec => []CallsAnswered
<1>1. StreamInv => CallsAnswered
  BY DEF StreamInv, CallsAnswered, Unanswered, AtExecutor, Working
<1> QED BY <1>1, TaskInvariance, PTL DEF TaskInv

(* A task is taken up by the lane its plan names, or by the default one.   *)
THEOREM TasksStartRight == Spec => []TaskStartsOnItsLane
<1>1. StartInv => TaskStartsOnItsLane
  BY DEF StartInv
<1> QED BY <1>1, TaskInvariance, PTL DEF TaskInv

(* Over a request, every task costs at most a budget and a batch less one. *)
THEOREM RequestBudgetHolds == Spec => []RequestToolBound
<1>1. BudgetInv => RequestToolBound
  BY DEF BudgetInv
<1> QED BY <1>1, TaskInvariance, PTL DEF TaskInv

-----------------------------------------------------------------------------
(* The length of a request.                                                *)

Open == DOMAIN tasks \ Completed

(* The limits make a task's steps a number.                                *)
LEMMA TaskStepsType ==
  /\ MaxIterations - 1 \in Nat /\ MaxReworkCycles \in Nat /\ MaxReworkCycles > 0
  /\ TaskSteps \in Nat /\ TaskSteps = 3 * (MaxIterations - 1) + 4 * MaxReworkCycles + 1
  BY LimitsAssumption DEF TaskSteps

(* The open tasks are finitely many.                                       *)
LEMMA OpenType ==
  ASSUME TypeOK
  PROVE  /\ IsFiniteSet(Open) /\ Cardinality(Open) \in Nat
         /\ LaterTasks \in Nat /\ LaterTasks = Positive(Cardinality(Open) - 1)
         /\ LaterTasks * TaskSteps \in Nat
<1>1. DOMAIN tasks = 1..Len(tasks) /\ Len(tasks) \in Nat
  BY DEF TypeOK
<1>2. IsFiniteSet(DOMAIN tasks)
  BY <1>1, FS_Interval
<1>3. IsFiniteSet(Open)
  BY <1>2, FS_Difference DEF Open
<1>4. Cardinality(Open) \in Nat
  BY <1>3, FS_CardinalityType
<1>5. LaterTasks \in Nat /\ LaterTasks = Positive(Cardinality(Open) - 1)
  BY <1>4 DEF LaterTasks, Open, Positive
<1> QED BY <1>3, <1>4, <1>5, TaskStepsType, Times

(* While a request is worked on, its current task has at least a step left.*)
LEMMA InTaskType ==
  ASSUME IInv, pc \in Working
  PROVE  StepsInTask \in Nat /\ StepsInTask >= 1
<1> DEFINE l == Positive(MaxIterations - 1 - iteration_count)
<1>1. l \in Nat
  BY LimitsAssumption DEF IInv, TypeOK, Positive
<1>2. CASE pc = "task_manager"
  BY <1>2 DEF StepsInTask
<1>3. CASE pc # "task_manager"
  <2>1. rework_count \in Nat /\ rework_count < MaxReworkCycles
    BY <1>3 DEF IInv, TypeOK, LoopInv
  <2>2. StepsInTask = 3 * l + 4 * (MaxReworkCycles - rework_count) + 1 + Position
    BY <1>3 DEF StepsInTask
  <2>3. Position \in {-3, -2, -1, 0, 1, 2}
    BY DEF Position
  <2> HIDE DEF l
  <2>4. MaxReworkCycles - rework_count \in Nat /\ MaxReworkCycles - rework_count >= 1
    BY <2>1, TaskStepsType
  <2> QED BY <1>1, <2>2, <2>3, <2>4
<1> QED BY <1>2, <1>3

(* Before the end there is always a step left.                             *)
LEMMA StepsLeftType ==
  ASSUME IInv, pc \notin Planning
  PROVE  StepsLeft \in Nat /\ (pc \notin Ended => StepsLeft >= 1)
<1>1. CASE pc \in Ended \/ pc = "final_synthesizer"
  BY <1>1 DEF StepsLeft, Ended
<1>2. CASE pc \notin Ended /\ pc # "final_synthesizer"
  <2>1. pc \in Working
    BY <1>2 DEF IInv, TypeOK, Working, Planning, ControlNodes
  <2>2. StepsLeft = StepsInTask + LaterTasks * TaskSteps + 1
    BY <1>2 DEF StepsLeft
  <2> QED BY <2>1, <2>2, InTaskType, OpenType DEF IInv
<1> QED BY <1>1, <1>2

(* What a step inside a task has to establish.                             *)
LEMMA InTaskStep ==
  ASSUME IInv, pc \in Working, pc' \in Working, tasks' = tasks,
         StepsInTask' < StepsInTask, StepsInTask' \in Int
  PROVE  StepsLeft' < StepsLeft
<1>1. LaterTasks' = LaterTasks /\ LaterTasks * TaskSteps \in Nat
  BY OpenType DEF IInv, LaterTasks, Completed
<1>2. /\ pc \notin Ended /\ pc # "final_synthesizer"
      /\ pc' \notin Ended /\ pc' # "final_synthesizer"
  BY LaneNames DEF Working, Ended, ControlNodes
<1>3. /\ StepsLeft = StepsInTask + LaterTasks * TaskSteps + 1
      /\ StepsLeft' = StepsInTask' + LaterTasks * TaskSteps + 1
  BY <1>1, <1>2 DEF StepsLeft, TaskSteps
<1>4. StepsInTask \in Nat
  BY InTaskType
<1> QED BY <1>1, <1>3, <1>4

(* A lane's position is neutral.                                           *)
LEMMA LanePosition ==
  /\ pc \in Lanes => Position = 0 /\ pc # "task_manager"
  /\ pc' \in Lanes => Position' = 0 /\ pc' # "task_manager"
  BY LaneNames DEF Position, ControlNodes

(* The dispatches left, and the reworks left, before and after a step.     *)
LEMMA InTaskValues ==
  ASSUME IInv
  PROVE  /\ pc # "task_manager" => StepsInTask =
              3 * Positive(MaxIterations - 1 - iteration_count)
                + 4 * (MaxReworkCycles - rework_count) + 1 + Position
         /\ pc' # "task_manager" => StepsInTask' =
              3 * Positive(MaxIterations - 1 - iteration_count')
                + 4 * (MaxReworkCycles - rework_count') + 1 + Position'
         /\ pc' = "task_manager" => StepsInTask' = 1
         /\ MaxIterations \in Nat /\ iteration_count \in Nat
         /\ MaxReworkCycles \in Nat /\ rework_count \in Nat
  BY LimitsAssumption DEF IInv, TypeOK, StepsInTask, Positive

(* An executor's answer: with a dispatch one iteration is used up.         *)
LEMMA ExecutorFalls ==
  ASSUME IInv, NEW lane \in Lanes, Executor(lane)
  PROVE  StepsLeft' < StepsLeft
<1> DEFINE c == 4 * (MaxReworkCycles - rework_count) + 1
<1>1. /\ pc \in Lanes /\ tasks' = tasks /\ rework_count' = rework_count
      /\ iteration_count' = iteration_count + 1
      /\ pc' \in {"action_tracker", "finding_extractor"}
      /\ pc' = "action_tracker" => iteration_count + 1 < MaxIterations
  BY DEF Executor, ledger, MayDispatch
<1>2. Position = 0 /\ pc # "task_manager"
  BY <1>1, LanePosition
<1>3. Position' = IF pc' = "action_tracker" THEN 2 ELSE -1
  BY <1>1 DEF Position
<1>4. /\ StepsInTask = 3 * Positive(MaxIterations - 1 - iteration_count) + c
      /\ StepsInTask' = 3 * Positive(MaxIterations - 1 - (iteration_count + 1)) + c + Position'
      /\ MaxIterations \in Nat /\ iteration_count \in Nat /\ c \in Int
  BY <1>1, <1>2, InTaskValues DEF Positive
<1> HIDE DEF c
<1>5. StepsInTask' < StepsInTask /\ StepsInTask' \in Int
  BY <1>1, <1>3, <1>4 DEF Positive
<1> QED BY <1>1, <1>5, InTaskStep DEF Working

(* The tracker and the tools: two more steps of that dispatch.             *)
LEMMA DispatchFalls ==
  ASSUME IInv, ActionTracker \/ Tools
  PROVE  StepsLeft' < StepsLeft
<1>1. /\ UNCHANGED <<tasks, iteration_count, rework_count>>
      /\ \/ pc = "action_tracker" /\ pc' = "tools"
         \/ pc = "tools" /\ pc' \in Lanes
  BY LaneOfType DEF ActionTracker, Tools, ledger, counters
<1>2. Position' < Position /\ Position \in Int /\ Position' \in Int
      /\ pc # "task_manager" /\ pc' # "task_manager"
  BY <1>1, LanePosition DEF Position
<1>3. StepsInTask' < StepsInTask /\ StepsInTask' \in Int
  <2>1. PICK c : c = 3 * Positive(MaxIterations - 1 - iteration_count)
                       + 4 * (MaxReworkCycles - rework_count) + 1
    OBVIOUS
  <2>2. c \in Int
    BY <2>1, InTaskValues DEF Positive
  <2>3. StepsInTask = c + Position /\ StepsInTask' = c + Position'
    BY <1>1, <1>2, <2>1, InTaskValues
  <2>4. \A p, q \in Int : q < p => c + q < c + p /\ c + p \in Int /\ c + q \in Int
    BY <2>2
  <2> QED BY <1>2, <2>3, <2>4
<1> QED BY <1>1, <1>3, InTaskStep DEF Working

(* The judgement of an answer, up to the verdict.                          *)
LEMMA JudgementFalls ==
  ASSUME IInv, FindingExtractor \/ CriticAgent
  PROVE  StepsLeft' < StepsLeft
<1>1. /\ UNCHANGED <<tasks, iteration_count, rework_count>>
      /\ \/ pc = "finding_extractor" /\ pc' = "critic_agent"
         \/ pc = "critic_agent" /\ pc' = "reflection_agent"
  BY DEF FindingExtractor, CriticAgent, ledger, counters
<1>2. Position' < Position /\ Position \in Int /\ Position' \in Int
      /\ pc # "task_manager" /\ pc' # "task_manager"
  BY <1>1 DEF Position
<1>3. StepsInTask' < StepsInTask /\ StepsInTask' \in Int
  <2>1. PICK c : c = 3 * Positive(MaxIterations - 1 - iteration_count)
                       + 4 * (MaxReworkCycles - rework_count) + 1
    OBVIOUS
  <2>2. c \in Int
    BY <2>1, InTaskValues DEF Positive
  <2>3. StepsInTask = c + Position /\ StepsInTask' = c + Position'
    BY <1>1, <1>2, <2>1, InTaskValues
  <2>4. \A p, q \in Int : q < p => c + q < c + p /\ c + p \in Int /\ c + q \in Int
    BY <2>2
  <2> QED BY <1>2, <2>3, <2>4
<1> QED BY <1>1, <1>3, InTaskStep DEF Working

(* The verdict: a rework that runs uses up one of those left.              *)
LEMMA ReflectionFalls ==
  ASSUME IInv, ReflectionAgent
  PROVE  StepsLeft' < StepsLeft
<1> DEFINE l == 3 * Positive(MaxIterations - 1 - iteration_count)
<1>1. /\ pc = "reflection_agent" /\ tasks' = tasks /\ iteration_count' = iteration_count
      /\ \/ pc' = "task_manager"
         \/ pc' \in Lanes /\ rework_count' = rework_count + 1
  BY LaneOfType DEF ReflectionAgent, RouteFromReflection, ledger
<1>2. Position = -3 /\ pc # "task_manager"
  BY <1>1 DEF Position
<1>3. rework_count < MaxReworkCycles /\ l \in Nat
  BY <1>1, InTaskValues DEF IInv, LoopInv, Positive, Planning, Working
<1>4. StepsInTask = l + 4 * (MaxReworkCycles - rework_count) - 2
  BY <1>2, <1>3, InTaskValues
<1>5. CASE pc' = "task_manager"
  <2>1. StepsInTask' = 1
    BY <1>5, InTaskValues
  <2>2. StepsInTask >= 2
    <3> HIDE DEF l
    <3> QED BY <1>3, <1>4, InTaskValues
  <2>3. StepsInTask' < StepsInTask /\ StepsInTask' \in Int
    <3> HIDE DEF l
    <3> QED BY <1>3, <1>4, <2>1, <2>2, InTaskValues
  <2> QED BY <1>1, <1>5, <2>3, InTaskStep DEF Working
<1>6. CASE pc' \in Lanes /\ rework_count' = rework_count + 1
  <2>1. Position' = 0 /\ pc' # "task_manager"
    BY <1>6, LanePosition
  <2>2. StepsInTask' = l + 4 * (MaxReworkCycles - (rework_count + 1)) + 1
    BY <1>1, <1>3, <1>6, <2>1, InTaskValues
  <2>3. StepsInTask' < StepsInTask /\ StepsInTask' \in Int
    <3> HIDE DEF l
    <3> QED BY <1>3, <1>4, <2>2, InTaskValues
  <2> QED BY <1>1, <1>6, <2>3, InTaskStep DEF Working
<1> QED BY <1>1, <1>5, <1>6

(* The task manager: what it takes up next is no longer than what it leaves*)
(* behind was counted for.                                                 *)
LEMMA ManagerFalls ==
  ASSUME IInv, TaskManager
  PROVE  StepsLeft' < StepsLeft
<1>1. pc = "task_manager" /\ tasks' \in Seq(TaskRecord) /\ DOMAIN tasks' = DOMAIN tasks
  BY CompleteCurrentType DEF IInv, TaskManager
<1>2. StepsLeft = LaterTasks * TaskSteps + 2 /\ LaterTasks * TaskSteps \in Nat
  <2>1. LaterTasks * TaskSteps \in Nat
    BY OpenType DEF IInv
  <2>2. StepsLeft = 1 + LaterTasks * TaskSteps + 1
    BY <1>1 DEF StepsLeft, StepsInTask, Ended
  <2> QED BY <2>1, <2>2
<1>3. CASE pc' = "final_synthesizer"
  <2>1. StepsLeft' = 1
    BY <1>3 DEF StepsLeft, Ended
  <2> QED BY <1>2, <2>1
<1>4. ASSUME NEW next \in DOMAIN tasks', tasks'[next].status = "pending", Advance(tasks', next)
      PROVE  StepsLeft' < StepsLeft
  <2>1. pc' \in Lanes /\ iteration_count' = 0 /\ rework_count' = 0
    BY <1>4, LaneOfType DEF Advance, RouteFromTaskManager
  <2>2. StepsInTask' = TaskSteps
    <3>1. Position' = 0 /\ pc' # "task_manager"
      BY <2>1, LanePosition
    <3>2. StepsInTask' = 3 * Positive(MaxIterations - 1 - 0) + 4 * (MaxReworkCycles - 0) + 1 + 0
      BY <2>1, <3>1, InTaskValues
    <3>3. Positive(MaxIterations - 1 - 0) = MaxIterations - 1
      BY TaskStepsType DEF Positive
    <3> QED BY <3>2, <3>3, TaskStepsType
  <2>3. Completed \subseteq Completed' /\ tasks # <<>>
    BY <1>1, <1>4, TaskManagerStep DEF Completed
  <2>4. PICK i \in DOMAIN tasks : i \notin Completed /\ i \in Completed'
    BY <2>3, TaskManagerStep
  <2>5. next \in Open' /\ Open' \subseteq Open \ {i} /\ i \in Open
    BY <1>1, <1>4, <2>3, <2>4 DEF Open, Completed
  <2>6. /\ IsFiniteSet(Open') /\ Cardinality(Open') \in Nat /\ Cardinality(Open') >= 1
        /\ Cardinality(Open) \in Nat /\ Cardinality(Open') <= Cardinality(Open) - 1
    <3>1. IsFiniteSet(Open) /\ Cardinality(Open) \in Nat
      BY OpenType DEF IInv
    <3>2. IsFiniteSet(Open \ {i}) /\ Cardinality(Open \ {i}) = Cardinality(Open) - 1
      BY <2>5, <3>1, FS_RemoveElement
    <3>3. IsFiniteSet(Open') /\ Cardinality(Open') <= Cardinality(Open) - 1
      BY <2>5, <3>2, FS_Subset
    <3>4. Cardinality(Open') \in Nat
      BY <3>3, FS_CardinalityType
    <3>5. Cardinality(Open') # 0
      BY <2>5, <3>3, FS_EmptySet
    <3> QED BY <3>1, <3>3, <3>4, <3>5
  <2>7. /\ LaterTasks' = Cardinality(Open') - 1 /\ LaterTasks' \in Nat /\ LaterTasks \in Nat
        /\ LaterTasks' + 1 <= LaterTasks
    <3>1. LaterTasks' = Positive(Cardinality(Open') - 1)
      BY DEF LaterTasks, Open
    <3>2. LaterTasks = Positive(Cardinality(Open) - 1)
      BY DEF LaterTasks, Open
    <3> QED BY <2>6, <3>1, <3>2 DEF Positive
  <2>8. StepsLeft' = TaskSteps + LaterTasks' * TaskSteps + 1
    <3>1. pc' \notin Ended /\ pc' # "final_synthesizer"
      BY <2>1, LaneNames DEF ControlNodes
    <3> QED BY <2>2, <3>1 DEF StepsLeft, TaskSteps
  <2>11. TaskSteps \in Nat
    BY TaskStepsType
  <2>9. PICK n : n = LaterTasks'
    OBVIOUS
  <2>10. /\ n * TaskSteps \in Nat /\ (n + 1) * TaskSteps = n * TaskSteps + TaskSteps
         /\ (n + 1) * TaskSteps <= LaterTasks * TaskSteps
    <3>1. n \in Nat /\ n + 1 \in Nat /\ LaterTasks \in Nat /\ n + 1 <= LaterTasks
      BY <2>7, <2>9
    <3> QED BY <2>11, <3>1, Times
  <2> QED BY <1>2, <2>8, <2>9, <2>10, <2>11
<1> QED BY <1>3, <1>4 DEF TaskManager

(* Once a request is planned, every step of it lowers StepsLeft.           *)
LEMMA StepsFall ==
  ASSUME IInv, Next, request' = request, pc \notin Planning
  PROVE  StepsLeft' < StepsLeft
<1>1. ~SupervisorRouter /\ ~PlannerAgent /\ ~DirectExecutorInit /\ ~NewRequest
  BY DEF SupervisorRouter, PlannerAgent, DirectExecutorInit, NewRequest, Planning, IInv, TypeOK
<1>2. CASE FinalSynthesizer \/ Abort
  <2>1. pc \notin Ended /\ StepsLeft' = 0
    BY <1>2 DEF FinalSynthesizer, Abort, Ended, StepsLeft
  <2>2. StepsLeft \in Nat /\ StepsLeft >= 1
    BY <2>1, StepsLeftType
  <2> QED BY <2>1, <2>2
<1> QED BY <1>1, <1>2, ExecutorFalls, DispatchFalls, JudgementFalls, ReflectionFalls,
           ManagerFalls DEF Next, GraphStep

(* A plan of n tasks sets StepsLeft to what n tasks and the synthesis take.*)
LEMMA PlanSteps ==
  ASSUME IInv, NEW ts \in Seq(TaskRecord), \A i \in DOMAIN ts : ts[i].status = "pending",
         StartPlan(ts)
  PROVE  StepsLeft' <= (IF tasks' = <<>> THEN 1 ELSE Len(tasks')) * TaskSteps + 1
<1>1. /\ tasks' = ts /\ pc' \in Lanes /\ iteration_count' = 0 /\ rework_count' = 0
  BY StartPlanPc DEF StartPlan
<1>2. Len(ts) \in Nat /\ DOMAIN ts = 1..Len(ts) /\ (ts = <<>> <=> Len(ts) = 0)
  OBVIOUS
<1>3. LaterTasks' = Positive(Len(ts) - 1)
  <2>1. Completed' = {}
    BY <1>1 DEF Completed
  <2>2. LaterTasks' = Positive(Cardinality(DOMAIN ts) - 1)
    <3>1. DOMAIN tasks' \ Completed' = DOMAIN ts
      BY <1>1, <2>1
    <3> QED BY <3>1 DEF LaterTasks
  <2>3. Cardinality(DOMAIN ts) = Len(ts)
    <3>1. PICK n \in Nat : n = Len(ts)
      BY <1>2
    <3>2. Cardinality(1..n) = IF 1 > n THEN 0 ELSE n - 1 + 1
      BY FS_Interval
    <3>3. Cardinality(1..n) = n
      BY <3>2
    <3> QED BY <1>2, <3>1, <3>3
  <2> QED BY <2>2, <2>3
<1>4. StepsInTask' = TaskSteps
  <2>1. Position' = 0 /\ pc' # "task_manager"
    BY <1>1, LanePosition
  <2>2. StepsInTask' = 3 * Positive(MaxIterations - 1 - 0) + 4 * (MaxReworkCycles - 0) + 1 + 0
    BY <1>1, <2>1, InTaskValues
  <2>3. Positive(MaxIterations - 1 - 0) = MaxIterations - 1
    BY TaskStepsType DEF Positive
  <2> QED BY <2>2, <2>3, TaskStepsType
<1>5. StepsLeft' = TaskSteps + LaterTasks' * TaskSteps + 1
  <2>1. pc' \notin Ended /\ pc' # "final_synthesizer"
    BY <1>1, LaneNames DEF ControlNodes
  <2> QED BY <1>4, <2>1 DEF StepsLeft, TaskSteps
<1>6. TaskSteps \in Nat /\ 0 * TaskSteps = 0 /\ 1 * TaskSteps = TaskSteps
  BY TaskStepsType
<1>7. CASE ts = <<>>
  <2>1. LaterTasks' = 0
    BY <1>2, <1>3, <1>7 DEF Positive
  <2> QED BY <1>1, <1>5, <1>6, <1>7, <2>1
<1>8. CASE ts # <<>>
  <2>1. PICK n \in Nat : Len(ts) = n + 1 /\ LaterTasks' = n
    <3>1. Len(ts) - 1 \in Nat /\ Len(ts) = Len(ts) - 1 + 1 /\ Positive(Len(ts) - 1) = Len(ts) - 1
      BY <1>2, <1>8 DEF Positive
    <3> QED BY <1>3, <3>1
  <2>2. (n + 1) * TaskSteps = n * TaskSteps + TaskSteps /\ n * TaskSteps \in Nat
    BY <1>6, Times
  <2> QED BY <1>1, <1>5, <1>6, <1>8, <2>1, <2>2
<1> QED BY <1>7, <1>8

(* The planning nodes install such plans.                                  *)
LEMMA PlanningSteps ==
  ASSUME IInv, Next, request' = request, pc \in {"planner", "direct_executor_init"}
  PROVE  StepsLeft' <= (IF tasks' = <<>> THEN 1 ELSE Len(tasks')) * TaskSteps + 1
<1>1. CASE PlannerAgent
  <2>1. ASSUME NEW plan \in Plans,
               StartPlan([i \in DOMAIN plan |-> Task(plan[i].id, plan[i].target_agent)])
        PROVE  StepsLeft' <= (IF tasks' = <<>> THEN 1 ELSE Len(tasks')) * TaskSteps + 1
    BY <2>1, PlannedTasks, PlanSteps
  <2>2. ASSUME StartPlan(<<Task(1, current_domain)>>)
        PROVE  StepsLeft' <= (IF tasks' = <<>> THEN 1 ELSE Len(tasks')) * TaskSteps + 1
    BY <2>2, SingleTask, PlanSteps DEF IInv
  <2> QED BY <1>1, <2>1, <2>2, Zenon DEF PlannerAgent
<1>2. CASE DirectExecutorInit
  BY <1>2, SingleTask, PlanSteps DEF DirectExecutorInit, IInv
<1>3. CASE Abort
  <2>1. StepsLeft' = 0 /\ tasks' = <<>>
    BY <1>3 DEF Abort, StepsLeft, Ended, IInv, PlanningInv, Planning, ledger
  <2>2. TaskSteps \in Nat /\ 1 * TaskSteps = TaskSteps
    BY TaskStepsType
  <2> QED BY <2>1, <2>2
<1>4. ASSUME NEW lane \in Lanes, Executor(lane) PROVE FALSE
  BY <1>4, LaneNames DEF Executor, ControlNodes
<1> QED BY <1>1, <1>2, <1>3, <1>4 DEF Next, GraphStep, SupervisorRouter, ActionTracker, Tools,
           FindingExtractor, CriticAgent, ReflectionAgent, TaskManager, FinalSynthesizer,
           NewRequest, Ended

(* A planned request is over after as many super-steps as its tasks and the*)
(* limits allow, so no request runs for ever, whatever the models answer.  *)
THEOREM RequestLength == Spec => StepsBounded
<1> DEFINE Body ==
      request' = request =>
       CASE pc = "supervisor_router" ->
              pc' \in {"planner", "direct_executor_init", "ABORTED"}
         [] pc \in {"planner", "direct_executor_init"} ->
              StepsLeft' <= (IF tasks' = <<>> THEN 1 ELSE Len(tasks')) * TaskSteps + 1
         [] OTHER -> 0 <= StepsLeft' /\ StepsLeft' < StepsLeft
<1>1. IInv => (pc \notin Planning => StepsLeft \in Nat)
  BY StepsLeftType
<1>2. IInv /\ (pc \notin Planning => StepsLeft \in Nat)' /\ [Next]_vars => [Body]_vars
  <2> SUFFICES ASSUME IInv, (pc \notin Planning => StepsLeft \in Nat)', Next, request' = request
               PROVE  Body
    OBVIOUS
  <2>1. CASE pc = "supervisor_router"
    <3>1. \A lane \in Lanes : ~Executor(lane)
      BY <2>1, LaneNames DEF Executor, ControlNodes
    <3>2. SupervisorRouter \/ Abort
      BY <2>1, <3>1 DEF Next, GraphStep, PlannerAgent, DirectExecutorInit, ActionTracker, Tools,
           FindingExtractor, CriticAgent, ReflectionAgent, TaskManager, FinalSynthesizer,
           NewRequest, Ended
    <3> QED BY <2>1, <3>2 DEF SupervisorRouter, Abort
  <2>2. CASE pc \in {"planner", "direct_executor_init"}
    BY <2>2, PlanningSteps
  <2>3. CASE pc \notin Planning
    <3>1. StepsLeft' < StepsLeft
      BY <2>3, StepsFall
    <3>2. pc' \notin Planning
      <4>1. pc' \in Lanes \cup {"action_tracker", "tools", "finding_extractor", "critic_agent",
                               "reflection_agent", "task_manager", "final_synthesizer", "END",
                               "ABORTED"}
        BY <2>3, LaneOfType DEF Next, GraphStep, SupervisorRouter, PlannerAgent,
           DirectExecutorInit, Executor, ActionTracker, Tools, FindingExtractor, CriticAgent,
           ReflectionAgent, RouteFromReflection, TaskManager, Advance, RouteFromTaskManager,
           FinalSynthesizer, Abort, NewRequest, Planning, IInv, TypeOK
      <4> QED BY <4>1, LaneNames DEF Planning, ControlNodes
    <3>3. 0 <= StepsLeft'
      BY <3>2
    <3> QED BY <2>3, <3>1, <3>3 DEF Planning
  <2> QED BY <2>1, <2>2, <2>3 DEF Planning
<1> QED BY <1>1, <1>2, InvariantCorrect, PTL DEF Spec, StepsBounded
=============================================================================
