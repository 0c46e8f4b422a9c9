---------------------------- MODULE CognitiveGraph ----------------------------
(***************************************************************************)
(* The LangGraph state machine of agent/app/graph: the nodes of nodes.py,  *)
(* the routers, hooks and limits of workflow.py, over the AgentState of    *)
(* state.py, for the requests of one chat thread (one checkpoint key).     *)
(*                                                                         *)
(* A step is one super-step of the graph: a node and the conditional edge  *)
(* that leaves it.  What a language model returns is chosen freely within  *)
(* the schema that parses it; texts are reduced to the task they are about.*)
(***************************************************************************)
EXTENDS Integers, Sequences, FiniteSets

CONSTANTS
  Lanes,          \* the executor nodes: general_memory, research_papers, ...
  DefaultLane,    \* "general_memory", the lane every router falls back to
  Domains,        \* what the supervisor may name: any string, so more than Lanes
  Calls,          \* the hashes generate_tool_hash gives to (tool, arguments)
  Plans,          \* the plans the planner's model may return
  None,           \* Python's None
  MaxIterations, MaxToolCalls, MaxReworkCycles,   \* workflow.py, 110-112
  MaxBatch,       \* bound: tool calls in one model response (the code has none)
  MaxRequests     \* bound: requests sent on the thread

(* The nodes of the graph that are not executors.                          *)
ControlNodes ==
  {"supervisor_router", "planner", "direct_executor_init", "action_tracker",
   "tools", "finding_extractor", "critic_agent", "reflection_agent",
   "task_manager", "final_synthesizer"}

(* A run ends at END, or it is abandoned: an exception left a node, or the *)
(* client went away.                                                       *)
Ended == {"END", "ABORTED"}

PlannedTask == [id : Nat, target_agent : Lanes]

ASSUME LanesAssumption ==
  /\ DefaultLane \in Lanes
  /\ Lanes \subseteq Domains
  /\ Lanes \cap (ControlNodes \cup Ended) = {}

ASSUME NoneAssumption == None \notin Nat \cup Domains

ASSUME PlansAssumption == Plans \subseteq Seq(PlannedTask)

ASSUME LimitsAssumption ==
  /\ MaxIterations \in Nat \ {0}
  /\ MaxToolCalls \in Nat \ {0}
  /\ MaxReworkCycles \in Nat \ {0}
  /\ MaxBatch \in Nat \ {0}
  /\ MaxRequests \in Nat \ {0}

VARIABLES
  pc,                   \* the node that runs next
  request,              \* how many requests the thread has received
  messages,             \* the message stream, reduced with add_messages
  current_domain,
  tasks,
  current_task_id,
  iteration_count,
  tool_call_count,
  action_history,       \* only ever tested for membership: a set
  rework_count,
  raw_executor_output,  \* the task the text is about; None when blank or unset
  executed,             \* history: the calls ToolNode ran in this request
  tools_invoked         \* history: how many calls it ran in this request

vars == <<pc, request, messages, current_domain, tasks, current_task_id,
          iteration_count, tool_call_count, action_history, rework_count,
          raw_executor_output, executed, tools_invoked>>

counters == <<iteration_count, tool_call_count, rework_count>>
history == <<executed, tools_invoked>>
ledger == <<tasks, current_task_id>>

-----------------------------------------------------------------------------
(* Messages.  "about" is the id of the task the prompt named, 0 for none:  *)
(* _build_task_context treats task id 0 as no task, as it does None.       *)

Batches == UNION {[1..n -> Calls] : n \in 0..MaxBatch}

Message == [kind : {"human", "ai", "tool"}, calls : Seq(Calls),
            lane : Lanes \cup {None}, about : Nat]

Prompt == [kind |-> "human", calls |-> <<>>, lane |-> None, about |-> 0]

ActiveTask == IF current_task_id = None THEN 0 ELSE current_task_id

Response(lane, calls) ==
  [kind |-> "ai", calls |-> calls, lane |-> lane, about |-> ActiveTask]

(* ToolNode answers a batch with one ToolMessage per call.                 *)
Observation(m) == [m EXCEPT !.kind = "tool"]

LastMessage == messages[Len(messages)]

-----------------------------------------------------------------------------
(* Tasks.                                                                  *)

Task(id, agent) ==
  [id |-> id, target_agent |-> agent, status |-> "pending", result |-> None]

Completed == {i \in DOMAIN tasks : tasks[i].status = "completed"}

(* Mutant: the off-lane fallback is forgotten.                             *)
LaneOf_NoFallback(domain) == domain

LaneOf(domain) == IF domain \in Lanes THEN domain ELSE DefaultLane

-----------------------------------------------------------------------------
(* A request starts from the state the chat handlers build; messages is    *)
(* the one field a checkpointed thread carries over, with the last output. *)

Init ==
  /\ pc = "supervisor_router"
  /\ request = 1
  /\ messages = <<Prompt>>
  /\ current_domain = DefaultLane
  /\ tasks = <<>>
  /\ current_task_id = None
  /\ iteration_count = 0 /\ tool_call_count = 0 /\ rework_count = 0
  /\ action_history = {}
  /\ raw_executor_output = None
  /\ executed = {} /\ tools_invoked = 0

NewRequest ==
  /\ pc \in Ended
  /\ request < MaxRequests
  /\ pc' = "supervisor_router"
  /\ request' = request + 1
  /\ messages' = Append(messages, Prompt)
  /\ current_domain' = DefaultLane
  /\ tasks' = <<>>
  /\ current_task_id' = None
  /\ iteration_count' = 0 /\ tool_call_count' = 0 /\ rework_count' = 0
  /\ action_history' = {}
  /\ executed' = {} /\ tools_invoked' = 0
  /\ UNCHANGED raw_executor_output

(* The supervisor names a domain and a complexity; when its model fails it *)
(* falls back to the default lane and low complexity.                      *)
SupervisorRouter ==
  /\ pc = "supervisor_router"
  /\ current_domain' \in Domains
  /\ pc' \in {"planner", "direct_executor_init"}
  /\ UNCHANGED <<request, messages, ledger, counters, action_history,
                 raw_executor_output, history>>

(* Both planning nodes install a plan and reset the loop state, and both   *)
(* leave through route_from_planner.                                       *)
StartPlan(ts) ==
  /\ tasks' = ts
  /\ current_task_id' = IF ts = <<>> THEN None ELSE ts[1].id
  /\ iteration_count' = 0 /\ tool_call_count' = 0 /\ rework_count' = 0
  /\ action_history' = {}
  /\ pc' = LaneOf(IF ts = <<>> THEN current_domain ELSE ts[1].target_agent)
  /\ UNCHANGED <<request, messages, current_domain, raw_executor_output, history>>

(* The planner's plan is whatever its schema admits; when its model fails, *)
(* a single task for the supervisor's domain.                              *)
PlannerAgent ==
  /\ pc = "planner"
  /\ \/ \E plan \in Plans :
          StartPlan([i \in DOMAIN plan |-> Task(plan[i].id, plan[i].target_agent)])
     \/ StartPlan(<<Task(1, current_domain)>>)

DirectExecutorInit ==
  /\ pc = "direct_executor_init"
  /\ StartPlan(<<Task(1, current_domain)>>)

-----------------------------------------------------------------------------
(* The tool loop.                                                          *)

HashesOf(calls) == {calls[i] : i \in DOMAIN calls}

(* evaluate_tool_hooks: the three safeguards, then dispatch.  A batch is   *)
(* compared with the history, never with itself.                           *)
(* Mutants: an off-by-one in the budget, the duplicate check left out.     *)
MayDispatch_OneCallMore(calls, iterations) ==
  /\ calls # <<>>
  /\ iterations < MaxIterations
  /\ tool_call_count <= MaxToolCalls
  /\ HashesOf(calls) \cap action_history = {}

MayDispatch_NoHistory(calls, iterations) ==
  calls # <<>> /\ iterations < MaxIterations /\ tool_call_count < MaxToolCalls

MayDispatch(calls, iterations) ==
  /\ calls # <<>>
  /\ iterations < MaxIterations
  /\ tool_call_count < MaxToolCalls
  /\ HashesOf(calls) \cap action_history = {}

(* An executor answers with a batch of tool calls or, when it is empty,    *)
(* with its result.                                                        *)
Executor(lane) ==
  /\ pc = lane
  /\ iteration_count' = iteration_count + 1
  /\ \E calls \in Batches :
       /\ messages' = Append(messages, Response(lane, calls))
       /\ pc' = IF MayDispatch(calls, iteration_count + 1)
                THEN "action_tracker" ELSE "finding_extractor"
  /\ UNCHANGED <<request, current_domain, ledger, tool_call_count, action_history,
                 rework_count, raw_executor_output, history>>

(* Mutant: a batch is counted as one call.                                 *)
ActionTracker_CountsBatches ==
  /\ pc = "action_tracker"
  /\ action_history' = action_history \cup HashesOf(LastMessage.calls)
  /\ tool_call_count' = tool_call_count + 1
  /\ pc' = "tools"
  /\ UNCHANGED <<request, messages, current_domain, ledger, iteration_count,
                 rework_count, raw_executor_output, history>>

ActionTracker ==
  /\ pc = "action_tracker"
  /\ action_history' = action_history \cup HashesOf(LastMessage.calls)
  /\ tool_call_count' = tool_call_count + Len(LastMessage.calls)
  /\ pc' = "tools"
  /\ UNCHANGED <<request, messages, current_domain, ledger, iteration_count,
                 rework_count, raw_executor_output, history>>

(* route_back_to_agent goes by the supervisor's domain, not by the sender. *)
Tools ==
  /\ pc = "tools"
  /\ messages' = Append(messages, Observation(LastMessage))
  /\ executed' = executed \cup HashesOf(LastMessage.calls)
  /\ tools_invoked' = tools_invoked + Len(LastMessage.calls)
  /\ pc' = LaneOf(current_domain)
  /\ UNCHANGED <<request, current_domain, ledger, counters, action_history,
                 raw_executor_output>>

-----------------------------------------------------------------------------
(* Evaluation.                                                             *)

(* The summary is about what the last message is about, or blank.          *)
FindingExtractor ==
  /\ pc = "finding_extractor"
  /\ raw_executor_output' \in {LastMessage.about, None}
  /\ pc' = "critic_agent"
  /\ UNCHANGED <<request, messages, current_domain, ledger, counters,
                 action_history, history>>

(* The critic only writes feedback that later prompts quote.               *)
CriticAgent ==
  /\ pc = "critic_agent"
  /\ pc' = "reflection_agent"
  /\ UNCHANGED <<request, messages, current_domain, ledger, counters,
                 action_history, raw_executor_output, history>>

(* Mutants: the cap is off by one; at the cap the task manager is skipped. *)
RouteFromReflection_OneMore(needs_rework, reworks) ==
  IF needs_rework /\ reworks <= MaxReworkCycles
  THEN LaneOf(current_domain) ELSE "task_manager"

RouteFromReflection_SkipsManager(needs_rework, reworks) ==
  IF ~needs_rework THEN "task_manager"
  ELSE IF reworks < MaxReworkCycles THEN LaneOf(current_domain)
       ELSE "final_synthesizer"

RouteFromReflection(needs_rework, reworks) ==
  IF needs_rework /\ reworks < MaxReworkCycles
  THEN LaneOf(current_domain) ELSE "task_manager"

(* Mutant: an approved rework is not counted.                              *)
ReflectionAgent_Uncounted ==
  /\ pc = "reflection_agent"
  /\ \E needs_rework \in BOOLEAN :
       pc' = RouteFromReflection(needs_rework, rework_count)
  /\ UNCHANGED <<request, messages, current_domain, ledger, counters,
                 action_history, raw_executor_output, history>>

ReflectionAgent ==
  /\ pc = "reflection_agent"
  /\ \E needs_rework \in BOOLEAN :
       /\ rework_count' = IF needs_rework THEN rework_count + 1 ELSE rework_count
       /\ pc' = RouteFromReflection(needs_rework, rework_count')
  /\ UNCHANGED <<request, messages, current_domain, ledger, iteration_count,
                 tool_call_count, action_history, raw_executor_output, history>>

-----------------------------------------------------------------------------
(* The task manager.                                                       *)

(* Mutants: every pending task is completed at once; earlier tasks are     *)
(* rewritten; a task whose extraction came back blank is left pending.     *)
CompleteCurrent_AllPending ==
  [i \in DOMAIN tasks |->
     IF tasks[i].status = "pending"
     THEN [tasks[i] EXCEPT !.status = "completed", !.result = LastMessage.about]
     ELSE tasks[i]]

CompleteCurrent_Rewrites ==
  [i \in DOMAIN tasks |->
     IF tasks[i].status = "completed" \/ tasks[i].id = current_task_id
     THEN [tasks[i] EXCEPT !.status = "completed", !.result = LastMessage.about]
     ELSE tasks[i]]

CompleteCurrent_SkipsBlank ==
  [i \in DOMAIN tasks |->
     IF tasks[i].id = current_task_id /\ raw_executor_output # None
     THEN [tasks[i] EXCEPT !.status = "completed", !.result = raw_executor_output]
     ELSE tasks[i]]

(* Every task with the current id is completed, with the extracted result  *)
(* or, when that is blank, the content of the last message.                *)
CompleteCurrent ==
  [i \in DOMAIN tasks |->
     IF tasks[i].id = current_task_id
     THEN [tasks[i] EXCEPT
             !.status = "completed",
             !.result = IF raw_executor_output = None THEN LastMessage.about
                        ELSE raw_executor_output]
     ELSE tasks[i]]

(* Mutant: the next task goes to the supervisor's domain.                  *)
RouteFromTaskManager_ByDomain(ts, id) == LaneOf(current_domain)

(* The lane of the first task with the id.                                 *)
RouteFromTaskManager(ts, id) ==
  LET i == CHOOSE i \in DOMAIN ts :
             ts[i].id = id /\ \A j \in DOMAIN ts : ts[j].id = id => i <= j
  IN  IF ts[i].target_agent \in Lanes THEN ts[i].target_agent
      ELSE LaneOf(current_domain)

(* Mutants: nothing is removed; only the tool results are removed.         *)
Sandboxed_Nothing == messages
Sandboxed_ToolResults == SelectSeq(messages, LAMBDA m : m.kind # "tool")

(* Context sandboxing: RemoveMessage for all messages but the first.       *)
Sandboxed == <<messages[1]>>

Advance(ts, next) ==
  /\ current_task_id' = ts[next].id
  /\ messages' = Sandboxed
  /\ iteration_count' = 0 /\ tool_call_count' = 0 /\ rework_count' = 0
  /\ raw_executor_output' = None
  /\ pc' = RouteFromTaskManager(ts, ts[next].id)

TaskManager ==
  /\ pc = "task_manager"
  /\ tasks' = CompleteCurrent
  /\ LET pending == {i \in DOMAIN tasks' : tasks'[i].status = "pending"}
     IN  \/ \E next \in pending :
              /\ \A j \in pending : next <= j
              /\ Advance(tasks', next)
         \/ /\ pending = {}
            /\ current_task_id' = None
            /\ pc' = "final_synthesizer"
            /\ UNCHANGED <<messages, counters, raw_executor_output>>
  /\ UNCHANGED <<request, current_domain, action_history, history>>

FinalSynthesizer ==
  /\ pc = "final_synthesizer"
  /\ messages' = Append(messages, Response(None, <<>>))
  /\ pc' = "END"
  /\ UNCHANGED <<request, current_domain, ledger, counters, action_history,
                 raw_executor_output, history>>

(* A node raises (a model, a tool or a retrieval fails) or the client has  *)
(* gone when the next event is read: the state is the last checkpoint's.   *)
Abort ==
  /\ pc \notin Ended
  /\ pc' = "ABORTED"
  /\ UNCHANGED <<request, messages, current_domain, ledger, counters,
                 action_history, raw_executor_output, history>>

GraphStep ==
  \/ SupervisorRouter \/ PlannerAgent \/ DirectExecutorInit
  \/ \E lane \in Lanes : Executor(lane)
  \/ ActionTracker \/ Tools \/ FindingExtractor \/ CriticAgent
  \/ ReflectionAgent \/ TaskManager \/ FinalSynthesizer

Next == GraphStep \/ Abort \/ NewRequest

(* LangGraph runs the next node as long as there is one; nobody has to ask *)
(* again, and nothing has to fail.                                         *)
Spec == Init /\ [][Next]_vars /\ WF_vars(GraphStep)

-----------------------------------------------------------------------------
(* Properties.                                                             *)

AtExecutor == pc \in Lanes

TaskRecord ==
  [id : Nat, target_agent : Domains, status : {"pending", "completed"},
   result : Nat \cup {None}]

TypeOK ==
  /\ pc \in Lanes \cup ControlNodes \cup Ended
  /\ request \in 1..MaxRequests
  /\ messages \in Seq(Message) /\ messages # <<>>
  /\ current_domain \in Domains
  /\ tasks \in Seq(TaskRecord)
  /\ current_task_id \in Nat \cup {None}
  /\ iteration_count \in Nat /\ tool_call_count \in Nat /\ rework_count \in Nat
  /\ action_history \subseteq Calls
  /\ raw_executor_output \in Nat \cup {None}
  /\ executed \subseteq Calls /\ tools_invoked \in Nat

(* The three limits of workflow.py bound the counters of one task, each    *)
(* with its own slack: a rework resumes the loop without resetting the     *)
(* iterations, so each of the MaxReworkCycles - 1 reworks that can run adds*)
(* one over the limit; a batch is dispatched whole, so the budget can be   *)
(* overrun by all but one of its calls.                                    *)
IterationBound == iteration_count < MaxIterations + MaxReworkCycles
ToolBudgetBound == tool_call_count < MaxToolCalls + MaxBatch
ReworkBound == rework_count <= MaxReworkCycles

(* Over a whole request the tool budget holds only per task: the task      *)
(* manager gives every task a fresh one.                                   *)
RequestToolBound ==
  tools_invoked <= (IF tasks = <<>> THEN 1 ELSE Len(tasks)) * (MaxToolCalls + MaxBatch - 1)

(* No call of an earlier batch of the request is ever run again, in later  *)
(* tasks and reworks included: the history the hook consults outlives both.*)
NoCallRepeated ==
  pc = "action_tracker" => HashesOf(LastMessage.calls) \cap executed = {}

(* When a task is taken up (nothing answered since the last prompt) it is  *)
(* by the lane the plan gave it, whatever route led there.                 *)
TaskStartsOnItsLane ==
  AtExecutor /\ LastMessage.kind = "human" /\ tasks # <<>> =>
    \E i \in DOMAIN tasks :
       /\ tasks[i].id = current_task_id
       /\ tasks[i].status = "pending"
       /\ pc = LaneOf(tasks[i].target_agent)

(* Context sandboxing: on the first request of a thread an executor sees,  *)
(* besides the prompt, only messages produced under the task it works on.  *)
TaskIsolation ==
  AtExecutor /\ request = 1 =>
    \A i \in 2..Len(messages) : messages[i].about = ActiveTask

(* A forced termination leaves tool calls nobody answers in the stream; a  *)
(* model is never shown them again except through a rework.                *)
CallsAnswered ==
  AtExecutor /\ request = 1 /\ rework_count = 0 =>
    \A i \in DOMAIN messages :
       messages[i].kind = "ai" /\ messages[i].calls # <<>> =>
         i < Len(messages) /\ messages[i + 1].kind = "tool"

(* A task is only ever completed with text written under that very task,   *)
(* although the text passes through a state field that outlives the task.  *)
ResultsOwned ==
  \A i \in DOMAIN tasks :
     IF tasks[i].status = "completed" THEN tasks[i].result = tasks[i].id
     ELSE tasks[i].result = None

(* The synthesizer starts, and a request is answered, only when no task of *)
(* the plan is pending.                                                    *)
SynthesisComplete ==
  pc \in {"final_synthesizer", "END"} => Completed = DOMAIN tasks

(* Once completed, a task keeps its status and its result to the end of    *)
(* the request, and the plan is not changed under it.                      *)
ResultsFinal ==
  [][request' = request =>
       \A i \in Completed : i \in DOMAIN tasks' /\ tasks'[i] = tasks[i]]_vars

(* A request of n tasks is over after at most 3 + n * TaskSteps super-steps*)
(* (two of them to plan, one to synthesize): once it is planned, every step*)
(* lowers StepsLeft, whichever of the three nested loops it belongs to.    *)
(* A dispatch takes three steps and one of the iterations; a judgement four*)
(* and one of the reworks; the task manager one.                           *)
TaskSteps == 3 * (MaxIterations - 1) + 4 * MaxReworkCycles + 1

Positive(n) == IF n > 0 THEN n ELSE 0

Position ==
  CASE pc = "action_tracker" -> 2
    [] pc = "tools" -> 1
    [] pc = "finding_extractor" -> -1
    [] pc = "critic_agent" -> -2
    [] pc = "reflection_agent" -> -3
    [] OTHER -> 0

StepsInTask ==
  IF pc = "task_manager" THEN 1
  ELSE 3 * Positive(MaxIterations - 1 - iteration_count)
         + 4 * (MaxReworkCycles - rework_count) + 1 + Position

LaterTasks == Positive(Cardinality(DOMAIN tasks \ Completed) - 1)

StepsLeft ==
  IF pc \in Ended THEN 0
  ELSE IF pc = "final_synthesizer" THEN 1
  ELSE StepsInTask + LaterTasks * TaskSteps + 1

StepsBounded ==
  [][request' = request =>
       CASE pc = "supervisor_router" ->
              pc' \in {"planner", "direct_executor_init", "ABORTED"}
         [] pc \in {"planner", "direct_executor_init"} ->
              StepsLeft' <= (IF tasks' = <<>> THEN 1 ELSE Len(tasks')) * TaskSteps + 1
         [] OTHER -> 0 <= StepsLeft' /\ StepsLeft' < StepsLeft]_vars

-----------------------------------------------------------------------------
(* The graph implements the contract.                                      *)

Stage ==
  CASE pc \in {"supervisor_router", "planner", "direct_executor_init"} -> "planning"
    [] pc = "END" -> "answered"
    [] pc = "ABORTED" -> "failed"
    [] OTHER -> "working"

Contract == INSTANCE GraphContract WITH
  stage <- Stage, plan <- [i \in DOMAIN tasks |-> tasks[i].id], done <- Completed

(* Requests on a thread follow GraphContract: planned, finished task by    *)
(* task in plan order, then answered.                                      *)
ImplementsContract == Contract!Spec

-----------------------------------------------------------------------------
(* What the code's comments say and the code does not do.                  *)

(* workflow.py, route_back_to_agent: "guide the ToolMessage payload        *)
(* cleanly back into the issuing Agent".                                   *)
ObservationReachesIssuer ==
  AtExecutor /\ LastMessage.kind = "tool" => pc = LastMessage.lane
=============================================================================
