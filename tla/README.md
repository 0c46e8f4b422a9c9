# Verification of the Agent Cognitive Engine

TLA+ models of the repository's core, TLC configurations that check them on
small instances, and TLAPS proofs for every instance. Paths are relative to
`src/`; `PROJECT.json` maps every definition to the lines it stands for.

## 1. Inventory

| Component | Where | State it keeps | Operations | Hard behaviour |
|---|---|---|---|---|
| Cognitive graph | `agent/app/graph/nodes.py`, `workflow.py`, `state.py` | `AgentState`: message stream, plan, task pointer, loop counters, call history | one node per step, and the routers between them | three nested loops that share counters; fields that outlive a task or a request; ids and domains chosen by a language model |
| Chat handlers | `agent/app/grpc_server.py`, `agent/app/api/routes/chat.py` | per call: text, receipt; shared: gauges | `StreamChat`, `chat_stream_endpoint`, `UpdateProviderConfig` | disconnection, cancellation and exceptions at any await; two different orders of the same side effects |
| Semantic cache and vector store | `agent/app/infrastructure/qdrant` | in Qdrant: the collection, its payload indexes, one point per prompt and model version; in each process: the model version | `get`, `set`, `_rerank`, `_ensure_collection` | several requests to Qdrant for one call, made by threads that outlive a cancelled caller, in two processes; processes of different versions side by side |
| Provider configuration | `agent/app/api/routes/config.py`, Redis | one entry per user, with a TTL | submit, read, expire | may be absent, may expire between two calls |
| Memory pipeline | `agent/app/services`, `agent/app/worker_main.py` | queue, dead letters, fact collections | publish, consume, extract, store, prune | crash and redelivery, swallowed failures, a checkpoint that moves on |
| Language model factory | `agent/app/graph/config.py`, `settings.py` | three caches: instances, structured models, bound models | resolve provider and key, get, bind | caches shared by all tenants, whose keys are computed apart from each other |
| Tool gateway | `agent/app/mcp` (with `tool_registry.py`), `graph/workflow.py` | sessions, the list of tools, the tool node's own list | connect each server, serve, shut down | servers that fail one by one; a list that is replaced after it was handed out |
| Start-up and container | `agent/app/main.py`, `grpc_server.py`, `bootstrap` | singletons | initialise, serve, close | order of the start |
| Web front end | `AgentApp` (.NET) | users, ASP.NET sessions, chat sessions and their messages | register, log in, log out, chat, create a session, list | check-then-act on the session cap, foreign keys, an ASP.NET session that overlapping prompts read and write, identities that change in a browser |
| Retrieval | `agent/app/retrieval` | none | search by user and collection, BM25, rank fusion | whose facts may be shown; the rest are pure algorithms |

How they interact: the web front end calls `StreamChat` over gRPC, other clients
call the SSE endpoint. A handler asks the semantic cache, reads the user's
configuration from Redis, and runs the compiled graph with a Redis checkpointer
keyed by user and session (anonymous users run without one). The graph calls
the model factory, retrieval and the MCP tools. Once a run has ended the handler
publishes a reference to it on RabbitMQ, stores the text in the semantic cache
and signs a receipt. The memory worker takes the reference, reads the thread's
checkpoint, and stores the facts it extracts in Qdrant, where retrieval finds
them.

What makes each part correct:

| Module | Properties |
|---|---|
| `CognitiveGraph` | limits hold with their exact slack (`IterationBound`, `ToolBudgetBound`, `ReworkBound`, `RequestToolBound`), no call of an earlier batch runs again (`NoCallRepeated`; a call repeated within one batch is not compared, `workflow.py:151`), tasks start on their lane, in isolation, with their calls answered (`TaskStartsOnItsLane`, `TaskIsolation`, `CallsAnswered`), each is completed once with its own result before synthesis (`ResultsOwned`, `ResultsFinal`, `SynthesisComplete`), and every step uses up one of the super-steps a request's plan allows it (`StepsBounded`) |
| `ChatStream` | gauges account for every stream but the leaks (`GaugesAccount`), cached replies are whole (SSE) and genuine (`SseCachesWhole`, `ServedGenuine`), a task is published for exactly the completed runs of known users whose handler was not left before its publishing step (`PublishedExactly`, `TaskLost`), receipts cover what was streamed (`ReceiptCoversStream`), a deployment without its collection stays without it (`ColdStart`) |
| `MemoryPipeline` | a task is in one place, and is taken, filed under and settled once and for all, as `MemoryContract` promises (`TasksConserved`, `ImplementsContract`), facts stay with their owner and collection (`FactsOwned`), an undisturbed delivery stores all it found (`FactsComplete`), a dead letter stored nothing (`DeadLetterClean`) |
| `SemanticCache` | replies keep to their version and similarity (`ServedByVersion`, `WritesStay`, `BestServed`), only the collection's birth refuses calls (`RefusedOnlyAtBirth`), cancellation loses no index (`CancelsHarmless`) |
| `ToolGateway` | a caller gets its own provider, key, tier, schema and tools (`CallerServed`, `BindingsCurrent`), a failing server costs its own tools (`FailureContained`) |
| `WebSessions` | no thread is shared between people (`ThreadsPrivate`), no loss goes untold (`NoSilentLoss`), races exceed the cap by less than their number and are repaired (`CapOverrun`, `CapRestored`), every prompt settles (`RequestSettles`) |

Everything we found hard to test is listed, at its line, under "hazards" in
`PROJECT.json`.

## 2. Modules

| Module | Models | Composes |
|---|---|---|
| `CognitiveGraph` | the LangGraph machine | implements `GraphContract` |
| `GraphContract` | what a thread may observe of it: planned, finished task by task in plan order, answered or failed | |
| `ChatStream` | both chat handlers over cache, configuration, gauges, publisher | implements `StreamContract` for every call |
| `StreamContract` | what the client of one call may observe: one cached reply, or chunks and then at most one receipt covering them all | |
| `MemoryPipeline` | publisher, queue, worker, fact store, retrieval's filter, pruning | implements `MemoryContract` |
| `MemoryContract` | what the chat side may count on when it hands a turn over: taken or lost at once; while taken, its owner's facts are filed under it; then settled for good | |
| `SemanticCache` | the cache over the vector store, request by request, in two server processes | implements `CacheContract` |
| `CacheContract` | the cache as its callers see it: one map from versions and prompts to replies, in which each call takes effect at one moment | |
| `ToolGateway` | start of a serving process, MCP servers, tool node, model factory | |
| `WebSessions` | the .NET front end: accounts, chat endpoint, ASP.NET session, session table | |
| `CognitiveGraphProofs`, `CognitiveGraphTaskProofs`, `ChatStreamProofs`, `MemoryPipelineProofs`, `SemanticCacheProofs`, `ToolGatewayProofs`, `WebSessionsProofs`, `WebSessionsCapProofs` | theorems | |
| `MCCognitiveGraph`, `MCChatStream`, `MCMemoryPipeline`, `MCSemanticCache`, `MCToolGateway`, `MCWebSessions` | values of the constants for TLC | |

The modules meet at their contracts. `ChatStream` takes the graph as
`GraphContract` describes it (a run that answers or fails) and the cache as
`CacheContract` does (an atomic map), with the one thing that map hides, a
collection that does not exist yet, as a failure of its own. `MemoryPipeline` takes from
`CognitiveGraph` what a checkpoint shows of it. `WebSessions` takes the agent as
`StreamContract` describes it: a stream that ends or breaks off. `SemanticCache`
goes below `ChatStream`'s single step for a lookup or a store, and `ToolGateway`
below the nodes' calls of `get_llm_instance`.

### CognitiveGraph

A step is one super-step: a node together with the conditional edge that leaves
it. Variables carry the names of the `AgentState` fields; `pc` is the node that
runs next (`END` and `ABORTED` when none does), `request` counts the prompts
sent on the thread, `executed` and `tools_invoked` are history.

| Action | Code |
|---|---|
| `NewRequest` | the state the handlers build for a prompt, appended to a checkpointed thread |
| `SupervisorRouter`, `PlannerAgent`, `DirectExecutorInit` | the planning nodes, with `route_from_planner` in `LaneOf` |
| `Executor(lane)` | one action for the three specialist nodes, with `evaluate_tool_hooks` in `MayDispatch` |
| `ActionTracker`, `Tools` | the tool loop; `Tools` routes as `route_back_to_agent` does |
| `FindingExtractor`, `CriticAgent`, `ReflectionAgent` | the quality loop, with `route_from_reflection` |
| `TaskManager` | completes the current task, advances, sandboxes the messages |
| `FinalSynthesizer`, `Abort` | the two ends of a request |

What a language model answers is a free choice within the schema that parses
it, so plans may repeat ids, list them in any order or name unknown domains. A
text is known by the task its prompt named, which is all that `TaskIsolation`
and `ResultsOwned` need. Token pruning, retrieval and prompt wording are left out.

### ChatStream

A step is the code between two awaits or yields of a handler; `at` says where
each request's handler is suspended, and disconnections (`ClientLeaves`),
cancellations and exceptions (`Fault`) may come at each of those points.
`Handle(r)` is everything the handler of `r` does itself. A text is its number
of chunks, and a reply in the cache remembers the request that produced it.
`Similar` says which prompts the similarity threshold identifies; when several
cached prompts qualify, any may win the reranking. A handler that is left while its
reply is being stored leaves a write behind, carried out later or never (`late`,
`StoreLate`): the thread that writes outlives its caller.

### MemoryPipeline

A turn is one request of a user's thread, and a message or a fact is known by
the turn it belongs to. `Ask`, `Work`, `Sandbox`, `Answer`, `BreakOff` are what
a thread's checkpoint shows of `CognitiveGraph`, and `Answer` starts
the publication `ChatStream` hands over. `Publish` is `publish_extraction_task`.
The worker is `Deliver`, then `ReadThread`, `ReadNothing` or `ReadFails`, then
`Extract` or `ExtractFails`, then `StoreFact` or `StoreFails` for each fact, then
`Ack`: every await of `process_message` and below separates two of them. The
extractor is shown the last `ContextSize` messages (`Tail4`). `Crash` kills the
worker at any of those points and puts its delivery back at the head of the
queue. `Prune(c)` is the sweep of a collection: which facts it finds idle for a day is a free
choice, since nothing refreshes `last_accessed`, and so is the page it is shown. `Retrieved(u, c)` is
the filter of a lookup (`hybrid_retriever.py`). `Place(t)` is what `MemoryContract` sees of a
task: handed over until the broker has it or its publication failed, then taken until it is
acknowledged or dead-lettered, redeliveries included.

### SemanticCache

A step is one request to the embedding model or to Qdrant, and `at` says where
each call is. Qdrant's state (`collection`, `indexes`, `points`) outlives every
process; `deployed` is what each of the two server processes read from `.env` when it started.

| Action | Code |
|---|---|
| `Begin`, `Embed` | `get` and `set` up to the embedding's end |
| `Search`, `SearchMissing` | the query with its version filter and threshold, `top_k`, and `_rerank`; the collection is not asked for first |
| `Exists`, `Create`, `CreateConflicts`, `Index` | `_ensure_collection`: asks, creates, and makes five payload indexes one by one |
| `Upsert`, `Return` | the point's write, at an id that hashes version and prompt, and the end of the thread |
| `Cancel` | the awaiting call is cancelled: a job its thread pool has not begun is withdrawn, one that has begun goes on |
| `Fault` | a request raises, carried out or not |
| `Upgrade`, `Restart` | `.env` names another model; a process dies and comes back with it |

`Version` is `_resolve_cache_model_version`: the tier 2 model of the
container's default provider. Scores are percentages, `_rerank`'s weighted sum is compared by
cross-multiplication (`Outranks`), and its sort is stable. The handlers call `set` only
after a `get` that did not raise; the module takes calls in any order, at the
cache's own interface, since the same vector-store code creates the fact collections as well.

### ToolGateway

One serving process. `Connect` and `ConnectFails` try one server each, `NoConfig` is a
configuration that is missing or unreadable, `Serve` replaces the manager's list and
opens the ports, `Shutdown` ends the process. The factory never awaits, so
`GetInstance`, `GetStructured` and `GetBound` are one step each: `ProviderOf` and
`KeyOf` are the resolution, `InstanceKey`, `StructuredKey` and `BoundKey` the keys
of the three caches, `Lookup` and `Caching` what a cache returns and keeps. `node` is the list
`workflow.py` hands its tool node when it is imported.

### WebSessions

A step is the code between two awaits.

| Action | Code |
|---|---|
| `Register`, `Login`, `Logout` | `AuthService`; a token that has expired is a logout |
| `Send`, `Refuse`, `Begin` | a prompt arrives with its browser's token and cookie, waits for the rate limiter, and loads its ASP.NET session when the handler first asks for it (`SessionIdFor`) |
| `Head`, `StreamEnds`, `StreamFails` | the relay of the agent's stream, and the cookie that leaves with the response's head |
| `Save` | `SaveMessagesAsync`, one transaction, refused for a session that has no row |
| `Close`, `Expire` | the session middleware commits when the response is over; the idle timeout |
| `List`, `Commit`, `Conflict` | `CreateSessionAsync`: the user's rows are read, then the oldest deleted and the new one inserted in one transaction |

A GUID is known by the call that drew it. A guest is a new user with each prompt (`UserId`).

## 3. Assumptions about code outside the repository

Agent:

- `compiled_graph.compile(...)` (`workflow.py:285`, `worker_main.py:31`) gives a
  runnable graph of the same name; `workflow.py` already compiles once, and how
  LangGraph takes a second call is not ours to say.
- `ToolNode` appends one tool message per call of a batch, errors included.
- LangGraph runs one node at a time on a thread, and its own recursion limit is
  covered by `Abort`.
- A stored configuration names a provider. Settings are constant in a process, no
  model has the same name at both providers, and a model's constructor raises without a key.
- RabbitMQ redelivers what was not acknowledged, at the head of the queue. One
  worker runs (`docker-compose.yml` names its container), and its
  `prefetch_count` of 1 gives it one task at a time.
- An event loop runs one handler at a time between awaits, and each of the two
  server processes has gauges of its own.
- A request to Qdrant is atomic; one that raises was applied before it raised or
  is never applied. Qdrant's search is exact (it is below its indexing threshold),
  and a prompt is strictly closest to itself.

Web front end:

- The database has the schema of `AppDbContext`, foreign keys included.
- An ASP.NET session is loaded when it is first used, committed when the response
  is over, and its cookie is set with the response's head. Authentication runs
  before the rate limiter's queue. A browser's tabs share token and cookie.

## 4. Runs

| Run | Question | Bounds |
|---|---|---|
| `graph_one_request` | do the limits hold with their exact slack, does every task run in isolation on its lane, once, with its own result? | 3 calls, batches of 2, limits 3/2/2, plans with no task, one (also with id 0), two on one lane or both, repeated ids, ids out of order; 2 lanes and an unknown domain |
| `graph_thread` | does every request end, each step use up one that its plan allows, and the graph follow its contract? | 2 requests, limits 2/1/2 |
| `graph_observation` | does a tool result reach the executor that asked? (no) | 1 request |
| `chat` | are gauges, cached replies and extraction tasks right under interleaving and failure? | 2 concurrent calls, 2 users (one anonymous), 3 prompts of which 2 are similar, 2 chunks |
| `chat_contract` | does each client see a legal stream, with a receipt that covers it, and does every call end? | 2 calls, 1 user, 2 similar prompts, 2 chunks; no symmetry, since it checks liveness |
| `chat_defaults` | is a user without a stored configuration served by the defaults? (no) | 2 calls, 2 users, 1 chunk |
| `memory` | are tasks conserved, facts filed correctly, complete and kept, dead letters clean, and is each task handed over settled once, with nothing filed before or after? | 2 users, 2 collections, 2 turns, threads of 3 messages, 2 facts an extraction, a window of 1, pages of 1, 1 crash; no symmetry, since it checks liveness |
| `web` | can anybody reach another's thread, and is every loss told? | 3 prompts, 2 browsers, 2 accounts, 2 names, no creation (no controller makes one) |
| `web_sessions` | does the session cap hold up to races and recover from them, and is every prompt settled? | 4 creations under a cap of 2, 1 prompt |
| `tools` | is each caller given its own model, whatever is cached and whichever server failed? | 2 servers, 3 lanes, 2 tiers, 2 schemas, 2 keys for users and deployment, an unsupported provider, 2 calls |
| `tools_runnable` | does the tool node have the tools models are bound to? (no) | 1 call |
| `cache` | is the cache an atomic map, and can only its creation refuse calls or lose indexes? | 2 calls, 2 processes, 2 similar prompts, `top_k` 1, 2 models, 2 restarts |

Why these bounds are enough to be worth something. Every limit of the graph is
reached and every counter's slack is used: a batch of two overruns a budget of
two by one, a rework adds an iteration after the limit. The second request of
`graph_thread` starts from every state the first can leave in the checkpoint.
Two calls are what the shared state of `ChatStream` needs to be interfered with,
and one of them can always be cached while the other looks up. In `memory` a thread
exceeds the extractor's window, an extraction can fail between its two facts, a sweep can come between storing
and acknowledging, and two turns let the worker read a checkpoint later than its
task. Three prompts are the fewest in which two overlap and a third finds what they left;
of four creations three can overlap, leave the user over the cap, and the fourth
repair it. Two calls of the factory are a filling and a hit, of any two tenants. In `cache`
two writers race to create the collection, and two restarts let the versions of
the two processes cross and roll back. Section 6 removes the bounds of nearly every safety property.

`BoundsAssumption`, `LimitsAssumption` and their like name every bound.
`CHECK_DEADLOCK FALSE` stands where a system may stop: the graph at the end of
its last request, the pipeline and the front end when their turns, prompts or
creations are used up, a process when it is shut down.

Every passing property also has a mutant, a plausible bug of the code written
beside the definition it changes (`Crash_AutoAck`, `MayDispatch_NoHistory`,
`BoundKey_ModelOnly`, `Upsert_PromptOnly`, ...), under which TLC finds it violated.

### Fairness

`CognitiveGraph`, `WF(GraphStep)`: LangGraph schedules the next node as long as there is one.
`ChatStream`, `WF(Handle(r))` for every call: the event loop resumes a handler whose await is
over; a stream whose run never produces another event is not modelled, because
the language model's client has timeouts of its own. `MemoryPipeline`,
`WF(WorkerStep)`: the worker's container is restarted, and goes on consuming;
`MaxCrashes` bounds the crashes, and a worker that died at every delivery would
settle nothing. `WF(Publish(t))`: the asyncio task that was created runs.
`WebSessions`, `WF(Handle(r))`: the rate limiter admits or refuses, and the
agent's stream ends or breaks off, which is what `StreamContract` promises.
`ToolGateway` and `SemanticCache` assume none and have no liveness property: nothing in the
code bounds the time an MCP server (`mcp_client.py:83`) or Qdrant takes to answer. Nothing is
assumed of users, clients, configuration changes, faults, crashes, upgrades, checkpoint
expiry or the pruning job.

## 5. What the runs showed

Statements of the repository that the code does not keep, each with its run:

- A tool result is routed by `current_domain`, which only the supervisor sets
  (`workflow.py:205`), so the result of a call made for a planned task on
  another lane goes to the wrong executor (`graph_observation`).
  `TaskStartsOnItsLane` is what remains true: each task *starts* on its lane.
- A user without a stored configuration is served by neither endpoint:
  `use_default_key` is unbound (`grpc_server.py:134`), or the provider is `None`
  (`config.py:90`) (`chat_defaults`).
- The tool node is made at import time, of a list that is empty then and is later
  replaced, so it can run none of the tools models are bound to (`tools_runnable`).

Visible in the models, and stated in no property. The agent:

- The tool budget holds per task, and a plan of n tasks may use n budgets
  (`RequestToolBound` states the product).
- Executors bind the tools of `current_domain`, not of their own lane
  (`GetBound` takes any lane).
- An unsupported provider, which `config.py:18` of the routes admits, is replaced by the
  deployment's while the user's key is kept (`ProviderOf`, `KeyOf`); the query
  transformer always uses the deployment's (`NoCaller`).
- The container's default provider is OpenAI first (`container.py`), the graph's is
  Claude first (`graph/config.py`).
- A gRPC stream that its client dropped caches its partial text for everybody,
  unlike the SSE endpoint (`SseCachesWhole`). A reply from the cache ends the
  gRPC stream without a receipt (`grpc_server.py:79`). The answers of anonymous
  users enter the shared cache.
- An SSE run that ended for a known user, with its receipt sent and its stream counted as completed,
  loses its extraction task when the cache write that comes first fails or is cancelled
  (`chat.py:173`). The gRPC handler publishes before it caches and can lose the task only
  between the end of the run and that step, when the checkpointer is closed. `PublishedExactly`
  says that nothing else loses it before it reaches the publisher.
- An exception between the increment of a gauge and its `try` leaks a stream;
  `GaugesAccount` says that nothing else does.
- On a new deployment the cache lookup raises (`qdrant_cache.py:118`) and no
  handler gets past it, so the collection is never created (`ColdStart`, a theorem).
- A writer that dies between two requests leaves the collection without some
  payload indexes for ever, since nothing makes them later
  (`qdrant_vector_store.py:42`); `CancelsHarmless` says that nothing less does.
- The cache's version is the default provider's model: when a user's own provider
  is another, upgrading its model leaves the old replies served (`container.py:116`).
- The worker acknowledges a task whose facts were lost (`memory_worker.py:51`,
  `memory_service.py:59`), and dead letters only arise from reading. It may file
  a fact about a later turn under an earlier turn's domain, and stores facts again when
  its task is redelivered.
- Nothing refreshes `last_accessed`, so a minor fact in daily use is pruned; only the
  first 10000 points of a collection are ever swept.

The web front end:

- The conversation of a logged-in user is never saved: its session id names no row,
  no controller calls `CreateSessionAsync`, and the foreign key refuses. The
  client is told (`NoSilentLoss`).
- A guest gets a new user id with every prompt, so the continuity
  `ChatController.cs:36` keeps a session id for never reaches the agent's thread
  (`ThreadsPrivate`); its prefix `guest_` is not what the agent takes for anonymous.
- Two concurrent prompts of a guest both draw a session id, and the last commit wins.
- A prompt with an expired token is served as a guest's. Two accounts registered
  under one name can never log in.

Met while reading, outside what the models keep: `prune_messages_by_token_limit`
(`nodes.py:74`) can drop the system message and leave tool messages without their
call; the search tool's compressed snippets (`web_tools.py:76`) lose their source
when a snippet is short; a fact's id is a millisecond (`memory_service.py:32`);
`worker_main.py:50` acknowledges twice, which raises harmlessly; `chat.js` keeps only lines that start
with `data: `.

## 6. Proofs

The theorems hold for every value of the constants that the named assumptions admit.
Nothing bounds the number of lanes, tasks, calls, users, requests, servers,
browsers or restarts; sets whose members are counted are finite.

Each module's invariant `IInv` is proved inductive with one lemma per action, and
the theorems follow from it.

`CognitiveGraphProofs` (`LanesAssumption`, `NoneAssumption`, `PlansAssumption`,
`LimitsAssumption`). `TypeCorrect` is inductive by itself. The others need:

- `PlanningInv`: while a request is planned, its ledger and counters are empty.
- `LoopInv`: the iterations exceed the limit by no more than the reworks counted
  and, at each node, by what that node still may add. `IterationBound` fails to
  be inductive without it, since a rework would resume from any count.
- `HistoryInv`: what was executed is in the call history, and a batch on its way
  to the tracker is not. `NoCallRepeated` follows.
- `LedgerInv`: tasks of the same id have the same status, what is in
  `raw_executor_output` at the task manager belongs to the current task, and the
  current task is pending. `ResultsOwned` and `SynthesisComplete` follow.

`ResultsStay` is an action property proved from it. `ContractSafe` is the safety half of the
refinement: `Init` maps to the contract's `Init`, and each action to a contract
action or a stutter.

`CognitiveGraphTaskProofs` adds, on top of it, `StreamInv` (which message of the
stream belongs to which task, and that only the last may be unanswered before a
rework), `StartInv` (only the plan of a single task may name a domain that is no
lane) and `BudgetInv`: the tasks before the current one cost a budget and a
batch less one each, which is what makes the product of `RequestToolBound` inductive.
`RequestLength` measures a request by `StepsLeft`: what the current task may still take, from its
node, its iterations and its reworks, and `TaskSteps` for each later task. The planner grants
`TaskSteps` for each task, and every step after it lowers the measure and never below zero
(`LoopInv` bounds the iterations it counts with), so that a plan of n tasks is over after
3 + n `TaskSteps` super-steps, with n at least 1. With the limits of `workflow.py:110`, 8 iterations
and 2 reworks, `TaskSteps` is 30. The repository sets no `recursion_limit`; what LangGraph's
own cuts off before is an `Abort`.

`ChatStreamProofs`. `LocalInv(r)` is what holds of a call whatever the others do;
`CacheInv` and `ServedInv` say that a stored reply is the text of a call to which nothing
more is streamed, so that what was served stays genuine when its author goes on. The gauges are
cardinalities: `OneCounts` and `GaugeStep` say that they move as the one call
that takes a step does. `StoringStep` is what a write to the cache needs, on time or late.
`ContractSafe` is the refinement of every call at once. `ColdStartPersists` adds `ColdInv`:
while the collection is missing no handler is past its lookup and no late write is pending,
so that nothing reachable would create it.

`MemoryPipelineProofs`. `OwnersInv` follows the owner of a turn from the thread through
the worker's window to the store; `PlacesInv` says that the places of a task are disjoint (with the queue
duplicate-free); `CleanInv` and `CompleteInv` say what was stored by which delivery, and what is kept
or still to be stored. `ContractSafe` is the safety half of the refinement of `MemoryContract`:
`PlaceOf` reads a task's place off the pipeline's variables by means of `PlacesInv`, `PlaceStays`
hides every step inside the worker, crashes and redeliveries included, and each remaining step
moves one task by one action of the contract. That a fact is filed under a task only while it is
taken, and for its owner, is `OwnersInv` at `StoreRefines`.

`SemanticCacheProofs`. `CallInv` ties a call's position to what it asked, `BirthInv` has
one creator at most and the collection there for whoever is past it, `StoreInv`
is `WritesStay` with `ServedByVersion`. `ContractImplemented` proves the whole
refinement, since `CacheContract` has no liveness. `BestIsServed` rests on the arithmetic
of `_rerank` (`BetterOutranks`): what is better by meaning and no worse by words is sorted
first, so neither `top_k` nor the sort hides an exact repetition.

`ToolGatewayProofs`. `CacheInv` says that each entry of each cache is a function of its key
(`InstanceOf`, `StructuredOf`, `BoundOf`), so that a hit returns what a miss would have made.
A bound model's key lacks the provider, and the assumption that no two
providers share a model's name (`ModelOfAssumption`) is what gives it away.

`WebSessionsProofs`. `OriginInv`: every session id, ASP.NET key and cookie leads
back to a request of the same browser, which with a new user per guest prompt
keeps threads apart.

`WebSessionsCapProofs` proves `CapOverrun` and `CapRestored` on top of it. The cap is exceeded because
two creations may read the same rows, so the bound depends on who was listing when: `FreshInv`
says that, as long as nobody else was committed since, a creation's victims are the oldest
rows of the table as it is, and `OverlapInv` that of two lists under way both are counted in
`crowded`, so that a creation that may remove nothing has been accounted for. `SizeInv` is the bound itself, and
`StampsInv` orders the rows by creation, so that the new row is the youngest. Without `FreshInv`
the commit of a creation nobody overlapped could not be shown to make room. `VictimsMakeRoom`
is the count: the rows left after the oldest are removed are fewer than the cap.

Only proved: `ReceiptCoversStream` (what the runs check of it is the receipt in
`StreamContract`), `ColdStart`, `BindingsCurrent`, `WritesStay`, and `BestServed`, whose interesting case takes
two stored replies and a lookup, too many calls beside the other interleavings.

Only model-checked: all liveness, which is beyond TLAPS (the settling of requests in `GraphContract`,
`Closes` of `StreamContract`, `Settles` of `MemoryContract`, `RequestSettles`). Every invariant and
action property of the passing runs is a theorem.

## 7. Not modelled

`PROJECT.json` lists every component with its status. Left out for good: the legacy
Chroma stores (not wired), generated gRPC code, load tests, the vision
demonstration, logging and settings, passwords, the receipt's cryptography
(a library's), and the container's wiring, which runs without an await. The
repository's own BM25 and rank fusion (`agent/app/retrieval`) are wired to nothing;
which facts a lookup may show is in `MemoryPipeline`. Of the tool gateway, what a
tool computes and the token handed to a server are left out; of the front end,
the session listing (it only reads) and how `chat.js` displays an answer.

## 8. Plan

1. The contents of a user's configuration in Redis (provider, key, the default-key flag), composed
   with the resolution in `ToolGateway`.
2. The token budgets as folds: `prune_messages_by_token_limit` and the search
   tool's compilation, against what their docstrings promise.
3. A larger `cache` instance, with two stored replies and a lookup, once
   the creation of the collection is split off into a module of its own.
4. The length of a delivery in `MemoryPipeline`, bounded by a measure as `StepsBounded` does a
   request's, from which the settling of a task would follow under fairness alone.
