----------------------------- MODULE ToolGateway -----------------------------
(***************************************************************************)
(* One serving process of the agent, from its start to its end: the MCP    *)
(* servers it connects to and the tools it loads from them (mcp_client.py, *)
(* grpc_server.py, main.py), the tools of each lane (tool_registry.py), the*)
(* tool node (workflow.py), and the three caches of language models of     *)
(* graph/config.py.                                                        *)
(*                                                                         *)
(* A step of the start is the code between two awaits.  The factory never  *)
(* awaits, so a call of it is one step.  Settings do not change while a    *)
(* process lives: their fingerprint is a constant part of every cache key, *)
(* and left out.                                                           *)
(***************************************************************************)
EXTENDS Integers, FiniteSets

CONSTANTS
  Servers,      \* mcp_servers_config.json
  Tools,
  Offers,       \* the tools of each server
  Lanes,
  Registry,     \* AGENT_TOOL_REGISTRY
  Tiers,
  Models,
  ModelOf,      \* the model of each provider and tier, in settings.py
  Schemas,      \* what answers can be structured by
  Keys,         \* the API keys of users and of the deployment
  Others,       \* providers a user may name that are not supported
  None,
  MaxCalls      \* bound: calls of the factory in a behaviour

Supported == {"openai", "claude"}

ASSUME NoneAssumption == None \notin Supported \cup Others \cup Keys \cup Schemas \cup Lanes

ASSUME OffersAssumption == Offers \in [Servers -> SUBSET Tools]

ASSUME RegistryAssumption == Registry \in [Lanes -> SUBSET Tools]

(* No model has the same name at both providers.                           *)
ASSUME ModelOfAssumption ==
  /\ ModelOf \in [Supported -> [Tiers -> Models]]
  /\ \A t, u \in Tiers : ModelOf["openai"][t] # ModelOf["claude"][u]

ASSUME MaxCallsAssumption == MaxCalls \in Nat

VARIABLES
  stage,        \* of the process: connecting, serving or stopped
  todo,         \* the servers not tried yet
  gathered,     \* all_converted_tools
  loaded,       \* mcp_manager.langchain_tools
  node,         \* the tools of workflow.py's tool node
  defaults,     \* the deployment's API key at each provider, or None
  instances,    \* _LLM_INSTANCE_CACHE
  structured,   \* _STRUCTURED_LLM_CACHE
  bound,        \* _BOUND_LLM_CACHE
  last,         \* history: the last call of the factory, and what it returned
  calls,        \* history: how many there were
  failed        \* history: the servers that failed

gateway == <<todo, gathered, loaded, node, failed>>
factory == <<instances, structured, bound, last, calls>>
vars == <<stage, gateway, defaults, factory>>

-----------------------------------------------------------------------------
(* A model as a caller uses it: a plain instance has no schema and no      *)
(* tools.                                                                  *)
Llm == [provider : Supported, model : Models, key : Keys,
        schema : Schemas \cup {None}, tools : SUBSET Tools]

(* The query transformer hands the factory no configuration.               *)
NoCaller == [provider |-> None, key |-> None]

(* A run's configuration: the provider a user named, and their own key.    *)
Caller == [provider : Supported \cup Others, key : Keys \cup {None}] \cup {NoCaller}

Question == [caller : Caller, tier : Tiers, schema : Schemas \cup {None},
             lane : Lanes \cup {None}]

ProviderOf(c) ==
  IF c.provider \in Supported THEN c.provider
  ELSE IF defaults["claude"] # None THEN "claude" ELSE "openai"

KeyOf(c) == IF c.key # None THEN c.key ELSE defaults[ProviderOf(c)]

Plain(c, tier) ==
  [provider |-> ProviderOf(c), model |-> ModelOf[ProviderOf(c)][tier], key |-> KeyOf(c),
   schema |-> None, tools |-> {}]

ToolsOf(lane) == Registry[lane] \cap loaded

(* The cache keys.                                                         *)
InstanceKey(llm) == [provider |-> llm.provider, model |-> llm.model, key |-> llm.key]

StructuredKey(llm, schema) ==
  [provider |-> llm.provider, model |-> llm.model, key |-> llm.key, schema |-> schema]

(* Mutant: the API key is left out, as it was once.                        *)
BoundKey_ModelOnly(lane, llm) == [lane |-> lane, model |-> llm.model]

BoundKey(lane, llm) == [lane |-> lane, model |-> llm.model, key |-> llm.key]

(* What a cache has under a key, where made is what would be put there.    *)
Lookup(cache, key, made) ==
  IF \E e \in cache : e.key = key
  THEN (CHOOSE e \in cache : e.key = key).llm ELSE made

Caching(cache, key, made) ==
  cache \cup {[key |-> key, llm |-> Lookup(cache, key, made)]}

-----------------------------------------------------------------------------
(* workflow.py is imported before any server is connected, and its tool    *)
(* node is given the list of that moment.                                  *)
Init ==
  /\ stage = "connecting"
  /\ todo = Servers /\ gathered = {} /\ loaded = {} /\ node = {} /\ failed = {}
  /\ defaults \in [Supported -> Keys \cup {None}]
  /\ instances = {} /\ structured = {} /\ bound = {}
  /\ last = None /\ calls = 0

(* The handshake and the listing of the tools succeed.                     *)
Connect(s) ==
  /\ stage = "connecting" /\ s \in todo
  /\ todo' = todo \ {s}
  /\ gathered' = gathered \cup Offers[s]
  /\ UNCHANGED <<stage, loaded, node, failed, defaults, factory>>

(* Mutant: the first failure ends the loop.                                *)
ConnectFails_Abandons(s) ==
  /\ stage = "connecting" /\ s \in todo
  /\ todo' = {}
  /\ failed' = failed \cup {s}
  /\ UNCHANGED <<stage, gathered, loaded, node, defaults, factory>>

(* One of them raises: the next server is tried.                           *)
ConnectFails(s) ==
  /\ stage = "connecting" /\ s \in todo
  /\ todo' = todo \ {s}
  /\ failed' = failed \cup {s}
  /\ UNCHANGED <<stage, gathered, loaded, node, defaults, factory>>

(* The servers' configuration is missing, or cannot be parsed.             *)
NoConfig ==
  /\ stage = "connecting" /\ todo = Servers
  /\ stage' = "serving"
  /\ failed' = Servers
  /\ todo' = {}
  /\ UNCHANGED <<gathered, loaded, node, defaults, factory>>

(* initialize_all_servers replaces the list, and the server starts.        *)
Serve ==
  /\ stage = "connecting" /\ todo = {}
  /\ loaded' = gathered
  /\ stage' = "serving"
  /\ UNCHANGED <<todo, gathered, node, failed, defaults, factory>>

Shutdown ==
  /\ stage = "serving"
  /\ stage' = "stopped"
  /\ UNCHANGED <<gateway, defaults, factory>>

-----------------------------------------------------------------------------
(* The factory of models.                                                  *)

(* Mutant: calls are served while the servers are still being connected.   *)
Ready_Early == stage # "stopped"

(* The ports are opened, and the nodes run, only after the initialisation. *)
Ready == stage = "serving"

(* Mutant: the absence of a key is noticed by the provider only.           *)
Callable_AnyKey(c) == Ready /\ calls < MaxCalls

(* The constructor raises without a key, and nothing is cached.            *)
Callable(c) == Ready /\ calls < MaxCalls /\ KeyOf(c) # None

Returned(c, tier, schema, lane, llm) ==
  /\ last' = [asked |-> [caller |-> c, tier |-> tier, schema |-> schema, lane |-> lane],
              got |-> llm]
  /\ calls' = calls + 1
  /\ UNCHANGED <<stage, gateway, defaults>>

(* get_llm_instance.                                                       *)
GetInstance(c, tier) ==
  LET made == Plain(c, tier)
      key == InstanceKey(made)
  IN  /\ Callable(c)
      /\ instances' = Caching(instances, key, made)
      /\ UNCHANGED <<structured, bound>>
      /\ Returned(c, tier, None, None, Lookup(instances, key, made))

(* get_structured_llm: the instance is asked for only on a miss.           *)
GetStructured(c, tier, schema) ==
  LET plain == Plain(c, tier)
      base == Lookup(instances, InstanceKey(plain), plain)
      made == [base EXCEPT !.schema = schema]
      key == StructuredKey(plain, schema)
  IN  /\ Callable(c)
      /\ instances' = IF \E e \in structured : e.key = key THEN instances
                      ELSE Caching(instances, InstanceKey(plain), plain)
      /\ structured' = Caching(structured, key, made)
      /\ UNCHANGED bound
      /\ Returned(c, tier, schema, None, Lookup(structured, key, made))

(* An executor: get_llm_instance, then get_cached_bound_llm for the run's  *)
(* current_domain, which may be another lane than the executor's.          *)
GetBound(c, tier, lane) ==
  LET plain == Plain(c, tier)
      base == Lookup(instances, InstanceKey(plain), plain)
      made == [base EXCEPT !.tools = ToolsOf(lane)]
      key == BoundKey(lane, base)
  IN  /\ Callable(c)
      /\ instances' = Caching(instances, InstanceKey(plain), plain)
      /\ bound' = Caching(bound, key, made)
      /\ UNCHANGED structured
      /\ Returned(c, tier, None, lane, Lookup(bound, key, made))

-----------------------------------------------------------------------------
Next ==
  \/ \E s \in Servers : Connect(s) \/ ConnectFails(s)
  \/ NoConfig \/ Serve \/ Shutdown
  \/ \E c \in Caller, tier \in Tiers :
       \/ GetInstance(c, tier)
       \/ \E schema \in Schemas : GetStructured(c, tier, schema)
       \/ \E lane \in Lanes : GetBound(c, tier, lane)

(* No fairness: nothing bounds the time a server takes to answer.          *)
Spec == Init /\ [][Next]_vars

-----------------------------------------------------------------------------
(* Properties.                                                             *)

TypeOK ==
  /\ stage \in {"connecting", "serving", "stopped"}
  /\ todo \subseteq Servers /\ failed \subseteq Servers
  /\ gathered \subseteq Tools /\ loaded \subseteq Tools /\ node \subseteq Tools
  /\ defaults \in [Supported -> Keys \cup {None}]
  /\ instances \subseteq
       [key : [provider : Supported, model : Models, key : Keys], llm : Llm]
  /\ structured \subseteq
       [key : [provider : Supported, model : Models, key : Keys, schema : Schemas],
        llm : Llm]
  /\ bound \subseteq [key : [lane : Lanes, model : Models, key : Keys], llm : Llm]
  /\ last \in [asked : Question, got : Llm] \cup {None}
  /\ calls \in 0..MaxCalls

(* Whatever the caches hold, a caller is given a model of its own provider *)
(* (the deployment's choice when it names no supported one), of the tier it*)
(* asked for, on its own key or the deployment's for that provider, with   *)
(* the schema it asked for and its lane's tools: never another tenant's.   *)
CallerServed ==
  last # None =>
    LET c == last.asked.caller
    IN  /\ last.got.provider = ProviderOf(c)
        /\ last.got.model = ModelOf[ProviderOf(c)][last.asked.tier]
        /\ last.got.key = KeyOf(c)
        /\ last.got.schema = last.asked.schema
        /\ last.got.tools =
             IF last.asked.lane = None THEN {} ELSE Registry[last.asked.lane] \cap loaded

(* A bound model lives as long as the process, and carries exactly those   *)
(* tools of its lane that were loaded: none was bound to an earlier list.  *)
BindingsCurrent ==
  \A e \in bound : e.llm.tools = Registry[e.key.lane] \cap loaded

(* A server that fails costs its own tools and no other's, unless the      *)
(* configuration itself is lost.                                           *)
FailureContained ==
  stage # "connecting" => loaded = UNION {Offers[s] : s \in Servers \ failed}

(* src/agent/README.md calls the tool node the one "wrapping all registered*)
(* MCP tools": it has every tool a model may have been told of.            *)
BoundToolsRunnable == \A e \in bound : e.llm.tools \subseteq node

=============================================================================
