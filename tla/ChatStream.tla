------------------------------ MODULE ChatStream ------------------------------
(***************************************************************************)
(* The two chat handlers, StreamChat of grpc_server.py and                 *)
(* chat_stream_endpoint of api/routes/chat.py, serving concurrent requests *)
(* over the shared semantic cache (qdrant_cache.py), the users' provider   *)
(* configuration in Redis, the two gauges and the task publisher.          *)
(*                                                                         *)
(* A step is the code between two awaits or yields.  The graph is what the *)
(* handlers see of it: chunks of visible text, then the end of the run or  *)
(* an exception.  A text is known by its length in chunks.                 *)
(***************************************************************************)
EXTENDS Integers, FiniteSets

CONSTANTS
  Requests,      \* the calls of the two endpoints
  Users,
  Anonymous,     \* the users whose id starts with "anon_"
  Prompts,
  Similar,       \* the prompts whose embeddings are within the cache's threshold
  None,          \* Python's None
  MaxChunks      \* bound: chunks of visible text in one run

ASSUME RequestsAssumption == IsFiniteSet(Requests)

ASSUME AnonymousAssumption == Anonymous \subseteq Users

ASSUME SimilarAssumption ==
  /\ Similar \in [Prompts -> SUBSET Prompts]
  /\ \A p \in Prompts : p \in Similar[p]

ASSUME MaxChunksAssumption == MaxChunks \in Nat \ {0}

Endpoints == {"grpc", "sse"}

VARIABLES
  at,             \* where each request's handler is suspended
  endpoint, user, prompt,   \* what each request asked, and where
  configured,     \* the run's llm_provider is not None
  text,           \* ai_full_response_text
  ended,          \* final_state_messages is set: the run reached its end
  sent,           \* how many chunks were yielded to the client
  receipt,        \* how many chunks the receipt sent covers, or None
  served,         \* the cached reply sent instead of a run, or None
  error,          \* why, and where, the handler was left by an exception
  gone,           \* the requests whose client has disconnected
  user_config,    \* the users with a configuration under user_config:<id>
  collection,     \* the semantic_cache collection exists
  cache,          \* its point for each prompt, or None
  late,           \* the handlers left while their reply was being stored
  grpc_streams,   \* GRPC_ACTIVE_STREAMS
  sse_streams,    \* SSE_ACTIVE_STREAMS
  completed, abrupt,   \* SSE_DISCONNECT_TOTAL, by reason
  published       \* the requests whose extraction task was handed over

asked == <<endpoint, user, prompt>>
run == <<configured, text, ended>>
output == <<sent, receipt, served>>
shared == <<user_config, collection, cache, late, published>>
metrics == <<grpc_streams, sse_streams, completed, abrupt>>
vars == <<at, asked, run, output, error, gone, shared, metrics>>

-----------------------------------------------------------------------------
(* A reply remembers the request that produced it, its length, and whether *)
(* the run had ended when it was stored.                                   *)

Reply == [by : Requests, chunks : 1..MaxChunks, whole : BOOLEAN]

Stored(r) == [by |-> r, chunks |-> text[r], whole |-> ended[r]]

Closed == {"done", "failed"}
Points == {"idle", "lookup", "config", "opened", "streaming", "ended", "caching",
           "receipt", "closing", "background"} \cup Closed

(* Why a handler was left by an exception, and where it was suspended.     *)
Failures == {"unbound_local", "no_provider", "no_collection", "fault", "cancelled"}
Failure == [why : Failures, point : Points]

ASSUME NoneAssumption == None \notin Requests \cup Nat \cup Failure

(* The part of each handler that its try/finally covers.                   *)
Covered(r) ==
  \/ /\ endpoint[r] = "grpc"
     /\ at[r] \in {"streaming", "ended", "caching", "receipt", "closing"}
  \/ endpoint[r] = "sse" /\ at[r] \in {"streaming", "receipt", "closing"}

(* The finally block; a stream is clean when it ran past its receipt.      *)
(* Mutants: an unclean stream leaves the gauge twice, or never.            *)
Finally_Twice(r, clean) ==
  IF endpoint[r] = "grpc"
  THEN /\ grpc_streams' = IF clean THEN grpc_streams - 1 ELSE grpc_streams - 2
       /\ UNCHANGED <<sse_streams, completed, abrupt>>
  ELSE /\ sse_streams' = IF clean THEN sse_streams - 1 ELSE sse_streams - 2
       /\ completed' = IF clean THEN completed + 1 ELSE completed
       /\ abrupt' = IF clean THEN abrupt ELSE abrupt + 1
       /\ UNCHANGED grpc_streams

Finally_OnlyClean(r, clean) ==
  IF endpoint[r] = "grpc"
  THEN grpc_streams' = grpc_streams - 1 /\ UNCHANGED <<sse_streams, completed, abrupt>>
  ELSE /\ sse_streams' = IF clean THEN sse_streams - 1 ELSE sse_streams
       /\ completed' = IF clean THEN completed + 1 ELSE completed
       /\ abrupt' = IF clean THEN abrupt ELSE abrupt + 1
       /\ UNCHANGED grpc_streams

Finally(r, clean) ==
  IF endpoint[r] = "grpc"
  THEN grpc_streams' = grpc_streams - 1 /\ UNCHANGED <<sse_streams, completed, abrupt>>
  ELSE /\ sse_streams' = sse_streams - 1
       /\ completed' = IF clean THEN completed + 1 ELSE completed
       /\ abrupt' = IF clean THEN abrupt ELSE abrupt + 1
       /\ UNCHANGED grpc_streams

(* An exception leaves the handler from where it is suspended.             *)
(* Mutant: the SSE generator stores its text in the finally block.         *)
Raise_SseCaches(r, why) ==
  /\ at' = [at EXCEPT ![r] = "failed"]
  /\ error' = [error EXCEPT ![r] = [why |-> why, point |-> at[r]]]
  /\ IF Covered(r) THEN Finally(r, FALSE) ELSE UNCHANGED metrics
  /\ cache' = IF Covered(r) /\ endpoint[r] = "sse" /\ text[r] > 0
              THEN [cache EXCEPT ![prompt[r]] = Stored(r)] ELSE cache
  /\ late' = IF at[r] = "caching" THEN late \cup {r} ELSE late
  /\ UNCHANGED <<asked, run, output, gone, user_config, collection, published>>

Raise(r, why) ==
  /\ at' = [at EXCEPT ![r] = "failed"]
  /\ error' = [error EXCEPT ![r] = [why |-> why, point |-> at[r]]]
  /\ IF Covered(r) THEN Finally(r, FALSE) ELSE UNCHANGED metrics
  /\ late' = IF at[r] = "caching" THEN late \cup {r} ELSE late
  /\ UNCHANGED <<asked, run, output, gone, user_config, collection, cache, published>>

Goto(r, point) == at' = [at EXCEPT ![r] = point]

-----------------------------------------------------------------------------
Init ==
  /\ at = [r \in Requests |-> "idle"]
  /\ endpoint \in [Requests -> Endpoints]
  /\ user \in [Requests -> Users]
  /\ prompt \in [Requests -> Prompts]
  /\ configured = [r \in Requests |-> FALSE]
  /\ text = [r \in Requests |-> 0]
  /\ ended = [r \in Requests |-> FALSE]
  /\ sent = [r \in Requests |-> 0]
  /\ receipt = [r \in Requests |-> None]
  /\ served = [r \in Requests |-> None]
  /\ error = [r \in Requests |-> None]
  /\ gone = {}
  /\ user_config = {}
  /\ collection \in BOOLEAN
  /\ cache = [p \in Prompts |-> None]
  /\ late = {}
  /\ grpc_streams = 0 /\ sse_streams = 0
  /\ completed = 0 /\ abrupt = 0
  /\ published = {}

Arrive(r) ==
  /\ at[r] = "idle"
  /\ Goto(r, "lookup")
  /\ UNCHANGED <<asked, run, output, error, gone, shared, metrics>>

(* UpdateProviderConfig and submit_provider_config store a configuration;  *)
(* it expires after a day.                                                 *)
StoreConfig(u) ==
  /\ u \notin user_config
  /\ user_config' = user_config \cup {u}
  /\ UNCHANGED <<at, asked, run, output, error, gone, collection, cache,
                 late, published, metrics>>

ExpireConfig(u) ==
  /\ u \in user_config
  /\ user_config' = user_config \ {u}
  /\ UNCHANGED <<at, asked, run, output, error, gone, collection, cache,
                 late, published, metrics>>

-----------------------------------------------------------------------------
(* The semantic cache.                                                     *)

(* Mutant: every stored prompt is a match.                                 *)
Hits_All(p) == {q \in Prompts : cache[q] # None}

Hits(p) == {q \in Similar[p] : cache[q] # None}

(* QdrantSemanticCache.get searches the collection without asking whether  *)
(* it exists; only set, through the vector store, creates it.              *)
LookupHit(r) ==
  /\ at[r] = "lookup" /\ collection
  /\ \E q \in Hits(prompt[r]) : served' = [served EXCEPT ![r] = cache[q]]
  /\ Goto(r, "done")
  /\ UNCHANGED <<asked, run, sent, receipt, error, gone, shared, metrics>>

(* Only the gRPC handler is counted before its configuration is read.      *)
LookupMiss(r) ==
  /\ at[r] = "lookup" /\ collection
  /\ Hits(prompt[r]) = {}
  /\ Goto(r, "config")
  /\ grpc_streams' = IF endpoint[r] = "grpc" THEN grpc_streams + 1 ELSE grpc_streams
  /\ UNCHANGED <<asked, run, output, error, gone, shared, sse_streams,
                 completed, abrupt>>

LookupNoCollection(r) ==
  /\ at[r] = "lookup" /\ ~collection
  /\ Raise(r, "no_collection")

(* use_default_key is bound only where a stored configuration was parsed.  *)
ConfigGrpc(r) ==
  /\ at[r] = "config" /\ endpoint[r] = "grpc"
  /\ \/ /\ user[r] \in user_config
        /\ configured' = [configured EXCEPT ![r] = TRUE]
        /\ Goto(r, "streaming")
        /\ UNCHANGED <<asked, text, ended, output, error, gone, shared, metrics>>
     \/ /\ user[r] \notin user_config
        /\ Raise(r, "unbound_local")

(* The endpoint returns its response, counted; the generator starts later. *)
(* Without a configuration the run is given the provider None.             *)
(* Mutant: the endpoint waits for a configuration.                         *)
ConfigSse_Waits(r) ==
  /\ at[r] = "config" /\ endpoint[r] = "sse" /\ user[r] \in user_config
  /\ configured' = [configured EXCEPT ![r] = user[r] \in user_config]
  /\ sse_streams' = sse_streams + 1
  /\ Goto(r, "opened")
  /\ UNCHANGED <<asked, text, ended, output, error, gone, shared, grpc_streams,
                 completed, abrupt>>

ConfigSse(r) ==
  /\ at[r] = "config" /\ endpoint[r] = "sse"
  /\ configured' = [configured EXCEPT ![r] = user[r] \in user_config]
  /\ sse_streams' = sse_streams + 1
  /\ Goto(r, "opened")
  /\ UNCHANGED <<asked, text, ended, output, error, gone, shared, grpc_streams,
                 completed, abrupt>>

OpenSse(r) ==
  /\ at[r] = "opened"
  /\ Goto(r, "streaming")
  /\ UNCHANGED <<asked, run, output, error, gone, shared, metrics>>

-----------------------------------------------------------------------------
(* The run.  What the supervisor's model streams is skipped by both        *)
(* handlers, before it is accumulated.                                     *)

(* Mutant: the supervisor's text is accumulated, then skipped.             *)
Chunk_Routing(r) ==
  /\ at[r] = "streaming" /\ configured[r]
  /\ text[r] < MaxChunks
  /\ text' = [text EXCEPT ![r] = @ + 1]
  /\ \E visible \in BOOLEAN :
       sent' = IF visible THEN [sent EXCEPT ![r] = @ + 1] ELSE sent
  /\ UNCHANGED <<at, asked, configured, ended, receipt, served, error, gone, shared, metrics>>

Chunk(r) ==
  /\ at[r] = "streaming" /\ configured[r]
  /\ text[r] < MaxChunks
  /\ text' = [text EXCEPT ![r] = @ + 1]
  /\ sent' = [sent EXCEPT ![r] = @ + 1]
  /\ UNCHANGED <<at, asked, configured, ended, receipt, served, error, gone, shared, metrics>>

(* The executor asks for its model: _resolve_provider_and_key calls lower()*)
(* on the provider, and outside any try block.  (The supervisor's failure  *)
(* was caught, and its text is not visible.)                               *)
RunUnconfigured(r) ==
  /\ at[r] = "streaming" /\ ~configured[r]
  /\ Raise(r, "no_provider")

(* on_chain_end of the whole graph.                                        *)
GraphEnds(r) ==
  /\ at[r] = "streaming" /\ configured[r]
  /\ ended' = [ended EXCEPT ![r] = TRUE]
  /\ Goto(r, IF endpoint[r] = "grpc" THEN "ended"
             ELSE IF text[r] > 0 THEN "receipt" ELSE "closing")
  /\ UNCHANGED <<asked, configured, text, output, error, gone, shared, metrics>>

(* The gRPC loop asks, at every event, whether the call was cancelled, and *)
(* then leaves the run where it is.                                        *)
Dropped(r) ==
  /\ at[r] = "streaming" /\ endpoint[r] = "grpc" /\ r \in gone
  /\ Goto(r, "ended")
  /\ UNCHANGED <<asked, run, output, error, gone, shared, metrics>>

-----------------------------------------------------------------------------
(* After the run.  The two handlers take the same three steps in different *)
(* orders: gRPC publishes, caches, signs; SSE signs, closes, caches and    *)
(* publishes.                                                              *)

Remembered(r) == ended[r] /\ user[r] \notin Anonymous

(* publish_extraction_task is started once the run has ended, and never    *)
(* for an anonymous user.                                                  *)
Publish(r) ==
  published' = IF Remembered(r) THEN published \cup {r} ELSE published

PublishGrpc(r) ==
  /\ at[r] = "ended"
  /\ Publish(r)
  /\ Goto(r, IF text[r] > 0 THEN "caching" ELSE "closing")
  /\ UNCHANGED <<asked, run, output, error, gone, user_config,
                 collection, cache, late, metrics>>

(* QdrantSemanticCache.set: the point of a prompt is overwritten.          *)
CacheAnswer(r) ==
  /\ at[r] = "caching"
  /\ cache' = [cache EXCEPT ![prompt[r]] = Stored(r)]
  /\ collection' = TRUE
  /\ Goto(r, IF endpoint[r] = "grpc" THEN "receipt" ELSE "background")
  /\ UNCHANGED <<asked, run, output, error, gone, user_config, late, published,
                 metrics>>

(* The thread that writes outlives its cancelled handler, and a request    *)
(* whose response was lost was carried out all the same.                   *)
StoreLate(r) ==
  /\ r \in late
  /\ late' = late \ {r}
  /\ cache' = [cache EXCEPT ![prompt[r]] = Stored(r)]
  /\ collection' = TRUE
  /\ UNCHANGED <<at, asked, run, output, error, gone, user_config, published, metrics>>

(* The receipt signs the hash of the accumulated text.                     *)
SendReceipt(r) ==
  /\ at[r] = "receipt"
  /\ receipt' = [receipt EXCEPT ![r] = text[r]]
  /\ Goto(r, "closing")
  /\ UNCHANGED <<asked, run, sent, served, error, gone, shared, metrics>>

(* Mutant: the SSE generator hands no task over when it has no text.       *)
Close_SkipsBackground(r) ==
  /\ at[r] = "closing"
  /\ Finally(r, TRUE)
  /\ Goto(r, IF endpoint[r] = "grpc" \/ text[r] = 0 THEN "done" ELSE "caching")
  /\ UNCHANGED <<asked, run, output, error, gone, shared>>

Close(r) ==
  /\ at[r] = "closing"
  /\ Finally(r, TRUE)
  /\ Goto(r, IF endpoint[r] = "grpc" THEN "done"
             ELSE IF text[r] > 0 THEN "caching" ELSE "background")
  /\ UNCHANGED <<asked, run, output, error, gone, shared>>

(* The background task of the SSE response.                                *)
PublishSse(r) ==
  /\ at[r] = "background"
  /\ Publish(r)
  /\ Goto(r, "done")
  /\ UNCHANGED <<asked, run, output, error, gone, user_config,
                 collection, cache, late, metrics>>

-----------------------------------------------------------------------------
(* What may go wrong.                                                      *)

Active(r) == at[r] \notin Closed \cup {"idle"}

ClientLeaves(r) ==
  /\ Active(r) /\ r \notin gone
  /\ gone' = gone \cup {r}
  /\ UNCHANGED <<at, asked, run, output, error, shared, metrics>>

(* The server cancels the handler of a client that has left, or drops the  *)
(* generator, wherever it is suspended.                                    *)
Cancelled(r) ==
  /\ Active(r) /\ r \in gone
  /\ Raise(r, "cancelled")

(* An exception of the embedding model, Qdrant, Redis, the graph or the    *)
(* signing helper.                                                         *)
Fault(r) ==
  /\ at[r] \in {"lookup", "config", "streaming", "ended", "caching", "receipt"}
  /\ Raise(r, "fault")

Handle(r) ==
  \/ LookupHit(r) \/ LookupMiss(r) \/ LookupNoCollection(r)
  \/ ConfigGrpc(r) \/ ConfigSse(r) \/ OpenSse(r)
  \/ RunUnconfigured(r) \/ Chunk(r) \/ GraphEnds(r) \/ Dropped(r)
  \/ PublishGrpc(r) \/ CacheAnswer(r) \/ SendReceipt(r) \/ Close(r) \/ PublishSse(r)

Next ==
  \/ \E r \in Requests :
       Arrive(r) \/ Handle(r) \/ StoreLate(r) \/ ClientLeaves(r) \/ Cancelled(r) \/ Fault(r)
  \/ \E u \in Users : StoreConfig(u) \/ ExpireConfig(u)

(* The event loop resumes every handler that can go on; clients, faults    *)
(* and configuration changes come as they please.                          *)
Spec == Init /\ [][Next]_vars /\ \A r \in Requests : WF_vars(Handle(r))

-----------------------------------------------------------------------------
(* Properties.                                                             *)

TypeOK ==
  /\ at \in [Requests -> Points]
  /\ endpoint \in [Requests -> Endpoints]
  /\ user \in [Requests -> Users]
  /\ prompt \in [Requests -> Prompts]
  /\ configured \in [Requests -> BOOLEAN]
  /\ text \in [Requests -> 0..MaxChunks]
  /\ sent \in [Requests -> 0..MaxChunks]
  /\ ended \in [Requests -> BOOLEAN]
  /\ receipt \in [Requests -> (0..MaxChunks) \cup {None}]
  /\ served \in [Requests -> Reply \cup {None}]
  /\ error \in [Requests -> Failure \cup {None}]
  /\ gone \subseteq Requests
  /\ user_config \subseteq Users
  /\ collection \in BOOLEAN
  /\ cache \in [Prompts -> Reply \cup {None}]
  /\ {grpc_streams, sse_streams, completed, abrupt} \subseteq Nat
  /\ late \cup published \subseteq Requests

(* A receipt covers exactly the chunks its client received, for both       *)
(* endpoints, complete runs and dropped ones alike.                        *)
ReceiptCoversStream ==
  \A r \in Requests : receipt[r] # None => receipt[r] = sent[r] /\ sent[r] > 0

(* Between the increment of its gauge and its try block a handler can still*)
(* be left, and then nothing decrements the gauge.                         *)
LastUncovered == [grpc |-> "config", sse |-> "opened"]

Leaked(r) == error[r] # None /\ error[r].point = LastUncovered[endpoint[r]]

Counted(e) ==
  {r \in Requests : endpoint[r] = e
     /\ (at[r] = LastUncovered[e] \/ Covered(r) \/ Leaked(r))}

(* The gauges count the streams being served and those leaked, no other,   *)
(* and every SSE stream that left its try block is counted once as closed. *)
GaugesAccount ==
  /\ grpc_streams = Cardinality(Counted("grpc"))
  /\ sse_streams = Cardinality(Counted("sse"))
  /\ completed + abrupt =
       Cardinality({r \in Requests : endpoint[r] = "sse" /\ ~Leaked(r) /\ served[r] = None
         /\ \/ at[r] \in {"caching", "background", "done"}
            \/ error[r] # None /\ error[r].point \notin {"lookup", "config"}})

(* What the SSE endpoint stores for everybody is never a broken-off run,   *)
(* although the client may go and the run may fail at any point.           *)
SseCachesWhole ==
  \A p \in Prompts :
    cache[p] # None /\ endpoint[cache[p].by] = "sse" => cache[p].whole

(* A cached reply is the text that was streamed to an earlier request whose*)
(* prompt is similar to the one it answers.                                *)
ServedGenuine ==
  \A r \in Requests : served[r] # None =>
    LET by == served[r].by
    IN  /\ by # r
        /\ prompt[by] \in Similar[prompt[r]]
        /\ served[r].chunks = sent[by]

(* Where a run may have ended and its task is not handed over yet.  The    *)
(* gRPC handler does it next; the SSE generator only after its receipt is  *)
(* sent, its stream counted as completed and its answer cached, so that a  *)
(* client may hold a whole answer whose task an exception then loses.      *)
BeforePublishing ==
  [grpc |-> {"ended"}, sse |-> {"receipt", "closing", "caching", "background"}]

TaskLost(r) ==
  Remembered(r) /\ error[r] # None /\ error[r].point \in BeforePublishing[endpoint[r]]

(* Of the handlers that are over, an extraction task was handed over for   *)
(* exactly those whose run reached its end, for a user who is not          *)
(* anonymous, unless an exception or a cancellation left the handler at one*)
(* of these points: whatever fails elsewhere costs no task.  And no        *)
(* broken-off run is handed over at any time.                              *)
PublishedExactly ==
  \A r \in Requests :
    /\ r \in published => Remembered(r)
    /\ at[r] \in Closed => (r \in published <=> Remembered(r) /\ ~TaskLost(r))

(* A deployment without the collection answers nobody, and stays without it*)
(* whatever is asked of it: only a reply that was streamed would create it,*)
(* and no request is streamed anything before its lookup has succeeded.    *)
ColdStart ==
  /\ [](~collection => \A r \in Requests : sent[r] = 0 /\ served[r] = None)
  /\ [][~collection => ~collection']_vars

-----------------------------------------------------------------------------
(* Every call implements the contract.                                     *)

Phase(r) ==
  IF at[r] = "idle" THEN "unasked"
  ELSE IF at[r] \in Closed THEN "closed"
  ELSE IF receipt[r] # None THEN "signed"
  ELSE IF sent[r] > 0 THEN "streaming" ELSE "asked"

Call(r) == INSTANCE StreamContract WITH
  phase <- Phase(r), chunks <- sent[r], receipt <- receipt[r],
  cached <- served[r] # None

(* What each client sees follows StreamContract, whatever the other call   *)
(* does to the cache and whatever fails; no handler stays suspended.       *)
ServesSafely ==
  /\ \A r \in Requests : Call(r)!Init
  /\ [][\A r \in Requests : [Call(r)!Next]_(Call(r)!vars)]_vars

ServesContract == ServesSafely /\ \A r \in Requests : Call(r)!Closes

-----------------------------------------------------------------------------
(* What the documentation says and the code does not do.                   *)

(* config.py, _resolve_provider_and_key: "Priority: explicit user config   *)
(* -> auto-detect from available API keys".                                *)
DefaultsSuffice ==
  \A r \in Requests :
    error[r] # None => error[r].why \notin {"unbound_local", "no_provider"}
=============================================================================
