---------------------------- MODULE SemanticCache ----------------------------
(***************************************************************************)
(* The semantic cache (qdrant_cache.py) over the vector store              *)
(* (qdrant_vector_store.py), used by concurrent calls in the two server    *)
(* processes, whose model version comes from the settings each process     *)
(* read when it started (container.py).                                    *)
(*                                                                         *)
(* The collection's existence, its payload indexes and its points are in   *)
(* Qdrant, and outlive every process.  Each request to Qdrant is a step.   *)
(* The requests of one asyncio.to_thread are made by a thread, which goes  *)
(* on when the call that awaits it is cancelled.                           *)
(***************************************************************************)
EXTENDS Integers, Sequences, FiniteSets

CONSTANTS
  Calls,         \* the calls of get and set
  Servers,       \* the server processes
  Prompts,
  Words,         \* Words[p]: the set of p's lower-case tokens
  Semantic,      \* Semantic[p][q]: the cosine score of two prompts, in percent
  Threshold,     \* threshold, in percent
  TopK,          \* top_k
  Keys,          \* the providers whose API key the deployment sets
  ModelsOf,      \* ModelsOf[p]: the tier 2 models provider p may be set to
  None,          \* Python's None
  MaxRestarts    \* bound: restarts of server processes

Providers == {"openai", "claude"}
Models == UNION {ModelsOf[p] : p \in Providers}

ASSUME ModelsAssumption == DOMAIN ModelsOf = Providers

(* A prompt is closest to itself.                                          *)
ASSUME ScoresAssumption ==
  /\ IsFiniteSet(Prompts)
  /\ \A p \in Prompts : IsFiniteSet(Words[p])
  /\ Semantic \in [Prompts -> [Prompts -> 0..100]]
  /\ \A p, q \in Prompts : p # q => Semantic[p][q] < Semantic[p][p]
  /\ Threshold \in 0..100 /\ \A p \in Prompts : Semantic[p][p] >= Threshold

ASSUME LimitsAssumption == TopK \in Nat \ {0} /\ MaxRestarts \in Nat

VARIABLES
  env,           \* .env: the tier 2 model of each provider
  deployed,      \* the settings each server read when it started
  collection,    \* the semantic_cache collection exists
  indexes,       \* how many of Fields have their payload index
  points,        \* for each version and prompt the call whose reply is stored
  at,            \* where each call is
  call,          \* what it asked and which settings it runs under, or None
  existed,       \* the calls that began when the collection existed
  gone,          \* the calls whose caller was cancelled
  stored,        \* the sets whose point is written
  answer,        \* the reply a get returned, named by its writer, or None
  failure,       \* why, and where, a call or its thread ended, or None
  restarts

qdrant == <<collection, indexes, points, stored>>
settings == <<env, deployed, restarts>>
vars == <<settings, qdrant, at, call, existed, gone, answer, failure>>

-----------------------------------------------------------------------------
(* Versions.                                                               *)

(* _resolve_default_provider                                               *)
DefaultProvider == IF "openai" \in Keys THEN "openai" ELSE "claude"

Settings == {s \in [Providers -> Models] : \A p \in Providers : s[p] \in ModelsOf[p]}

(* _resolve_cache_model_version: the tag of every entry a process writes,  *)
(* and of every entry it reads.                                            *)
Version(c) == call[c].settings[DefaultProvider]
Versions == ModelsOf[DefaultProvider]

Request == [op : {"get", "set"}, server : Servers, prompt : Prompts, settings : Settings]

-----------------------------------------------------------------------------
(* Lookup: Qdrant returns the top_k nearest points of the version that pass*)
(* the threshold, and _rerank sorts them.                                  *)

(* Mutant: the query has no version filter.                                *)
Filter_None(c) == Versions

Filter(c) == {Version(c)}

(* Entries are named by the calls that wrote them.                         *)
Entries(c) == {points[v][q] : v \in Filter(c), q \in Prompts} \ {None}

Score(c, w) == Semantic[call[c].prompt][call[w].prompt]

Qualifying(c) == {w \in Entries(c) : Score(c, w) >= Threshold}

Candidates(c) ==
  {top \in SUBSET Qualifying(c) :
     /\ Cardinality(top) =
          IF Cardinality(Qualifying(c)) < TopK THEN Cardinality(Qualifying(c)) ELSE TopK
     /\ \A w \in top, x \in Qualifying(c) \ top : Score(c, w) >= Score(c, x)}

(* _lexical_score, as a fraction.                                          *)
Shared(p, q) == Cardinality(Words[p] \cap Words[q])
Total(p, q) ==
  IF Words[p] \cup Words[q] = {} THEN 1 ELSE Cardinality(Words[p] \cup Words[q])

(* 0.8 * semantic + 0.2 * lexical, times 500 and cross-multiplied.         *)
Outranks(p, q, r) ==
  4 * Semantic[p][q] * Total(p, q) * Total(p, r) + 100 * Shared(p, q) * Total(p, r)
    > 4 * Semantic[p][r] * Total(p, q) * Total(p, r) + 100 * Shared(p, r) * Total(p, q)

(* The sort is stable: what ties stays in the order of its similarity.     *)
Reranked(c, top) ==
  {w \in top : \A x \in top :
     /\ ~Outranks(call[c].prompt, call[x].prompt, call[w].prompt)
     /\ \/ Outranks(call[c].prompt, call[w].prompt, call[x].prompt)
        \/ Score(c, w) >= Score(c, x)}

-----------------------------------------------------------------------------
(* The payload indexes _ensure_collection makes, in this order.            *)
Fields == <<"user_id", "category", "last_accessed", "model_version", "document">>

Working == {"embed", "search", "exists", "create", "index", "upsert", "stored"}
Closed == {"done", "cancelled", "failed"}
Points == {"idle"} \cup Working \cup Closed

Failures == {"conflict", "no_collection", "fault", "killed"}
Failure == [why : Failures, point : Working]

ASSUME NoneAssumption == None \notin Calls \cup Request \cup Failure

Goto(c, point) == at' = [at EXCEPT ![c] = point]

(* A thread ends: its caller goes on, unless it was cancelled meanwhile.   *)
Resume(c, point) == Goto(c, IF c \in gone THEN "cancelled" ELSE point)

Raise(c, why) ==
  /\ Goto(c, "failed")
  /\ failure' = [failure EXCEPT ![c] = [why |-> why, point |-> at[c]]]

Init ==
  /\ env \in Settings
  /\ deployed = [s \in Servers |-> env]
  /\ collection \in BOOLEAN
  /\ indexes = IF collection THEN Len(Fields) ELSE 0
  /\ points = [v \in Versions |-> [p \in Prompts |-> None]]
  /\ at = [c \in Calls |-> "idle"]
  /\ call = [c \in Calls |-> None]
  /\ existed = {}
  /\ gone = {}
  /\ stored = {}
  /\ answer = [c \in Calls |-> None]
  /\ failure = [c \in Calls |-> None]
  /\ restarts = 0

Begin(c) ==
  /\ at[c] = "idle"
  /\ \E o \in {"get", "set"}, s \in Servers, p \in Prompts :
       call' = [call EXCEPT ![c] =
         [op |-> o, server |-> s, prompt |-> p, settings |-> deployed[s]]]
  /\ existed' = IF collection THEN existed \cup {c} ELSE existed
  /\ Goto(c, "embed")
  /\ UNCHANGED <<settings, qdrant, gone, answer, failure>>

Embed(c) ==
  /\ at[c] = "embed"
  /\ Goto(c, IF call[c].op = "get" THEN "search" ELSE "exists")
  /\ UNCHANGED <<settings, qdrant, call, existed, gone, answer, failure>>

(* get asks nobody whether the collection exists.                          *)
SearchMissing(c) ==
  /\ at[c] = "search" /\ ~collection
  /\ Raise(c, "no_collection")
  /\ UNCHANGED <<settings, qdrant, call, existed, gone, answer>>

Search(c) ==
  /\ at[c] = "search" /\ collection
  /\ IF Qualifying(c) = {} \/ c \in gone THEN UNCHANGED answer
     ELSE \E top \in Candidates(c) : \E w \in Reranked(c, top) :
            answer' = [answer EXCEPT ![c] = w]
  /\ Resume(c, "done")
  /\ UNCHANGED <<settings, qdrant, call, existed, gone, failure>>

(* _ensure_collection.  Mutant: it creates without asking.                 *)
Exists_NotAsked(c) ==
  /\ at[c] = "exists"
  /\ Goto(c, "create")
  /\ UNCHANGED <<settings, qdrant, call, existed, gone, answer, failure>>

Exists(c) ==
  /\ at[c] = "exists"
  /\ IF collection THEN Resume(c, "upsert") ELSE Goto(c, "create")
  /\ UNCHANGED <<settings, qdrant, call, existed, gone, answer, failure>>

Create(c) ==
  /\ at[c] = "create" /\ ~collection
  /\ collection' = TRUE
  /\ Goto(c, "index")
  /\ UNCHANGED <<settings, indexes, points, stored, call, existed, gone, answer, failure>>

(* Another writer was first: Qdrant refuses.                               *)
CreateConflicts(c) ==
  /\ at[c] = "create" /\ collection
  /\ Raise(c, "conflict")
  /\ UNCHANGED <<settings, qdrant, call, existed, gone, answer>>

(* Mutant: the requests are awaited one by one, so that a cancelled caller *)
(* makes no more of them.                                                  *)
Index_Awaited(c) ==
  /\ at[c] = "index"
  /\ indexes' = indexes + 1
  /\ IF indexes' = Len(Fields) \/ c \in gone THEN Resume(c, "upsert") ELSE UNCHANGED at
  /\ UNCHANGED <<settings, collection, points, stored, call, existed, gone, answer, failure>>

(* Mutant: the end of the list is tested before the request is counted.    *)
Index_OneMore(c) ==
  /\ at[c] = "index"
  /\ indexes' = indexes + 1
  /\ IF indexes = Len(Fields) THEN Resume(c, "upsert") ELSE UNCHANGED at
  /\ UNCHANGED <<settings, collection, points, stored, call, existed, gone, answer, failure>>

Index(c) ==
  /\ at[c] = "index"
  /\ indexes' = indexes + 1
  /\ IF indexes' = Len(Fields) THEN Resume(c, "upsert") ELSE UNCHANGED at
  /\ UNCHANGED <<settings, collection, points, stored, call, existed, gone, answer, failure>>

(* The point's id is a hash of the version and the prompt.                 *)
(* Mutant: of the prompt alone, so that it takes the older version's place.*)
Upsert_PromptOnly(c) ==
  /\ at[c] = "upsert"
  /\ points' = [v \in Versions |-> [points[v] EXCEPT ![call[c].prompt] =
                                      IF v = Version(c) THEN c ELSE None]]
  /\ stored' = stored \cup {c}
  /\ Goto(c, "stored")
  /\ UNCHANGED <<settings, collection, indexes, call, existed, gone, answer, failure>>

Upsert(c) ==
  /\ at[c] = "upsert"
  /\ points' = [points EXCEPT ![Version(c)][call[c].prompt] = c]
  /\ stored' = stored \cup {c}
  /\ Goto(c, "stored")
  /\ UNCHANGED <<settings, collection, indexes, call, existed, gone, answer, failure>>

Return(c) ==
  /\ at[c] = "stored"
  /\ Resume(c, "done")
  /\ UNCHANGED <<settings, qdrant, call, existed, gone, answer, failure>>

-----------------------------------------------------------------------------
(* What may go wrong.                                                      *)

(* The awaiting call is cancelled.  A job its thread pool has not begun is *)
(* withdrawn, one that it has begun goes on.                               *)
Cancel(c) ==
  /\ at[c] \in Working /\ c \notin gone
  /\ gone' = gone \cup {c}
  /\ \/ at[c] \in {"embed", "search", "exists", "upsert"} /\ Goto(c, "cancelled")
     \/ at[c] # "embed" /\ UNCHANGED at
  /\ UNCHANGED <<settings, qdrant, call, existed, answer, failure>>

(* A request to Qdrant or to the embedding model raises: either it was not *)
(* carried out, or only its response was lost.                             *)
Fault(c) ==
  /\ at[c] \in Working
  /\ Raise(c, "fault")
  /\ UNCHANGED <<settings, qdrant, call, existed, gone, answer>>

(* A new model in .env; servers read it when they start.                   *)
Upgrade(p, m) ==
  /\ m \in ModelsOf[p] /\ env[p] # m
  /\ env' = [env EXCEPT ![p] = m]
  /\ UNCHANGED <<deployed, restarts, qdrant, at, call, existed, gone, answer, failure>>

On(s) == {c \in Calls : at[c] \in Working /\ call[c].server = s}

Restart(s) ==
  /\ restarts < MaxRestarts
  /\ restarts' = restarts + 1
  /\ deployed' = [deployed EXCEPT ![s] = env]
  /\ at' = [c \in Calls |-> IF c \in On(s) THEN "failed" ELSE at[c]]
  /\ failure' = [c \in Calls |->
       IF c \in On(s) THEN [why |-> "killed", point |-> at[c]] ELSE failure[c]]
  /\ UNCHANGED <<env, qdrant, call, existed, gone, answer>>

Step(c) ==
  \/ Embed(c) \/ SearchMissing(c) \/ Search(c)
  \/ Exists(c) \/ Create(c) \/ CreateConflicts(c) \/ Index(c) \/ Upsert(c) \/ Return(c)

Next ==
  \/ \E c \in Calls : Begin(c) \/ Step(c) \/ Cancel(c) \/ Fault(c)
  \/ \E p \in Providers, m \in Models : Upgrade(p, m)
  \/ \E s \in Servers : Restart(s)

Spec == Init /\ [][Next]_vars

-----------------------------------------------------------------------------
(* Properties.                                                             *)

TypeOK ==
  /\ env \in Settings
  /\ deployed \in [Servers -> Settings]
  /\ collection \in BOOLEAN
  /\ indexes \in 0..Len(Fields)
  /\ points \in [Versions -> [Prompts -> Calls \cup {None}]]
  /\ at \in [Calls -> Points]
  /\ call \in [Calls -> Request \cup {None}]
  /\ existed \subseteq Calls /\ gone \subseteq Calls /\ stored \subseteq Calls
  /\ answer \in [Calls -> Calls \cup {None}]
  /\ failure \in [Calls -> Failure \cup {None}]
  /\ restarts \in 0..MaxRestarts

(* Whatever the servers were restarted with in between, a reply that get   *)
(* returns was written by a set under the version the get runs under, for a*)
(* prompt that passes the threshold.                                       *)
ServedByVersion ==
  \A c \in Calls : answer[c] # None =>
    /\ answer[c] \in stored
    /\ Version(answer[c]) = Version(c)
    /\ Semantic[call[c].prompt][call[answer[c]].prompt] >= Threshold

(* What a set has written stays, or is replaced by another reply to the    *)
(* same prompt under the same version: upgrades and rollbacks keep it.     *)
WritesStay ==
  /\ \A c \in stored : points[Version(c)][call[c].prompt] # None
  /\ \A v \in Versions, p \in Prompts : points[v][p] # None =>
       /\ points[v][p] \in stored
       /\ Version(points[v][p]) = v /\ call[points[v][p]].prompt = p

(* Only calls that began before the collection was there can be refused by *)
(* it, be it as a duplicate or as missing: the refusals end with its birth.*)
RefusedOnlyAtBirth ==
  \A c \in Calls :
    failure[c] # None /\ failure[c].why \in {"conflict", "no_collection"} => c \notin existed

(* A collection lacks indexes while its creator makes them, and for ever   *)
(* after only if the creator's thread or process died doing so: the        *)
(* cancellation of the caller, at whatever point, leaves it complete.      *)
Creating(c) == at[c] = "index"
DiedCreating(c) == failure[c] # None /\ failure[c].point = "index"

CancelsHarmless ==
  collection /\ indexes < Len(Fields) =>
    \E c \in Calls : Creating(c) \/ DiedCreating(c)

(* An exact repetition is answered with its own reply, and no reply is     *)
(* served while the version has one for a prompt that is closer by meaning *)
(* and at least as close by words: top_k and reranking do no harm.  (It    *)
(* takes two stored replies and a get; SemanticCacheProofs proves it.)     *)
BetterFor(p, q, r) ==
  /\ Semantic[p][q] > Semantic[p][r]
  /\ Shared(p, q) * Total(p, r) >= Shared(p, r) * Total(p, q)

Best(c, w) ==
  LET p == call[c].prompt IN
  /\ points[Version(c)][p] # None => w = points[Version(c)][p]
  /\ \A q \in Prompts : points[Version(c)][q] # None => ~BetterFor(p, q, call[w].prompt)

BestServed ==
  [][\A c \in Calls : answer'[c] # answer[c] => Best(c, answer'[c])]_vars

(* The cache implements CacheContract.                                     *)
Contract == INSTANCE CacheContract WITH
  Tags <- Versions,
  Near <- [p \in Prompts |-> {q \in Prompts : Semantic[p][q] >= Threshold}],
  store <- points,
  request <- [c \in Calls |-> IF call[c] = None THEN None
                ELSE [op |-> call[c].op, version |-> Version(c), prompt |-> call[c].prompt]],
  phase <- [c \in Calls |-> IF at[c] \in Working THEN "open"
                            ELSE IF at[c] = "cancelled" THEN "failed" ELSE at[c]],
  took <- stored

ImplementsContract == Contract!Spec
=============================================================================
