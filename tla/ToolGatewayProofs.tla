-------------------------- MODULE ToolGatewayProofs --------------------------
(***************************************************************************)
(* Theorems about ToolGateway, for every set of servers, tools, lanes,     *)
(* models, schemas and tenants.                                            *)
(***************************************************************************)
EXTENDS ToolGateway, TLAPS

(* While the servers are connected the caches are empty, and what was      *)
(* gathered is what the servers tried so far offered.                      *)
StartInv ==
  stage = "connecting" =>
    /\ loaded = {}
    /\ instances = {} /\ structured = {} /\ bound = {} /\ last = None
    /\ todo \cap failed = {}
    /\ gathered = UNION {Offers[s] : s \in Servers \ (todo \cup failed)}

(* The key of an entry says all there is to its model.                     *)
InstanceOf(key) ==
  [provider |-> key.provider, model |-> key.model, key |-> key.key,
   schema |-> None, tools |-> {}]

StructuredOf(key) ==
  [provider |-> key.provider, model |-> key.model, key |-> key.key,
   schema |-> key.schema, tools |-> {}]

(* A bound model's key does not name its provider: its model's name does.  *)
BoundOf(provider, key) ==
  [provider |-> provider, model |-> key.model, key |-> key.key,
   schema |-> None, tools |-> ToolsOf(key.lane)]

CacheInv ==
  /\ \A e \in instances : e.llm = InstanceOf(e.key)
  /\ \A e \in structured : e.llm = StructuredOf(e.key)
  /\ \A e \in bound :
       \E provider \in Supported :
         /\ \E t \in Tiers : e.key.model = ModelOf[provider][t]
         /\ e.llm = BoundOf(provider, e.key)

IInv == TypeOK /\ StartInv /\ CacheInv /\ CallerServed /\ FailureContained

-----------------------------------------------------------------------------
(* Lemmas on the operators.                                                *)

(* A caller's provider is a supported one.                                 *)
LEMMA ProviderType == \A c : ProviderOf(c) \in Supported
  BY DEF ProviderOf, Supported

(* A caller's key, when there is one, is a key.                            *)
LEMMA KeyType ==
  ASSUME TypeOK, NEW c \in Caller, KeyOf(c) # None
  PROVE  KeyOf(c) \in Keys
<1>1. c.key \in Keys \cup {None}
  BY DEF Caller, NoCaller
<1>2. defaults[ProviderOf(c)] \in Keys \cup {None}
  BY ProviderType DEF TypeOK
<1> QED BY <1>1, <1>2 DEF KeyOf

(* The model of a tier is a model.                                         *)
LEMMA ModelType ==
  ASSUME NEW p \in Supported, NEW t \in Tiers
  PROVE  ModelOf[p][t] \in Models
<1>1. ModelOf[p] \in [Tiers -> Models]
  BY ModelOfAssumption
<1> QED BY <1>1

(* A model's name names its provider.                                      *)
LEMMA ModelNamesProvider ==
  ASSUME NEW p \in Supported, NEW q \in Supported, NEW t \in Tiers, NEW u \in Tiers,
         ModelOf[p][t] = ModelOf[q][u]
  PROVE  p = q
  BY ModelOfAssumption DEF Supported

(* The instance a caller would be given is well typed.                     *)
LEMMA PlainType ==
  ASSUME TypeOK, NEW c \in Caller, NEW t \in Tiers, KeyOf(c) # None
  PROVE  Plain(c, t) \in Llm
  BY ProviderType, KeyType, ModelType DEF Plain, Llm

(* A lookup returns what is made, or an entry that has the key.            *)
LEMMA LookupChoice ==
  ASSUME NEW cache, NEW key, NEW made
  PROVE  \/ Lookup(cache, key, made) = made
         \/ \E e \in cache : e.key = key /\ Lookup(cache, key, made) = e.llm
<1>1. CASE \E e \in cache : e.key = key
  <2> DEFINE chosen == CHOOSE e \in cache : e.key = key
  <2>1. chosen \in cache /\ chosen.key = key
    BY <1>1
  <2>2. Lookup(cache, key, made) = chosen.llm
    BY <1>1 DEF Lookup
  <2> QED BY <2>1, <2>2
<1>2. CASE ~\E e \in cache : e.key = key
  BY <1>2 DEF Lookup
<1> QED BY <1>1, <1>2

(* Each cache returns what would have been made, had it been empty.        *)
LEMMA InstanceFound ==
  ASSUME CacheInv, NEW c, NEW t
  PROVE  Lookup(instances, InstanceKey(Plain(c, t)), Plain(c, t)) = Plain(c, t)
<1> DEFINE plain == Plain(c, t)
<1>1. InstanceOf(InstanceKey(plain)) = plain
  BY DEF InstanceOf, InstanceKey, Plain
<1>2. \A e \in instances : e.key = InstanceKey(plain) => e.llm = plain
  BY <1>1 DEF CacheInv
<1> HIDE DEF plain
<1>3. Lookup(instances, InstanceKey(plain), plain) = plain
  BY <1>2, LookupChoice
<1> QED BY <1>3 DEF plain

(* A structured model found is the one that would have been made.          *)
LEMMA StructuredFound ==
  ASSUME CacheInv, NEW c, NEW t, NEW schema
  PROVE  LET made == [Plain(c, t) EXCEPT !.schema = schema]
         IN  /\ Lookup(structured, StructuredKey(Plain(c, t), schema), made) = made
             /\ made = StructuredOf(StructuredKey(Plain(c, t), schema))
<1> DEFINE made == [Plain(c, t) EXCEPT !.schema = schema]
           key == StructuredKey(Plain(c, t), schema)
<1>1. StructuredOf(key) = made
  BY DEF StructuredOf, StructuredKey, Plain
<1>2. \A e \in structured : e.key = key => e.llm = made
  BY <1>1 DEF CacheInv
<1>3. Lookup(structured, key, made) = made
  <2> HIDE DEF made, key
  <2> QED BY <1>2, LookupChoice
<1> QED BY <1>1, <1>3

(* So is a bound model: its model's name gives its provider away.          *)
LEMMA BoundFound ==
  ASSUME CacheInv, NEW c, NEW t \in Tiers, NEW lane
  PROVE  LET made == [Plain(c, t) EXCEPT !.tools = ToolsOf(lane)]
         IN  /\ Lookup(bound, BoundKey(lane, Plain(c, t)), made) = made
             /\ made = BoundOf(ProviderOf(c), BoundKey(lane, Plain(c, t)))
<1> DEFINE made == [Plain(c, t) EXCEPT !.tools = ToolsOf(lane)]
           key == BoundKey(lane, Plain(c, t))
<1>1. BoundOf(ProviderOf(c), key) = made
  BY DEF BoundOf, BoundKey, Plain
<1>2. key.model = ModelOf[ProviderOf(c)][t]
  BY DEF BoundKey, Plain
<1>3. ASSUME NEW e \in bound, e.key = key
      PROVE  e.llm = made
  <2>1. PICK p \in Supported, u \in Tiers :
            e.key.model = ModelOf[p][u] /\ e.llm = BoundOf(p, e.key)
    BY DEF CacheInv
  <2>2. ModelOf[p][u] = ModelOf[ProviderOf(c)][t]
    BY <1>2, <1>3, <2>1
  <2>3. p = ProviderOf(c)
    BY <2>2, ProviderType, ModelNamesProvider
  <2> QED BY <1>1, <1>3, <2>1, <2>3
<1>4. Lookup(bound, key, made) = made
  <2> HIDE DEF made, key
  <2> QED BY <1>3, LookupChoice
<1> QED BY <1>1, <1>4

(* What the factory returned is what its caller is served with.            *)
LEMMA ServedStep ==
  ASSUME TypeOK, NEW c \in Caller, NEW t \in Tiers, KeyOf(c) # None,
         NEW schema \in Schemas \cup {None}, NEW lane \in Lanes \cup {None},
         calls < MaxCalls,
         NEW llm,
         llm = [provider |-> ProviderOf(c), model |-> ModelOf[ProviderOf(c)][t],
                key |-> KeyOf(c), schema |-> schema,
                tools |-> IF lane = None THEN {} ELSE ToolsOf(lane)],
         Returned(c, t, schema, lane, llm)
  PROVE  /\ llm \in Llm
         /\ last' \in [asked : Question, got : Llm]
         /\ calls' \in 0..MaxCalls
         /\ CallerServed'
<1> DEFINE asked == [caller |-> c, tier |-> t, schema |-> schema, lane |-> lane]
<1>1. ToolsOf(lane) \subseteq Tools
  BY DEF TypeOK, ToolsOf
<1>2. llm \in Llm
  BY <1>1, ProviderType, KeyType, ModelType DEF Llm
<1>3. last' = [asked |-> asked, got |-> llm]
  BY DEF Returned
<1>4. asked \in Question
  BY DEF Question
<1>5. last' \in [asked : Question, got : Llm]
  BY <1>2, <1>3, <1>4
<1>6. calls' \in 0..MaxCalls
  BY MaxCallsAssumption DEF TypeOK, Returned
<1>7. ProviderOf(c)' = ProviderOf(c) /\ KeyOf(c)' = KeyOf(c) /\ loaded' = loaded
  BY DEF Returned, gateway, ProviderOf, KeyOf
<1>8. /\ last'.asked.caller = c /\ last'.asked.tier = t
      /\ last'.asked.schema = schema /\ last'.asked.lane = lane /\ last'.got = llm
  BY <1>3
<1>9. CallerServed'
  BY <1>7, <1>8 DEF CallerServed, ToolsOf
<1> QED BY <1>2, <1>5, <1>6, <1>9

-----------------------------------------------------------------------------
(* The inductive invariant.                                                *)

(* The start.                                                              *)
LEMMA InitInv == Init => IInv
<1> SUFFICES ASSUME Init PROVE IInv
  OBVIOUS
<1>1. TypeOK
  BY MaxCallsAssumption DEF Init, TypeOK
<1>2. StartInv
  BY DEF Init, StartInv
<1>3. CacheInv /\ CallerServed /\ FailureContained
  BY DEF Init, CacheInv, CallerServed, FailureContained
<1> QED BY <1>1, <1>2, <1>3 DEF IInv

(* While nothing has called the factory, its part of the invariant holds.  *)
LEMMA FactoryIdle ==
  ASSUME instances' = {}, structured' = {}, bound' = {}, last' = None
  PROVE  CacheInv' /\ CallerServed'
  BY DEF CacheInv, CallerServed

(* A server that answers.                                                  *)
LEMMA ConnectStep ==
  ASSUME IInv, NEW s \in Servers, Connect(s)
  PROVE  IInv'
<1> USE DEF IInv, Connect, factory
<1>1. TypeOK'
  BY OffersAssumption DEF TypeOK
<1>2. Servers \ (todo' \cup failed') = (Servers \ (todo \cup failed)) \cup {s}
  BY DEF StartInv
<1>3. StartInv'
  BY <1>2 DEF StartInv
<1>4. FailureContained'
  BY DEF FailureContained
<1> QED BY <1>1, <1>3, <1>4, FactoryIdle DEF StartInv

(* A server that fails.                                                    *)
LEMMA ConnectFailsStep ==
  ASSUME IInv, NEW s \in Servers, ConnectFails(s)
  PROVE  IInv'
<1> USE DEF IInv, ConnectFails, factory
<1>1. TypeOK'
  BY DEF TypeOK
<1>2. todo' \cup failed' = todo \cup failed
  OBVIOUS
<1>3. StartInv'
  BY <1>2 DEF StartInv
<1>4. FailureContained'
  BY DEF FailureContained
<1> QED BY <1>1, <1>3, <1>4, FactoryIdle DEF StartInv

(* No configuration: nothing is loaded.                                    *)
LEMMA NoConfigStep ==
  ASSUME IInv, NoConfig
  PROVE  IInv'
<1> USE DEF IInv, NoConfig, factory
<1>1. TypeOK'
  BY DEF TypeOK
<1>2. StartInv'
  BY DEF StartInv
<1>3. loaded' = {} /\ Servers \ failed' = {}
  BY DEF StartInv
<1>4. FailureContained'
  BY <1>3 DEF FailureContained
<1> QED BY <1>1, <1>2, <1>4, FactoryIdle DEF StartInv

(* The list is published, before anything was bound.                       *)
LEMMA ServeStep ==
  ASSUME IInv, Serve
  PROVE  IInv'
<1> USE DEF IInv, Serve, factory
<1>1. TypeOK'
  BY DEF TypeOK
<1>2. StartInv'
  BY DEF StartInv
<1>3. FailureContained'
  BY DEF FailureContained, StartInv
<1> QED BY <1>1, <1>2, <1>3, FactoryIdle DEF StartInv

(* A step that leaves the factory and the loaded tools alone.              *)
LEMMA FactoryUnchanged ==
  ASSUME IInv, UNCHANGED <<gateway, defaults, factory>>,
         stage' = stage \/ (stage = "serving" /\ stage' = "stopped")
  PROVE  IInv'
<1> USE DEF IInv, gateway, factory
<1>1. TypeOK'
  BY DEF TypeOK
<1>2. StartInv' /\ FailureContained'
  BY DEF StartInv, FailureContained
<1>3. CacheInv'
  BY DEF CacheInv, BoundOf, ToolsOf
<1>4. CallerServed'
  BY DEF CallerServed, ProviderOf, KeyOf
<1> QED BY <1>1, <1>2, <1>3, <1>4

(* A call of the factory is made while the process serves, and leaves the  *)
(* gateway alone.                                                          *)
LEMMA CallKeepsGateway ==
  ASSUME IInv, stage = "serving", UNCHANGED <<stage, gateway, defaults>>
  PROVE  /\ StartInv' /\ FailureContained'
         /\ stage' \in {"connecting", "serving", "stopped"}
         /\ todo' \subseteq Servers /\ failed' \subseteq Servers
         /\ gathered' \subseteq Tools /\ loaded' \subseteq Tools /\ node' \subseteq Tools
         /\ defaults' \in [Supported -> Keys \cup {None}]
  BY DEF IInv, TypeOK, StartInv, FailureContained, gateway

(* What a cache gains when what it looks up is what would be made.         *)
LEMMA CachingAdds ==
  ASSUME NEW cache, NEW key, NEW made, Lookup(cache, key, made) = made
  PROVE  Caching(cache, key, made) = cache \cup {[key |-> key, llm |-> made]}
  BY DEF Caching

(* An instance, and what it does to its cache.                             *)
LEMMA InstancesKept ==
  ASSUME TypeOK, CacheInv, NEW c \in Caller, NEW t \in Tiers, KeyOf(c) # None,
         instances' \in {instances,
           instances \cup {[key |-> InstanceKey(Plain(c, t)), llm |-> Plain(c, t)]}}
  PROVE  /\ instances' \subseteq
              [key : [provider : Supported, model : Models, key : Keys], llm : Llm]
         /\ \A e \in instances' : e.llm = InstanceOf(e.key)
<1>1. Plain(c, t) \in Llm
  BY PlainType
<1>2. InstanceKey(Plain(c, t)) \in [provider : Supported, model : Models, key : Keys]
  BY <1>1 DEF InstanceKey, Llm
<1>3. InstanceOf(InstanceKey(Plain(c, t))) = Plain(c, t)
  BY DEF InstanceOf, InstanceKey, Plain
<1>4. [key |-> InstanceKey(Plain(c, t)), llm |-> Plain(c, t)].llm =
        InstanceOf([key |-> InstanceKey(Plain(c, t)), llm |-> Plain(c, t)].key)
  BY <1>3
<1>5. \A e \in instances : e.llm = InstanceOf(e.key)
  BY DEF CacheInv
<1> HIDE DEF Plain
<1>6. \A e \in instances' : e.llm = InstanceOf(e.key)
  BY <1>4, <1>5
<1>7. instances' \subseteq
        [key : [provider : Supported, model : Models, key : Keys], llm : Llm]
  BY <1>1, <1>2 DEF TypeOK
<1> QED BY <1>6, <1>7

(* The other two caches, where a call leaves them alone.                   *)
LEMMA CachesKept ==
  ASSUME TypeOK, CacheInv, UNCHANGED loaded
  PROVE  /\ structured' = structured =>
              /\ structured' \subseteq
                   [key : [provider : Supported, model : Models, key : Keys,
                           schema : Schemas], llm : Llm]
              /\ \A e \in structured' : e.llm = StructuredOf(e.key)
         /\ bound' = bound =>
              /\ bound' \subseteq
                   [key : [lane : Lanes, model : Models, key : Keys], llm : Llm]
              /\ \A e \in bound' :
                   \E provider \in Supported :
                     /\ \E t \in Tiers : e.key.model = ModelOf[provider][t]
                     /\ e.llm = BoundOf(provider, e.key)'
  BY DEF TypeOK, CacheInv, BoundOf, ToolsOf

(* A plain instance.                                                       *)
LEMMA GetInstanceStep ==
  ASSUME IInv, NEW c \in Caller, NEW t \in Tiers, GetInstance(c, t)
  PROVE  IInv'
<1> DEFINE plain == Plain(c, t)
           key == InstanceKey(plain)
<1>1. Lookup(instances, key, plain) = plain
  BY InstanceFound DEF IInv
<1>2. /\ stage = "serving" /\ calls < MaxCalls /\ KeyOf(c) # None
      /\ instances' = Caching(instances, key, plain)
      /\ UNCHANGED <<structured, bound>>
      /\ Returned(c, t, None, None, plain)
  BY <1>1 DEF GetInstance, Callable, Ready
<1>3. UNCHANGED <<stage, gateway, defaults>> /\ UNCHANGED loaded
  BY <1>2 DEF Returned, gateway
<1>4. instances' = instances \cup {[key |-> key, llm |-> plain]}
  BY <1>1, <1>2, CachingAdds
<1>5. plain = [provider |-> ProviderOf(c), model |-> ModelOf[ProviderOf(c)][t],
               key |-> KeyOf(c), schema |-> None,
               tools |-> IF None = None THEN {} ELSE ToolsOf(None)]
  BY DEF Plain
<1> HIDE DEF plain
<1>6. /\ last' \in [asked : Question, got : Llm] /\ calls' \in 0..MaxCalls /\ CallerServed'
  BY <1>2, <1>5, ServedStep DEF IInv
<1> USE DEF plain
<1>7. TypeOK'
  BY <1>2, <1>3, <1>4, <1>6, CallKeepsGateway, InstancesKept, CachesKept DEF IInv, TypeOK
<1>8. CacheInv'
  BY <1>2, <1>3, <1>4, InstancesKept, CachesKept DEF IInv, CacheInv
<1> QED BY <1>2, <1>3, <1>6, <1>7, <1>8, CallKeepsGateway DEF IInv

(* A structured model.                                                     *)
LEMMA GetStructuredStep ==
  ASSUME IInv, NEW c \in Caller, NEW t \in Tiers, NEW schema \in Schemas,
         GetStructured(c, t, schema)
  PROVE  IInv'
<1> DEFINE plain == Plain(c, t)
           made == [plain EXCEPT !.schema = schema]
           key == StructuredKey(plain, schema)
           entry == [key |-> key, llm |-> made]
<1>1. Lookup(instances, InstanceKey(plain), plain) = plain
  BY InstanceFound DEF IInv
<1>2. Lookup(structured, key, made) = made /\ made = StructuredOf(key)
  BY StructuredFound DEF IInv
<1>3. /\ stage = "serving" /\ calls < MaxCalls /\ KeyOf(c) # None
      /\ instances' \in {instances, Caching(instances, InstanceKey(plain), plain)}
      /\ structured' = Caching(structured, key, made)
      /\ UNCHANGED bound
      /\ Returned(c, t, schema, None, made)
  BY <1>1, <1>2 DEF GetStructured, Callable, Ready
<1>4. UNCHANGED <<stage, gateway, defaults>> /\ UNCHANGED loaded
  BY <1>3 DEF Returned, gateway
<1>5. /\ instances' \in
            {instances, instances \cup {[key |-> InstanceKey(plain), llm |-> plain]}}
      /\ structured' = structured \cup {entry}
  BY <1>1, <1>2, <1>3, CachingAdds
<1>6. made = [provider |-> ProviderOf(c), model |-> ModelOf[ProviderOf(c)][t],
              key |-> KeyOf(c), schema |-> schema,
              tools |-> IF None = None THEN {} ELSE ToolsOf(None)]
  BY DEF Plain
<1>7. /\ made \in Llm /\ last' \in [asked : Question, got : Llm]
      /\ calls' \in 0..MaxCalls /\ CallerServed'
  <2> HIDE DEF made
  <2> QED BY <1>3, <1>6, ServedStep DEF IInv
<1>8. key \in [provider : Supported, model : Models, key : Keys, schema : Schemas]
  BY <1>3, PlainType DEF IInv, StructuredKey, Llm
<1>9. /\ entry \in [key : [provider : Supported, model : Models, key : Keys,
                           schema : Schemas], llm : Llm]
      /\ entry.llm = StructuredOf(entry.key)
  BY <1>2, <1>7, <1>8
<1>10. /\ structured' \subseteq
             [key : [provider : Supported, model : Models, key : Keys,
                     schema : Schemas], llm : Llm]
       /\ \A e \in structured' : e.llm = StructuredOf(e.key)
  <2> HIDE DEF entry
  <2> QED BY <1>5, <1>9 DEF IInv, TypeOK, CacheInv
<1>11. TypeOK'
  BY <1>3, <1>4, <1>5, <1>7, <1>10, CallKeepsGateway, InstancesKept, CachesKept
  DEF IInv, TypeOK
<1>12. CacheInv'
  BY <1>3, <1>4, <1>5, <1>10, InstancesKept, CachesKept DEF IInv, CacheInv
<1> QED BY <1>3, <1>4, <1>7, <1>11, <1>12, CallKeepsGateway DEF IInv

(* A bound model.                                                          *)
LEMMA GetBoundStep ==
  ASSUME IInv, NEW c \in Caller, NEW t \in Tiers, NEW lane \in Lanes,
         GetBound(c, t, lane)
  PROVE  IInv'
<1> DEFINE plain == Plain(c, t)
           made == [plain EXCEPT !.tools = ToolsOf(lane)]
           key == BoundKey(lane, plain)
           entry == [key |-> key, llm |-> made]
<1>1. Lookup(instances, InstanceKey(plain), plain) = plain
  BY InstanceFound DEF IInv
<1>2. Lookup(bound, key, made) = made /\ made = BoundOf(ProviderOf(c), key)
  BY BoundFound DEF IInv
<1>3. /\ stage = "serving" /\ calls < MaxCalls /\ KeyOf(c) # None
      /\ instances' = Caching(instances, InstanceKey(plain), plain)
      /\ bound' = Caching(bound, key, made)
      /\ UNCHANGED structured
      /\ Returned(c, t, None, lane, made)
  BY <1>1, <1>2 DEF GetBound, Callable, Ready
<1>4. UNCHANGED <<stage, gateway, defaults>> /\ UNCHANGED loaded
  BY <1>3 DEF Returned, gateway
<1>5. /\ instances' = instances \cup {[key |-> InstanceKey(plain), llm |-> plain]}
      /\ bound' = bound \cup {entry}
  BY <1>1, <1>2, <1>3, CachingAdds
<1>6. lane # None
  BY NoneAssumption
<1>7. made = [provider |-> ProviderOf(c), model |-> ModelOf[ProviderOf(c)][t],
              key |-> KeyOf(c), schema |-> None,
              tools |-> IF lane = None THEN {} ELSE ToolsOf(lane)]
  BY <1>6 DEF Plain
<1>8. /\ made \in Llm /\ last' \in [asked : Question, got : Llm]
      /\ calls' \in 0..MaxCalls /\ CallerServed'
  <2> HIDE DEF made
  <2> QED BY <1>3, <1>7, ServedStep DEF IInv
<1>9. key \in [lane : Lanes, model : Models, key : Keys]
  BY <1>3, PlainType DEF IInv, BoundKey, Llm
<1>10. /\ entry \in [key : [lane : Lanes, model : Models, key : Keys], llm : Llm]
       /\ entry.key.model = ModelOf[ProviderOf(c)][t]
       /\ entry.llm = BoundOf(ProviderOf(c), entry.key)
  BY <1>2, <1>8, <1>9 DEF BoundKey, Plain
<1>11. \A p, k : BoundOf(p, k)' = BoundOf(p, k)
  BY <1>4 DEF BoundOf, ToolsOf
<1>12. /\ bound' \subseteq [key : [lane : Lanes, model : Models, key : Keys], llm : Llm]
       /\ \A e \in bound' :
            \E provider \in Supported :
              /\ \E u \in Tiers : e.key.model = ModelOf[provider][u]
              /\ e.llm = BoundOf(provider, e.key)'
  <2> HIDE DEF entry
  <2> QED BY <1>5, <1>10, <1>11, ProviderType DEF IInv, TypeOK, CacheInv
<1>13. TypeOK'
  BY <1>3, <1>4, <1>5, <1>8, <1>12, CallKeepsGateway, InstancesKept, CachesKept
  DEF IInv, TypeOK
<1>14. CacheInv'
  BY <1>3, <1>4, <1>5, <1>12, InstancesKept, CachesKept DEF IInv, CacheInv
<1> QED BY <1>3, <1>4, <1>8, <1>13, <1>14, CallKeepsGateway DEF IInv

(* Every step.                                                             *)
LEMMA NextInv == IInv /\ [Next]_vars => IInv'
<1> SUFFICES ASSUME IInv, [Next]_vars PROVE IInv'
  OBVIOUS
<1>1. ASSUME NEW s \in Servers, Connect(s) PROVE IInv'
  BY <1>1, ConnectStep
<1>2. ASSUME NEW s \in Servers, ConnectFails(s) PROVE IInv'
  BY <1>2, ConnectFailsStep
<1>3. CASE NoConfig
  BY <1>3, NoConfigStep
<1>4. CASE Serve
  BY <1>4, ServeStep
<1>5. CASE Shutdown
  BY <1>5, FactoryUnchanged DEF Shutdown
<1>6. ASSUME NEW c \in Caller, NEW t \in Tiers, GetInstance(c, t) PROVE IInv'
  BY <1>6, GetInstanceStep
<1>7. ASSUME NEW c \in Caller, NEW t \in Tiers, NEW schema \in Schemas,
             GetStructured(c, t, schema)
      PROVE  IInv'
  BY <1>7, GetStructuredStep
<1>8. ASSUME NEW c \in Caller, NEW t \in Tiers, NEW lane \in Lanes, GetBound(c, t, lane)
      PROVE  IInv'
  BY <1>8, GetBoundStep
<1>9. CASE UNCHANGED vars
  <2>1. UNCHANGED <<gateway, defaults, factory>>
    BY <1>9 DEF vars
  <2>2. stage' = stage
    BY <1>9 DEF vars
  <2> QED BY <2>1, <2>2, FactoryUnchanged
<1>10. CASE Next
  <2>1. CASE \E s \in Servers : Connect(s) \/ ConnectFails(s)
    BY <2>1, <1>1, <1>2
  <2>2. CASE \E c \in Caller, t \in Tiers :
               \/ GetInstance(c, t)
               \/ \E schema \in Schemas : GetStructured(c, t, schema)
               \/ \E lane \in Lanes : GetBound(c, t, lane)
    BY <2>2, <1>6, <1>7, <1>8
  <2> QED BY <1>10, <2>1, <2>2, <1>3, <1>4, <1>5 DEF Next
<1> QED BY <1>9, <1>10

(* The invariant holds throughout.                                         *)
LEMMA Invariance == Spec => []IInv
<1> QED BY InitInv, NextInv, PTL DEF Spec

-----------------------------------------------------------------------------
(* Theorems.                                                               *)

(* Every variable of a serving process keeps its type.                     *)
THEOREM GatewayTypeCorrect == Spec => []TypeOK
<1>1. IInv => TypeOK
  BY DEF IInv
<1> QED BY <1>1, Invariance, PTL

(* However many tenants share the caches of models, each is served on its  *)
(* own key and provider, with the tier, schema and tools it asked for.     *)
THEOREM CallerIsServed == Spec => []CallerServed
<1>1. IInv => CallerServed
  BY DEF IInv
<1> QED BY <1>1, Invariance, PTL

(* No bound model carries the tools of an earlier list.                    *)
THEOREM BindingsStayCurrent == Spec => []BindingsCurrent
<1>1. IInv => BindingsCurrent
  <2> SUFFICES ASSUME IInv, NEW e \in bound
               PROVE  e.llm.tools = Registry[e.key.lane] \cap loaded
    BY DEF BindingsCurrent
  <2>1. PICK provider \in Supported : e.llm = BoundOf(provider, e.key)
    BY DEF IInv, CacheInv
  <2> QED BY <2>1 DEF BoundOf, ToolsOf
<1> QED BY <1>1, Invariance, PTL

(* A server that fails while the process starts costs its own tools only.  *)
THEOREM FailuresContained == Spec => []FailureContained
<1>1. IInv => FailureContained
  BY DEF IInv
<1> QED BY <1>1, Invariance, PTL
=============================================================================
