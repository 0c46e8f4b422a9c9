--------------------------- MODULE ChatStreamProofs ---------------------------
(***************************************************************************)
(* Theorems about ChatStream, for every finite set of requests and every   *)
(* set of users, prompts and similarities.                                 *)
(***************************************************************************)
EXTENDS ChatStream, FiniteSetTheorems, TLAPS

Early == {"idle", "lookup", "config", "opened"}

(* Nothing more will be streamed to the request's client.                  *)
Settled(r) == at[r] \notin Early \cup {"streaming"}

(* What holds of one request, whatever the others do.                      *)
LocalInv(r) ==
  /\ text[r] = sent[r]
  /\ at[r] \in Early => text[r] = 0
  /\ ~Settled(r) => receipt[r] = None /\ ~ended[r] /\ r \notin published
  /\ receipt[r] # None => receipt[r] = sent[r] /\ sent[r] > 0
  /\ at[r] \in {"ended", "receipt"} => receipt[r] = None
  /\ at[r] = "caching" /\ endpoint[r] = "grpc" => receipt[r] = None
  /\ at[r] \in {"receipt", "caching"} => text[r] > 0
  /\ at[r] = "ended" => endpoint[r] = "grpc"
  /\ at[r] \in {"opened", "background"} => endpoint[r] = "sse"
  /\ endpoint[r] = "sse" /\ at[r] \in {"receipt", "closing", "caching", "background"} =>
       ended[r]
  /\ served[r] # None => at[r] = "done" /\ sent[r] = 0 /\ receipt[r] = None /\ ~ended[r]
  /\ error[r] # None <=> at[r] = "failed"
  /\ r \in published => Remembered(r)
  /\ at[r] \in Closed => (r \in published <=> Remembered(r) /\ ~TaskLost(r))
  /\ r \in published => \/ at[r] \in Closed
                        \/ endpoint[r] = "grpc" /\ at[r] \in {"caching", "receipt", "closing"}
  /\ endpoint[r] = "grpc" /\ at[r] \in {"caching", "receipt", "closing"} /\ Remembered(r) =>
       r \in published
  /\ r \in late => at[r] = "failed" /\ text[r] > 0 /\ (endpoint[r] = "sse" => ended[r])

(* A reply is the text of a request to which nothing is streamed any more. *)
Genuine(reply) == Settled(reply.by) /\ reply.chunks = sent[reply.by]

CacheInv ==
  \A p \in Prompts : cache[p] # None =>
    /\ Genuine(cache[p]) /\ prompt[cache[p].by] = p
    /\ endpoint[cache[p].by] = "sse" => cache[p].whole

ServedInv ==
  \A r \in Requests : served[r] # None =>
    /\ Genuine(served[r]) /\ served[r].by # r
    /\ prompt[served[r].by] \in Similar[prompt[r]]

IInv ==
  /\ TypeOK /\ GaugesAccount /\ CacheInv /\ ServedInv
  /\ \A r \in Requests : LocalInv(r)

-----------------------------------------------------------------------------
(* The gauges.                                                             *)

Bit(b) == IF b THEN 1 ELSE 0

InGauge(e, r) == endpoint[r] = e /\ (at[r] = LastUncovered[e] \/ Covered(r) \/ Leaked(r))

InClosed(r) ==
  /\ endpoint[r] = "sse" /\ ~Leaked(r) /\ served[r] = None
  /\ \/ at[r] \in {"caching", "background", "done"}
     \/ error[r] # None /\ error[r].point \notin {"lookup", "config"}

(* Two sets of requests that differ in one request at most.                *)
LEMMA OneCounts ==
  ASSUME NEW S \in SUBSET Requests, NEW T \in SUBSET Requests, NEW r \in Requests,
         \A q \in Requests \ {r} : q \in T <=> q \in S
  PROVE  /\ Cardinality(T) = Cardinality(S) + Bit(r \in T) - Bit(r \in S)
         /\ Cardinality(T) \in Nat /\ Cardinality(S) \in Nat
<1>1. IsFiniteSet(S) /\ IsFiniteSet(T)
  BY RequestsAssumption, FS_Subset
<1>2. Cardinality(T) \in Nat /\ Cardinality(S) \in Nat
  BY <1>1, FS_CardinalityType
<1>3. CASE r \in S <=> r \in T
  <2>1. S = T
    BY <1>3
  <2> QED BY <1>2, <1>3, <2>1 DEF Bit
<1>4. CASE r \in T /\ r \notin S
  <2>1. T = S \cup {r}
    BY <1>4
  <2>2. Cardinality(T) = Cardinality(S) + 1
    BY <1>1, <1>4, <2>1, FS_AddElement
  <2> QED BY <1>2, <1>4, <2>2 DEF Bit
<1>5. CASE r \notin T /\ r \in S
  <2>1. S = T \cup {r}
    BY <1>5
  <2>2. Cardinality(S) = Cardinality(T) + 1
    BY <1>1, <1>5, <2>1, FS_AddElement
  <2> QED BY <1>2, <1>5, <2>2 DEF Bit
<1> QED BY <1>2, <1>3, <1>4, <1>5

(* What a step of one request leaves of the others.                        *)
Frame(r) ==
  /\ UNCHANGED asked
  /\ \A q \in Requests \ {r} :
       /\ at'[q] = at[q] /\ text'[q] = text[q] /\ sent'[q] = sent[q]
       /\ ended'[q] = ended[q] /\ receipt'[q] = receipt[q]
       /\ served'[q] = served[q] /\ error'[q] = error[q]
       /\ q \in published' <=> q \in published
       /\ q \in late' <=> q \in late

(* The gauges move as the one request that takes the step does.            *)
LEMMA GaugeStep ==
  ASSUME TypeOK, GaugesAccount, NEW r \in Requests, Frame(r),
         grpc_streams' = grpc_streams + Bit(InGauge("grpc", r)') - Bit(InGauge("grpc", r)),
         sse_streams' = sse_streams + Bit(InGauge("sse", r)') - Bit(InGauge("sse", r)),
         completed' \in Nat, abrupt' \in Nat,
         completed' + abrupt' =
           completed + abrupt + Bit(InClosed(r)') - Bit(InClosed(r))
  PROVE  GaugesAccount' /\ {grpc_streams', sse_streams', completed', abrupt'} \subseteq Nat
<1> DEFINE closed == {q \in Requests : InClosed(q)}
<1>2. \A e : \A q \in Requests \ {r} : InGauge(e, q)' <=> InGauge(e, q)
  BY DEF Frame, InGauge, Covered, Leaked, LastUncovered, asked
<1>3. \A q \in Requests \ {r} : InClosed(q)' <=> InClosed(q)
  BY DEF Frame, InClosed, Leaked, LastUncovered, asked
<1>4. \A e : /\ Counted(e) = {q \in Requests : InGauge(e, q)}
             /\ Counted(e)' = {q \in Requests : InGauge(e, q)'}
  BY DEF Counted, InGauge
<1>5. ASSUME NEW e
      PROVE  /\ Cardinality(Counted(e)') = Cardinality(Counted(e)) + Bit(InGauge(e, r)')
                                             - Bit(InGauge(e, r))
             /\ Cardinality(Counted(e)') \in Nat /\ Cardinality(Counted(e)) \in Nat
  <2> DEFINE S == Counted(e)
             T == Counted(e)'
  <2>1. /\ S \in SUBSET Requests /\ T \in SUBSET Requests
        /\ \A q \in Requests \ {r} : q \in T <=> q \in S
        /\ r \in T <=> InGauge(e, r)'
        /\ r \in S <=> InGauge(e, r)
    BY <1>2, <1>4
  <2> HIDE DEF S, T
  <2>2. /\ Cardinality(T) = Cardinality(S) + Bit(r \in T) - Bit(r \in S)
        /\ Cardinality(T) \in Nat /\ Cardinality(S) \in Nat
    BY <2>1, OneCounts
  <2> QED BY <2>1, <2>2 DEF S, T, Bit
<1>6. /\ Cardinality(closed') = Cardinality(closed) + Bit(InClosed(r)') - Bit(InClosed(r))
      /\ Cardinality(closed') \in Nat /\ Cardinality(closed) \in Nat
  <2> DEFINE T == closed'
  <2>1. /\ closed \in SUBSET Requests /\ T \in SUBSET Requests
        /\ \A q \in Requests \ {r} : q \in T <=> q \in closed
        /\ r \in T <=> InClosed(r)'
        /\ r \in closed <=> InClosed(r)
    BY <1>3
  <2> HIDE DEF T, closed
  <2>2. /\ Cardinality(T) = Cardinality(closed) + Bit(r \in T) - Bit(r \in closed)
        /\ Cardinality(T) \in Nat /\ Cardinality(closed) \in Nat
    BY <2>1, OneCounts
  <2> QED BY <2>1, <2>2 DEF T, Bit
<1>7. /\ grpc_streams = Cardinality(Counted("grpc")) /\ sse_streams = Cardinality(Counted("sse"))
      /\ completed + abrupt = Cardinality(closed)
  BY DEF GaugesAccount, InClosed
<1>8. /\ grpc_streams' = Cardinality(Counted("grpc")')
      /\ sse_streams' = Cardinality(Counted("sse")')
      /\ completed' + abrupt' = Cardinality(closed')
  BY <1>5, <1>6, <1>7
<1>9. GaugesAccount'
  BY <1>8 DEF GaugesAccount, InClosed
<1> QED BY <1>5, <1>8, <1>9

(* A step of one request that leaves the metrics, and its place in them.   *)
LEMMA QuietStep ==
  ASSUME TypeOK, GaugesAccount, NEW r \in Requests, Frame(r), UNCHANGED metrics,
         InGauge("grpc", r)' <=> InGauge("grpc", r),
         InGauge("sse", r)' <=> InGauge("sse", r),
         InClosed(r)' <=> InClosed(r)
  PROVE  GaugesAccount' /\ {grpc_streams', sse_streams', completed', abrupt'} \subseteq Nat
<1>1. /\ grpc_streams \in Nat /\ sse_streams \in Nat /\ completed \in Nat /\ abrupt \in Nat
      /\ grpc_streams' = grpc_streams /\ sse_streams' = sse_streams
      /\ completed' = completed /\ abrupt' = abrupt
  BY DEF TypeOK, metrics
<1>2. /\ Bit(InGauge("grpc", r)') - Bit(InGauge("grpc", r)) = 0
      /\ Bit(InGauge("sse", r)') - Bit(InGauge("sse", r)) = 0
      /\ Bit(InClosed(r)') - Bit(InClosed(r)) = 0
  BY DEF Bit
<1>3. /\ grpc_streams' = grpc_streams + Bit(InGauge("grpc", r)') - Bit(InGauge("grpc", r))
      /\ sse_streams' = sse_streams + Bit(InGauge("sse", r)') - Bit(InGauge("sse", r))
      /\ completed' + abrupt' =
           completed + abrupt + Bit(InClosed(r)') - Bit(InClosed(r))
  BY <1>1, <1>2 DEF Bit
<1> QED BY <1>1, <1>3, GaugeStep

-----------------------------------------------------------------------------
(* What a step of one request must show for the invariant to hold after it.*)

LEMMA Compose ==
  ASSUME IInv, NEW r \in Requests, Frame(r), TypeOK', GaugesAccount', LocalInv(r)',
         Settled(r) => Settled(r)' /\ sent'[r] = sent[r],
         \A p \in Prompts :
           \/ cache'[p] = cache[p]
           \/ /\ Genuine(cache[p])' /\ cache'[p].by = r /\ prompt[r] = p
              /\ endpoint[r] = "sse" => cache'[p].whole,
         \/ served'[r] = served[r]
         \/ /\ at[r] = "lookup"
            /\ \E p \in Similar[prompt[r]] : cache[p] # None /\ served'[r] = cache[p]
  PROVE  IInv'
<1> USE DEF IInv
<1>1. UNCHANGED <<endpoint, user, prompt>>
  BY DEF Frame, asked
<1>2. \A q \in Requests \ {r} : LocalInv(q)'
  BY <1>1 DEF Frame, LocalInv, Settled, Remembered, TaskLost, BeforePublishing, Closed
<1>3. \A q \in Requests : Settled(q) => Settled(q)' /\ sent'[q] = sent[q]
  BY DEF Frame, Settled
<1>4. \A x \in Reply : Genuine(x) => Genuine(x)'
  BY <1>3 DEF Genuine, Reply
<1>5. CacheInv'
  <2> SUFFICES ASSUME NEW p \in Prompts, cache'[p] # None
               PROVE  /\ Genuine(cache[p])' /\ prompt[cache'[p].by] = p
                      /\ endpoint[cache'[p].by] = "sse" => cache'[p].whole
    BY <1>1 DEF CacheInv
  <2>1. CASE cache'[p] = cache[p]
    <3>1. cache[p] \in Reply
      BY <2>1 DEF TypeOK
    <3>2. Genuine(cache[p])
      BY <2>1 DEF CacheInv
    <3>3. Genuine(cache[p])'
      BY <1>3, <2>1, <3>1, <3>2 DEF Genuine, Reply
    <3> QED BY <2>1, <3>3 DEF CacheInv
  <2> QED BY <2>1
<1>6. ServedInv'
  <2> SUFFICES ASSUME NEW q \in Requests, served'[q] # None
               PROVE  /\ Genuine(served[q])' /\ served'[q].by # q
                      /\ prompt[served'[q].by] \in Similar[prompt[q]]
    BY <1>1 DEF ServedInv
  <2>1. CASE served'[q] = served[q]
    <3>1. served[q] \in Reply /\ Genuine(served[q])
      BY <2>1 DEF TypeOK, ServedInv
    <3>2. Genuine(served[q])'
      BY <1>3, <2>1, <3>1 DEF Genuine, Reply
    <3> QED BY <2>1, <3>2 DEF ServedInv
  <2>2. CASE served'[q] # served[q]
    <3>1. q = r /\ at[r] = "lookup"
      BY <2>2 DEF Frame
    <3>2. PICK p \in Similar[prompt[r]] : cache[p] # None /\ served'[r] = cache[p]
      BY <2>2, <3>1
    <3>3. p \in Prompts
      BY SimilarAssumption DEF TypeOK
    <3>4. cache[p] \in Reply /\ Genuine(cache[p]) /\ prompt[cache[p].by] = p
      BY <3>2, <3>3 DEF TypeOK, CacheInv
    <3>5. cache[p].by # r
      BY <3>1, <3>4 DEF Genuine, Settled, Early
    <3>6. Genuine(served[q])'
      BY <1>3, <3>1, <3>2, <3>4 DEF Genuine, Reply
    <3> QED BY <3>1, <3>2, <3>4, <3>5, <3>6
  <2> QED BY <2>1, <2>2
<1> QED BY <1>2, <1>5, <1>6

(* A step that neither stores a reply nor serves one.                      *)
LEMMA ComposeQuiet ==
  ASSUME IInv, NEW r \in Requests, Frame(r), TypeOK', GaugesAccount', LocalInv(r)',
         Settled(r) => Settled(r)' /\ sent'[r] = sent[r],
         UNCHANGED cache, served'[r] = served[r]
  PROVE  IInv'
  BY Compose

-----------------------------------------------------------------------------
(* The steps of a request that leave the metrics alone.                    *)

(* What a step that only moves the handler needs of its source and target. *)
LEMMA MoveStep ==
  ASSUME IInv, NEW r \in Requests, NEW x \in Points, at' = [at EXCEPT ![r] = x],
         UNCHANGED <<asked, run, output, error, gone, shared, metrics>>,
         LocalInv(r)', Settled(r) => Settled(r)',
         InGauge("grpc", r)' <=> InGauge("grpc", r),
         InGauge("sse", r)' <=> InGauge("sse", r),
         InClosed(r)' <=> InClosed(r)
  PROVE  IInv'
<1> USE DEF IInv, run, output, shared
<1>1. Frame(r)
  BY DEF Frame, TypeOK
<1>2. GaugesAccount' /\ TypeOK'
  BY <1>1, QuietStep DEF TypeOK, asked
<1> QED BY <1>1, <1>2, ComposeQuiet

(* A handler begins, a generator is opened, a dropped run is left.         *)
LEMMA PlainMoves ==
  ASSUME IInv, NEW r \in Requests, Arrive(r) \/ OpenSse(r) \/ Dropped(r)
  PROVE  IInv'
<1> USE DEF Goto
<1>0. UNCHANGED <<asked, run, output, error, gone, shared, metrics>>
  BY DEF Arrive, OpenSse, Dropped
<1>1. CASE Arrive(r)
  <2>1. at[r] = "idle" /\ at' = [at EXCEPT ![r] = "lookup"] /\ at'[r] = "lookup"
    BY <1>1 DEF Arrive, IInv, TypeOK
  <2>2. LocalInv(r)'
    BY <1>0, <2>1 DEF IInv, LocalInv, Settled, Early, Remembered,
                      TaskLost, BeforePublishing, Closed, asked, run, output, shared
  <2>3. /\ InGauge("grpc", r)' <=> InGauge("grpc", r)
        /\ InGauge("sse", r)' <=> InGauge("sse", r)
        /\ InClosed(r)' <=> InClosed(r)
    BY <1>0, <2>1
       DEF IInv, LocalInv, InGauge, InClosed, Covered, Leaked, LastUncovered, asked, output
  <2> QED BY <1>0, <2>1, <2>2, <2>3, MoveStep DEF Settled, Early, Points
<1>2. CASE OpenSse(r)
  <2>1. at[r] = "opened" /\ at' = [at EXCEPT ![r] = "streaming"] /\ at'[r] = "streaming"
    BY <1>2 DEF OpenSse, IInv, TypeOK
  <2>2. LocalInv(r)'
    BY <1>0, <2>1 DEF IInv, LocalInv, Settled, Early, Remembered,
                      TaskLost, BeforePublishing, Closed, asked, run, output, shared
  <2>3. /\ InGauge("grpc", r)' <=> InGauge("grpc", r)
        /\ InGauge("sse", r)' <=> InGauge("sse", r)
        /\ InClosed(r)' <=> InClosed(r)
    BY <1>0, <2>1
       DEF IInv, LocalInv, InGauge, InClosed, Covered, Leaked, LastUncovered, asked, output
  <2> QED BY <1>0, <2>1, <2>2, <2>3, MoveStep DEF Settled, Early, Points
<1>3. CASE Dropped(r)
  <2>1. at[r] = "streaming" /\ at' = [at EXCEPT ![r] = "ended"] /\ at'[r] = "ended"
        /\ endpoint[r] = "grpc"
    BY <1>3 DEF Dropped, IInv, TypeOK
  <2>2. LocalInv(r)'
    BY <1>0, <2>1 DEF IInv, LocalInv, Settled, Early, Remembered,
                      TaskLost, BeforePublishing, Closed, asked, run, output, shared
  <2>3. /\ InGauge("grpc", r)' <=> InGauge("grpc", r)
        /\ InGauge("sse", r)' <=> InGauge("sse", r)
        /\ InClosed(r)' <=> InClosed(r)
    BY <1>0, <2>1
       DEF IInv, LocalInv, InGauge, InClosed, Covered, Leaked, LastUncovered, asked, output
  <2> QED BY <1>0, <2>1, <2>2, <2>3, MoveStep DEF Settled, Early, Points
<1> QED BY <1>1, <1>2, <1>3

(* A cached reply is served.                                               *)
LEMMA HitStep ==
  ASSUME IInv, NEW r \in Requests, LookupHit(r)
  PROVE  IInv'
<1> USE DEF IInv
<1>1. PICK q \in Hits(prompt[r]) : served' = [served EXCEPT ![r] = cache[q]]
  BY DEF LookupHit
<1>2. /\ at[r] = "lookup" /\ at' = [at EXCEPT ![r] = "done"]
      /\ UNCHANGED <<asked, run, sent, receipt, error, gone, shared, metrics>>
  BY DEF LookupHit, Goto
<1>3. q \in Similar[prompt[r]] /\ q \in Prompts /\ cache[q] # None /\ cache[q] \in Reply
  BY SimilarAssumption DEF Hits, TypeOK
<1>4. at'[r] = "done" /\ served'[r] = cache[q]
  BY <1>1, <1>2 DEF TypeOK
<1> USE DEF run, shared
<1>5. Frame(r)
  BY <1>1, <1>2 DEF Frame, TypeOK
<1>6. /\ InGauge("grpc", r)' <=> InGauge("grpc", r)
      /\ InGauge("sse", r)' <=> InGauge("sse", r)
      /\ InClosed(r)' <=> InClosed(r)
  BY <1>2, <1>3, <1>4
     DEF LocalInv, InGauge, InClosed, Covered, Leaked, LastUncovered, asked
<1>7. GaugesAccount' /\ {grpc_streams', sse_streams', completed', abrupt'} \subseteq Nat
  BY <1>2, <1>5, <1>6, QuietStep
<1>8. TypeOK'
  BY <1>1, <1>2, <1>3, <1>7 DEF TypeOK, asked, Points, Closed
<1>9. LocalInv(r)'
  BY <1>2, <1>4 DEF LocalInv, Settled, Early, Remembered,
                    TaskLost, BeforePublishing, Closed, asked
<1> QED BY <1>2, <1>3, <1>4, <1>5, <1>7, <1>8, <1>9, Compose DEF Settled, Early

(* A gRPC request without a match is counted before its configuration is   *)
(* read.                                                                   *)
LEMMA MissStep ==
  ASSUME IInv, NEW r \in Requests, LookupMiss(r)
  PROVE  IInv'
<1> USE DEF IInv
<1>1. /\ at[r] = "lookup" /\ at' = [at EXCEPT ![r] = "config"] /\ at'[r] = "config"
      /\ grpc_streams' = IF endpoint[r] = "grpc" THEN grpc_streams + 1 ELSE grpc_streams
      /\ UNCHANGED <<asked, run, output, error, gone, shared, sse_streams, completed, abrupt>>
  BY DEF LookupMiss, Goto, TypeOK
<1> USE DEF run, output, shared
<1>2. Frame(r)
  BY <1>1 DEF Frame, TypeOK
<1>3. /\ InGauge("grpc", r)' <=> endpoint[r] = "grpc"
      /\ ~InGauge("grpc", r) /\ ~InGauge("sse", r) /\ ~InGauge("sse", r)'
      /\ InClosed(r)' <=> InClosed(r)
  BY <1>1 DEF LocalInv, InGauge, InClosed, Covered, Leaked, LastUncovered, asked
<1>4. grpc_streams \in Nat /\ sse_streams \in Nat /\ completed \in Nat /\ abrupt \in Nat
  BY DEF TypeOK
<1>5. GaugesAccount' /\ {grpc_streams', sse_streams', completed', abrupt'} \subseteq Nat
  <2>1. /\ grpc_streams' = grpc_streams + Bit(InGauge("grpc", r)') - Bit(InGauge("grpc", r))
        /\ sse_streams' = sse_streams + Bit(InGauge("sse", r)') - Bit(InGauge("sse", r))
        /\ completed' + abrupt' =
             completed + abrupt + Bit(InClosed(r)') - Bit(InClosed(r))
    BY <1>1, <1>3, <1>4 DEF Bit
  <2> QED BY <1>1, <1>2, <1>4, <2>1, GaugeStep
<1>6. TypeOK'
  BY <1>1, <1>5 DEF TypeOK, asked, Points
<1>7. LocalInv(r)'
  BY <1>1 DEF LocalInv, Settled, Early, Remembered,
              TaskLost, BeforePublishing, Closed, asked
<1> QED BY <1>1, <1>2, <1>5, <1>6, <1>7, ComposeQuiet DEF Settled, Early

(* Whatever raises, and wherever: the finally block runs where it covers.  *)
LEMMA RaiseStep ==
  ASSUME IInv, NEW r \in Requests, NEW why \in Failures, at[r] \notin Closed \cup {"idle"},
         Raise(r, why)
  PROVE  IInv'
<1> USE DEF IInv
<1>1. /\ at' = [at EXCEPT ![r] = "failed"] /\ at'[r] = "failed" /\ at[r] \in Points
      /\ error' = [error EXCEPT ![r] = [why |-> why, point |-> at[r]]]
      /\ error'[r] = [why |-> why, point |-> at[r]]
      /\ late' = IF at[r] = "caching" THEN late \cup {r} ELSE late
      /\ UNCHANGED <<asked, run, output, gone, user_config, collection, cache, published>>
  BY DEF Raise, TypeOK
<1>2. error[r] = None /\ served[r] = None
  BY DEF LocalInv, Closed
<1>3. error'[r].point = at[r]
  BY <1>1
<1>4. error'[r] \in Failure /\ error'[r] # None
  BY <1>1, NoneAssumption DEF Failure
<1> USE DEF run, output, shared
<1>5. Frame(r)
  BY <1>1 DEF Frame, TypeOK
<1>6. /\ InGauge("grpc", r)' <=> endpoint[r] = "grpc" /\ at[r] = "config"
      /\ InGauge("sse", r)' <=> endpoint[r] = "sse" /\ at[r] = "opened"
      /\ InClosed(r)' <=> /\ endpoint[r] = "sse"
                          /\ at[r] \notin {"opened", "lookup", "config"}
  BY <1>1, <1>2, <1>3, <1>4
     DEF InGauge, InClosed, Covered, Leaked, LastUncovered, asked
<1>7. /\ InGauge("grpc", r) <=> endpoint[r] = "grpc" /\ (at[r] = "config" \/ Covered(r))
      /\ InGauge("sse", r) <=> endpoint[r] = "sse" /\ (at[r] = "opened" \/ Covered(r))
      /\ InClosed(r) <=> endpoint[r] = "sse" /\ at[r] \in {"caching", "background"}
  BY <1>2 DEF InGauge, InClosed, Leaked, LastUncovered, Closed
<1>8. /\ grpc_streams \in Nat /\ sse_streams \in Nat /\ completed \in Nat /\ abrupt \in Nat
  BY DEF TypeOK
<1>9. GaugesAccount' /\ {grpc_streams', sse_streams', completed', abrupt'} \subseteq Nat
  <2>1. CASE ~Covered(r)
    <3>1. UNCHANGED metrics
      BY <1>1, <2>1 DEF Raise
    <3>2. /\ InGauge("grpc", r)' <=> InGauge("grpc", r)
          /\ InGauge("sse", r)' <=> InGauge("sse", r)
      BY <1>6, <1>7, <2>1
    <3>3. InClosed(r)' <=> InClosed(r)
      BY <1>1, <1>6, <1>7, <2>1 DEF Covered, LocalInv, Points, Closed
    <3> QED BY <1>5, <3>1, <3>2, <3>3, QuietStep
  <2>2. CASE Covered(r) /\ endpoint[r] = "grpc"
    <3>1. /\ grpc_streams' = grpc_streams - 1
          /\ UNCHANGED <<sse_streams, completed, abrupt>>
      BY <2>2 DEF Raise, Finally
    <3>2. /\ InGauge("grpc", r) /\ ~InGauge("grpc", r)'
          /\ ~InGauge("sse", r) /\ ~InGauge("sse", r)'
          /\ ~InClosed(r) /\ ~InClosed(r)'
      BY <1>6, <1>7, <2>2 DEF Covered
    <3>3. /\ grpc_streams' = grpc_streams + Bit(InGauge("grpc", r)') - Bit(InGauge("grpc", r))
          /\ sse_streams' = sse_streams + Bit(InGauge("sse", r)') - Bit(InGauge("sse", r))
          /\ completed' + abrupt' =
               completed + abrupt + Bit(InClosed(r)') - Bit(InClosed(r))
      BY <1>8, <3>1, <3>2 DEF Bit
    <3> QED BY <1>5, <1>8, <3>1, <3>3, GaugeStep
  <2>3. CASE Covered(r) /\ endpoint[r] # "grpc"
    <3>1. /\ sse_streams' = sse_streams - 1 /\ abrupt' = abrupt + 1
          /\ UNCHANGED <<grpc_streams, completed>>
      BY <2>3 DEF Raise, Finally
    <3>2. /\ InGauge("sse", r) /\ ~InGauge("sse", r)'
          /\ ~InGauge("grpc", r) /\ ~InGauge("grpc", r)'
          /\ ~InClosed(r) /\ InClosed(r)'
      BY <1>6, <1>7, <2>3 DEF Covered
    <3>3. /\ grpc_streams' = grpc_streams + Bit(InGauge("grpc", r)') - Bit(InGauge("grpc", r))
          /\ sse_streams' = sse_streams + Bit(InGauge("sse", r)') - Bit(InGauge("sse", r))
          /\ completed' + abrupt' =
               completed + abrupt + Bit(InClosed(r)') - Bit(InClosed(r))
      BY <1>8, <3>1, <3>2 DEF Bit
    <3> QED BY <1>5, <1>8, <3>1, <3>3, GaugeStep
  <2> QED BY <2>1, <2>2, <2>3
<1>10. TypeOK'
  BY <1>1, <1>4, <1>9 DEF TypeOK, asked, Points, Closed
<1>11. LocalInv(r)'
  <2>1. (at[r] \in Closed)' /\ (Remembered(r) <=> Remembered(r)') /\ endpoint[r] \in Endpoints
        /\ (r \in published <=> r \in published') /\ endpoint' = endpoint
    BY <1>1 DEF Closed, Remembered, TypeOK, asked
  <2>2. TaskLost(r)' <=> Remembered(r) /\ at[r] \in BeforePublishing[endpoint[r]]
    BY <1>3, <1>4, <2>1 DEF TaskLost, BeforePublishing
  <2>3. r \in published <=> Remembered(r) /\ at[r] \notin BeforePublishing[endpoint[r]]
    BY <1>1, <2>1
       DEF LocalInv, Settled, Early, Remembered, BeforePublishing, Endpoints, Points, Closed
  <2>4. (at[r] \in Closed => (r \in published <=> Remembered(r) /\ ~TaskLost(r)))'
    BY <2>1, <2>2, <2>3
  <2> QED BY <1>1, <1>2, <1>4, <2>1, <2>4 DEF LocalInv, Settled, Early, Remembered, asked
<1> QED BY <1>1, <1>5, <1>9, <1>10, <1>11, ComposeQuiet DEF Settled, Early

(* A gRPC request finds its configuration.                                 *)
LEMMA ConfiguredStep ==
  ASSUME IInv, NEW r \in Requests, at[r] = "config", endpoint[r] = "grpc",
         configured' = [configured EXCEPT ![r] = TRUE],
         at' = [at EXCEPT ![r] = "streaming"],
         UNCHANGED <<asked, text, ended, output, error, gone, shared, metrics>>
  PROVE  IInv'
<1> USE DEF IInv, output, shared
<1>1. at'[r] = "streaming"
  BY DEF TypeOK
<1>2. Frame(r)
  BY DEF Frame, TypeOK
<1>3. /\ InGauge("grpc", r)' <=> InGauge("grpc", r)
      /\ InGauge("sse", r)' <=> InGauge("sse", r)
      /\ InClosed(r)' <=> InClosed(r)
  BY <1>1 DEF LocalInv, InGauge, InClosed, Covered, Leaked, LastUncovered, asked
<1>4. GaugesAccount' /\ {grpc_streams', sse_streams', completed', abrupt'} \subseteq Nat
  BY <1>2, <1>3, QuietStep
<1>5. TypeOK'
  BY <1>4 DEF TypeOK, asked, Points
<1>6. LocalInv(r)'
  BY <1>1 DEF LocalInv, Settled, Early, Remembered,
              TaskLost, BeforePublishing, Closed, asked
<1> QED BY <1>1, <1>2, <1>4, <1>5, <1>6, ComposeQuiet DEF Settled, Early

(* An SSE stream is counted when its response is returned.                 *)
LEMMA ConfigSseStep ==
  ASSUME IInv, NEW r \in Requests, ConfigSse(r)
  PROVE  IInv'
<1> USE DEF IInv
<1>1. /\ at[r] = "config" /\ at' = [at EXCEPT ![r] = "opened"] /\ at'[r] = "opened"
      /\ endpoint[r] = "sse" /\ sse_streams' = sse_streams + 1
      /\ configured' = [configured EXCEPT ![r] = user[r] \in user_config]
      /\ UNCHANGED <<asked, text, ended, output, error, gone, shared, grpc_streams,
                     completed, abrupt>>
  BY DEF ConfigSse, Goto, TypeOK
<1> USE DEF output, shared
<1>2. Frame(r)
  BY <1>1 DEF Frame, TypeOK
<1>3. /\ ~InGauge("grpc", r) /\ ~InGauge("grpc", r)'
      /\ ~InGauge("sse", r) /\ InGauge("sse", r)'
      /\ InClosed(r)' <=> InClosed(r)
  BY <1>1 DEF LocalInv, InGauge, InClosed, Covered, Leaked, LastUncovered, asked
<1>4. grpc_streams \in Nat /\ sse_streams \in Nat /\ completed \in Nat /\ abrupt \in Nat
  BY DEF TypeOK
<1>5. GaugesAccount' /\ {grpc_streams', sse_streams', completed', abrupt'} \subseteq Nat
  <2>1. /\ grpc_streams' = grpc_streams + Bit(InGauge("grpc", r)') - Bit(InGauge("grpc", r))
        /\ sse_streams' = sse_streams + Bit(InGauge("sse", r)') - Bit(InGauge("sse", r))
        /\ completed' + abrupt' =
             completed + abrupt + Bit(InClosed(r)') - Bit(InClosed(r))
    BY <1>1, <1>3, <1>4 DEF Bit
  <2> QED BY <1>1, <1>2, <1>4, <2>1, GaugeStep
<1>6. (user[r] \in user_config) \in BOOLEAN
  OBVIOUS
<1>7. configured' \in [Requests -> BOOLEAN]
  BY <1>1, <1>6, Zenon DEF TypeOK
<1>8. TypeOK'
  BY <1>1, <1>5, <1>7 DEF TypeOK, asked, Points
<1>9. LocalInv(r)'
  BY <1>1 DEF LocalInv, Settled, Early, Remembered,
              TaskLost, BeforePublishing, Closed, asked
<1> QED BY <1>1, <1>2, <1>5, <1>8, <1>9, ComposeQuiet DEF Settled, Early

(* A finished stream leaves its gauge.                                     *)
LEMMA CloseStep ==
  ASSUME IInv, NEW r \in Requests, Close(r)
  PROVE  IInv'
<1> USE DEF IInv
<1> DEFINE x == IF endpoint[r] = "grpc" THEN "done"
                ELSE IF text[r] > 0 THEN "caching" ELSE "background"
<1>1. /\ at[r] = "closing" /\ at' = [at EXCEPT ![r] = x] /\ at'[r] = x
      /\ Finally(r, TRUE)
      /\ UNCHANGED <<asked, run, output, error, gone, shared>>
  BY DEF Close, Goto, TypeOK
<1>2. /\ endpoint[r] = "grpc" => x = "done"
      /\ endpoint[r] # "grpc" => x \in {"caching", "background"}
      /\ x = "caching" => text[r] > 0
      /\ endpoint[r] \in {"grpc", "sse"}
  BY DEF TypeOK, Endpoints
<1> HIDE DEF x
<1> USE DEF run, output, shared
<1>3. Frame(r)
  BY <1>1 DEF Frame, TypeOK
<1>4. grpc_streams \in Nat /\ sse_streams \in Nat /\ completed \in Nat /\ abrupt \in Nat
  BY DEF TypeOK
<1>5. error[r] = None /\ served[r] = None
  BY <1>1 DEF LocalInv
<1>6. GaugesAccount' /\ {grpc_streams', sse_streams', completed', abrupt'} \subseteq Nat
  <2>1. CASE endpoint[r] = "grpc"
    <3>1. grpc_streams' = grpc_streams - 1 /\ UNCHANGED <<sse_streams, completed, abrupt>>
      BY <1>1, <2>1 DEF Finally
    <3>2. /\ InGauge("grpc", r) /\ ~InGauge("grpc", r)'
          /\ ~InGauge("sse", r) /\ ~InGauge("sse", r)'
          /\ ~InClosed(r) /\ ~InClosed(r)'
      BY <1>1, <1>2, <1>5, <2>1
         DEF InGauge, InClosed, Covered, Leaked, LastUncovered, asked
    <3>3. /\ grpc_streams' = grpc_streams + Bit(InGauge("grpc", r)') - Bit(InGauge("grpc", r))
          /\ sse_streams' = sse_streams + Bit(InGauge("sse", r)') - Bit(InGauge("sse", r))
          /\ completed' + abrupt' =
               completed + abrupt + Bit(InClosed(r)') - Bit(InClosed(r))
      BY <1>4, <3>1, <3>2 DEF Bit
    <3> QED BY <1>3, <1>4, <3>1, <3>3, GaugeStep
  <2>2. CASE endpoint[r] = "sse"
    <3>1. /\ sse_streams' = sse_streams - 1 /\ completed' = completed + 1
          /\ UNCHANGED <<grpc_streams, abrupt>>
      BY <1>1, <2>2 DEF Finally
    <3>2. /\ InGauge("sse", r) /\ ~InGauge("sse", r)'
          /\ ~InGauge("grpc", r) /\ ~InGauge("grpc", r)'
          /\ ~InClosed(r) /\ InClosed(r)'
      BY <1>1, <1>2, <1>5, <2>2
         DEF InGauge, InClosed, Covered, Leaked, LastUncovered, asked
    <3>3. /\ grpc_streams' = grpc_streams + Bit(InGauge("grpc", r)') - Bit(InGauge("grpc", r))
          /\ sse_streams' = sse_streams + Bit(InGauge("sse", r)') - Bit(InGauge("sse", r))
          /\ completed' + abrupt' =
               completed + abrupt + Bit(InClosed(r)') - Bit(InClosed(r))
      BY <1>4, <3>1, <3>2 DEF Bit
    <3> QED BY <1>3, <1>4, <3>1, <3>3, GaugeStep
  <2> QED BY <1>2, <2>1, <2>2
<1>7. TypeOK'
  BY <1>1, <1>2, <1>6 DEF TypeOK, asked, Points, Closed
<1>8. LocalInv(r)'
  BY <1>1, <1>2, <1>5 DEF LocalInv, Settled, Early, Remembered,
                          TaskLost, BeforePublishing, Closed, asked
<1>9. Settled(r)'
  BY <1>1, <1>2 DEF Settled, Early
<1> QED BY <1>1, <1>3, <1>6, <1>7, <1>8, <1>9, ComposeQuiet

(* A chunk is accumulated and sent.                                        *)
LEMMA ChunkStep ==
  ASSUME IInv, NEW r \in Requests, Chunk(r)
  PROVE  IInv'
<1> USE DEF IInv
<1>1. /\ at[r] = "streaming" /\ text[r] < MaxChunks
      /\ text' = [text EXCEPT ![r] = @ + 1] /\ sent' = [sent EXCEPT ![r] = @ + 1]
      /\ text'[r] = text[r] + 1 /\ sent'[r] = sent[r] + 1 /\ text[r] = sent[r]
      /\ UNCHANGED <<at, asked, configured, ended, receipt, served, error, gone, shared,
                     metrics>>
  BY DEF Chunk, TypeOK, LocalInv
<1> USE DEF run, output, shared
<1>2. Frame(r)
  BY <1>1 DEF Frame, TypeOK
<1>3. /\ InGauge("grpc", r)' <=> InGauge("grpc", r)
      /\ InGauge("sse", r)' <=> InGauge("sse", r)
      /\ InClosed(r)' <=> InClosed(r)
  BY <1>1 DEF LocalInv, InGauge, InClosed, Covered, Leaked, LastUncovered, asked
<1>4. GaugesAccount' /\ {grpc_streams', sse_streams', completed', abrupt'} \subseteq Nat
  BY <1>1, <1>2, <1>3, QuietStep
<1>5. TypeOK'
  BY <1>1, <1>4, MaxChunksAssumption DEF TypeOK, asked, Points
<1>6. LocalInv(r)'
  BY <1>1, MaxChunksAssumption DEF LocalInv, Settled, Early, Remembered,
                                   TaskLost, BeforePublishing, Closed, TypeOK, asked
<1> QED BY <1>1, <1>2, <1>4, <1>5, <1>6, ComposeQuiet DEF Settled, Early

(* The run reaches its end.                                                *)
LEMMA EndStep ==
  ASSUME IInv, NEW r \in Requests, GraphEnds(r)
  PROVE  IInv'
<1> USE DEF IInv
<1>1. /\ at[r] = "streaming" /\ ended' = [ended EXCEPT ![r] = TRUE] /\ ended'[r]
      /\ \/ endpoint[r] = "grpc" /\ at'[r] = "ended" /\ at' = [at EXCEPT ![r] = "ended"]
         \/ endpoint[r] = "sse" /\ text[r] > 0 /\ at'[r] = "receipt"
              /\ at' = [at EXCEPT ![r] = "receipt"]
         \/ endpoint[r] = "sse" /\ at'[r] = "closing" /\ at' = [at EXCEPT ![r] = "closing"]
      /\ UNCHANGED <<asked, configured, text, output, error, gone, shared, metrics>>
  BY DEF GraphEnds, Goto, TypeOK, Endpoints
<1> USE DEF run, output, shared
<1>2. Frame(r)
  BY <1>1 DEF Frame, TypeOK
<1>3. /\ InGauge("grpc", r)' <=> InGauge("grpc", r)
      /\ InGauge("sse", r)' <=> InGauge("sse", r)
      /\ InClosed(r)' <=> InClosed(r)
  BY <1>1 DEF LocalInv, InGauge, InClosed, Covered, Leaked, LastUncovered, asked
<1>4. GaugesAccount' /\ {grpc_streams', sse_streams', completed', abrupt'} \subseteq Nat
  BY <1>1, <1>2, <1>3, QuietStep
<1>5. TypeOK'
  BY <1>1, <1>4, MaxChunksAssumption DEF TypeOK, asked, Points
<1>6. LocalInv(r)'
  BY <1>1, MaxChunksAssumption DEF LocalInv, Settled, Early, Remembered,
                                   TaskLost, BeforePublishing, Closed, TypeOK, asked
<1> QED BY <1>1, <1>2, <1>4, <1>5, <1>6, ComposeQuiet DEF Settled, Early

(* The receipt signs what was sent.                                        *)
LEMMA ReceiptStep ==
  ASSUME IInv, NEW r \in Requests, SendReceipt(r)
  PROVE  IInv'
<1> USE DEF IInv
<1>1. /\ at[r] = "receipt" /\ at' = [at EXCEPT ![r] = "closing"] /\ at'[r] = "closing"
      /\ receipt' = [receipt EXCEPT ![r] = text[r]] /\ receipt'[r] = text[r]
      /\ UNCHANGED <<asked, run, sent, served, error, gone, shared, metrics>>
  BY DEF SendReceipt, Goto, TypeOK
<1> USE DEF run, output, shared
<1>2. Frame(r)
  BY <1>1 DEF Frame, TypeOK
<1>3. /\ InGauge("grpc", r)' <=> InGauge("grpc", r)
      /\ InGauge("sse", r)' <=> InGauge("sse", r)
      /\ InClosed(r)' <=> InClosed(r)
  BY <1>1 DEF LocalInv, InGauge, InClosed, Covered, Leaked, LastUncovered, asked
<1>4. GaugesAccount' /\ {grpc_streams', sse_streams', completed', abrupt'} \subseteq Nat
  BY <1>1, <1>2, <1>3, QuietStep
<1>5. TypeOK'
  BY <1>1, <1>4, MaxChunksAssumption DEF TypeOK, asked, Points
<1>6. LocalInv(r)'
  BY <1>1, MaxChunksAssumption DEF LocalInv, Settled, Early, Remembered,
                                   TaskLost, BeforePublishing, Closed, TypeOK, asked
<1> QED BY <1>1, <1>2, <1>4, <1>5, <1>6, ComposeQuiet DEF Settled, Early

(* The gRPC handler hands the task over before it caches.                  *)
LEMMA PublishGrpcStep ==
  ASSUME IInv, NEW r \in Requests, PublishGrpc(r)
  PROVE  IInv'
<1> USE DEF IInv
<1>1. /\ at[r] = "ended" /\ published' = IF Remembered(r) THEN published \cup {r} ELSE published
      /\ \/ text[r] > 0 /\ at'[r] = "caching" /\ at' = [at EXCEPT ![r] = "caching"]
         \/ at'[r] = "closing" /\ at' = [at EXCEPT ![r] = "closing"]
      /\ UNCHANGED <<asked, run, output, error, gone, user_config, collection, cache,
                     late, metrics>>
  BY DEF PublishGrpc, Publish, Goto, TypeOK
<1> USE DEF run, output, shared
<1>2. Frame(r)
  BY <1>1 DEF Frame, TypeOK
<1>3. /\ InGauge("grpc", r)' <=> InGauge("grpc", r)
      /\ InGauge("sse", r)' <=> InGauge("sse", r)
      /\ InClosed(r)' <=> InClosed(r)
  BY <1>1 DEF LocalInv, InGauge, InClosed, Covered, Leaked, LastUncovered, asked
<1>4. GaugesAccount' /\ {grpc_streams', sse_streams', completed', abrupt'} \subseteq Nat
  BY <1>1, <1>2, <1>3, QuietStep
<1>5. TypeOK'
  BY <1>1, <1>4, MaxChunksAssumption DEF TypeOK, asked, Points
<1>6. LocalInv(r)'
  BY <1>1, MaxChunksAssumption DEF LocalInv, Settled, Early, Remembered,
                                   TaskLost, BeforePublishing, Closed, TypeOK, asked
<1> QED BY <1>1, <1>2, <1>4, <1>5, <1>6, ComposeQuiet DEF Settled, Early

(* The SSE response hands the task over when it is closed.                 *)
LEMMA PublishSseStep ==
  ASSUME IInv, NEW r \in Requests, PublishSse(r)
  PROVE  IInv'
<1> USE DEF IInv
<1>1. /\ at[r] = "background" /\ at' = [at EXCEPT ![r] = "done"] /\ at'[r] = "done"
      /\ published' = IF Remembered(r) THEN published \cup {r} ELSE published
      /\ UNCHANGED <<asked, run, output, error, gone, user_config, collection, cache,
                     late, metrics>>
  BY DEF PublishSse, Publish, Goto, TypeOK
<1> USE DEF run, output, shared
<1>2. Frame(r)
  BY <1>1 DEF Frame, TypeOK
<1>3. /\ InGauge("grpc", r)' <=> InGauge("grpc", r)
      /\ InGauge("sse", r)' <=> InGauge("sse", r)
      /\ InClosed(r)' <=> InClosed(r)
  BY <1>1 DEF LocalInv, InGauge, InClosed, Covered, Leaked, LastUncovered, asked
<1>4. GaugesAccount' /\ {grpc_streams', sse_streams', completed', abrupt'} \subseteq Nat
  BY <1>1, <1>2, <1>3, QuietStep
<1>5. TypeOK'
  BY <1>1, <1>4, MaxChunksAssumption DEF TypeOK, asked, Points, Closed
<1>6. LocalInv(r)'
  BY <1>1, MaxChunksAssumption DEF LocalInv, Settled, Early, Remembered,
                                   TaskLost, BeforePublishing, Closed, TypeOK, asked
<1> QED BY <1>1, <1>2, <1>4, <1>5, <1>6, ComposeQuiet DEF Settled, Early

(* Storing a reply, now or late: all it needs of the handler is that its   *)
(* client will be streamed nothing more.                                   *)
LEMMA StoringStep ==
  ASSUME IInv, NEW r \in Requests, NEW x \in Points, at' = [at EXCEPT ![r] = x],
         Settled(r), Settled(r)', text[r] > 0, endpoint[r] = "sse" => ended[r],
         cache' = [cache EXCEPT ![prompt[r]] = Stored(r)], collection' = TRUE,
         late' = late \ {r},
         UNCHANGED <<asked, run, output, error, gone, user_config, published, metrics>>,
         LocalInv(r)',
         InGauge("grpc", r)' <=> InGauge("grpc", r),
         InGauge("sse", r)' <=> InGauge("sse", r),
         InClosed(r)' <=> InClosed(r)
  PROVE  IInv'
<1> USE DEF IInv, run, output
<1>1. /\ text[r] = sent[r] /\ text[r] \in 1..MaxChunks /\ ended[r] \in BOOLEAN
  BY MaxChunksAssumption DEF LocalInv, TypeOK
<1>2. /\ Stored(r) \in Reply /\ Stored(r).by = r /\ Stored(r).chunks = text[r]
      /\ Stored(r).whole = ended[r]
  BY <1>1 DEF Reply, Stored
<1>3. Frame(r)
  BY DEF Frame, TypeOK
<1>4. GaugesAccount' /\ {grpc_streams', sse_streams', completed', abrupt'} \subseteq Nat
  BY <1>3, QuietStep
<1>5. cache' \in [Prompts -> Reply \cup {None}]
  BY <1>2 DEF TypeOK
<1>6. TypeOK'
  BY <1>4, <1>5 DEF TypeOK, asked
<1>7. ASSUME NEW p \in Prompts
      PROVE  \/ cache'[p] = cache[p]
             \/ /\ Genuine(cache[p])' /\ cache'[p].by = r /\ prompt[r] = p
                /\ endpoint[r] = "sse" => cache'[p].whole
  <2>1. CASE p = prompt[r]
    <3>1. cache'[p] = Stored(r)
      BY <2>1 DEF TypeOK
    <3> QED BY <1>1, <1>2, <2>1, <3>1 DEF Genuine, Settled
  <2>2. CASE p # prompt[r]
    BY <2>2 DEF TypeOK
  <2> QED BY <2>1, <2>2
<1> QED BY <1>3, <1>4, <1>6, <1>7, Compose

(* The answer is stored for everybody.                                     *)
LEMMA CacheStep ==
  ASSUME IInv, NEW r \in Requests, CacheAnswer(r)
  PROVE  IInv'
<1> USE DEF IInv
<1> DEFINE x == IF endpoint[r] = "grpc" THEN "receipt" ELSE "background"
<1>1. /\ at[r] = "caching" /\ cache' = [cache EXCEPT ![prompt[r]] = Stored(r)]
      /\ collection' = TRUE /\ at' = [at EXCEPT ![r] = x] /\ at'[r] = x
      /\ UNCHANGED <<asked, run, output, error, gone, user_config, late, published,
                     metrics>>
  BY DEF CacheAnswer, Goto, TypeOK
<1>2. \/ endpoint[r] = "grpc" /\ x = "receipt"
      \/ endpoint[r] = "sse" /\ x = "background"
  BY DEF TypeOK, Endpoints
<1> HIDE DEF x
<1>3. r \notin late /\ text[r] > 0 /\ (endpoint[r] = "sse" => ended[r])
  BY <1>1 DEF LocalInv
<1>4. late' = late \ {r}
  BY <1>1, <1>3
<1> USE DEF run, output
<1>5. /\ InGauge("grpc", r)' <=> InGauge("grpc", r)
      /\ InGauge("sse", r)' <=> InGauge("sse", r)
      /\ InClosed(r)' <=> InClosed(r)
  BY <1>1, <1>2 DEF LocalInv, InGauge, InClosed, Covered, Leaked, LastUncovered, asked
<1>6. LocalInv(r)'
  BY <1>1, <1>2 DEF LocalInv, Settled, Early, Remembered,
                    TaskLost, BeforePublishing, Closed, asked
<1>7. x \in Points /\ Settled(r) /\ Settled(r)'
  BY <1>1, <1>2 DEF Settled, Early, Points
<1> QED BY <1>1, <1>3, <1>4, <1>5, <1>6, <1>7, StoringStep

(* The write of a handler that was left while it stored its reply.         *)
LEMMA StoreLateStep ==
  ASSUME IInv, NEW r \in Requests, StoreLate(r)
  PROVE  IInv'
<1> USE DEF IInv
<1>1. /\ r \in late /\ late' = late \ {r} /\ collection' = TRUE
      /\ cache' = [cache EXCEPT ![prompt[r]] = Stored(r)]
      /\ UNCHANGED <<at, asked, run, output, error, gone, user_config, published, metrics>>
  BY DEF StoreLate
<1>2. at[r] = "failed" /\ text[r] > 0 /\ (endpoint[r] = "sse" => ended[r])
  BY <1>1 DEF LocalInv
<1>3. "failed" \in Points /\ at' = [at EXCEPT ![r] = "failed"]
  BY <1>1, <1>2 DEF TypeOK, Points, Closed
<1>4. Settled(r) /\ Settled(r)'
  BY <1>1, <1>2 DEF Settled, Early
<1> USE DEF run, output
<1>5. LocalInv(r)'
  BY <1>1, <1>2 DEF LocalInv, Settled, Early, Remembered,
                    TaskLost, BeforePublishing, Closed, asked
<1>6. /\ InGauge("grpc", r)' <=> InGauge("grpc", r)
      /\ InGauge("sse", r)' <=> InGauge("sse", r)
      /\ InClosed(r)' <=> InClosed(r)
  BY <1>1 DEF InGauge, InClosed, Covered, Leaked, LastUncovered, asked
<1> QED BY <1>1, <1>2, <1>3, <1>4, <1>5, <1>6, StoringStep

(* Clients leave and configurations come and go.                           *)
LEMMA OutsideStep ==
  ASSUME IInv, UNCHANGED <<at, asked, run, output, error, collection, cache, late,
                           published, metrics>>,
         gone' \subseteq Requests, user_config' \subseteq Users
  PROVE  IInv'
<1> USE DEF IInv, asked, run, output, metrics
<1>1. TypeOK'
  BY DEF TypeOK
<1>2. GaugesAccount'
  BY DEF GaugesAccount, Counted, Covered, Leaked, LastUncovered
<1>3. CacheInv' /\ ServedInv'
  BY DEF CacheInv, ServedInv, Genuine, Settled
<1>4. \A r \in Requests : LocalInv(r)'
  BY DEF LocalInv, Settled, Remembered, TaskLost, BeforePublishing, Closed
<1> QED BY <1>1, <1>2, <1>3, <1>4

-----------------------------------------------------------------------------
(* The invariant.                                                          *)

(* The invariant holds initially.                                          *)
LEMMA InitInv == Init => IInv
<1> SUFFICES ASSUME Init PROVE IInv
  OBVIOUS
<1> USE DEF Init
<1>1. TypeOK
  BY MaxChunksAssumption DEF TypeOK, Points
<1>2. GaugesAccount
  <2>1. Counted("grpc") = {} /\ Counted("sse") = {}
    BY DEF Counted, Covered, Leaked, LastUncovered
  <2>2. {r \in Requests : endpoint[r] = "sse" /\ ~Leaked(r) /\ served[r] = None
           /\ \/ at[r] \in {"caching", "background", "done"}
              \/ error[r] # None /\ error[r].point \notin {"lookup", "config"}} = {}
    OBVIOUS
  <2> QED BY <2>1, <2>2, FS_EmptySet DEF GaugesAccount
<1>3. CacheInv /\ ServedInv
  BY DEF CacheInv, ServedInv
<1>4. \A r \in Requests : LocalInv(r)
  BY DEF LocalInv, Settled, Early, Closed
<1> QED BY <1>1, <1>2, <1>3, <1>4 DEF IInv

(* A step of one request keeps the invariant.                              *)
LEMMA RequestStep ==
  ASSUME IInv, NEW r \in Requests,
         \/ Arrive(r) \/ Handle(r) \/ StoreLate(r)
         \/ ClientLeaves(r) \/ Cancelled(r) \/ Fault(r)
  PROVE  IInv'
<1>1. ASSUME NEW why \in Failures, Raise(r, why), at[r] \notin Closed \cup {"idle"}
      PROVE  IInv'
  BY <1>1, RaiseStep
<1>2. CASE LookupNoCollection(r)
  BY <1>1, <1>2 DEF LookupNoCollection, Failures, Closed
<1>3. CASE ConfigGrpc(r)
  BY <1>1, <1>3, ConfiguredStep DEF ConfigGrpc, Goto, Failures, Closed
<1>4. CASE RunUnconfigured(r)
  BY <1>1, <1>4 DEF RunUnconfigured, Failures, Closed
<1>5. CASE Cancelled(r)
  BY <1>1, <1>5 DEF Cancelled, Active, Failures
<1>6. CASE Fault(r)
  BY <1>1, <1>6 DEF Fault, Failures, Closed
<1>7. CASE ClientLeaves(r)
  <2>1. gone' \subseteq Requests /\ user_config' \subseteq Users
    BY <1>7 DEF ClientLeaves, IInv, TypeOK, shared
  <2> QED BY <1>7, <2>1, OutsideStep DEF ClientLeaves, shared
<1> QED BY <1>2, <1>3, <1>4, <1>5, <1>6, <1>7, PlainMoves, HitStep, MissStep, ConfigSseStep,
           ChunkStep, EndStep, PublishGrpcStep, CacheStep, StoreLateStep, ReceiptStep, CloseStep,
           PublishSseStep DEF Handle

(* Every step keeps the invariant.                                         *)
LEMMA StepInv == IInv /\ [Next]_vars => IInv'
<1> SUFFICES ASSUME IInv, [Next]_vars PROVE IInv'
  OBVIOUS
<1>1. ASSUME NEW u \in Users, StoreConfig(u) \/ ExpireConfig(u) PROVE IInv'
  <2>1. user_config' \subseteq Users /\ gone' \subseteq Requests
    BY <1>1 DEF StoreConfig, ExpireConfig, IInv, TypeOK
  <2> QED BY <1>1, <2>1, OutsideStep DEF StoreConfig, ExpireConfig
<1>2. CASE UNCHANGED vars
  <2>1. user_config' \subseteq Users /\ gone' \subseteq Requests
    BY <1>2 DEF vars, shared, IInv, TypeOK
  <2> QED BY <1>2, <2>1, OutsideStep DEF vars, shared
<1> QED BY <1>1, <1>2, RequestStep DEF Next

(* The invariant always holds.                                             *)
LEMMA Invariance == Spec => []IInv
  BY InitInv, StepInv, PTL DEF Spec

(* Every variable of the handlers keeps its type; the gauges are never     *)
(* negative.                                                               *)
THEOREM ChatTypeCorrect == Spec => []TypeOK
<1>1. IInv => TypeOK
  BY DEF IInv
<1> QED BY <1>1, Invariance, PTL

(* A receipt covers what its client received, neither more nor less.       *)
THEOREM ReceiptsCover == Spec => []ReceiptCoversStream
<1>1. IInv => ReceiptCoversStream
  BY DEF IInv, LocalInv, ReceiptCoversStream
<1> QED BY <1>1, Invariance, PTL

(* The gauges count the streams being served and the leaked ones, and every*)
(* closed SSE stream is counted once.                                      *)
THEOREM GaugesStayTrue == Spec => []GaugesAccount
<1>1. IInv => GaugesAccount
  BY DEF IInv
<1> QED BY <1>1, Invariance, PTL

(* The SSE endpoint stores complete runs only.                             *)
THEOREM SseStoresWhole == Spec => []SseCachesWhole
<1>1. IInv => SseCachesWhole
  BY DEF IInv, CacheInv, SseCachesWhole
<1> QED BY <1>1, Invariance, PTL

(* A cached reply was streamed before, to a request with a similar prompt. *)
THEOREM RepliesGenuine == Spec => []ServedGenuine
<1>1. IInv => ServedGenuine
  BY DEF IInv, ServedInv, Genuine, ServedGenuine
<1> QED BY <1>1, Invariance, PTL

(* A finished handler has handed a task over exactly when its run reached  *)
(* its end, its user is known, and it was not left before it published.    *)
THEOREM TasksHandedOver == Spec => []PublishedExactly
<1>1. IInv => PublishedExactly
  BY DEF IInv, LocalInv, PublishedExactly
<1> QED BY <1>1, Invariance, PTL

-----------------------------------------------------------------------------
(* A deployment without its collection.                                    *)

(* What keeps it so: no handler is past its lookup, and nobody is left to  *)
(* store a reply late.                                                     *)
ColdInv ==
  ~collection =>
    /\ late = {}
    /\ \A r \in Requests :
         at[r] \in {"idle", "lookup", "failed"} /\ sent[r] = 0 /\ served[r] = None

(* Nothing removes the collection.                                         *)
LEMMA CollectionStays ==
  ASSUME [Next]_vars, collection
  PROVE  collection'
<1>1. ASSUME NEW r \in Requests, NEW why, Raise(r, why) PROVE collection'
  BY <1>1 DEF Raise
<1>2. ASSUME NEW r \in Requests,
             \/ LookupNoCollection(r) \/ RunUnconfigured(r) \/ Cancelled(r) \/ Fault(r)
             \/ ConfigGrpc(r)
      PROVE  collection'
  BY <1>1, <1>2 DEF LookupNoCollection, RunUnconfigured, Cancelled, Fault, ConfigGrpc, shared
<1>3. ASSUME NEW r \in Requests,
             \/ Arrive(r) \/ LookupHit(r) \/ LookupMiss(r) \/ ConfigSse(r) \/ OpenSse(r)
             \/ Chunk(r) \/ GraphEnds(r) \/ Dropped(r) \/ PublishGrpc(r) \/ CacheAnswer(r)
             \/ StoreLate(r) \/ SendReceipt(r) \/ Close(r) \/ PublishSse(r) \/ ClientLeaves(r)
      PROVE  collection'
  BY <1>3 DEF Arrive, LookupHit, LookupMiss, ConfigSse, OpenSse, Chunk, GraphEnds, Dropped,
              PublishGrpc, CacheAnswer, StoreLate, SendReceipt, Close, PublishSse,
              ClientLeaves, shared
<1>4. ASSUME NEW u \in Users, StoreConfig(u) \/ ExpireConfig(u) PROVE collection'
  BY <1>4 DEF StoreConfig, ExpireConfig
<1>5. CASE UNCHANGED vars
  BY <1>5 DEF vars, shared
<1> QED BY <1>2, <1>3, <1>4, <1>5 DEF Next, Handle

(* A step finds the collection missing and leaves it so.                   *)
LEMMA ColdStep ==
  ASSUME IInv, ColdInv, [Next]_vars, ~collection
  PROVE  ColdInv' /\ ~collection'
<1> USE DEF ColdInv
<1>1. ASSUME NEW r \in Requests, NEW why, at[r] = "lookup", Raise(r, why)
      PROVE  ColdInv' /\ ~collection'
  <2>1. at' = [at EXCEPT ![r] = "failed"] /\ UNCHANGED <<late, sent, served, collection>>
    BY <1>1 DEF Raise, output
  <2> QED BY <2>1 DEF IInv, TypeOK
<1>2. ASSUME NEW r \in Requests,
             \/ Arrive(r) \/ Handle(r) \/ StoreLate(r)
             \/ ClientLeaves(r) \/ Cancelled(r) \/ Fault(r)
      PROVE  ColdInv' /\ ~collection'
  <2>1. at[r] \in {"idle", "lookup", "failed"} /\ r \notin late
    OBVIOUS
  <2>2. CASE Arrive(r)
    <3>1. at' = [at EXCEPT ![r] = "lookup"] /\ UNCHANGED <<late, sent, served, collection>>
      BY <2>2 DEF Arrive, Goto, output, shared
    <3> QED BY <3>1 DEF IInv, TypeOK
  <2>3. CASE ClientLeaves(r)
    BY <2>3 DEF ClientLeaves, output, shared
  <2>4. CASE LookupNoCollection(r) \/ Cancelled(r) \/ Fault(r)
    <3>1. at[r] = "lookup" /\ \E why : Raise(r, why)
      BY <2>1, <2>4 DEF LookupNoCollection, Cancelled, Fault, Active, Closed
    <3> QED BY <1>1, <3>1
  <2>5. ~LookupHit(r) /\ ~LookupMiss(r)
    BY DEF LookupHit, LookupMiss
  <2>6. /\ ~ConfigGrpc(r) /\ ~ConfigSse(r) /\ ~OpenSse(r) /\ ~RunUnconfigured(r)
        /\ ~Chunk(r) /\ ~GraphEnds(r) /\ ~Dropped(r) /\ ~PublishGrpc(r)
        /\ ~CacheAnswer(r) /\ ~SendReceipt(r) /\ ~Close(r) /\ ~PublishSse(r)
    BY <2>1 DEF ConfigGrpc, ConfigSse, OpenSse, RunUnconfigured, Chunk, GraphEnds, Dropped,
                PublishGrpc, CacheAnswer, SendReceipt, Close, PublishSse
  <2>7. ~StoreLate(r)
    BY <2>1 DEF StoreLate
  <2> QED BY <1>2, <2>2, <2>3, <2>4, <2>5, <2>6, <2>7 DEF Handle
<1>3. ASSUME NEW u \in Users, StoreConfig(u) \/ ExpireConfig(u)
      PROVE  ColdInv' /\ ~collection'
  BY <1>3 DEF StoreConfig, ExpireConfig, output
<1>4. CASE UNCHANGED vars
  BY <1>4 DEF vars, output, shared
<1> QED BY <1>2, <1>3, <1>4 DEF Next

(* A deployment without the collection answers nobody, and stays without it*)
(* for good.                                                               *)
THEOREM ColdStartPersists == Spec => ColdStart
<1>1. Init => ColdInv
  BY DEF Init, ColdInv
<1>2. IInv /\ ColdInv /\ [Next]_vars => ColdInv'
  <2> SUFFICES ASSUME IInv, ColdInv, [Next]_vars PROVE ColdInv'
    OBVIOUS
  <2>1. CASE ~collection
    BY <2>1, ColdStep
  <2>2. CASE collection
    BY <2>2, CollectionStays DEF ColdInv
  <2> QED BY <2>1, <2>2
<1>3. IInv /\ ColdInv /\ [Next]_vars => [~collection => ~collection']_vars
  BY ColdStep
<1>4. ColdInv => (~collection => \A r \in Requests : sent[r] = 0 /\ served[r] = None)
  BY DEF ColdInv
<1> QED BY <1>1, <1>2, <1>3, <1>4, Invariance, PTL DEF Spec, ColdStart

-----------------------------------------------------------------------------
(* The contract.                                                           *)

(* A request that takes no step shows its client nothing.                  *)
LEMMA OthersStutter ==
  ASSUME NEW r \in Requests, NEW q \in Requests,
         at'[q] = at[q], sent'[q] = sent[q], receipt'[q] = receipt[q], served'[q] = served[q]
  PROVE  UNCHANGED Call(q)!vars
  BY DEF Call!vars, Phase

(* What the client sees of the request that takes a step.                  *)
LEMMA CallSteps ==
  ASSUME IInv, NEW r \in Requests,
         \/ Arrive(r) \/ Handle(r) \/ StoreLate(r)
         \/ ClientLeaves(r) \/ Cancelled(r) \/ Fault(r)
  PROVE  [Call(r)!Next]_(Call(r)!vars)
<1> USE DEF IInv, Call!Next, Call!vars
<1> DEFINE Inside(x) == x \notin Closed \cup {"idle"}
<1>1. ASSUME Inside(at[r]), Inside(at'[r]), UNCHANGED <<sent, receipt, served>>
      PROVE  UNCHANGED Call(r)!vars
  BY <1>1 DEF Phase
<1>2. ASSUME Inside(at[r]), at'[r] \in Closed, UNCHANGED <<sent, receipt, served>>
      PROVE  Call(r)!End
  BY <1>2 DEF Call!End, Phase, Closed
<1>3. ASSUME NEW why, Inside(at[r]), Raise(r, why) PROVE Call(r)!End
  <2>1. at'[r] = "failed" /\ UNCHANGED <<sent, receipt, served>>
    BY <1>3 DEF Raise, output, TypeOK
  <2> QED BY <1>2, <1>3, <2>1 DEF Closed
<1>4. CASE Arrive(r)
  <2>1. at[r] = "idle" /\ at'[r] = "lookup" /\ sent[r] = 0 /\ receipt[r] = None
        /\ UNCHANGED <<sent, receipt, served>>
    BY <1>4 DEF Arrive, Goto, output, TypeOK, LocalInv, Early, Settled
  <2> QED BY <2>1 DEF Call!Ask, Phase, Closed
<1>5. CASE LookupHit(r)
  <2>1. PICK q \in Hits(prompt[r]) : served' = [served EXCEPT ![r] = cache[q]]
    BY <1>5 DEF LookupHit
  <2>2. /\ at[r] = "lookup" /\ at'[r] = "done" /\ served'[r] # None
        /\ sent[r] = 0 /\ receipt[r] = None /\ UNCHANGED <<sent, receipt>>
    BY <1>5, <2>1 DEF LookupHit, Goto, Hits, TypeOK, LocalInv, Early, Settled
  <2> QED BY <2>2 DEF Call!Replay, Phase, Closed
<1>0. CASE StoreLate(r)
  BY <1>0, OthersStutter DEF StoreLate, output
<1>6. CASE LookupMiss(r) \/ ConfigSse(r) \/ OpenSse(r) \/ Dropped(r) \/ GraphEnds(r)
           \/ PublishGrpc(r) \/ CacheAnswer(r) \/ ClientLeaves(r)
  <2>1. Inside(at[r]) /\ Inside(at'[r]) /\ UNCHANGED <<sent, receipt, served>>
    BY <1>6 DEF LookupMiss, ConfigSse, OpenSse, Dropped, GraphEnds, PublishGrpc, CacheAnswer,
                ClientLeaves, Active, Goto, output, TypeOK, Closed
  <2> QED BY <1>1, <2>1
<1>7. CASE Chunk(r)
  <2>1. /\ at[r] = "streaming" /\ at'[r] = "streaming" /\ sent[r] \in Nat
        /\ sent'[r] = sent[r] + 1 /\ receipt[r] = None /\ UNCHANGED <<receipt, served>>
    BY <1>7, MaxChunksAssumption DEF Chunk, TypeOK, LocalInv, Settled
  <2> QED BY <2>1 DEF Call!Deliver, Phase, Closed
<1>8. CASE SendReceipt(r)
  <2>1. /\ at[r] = "receipt" /\ at'[r] = "closing" /\ sent[r] \in Nat /\ sent[r] > 0
        /\ receipt[r] = None /\ receipt'[r] = sent[r] /\ UNCHANGED <<sent, served>>
    BY <1>8, MaxChunksAssumption DEF SendReceipt, Goto, TypeOK, LocalInv
  <2>2. receipt'[r] # None
    BY <2>1, NoneAssumption
  <2> QED BY <2>1, <2>2 DEF Call!Sign, Phase, Closed
<1>9. CASE PublishSse(r) \/ Close(r)
  <2>1. /\ Inside(at[r]) /\ UNCHANGED <<sent, receipt, served>>
        /\ at'[r] \in Closed \/ Inside(at'[r])
    BY <1>9 DEF PublishSse, Close, Goto, output, TypeOK, Closed
  <2> QED BY <1>1, <1>2, <2>1
<1>10. CASE ConfigGrpc(r)
  <2>1. CASE configured' = [configured EXCEPT ![r] = TRUE]
             /\ at' = [at EXCEPT ![r] = "streaming"] /\ UNCHANGED output
    <3>1. Inside(at[r]) /\ Inside(at'[r]) /\ UNCHANGED <<sent, receipt, served>>
      BY <1>10, <2>1 DEF ConfigGrpc, output, TypeOK, Closed
    <3> QED BY <1>1, <3>1
  <2>2. CASE Raise(r, "unbound_local")
    BY <1>3, <1>10, <2>2 DEF ConfigGrpc, Closed
  <2> QED BY <1>10, <2>1, <2>2 DEF ConfigGrpc, Goto
<1>11. CASE LookupNoCollection(r) \/ RunUnconfigured(r) \/ Cancelled(r) \/ Fault(r)
  <2>1. Inside(at[r]) /\ \E why : Raise(r, why)
    BY <1>11 DEF LookupNoCollection, RunUnconfigured, Cancelled, Fault, Active, Closed
  <2> QED BY <1>3, <2>1
<1> QED BY <1>0, <1>4, <1>5, <1>6, <1>7, <1>8, <1>9, <1>10, <1>11 DEF Handle

(* Whatever the other calls do to the cache, and whatever fails, each      *)
(* client sees its call follow StreamContract.                             *)
THEOREM ContractSafe == Spec => ServesSafely
<1>1. Init => \A r \in Requests : Call(r)!Init
  BY DEF Init, Call!Init, Phase
<1>2. IInv /\ [Next]_vars => [\A r \in Requests : [Call(r)!Next]_(Call(r)!vars)]_vars
  <2> SUFFICES ASSUME IInv, [Next]_vars, NEW q \in Requests, ~UNCHANGED vars
               PROVE  [Call(q)!Next]_(Call(q)!vars)
    OBVIOUS
  <2>1. ASSUME NEW r \in Requests,
               \/ Arrive(r) \/ Handle(r) \/ StoreLate(r)
               \/ ClientLeaves(r) \/ Cancelled(r) \/ Fault(r)
        PROVE  [Call(q)!Next]_(Call(q)!vars)
    <3>1. CASE q = r
      BY <2>1, <3>1, CallSteps
    <3>2. CASE q # r
      <4>1. at'[q] = at[q] /\ sent'[q] = sent[q] /\ receipt'[q] = receipt[q]
            /\ served'[q] = served[q]
        BY <2>1, <3>2
           DEF IInv, TypeOK, Handle, Arrive, ClientLeaves, Cancelled, Fault, Raise, LookupHit,
               LookupMiss, LookupNoCollection, ConfigGrpc, ConfigSse, OpenSse, RunUnconfigured,
               Chunk, GraphEnds, Dropped, PublishGrpc, CacheAnswer, StoreLate, SendReceipt, Close,
               PublishSse, Goto, output
      <4> QED BY <4>1, OthersStutter
    <3> QED BY <3>1, <3>2
  <2>2. ASSUME NEW u \in Users, StoreConfig(u) \/ ExpireConfig(u)
        PROVE  [Call(q)!Next]_(Call(q)!vars)
    BY <2>2, OthersStutter DEF StoreConfig, ExpireConfig, output
  <2> QED BY <2>1, <2>2 DEF Next
<1> QED BY <1>1, <1>2, Invariance, PTL DEF Spec, ServesSafely
=============================================================================
