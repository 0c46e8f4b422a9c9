------------------------- MODULE SemanticCacheProofs -------------------------
(***************************************************************************)
(* Theorems about SemanticCache, for every set of calls, servers, prompts  *)
(* and models, every scores and every limit.                               *)
(***************************************************************************)
EXTENDS SemanticCache, FiniteSetTheorems, TLAPS

(* What each call has behind it, by where it is.                           *)
CallInv ==
  \A c \in Calls :
    /\ at[c] = "idle" => /\ call[c] = None /\ c \notin existed /\ c \notin stored
                         /\ answer[c] = None /\ failure[c] = None
    /\ at[c] # "idle" => call[c] \in Request
    /\ at[c] = "search" => call[c].op = "get"
    /\ at[c] \in {"exists", "create", "index", "upsert", "stored"} => call[c].op = "set"
    /\ c \in stored => at[c] \in {"stored"} \cup Closed
    /\ at[c] = "stored" => c \in stored
    /\ failure[c] # None => at[c] = "failed"
    /\ answer[c] # None => at[c] = "done"

(* The collection is there for whoever is past its creation, its creator is*)
(* one call, and what began before it may be refused.                      *)
BirthInv ==
  /\ ~collection => indexes = 0
  /\ \A c \in Calls :
       /\ at[c] \in {"index", "upsert", "stored"} \/ c \in existed \cup stored => collection
       /\ at[c] = "create" => c \notin existed
       /\ at[c] = "index" => indexes < 5 /\ \A d \in Calls : at[d] = "index" => d = c
  /\ RefusedOnlyAtBirth
  /\ CancelsHarmless

StoreInv == WritesStay /\ ServedByVersion

IInv == TypeOK /\ CallInv /\ BirthInv /\ StoreInv

-----------------------------------------------------------------------------
(* Lemmas on the operators.                                                *)

(* There are five indexes.                                                 *)
LEMMA FieldsLength == Len(Fields) = 5
  BY DEF Fields

(* The default provider is one of the providers, and its models are the    *)
(* versions.                                                               *)
LEMMA VersionType ==
  ASSUME NEW c, call[c] \in Request
  PROVE  Version(c) \in Versions
<1>1. DefaultProvider \in Providers
  BY DEF DefaultProvider, Providers
<1>2. call[c].settings \in Settings
  BY DEF Request
<1> QED BY <1>1, <1>2 DEF Version, Versions, Settings

(* The candidates are among the stored entries of the version that pass.   *)
LEMMA CandidateType ==
  ASSUME TypeOK, NEW c \in Calls, call[c] \in Request,
         NEW top \in Candidates(c), NEW w \in Reranked(c, top)
  PROVE  /\ w \in Calls /\ w \in top /\ w \in Qualifying(c) /\ Score(c, w) >= Threshold
         /\ \E q \in Prompts : points[Version(c)][q] = w
<1>1. w \in top /\ top \subseteq Qualifying(c)
  BY DEF Reranked, Candidates
<1>2. w \in Entries(c) /\ Score(c, w) >= Threshold
  BY <1>1 DEF Qualifying
<1>3. PICK q \in Prompts : points[Version(c)][q] = w /\ w # None
  BY <1>2 DEF Entries, Filter
<1>4. points[Version(c)][q] \in Calls \cup {None}
  BY VersionType DEF TypeOK
<1> QED BY <1>1, <1>2, <1>3, <1>4

(* The parts of the lexical score are those of a fraction up to one, and   *)
(* one for the prompt itself, unless it has no words.                      *)
LEMMA FractionType ==
  ASSUME NEW p \in Prompts, NEW q \in Prompts
  PROVE  /\ Shared(p, q) \in Nat /\ Total(p, q) \in Nat /\ Total(p, q) > 0
         /\ Shared(p, q) <= Total(p, q)
         /\ Words[p] # {} => Shared(p, p) = Total(p, p)
         /\ Words[p] = {} => Shared(p, q) = 0
<1>1. IsFiniteSet(Words[p]) /\ IsFiniteSet(Words[q])
  BY ScoresAssumption
<1>2. IsFiniteSet(Words[p] \cup Words[q])
  BY <1>1, FS_Union
<1>3. /\ IsFiniteSet(Words[p] \cap Words[q])
      /\ Cardinality(Words[p] \cap Words[q]) <= Cardinality(Words[p] \cup Words[q])
  BY <1>2, FS_Subset
<1>4. /\ Cardinality(Words[p] \cap Words[q]) \in Nat
      /\ Cardinality(Words[p] \cup Words[q]) \in Nat
  BY <1>2, <1>3, FS_CardinalityType
<1>5. Words[p] \cup Words[q] # {} => Cardinality(Words[p] \cup Words[q]) > 0
  BY <1>2, <1>4, FS_EmptySet
<1>6. Words[p] = {} => Cardinality(Words[p] \cap Words[q]) = 0
  <2>1. Words[p] = {} => Words[p] \cap Words[q] = {}
    OBVIOUS
  <2> QED BY <1>3, <2>1, FS_EmptySet
<1>7. Words[p] # {} => Shared(p, p) = Total(p, p)
  <2>1. Words[p] \cap Words[p] = Words[p] /\ Words[p] \cup Words[p] = Words[p]
    OBVIOUS
  <2> QED BY <2>1 DEF Shared, Total
<1>8. Words[p] \cup Words[q] = {} => Cardinality(Words[p] \cap Words[q]) = 0
  BY <1>6
<1> QED BY <1>3, <1>4, <1>5, <1>6, <1>7, <1>8 DEF Shared, Total

(* Multiplying by a positive number keeps an order.                        *)
LEMMA Scaling ==
  ASSUME NEW a \in Nat, NEW b \in Nat, NEW d \in Nat, d > 0, a > b
  PROVE  a * d > b * d
<1>1. PICK e \in Nat : a = b + e /\ e > 0
  <2>1. a - b \in Nat /\ a = b + (a - b) /\ a - b > 0
    OBVIOUS
  <2> QED BY <2>1
<1>2. a * d = b * d + e * d
  BY <1>1
<1>3. e * d > 0 /\ e * d \in Nat /\ b * d \in Nat
  BY <1>1
<1> QED BY <1>2, <1>3

(* What is better by meaning and no worse by words is sorted before.       *)
LEMMA BetterOutranks ==
  ASSUME NEW p \in Prompts, NEW q \in Prompts, NEW r \in Prompts, BetterFor(p, q, r)
  PROVE  Outranks(p, q, r)
<1> DEFINE x == Total(p, q)
           y == Total(p, r)
           s == Shared(p, q)
           t == Shared(p, r)
           a == 4 * Semantic[p][q]
           b == 4 * Semantic[p][r]
<1>1. /\ x \in Nat /\ x > 0 /\ y \in Nat /\ y > 0 /\ s \in Nat /\ t \in Nat
      /\ a \in Nat /\ b \in Nat /\ a > b /\ s * y >= t * x
  <2>1. x \in Nat /\ x > 0 /\ y \in Nat /\ y > 0 /\ s \in Nat /\ t \in Nat
    BY FractionType
  <2>2. /\ Semantic[p][q] \in Nat /\ Semantic[p][r] \in Nat
        /\ Semantic[p][q] > Semantic[p][r]
    <3>1. Semantic[p] \in [Prompts -> 0..100]
      BY ScoresAssumption
    <3>2. Semantic[p][q] \in 0..100 /\ Semantic[p][r] \in 0..100
      BY <3>1
    <3>3. Semantic[p][q] > Semantic[p][r]
      BY DEF BetterFor
    <3> QED BY <3>2, <3>3
  <2>3. \A u, v \in Nat : u > v => 4 * u \in Nat /\ 4 * v \in Nat /\ 4 * u > 4 * v
    OBVIOUS
  <2>4. s * y >= t * x
    BY DEF BetterFor
  <2>5. a \in Nat /\ b \in Nat /\ a > b
    BY <2>2, <2>3
  <2> QED BY <2>1, <2>4, <2>5
<1>2. Outranks(p, q, r) <=> a * x * y + 100 * s * y > b * x * y + 100 * t * x
  BY DEF Outranks
<1> HIDE DEF x, y, s, t, a, b
<1>3. x * y \in Nat /\ x * y > 0
  BY <1>1
<1>4. a * (x * y) > b * (x * y)
  BY <1>1, <1>3, Scaling
<1>5. a * x * y = a * (x * y) /\ b * x * y = b * (x * y)
  BY <1>1
<1>6. 100 * s * y = 100 * (s * y) /\ 100 * t * x = 100 * (t * x)
  BY <1>1
<1>7. s * y \in Nat /\ t * x \in Nat /\ a * (x * y) \in Nat /\ b * (x * y) \in Nat
  BY <1>1, <1>3
<1>8. a * (x * y) + 100 * (s * y) > b * (x * y) + 100 * (t * x)
  BY <1>1, <1>4, <1>7
<1> QED BY <1>2, <1>5, <1>6, <1>8

(* Nothing is as good for a prompt as the prompt itself.                   *)
LEMMA SelfBetter ==
  ASSUME NEW p \in Prompts, NEW q \in Prompts, p # q
  PROVE  BetterFor(p, p, q)
<1>1. Semantic[p][p] > Semantic[p][q]
  BY ScoresAssumption
<1> DEFINE n == Shared(p, p)
           m == Total(p, p)
           s == Shared(p, q)
           t == Total(p, q)
<1>2. /\ n \in Nat /\ m \in Nat /\ s \in Nat /\ t \in Nat /\ s <= t
      /\ (Words[p] # {} => n = m) /\ (Words[p] = {} => s = 0 /\ n = 0)
  BY FractionType
<1>3. n * t >= s * m
  <2> HIDE DEF n, m, s, t
  <2>1. CASE Words[p] = {}
    BY <1>2, <2>1
  <2>2. CASE Words[p] # {}
    <3>1. PICK e \in Nat : t = s + e
      <4>1. t - s \in Nat /\ t = s + (t - s)
        BY <1>2
      <4> QED BY <4>1
    <3>2. n * t = s * m + n * e
      BY <1>2, <2>2, <3>1
    <3>3. n * e \in Nat /\ s * m \in Nat
      BY <1>2, <3>1
    <3> QED BY <3>2, <3>3
  <2> QED BY <2>1, <2>2
<1> QED BY <1>1, <1>3 DEF BetterFor

-----------------------------------------------------------------------------
(* The initial states.                                                     *)
LEMMA InitInv == Init => IInv
<1> SUFFICES ASSUME Init PROVE IInv
  OBVIOUS
<1>1. TypeOK
  BY FieldsLength, LimitsAssumption DEF Init, TypeOK, Points
<1>2. CallInv
  BY DEF Init, CallInv
<1>3. BirthInv
  BY FieldsLength DEF Init, BirthInv, RefusedOnlyAtBirth, CancelsHarmless
<1>4. StoreInv
  BY DEF Init, StoreInv, WritesStay, ServedByVersion
<1> QED BY <1>1, <1>2, <1>3, <1>4 DEF IInv

-----------------------------------------------------------------------------
(* Steps that leave Qdrant and the requests alone keep StoreInv.           *)
LEMMA StoreStays ==
  ASSUME IInv, UNCHANGED <<call, points, stored, answer>>
  PROVE  StoreInv'
<1>1. \A c : Version(c)' = Version(c)
  BY DEF Version
<1> QED BY <1>1 DEF IInv, StoreInv, WritesStay, ServedByVersion

(* A failure keeps the invariant, and remembers where it came.             *)
LEMMA RaiseInv ==
  ASSUME IInv, NEW c \in Calls, NEW why \in Failures, at[c] \in Working, Raise(c, why),
         why = "conflict" => at[c] = "create",
         why = "no_collection" => ~collection,
         UNCHANGED <<settings, qdrant, call, existed, gone, answer>>
  PROVE  IInv'
<1> USE DEF IInv
<1>1. /\ at' = [at EXCEPT ![c] = "failed"] /\ [why |-> why, point |-> at[c]] \in Failure
      /\ failure' = [failure EXCEPT ![c] = [why |-> why, point |-> at[c]]]
  BY DEF Raise, Goto, Failure
<1>2. TypeOK'
  BY <1>1 DEF TypeOK, settings, qdrant, Points, Closed
<1>3. CallInv'
  BY <1>1 DEF TypeOK, CallInv, settings, qdrant, Working, Closed
<1>4. BirthInv'
  <2>1. /\ ~collection' => indexes' = 0
        /\ \A d \in Calls :
             /\ at'[d] \in {"index", "upsert", "stored"} \/ d \in existed' \cup stored' => collection'
             /\ at'[d] = "create" => d \notin existed'
             /\ at'[d] = "index" => indexes' < 5 /\ \A e \in Calls : at'[e] = "index" => e = d
    BY <1>1 DEF TypeOK, BirthInv, qdrant
  <2>2. RefusedOnlyAtBirth'
    <3>1. why \in {"conflict", "no_collection"} => c \notin existed
      BY DEF BirthInv
    <3>2. failure'[c].why = why
      BY <1>1 DEF TypeOK
    <3> QED BY <1>1, <3>1, <3>2 DEF TypeOK, BirthInv, RefusedOnlyAtBirth
  <2>3. CancelsHarmless'
    <3>1. ASSUME collection, indexes < 5
          PROVE  \E d \in Calls : Creating(d)' \/ DiedCreating(d)'
      <4>1. PICK d \in Calls : Creating(d) \/ DiedCreating(d)
        BY <3>1, FieldsLength DEF BirthInv, CancelsHarmless
      <4>2. CASE d # c
        BY <1>1, <4>1, <4>2 DEF Creating, DiedCreating, TypeOK
      <4>3. CASE d = c
        <5>1. failure[c] = None
          BY DEF CallInv, Working
        <5>2. at[c] = "index"
          BY <4>1, <4>3, <5>1 DEF Creating, DiedCreating
        <5>3. failure'[c] # None /\ failure'[c].point = "index"
          BY <1>1, <5>2, NoneAssumption DEF TypeOK
        <5> QED BY <5>3 DEF DiedCreating
      <4> QED BY <4>2, <4>3
    <3> QED BY <3>1, FieldsLength DEF CancelsHarmless, qdrant
  <2> QED BY <2>1, <2>2, <2>3 DEF BirthInv
<1>5. StoreInv'
  BY StoreStays DEF qdrant
<1> QED BY <1>2, <1>3, <1>4, <1>5

(* A step of a call that leaves the collection, the failures and the sets  *)
(* as they are, and creates nothing, keeps BirthInv.                       *)
LEMMA BirthStays ==
  ASSUME TypeOK, BirthInv, NEW c \in Calls, NEW point,
         at' = [at EXCEPT ![c] = point], at[c] # "index",
         point \notin {"index", "create"}, point \in {"upsert", "stored"} => collection,
         UNCHANGED <<collection, indexes, stored, existed, failure>>
  PROVE  BirthInv'
<1>1. /\ ~collection' => indexes' = 0
      /\ \A d \in Calls :
           /\ at'[d] \in {"index", "upsert", "stored"} \/ d \in existed' \cup stored' => collection'
           /\ at'[d] = "create" => d \notin existed'
           /\ at'[d] = "index" => indexes' < 5 /\ \A e \in Calls : at'[e] = "index" => e = d
  BY DEF TypeOK, BirthInv
<1>2. RefusedOnlyAtBirth'
  BY DEF BirthInv, RefusedOnlyAtBirth
<1>3. \A d \in Calls : Creating(d) \/ DiedCreating(d) => Creating(d)' \/ DiedCreating(d)'
  BY DEF TypeOK, Creating, DiedCreating
<1>4. CancelsHarmless'
  BY <1>3 DEF BirthInv, CancelsHarmless
<1> QED BY <1>1, <1>2, <1>4 DEF BirthInv

(* A step that only moves a call to another point, by a free thread or a   *)
(* resumed caller, keeps the invariant if the point suits what it asked.   *)
LEMMA MoveInv ==
  ASSUME IInv, NEW c \in Calls, NEW point \in Points,
         at[c] \in Working \ {"index"}, at' = [at EXCEPT ![c] = point],
         point \in {"search", "exists", "upsert", "done", "cancelled"},
         point = "search" => call[c].op = "get",
         point \in {"exists", "upsert"} => call[c].op = "set" /\ c \notin stored,
         point = "upsert" => collection,
         gone' \in SUBSET Calls,
         UNCHANGED <<settings, qdrant, call, existed, answer, failure>>
  PROVE  IInv'
<1> USE DEF IInv
<1>1. TypeOK'
  BY DEF TypeOK, settings, qdrant
<1>2. CallInv'
  BY DEF TypeOK, CallInv, settings, qdrant, Working, Closed
<1>3. BirthInv'
  BY BirthStays DEF qdrant
<1>4. StoreInv'
  BY StoreStays DEF qdrant
<1> QED BY <1>1, <1>2, <1>3, <1>4

(* A call begins with what it asks and the settings of its server.         *)
LEMMA BeginInv ==
  ASSUME IInv, NEW c \in Calls, Begin(c)
  PROVE  IInv'
<1> USE DEF IInv
<1>1. PICK r \in Request : call' = [call EXCEPT ![c] = r]
  <2>1. PICK o \in {"get", "set"}, s \in Servers, p \in Prompts :
          call' = [call EXCEPT ![c] =
            [op |-> o, server |-> s, prompt |-> p, settings |-> deployed[s]]]
    BY DEF Begin
  <2>2. deployed[s] \in Settings
    BY DEF TypeOK
  <2> QED BY <2>1, <2>2 DEF Request
<1>2. /\ at[c] = "idle" /\ at' = [at EXCEPT ![c] = "embed"]
      /\ existed' = IF collection THEN existed \cup {c} ELSE existed
      /\ UNCHANGED <<settings, qdrant, gone, answer, failure>>
  BY DEF Begin, Goto
<1>3. TypeOK'
  BY <1>1, <1>2 DEF TypeOK, settings, qdrant, Points, Working
<1>4. CallInv'
  BY <1>1, <1>2 DEF TypeOK, CallInv, settings, qdrant, Closed
<1>5. BirthInv'
  <2>1. /\ ~collection' => indexes' = 0
        /\ \A d \in Calls :
             /\ at'[d] \in {"index", "upsert", "stored"} \/ d \in existed' \cup stored' => collection'
             /\ at'[d] = "create" => d \notin existed'
             /\ at'[d] = "index" => indexes' < 5 /\ \A e \in Calls : at'[e] = "index" => e = d
    BY <1>2 DEF TypeOK, BirthInv, qdrant
  <2>2. RefusedOnlyAtBirth'
    BY <1>2 DEF CallInv, BirthInv, RefusedOnlyAtBirth
  <2>3. CancelsHarmless'
    <3>1. \A d \in Calls : Creating(d) \/ DiedCreating(d) => Creating(d)' \/ DiedCreating(d)'
      BY <1>2 DEF TypeOK, Creating, DiedCreating
    <3> QED BY <1>2, <3>1 DEF BirthInv, CancelsHarmless, qdrant
  <2> QED BY <2>1, <2>2, <2>3 DEF BirthInv
<1>6. StoreInv'
  <2>1. \A d \in Calls : d # c => call'[d] = call[d] /\ Version(d)' = Version(d)
    BY <1>1 DEF TypeOK, Version
  <2>2. c \notin stored /\ answer[c] = None
    BY <1>2 DEF CallInv
  <2>3. WritesStay'
    <3>1. \A d \in stored : d # c
      BY <2>2
    <3> QED BY <1>2, <2>1, <3>1 DEF StoreInv, WritesStay, TypeOK, qdrant
  <2>4. ServedByVersion'
    <3> SUFFICES ASSUME NEW d \in Calls, answer[d] # None
                 PROVE  /\ answer[d] \in stored
                        /\ Version(answer[d])' = Version(d)'
                        /\ Semantic[call'[d].prompt][call'[answer[d]].prompt] >= Threshold
      BY <1>2 DEF ServedByVersion, qdrant
    <3>1. d # c /\ answer[d] \in stored /\ answer[d] # c /\ answer[d] \in Calls
      BY <2>2 DEF StoreInv, ServedByVersion, TypeOK
    <3> DEFINE w == answer[d]
    <3>2. call'[d] = call[d] /\ call'[w] = call[w] /\ answer' = answer
      BY <1>2, <2>1, <3>1
    <3>3. Version(answer[d])' = Version(w) /\ Version(d)' = Version(d)
      BY <3>2 DEF Version
    <3> QED BY <3>1, <3>2, <3>3 DEF StoreInv, ServedByVersion
  <2> QED BY <2>3, <2>4 DEF StoreInv
<1> QED BY <1>3, <1>4, <1>5, <1>6

(* What a search finds is of the searcher's version and near its prompt.   *)
LEMMA SearchInv ==
  ASSUME IInv, NEW c \in Calls, Search(c)
  PROVE  IInv'
<1> USE DEF IInv
<1>1. PICK point \in {"done", "cancelled"} :
        at' = [at EXCEPT ![c] = point] /\ (c \notin gone => point = "done")
  BY DEF Search, Resume, Goto
<1>2. at[c] = "search" /\ call[c] \in Request /\ answer[c] = None
  BY DEF Search, CallInv
<1>3. UNCHANGED <<settings, qdrant, call, existed, gone, failure>>
  BY DEF Search
<1>4. CASE answer' = answer
  <2>1. point \in Points /\ at[c] \in Working \ {"index"} /\ gone' \in SUBSET Calls
    BY <1>2, <1>3 DEF Points, Closed, Working, TypeOK
  <2> QED BY <1>1, <1>3, <1>4, <2>1, MoveInv
<1>5. CASE answer' # answer
  <2>1. PICK top \in Candidates(c) : \E w \in Reranked(c, top) : answer' = [answer EXCEPT ![c] = w]
    BY <1>5 DEF Search
  <2>2. PICK w \in Reranked(c, top) : answer' = [answer EXCEPT ![c] = w]
    BY <2>1
  <2>3. /\ w \in Calls /\ Score(c, w) >= Threshold
        /\ \E q \in Prompts : points[Version(c)][q] = w
    BY <1>2, CandidateType
  <2>4. point = "done"
    BY <1>1, <1>5 DEF Search
  <2>5. TypeOK'
    BY <1>1, <1>3, <2>2, <2>3 DEF TypeOK, settings, qdrant, Points, Closed
  <2>6. CallInv'
    BY <1>1, <1>2, <1>3, <2>2, <2>3, <2>4 DEF TypeOK, CallInv, settings, qdrant, Closed
  <2>7. BirthInv'
    BY <1>1, <1>2, <1>3, BirthStays DEF qdrant
  <2>8. \A d : Version(d)' = Version(d)
    BY <1>3 DEF Version
  <2>9. w \in stored /\ Version(w) = Version(c)
    BY <1>2, <2>3, VersionType, NoneAssumption DEF StoreInv, WritesStay
  <2>10. ServedByVersion'
    BY <1>3, <2>2, <2>3, <2>8, <2>9 DEF StoreInv, ServedByVersion, TypeOK, Score, qdrant
  <2>11. WritesStay'
    BY <1>3, <2>8 DEF StoreInv, WritesStay, qdrant
  <2> QED BY <2>5, <2>6, <2>7, <2>10, <2>11 DEF StoreInv
<1> QED BY <1>4, <1>5

(* _ensure_collection: whoever finds the collection missing is the creator *)
(* if it is first.                                                         *)
LEMMA EnsureInv ==
  ASSUME IInv, NEW c \in Calls, Exists(c) \/ Create(c) \/ Index(c)
  PROVE  IInv'
<1> USE DEF IInv
<1>1. /\ UNCHANGED <<settings, points, stored, call, existed, gone, answer, failure>>
      /\ at[c] \in {"exists", "create", "index"} /\ call[c].op = "set" /\ c \notin stored
      /\ failure[c] = None
  BY DEF Exists, Create, Index, CallInv, qdrant, Working, Closed
<1>2. StoreInv'
  BY <1>1, StoreStays
<1>3. PICK point \in {"upsert", "cancelled", "create", "index"} :
        at' = [at EXCEPT ![c] = point]
  BY DEF Exists, Create, Index, Resume, Goto, TypeOK
<1>4. CallInv'
  BY <1>1, <1>3 DEF TypeOK, CallInv, settings, Closed
<1>5. CASE Exists(c)
  <2>1. CASE collection
    <3>1. point \in {"upsert", "cancelled"} /\ UNCHANGED <<collection, indexes>>
          /\ at[c] = "exists"
      BY <1>3, <1>5, <2>1 DEF Exists, Resume, Goto, TypeOK, qdrant
    <3>2. BirthInv'
      BY <1>1, <1>3, <2>1, <3>1, BirthStays
    <3>3. TypeOK'
      BY <1>1, <1>3, <3>1 DEF TypeOK, settings, Points, Working, Closed
    <3> QED BY <1>2, <1>4, <3>2, <3>3
  <2>2. CASE ~collection
    <3>1. at' = [at EXCEPT ![c] = "create"] /\ UNCHANGED <<collection, indexes>>
          /\ at[c] = "exists"
      BY <1>5, <2>2 DEF Exists, Goto, qdrant
    <3>2. TypeOK'
      BY <1>1, <3>1 DEF TypeOK, settings, Points, Working
    <3>3. BirthInv'
      BY <1>1, <2>2, <3>1
         DEF TypeOK, BirthInv, RefusedOnlyAtBirth, CancelsHarmless, Creating, DiedCreating
    <3> QED BY <1>2, <1>4, <3>2, <3>3
  <2> QED BY <2>1, <2>2
<1>6. CASE Create(c)
  <2>1. /\ at' = [at EXCEPT ![c] = "index"] /\ ~collection /\ collection' = TRUE
        /\ UNCHANGED indexes /\ indexes = 0
    BY <1>6 DEF Create, Goto, BirthInv
  <2>2. TypeOK'
    BY <1>1, <2>1 DEF TypeOK, settings, Points, Working
  <2>3. BirthInv'
    BY <1>1, <2>1
       DEF TypeOK, BirthInv, RefusedOnlyAtBirth, CancelsHarmless, Creating, DiedCreating
  <2> QED BY <1>2, <1>4, <2>2, <2>3
<1>7. CASE Index(c)
  <2>1. /\ at[c] = "index" /\ indexes' = indexes + 1 /\ indexes \in 0..5 /\ indexes < 5
        /\ collection /\ UNCHANGED collection /\ \A d \in Calls : at[d] = "index" => d = c
    BY <1>7, FieldsLength DEF Index, BirthInv, TypeOK
  <2>2. CASE indexes' = 5
    <3>1. point \in {"upsert", "cancelled"}
      BY <1>3, <1>7, <2>2, FieldsLength DEF Index, Resume, Goto, TypeOK
    <3>2. TypeOK'
      BY <1>1, <1>3, <2>1, <2>2, <3>1, FieldsLength DEF TypeOK, settings, Points, Working, Closed
    <3>3. BirthInv'
      BY <1>1, <1>3, <2>1, <2>2, <3>1, FieldsLength
         DEF TypeOK, BirthInv, RefusedOnlyAtBirth, CancelsHarmless
    <3> QED BY <1>2, <1>4, <3>2, <3>3
  <2>3. CASE indexes' # 5
    <3>1. UNCHANGED at
      BY <1>7, <2>3, FieldsLength DEF Index
    <3>2. TypeOK'
      BY <1>1, <2>1, <2>3, <3>1, FieldsLength DEF TypeOK, settings
    <3>3. BirthInv'
      BY <1>1, <2>1, <2>3, <3>1, FieldsLength
         DEF TypeOK, BirthInv, RefusedOnlyAtBirth, CancelsHarmless, Creating, DiedCreating
    <3> QED BY <1>2, <1>4, <3>2, <3>3
  <2> QED BY <2>2, <2>3
<1> QED BY <1>5, <1>6, <1>7

(* A point is written under the writer's version and prompt.               *)
LEMMA UpsertInv ==
  ASSUME IInv, NEW c \in Calls, Upsert(c)
  PROVE  IInv'
<1> USE DEF IInv
<1>1. /\ at[c] = "upsert" /\ at' = [at EXCEPT ![c] = "stored"]
      /\ points' = [points EXCEPT ![Version(c)][call[c].prompt] = c]
      /\ stored' = stored \cup {c}
      /\ UNCHANGED <<settings, collection, indexes, call, existed, gone, answer, failure>>
  BY DEF Upsert, Goto
<1>2. call[c] \in Request /\ call[c].op = "set" /\ collection
  BY <1>1 DEF CallInv, BirthInv
<1>3. Version(c) \in Versions /\ call[c].prompt \in Prompts
  BY <1>2, VersionType DEF Request
<1>4. TypeOK'
  BY <1>1, <1>3 DEF TypeOK, settings, Points, Working
<1>5. CallInv'
  BY <1>1, <1>2 DEF TypeOK, CallInv, settings, Closed
<1>6. BirthInv'
  <2>1. /\ ~collection' => indexes' = 0
        /\ \A d \in Calls :
             /\ at'[d] \in {"index", "upsert", "stored"} \/ d \in existed' \cup stored' => collection'
             /\ at'[d] = "create" => d \notin existed'
             /\ at'[d] = "index" => indexes' < 5 /\ \A e \in Calls : at'[e] = "index" => e = d
    BY <1>1, <1>2 DEF TypeOK, BirthInv
  <2>2. RefusedOnlyAtBirth' /\ CancelsHarmless'
    BY <1>1 DEF TypeOK, BirthInv, RefusedOnlyAtBirth, CancelsHarmless, Creating, DiedCreating
  <2> QED BY <2>1, <2>2 DEF BirthInv
<1>7. \A d : Version(d)' = Version(d)
  BY <1>1 DEF Version
<1>8. WritesStay'
  <2>1. \A v \in Versions, p \in Prompts :
          points'[v][p] = IF v = Version(c) /\ p = call[c].prompt THEN c ELSE points[v][p]
    BY <1>1, <1>3 DEF TypeOK
  <2>2. \A d \in stored : d \in Calls /\ Version(d) \in Versions /\ call[d].prompt \in Prompts
    <3> SUFFICES ASSUME NEW d \in stored PROVE call[d] \in Request
      BY VersionType DEF TypeOK, Request
    <3> QED BY DEF TypeOK, CallInv, Closed
  <2>3. ASSUME NEW d \in stored' PROVE points'[Version(d)][call[d].prompt] # None
    BY <1>1, <1>3, <2>1, <2>2, <2>3, NoneAssumption DEF StoreInv, WritesStay
  <2>4. ASSUME NEW v \in Versions, NEW p \in Prompts, points'[v][p] # None
        PROVE  /\ points'[v][p] \in stored'
               /\ Version(points'[v][p]) = v /\ call[points'[v][p]].prompt = p
    BY <1>1, <2>1, <2>4 DEF StoreInv, WritesStay
  <2> QED BY <1>1, <1>7, <2>3, <2>4 DEF WritesStay
<1>9. ServedByVersion'
  BY <1>1, <1>7 DEF StoreInv, ServedByVersion
<1> QED BY <1>4, <1>5, <1>6, <1>8, <1>9 DEF StoreInv

(* A restart ends the calls of its server wherever they are.               *)
LEMMA RestartInv ==
  ASSUME IInv, NEW s \in Servers, Restart(s)
  PROVE  IInv'
<1> USE DEF IInv
<1>1. /\ restarts < MaxRestarts /\ restarts' = restarts + 1
      /\ deployed' = [deployed EXCEPT ![s] = env]
      /\ at' = [c \in Calls |-> IF c \in On(s) THEN "failed" ELSE at[c]]
      /\ failure' = [c \in Calls |->
           IF c \in On(s) THEN [why |-> "killed", point |-> at[c]] ELSE failure[c]]
      /\ UNCHANGED <<env, qdrant, call, existed, gone, answer>>
  BY DEF Restart
<1>2. \A c \in On(s) : c \in Calls /\ at[c] \in Working
                        /\ [why |-> "killed", point |-> at[c]] \in Failure
  BY DEF On, Failure, Failures
<1>3. TypeOK'
  BY <1>1, <1>2, LimitsAssumption DEF TypeOK, qdrant, Points, Closed
<1>4. CallInv'
  BY <1>1, <1>2 DEF TypeOK, CallInv, qdrant, Working, Closed
<1>5. BirthInv'
  <2>1. /\ ~collection' => indexes' = 0
        /\ \A d \in Calls :
             /\ at'[d] \in {"index", "upsert", "stored"} \/ d \in existed' \cup stored' => collection'
             /\ at'[d] = "create" => d \notin existed'
             /\ at'[d] = "index" => indexes' < 5 /\ \A e \in Calls : at'[e] = "index" => e = d
    BY <1>1 DEF BirthInv, qdrant
  <2>2. RefusedOnlyAtBirth'
    BY <1>1 DEF BirthInv, RefusedOnlyAtBirth
  <2>3. CancelsHarmless'
    <3>1. ASSUME NEW d \in Calls, Creating(d) \/ DiedCreating(d)
          PROVE  Creating(d)' \/ DiedCreating(d)'
      <4>1. CASE d \in On(s)
        <5>1. failure[d] = None /\ at[d] = "index"
          BY <1>2, <3>1, <4>1 DEF CallInv, Working, Creating, DiedCreating
        <5>2. failure'[d] # None /\ failure'[d].point = "index"
          BY <1>1, <1>2, <4>1, <5>1, NoneAssumption
        <5> QED BY <5>2 DEF DiedCreating
      <4>2. CASE d \notin On(s)
        BY <1>1, <3>1, <4>2 DEF Creating, DiedCreating
      <4> QED BY <4>1, <4>2
    <3> QED BY <1>1, <3>1 DEF BirthInv, CancelsHarmless, qdrant
  <2> QED BY <2>1, <2>2, <2>3 DEF BirthInv
<1>6. StoreInv'
  BY <1>1, StoreStays DEF qdrant
<1> QED BY <1>3, <1>4, <1>5, <1>6

-----------------------------------------------------------------------------
(* Every step keeps the invariant.                                         *)
LEMMA StepInv == IInv /\ [Next]_vars => IInv'
<1> SUFFICES ASSUME IInv, [Next]_vars PROVE IInv'
  OBVIOUS
<1> USE DEF IInv
<1>1. ASSUME NEW c \in Calls, Begin(c) PROVE IInv'
  BY <1>1, BeginInv
<1>2. ASSUME NEW c \in Calls, Embed(c) PROVE IInv'
  <2>1. PICK point \in {"search", "exists"} :
          /\ at' = [at EXCEPT ![c] = point]
          /\ point = "search" <=> call[c].op = "get"
    BY <1>2 DEF Embed, Goto
  <2>2. /\ at[c] = "embed" /\ call[c].op \in {"get", "set"} /\ c \notin stored
        /\ UNCHANGED <<settings, qdrant, call, existed, gone, answer, failure>>
    BY <1>2 DEF Embed, CallInv, Request, Closed
  <2>3. point \in Points /\ at[c] \in Working \ {"index"} /\ gone' \in SUBSET Calls
    BY <2>2 DEF Points, Working, TypeOK
  <2> QED BY <2>1, <2>2, <2>3, MoveInv
<1>3. ASSUME NEW c \in Calls, SearchMissing(c) PROVE IInv'
  BY <1>3, RaiseInv DEF SearchMissing, Working, Failures
<1>4. ASSUME NEW c \in Calls, Search(c) PROVE IInv'
  BY <1>4, SearchInv
<1>5. ASSUME NEW c \in Calls, Exists(c) \/ Create(c) \/ Index(c) PROVE IInv'
  BY <1>5, EnsureInv
<1>6. ASSUME NEW c \in Calls, CreateConflicts(c) PROVE IInv'
  BY <1>6, RaiseInv DEF CreateConflicts, Working, Failures
<1>7. ASSUME NEW c \in Calls, Upsert(c) PROVE IInv'
  BY <1>7, UpsertInv
<1>8. ASSUME NEW c \in Calls, Return(c) PROVE IInv'
  <2>1. PICK point \in {"done", "cancelled"} : at' = [at EXCEPT ![c] = point]
    BY <1>8 DEF Return, Resume, Goto
  <2>2. at[c] = "stored" /\ UNCHANGED <<settings, qdrant, call, existed, gone, answer, failure>>
    BY <1>8 DEF Return
  <2>3. point \in Points /\ at[c] \in Working \ {"index"} /\ gone' \in SUBSET Calls
    BY <2>2 DEF Points, Closed, Working, TypeOK
  <2> QED BY <2>1, <2>2, <2>3, MoveInv
<1>9. ASSUME NEW c \in Calls, Cancel(c) PROVE IInv'
  <2>1. gone' \in SUBSET Calls /\ UNCHANGED <<settings, qdrant, call, existed, answer, failure>>
    BY <1>9 DEF Cancel, TypeOK
  <2>2. CASE at' = [at EXCEPT ![c] = "cancelled"] /\ at[c] \in Working \ {"index"}
    <3>1. "cancelled" \in Points
      BY DEF Points, Closed
    <3> QED BY <2>1, <2>2, <3>1, MoveInv
  <2>3. CASE UNCHANGED at
    BY <2>1, <2>3, StoreStays
       DEF TypeOK, CallInv, BirthInv, RefusedOnlyAtBirth, CancelsHarmless, Creating,
           DiedCreating, settings, qdrant
  <2> QED BY <1>9, <2>2, <2>3 DEF Cancel, Goto, Working
<1>10. ASSUME NEW c \in Calls, Fault(c) PROVE IInv'
  BY <1>10, RaiseInv DEF Fault, Failures
<1>11. ASSUME NEW p \in Providers, NEW m \in Models, Upgrade(p, m) PROVE IInv'
  <2>1. env' \in Settings
    BY <1>11 DEF Upgrade, TypeOK, Settings
  <2>2. UNCHANGED <<deployed, restarts, qdrant, at, call, existed, gone, answer, failure>>
    BY <1>11 DEF Upgrade
  <2> QED BY <2>1, <2>2, StoreStays
          DEF TypeOK, CallInv, BirthInv, RefusedOnlyAtBirth, CancelsHarmless, Creating,
              DiedCreating, qdrant
<1>12. ASSUME NEW s \in Servers, Restart(s) PROVE IInv'
  BY <1>12, RestartInv
<1>13. CASE UNCHANGED vars
  BY <1>13, StoreStays
     DEF TypeOK, CallInv, BirthInv, RefusedOnlyAtBirth, CancelsHarmless, Creating,
         DiedCreating, vars, settings, qdrant
<1> QED BY <1>1, <1>2, <1>3, <1>4, <1>5, <1>6, <1>7, <1>8, <1>9, <1>10, <1>11, <1>12, <1>13
        DEF Next, Step

(* The invariant holds in every reachable state.                           *)
THEOREM Invariance == Spec => []IInv
  BY InitInv, StepInv, PTL DEF Spec

(* Every variable keeps its type, whatever fails and restarts.             *)
THEOREM CacheTypeCorrect == Spec => []TypeOK
  BY Invariance, PTL DEF IInv

(* What get serves was written under the version that asks, for a prompt   *)
(* near enough.                                                            *)
THEOREM RepliesOfVersion == Spec => []ServedByVersion
  BY Invariance, PTL DEF IInv, StoreInv

(* No upgrade, rollback, restart or failure takes a stored reply away.     *)
THEOREM WritesAreKept == Spec => []WritesStay
  BY Invariance, PTL DEF IInv, StoreInv

(* No call that begins once the collection is there is refused.            *)
THEOREM RefusalsEnd == Spec => []RefusedOnlyAtBirth
  BY Invariance, PTL DEF IInv, BirthInv

(* Only the death of the creating thread leaves indexes missing.           *)
THEOREM CancelsAreHarmless == Spec => []CancelsHarmless
  BY Invariance, PTL DEF IInv, BirthInv

-----------------------------------------------------------------------------
(* What a search returns is not beaten by anything it could have returned. *)
LEMMA RerankedBest ==
  ASSUME TypeOK, WritesStay, NEW c \in Calls, call[c] \in Request,
         NEW top \in Candidates(c), NEW w \in Reranked(c, top)
  PROVE  Best(c, w)
<1> DEFINE p == call[c].prompt
           v == Version(c)
<1>1. /\ w \in Calls /\ w \in top /\ Score(c, w) >= Threshold
      /\ \E q \in Prompts : points[v][q] = w
  BY CandidateType
<1>2. p \in Prompts /\ v \in Versions
  BY VersionType DEF Request
<1>3. ASSUME NEW q \in Prompts, points[v][q] # None
      PROVE  call[points[v][q]].prompt = q
  BY <1>2, <1>3 DEF WritesStay
<1>4. w # None /\ call[w].prompt \in Prompts
  <2>1. PICK q \in Prompts : points[v][q] = w
    BY <1>1
  <2>2. w # None
    BY <1>1, NoneAssumption
  <2> QED BY <1>3, <2>1, <2>2
<1>5. ASSUME NEW q \in Prompts, points[v][q] # None
      PROVE  ~BetterFor(p, q, call[w].prompt)
  <2> SUFFICES ASSUME BetterFor(p, q, call[w].prompt) PROVE FALSE
    OBVIOUS
  <2> DEFINE x == points[v][q]
  <2>1. call[x].prompt = q /\ Score(c, x) > Score(c, w)
    BY <1>3, <1>5 DEF Score, BetterFor
  <2>2. Score(c, x) \in Nat /\ Score(c, w) \in Nat /\ Threshold \in Nat
    <3>1. \A r \in Prompts : Semantic[p][r] \in 0..100
      BY <1>2, ScoresAssumption
    <3>2. Semantic[p][call[x].prompt] \in 0..100 /\ Semantic[p][call[w].prompt] \in 0..100
      BY <1>4, <2>1, <3>1
    <3>3. Threshold \in 0..100
      BY ScoresAssumption
    <3>4. Score(c, x) \in 0..100 /\ Score(c, w) \in 0..100
      BY <3>2 DEF Score
    <3> QED BY <3>3, <3>4
  <2>3. x \in Qualifying(c)
    BY <1>1, <1>5, <2>1, <2>2 DEF Qualifying, Entries, Filter
  <2>4. CASE x \in top
    <3>1. ~Outranks(p, call[x].prompt, call[w].prompt)
      BY <2>4 DEF Reranked
    <3> QED BY <1>2, <1>4, <2>1, <3>1, BetterOutranks
  <2>5. CASE x \notin top
    <3>1. Score(c, w) >= Score(c, x)
      BY <1>1, <2>3, <2>5 DEF Candidates
    <3> QED BY <2>1, <2>2, <3>1
  <2> QED BY <2>4, <2>5
<1>6. ASSUME points[v][p] # None
      PROVE  w = points[v][p]
  <2>1. call[w].prompt = p
    BY <1>2, <1>4, <1>5, <1>6, SelfBetter
  <2>2. PICK q \in Prompts : points[v][q] = w
    BY <1>1
  <2>3. q = p
    BY <1>3, <1>4, <2>1, <2>2
  <2> QED BY <2>2, <2>3
<1> QED BY <1>5, <1>6 DEF Best

(* An exact repetition gets its own reply, and nobody a reply that another *)
(* stored one beats by meaning without losing by words, for every top_k.   *)
THEOREM BestIsServed == Spec => BestServed
<1>1. IInv /\ [Next]_vars =>
        [\A c \in Calls : answer'[c] # answer[c] => Best(c, answer'[c])]_vars
  <2> SUFFICES ASSUME IInv, [Next]_vars, NEW c \in Calls, answer'[c] # answer[c]
               PROVE  Best(c, answer'[c])
    OBVIOUS
  <2>1. PICK d \in Calls : Search(d)
    BY DEF Next, Step, Begin, Embed, SearchMissing, Exists, Create, CreateConflicts, Index,
           Upsert, Return, Cancel, Fault, Upgrade, Restart, vars
  <2>2. PICK top \in Candidates(d) : \E w \in Reranked(d, top) : answer' = [answer EXCEPT ![d] = w]
    BY <2>1 DEF Search
  <2>3. PICK w \in Reranked(d, top) : answer' = [answer EXCEPT ![d] = w]
    BY <2>2
  <2>4. c = d /\ answer'[c] = w
    BY <2>3 DEF IInv, TypeOK
  <2>5. call[d] \in Request
    BY <2>1 DEF Search, IInv, CallInv
  <2> QED BY <2>4, <2>5, RerankedBest DEF IInv, StoreInv
<1> QED BY <1>1, Invariance, PTL DEF Spec, BestServed

-----------------------------------------------------------------------------
(* The contract.                                                           *)

(* The contract's variables that are not the cache's own.                  *)
AsRequest == [c \in Calls |-> IF call[c] = None THEN None
  ELSE [op |-> call[c].op, version |-> Version(c), prompt |-> call[c].prompt]]
AsPhase == [c \in Calls |-> IF at[c] \in Working THEN "open"
                            ELSE IF at[c] = "cancelled" THEN "failed" ELSE at[c]]

(* A call that is neither idle nor closed is open for its client.          *)
LEMMA FailStep ==
  ASSUME TypeOK, NEW gives \in SUBSET {c \in Calls : at[c] \in Working},
         \A c \in gives : at'[c] \in {"failed", "cancelled"},
         \A c \in Calls \ gives : at'[c] = at[c],
         UNCHANGED <<points, call, stored, answer>>
  PROVE  Contract!Fail
<1> DEFINE phase == [c \in Calls |-> IF at[c] \in Working THEN "open"
                            ELSE IF at[c] = "cancelled" THEN "failed" ELSE at[c]]
<1>1. gives \in SUBSET {c \in Calls : phase[c] = "open"}
  OBVIOUS
<1>2. \A c \in gives : phase'[c] = "failed"
  BY DEF Working
<1>3. \A c \in Calls \ gives : phase'[c] = phase[c]
  OBVIOUS
<1>4. phase' = [c \in Calls |-> IF c \in gives THEN "failed" ELSE phase[c]]
  BY <1>2, <1>3
<1>5. \A c : Version(c)' = Version(c)
  BY DEF Version
<1> QED BY <1>1, <1>4, <1>5 DEF Contract!Fail

(* One call fails, or is cancelled.                                        *)
LEMMA OneFails ==
  ASSUME TypeOK, NEW c \in Calls, at[c] \in Working, NEW point \in {"failed", "cancelled"},
         at' = [at EXCEPT ![c] = point], UNCHANGED <<points, call, stored, answer>>
  PROVE  Contract!Fail
<1>1. {c} \in SUBSET {d \in Calls : at[d] \in Working}
  OBVIOUS
<1>2. \A d \in {c} : at'[d] \in {"failed", "cancelled"}
  BY DEF TypeOK
<1>3. \A d \in Calls \ {c} : at'[d] = at[d]
  BY DEF TypeOK
<1> QED BY <1>1, <1>2, <1>3, FailStep

(* A step between open points is invisible.                                *)
LEMMA OneStays ==
  ASSUME TypeOK, NEW c \in Calls, at[c] \in Working, NEW point \in Working,
         at' = [at EXCEPT ![c] = point], UNCHANGED <<points, call, stored, answer>>
  PROVE  UNCHANGED Contract!vars
<1>1. \A d \in Calls : at'[d] = at[d] \/ (at[d] \in Working /\ at'[d] \in Working)
  BY DEF TypeOK
<1>2. AsPhase' = AsPhase
  BY <1>1 DEF AsPhase
<1>3. AsRequest' = AsRequest
  <2>1. \A d : Version(d)' = Version(d)
    BY DEF Version
  <2> QED BY <2>1 DEF AsRequest
<1> QED BY <1>2, <1>3 DEF Contract!vars, AsPhase, AsRequest

(* A step that touches none of these variables is invisible.               *)
LEMMA NoneMoves ==
  ASSUME UNCHANGED <<at, points, call, stored, answer>>
  PROVE  UNCHANGED Contract!vars
<1>1. \A d : Version(d)' = Version(d)
  BY DEF Version
<1> QED BY <1>1 DEF Contract!vars

(* A call that begins asks.                                                *)
LEMMA AskStep ==
  ASSUME IInv, NEW c \in Calls, Begin(c), IInv'
  PROVE  Contract!Ask(c)
<1>1. /\ at[c] = "idle" /\ at' = [at EXCEPT ![c] = "embed"]
      /\ call' = [call EXCEPT ![c] = call'[c]]
      /\ UNCHANGED <<points, stored, answer>>
  <2>1. \A d \in Calls : d # c => call'[d] = call[d]
    BY DEF Begin, IInv, TypeOK
  <2>2. call' = [call EXCEPT ![c] = call'[c]]
    BY <2>1 DEF IInv, TypeOK
  <2> QED BY <2>2 DEF Begin, Goto, qdrant
<1>2. call'[c] \in Request /\ call'[c] # None
  BY <1>1, NoneAssumption DEF IInv, TypeOK, CallInv
<1> DEFINE r == [op |-> call'[c].op, version |-> Version(c)', prompt |-> call'[c].prompt]
<1>3. r \in Contract!Request
  <2>1. Version(c)' \in Versions
    <3>1. DefaultProvider \in Providers /\ call'[c].settings \in Settings
      BY <1>2 DEF Request, DefaultProvider, Providers
    <3> QED BY <3>1 DEF Version, Versions, Settings
  <2> QED BY <1>2, <2>1 DEF Contract!Request, Request
<1>4. AsRequest' = [AsRequest EXCEPT ![c] = r]
  <2>1. AsRequest'[c] = r
    BY <1>2 DEF AsRequest
  <2>2. \A d \in Calls : d # c => AsRequest'[d] = AsRequest[d]
    <3> SUFFICES ASSUME NEW d \in Calls, d # c PROVE AsRequest'[d] = AsRequest[d]
      OBVIOUS
    <3>1. call'[d] = call[d] /\ Version(d)' = Version(d)
      BY <1>1 DEF IInv, TypeOK, Version
    <3> QED BY <3>1 DEF AsRequest
  <2> QED BY <2>1, <2>2 DEF AsRequest
<1>5. AsPhase[c] = "idle" /\ AsPhase' = [AsPhase EXCEPT ![c] = "open"]
  BY <1>1 DEF AsPhase, Working, IInv, TypeOK
<1> QED BY <1>1, <1>3, <1>4, <1>5 DEF Contract!Ask, AsRequest, AsPhase

(* What a search may return is what the contract lets it reply.            *)
LEMMA RepliesQualify ==
  ASSUME IInv, NEW c \in Calls, call[c] \in Request
  PROVE  Contract!Replies(c) = Qualifying(c)
<1> DEFINE p == call[c].prompt
           v == Version(c)
           Near == {q \in Prompts : Semantic[p][q] >= Threshold}
<1>1. p \in Prompts /\ v \in Versions
  BY VersionType DEF Request
<1>2. AsRequest[c].version = v /\ AsRequest[c].prompt = p
  BY NoneAssumption DEF AsRequest
<1>3. Contract!Replies(c) = {points[v][q] : q \in Near} \ {None}
  BY <1>1, <1>2 DEF Contract!Replies, AsRequest
<1>4. \A q \in Prompts : points[v][q] # None => call[points[v][q]].prompt = q
  BY <1>1 DEF IInv, StoreInv, WritesStay
<1> HIDE DEF p, v
<1>5. Qualifying(c) = {w \in {points[v][q] : q \in Prompts} \ {None} :
                         Semantic[p][call[w].prompt] >= Threshold}
  <2>1. Entries(c) = {points[v][q] : q \in Prompts} \ {None}
    BY DEF Entries, Filter, v
  <2> QED BY <2>1 DEF Qualifying, Score, p
<1> QED BY <1>3, <1>4, <1>5

(* A search replies what the map holds at that moment, or that it holds    *)
(* nothing.                                                                *)
LEMMA ReplyStep ==
  ASSUME IInv, NEW c \in Calls, Search(c), c \notin gone
  PROVE  Contract!Reply(c)
<1>1. /\ at[c] = "search" /\ call[c] \in Request /\ call[c].op = "get"
      /\ at' = [at EXCEPT ![c] = "done"]
      /\ UNCHANGED <<points, call, stored>>
  BY DEF Search, Resume, Goto, qdrant, IInv, CallInv
<1>2. AsPhase[c] = "open" /\ AsRequest[c].op = "get"
  BY <1>1, NoneAssumption DEF AsPhase, AsRequest, Working
<1>3. AsPhase' = [AsPhase EXCEPT ![c] = "done"] /\ AsRequest' = AsRequest
  <2>1. AsPhase' = [AsPhase EXCEPT ![c] = "done"]
    BY <1>1 DEF AsPhase, Working, IInv, TypeOK
  <2>2. \A d : Version(d)' = Version(d)
    BY <1>1 DEF Version
  <2> QED BY <1>1, <2>1, <2>2 DEF AsRequest
<1>4. IF Contract!Replies(c) = {} THEN UNCHANGED answer
      ELSE \E w \in Contract!Replies(c) : answer' = [answer EXCEPT ![c] = w]
  <2>1. Contract!Replies(c) = Qualifying(c)
    BY <1>1, RepliesQualify
  <2>2. CASE Qualifying(c) = {}
    BY <2>1, <2>2 DEF Search
  <2>3. CASE Qualifying(c) # {}
    <3>1. PICK top \in Candidates(c) : \E w \in Reranked(c, top) : answer' = [answer EXCEPT ![c] = w]
      BY <2>3 DEF Search
    <3>2. PICK w \in Reranked(c, top) : answer' = [answer EXCEPT ![c] = w]
      BY <3>1
    <3>3. w \in Qualifying(c)
      BY <1>1, CandidateType DEF IInv
    <3> QED BY <2>1, <2>3, <3>2, <3>3
  <2> QED BY <2>2, <2>3
<1> QED BY <1>1, <1>2, <1>3, <1>4 DEF Contract!Reply, AsPhase, AsRequest

(* An upsert puts a reply into the map, once for each set.                 *)
LEMMA PutStep ==
  ASSUME IInv, NEW c \in Calls, Upsert(c)
  PROVE  Contract!Put(c)
<1>1. /\ at[c] = "upsert" /\ call[c] \in Request /\ call[c].op = "set" /\ c \notin stored
      /\ at' = [at EXCEPT ![c] = "stored"]
      /\ points' = [points EXCEPT ![Version(c)][call[c].prompt] = c]
      /\ stored' = stored \cup {c} /\ UNCHANGED <<call, answer>>
  BY DEF Upsert, Goto, IInv, CallInv, Closed
<1>2. /\ AsPhase[c] = "open" /\ AsRequest[c].op = "set"
      /\ AsRequest[c].version = Version(c) /\ AsRequest[c].prompt = call[c].prompt
  BY <1>1, NoneAssumption DEF AsPhase, AsRequest, Working
<1>3. AsPhase' = AsPhase /\ AsRequest' = AsRequest
  <2>1. AsPhase' = AsPhase
    BY <1>1 DEF AsPhase, Working, IInv, TypeOK
  <2>2. \A d : Version(d)' = Version(d)
    BY <1>1 DEF Version
  <2> QED BY <1>1, <2>1, <2>2 DEF AsRequest
<1> QED BY <1>1, <1>2, <1>3 DEF Contract!Put, AsPhase, AsRequest

(* A set is reported done when it has taken effect.                        *)
LEMMA ConfirmStep ==
  ASSUME IInv, NEW c \in Calls, Return(c), c \notin gone
  PROVE  Contract!Confirm(c)
<1>1. /\ at[c] = "stored" /\ c \in stored /\ at' = [at EXCEPT ![c] = "done"]
      /\ UNCHANGED <<points, call, stored, answer>>
  BY DEF Return, Resume, Goto, qdrant, IInv, CallInv
<1>2. AsPhase[c] = "open" /\ AsPhase' = [AsPhase EXCEPT ![c] = "done"]
  BY <1>1 DEF AsPhase, Working, IInv, TypeOK
<1>3. AsRequest' = AsRequest
  <2>1. \A d : Version(d)' = Version(d)
    BY <1>1 DEF Version
  <2> QED BY <1>1, <2>1 DEF AsRequest
<1> QED BY <1>1, <1>2, <1>3 DEF Contract!Confirm, AsPhase, AsRequest

(* The cache is an atomic map, whatever is interleaved, cancelled, restarted*)
(* or upgraded.                                                            *)
THEOREM ContractImplemented == Spec => ImplementsContract
<1>1. Init => Contract!Init
  BY DEF Init, Contract!Init, Working
<1>2. IInv /\ IInv' /\ [Next]_vars => [Contract!Next]_(Contract!vars)
  <2> SUFFICES ASSUME IInv, IInv', [Next]_vars PROVE [Contract!Next]_(Contract!vars)
    OBVIOUS
  <2>1. ASSUME NEW c \in Calls, Begin(c) PROVE Contract!Next
    BY <2>1, AskStep DEF Contract!Next
  <2>2. ASSUME NEW c \in Calls, Embed(c) PROVE UNCHANGED Contract!vars
    <3>1. /\ at[c] \in Working /\ UNCHANGED <<points, call, stored, answer>>
          /\ \E point \in Working : at' = [at EXCEPT ![c] = point]
      BY <2>2 DEF Embed, Goto, qdrant, Working
    <3> QED BY <3>1, OneStays DEF IInv
  <2>3. ASSUME NEW c \in Calls, SearchMissing(c) \/ CreateConflicts(c) \/ Fault(c)
        PROVE  Contract!Next
    <3>1. /\ at[c] \in Working /\ at' = [at EXCEPT ![c] = "failed"]
          /\ UNCHANGED <<points, call, stored, answer>>
      BY <2>3 DEF SearchMissing, CreateConflicts, Fault, Raise, Goto, qdrant, Working
    <3>2. Contract!Fail
      BY <3>1, OneFails DEF IInv
    <3> QED BY <3>2 DEF Contract!Next
  <2>4. ASSUME NEW c \in Calls, Search(c) \/ Return(c) PROVE Contract!Next
    <3>1. CASE c \in gone
      <4>1. /\ at[c] \in Working /\ at' = [at EXCEPT ![c] = "cancelled"]
            /\ UNCHANGED <<points, call, stored, answer>>
        BY <2>4, <3>1 DEF Search, Return, Resume, Goto, qdrant, Working
      <4>2. Contract!Fail
        BY <4>1, OneFails DEF IInv
      <4> QED BY <4>2 DEF Contract!Next
    <3>2. CASE c \notin gone
      BY <2>4, <3>2, ReplyStep, ConfirmStep DEF Contract!Next
    <3> QED BY <3>1, <3>2
  <2>5. ASSUME NEW c \in Calls, Exists(c) \/ Create(c) \/ Index(c)
        PROVE  [Contract!Next]_(Contract!vars)
    <3>1. UNCHANGED <<points, call, stored, answer>> /\ at[c] \in Working
      BY <2>5 DEF Exists, Create, Index, qdrant, Working
    <3>2. PICK point \in {"upsert", "cancelled", "create", "index"} : at' = [at EXCEPT ![c] = point]
      BY <2>5 DEF Exists, Create, Index, Resume, Goto, IInv, TypeOK
    <3>3. CASE point = "cancelled"
      <4>1. Contract!Fail
        BY <3>1, <3>2, <3>3, OneFails DEF IInv
      <4> QED BY <4>1 DEF Contract!Next
    <3>4. CASE point # "cancelled"
      <4>1. point \in Working
        BY <3>4 DEF Working
      <4> QED BY <3>1, <3>2, <4>1, OneStays DEF IInv
    <3> QED BY <3>3, <3>4
  <2>6. ASSUME NEW c \in Calls, Upsert(c) PROVE Contract!Next
    BY <2>6, PutStep DEF Contract!Next
  <2>7. ASSUME NEW c \in Calls, Cancel(c) PROVE [Contract!Next]_(Contract!vars)
    <3>1. UNCHANGED <<points, call, stored, answer>> /\ at[c] \in Working
      BY <2>7 DEF Cancel, qdrant
    <3>2. CASE at' = [at EXCEPT ![c] = "cancelled"]
      <4>1. Contract!Fail
        BY <3>1, <3>2, OneFails DEF IInv
      <4> QED BY <4>1 DEF Contract!Next
    <3>3. CASE UNCHANGED at
      BY <3>1, <3>3, NoneMoves
    <3> QED BY <2>7, <3>2, <3>3 DEF Cancel, Goto
  <2>8. ASSUME NEW p \in Providers, NEW m \in Models, Upgrade(p, m)
        PROVE  UNCHANGED Contract!vars
    BY <2>8, NoneMoves DEF Upgrade, qdrant
  <2>9. ASSUME NEW s \in Servers, Restart(s) PROVE Contract!Next
    <3>1. /\ On(s) \in SUBSET {c \in Calls : at[c] \in Working}
          /\ \A c \in On(s) : at'[c] \in {"failed", "cancelled"}
          /\ \A c \in Calls \ On(s) : at'[c] = at[c]
          /\ UNCHANGED <<points, call, stored, answer>>
      BY <2>9 DEF Restart, On, qdrant
    <3>2. Contract!Fail
      BY <3>1, FailStep DEF IInv
    <3> QED BY <3>2 DEF Contract!Next
  <2>10. CASE UNCHANGED vars
    BY <2>10, NoneMoves DEF vars, qdrant
  <2> QED BY <2>1, <2>2, <2>3, <2>4, <2>5, <2>6, <2>7, <2>8, <2>9, <2>10 DEF Next, Step
<1> QED BY <1>1, <1>2, Invariance, PTL DEF Spec, ImplementsContract, Contract!Spec
=============================================================================
