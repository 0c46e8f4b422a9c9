------------------------ MODULE WebSessionsCapProofs ------------------------
(***************************************************************************)
(* The cap on the sessions of a user, for every cap and any number of      *)
(* overlapping creations.                                                  *)
(***************************************************************************)
EXTENDS WebSessionsProofs, WellFoundedInduction

Used == {c \in Creations : creation[c].stage # "unused"}

Listed(c) == creation[c].stage = "listed"

(* The overlapping creations of a user that were committed.                *)
Finished(u) == {c \in crowded : creation[c].user = u /\ creation[c].stage = "done"}

(* No creation of the same user was committed since this one read its list.*)
Fresh(c) == c \notin crowded \/ Finished(creation[c].user) = {}

(* A stamp is the number of the creations before it.                       *)
StampsInv ==
  /\ \A c \in Used : creation[c].created < Cardinality(Used)
  /\ \A s \in sessions : s.created < Cardinality(Used)

(* Two lists under way make both creations crowded, and each list is of    *)
(* its own user's rows.                                                    *)
OverlapInv ==
  \A c \in Creations : Listed(c) =>
    /\ \A s \in creation[c].victims : s.user = creation[c].user
    /\ \A d \in Creations \ {c} :
         Listed(d) /\ creation[d].user = creation[c].user => c \in crowded

(* Until another is committed, the list is what the table holds.           *)
FreshInv ==
  \A c \in Creations : Listed(c) /\ Fresh(c) =>
    /\ creation[c].victims = Victims(Rows(creation[c].user))
    /\ \A s \in Rows(creation[c].user) : s.created < creation[c].created

(* The first of the overlapping creations to be committed removes as many  *)
(* as it must; each later one may remove nothing.                          *)
Allowed(n) == MaxSessions + (IF n = 0 THEN 0 ELSE n - 1)

SizeInv ==
  /\ IsFiniteSet(sessions)
  /\ \A u \in Accounts : Cardinality(Rows(u)) <= Allowed(Cardinality(Finished(u)))

CapInv == StampsInv /\ OverlapInv /\ FreshInv /\ SizeInv

-----------------------------------------------------------------------------
(* Lemmas on sets and on the rows to remove.                               *)

(* A nonempty set of natural numbers has a least element.                  *)
LEMMA Least ==
  ASSUME NEW S \in SUBSET Nat, S # {}
  PROVE  \E x \in S : \A y \in S : x <= y
<1> DEFINE R == OpToRel(<, Nat)
<1>1. IsWellFoundedOn(R, Nat)
  BY NatLessThanWellFounded, Zenon
<1>2. \A x, y \in Nat : x < y => <<x, y>> \in R
  BY DEF OpToRel
<1> HIDE DEF R
<1>3. PICK x \in S : \A y \in S : ~(<<y, x>> \in R)
  BY <1>1, WFMin
<1>4. \A y \in S : ~(y < x)
  BY <1>2, <1>3
<1>5. \A y \in S : x <= y
  BY <1>4
<1> QED BY <1>5

(* Cardinalities are natural numbers, and grow with the sets.              *)
LEMMA Sizes ==
  ASSUME NEW S, IsFiniteSet(S), NEW T, T \subseteq S
  PROVE  /\ IsFiniteSet(T) /\ Cardinality(S) \in Nat /\ Cardinality(T) \in Nat
         /\ Cardinality(T) <= Cardinality(S)
<1>1. IsFiniteSet(T) /\ Cardinality(T) <= Cardinality(S)
  BY FS_Subset
<1> QED BY <1>1, FS_CardinalityType

LEMMA OneMore ==
  ASSUME NEW S, IsFiniteSet(S), NEW x
  PROVE  /\ IsFiniteSet(S \cup {x}) /\ Cardinality(S) \in Nat
         /\ Cardinality(S \cup {x}) \in Nat /\ Cardinality(S \cup {x}) <= Cardinality(S) + 1
<1>1. Cardinality(S) \in Nat
  BY FS_CardinalityType
<1>2. IsFiniteSet(S \cup {x})
  BY FS_AddElement
<1>3. CASE x \in S
  <2>1. S \cup {x} = S
    BY <1>3
  <2> QED BY <1>1, <1>2, <2>1
<1>4. CASE x \notin S
  <2>1. Cardinality(S \cup {x}) = Cardinality(S) + 1
    BY <1>4, FS_AddElement
  <2> QED BY <1>1, <1>2, <2>1
<1> QED BY <1>3, <1>4

(* The rows older than a row.                                              *)
Older(rows, s) == {t \in rows : t.created < s.created}

(* With the oldest Count - Max + 1 rows removed there is room for one more,*)
(* and all that is removed is older than all that is kept: the oldest row  *)
(* that is kept has Count - Max + 1 rows before it, none of which is kept. *)
LEMMA VictimsMakeRoom ==
  ASSUME NEW rows, IsFiniteSet(rows), \A s \in rows : s.created \in Nat
  PROVE  /\ IsFiniteSet(rows \ Victims(rows))
         /\ Cardinality(rows \ Victims(rows)) <= MaxSessions - 1
         /\ \A s \in Victims(rows), t \in rows \ Victims(rows) : s.created < t.created
<1> DEFINE keep == rows \ Victims(rows)
           n == Cardinality(rows)
<1>1. n \in Nat /\ IsFiniteSet(keep) /\ Cardinality(keep) \in Nat
  BY Sizes
<1>2. \A s \in rows :
        /\ IsFiniteSet(Older(rows, s)) /\ Cardinality(Older(rows, s)) \in Nat
        /\ s \in Victims(rows) <=> Cardinality(Older(rows, s)) < n - MaxSessions + 1
  <2> SUFFICES ASSUME NEW s \in rows
               PROVE  /\ IsFiniteSet(Older(rows, s)) /\ Cardinality(Older(rows, s)) \in Nat
                      /\ s \in Victims(rows)
                           <=> Cardinality(Older(rows, s)) < n - MaxSessions + 1
    OBVIOUS
  <2>1. Older(rows, s) \subseteq rows
    BY DEF Older
  <2>2. IsFiniteSet(Older(rows, s)) /\ Cardinality(Older(rows, s)) \in Nat
    BY <2>1, Sizes
  <2> QED BY <2>2 DEF Victims, Older
<1>3. MaxSessions \in Nat /\ MaxSessions >= 1
  BY MaxSessionsAssumption
<1>4. \A s \in keep : s \in rows /\ Cardinality(Older(rows, s)) >= n - MaxSessions + 1
  BY <1>1, <1>2, <1>3
<1>5. Cardinality(keep) <= MaxSessions - 1
  <2>1. CASE keep = {}
    BY <1>3, <2>1, FS_EmptySet
  <2>2. CASE keep # {}
    <3> DEFINE stamps == {s.created : s \in keep}
    <3>1. stamps \in SUBSET Nat /\ stamps # {}
      BY <2>2
    <3>2. PICK x \in stamps : \A y \in stamps : x <= y
      <4> HIDE DEF stamps
      <4> QED BY <3>1, Least
    <3>3. PICK m \in keep : x = m.created
      BY <3>2
    <3>4. \A t \in keep : m.created <= t.created
      BY <3>2, <3>3
    <3> HIDE DEF stamps
    <3>5. \A t \in keep : ~(t.created < m.created)
      BY <3>3, <3>4
    <3>6. keep \subseteq rows \ Older(rows, m)
      BY <3>5 DEF Older
    <3>7. Older(rows, m) \subseteq rows
      BY DEF Older
    <3>8. /\ IsFiniteSet(rows \ Older(rows, m))
          /\ Cardinality(rows \ Older(rows, m)) = n - Cardinality(Older(rows, m))
      <4>1. rows \cap Older(rows, m) = Older(rows, m)
        BY <3>7
      <4> QED BY <4>1, FS_Difference
    <3>9. Cardinality(keep) <= Cardinality(rows \ Older(rows, m))
      <4> HIDE DEF keep
      <4> QED BY <3>6, <3>8, Sizes
    <3>10. Cardinality(Older(rows, m)) \in Nat
           /\ Cardinality(Older(rows, m)) >= n - MaxSessions + 1
      BY <1>2, <1>4, <3>3
    <3> HIDE DEF keep, n
    <3> QED BY <1>1, <1>3, <3>8, <3>9, <3>10
  <2> QED BY <2>1, <2>2
<1>6. ASSUME NEW s \in Victims(rows), NEW t \in keep
      PROVE  s.created < t.created
  <2>1. s \in rows /\ t \in rows /\ s.created \in Nat /\ t.created \in Nat
    BY DEF Victims
  <2>2. Cardinality(Older(rows, s)) < n - MaxSessions + 1
    BY <1>2, <2>1
  <2>3. Cardinality(Older(rows, t)) >= n - MaxSessions + 1
    BY <1>4
  <2> SUFFICES ASSUME ~(s.created < t.created) PROVE FALSE
    OBVIOUS
  <2>4. t.created <= s.created
    BY <2>1
  <2>5. \A r \in rows : r.created < t.created => r.created < s.created
    BY <2>1, <2>4
  <2>6. Older(rows, t) \subseteq Older(rows, s)
    BY <2>5 DEF Older
  <2>7. Cardinality(Older(rows, t)) <= Cardinality(Older(rows, s))
    BY <1>2, <2>1, <2>6, Sizes
  <2>8. Cardinality(Older(rows, t)) \in Nat /\ Cardinality(Older(rows, s)) \in Nat
    BY <1>2, <2>1
  <2> HIDE DEF keep, n
  <2> QED BY <1>1, <1>3, <2>2, <2>3, <2>7, <2>8
<1> QED BY <1>1, <1>5, <1>6

-----------------------------------------------------------------------------
(* The invariant.                                                          *)

(* The rows of a user are finitely many, with stamps that are numbers.     *)
LEMMA RowsType ==
  ASSUME TypeOK, CapInv, NEW u \in Accounts
  PROVE  /\ IsFiniteSet(Rows(u)) /\ Cardinality(Rows(u)) \in Nat
         /\ \A s \in Rows(u) : s \in sessions /\ s.user = u /\ s.created \in Nat
<1>1. Rows(u) \subseteq sessions /\ \A s \in Rows(u) : s.user = u
  BY DEF Rows
<1>2. \A s \in sessions : s.created \in Nat
  BY DEF TypeOK, Session
<1> QED BY <1>1, <1>2, Sizes DEF CapInv, SizeInv

(* The creations of each kind are finitely many.                           *)
LEMMA CreationsType ==
  ASSUME TypeOK
  PROVE  /\ IsFiniteSet(Used) /\ Cardinality(Used) \in Nat
         /\ \A u : /\ IsFiniteSet(Finished(u)) /\ Cardinality(Finished(u)) \in Nat
                   /\ Finished(u) \subseteq Creations
<1>1. Used \subseteq Creations
  BY DEF Used
<1>2. \A u : Finished(u) \subseteq Creations
  BY DEF Finished, TypeOK
<1> QED BY <1>1, <1>2, CreationsAssumption, Sizes

(* More overlapping commits allow more rows.                               *)
LEMMA AllowedGrows ==
  ASSUME NEW n \in Nat
  PROVE  /\ Allowed(n) \in Nat /\ MaxSessions <= Allowed(n) /\ Allowed(n) <= Allowed(n + 1)
         /\ n # 0 => Allowed(n + 1) = Allowed(n) + 1
<1>1. MaxSessions \in Nat
  BY MaxSessionsAssumption
<1>2. CASE n = 0
  BY <1>1, <1>2 DEF Allowed
<1>3. CASE n # 0
  BY <1>1, <1>3 DEF Allowed
<1> QED BY <1>2, <1>3

(* The start.                                                              *)
LEMMA InitCap == Init => CapInv
<1> SUFFICES ASSUME Init PROVE CapInv
  OBVIOUS
<1>1. Used = {} /\ \A c \in Creations : ~Listed(c)
  BY DEF Init, Used, Listed, Unused
<1>2. sessions = {} /\ crowded = {}
  BY DEF Init
<1>3. StampsInv /\ OverlapInv /\ FreshInv
  BY <1>1, <1>2 DEF StampsInv, OverlapInv, FreshInv
<1>4. \A u : Rows(u) = {} /\ Finished(u) = {}
  BY <1>2 DEF Rows, Finished
<1>5. MaxSessions \in Nat /\ Allowed(0) = MaxSessions
  BY MaxSessionsAssumption DEF Allowed
<1>6. SizeInv
  BY <1>2, <1>4, <1>5, FS_EmptySet DEF SizeInv
<1> QED BY <1>3, <1>6 DEF CapInv

(* What is to be shown of the lists after a step.                          *)
RowsIn(table, u) == {s \in table : s.user = u}

LEMMA FreshNext ==
  ASSUME \A d \in Creations : Listed(d)' /\ Fresh(d)' =>
           /\ creation'[d].victims = Victims(RowsIn(sessions', creation'[d].user))
           /\ \A s \in RowsIn(sessions', creation'[d].user) :
                s.created < creation'[d].created
  PROVE  FreshInv'
  BY DEF FreshInv, Rows, RowsIn, Victims

(* What touches neither the rows nor the creations keeps the invariant.    *)
LEMMA CapKept ==
  ASSUME CapInv, UNCHANGED <<sessions, creation, crowded>>
  PROVE  CapInv'
<1> USE DEF Used, Finished, Fresh, Listed, Rows, Allowed
<1>1. StampsInv'
  BY DEF CapInv, StampsInv
<1>2. OverlapInv'
  BY DEF CapInv, OverlapInv
<1>3. FreshInv'
  BY DEF CapInv, FreshInv
<1>4. SizeInv'
  BY DEF CapInv, SizeInv
<1> QED BY <1>1, <1>2, <1>3, <1>4 DEF CapInv

(* The list is read: the new stamp is above all others, and the creations  *)
(* of the same user that are under way are crowded from now on.            *)
LEMMA ListCap ==
  ASSUME IInv, CapInv, NEW c \in Creations, NEW u \in Accounts, List(c, u)
  PROVE  CapInv'
<1> DEFINE new == [stage |-> "listed", user |-> u, victims |-> Victims(Rows(u)),
                   created |-> Cardinality(Used)]
<1>1. TypeOK /\ creation[c].stage = "unused" /\ sessions' = sessions
  BY DEF IInv, List
<1>2. crowded' = IF UnderWay(u) = {} THEN crowded ELSE crowded \cup UnderWay(u) \cup {c}
  BY DEF List
<1>3. creation' = [creation EXCEPT ![c] = new]
  BY DEF List, Used
<1>4. creation'[c] = new /\ \A d \in Creations : d # c => creation'[d] = creation[d]
  <2> HIDE DEF new
  <2> QED BY <1>1, <1>3 DEF TypeOK
<1>5. /\ new.stage = "listed" /\ new.user = u /\ new.victims = Victims(Rows(u))
      /\ new.created = Cardinality(Used)
  OBVIOUS
<1> HIDE DEF new
<1>6. /\ Used' = Used \cup {c} /\ c \notin Used
      /\ Cardinality(Used) \in Nat /\ Cardinality(Used)' = Cardinality(Used) + 1
  <2>1. Used' = Used \cup {c} /\ c \notin Used
    BY <1>1, <1>4, <1>5 DEF Used
  <2>2. IsFiniteSet(Used) /\ Cardinality(Used) \in Nat
    BY <1>1, CreationsType
  <2> QED BY <2>1, <2>2, FS_AddElement
<1>7. crowded \subseteq crowded' /\ \A d \in crowded' \ crowded : creation[d].stage # "done"
  BY <1>1, <1>2 DEF UnderWay
<1>8. \A v : Finished(v)' = Finished(v)
  <2>1. \A d \in crowded' : d \in Creations
    BY <1>1, <1>2 DEF UnderWay, TypeOK
  <2>2. \A v : \A d \in crowded' :
          creation'[d].user = v /\ creation'[d].stage = "done"
            <=> d \in crowded /\ creation[d].user = v /\ creation[d].stage = "done"
    BY <1>1, <1>4, <1>5, <1>7, <2>1
  <2> QED BY <1>7, <2>2 DEF Finished
<1>9. \A v : Rows(v)' = Rows(v) /\ RowsIn(sessions', v) = Rows(v)
  BY <1>1 DEF Rows, RowsIn
<1>10. StampsInv'
  <2>1. \A s \in sessions : s.created \in Nat /\ s.created < Cardinality(Used)
    BY <1>1 DEF TypeOK, Session, CapInv, StampsInv
  <2>2. ASSUME NEW d \in Used' PROVE creation'[d].created < Cardinality(Used) + 1
    <3>1. CASE d = c
      BY <1>4, <1>5, <1>6, <3>1
    <3>2. CASE d # c
      <4>1. d \in Used /\ d \in Creations /\ creation'[d] = creation[d]
        BY <1>4, <1>6, <2>2, <3>2 DEF Used
      <4>2. creation[d].created \in Nat /\ creation[d].created < Cardinality(Used)
        BY <1>1, <4>1 DEF TypeOK, CapInv, StampsInv
      <4> QED BY <1>6, <4>1, <4>2
    <3> QED BY <3>1, <3>2
  <2>3. \A s \in sessions : s.created < Cardinality(Used) + 1
    BY <1>6, <2>1
  <2> QED BY <1>1, <1>6, <2>2, <2>3 DEF StampsInv
<1>11. OverlapInv'
  <2> SUFFICES ASSUME NEW d \in Creations, Listed(d)'
               PROVE  /\ \A s \in creation'[d].victims : s.user = creation'[d].user
                      /\ \A e \in Creations \ {d} :
                           Listed(e)' /\ creation'[e].user = creation'[d].user => d \in crowded'
    BY DEF OverlapInv
  <2>1. CASE d = c
    <3>1. \A s \in creation'[d].victims : s.user = creation'[d].user
      BY <1>4, <1>5, <2>1 DEF Victims, Rows
    <3>2. ASSUME NEW e \in Creations \ {d}, Listed(e)', creation'[e].user = creation'[d].user
          PROVE  d \in crowded'
      <4>1. e \in UnderWay(u)
        BY <1>4, <1>5, <2>1, <3>2 DEF UnderWay, Listed
      <4> QED BY <1>2, <2>1, <4>1
    <3> QED BY <3>1, <3>2
  <2>2. CASE d # c
    <3>1. creation'[d] = creation[d] /\ Listed(d)
      BY <1>4, <2>2 DEF Listed
    <3>2. \A s \in creation'[d].victims : s.user = creation'[d].user
      BY <3>1 DEF CapInv, OverlapInv
    <3>3. ASSUME NEW e \in Creations \ {d}, Listed(e)', creation'[e].user = creation'[d].user
          PROVE  d \in crowded'
      <4>1. CASE e = c
        <5>1. d \in UnderWay(u)
          BY <1>4, <1>5, <3>1, <3>3, <4>1 DEF UnderWay, Listed
        <5> QED BY <1>2, <5>1
      <4>2. CASE e # c
        <5>1. Listed(e) /\ creation[e].user = creation[d].user
          BY <1>4, <3>1, <3>3, <4>2 DEF Listed
        <5>2. d \in crowded
          BY <3>1, <3>3, <5>1 DEF CapInv, OverlapInv
        <5> QED BY <1>7, <5>2
      <4> QED BY <4>1, <4>2
    <3> QED BY <3>2, <3>3
  <2> QED BY <2>1, <2>2
<1>12. FreshInv'
  <2> SUFFICES ASSUME NEW d \in Creations, Listed(d)', Fresh(d)'
               PROVE  /\ creation'[d].victims = Victims(RowsIn(sessions', creation'[d].user))
                      /\ \A s \in RowsIn(sessions', creation'[d].user) :
                           s.created < creation'[d].created
    BY FreshNext
  <2>1. CASE d = c
    <3>1. \A s \in Rows(u) : s.created < Cardinality(Used)
      BY DEF Rows, CapInv, StampsInv
    <3> QED BY <1>4, <1>5, <1>9, <2>1, <3>1
  <2>2. CASE d # c
    <3>1. creation'[d] = creation[d] /\ Listed(d)
      BY <1>4, <2>2 DEF Listed
    <3>2. Fresh(d)
      BY <1>7, <1>8, <3>1 DEF Fresh
    <3>3. /\ creation[d].victims = Victims(Rows(creation[d].user))
          /\ \A s \in Rows(creation[d].user) : s.created < creation[d].created
      BY <3>1, <3>2 DEF CapInv, FreshInv
    <3> QED BY <1>9, <3>1, <3>3
  <2> QED BY <2>1, <2>2
<1>13. SizeInv'
  BY <1>1, <1>8, <1>9 DEF CapInv, SizeInv
<1> QED BY <1>10, <1>11, <1>12, <1>13 DEF CapInv

(* A creation that settles stays its user's, with its stamp.               *)
LEMMA Settled ==
  ASSUME IInv, NEW c \in Creations, creation[c].stage = "listed",
         NEW stage \in {"done", "failed"}, Settle(c, stage)
  PROVE  /\ \A d \in Creations : /\ creation'[d].user = creation[d].user
                                 /\ creation'[d].created = creation[d].created
         /\ creation'[c].stage = stage
         /\ \A d \in Creations : d # c => creation'[d] = creation[d]
         /\ Used' = Used
<1>1. PICK new \in [stage : {"listed", "done", "failed"}, user : Accounts,
                   victims : SUBSET Session, created : Nat] :
        creation' = [creation EXCEPT ![c] = new]
  BY SettleType
<1>2. creation' = [creation EXCEPT ![c] =
        [[creation[c] EXCEPT !.stage = stage] EXCEPT !.victims = {}]]
  BY DEF Settle, IInv, TypeOK
<1>3. PICK old : old = creation[c] /\ old \in [stage : {"unused", "listed", "done", "failed"},
                    user : Accounts \cup {None}, victims : SUBSET Session, created : Nat]
  BY DEF IInv, TypeOK
<1>4. creation'[c] = [[old EXCEPT !.stage = stage] EXCEPT !.victims = {}]
  BY <1>2, <1>3 DEF IInv, TypeOK
<1>5. /\ creation'[c].user = creation[c].user /\ creation'[c].created = creation[c].created
      /\ creation'[c].stage = stage
  BY <1>3, <1>4
<1>6. \A d \in Creations : d # c => creation'[d] = creation[d]
  BY <1>1 DEF IInv, TypeOK
<1>7. Used' = Used
  BY <1>5, <1>6 DEF Used
<1> QED BY <1>5, <1>6, <1>7

(* The creation is rolled back.                                            *)
LEMMA ConflictCap ==
  ASSUME IInv, CapInv, NEW c \in Creations, Conflict(c)
  PROVE  CapInv'
<1>1. /\ TypeOK /\ creation[c].stage = "listed" /\ Settle(c, "failed")
      /\ sessions' = sessions /\ crowded' = crowded
  BY DEF IInv, Conflict
<1>2. /\ \A d \in Creations : /\ creation'[d].user = creation[d].user
                              /\ creation'[d].created = creation[d].created
      /\ creation'[c].stage = "failed"
      /\ \A d \in Creations : d # c => creation'[d] = creation[d]
      /\ Used' = Used
  BY <1>1, Settled
<1>3. \A d \in Creations : Listed(d)' => d # c /\ Listed(d) /\ creation'[d] = creation[d]
  BY <1>2 DEF Listed
<1>4. \A v : Rows(v)' = Rows(v) /\ RowsIn(sessions', v) = Rows(v)
  BY <1>1 DEF Rows, RowsIn
<1>5. \A v : Finished(v)' = Finished(v)
  <2>1. \A d \in crowded : d \in Creations
    BY <1>1 DEF TypeOK
  <2>2. \A d \in crowded : creation'[d].user = creation[d].user
          /\ (creation'[d].stage = "done" <=> creation[d].stage = "done")
    BY <1>1, <1>2, <2>1
  <2> QED BY <1>1, <2>2 DEF Finished
<1>6. StampsInv'
  BY <1>1, <1>2 DEF CapInv, StampsInv, Used
<1>7. OverlapInv'
  BY <1>1, <1>3 DEF CapInv, OverlapInv
<1>8. FreshInv'
  <2> SUFFICES ASSUME NEW d \in Creations, Listed(d)', Fresh(d)'
               PROVE  /\ creation'[d].victims = Victims(RowsIn(sessions', creation'[d].user))
                      /\ \A s \in RowsIn(sessions', creation'[d].user) :
                           s.created < creation'[d].created
    BY FreshNext
  <2>1. Listed(d) /\ Fresh(d) /\ creation'[d] = creation[d]
    BY <1>1, <1>3, <1>5 DEF Fresh
  <2> QED BY <1>4, <2>1 DEF CapInv, FreshInv
<1>9. SizeInv'
  BY <1>1, <1>4, <1>5 DEF CapInv, SizeInv
<1> QED BY <1>6, <1>7, <1>8, <1>9 DEF CapInv

(* The rows and the finished creations after a commit.                     *)
LEMMA CommitRows ==
  ASSUME IInv, CapInv, NEW c \in Creations, Commit(c)
  PROVE  LET u == creation[c].user
             row == [id |-> c, user |-> u, created |-> creation[c].created]
         IN  /\ u \in Accounts /\ Listed(c) /\ crowded' = crowded /\ Settle(c, "done")
             /\ sessions' = (sessions \ creation[c].victims) \cup {row}
             /\ RowsIn(sessions', u) = (Rows(u) \ creation[c].victims) \cup {row}
             /\ \A v : v # u => RowsIn(sessions', v) = Rows(v)
             /\ \A v : Rows(v)' = RowsIn(sessions', v)
<1> DEFINE u == creation[c].user
           row == [id |-> c, user |-> u, created |-> creation[c].created]
<1>1. /\ Listed(c) /\ crowded' = crowded /\ Settle(c, "done")
      /\ sessions' = (sessions \ creation[c].victims) \cup {row}
  BY DEF Commit, Listed
<1>2. u \in Accounts
  BY <1>1 DEF IInv, CreatorInv, Listed
<1>3. row.user = u /\ \A s \in creation[c].victims : s.user = u
  BY <1>1 DEF CapInv, OverlapInv
<1> HIDE DEF row, u
<1>4. \A v : Rows(v)' = RowsIn(sessions', v)
  BY DEF Rows, RowsIn
<1>5. RowsIn(sessions', u) = (Rows(u) \ creation[c].victims) \cup {row}
  BY <1>1, <1>3 DEF Rows, RowsIn
<1>6. \A v : v # u => RowsIn(sessions', v) = Rows(v)
  BY <1>1, <1>3 DEF Rows, RowsIn
<1> QED BY <1>1, <1>2, <1>4, <1>5, <1>6 DEF row, u

(* A fresh list, once committed, leaves the user within the cap, and none  *)
(* of the rows it removes is newer than one it leaves.                     *)
LEMMA FreshCommit ==
  ASSUME IInv, CapInv, NEW c \in Creations, Commit(c), Fresh(c)
  PROVE  LET u == creation[c].user
         IN  /\ Cardinality(RowsIn(sessions', u)) <= MaxSessions
             /\ \A s \in Rows(u) \ RowsIn(sessions', u), t \in RowsIn(sessions', u) :
                  s.created < t.created
<1> DEFINE u == creation[c].user
           row == [id |-> c, user |-> u, created |-> creation[c].created]
           left == Rows(u) \ creation[c].victims
<1>1. u \in Accounts /\ Listed(c) /\ RowsIn(sessions', u) = left \cup {row}
  BY CommitRows
<1>2. /\ creation[c].victims = Victims(Rows(u))
      /\ \A s \in Rows(u) : s.created < creation[c].created
  BY <1>1 DEF CapInv, FreshInv
<1>3. IsFiniteSet(Rows(u)) /\ \A s \in Rows(u) : s.created \in Nat
  BY <1>1, RowsType DEF IInv
<1>4. /\ IsFiniteSet(left) /\ Cardinality(left) <= MaxSessions - 1
      /\ \A s \in Victims(Rows(u)), t \in left : s.created < t.created
  BY <1>2, <1>3, VictimsMakeRoom
<1>5. row.created = creation[c].created
  OBVIOUS
<1> HIDE DEF row
<1>6. Cardinality(left \cup {row}) <= MaxSessions
  <2> HIDE DEF left
  <2>1. Cardinality(left) \in Nat /\ MaxSessions \in Nat
    BY <1>4, FS_CardinalityType, MaxSessionsAssumption
  <2>2. /\ Cardinality(left \cup {row}) <= Cardinality(left) + 1
        /\ Cardinality(left \cup {row}) \in Nat
    BY <1>4, OneMore
  <2> QED BY <1>4, <2>1, <2>2
<1>7. ASSUME NEW s \in Rows(u) \ RowsIn(sessions', u), NEW t \in RowsIn(sessions', u)
      PROVE  s.created < t.created
  <2>1. s \in Victims(Rows(u)) /\ s \in Rows(u)
    BY <1>1, <1>2
  <2>2. CASE t \in left
    BY <1>4, <2>1, <2>2
  <2>3. CASE t = row
    BY <1>2, <1>5, <2>1, <2>3
  <2> QED BY <1>1, <2>2, <2>3
<1> QED BY <1>1, <1>6, <1>7

(* The creation is committed: at a fresh list the user is back under the   *)
(* cap, and otherwise there is one more finished creation for one more row.*)
LEMMA CommitCap ==
  ASSUME IInv, CapInv, NEW c \in Creations, Commit(c)
  PROVE  CapInv'
<1>0. PICK u : u = creation[c].user
  OBVIOUS
<1> DEFINE row == [id |-> c, user |-> u, created |-> creation[c].created]
<1>1. /\ u \in Accounts /\ Listed(c) /\ crowded' = crowded /\ Settle(c, "done")
      /\ sessions' = (sessions \ creation[c].victims) \cup {row}
      /\ RowsIn(sessions', u) = (Rows(u) \ creation[c].victims) \cup {row}
      /\ \A v : v # u => RowsIn(sessions', v) = Rows(v)
      /\ \A v : Rows(v)' = RowsIn(sessions', v)
  BY <1>0, CommitRows
<1>2. /\ \A d \in Creations : /\ creation'[d].user = creation[d].user
                              /\ creation'[d].created = creation[d].created
      /\ creation'[c].stage = "done"
      /\ \A d \in Creations : d # c => creation'[d] = creation[d]
      /\ Used' = Used
  BY <1>1, Settled DEF Listed
<1>3. TypeOK /\ row.created = creation[c].created
  BY DEF IInv
<1> HIDE DEF row
<1>4. \A d \in Creations : Listed(d)' => d # c /\ Listed(d) /\ creation'[d] = creation[d]
  BY <1>2 DEF Listed
<1>5. /\ \A v : v # u => Finished(v)' = Finished(v)
      /\ Finished(u)' = IF c \in crowded THEN Finished(u) \cup {c} ELSE Finished(u)
      /\ c \notin Finished(u)
  <2>1. crowded' = crowded /\ crowded \subseteq Creations
    BY <1>1, <1>3 DEF TypeOK
  <2>2. \A d \in crowded : d # c =>
          (creation'[d].stage = "done" <=> creation[d].stage = "done")
    BY <1>2, <2>1
  <2>3. \A d \in crowded : creation'[d].user = creation[d].user
    BY <1>2, <2>1
  <2>4. \A v : v # u => Finished(v)' = Finished(v)
    <3> SUFFICES ASSUME NEW v, v # u PROVE Finished(v)' = Finished(v)
      OBVIOUS
    <3>1. \A d \in crowded : creation'[d].user = v /\ creation'[d].stage = "done"
            <=> creation[d].user = v /\ creation[d].stage = "done"
      BY <1>0, <2>1, <2>2, <2>3
    <3> QED BY <2>1, <3>1 DEF Finished
  <2>5. creation[c].stage # "done"
    BY <1>1 DEF Listed
  <2>6. Finished(u)' = {d \in crowded : creation'[d].user = u /\ creation'[d].stage = "done"}
    BY <2>1, <2>3 DEF Finished
  <2>7. ASSUME NEW d \in crowded
        PROVE  d \in Finished(u)' <=> d = c \/ d \in Finished(u)
    BY <1>0, <1>2, <2>1, <2>2, <2>3, <2>6 DEF Finished
  <2>8. Finished(u)' \subseteq crowded /\ Finished(u) \subseteq crowded
    BY <2>6 DEF Finished
  <2>9. c \notin Finished(u)
    BY <2>5 DEF Finished
  <2> QED BY <2>4, <2>7, <2>8, <2>9
<1>6. StampsInv'
  <2>1. \A s \in sessions : s.created < Cardinality(Used)
    BY DEF CapInv, StampsInv
  <2>2. \A d \in Used : creation[d].created < Cardinality(Used)
    BY DEF CapInv, StampsInv
  <2>3. c \in Used
    BY <1>1 DEF Used, Listed
  <2>4. \A s \in sessions' : s.created < Cardinality(Used)
    BY <1>1, <1>3, <2>1, <2>2, <2>3
  <2>5. \A d \in Used : creation'[d].created < Cardinality(Used)
    BY <1>2, <2>2 DEF Used
  <2> QED BY <1>2, <2>4, <2>5 DEF StampsInv
<1>7. OverlapInv'
  BY <1>1, <1>4 DEF CapInv, OverlapInv
<1>8. FreshInv'
  <2> SUFFICES ASSUME NEW d \in Creations, Listed(d)', Fresh(d)'
               PROVE  /\ creation'[d].victims = Victims(RowsIn(sessions', creation'[d].user))
                      /\ \A s \in RowsIn(sessions', creation'[d].user) :
                           s.created < creation'[d].created
    BY FreshNext
  <2>1. d # c /\ Listed(d) /\ creation'[d] = creation[d]
    BY <1>4
  <2>2. CASE creation[d].user = u
    <3>1. d \in crowded /\ c \in crowded
      BY <1>0, <1>1, <2>1, <2>2 DEF CapInv, OverlapInv
    <3>2. c \in Finished(u)'
      BY <1>5, <3>1
    <3>3. u = creation'[d].user
      BY <2>1, <2>2
    <3>4. Fresh(d)' <=> d \notin crowded' \/ Finished(u)' = {}
      BY <3>3 DEF Fresh, Finished
    <3> QED BY <1>1, <3>1, <3>2, <3>4
  <2>3. CASE creation[d].user # u
    <3>1. PICK v : v = creation[d].user /\ v = creation'[d].user /\ v # u
      BY <2>1, <2>3
    <3>2. Fresh(d)' <=> d \notin crowded' \/ Finished(v)' = {}
      BY <3>1 DEF Fresh, Finished
    <3>3. Fresh(d)
      BY <1>1, <1>5, <3>1, <3>2 DEF Fresh
    <3> QED BY <1>1, <2>1, <2>3, <3>3 DEF CapInv, FreshInv
  <2> QED BY <2>2, <2>3
<1>9. SizeInv'
  <2>1. IsFiniteSet(sessions')
    <3>1. IsFiniteSet(sessions \ creation[c].victims)
      BY FS_Difference DEF CapInv, SizeInv
    <3> QED BY <1>1, <3>1, FS_AddElement
  <2>2. ASSUME NEW v \in Accounts, v # u
        PROVE  Cardinality(RowsIn(sessions', v)) <= Allowed(Cardinality(Finished(v)'))
    BY <1>1, <1>5, <2>2 DEF CapInv, SizeInv
  <2>3. Cardinality(RowsIn(sessions', u)) <= Allowed(Cardinality(Finished(u)'))
    <3> DEFINE n == Cardinality(Finished(u))
    <3>1. IsFiniteSet(Finished(u)) /\ n \in Nat
      BY <1>3, CreationsType
    <3>2. IsFiniteSet(Rows(u)) /\ Cardinality(Rows(u)) \in Nat
      BY <1>1, <1>3, RowsType
    <3>3. RowsIn(sessions', u) \subseteq sessions' /\ Cardinality(RowsIn(sessions', u)) \in Nat
      BY <2>1, Sizes DEF RowsIn
    <3>4. CASE Fresh(c)
      <4>1. Cardinality(RowsIn(sessions', u)) <= MaxSessions
        BY <1>0, <3>4, FreshCommit
      <4>2. Cardinality(Finished(u)') \in Nat
        BY <1>5, <3>1, FS_AddElement, FS_CardinalityType
      <4>3. /\ Allowed(Cardinality(Finished(u)')) \in Nat /\ MaxSessions \in Nat
            /\ MaxSessions <= Allowed(Cardinality(Finished(u)'))
        BY <4>2, AllowedGrows, MaxSessionsAssumption
      <4> QED BY <3>3, <4>1, <4>3
    <3>5. CASE ~Fresh(c)
      <4>1. c \in crowded /\ Finished(u) # {}
        BY <1>0, <3>5 DEF Fresh
      <4>2. n # 0 /\ Cardinality(Finished(u)') = n + 1
        BY <1>5, <3>1, <4>1, FS_EmptySet, FS_AddElement
      <4>3. Allowed(n) \in Nat /\ Allowed(n + 1) = Allowed(n) + 1
        BY <3>1, <4>2, AllowedGrows
      <4>4. Cardinality(Rows(u)) <= Allowed(n)
        BY <1>1 DEF CapInv, SizeInv
      <4>5. RowsIn(sessions', u) \subseteq Rows(u) \cup {row}
        BY <1>1
      <4>6. Cardinality(RowsIn(sessions', u)) <= Cardinality(Rows(u)) + 1
        <5>1. /\ IsFiniteSet(Rows(u) \cup {row})
              /\ Cardinality(Rows(u) \cup {row}) <= Cardinality(Rows(u)) + 1
          BY <3>2, OneMore
        <5>2. /\ Cardinality(RowsIn(sessions', u)) <= Cardinality(Rows(u) \cup {row})
              /\ Cardinality(Rows(u) \cup {row}) \in Nat
          BY <4>5, <5>1, Sizes
        <5> QED BY <3>2, <3>3, <5>1, <5>2
      <4> HIDE DEF n
      <4> QED BY <3>2, <3>3, <4>2, <4>3, <4>4, <4>6
    <3> QED BY <3>4, <3>5
  <2> QED BY <1>1, <2>1, <2>2, <2>3 DEF SizeInv
<1> QED BY <1>6, <1>7, <1>8, <1>9 DEF CapInv

(* Every step.                                                             *)
LEMMA NextCap == IInv /\ CapInv /\ [Next]_vars => CapInv'
<1> SUFFICES ASSUME IInv, CapInv, [Next]_vars PROVE CapInv'
  OBVIOUS
<1>1. CASE \E a \in Accounts, n \in Names : Register(a, n)
  BY <1>1, CapKept DEF Register, database
<1>2. CASE \E b \in Browsers : Logout(b) \/ \E a \in Accounts : Login(b, a)
  BY <1>2, CapKept DEF Logout, Login, database
<1>3. ASSUME NEW r \in Requests, Handle(r) PROVE CapInv'
  BY <1>3, CapKept DEF Handle, Refuse, Begin, Head, StreamEnds, StreamFails, Save, Close,
     database
<1>4. ASSUME NEW r \in Requests, Expire(r) PROVE CapInv'
  BY <1>4, CapKept DEF Expire, database
<1>5. ASSUME NEW r \in Requests, NEW b \in Browsers, Send(r, b) PROVE CapInv'
  BY <1>5, CapKept DEF Send, database
<1>6. CASE \E c \in Creations : Commit(c) \/ Conflict(c) \/ \E u \in Accounts : List(c, u)
  BY <1>6, CommitCap, ConflictCap, ListCap
<1>7. CASE UNCHANGED vars
  BY <1>7, CapKept DEF vars, database
<1>8. CASE \E r \in Requests : Handle(r) \/ Expire(r) \/ \E b \in Browsers : Send(r, b)
  BY <1>8, <1>3, <1>4, <1>5
<1> QED BY <1>1, <1>2, <1>6, <1>7, <1>8 DEF Next

(* Both invariants hold throughout.                                        *)
LEMMA CapInvariance == Spec => [](IInv /\ CapInv)
<1>1. Init => IInv /\ CapInv
  BY InitInv, InitCap
<1>2. (IInv /\ CapInv) /\ [Next]_vars => (IInv /\ CapInv)'
  BY NextInv, NextCap
<1> QED BY <1>1, <1>2, PTL DEF Spec

-----------------------------------------------------------------------------
(* Theorems.                                                               *)

(* A user has more rows than the cap only by creations that overlapped,    *)
(* and by fewer than there were of them.                                   *)
THEOREM CapOverrunBounded == Spec => []CapOverrun
<1>1. IInv /\ CapInv => CapOverrun
  <2> SUFFICES ASSUME IInv, CapInv, NEW u \in Accounts
               PROVE  LET together == Cardinality({c \in crowded : creation[c].user = u})
                      IN  Cardinality(Rows(u))
                            <= MaxSessions + (IF together = 0 THEN 0 ELSE together - 1)
    BY DEF CapOverrun
  <2> DEFINE all == {c \in crowded : creation[c].user = u}
             n == Cardinality(Finished(u))
             m == Cardinality(all)
  <2>1. crowded \subseteq Creations
    BY DEF IInv, TypeOK
  <2>2. IsFiniteSet(crowded)
    BY <2>1, CreationsAssumption, Sizes
  <2>3. IsFiniteSet(all) /\ Finished(u) \subseteq all
    BY <2>2, Sizes DEF Finished
  <2>4. n \in Nat /\ m \in Nat /\ n <= m
    <3> HIDE DEF all
    <3> QED BY <2>3, Sizes
  <2>5. Cardinality(Rows(u)) <= Allowed(n) /\ Cardinality(Rows(u)) \in Nat
    BY RowsType DEF IInv, CapInv, SizeInv
  <2>6. MaxSessions \in Nat
    BY MaxSessionsAssumption
  <2> HIDE DEF n, m
  <2>7. Cardinality(Rows(u)) <= MaxSessions + (IF m = 0 THEN 0 ELSE m - 1)
    <3>1. CASE n = 0 /\ m = 0
      BY <2>5, <2>6, <3>1 DEF Allowed
    <3>2. CASE n = 0 /\ m # 0
      BY <2>4, <2>5, <2>6, <3>2 DEF Allowed
    <3>3. CASE n # 0
      BY <2>4, <2>5, <2>6, <3>3 DEF Allowed
    <3> QED BY <3>1, <3>2, <3>3
  <2> QED BY <2>7 DEF m
<1> QED BY <1>1, CapInvariance, PTL

(* A creation that no other overlapped brings the user back under the cap, *)
(* and removes no session that is newer than one it keeps.                 *)
THEOREM CapIsRestored == Spec => CapRestored
<1>1. IInv /\ CapInv /\ [Next]_vars =>
        [\A c \in Creations \ crowded :
           Commit(c) =>
             LET u == creation[c].user
                 rows == {s \in sessions' : s.user = u}
             IN  /\ Cardinality(rows) <= MaxSessions
                 /\ \A s \in Rows(u) \ rows, t \in rows : s.created < t.created]_vars
  <2> SUFFICES ASSUME IInv, CapInv, NEW c \in Creations \ crowded, Commit(c)
               PROVE  LET u == creation[c].user
                          rows == {s \in sessions' : s.user = u}
                      IN  /\ Cardinality(rows) <= MaxSessions
                          /\ \A s \in Rows(u) \ rows, t \in rows : s.created < t.created
    OBVIOUS
  <2>1. Fresh(c)
    BY DEF Fresh
  <2> QED BY <2>1, FreshCommit DEF RowsIn
<1> QED BY <1>1, CapInvariance, PTL DEF Spec, CapRestored
=============================================================================
