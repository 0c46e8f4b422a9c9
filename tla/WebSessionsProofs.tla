-------------------------- MODULE WebSessionsProofs --------------------------
(***************************************************************************)
(* Theorems about WebSessions, for every set of browsers, accounts and     *)
(* requests.                                                               *)
(***************************************************************************)
EXTENDS WebSessions, FiniteSetTheorems, TLAPS

Sent(r) == at[r] # "unsent"

(* Every session id, ASP.NET key and cookie leads back to a request of the *)
(* same browser.                                                           *)
SameBrowser(k, r) == Sent(k) /\ page[k] = page[r]

OriginInv ==
  /\ \A r \in Requests : Sent(r) => page[r] # None /\ key[r] # None /\ SameBrowser(key[r], r)
  /\ \A r \in Requests : sid[r] # None => Sent(r) /\ SameBrowser(sid[r], r)
  /\ \A k \in Requests : kept[k] # None => Sent(k) /\ SameBrowser(kept[k], k)
  /\ \A b \in Browsers : cookie[b] # None => Sent(cookie[b]) /\ page[cookie[b]] = b

(* A request past its stream that was told nothing read all of it, and is  *)
(* stored when it has an account; the one being saved was read.            *)
LossInv ==
  \A r \in Requests :
    /\ at[r] = "saving" => whole[r]
    /\ at[r] \in {"closing", "done"} /\ ~told[r] =>
         whole[r] /\ (claim[r] # None => r \in stored)

CreatorInv == \A c \in Creations : creation[c].stage # "unused" => creation[c].user \in Accounts

IInv == TypeOK /\ OriginInv /\ LossInv /\ CreatorInv

-----------------------------------------------------------------------------
(* Lemmas on the operators.                                                *)

(* A request in the hands of a handler has been sent.                      *)
LEMMA HandledSent ==
  ASSUME IInv, NEW r \in Requests, at[r] # "unsent"
  PROVE  /\ page[r] \in Browsers /\ key[r] \in Requests
         /\ Sent(key[r]) /\ page[key[r]] = page[r]
  BY DEF IInv, TypeOK, OriginInv, SameBrowser, Sent

(* A request's move to another stage.                                      *)
LEMMA GotoType ==
  ASSUME TypeOK, NEW r \in Requests, NEW stage \in Stages, Goto(r, stage)
  PROVE  /\ at' \in [Requests -> Stages] /\ at'[r] = stage
         /\ \A q \in Requests : q # r => at'[q] = at[q]
  BY DEF TypeOK, Goto

(* What is removed was the user's.                                         *)
LEMMA VictimsSubset == \A rows : Victims(rows) \subseteq rows
  BY DEF Victims

(* How many creations there were is a number.                              *)
LEMMA CreatedType ==
  ASSUME NEW S \in SUBSET Creations
  PROVE  Cardinality(S) \in Nat
  BY CreationsAssumption, FS_Subset, FS_CardinalityType

(* The cookie of a new session is set to a request of the browser's own.   *)
LEMMA SetCookieKeeps ==
  ASSUME IInv, NEW r \in Requests, at[r] # "unsent", SetCookie(r) \/ UNCHANGED cookie
  PROVE  /\ cookie' \in [Browsers -> Requests \cup {None}]
         /\ \A b \in Browsers : cookie'[b] # None => Sent(cookie'[b]) /\ page[cookie'[b]] = b
<1>1. page[r] \in Browsers /\ Sent(r)
  BY HandledSent DEF Sent
<1>2. cookie' = cookie \/ cookie' = [cookie EXCEPT ![page[r]] = r]
  BY DEF SetCookie
<1> QED BY <1>1, <1>2 DEF IInv, TypeOK, OriginInv

(* Origins stay when nothing that leads to them moves.                     *)
LEMMA OriginKept ==
  ASSUME IInv, UNCHANGED <<kept, page, key, sid>>,
         \A r \in Requests : at'[r] = "unsent" <=> at[r] = "unsent",
         \A b \in Browsers : cookie'[b] # None => Sent(cookie'[b]) /\ page[cookie'[b]] = b,
         cookie' \in [Browsers -> Requests \cup {None}]
  PROVE  OriginInv'
<1> USE DEF IInv, TypeOK, OriginInv, SameBrowser, Sent
<1>1. \A r \in Requests :
        Sent(r)' => page'[r] # None /\ key'[r] # None /\ SameBrowser(key[r], r)'
  OBVIOUS
<1>2. \A r \in Requests : sid'[r] # None => Sent(r)' /\ SameBrowser(sid[r], r)'
  OBVIOUS
<1>3. \A k \in Requests : kept'[k] # None => Sent(k)' /\ SameBrowser(kept[k], k)'
  OBVIOUS
<1>4. \A b \in Browsers : cookie'[b] # None => Sent(cookie[b])' /\ page'[cookie'[b]] = b
  OBVIOUS
<1> QED BY <1>1, <1>2, <1>3, <1>4

(* Losses are told when nothing about them moves.                          *)
LEMMA LossKept ==
  ASSUME LossInv, UNCHANGED <<at, whole, told, claim, stored>>
  PROVE  LossInv'
  BY DEF LossInv

-----------------------------------------------------------------------------
(* The inductive invariant.                                                *)

(* The start.                                                              *)
LEMMA InitInv == Init => IInv
<1> SUFFICES ASSUME Init PROVE IInv
  OBVIOUS
<1>1. TypeOK
  BY DEF Init, TypeOK, Stages, Unused, Session
<1>2. OriginInv /\ LossInv
  BY DEF Init, OriginInv, LossInv, SameBrowser, Sent
<1>3. CreatorInv
  BY DEF Init, CreatorInv, Unused
<1> QED BY <1>1, <1>2, <1>3 DEF IInv

(* Registration, log-in, log-out: nothing of a request moves.              *)
LEMMA AccountsStep ==
  ASSUME IInv,
         \/ \E a \in Accounts, n \in Names : Register(a, n)
         \/ \E b \in Browsers, a \in Accounts : Login(b, a)
         \/ \E b \in Browsers : Logout(b)
  PROVE  IInv'
<1>1. UNCHANGED <<aspnet, call, database, stored, crowded>>
  BY DEF Register, Login, Logout
<1>2. name' \in [Accounts -> Names \cup {None}] /\ token' \in [Browsers -> Accounts \cup {None}]
  BY DEF Register, Login, Logout, IInv, TypeOK
<1> USE <1>1 DEF IInv, aspnet, call, database
<1>3. TypeOK'
  BY <1>2 DEF TypeOK
<1>4. OriginInv'
  BY OriginKept DEF TypeOK, OriginInv
<1>5. LossInv' /\ CreatorInv'
  BY LossKept DEF CreatorInv
<1> QED BY <1>3, <1>4, <1>5

(* A prompt is sent: nothing led to it yet.                                *)
LEMMA SendStep ==
  ASSUME IInv, NEW r \in Requests, NEW b \in Browsers, Send(r, b)
  PROVE  IInv'
<1> USE DEF IInv
<1> DEFINE k == IF cookie[b] = None THEN r ELSE cookie[b]
<1>1. /\ at[r] = "unsent" /\ Goto(r, "queued")
      /\ page' = [page EXCEPT ![r] = b] /\ key' = [key EXCEPT ![r] = k]
      /\ claim' = [claim EXCEPT ![r] = token[b]]
      /\ UNCHANGED <<accounts, aspnet, sid, whole, told, database, stored, crowded>>
  BY DEF Send
<1>2. /\ at' \in [Requests -> Stages] /\ at'[r] = "queued"
      /\ \A q \in Requests : q # r => at'[q] = at[q]
  BY <1>1, GotoType DEF Stages
<1>3. k \in Requests /\ k # None
  BY IdsAssumption DEF TypeOK
<1>4. TypeOK'
  BY <1>1, <1>2, <1>3 DEF TypeOK, accounts, aspnet, database
<1>5. at'[k] # "unsent" /\ page'[k] = b
  <2>1. CASE k = r
    BY <1>1, <1>2, <2>1 DEF TypeOK
  <2>2. CASE k # r
    BY <1>1, <1>2, <1>3, <2>2 DEF TypeOK, OriginInv, Sent
  <2> QED BY <2>1, <2>2
<1> HIDE DEF k
<1>6. \A q \in Requests : Sent(q) => q # r /\ Sent(q)' /\ page'[q] = page[q] /\ key'[q] = key[q]
  BY <1>1, <1>2 DEF Sent, TypeOK
<1>7. \A q, p \in Requests : Sent(p) /\ SameBrowser(q, p) => SameBrowser(q, p)'
  BY <1>6 DEF SameBrowser
<1>8. \A q \in Requests :
        Sent(q)' => page'[q] # None /\ key'[q] # None /\ SameBrowser(key[q], q)'
  <2> SUFFICES ASSUME NEW q \in Requests, Sent(q)'
               PROVE  page'[q] # None /\ key'[q] # None /\ SameBrowser(key[q], q)'
    OBVIOUS
  <2>1. CASE q = r
    <3>1. key'[q] = k /\ page'[q] = b
      BY <1>1, <2>1 DEF TypeOK
    <3> QED BY <1>3, <1>5, <2>1, <3>1, IdsAssumption DEF SameBrowser, Sent
  <2>2. CASE q # r
    <3>1. Sent(q) /\ key[q] \in Requests
      BY <1>2, <2>2 DEF Sent, OriginInv, TypeOK
    <3> QED BY <1>6, <1>7, <3>1 DEF OriginInv, SameBrowser
  <2> QED BY <2>1, <2>2
<1>9. \A q \in Requests : sid'[q] # None => Sent(q)' /\ SameBrowser(sid[q], q)'
  BY <1>1, <1>6 DEF OriginInv, TypeOK, SameBrowser
<1>10. \A q \in Requests : kept'[q] # None => Sent(q)' /\ SameBrowser(kept[q], q)'
  BY <1>1, <1>6 DEF OriginInv, TypeOK, SameBrowser, aspnet
<1>11. \A d \in Browsers : cookie'[d] # None => Sent(cookie[d])' /\ page'[cookie'[d]] = d
  BY <1>1, <1>6 DEF OriginInv, TypeOK, aspnet
<1>12. OriginInv'
  BY <1>8, <1>9, <1>10, <1>11 DEF OriginInv
<1>13. LossInv'
  BY <1>1, <1>2 DEF LossInv, TypeOK
<1>14. CreatorInv'
  BY <1>1 DEF CreatorInv, database
<1> QED BY <1>4, <1>12, <1>13, <1>14

(* The limiter refuses.                                                    *)
LEMMA RefuseStep ==
  ASSUME IInv, NEW r \in Requests, Refuse(r)
  PROVE  IInv'
<1> USE DEF IInv, aspnet
<1>1. /\ at' \in [Requests -> Stages] /\ at'[r] = "refused" /\ at[r] = "queued"
      /\ \A q \in Requests : q # r => at'[q] = at[q]
  BY GotoType DEF Refuse, Stages
<1>2. TypeOK'
  BY <1>1 DEF Refuse, TypeOK, accounts, database
<1>3. OriginInv'
  BY <1>1, OriginKept DEF Refuse, TypeOK, OriginInv
<1>4. LossInv' /\ CreatorInv'
  BY <1>1 DEF Refuse, LossInv, CreatorInv, database
<1> QED BY <1>2, <1>3, <1>4

(* The session is loaded: its id was drawn in the same browser.            *)
LEMMA BeginStep ==
  ASSUME IInv, NEW r \in Requests, Begin(r)
  PROVE  IInv'
<1> USE DEF IInv, aspnet
<1> DEFINE id == SessionIdFor(key[r], r)
<1>1. /\ at' \in [Requests -> Stages] /\ at'[r] = "calling" /\ at[r] = "queued"
      /\ \A q \in Requests : q # r => at'[q] = at[q]
  BY GotoType DEF Begin, Stages
<1>2. /\ key[r] \in Requests /\ Sent(key[r]) /\ page[key[r]] = page[r]
  BY <1>1, HandledSent
<1>3. id \in Requests /\ SameBrowser(id, r)
  BY <1>1, <1>2 DEF SessionIdFor, TypeOK, OriginInv, SameBrowser, Sent
<1>4. sid' = [sid EXCEPT ![r] = id]
  BY DEF Begin
<1> HIDE DEF id
<1>5. TypeOK'
  <2>1. sid' \in [Requests -> Requests \cup {None}]
    BY <1>3, <1>4 DEF TypeOK
  <2>2. UNCHANGED <<accounts, aspnet, page, claim, key, whole, told, database, stored,
                    crowded>>
    BY DEF Begin
  <2> QED BY <1>1, <2>1, <2>2 DEF TypeOK, accounts, database
<1>6. \A q \in Requests : Sent(q)' <=> Sent(q)
  BY <1>1 DEF Sent
<1>7. \A p, q \in Requests : SameBrowser(p, q) => SameBrowser(p, q)'
  BY <1>6 DEF Begin, SameBrowser
<1>8. \A q \in Requests : sid'[q] # None => Sent(q)' /\ SameBrowser(sid[q], q)'
  <2> SUFFICES ASSUME NEW q \in Requests, sid'[q] # None
               PROVE  Sent(q)' /\ SameBrowser(sid[q], q)'
    OBVIOUS
  <2>1. CASE q = r
    <3>1. sid'[q] = id
      BY <1>4, <2>1 DEF TypeOK
    <3>2. Sent(q)'
      BY <1>1, <2>1 DEF Sent
    <3> QED BY <1>3, <1>7, <2>1, <3>1, <3>2
  <2>2. CASE q # r
    <3>1. sid'[q] = sid[q] /\ sid[q] # None
      BY <1>4, <2>2 DEF TypeOK
    <3>2. Sent(q) /\ SameBrowser(sid[q], q) /\ sid[q] \in Requests
      BY <3>1 DEF OriginInv, TypeOK
    <3> QED BY <1>6, <1>7, <3>1, <3>2
  <2> QED BY <2>1, <2>2
<1>9. OriginInv'
  BY <1>6, <1>8 DEF Begin, TypeOK, OriginInv, SameBrowser
<1>10. LossInv' /\ CreatorInv'
  BY <1>1 DEF Begin, LossInv, CreatorInv, database
<1> QED BY <1>5, <1>9, <1>10

(* The head of the response, with the cookie.                              *)
LEMMA HeadStep ==
  ASSUME IInv, NEW r \in Requests, Head(r)
  PROVE  IInv'
<1> USE DEF IInv
<1>1. /\ at' \in [Requests -> Stages] /\ at'[r] = "streaming" /\ at[r] = "calling"
      /\ \A q \in Requests : q # r => at'[q] = at[q]
  BY GotoType DEF Head, Stages
<1>2. /\ cookie' \in [Browsers -> Requests \cup {None}]
      /\ \A b \in Browsers : cookie'[b] # None => Sent(cookie'[b]) /\ page[cookie'[b]] = b
  BY <1>1, SetCookieKeeps DEF Head
<1>3. TypeOK'
  BY <1>1, <1>2 DEF Head, TypeOK, accounts, database
<1>4. OriginInv'
  BY <1>1, <1>2, OriginKept DEF Head
<1>5. LossInv' /\ CreatorInv'
  BY <1>1 DEF Head, LossInv, CreatorInv, database
<1> QED BY <1>3, <1>4, <1>5

(* The stream was read: a guest's request has nothing to save.             *)
LEMMA StreamEndsStep ==
  ASSUME IInv, NEW r \in Requests, StreamEnds(r)
  PROVE  IInv'
<1> USE DEF IInv
<1>1. /\ at' \in [Requests -> Stages] /\ at[r] \in {"calling", "streaming"}
      /\ at'[r] = (IF claim[r] # None THEN "saving" ELSE "closing")
      /\ \A q \in Requests : q # r => at'[q] = at[q]
  BY GotoType DEF StreamEnds, Stages
<1>2. /\ cookie' \in [Browsers -> Requests \cup {None}]
      /\ \A b \in Browsers : cookie'[b] # None => Sent(cookie'[b]) /\ page[cookie'[b]] = b
  BY <1>1, SetCookieKeeps DEF StreamEnds
<1>3. TypeOK'
  BY <1>1, <1>2 DEF StreamEnds, TypeOK, accounts, database
<1>4. OriginInv'
  BY <1>1, <1>2, OriginKept DEF StreamEnds
<1>5. /\ whole' \in [Requests -> BOOLEAN] /\ whole'[r]
      /\ \A q \in Requests : q # r => whole'[q] = whole[q]
  BY DEF StreamEnds, TypeOK
<1>6. LossInv'
  BY <1>1, <1>5 DEF StreamEnds, LossInv, database
<1>7. CreatorInv'
  BY DEF StreamEnds, CreatorInv, database
<1> QED BY <1>3, <1>4, <1>6, <1>7

(* It broke off, and that was told.                                        *)
LEMMA StreamFailsStep ==
  ASSUME IInv, NEW r \in Requests, StreamFails(r)
  PROVE  IInv'
<1> USE DEF IInv
<1>1. /\ at' \in [Requests -> Stages] /\ at[r] \in {"calling", "streaming"}
      /\ at'[r] = "closing"
      /\ \A q \in Requests : q # r => at'[q] = at[q]
  BY GotoType DEF StreamFails, Stages
<1>2. /\ cookie' \in [Browsers -> Requests \cup {None}]
      /\ \A b \in Browsers : cookie'[b] # None => Sent(cookie'[b]) /\ page[cookie'[b]] = b
  BY <1>1, SetCookieKeeps DEF StreamFails
<1>3. TypeOK'
  BY <1>1, <1>2 DEF StreamFails, TypeOK, accounts, database
<1>4. OriginInv'
  BY <1>1, <1>2, OriginKept DEF StreamFails
<1>5. /\ told'[r] /\ \A q \in Requests : q # r => told'[q] = told[q]
  BY DEF StreamFails, TypeOK
<1>6. LossInv'
  BY <1>1, <1>5 DEF StreamFails, LossInv, database
<1>7. CreatorInv'
  BY DEF StreamFails, CreatorInv, database
<1> QED BY <1>3, <1>4, <1>6, <1>7

(* What is not told was stored.                                            *)
LEMMA SaveStep ==
  ASSUME IInv, NEW r \in Requests, Save(r)
  PROVE  IInv'
<1> USE DEF IInv, aspnet
<1>1. /\ at' \in [Requests -> Stages] /\ at'[r] = "closing" /\ at[r] = "saving"
      /\ \A q \in Requests : q # r => at'[q] = at[q]
  BY GotoType DEF Save, Stages
<1>2. PICK ok \in BOOLEAN : Outcome(r, ok) /\ told' = [told EXCEPT ![r] = ~ok]
  BY DEF Save
<1>3. messages' \subseteq [session : SessionIds, by : Requests] /\ stored' \subseteq Requests
  <2>1. CASE ok
    <3>1. PICK s \in sessions : s.id = sid[r]
      BY <1>2, <2>1 DEF Outcome
    <3>2. [session |-> sid[r], by |-> r] \in [session : SessionIds, by : Requests]
      BY <3>1 DEF TypeOK, Session
    <3> QED BY <1>2, <2>1, <3>2 DEF Outcome, TypeOK
  <2>2. CASE ~ok
    BY <1>2, <2>2 DEF Outcome, TypeOK
  <2> QED BY <2>1, <2>2
<1>4. told' \in [Requests -> BOOLEAN] /\ told'[r] = ~ok
      /\ \A q \in Requests : q # r => told'[q] = told[q]
  BY <1>2 DEF TypeOK
<1>5. TypeOK'
  BY <1>1, <1>3, <1>4 DEF Save, TypeOK, accounts
<1>6. OriginInv'
  BY <1>1, OriginKept DEF Save, TypeOK, OriginInv
<1>7. stored \subseteq stored' /\ (~told'[r] => r \in stored')
  BY <1>2, <1>4 DEF Outcome
<1>8. LossInv'
  BY <1>1, <1>4, <1>7 DEF Save, LossInv
<1>9. CreatorInv'
  BY DEF Save, CreatorInv
<1> QED BY <1>5, <1>6, <1>8, <1>9

(* The session id that is kept was drawn in the browser whose it is.       *)
LEMMA CloseStep ==
  ASSUME IInv, NEW r \in Requests, Close(r)
  PROVE  IInv'
<1> USE DEF IInv
<1>1. /\ at' \in [Requests -> Stages] /\ at'[r] = "done" /\ at[r] = "closing"
      /\ \A q \in Requests : q # r => at'[q] = at[q]
  BY GotoType DEF Close, Stages
<1>2. /\ key[r] \in Requests /\ Sent(key[r]) /\ page[key[r]] = page[r] /\ Sent(r)
  BY <1>1, HandledSent DEF Sent
<1>3. \/ kept' = kept
      \/ sid[r] = r /\ kept' = [kept EXCEPT ![key[r]] = r]
  BY DEF Close, Established
<1>4. TypeOK'
  BY <1>1, <1>2, <1>3 DEF Close, TypeOK, accounts, database
<1>5. \A q \in Requests : Sent(q)' <=> Sent(q)
  BY <1>1 DEF Sent
<1>6. \A k \in Requests : kept'[k] # None => Sent(k) /\ Sent(kept'[k]) /\ page[kept'[k]] = page[k]
  BY <1>2, <1>3 DEF TypeOK, OriginInv, SameBrowser
<1>7. \A k \in Requests : kept'[k] # None => Sent(k)' /\ SameBrowser(kept[k], k)'
  BY <1>4, <1>5, <1>6 DEF Close, SameBrowser, TypeOK
<1>8. OriginInv'
  BY <1>5, <1>7 DEF Close, TypeOK, OriginInv, SameBrowser
<1>9. LossInv' /\ CreatorInv'
  BY <1>1 DEF Close, LossInv, CreatorInv, database
<1> QED BY <1>4, <1>8, <1>9

(* An ASP.NET session is forgotten.                                        *)
LEMMA ExpireStep ==
  ASSUME IInv, NEW k \in Requests, Expire(k)
  PROVE  IInv'
<1> USE DEF IInv
<1>1. kept' = [kept EXCEPT ![k] = None]
  BY DEF Expire
<1>2. TypeOK'
  BY <1>1 DEF Expire, TypeOK, accounts, call, database
<1>3. \A q \in Requests : Sent(q)' <=> Sent(q)
  BY DEF Expire, Sent, call
<1>4. \A q \in Requests : kept'[q] # None => kept'[q] = kept[q]
  BY <1>1 DEF TypeOK
<1>5. OriginInv'
  BY <1>3, <1>4 DEF Expire, TypeOK, OriginInv, SameBrowser, call
<1>6. LossInv' /\ CreatorInv'
  BY LossKept DEF Expire, CreatorInv, call, database
<1> QED BY <1>2, <1>5, <1>6

(* A creation changes no request, and what it leaves is well typed.        *)
LEMMA CreationKeeps ==
  ASSUME IInv, UNCHANGED <<accounts, aspnet, call, stored>>,
         crowded' \subseteq Creations,
         sessions' \subseteq Session, messages' \subseteq messages,
         NEW c \in Creations, NEW new, creation' = [creation EXCEPT ![c] = new],
         new \in [stage : {"listed", "done", "failed"}, user : Accounts,
                 victims : SUBSET Session, created : Nat]
  PROVE  IInv'
<1> USE DEF IInv, aspnet, call
<1>1. TypeOK'
  BY DEF TypeOK, accounts
<1>2. OriginInv'
  BY OriginKept DEF TypeOK, OriginInv
<1>3. LossInv'
  BY LossKept
<1>4. CreatorInv'
  BY DEF CreatorInv, TypeOK
<1> QED BY <1>1, <1>2, <1>3, <1>4

(* The list is read.                                                       *)
LEMMA ListStep ==
  ASSUME IInv, NEW c \in Creations, NEW u \in Accounts, List(c, u)
  PROVE  IInv'
<1> DEFINE earlier == {d \in Creations : creation[d].stage # "unused"}
           new == [stage |-> "listed", user |-> u, victims |-> Victims(Rows(u)),
                   created |-> Cardinality(earlier)]
<1>1. Cardinality(earlier) \in Nat
  <2> HIDE DEF earlier
  <2>1. earlier \subseteq Creations
    BY DEF earlier
  <2> QED BY <2>1, CreatedType
<1>2. Victims(Rows(u)) \subseteq Session
  <2>1. Rows(u) \subseteq Session
    BY DEF Rows, IInv, TypeOK
  <2> QED BY <2>1, VictimsSubset
<1>3. new \in [stage : {"listed", "done", "failed"}, user : Accounts,
               victims : SUBSET Session, created : Nat]
  <2> HIDE DEF earlier
  <2> QED BY <1>1, <1>2
<1>4. /\ UNCHANGED <<accounts, aspnet, call, stored>> /\ crowded' \subseteq Creations
      /\ sessions' \subseteq Session /\ messages' \subseteq messages
  BY DEF List, IInv, TypeOK, UnderWay
<1>5. creation' = [creation EXCEPT ![c] = new]
  BY DEF List
<1> HIDE DEF new
<1> QED BY <1>3, <1>4, <1>5, CreationKeeps

(* What a creation under way settles to.                                   *)
LEMMA SettleType ==
  ASSUME IInv, NEW c \in Creations, creation[c].stage = "listed",
         NEW stage \in {"done", "failed"}, Settle(c, stage)
  PROVE  \E new \in [stage : {"listed", "done", "failed"}, user : Accounts,
                    victims : SUBSET Session, created : Nat] :
           creation' = [creation EXCEPT ![c] = new]
<1> DEFINE new == [stage |-> stage, user |-> creation[c].user, victims |-> {},
                   created |-> creation[c].created]
<1>1. creation[c].user \in Accounts
  BY DEF IInv, CreatorInv
<1>2. new \in [stage : {"listed", "done", "failed"}, user : Accounts,
               victims : SUBSET Session, created : Nat]
  BY <1>1 DEF IInv, TypeOK
<1>3. PICK n : n = creation[c] /\ n \in [stage : {"unused", "listed", "done", "failed"},
                    user : Accounts \cup {None}, victims : SUBSET Session, created : Nat]
  BY DEF IInv, TypeOK
<1>4. [[n EXCEPT !.stage = stage] EXCEPT !.victims = {}] = new
  <2>1. PICK m : m = [n EXCEPT !.stage = stage]
    OBVIOUS
  <2>2. m = [stage |-> stage, user |-> n.user, victims |-> n.victims, created |-> n.created]
    BY <1>3, <2>1
  <2>3. [m EXCEPT !.victims = {}] = new
    BY <1>3, <2>2
  <2> QED BY <2>1, <2>3, Zenon
<1>5. /\ DOMAIN creation' = Creations /\ creation' = [d \in Creations |-> creation'[d]]
      /\ \A d \in Creations : d # c => creation'[d] = creation[d]
      /\ creation'[c] = [[n EXCEPT !.stage = stage] EXCEPT !.victims = {}]
  BY <1>3 DEF Settle, IInv, TypeOK
<1>6. creation' = [creation EXCEPT ![c] = new]
  <2> HIDE DEF new
  <2> QED BY <1>4, <1>5 DEF IInv, TypeOK
<1> QED BY <1>2, <1>6

(* The transaction commits.                                                *)
LEMMA CommitStep ==
  ASSUME IInv, NEW c \in Creations, Commit(c)
  PROVE  IInv'
<1> DEFINE row == [id |-> c, user |-> creation[c].user, created |-> creation[c].created]
<1>1. row \in Session
  BY DEF Commit, IInv, CreatorInv, TypeOK, Session, SessionIds
<1>2. sessions' = (sessions \ creation[c].victims) \cup {row}
  BY DEF Commit
<1>3. sessions' \subseteq Session
  <2> HIDE DEF row
  <2> QED BY <1>1, <1>2 DEF IInv, TypeOK
<1>4. /\ UNCHANGED <<accounts, aspnet, call, stored>> /\ crowded' \subseteq Creations
      /\ messages' \subseteq messages
  BY DEF Commit, IInv, TypeOK
<1>5. PICK new \in [stage : {"listed", "done", "failed"}, user : Accounts,
                   victims : SUBSET Session, created : Nat] :
        creation' = [creation EXCEPT ![c] = new]
  BY SettleType DEF Commit
<1> QED BY <1>3, <1>4, <1>5, CreationKeeps

(* It is rolled back.                                                      *)
LEMMA ConflictStep ==
  ASSUME IInv, NEW c \in Creations, Conflict(c)
  PROVE  IInv'
<1>1. /\ UNCHANGED <<accounts, aspnet, call, stored>> /\ crowded' \subseteq Creations
      /\ sessions' \subseteq Session /\ messages' \subseteq messages
  BY DEF Conflict, IInv, TypeOK
<1>2. PICK new \in [stage : {"listed", "done", "failed"}, user : Accounts,
                   victims : SUBSET Session, created : Nat] :
        creation' = [creation EXCEPT ![c] = new]
  BY SettleType DEF Conflict
<1> QED BY <1>1, <1>2, CreationKeeps

(* Nothing happens.                                                        *)
LEMMA StutterStep ==
  ASSUME IInv, UNCHANGED vars
  PROVE  IInv'
<1> USE DEF IInv, vars, accounts, aspnet, call, database
<1>1. TypeOK'
  BY DEF TypeOK
<1>2. OriginInv'
  BY OriginKept DEF TypeOK, OriginInv
<1>3. LossInv' /\ CreatorInv'
  BY LossKept DEF CreatorInv
<1> QED BY <1>1, <1>2, <1>3

(* Every step.                                                             *)
LEMMA NextInv == IInv /\ [Next]_vars => IInv'
<1> SUFFICES ASSUME IInv, [Next]_vars PROVE IInv'
  OBVIOUS
<1>1. CASE \E a \in Accounts, n \in Names : Register(a, n)
  BY <1>1, AccountsStep
<1>2. CASE \E b \in Browsers : Logout(b) \/ \E a \in Accounts : Login(b, a)
  BY <1>2, AccountsStep
<1>3. ASSUME NEW r \in Requests, Handle(r) PROVE IInv'
  BY <1>3, RefuseStep, BeginStep, HeadStep, StreamEndsStep, StreamFailsStep, SaveStep,
     CloseStep DEF Handle
<1>4. ASSUME NEW r \in Requests, Expire(r) PROVE IInv'
  BY <1>4, ExpireStep
<1>5. ASSUME NEW r \in Requests, NEW b \in Browsers, Send(r, b) PROVE IInv'
  BY <1>5, SendStep
<1>6. ASSUME NEW c \in Creations, Commit(c) PROVE IInv'
  BY <1>6, CommitStep
<1>7. ASSUME NEW c \in Creations, Conflict(c) PROVE IInv'
  BY <1>7, ConflictStep
<1>8. ASSUME NEW c \in Creations, NEW u \in Accounts, List(c, u) PROVE IInv'
  BY <1>8, ListStep
<1>9. CASE UNCHANGED vars
  BY <1>9, StutterStep
<1>10. CASE Next
  <2>1. CASE \E r \in Requests : Handle(r) \/ Expire(r) \/ \E b \in Browsers : Send(r, b)
    BY <2>1, <1>3, <1>4, <1>5
  <2>2. CASE \E c \in Creations : Commit(c) \/ Conflict(c) \/ \E u \in Accounts : List(c, u)
    BY <2>2, <1>6, <1>7, <1>8
  <2> QED BY <1>10, <1>1, <1>2, <2>1, <2>2 DEF Next
<1> QED BY <1>9, <1>10

(* The invariant holds throughout.                                         *)
LEMMA Invariance == Spec => []IInv
<1> QED BY InitInv, NextInv, PTL DEF Spec

-----------------------------------------------------------------------------
(* Theorems.                                                               *)

(* Every variable of the front end keeps its type.                         *)
THEOREM WebTypeCorrect == Spec => []TypeOK
<1>1. IInv => TypeOK
  BY DEF IInv
<1> QED BY <1>1, Invariance, PTL

(* Two prompts share a thread of the agent only when one account sent both *)
(* from one browser: their session id was drawn by a prompt of that        *)
(* browser, and the user ids of guests are never equal.                    *)
THEOREM ThreadsStayPrivate == Spec => []ThreadsPrivate
<1>1. IInv => ThreadsPrivate
  <2> SUFFICES ASSUME IInv,
                      NEW r \in Requests, NEW s \in Requests, r # s, Begun(r), Begun(s),
                      Thread(r) = Thread(s)
               PROVE  claim[r] = claim[s] /\ claim[r] # None /\ page[r] = page[s]
    BY DEF ThreadsPrivate
  <2>1. UserId(r) = UserId(s) /\ sid[r] = sid[s]
    BY DEF Thread
  <2>2. claim[r] \in Accounts \cup {None} /\ claim[s] \in Accounts \cup {None}
    BY DEF IInv, TypeOK
  <2>3. claim[r] = claim[s] /\ claim[r] # None
    BY <2>1, <2>2, IdsAssumption DEF UserId
  <2>4. page[r] = page[sid[r]] /\ page[s] = page[sid[s]]
    BY DEF IInv, OriginInv, SameBrowser, Begun
  <2> QED BY <2>1, <2>3, <2>4
<1> QED BY <1>1, Invariance, PTL

(* No conversation is lost without the client being told.                  *)
THEOREM LossIsTold == Spec => []NoSilentLoss
<1>1. IInv => NoSilentLoss
  BY DEF IInv, LossInv, NoSilentLoss
<1> QED BY <1>1, Invariance, PTL
=============================================================================
