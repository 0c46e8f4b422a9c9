----------------------------- MODULE WebSessions -----------------------------
(***************************************************************************)
(* The web front end, src/AgentApp: accounts and tokens (AuthService.cs),  *)
(* the chat endpoint that relays a prompt to the agent and saves the       *)
(* conversation (ChatController.cs), the ASP.NET session that gives guests *)
(* a session id, and the table of chat sessions with its cap per user      *)
(* (ChatSessionService.cs).                                                *)
(*                                                                         *)
(* A step is the code between two awaits.  The agent is what ChatStream    *)
(* promises of it: a stream that ends, or breaks off.  A GUID is known by  *)
(* the call that drew it.                                                  *)
(***************************************************************************)
EXTENDS Integers, FiniteSets

CONSTANTS
  Browsers,
  Accounts,     \* the ids of the rows of Users that may come to exist
  Names,        \* the usernames
  Requests,     \* the calls of api/chat/stream
  Creations,    \* the calls of CreateSessionAsync: no controller makes one
  None,
  MaxSessions   \* ChatSettings:MaxSessionsPerUser, 20

ASSUME IdsAssumption ==
  /\ None \notin Browsers \cup Accounts \cup Names \cup Requests \cup Creations
  /\ Accounts \cap Requests = {}
  /\ Creations \cap Requests = {}

ASSUME CreationsAssumption == IsFiniteSet(Creations)

ASSUME MaxSessionsAssumption == MaxSessions \in Nat \ {0}

VARIABLES
  name,        \* Users: the username of each account, or None
  token,       \* the account of the token each browser holds, or None
  cookie,      \* the key of each browser's ASP.NET session, or None
  kept,        \* the TempSessionId stored under each key, or None
  at,          \* where each request is
  page,        \* the browser it came from
  claim,       \* the account its token names, or None for a guest
  key,         \* the ASP.NET session it loaded
  sid,         \* its session id
  whole,       \* the agent's stream was read to its end
  told,        \* a SYSTEM ERROR was written to the client
  sessions,    \* ChatSessions
  messages,    \* ChatMessages: the pair of rows each request saved
  creation,    \* each call of CreateSessionAsync
  stored,      \* history: the requests whose messages were saved
  crowded      \* history: creations under way with another of the same user

accounts == <<name, token>>
aspnet == <<cookie, kept>>
call == <<at, page, claim, key, sid, whole, told>>
database == <<sessions, messages, creation>>
vars == <<accounts, aspnet, call, database, stored, crowded>>

-----------------------------------------------------------------------------
SessionIds == Requests \cup Creations

Session == [id : SessionIds, user : Accounts, created : Nat]

Stages == {"unsent", "queued", "calling", "streaming", "saving", "closing",
           "done", "refused"}

(* A guest is a new user with every prompt.                                *)
UserId(r) == IF claim[r] = None THEN r ELSE claim[r]

(* The agent's thread id is made of the two ids it is sent.                *)
Thread(r) == <<UserId(r), sid[r]>>

Rows(u) == {s \in sessions : s.user = u}

Unused == [stage |-> "unused", user |-> None, victims |-> {}, created |-> 0]

Init ==
  /\ name = [a \in Accounts |-> None]
  /\ token = [b \in Browsers |-> None]
  /\ cookie = [b \in Browsers |-> None]
  /\ kept = [k \in Requests |-> None]
  /\ at = [r \in Requests |-> "unsent"]
  /\ page = [r \in Requests |-> None]
  /\ claim = [r \in Requests |-> None]
  /\ key = [r \in Requests |-> None]
  /\ sid = [r \in Requests |-> None]
  /\ whole = [r \in Requests |-> FALSE]
  /\ told = [r \in Requests |-> FALSE]
  /\ sessions = {} /\ messages = {}
  /\ creation = [c \in Creations |-> Unused]
  /\ stored = {} /\ crowded = {}

-----------------------------------------------------------------------------
(* Accounts.                                                               *)

(* RegisterAsync does not ask whether the name is taken.                   *)
Register(a, n) ==
  /\ name[a] = None
  /\ name' = [name EXCEPT ![a] = n]
  /\ UNCHANGED <<token, aspnet, call, database, stored, crowded>>

(* SingleOrDefaultAsync raises when two accounts have the name.            *)
Login(b, a) ==
  /\ name[a] # None
  /\ \A other \in Accounts \ {a} : name[other] # name[a]
  /\ token' = [token EXCEPT ![b] = a]
  /\ UNCHANGED <<name, aspnet, call, database, stored, crowded>>

(* The user logs out, or the token's 24 hours are over: then the request is*)
(* served as a guest's.                                                    *)
Logout(b) ==
  /\ token[b] # None
  /\ token' = [token EXCEPT ![b] = None]
  /\ UNCHANGED <<name, aspnet, call, database, stored, crowded>>

-----------------------------------------------------------------------------
(* The chat endpoint.                                                      *)

Goto(r, stage) == at' = [at EXCEPT ![r] = stage]

(* The request carries the browser's token and cookie of this moment; with *)
(* no cookie it starts an ASP.NET session of its own.                      *)
Send(r, b) ==
  /\ at[r] = "unsent"
  /\ Goto(r, "queued")
  /\ page' = [page EXCEPT ![r] = b]
  /\ claim' = [claim EXCEPT ![r] = token[b]]
  /\ key' = [key EXCEPT ![r] = IF cookie[b] = None THEN r ELSE cookie[b]]
  /\ UNCHANGED <<accounts, aspnet, sid, whole, told, database, stored, crowded>>

(* The rate limiter answers 429.                                           *)
Refuse(r) ==
  /\ at[r] = "queued"
  /\ Goto(r, "refused")
  /\ UNCHANGED <<accounts, aspnet, page, claim, key, sid, whole, told, database,
                 stored, crowded>>

(* Mutants: the id is kept for the whole server, not in the session; the   *)
(* user's id takes the place of a GUID.                                    *)
SessionIdFor_User(k, r) == IF kept[k] = None THEN UserId(r) ELSE kept[k]

SessionIdFor_AnyKey(k, r) ==
  IF \E j \in Requests : kept[j] # None
  THEN kept[CHOOSE j \in Requests : kept[j] # None] ELSE r

(* TempSessionId, or a new GUID.                                           *)
SessionIdFor(k, r) == IF kept[k] = None THEN r ELSE kept[k]

(* The session is loaded when the handler first asks for it, after the     *)
(* request waited for the rate limiter.                                    *)
Begin(r) ==
  /\ at[r] = "queued"
  /\ Goto(r, "calling")
  /\ sid' = [sid EXCEPT ![r] = SessionIdFor(key[r], r)]
  /\ UNCHANGED <<accounts, aspnet, page, claim, key, whole, told, database, stored,
                 crowded>>

(* Only a guest that drew a session id writes it into the ASP.NET session. *)
Established(r) == claim[r] = None /\ sid[r] = r

(* The head of the response sets the cookie of a session that is new.      *)
SetCookie(r) ==
  cookie' = IF at[r] = "calling" /\ Established(r) /\ key[r] = r
            THEN [cookie EXCEPT ![page[r]] = r] ELSE cookie

(* The first chunk is flushed, and with it the head.                       *)
Head(r) ==
  /\ at[r] = "calling"
  /\ Goto(r, "streaming")
  /\ SetCookie(r)
  /\ UNCHANGED <<accounts, kept, page, claim, key, sid, whole, told, database, stored,
                 crowded>>

(* A stream may be empty.                                                  *)
StreamEnds(r) ==
  /\ at[r] \in {"calling", "streaming"}
  /\ whole' = [whole EXCEPT ![r] = TRUE]
  /\ Goto(r, IF claim[r] # None THEN "saving" ELSE "closing")
  /\ SetCookie(r)
  /\ UNCHANGED <<accounts, kept, page, claim, key, sid, told, database, stored, crowded>>

(* The agent's stream raises, or the client has gone, and takes no cookie. *)
StreamFails(r) ==
  /\ at[r] \in {"calling", "streaming"}
  /\ told' = [told EXCEPT ![r] = TRUE]
  /\ Goto(r, "closing")
  /\ SetCookie(r) \/ UNCHANGED cookie
  /\ UNCHANGED <<accounts, kept, page, claim, key, sid, whole, database, stored, crowded>>

(* SaveMessagesAsync: both rows in one transaction, which the database     *)
(* refuses when no session has the id.  (None ever has: the id is a GUID of*)
(* the chat endpoint's own.)                                               *)
Outcome(r, ok) ==
  /\ ok => \E s \in sessions : s.id = sid[r]
  /\ messages' = IF ok THEN messages \cup {[session |-> sid[r], by |-> r]} ELSE messages
  /\ stored' = IF ok THEN stored \cup {r} ELSE stored

(* Mutants: the exception is swallowed; the save waits for its session.    *)
Save_Silent(r) ==
  /\ at[r] = "saving"
  /\ Goto(r, "closing")
  /\ \E ok \in BOOLEAN : Outcome(r, ok)
  /\ UNCHANGED <<accounts, aspnet, page, claim, key, sid, whole, told, sessions,
                 creation, crowded>>

Save_Waits(r) ==
  /\ at[r] = "saving"
  /\ Goto(r, "closing")
  /\ Outcome(r, TRUE)
  /\ UNCHANGED <<accounts, aspnet, page, claim, key, sid, whole, told, sessions,
                 creation, crowded>>

(* That refusal, like any other exception, is told.                        *)
Save(r) ==
  /\ at[r] = "saving"
  /\ Goto(r, "closing")
  /\ \E ok \in BOOLEAN :
       /\ Outcome(r, ok)
       /\ told' = [told EXCEPT ![r] = ~ok]
  /\ UNCHANGED <<accounts, aspnet, page, claim, key, sid, whole, sessions, creation,
                 crowded>>

(* The session middleware commits what the handler changed only when the   *)
(* response is over.                                                       *)
Close(r) ==
  /\ at[r] = "closing"
  /\ Goto(r, "done")
  /\ kept' = IF Established(r) THEN [kept EXCEPT ![key[r]] = sid[r]] ELSE kept
  /\ UNCHANGED <<accounts, cookie, page, claim, key, sid, whole, told, database, stored,
                 crowded>>

(* The session's idle timeout.                                             *)
Expire(k) ==
  /\ kept[k] # None
  /\ kept' = [kept EXCEPT ![k] = None]
  /\ UNCHANGED <<accounts, cookie, call, database, stored, crowded>>

-----------------------------------------------------------------------------
(* CreateSessionAsync: the user's rows are read, and the oldest of them    *)
(* deleted and the new one inserted in a transaction of its own.           *)

(* Mutants: one too few is removed; the newest are removed.                *)
Victims_TooFew(rows) ==
  {s \in rows : Cardinality({t \in rows : t.created < s.created})
                  < Cardinality(rows) - MaxSessions}

Victims_Newest(rows) ==
  {s \in rows : Cardinality({t \in rows : t.created > s.created})
                  < Cardinality(rows) - MaxSessions + 1}

(* The oldest Count - Max + 1 rows.                                        *)
Victims(rows) ==
  {s \in rows : Cardinality({t \in rows : t.created < s.created})
                  < Cardinality(rows) - MaxSessions + 1}

UnderWay(u) == {c \in Creations : creation[c].stage = "listed" /\ creation[c].user = u}

(* The new row is stamped as soon as the list was read.                    *)
List(c, u) ==
  /\ creation[c].stage = "unused"
  /\ name[u] # None
  /\ creation' = [creation EXCEPT ![c] =
       [stage |-> "listed", user |-> u, victims |-> Victims(Rows(u)),
        created |-> Cardinality({d \in Creations : creation[d].stage # "unused"})]]
  /\ crowded' = IF UnderWay(u) = {} THEN crowded ELSE crowded \cup UnderWay(u) \cup {c}
  /\ UNCHANGED <<accounts, aspnet, call, sessions, messages, stored>>

Settle(c, stage) == creation' = [creation EXCEPT ![c].stage = stage, ![c].victims = {}]

(* SaveChangesAsync: the messages of a deleted session go with it.         *)
Commit(c) ==
  /\ creation[c].stage = "listed"
  /\ creation[c].victims \subseteq sessions
  /\ sessions' = (sessions \ creation[c].victims)
       \cup {[id |-> c, user |-> creation[c].user, created |-> creation[c].created]}
  /\ messages' = {m \in messages : \A s \in creation[c].victims : s.id # m.session}
  /\ Settle(c, "done")
  /\ UNCHANGED <<accounts, aspnet, call, stored, crowded>>

(* A row to delete is gone already, and the transaction is rolled back; or *)
(* the database is out of reach.                                           *)
Conflict(c) ==
  /\ creation[c].stage = "listed"
  /\ Settle(c, "failed")
  /\ UNCHANGED <<accounts, aspnet, call, sessions, messages, stored, crowded>>

-----------------------------------------------------------------------------
Handle(r) ==
  \/ Refuse(r) \/ Begin(r) \/ Head(r) \/ StreamEnds(r) \/ StreamFails(r)
  \/ Save(r) \/ Close(r)

Next ==
  \/ \E a \in Accounts, n \in Names : Register(a, n)
  \/ \E b \in Browsers : Logout(b) \/ \E a \in Accounts : Login(b, a)
  \/ \E r \in Requests : Handle(r) \/ Expire(r) \/ \E b \in Browsers : Send(r, b)
  \/ \E c \in Creations : Commit(c) \/ Conflict(c) \/ \E u \in Accounts : List(c, u)

(* The limiter admits or refuses, and the agent's stream ends or breaks off*)
(* (StreamContract's Closes); users do as they please.                     *)
Spec == Init /\ [][Next]_vars /\ \A r \in Requests : WF_vars(Handle(r))

-----------------------------------------------------------------------------
(* Properties.                                                             *)

TypeOK ==
  /\ name \in [Accounts -> Names \cup {None}]
  /\ token \in [Browsers -> Accounts \cup {None}]
  /\ cookie \in [Browsers -> Requests \cup {None}]
  /\ kept \in [Requests -> Requests \cup {None}]
  /\ at \in [Requests -> Stages]
  /\ page \in [Requests -> Browsers \cup {None}]
  /\ claim \in [Requests -> Accounts \cup {None}]
  /\ key \in [Requests -> Requests \cup {None}]
  /\ sid \in [Requests -> Requests \cup {None}]
  /\ whole \in [Requests -> BOOLEAN] /\ told \in [Requests -> BOOLEAN]
  /\ sessions \subseteq Session
  /\ messages \subseteq [session : SessionIds, by : Requests]
  /\ creation \in [Creations ->
       [stage : {"unused", "listed", "done", "failed"}, user : Accounts \cup {None},
        victims : SUBSET Session, created : Nat]]
  /\ stored \subseteq Requests /\ crowded \subseteq Creations

Begun(r) == sid[r] # None

(* Two prompts reach the same thread of the agent, and so see each other's *)
(* conversation, only when one account sent both from one browser: never   *)
(* two accounts that used the browser in turn, and never a guest.          *)
ThreadsPrivate ==
  \A r, s \in Requests : r # s /\ Begun(r) /\ Begun(s) /\ Thread(r) = Thread(s) =>
    claim[r] = claim[s] /\ claim[r] # None /\ page[r] = page[s]

(* A client that was shown no SYSTEM ERROR was shown the whole answer and, *)
(* when logged in, has its conversation saved.                             *)
NoSilentLoss ==
  \A r \in Requests : at[r] = "done" /\ ~told[r] =>
    whole[r] /\ (claim[r] # None => r \in stored)

(* The cap is exceeded only by creations that overlapped, and by fewer than*)
(* there were of them.                                                     *)
CapOverrun ==
  \A u \in Accounts :
    LET together == Cardinality({c \in crowded : creation[c].user = u})
    IN  Cardinality(Rows(u)) <= MaxSessions + (IF together = 0 THEN 0 ELSE together - 1)

(* A creation that no other overlapped brings the user back under the cap, *)
(* and removes no session that is newer than one it keeps.                 *)
CapRestored ==
  [][\A c \in Creations \ crowded :
       Commit(c) =>
         LET u == creation[c].user
             rows == {s \in sessions' : s.user = u}
         IN  /\ Cardinality(rows) <= MaxSessions
             /\ \A s \in Rows(u) \ rows, t \in rows : s.created < t.created]_vars

(* Every prompt gets an answer, a refusal or an error message.             *)
RequestSettles ==
  \A r \in Requests : at[r] = "queued" ~> at[r] \in {"done", "refused"}

=============================================================================
