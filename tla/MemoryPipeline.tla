---------------------------- MODULE MemoryPipeline ----------------------------
(***************************************************************************)
(* Long-term memory: a chat turn publishes a reference to its thread       *)
(* (rabbitmq_publisher.py), the worker (worker_main.py) reads the thread's *)
(* checkpoint and has facts extracted and stored (memory_worker.py,        *)
(* fact_extractor.py, memory_service.py), retrieval finds them             *)
(* (hybrid_retriever.py), and a sweep prunes them (pruning_policy.py).     *)
(*                                                                         *)
(* A message is known by the turn it belongs to, and a fact by the turn it *)
(* is about and by its importance; tool messages, which the extractor      *)
(* skips, are left out.                                                    *)
(***************************************************************************)
EXTENDS Integers, Sequences, FiniteSets

CONSTANTS
  Users,
  Collections,   \* the fact collections, one per domain
  None,
  MaxTurns,      \* bound: turns over all users
  MaxMessages,   \* bound: messages in one thread
  MaxFacts,      \* bound: facts in one extraction
  ContextSize,   \* fact_extractor.py: the messages it is shown, 4
  PageSize,      \* pruning_policy.py: the limit of scroll, 10000
  MaxCrashes     \* bound: how often the worker dies

Turns == 1..MaxTurns

ASSUME NoneAssumption == None \notin Users \cup Collections \cup Nat

ASSUME BoundsAssumption ==
  /\ MaxTurns \in Nat \ {0} /\ MaxMessages \in Nat \ {0} /\ MaxFacts \in Nat \ {0}
  /\ ContextSize \in Nat \ {0}
  /\ PageSize \in Nat \ {0} /\ MaxCrashes \in Nat

VARIABLES
  owner,        \* the user of each turn that was begun, or None
  domain,       \* the collection its run ended in, or None
  running,      \* the turn each user's thread is executing, or None
  thread,       \* the messages in each thread's checkpoint
  outbox,       \* turns whose publish_extraction_task is under way
  queue,        \* fact_extraction_queue
  task,         \* the turn of the delivery the worker holds, or None
  stage,        \* where process_message is suspended
  window,       \* the messages the extractor is given
  pending,      \* the extracted facts still to be stored
  store,        \* the stored facts
  acked, dead,  \* turns whose message was acknowledged, or dead-lettered
  crashes,
  lost,         \* history: turns whose publication failed
  spoiled,      \* history: turns with an exception swallowed on the way
  redelivered,  \* history: turns whose delivery was cut off by a crash
  found,        \* history: what the last delivery of each turn found
  pruned        \* history: the facts deleted, and whether they were idle

chat == <<owner, domain, running, thread>>
broker == <<queue, acked, dead>>
worker == <<task, stage, window, pending>>
logs == <<lost, spoiled, redelivered, found, pruned>>
vars == <<chat, outbox, broker, worker, store, crashes, logs>>

-----------------------------------------------------------------------------
(* What the extractor finds, and what is stored for it.                    *)
Finding == [about : Turns, minor : BOOLEAN]

Fact == [user : Users, collection : Collections, task : Turns, finding : Finding]

(* Mutant: the context window is not limited.                              *)
Tail4_Unlimited(s) == s

(* valid_messages[-4:]                                                     *)
Tail4(s) == SubSeq(s, IF Len(s) > ContextSize THEN Len(s) - ContextSize + 1 ELSE 1, Len(s))

Idle == task = None /\ stage = "waiting" /\ window = <<>> /\ pending = {}

Rest == task' = None /\ stage' = "waiting" /\ window' = <<>> /\ pending' = {}

Init ==
  /\ owner = [t \in Turns |-> None]
  /\ domain = [t \in Turns |-> None]
  /\ running = [u \in Users |-> None]
  /\ thread = [u \in Users |-> <<>>]
  /\ outbox = {}
  /\ queue = <<>>
  /\ Idle
  /\ store = {}
  /\ acked = {} /\ dead = {}
  /\ crashes = 0
  /\ lost = {} /\ spoiled = {} /\ redelivered = {} /\ pruned = {}
  /\ found = [t \in Turns |-> {}]

-----------------------------------------------------------------------------
(* The chat side, as the thread's checkpoint shows it after each super-step *)
(* of CognitiveGraph.                                                      *)

Say(u, t) ==
  /\ Len(thread[u]) < MaxMessages
  /\ thread' = [thread EXCEPT ![u] = Append(@, t)]

Ask(u) ==
  /\ running[u] = None
  /\ \E t \in Turns :
       /\ owner[t] = None
       /\ \A s \in 1..(t - 1) : owner[s] # None
       /\ owner' = [owner EXCEPT ![t] = u]
       /\ running' = [running EXCEPT ![u] = t]
       /\ Say(u, t)
  /\ UNCHANGED <<domain, outbox, broker, worker, store, crashes, logs>>

Work(u) ==
  /\ running[u] # None
  /\ Say(u, running[u])
  /\ UNCHANGED <<owner, domain, running, outbox, broker, worker, store, crashes, logs>>

(* The task manager's context sandboxing.                                  *)
Sandbox(u) ==
  /\ running[u] # None
  /\ Len(thread[u]) > 1
  /\ thread' = [thread EXCEPT ![u] = <<thread[u][1]>>]
  /\ UNCHANGED <<owner, domain, running, outbox, broker, worker, store, crashes, logs>>

(* The graph ends with the synthesizer's answer, and the handler starts a  *)
(* publication with the collection of the run's current domain.            *)
Answer(u) ==
  /\ running[u] # None
  /\ Say(u, running[u])
  /\ running' = [running EXCEPT ![u] = None]
  /\ \E c \in Collections : domain' = [domain EXCEPT ![running[u]] = c]
  /\ outbox' = outbox \cup {running[u]}
  /\ UNCHANGED <<owner, broker, worker, store, crashes, logs>>

(* The run raises, is dropped or is cancelled: nothing is published.       *)
BreakOff(u) ==
  /\ running[u] # None
  /\ running' = [running EXCEPT ![u] = None]
  /\ UNCHANGED <<owner, domain, thread, outbox, broker, worker, store, crashes, logs>>

(* Redis holds no checkpoint of the thread any more.                       *)
Forget(u) ==
  /\ thread[u] # <<>>
  /\ running[u] = None
  /\ thread' = [thread EXCEPT ![u] = <<>>]
  /\ UNCHANGED <<owner, domain, running, outbox, broker, worker, store, crashes, logs>>

(* publish_extraction_task: a durable message, or an exception logged.     *)
Publish(t) ==
  /\ t \in outbox
  /\ outbox' = outbox \ {t}
  /\ \/ queue' = Append(queue, t) /\ UNCHANGED lost
     \/ lost' = lost \cup {t} /\ UNCHANGED queue
  /\ UNCHANGED <<chat, acked, dead, worker, store, crashes, spoiled, redelivered,
                 found, pruned>>

-----------------------------------------------------------------------------
(* The worker.  The broker delivers one message at a time (prefetch_count  *)
(* is 1) and keeps it until it is acknowledged or rejected.                *)

Deliver ==
  /\ stage = "waiting" /\ queue # <<>>
  /\ task' = Head(queue)
  /\ queue' = Tail(queue)
  /\ stage' = "reading"
  /\ found' = [found EXCEPT ![task'] = {}]
  /\ UNCHANGED <<chat, outbox, acked, dead, window, pending, store, crashes, lost,
                 spoiled, redelivered, pruned>>

Acknowledge ==
  /\ acked' = acked \cup {task}
  /\ Rest
  /\ UNCHANGED <<queue, dead>>

(* Mutant: the thread id is the session's alone, shared between users.     *)
ReadThread_AnyUser ==
  /\ stage = "reading"
  /\ \E u \in Users :
       /\ thread[u] # <<>>
       /\ window' = Tail4(thread[u])
  /\ stage' = "extracting"
  /\ UNCHANGED <<chat, outbox, broker, task, pending, store, crashes, logs>>

(* The checkpoint is the thread's latest, whatever turn the task is of.    *)
ReadThread ==
  /\ stage = "reading"
  /\ thread[owner[task]] # <<>>
  /\ window' = Tail4(thread[owner[task]])
  /\ stage' = "extracting"
  /\ UNCHANGED <<chat, outbox, broker, task, pending, store, crashes, logs>>

(* No conversation state: acknowledged all the same.                       *)
ReadNothing ==
  /\ stage = "reading"
  /\ thread[owner[task]] = <<>>
  /\ Acknowledge
  /\ UNCHANGED <<chat, outbox, store, crashes, logs>>

(* Mutant: a message that fails is put back.                               *)
ReadFails_Requeues ==
  /\ stage = "reading"
  /\ queue' = Append(queue, task)
  /\ Rest
  /\ UNCHANGED <<chat, outbox, acked, dead, store, crashes, logs>>

(* The only exceptions that reach process_message are raised before the    *)
(* extraction: a body that does not parse, a checkpoint that cannot be read.*)
ReadFails ==
  /\ stage = "reading"
  /\ dead' = dead \cup {task}
  /\ Rest
  /\ UNCHANGED <<chat, outbox, queue, acked, store, crashes, logs>>

Extract ==
  /\ stage = "extracting"
  /\ \E findings \in SUBSET {f \in Finding : \E i \in DOMAIN window : window[i] = f.about} :
       /\ Cardinality(findings) <= MaxFacts
       /\ pending' = findings
       /\ found' = [found EXCEPT ![task] = findings]
       /\ stage' = IF findings = {} THEN "acking" ELSE "storing"
  /\ window' = <<>>
  /\ UNCHANGED <<chat, outbox, broker, task, store, crashes, lost, spoiled,
                 redelivered, pruned>>

Swallow ==
  /\ window' = <<>>
  /\ spoiled' = spoiled \cup {task}
  /\ UNCHANGED <<chat, outbox, broker, task, store, crashes, lost, redelivered,
                 found, pruned>>

(* process_extraction_task swallows the exception.                         *)
ExtractFails ==
  /\ stage = "extracting"
  /\ stage' = "acking"
  /\ UNCHANGED pending
  /\ Swallow

(* Mutant: only the first fact is routed.                                  *)
NextFact_FirstOnly(f) == pending' = {} /\ stage' = "acking"

NextFact(f) ==
  /\ pending' = pending \ {f}
  /\ stage' = IF pending = {f} THEN "acking" ELSE "storing"

StoreFact ==
  /\ stage = "storing"
  /\ \E f \in pending :
       /\ store' = store \cup {[user |-> owner[task], collection |-> domain[task],
                           task |-> task, finding |-> f]}
       /\ NextFact(f)
  /\ UNCHANGED <<chat, outbox, broker, task, window, crashes, logs>>

(* Mutant: the exception reaches process_message, which rejects.           *)
StoreFails_Rejects ==
  /\ stage = "storing"
  /\ dead' = dead \cup {task}
  /\ Rest
  /\ UNCHANGED <<chat, outbox, queue, acked, store, crashes, logs>>

(* MemoryService.add_fact swallows the exception; the next fact is tried.  *)
StoreFails ==
  /\ stage = "storing"
  /\ \E f \in pending : NextFact(f)
  /\ Swallow

Ack ==
  /\ stage = "acking"
  /\ Acknowledge
  /\ UNCHANGED <<chat, outbox, store, crashes, logs>>

(* Mutant: a delivery counts as acknowledged when it is made.              *)
Crash_AutoAck ==
  /\ task # None /\ crashes < MaxCrashes
  /\ crashes' = crashes + 1
  /\ redelivered' = redelivered \cup {task}
  /\ Rest
  /\ UNCHANGED <<chat, outbox, broker, store, lost, spoiled, found, pruned>>

(* The worker dies; the broker puts the delivery back and it restarts.     *)
Crash ==
  /\ task # None /\ crashes < MaxCrashes
  /\ crashes' = crashes + 1
  /\ queue' = <<task>> \o queue
  /\ redelivered' = redelivered \cup {task}
  /\ Rest
  /\ UNCHANGED <<chat, outbox, acked, dead, store, lost, spoiled, found, pruned>>

-----------------------------------------------------------------------------
(* Pruning.                                                                *)

(* Mutant: either condition suffices.                                      *)
Prunable_Either(f, idle) == f \in idle \/ f.finding.minor

Prunable(f, idle) == f \in idle /\ f.finding.minor

(* One collection's sweep: the first page that scroll returns.  Nothing    *)
(* refreshes last_accessed, so any fact may have been idle for a day.      *)
Prune(c) ==
  /\ \E page \in SUBSET {f \in store : f.collection = c} : \E idle \in SUBSET page :
       LET slated == {f \in page : Prunable(f, idle)}
       IN  /\ \/ Cardinality(page) = PageSize
              \/ page = {f \in store : f.collection = c} /\ Cardinality(page) < PageSize
           /\ slated # {}
           /\ store' = store \ slated
           /\ pruned' = pruned \cup {[fact |-> f, idle |-> f \in idle] : f \in slated}
  /\ UNCHANGED <<chat, outbox, broker, worker, crashes, lost, spoiled, redelivered, found>>

(* What an executor may be shown of a collection: retrieve returns the best*)
(* few of these, or nothing when it fails.                                 *)
Retrieved(u, c) == {f \in store : f.user = u /\ f.collection = c}

WorkerStep ==
  \/ Deliver \/ ReadThread \/ ReadNothing \/ ReadFails \/ Extract \/ ExtractFails
  \/ StoreFact \/ StoreFails \/ Ack

Next ==
  \/ \E u \in Users : Ask(u) \/ Work(u) \/ Sandbox(u) \/ Answer(u)
                         \/ BreakOff(u) \/ Forget(u)
  \/ \E t \in Turns : Publish(t)
  \/ WorkerStep \/ Crash
  \/ \E c \in Collections : Prune(c)

(* The worker runs as long as it has something to do, and is restarted;    *)
(* a publication that was started goes on.                                 *)
Spec ==
  /\ Init /\ [][Next]_vars
  /\ WF_vars(WorkerStep)
  /\ \A t \in Turns : WF_vars(Publish(t))

-----------------------------------------------------------------------------
(* Every variable has its type, and the extractor never sees more than the *)
(* last ContextSize messages of a thread.                                  *)
TypeOK ==
  /\ owner \in [Turns -> Users \cup {None}]
  /\ domain \in [Turns -> Collections \cup {None}]
  /\ running \in [Users -> Turns \cup {None}]
  /\ thread \in [Users -> Seq(Turns)]
  /\ queue \in Seq(Turns)
  /\ task \in Turns \cup {None}
  /\ stage \in {"waiting", "reading", "extracting", "storing", "acking"}
  /\ window \in Seq(Turns) /\ Len(window) <= ContextSize
  /\ pending \subseteq Finding /\ (stage = "storing" <=> pending # {})
  /\ (task = None <=> stage = "waiting")
  /\ store \subseteq Fact /\ pruned \subseteq [fact : Fact, idle : BOOLEAN]
  /\ outbox \cup acked \cup dead \cup lost \cup spoiled \cup redelivered \subseteq Turns
  /\ crashes \in 0..MaxCrashes
  /\ found \in [Turns -> SUBSET Finding]

(* A task handed to the publisher is in one place at any time - waiting to *)
(* be published, in the queue, with the worker, acknowledged, dead-lettered*)
(* or lost by the publisher - whatever crashes: none is lost by the worker *)
(* and none is settled twice.                                              *)
TasksConserved ==
  LET queued == {queue[i] : i \in DOMAIN queue}
      places == <<outbox, queued, {task}, acked, dead, lost>>
  IN  /\ Len(queue) = Cardinality(queued)
      /\ \A t \in Turns :
           Cardinality({p \in DOMAIN places : t \in places[p]})
             = IF domain[t] = None THEN 0 ELSE 1

(* A fact is stored for the user whose conversation it was taken from, and *)
(* in the collection its task named, so that retrieval shows a user nothing*)
(* that another user said.  (It may be about another turn of the user than *)
(* the task's, which ran in another domain: the worker reads the thread as *)
(* it is when the task is delivered.)                                      *)
FactsOwned ==
  /\ \A f \in store : f.user = owner[f.task] /\ f.collection = domain[f.task]
  /\ \A u \in Users, c \in Collections :
       \A f \in Retrieved(u, c) : owner[f.finding.about] = u

(* When a task is acknowledged and no exception was swallowed on its way,  *)
(* everything its last delivery found is stored, until it is pruned, which *)
(* only happens to what is both idle and of low importance.  (An exception *)
(* is swallowed on the way, and then the task is acknowledged all the same.)*)
FactsComplete ==
  \A t \in acked \ spoiled : \A finding \in found[t] :
    \/ \E f \in store : f.task = t /\ f.finding = finding
    \/ /\ finding.minor
       /\ \E p \in pruned : p.idle /\ p.fact.task = t /\ p.fact.finding = finding

(* A dead-lettered task that was delivered once has stored nothing, so that*)
(* it can be replayed by hand without storing a fact twice.                *)
DeadLetterClean ==
  \A f \in store \cup {p.fact : p \in pruned} : f.task \notin dead \ redelivered

Place(t) ==
  CASE t \in outbox -> "handed"
    [] t \in lost -> "lost"
    [] t \in acked -> "acked"
    [] t \in dead -> "dead"
    [] t = task \/ \E i \in DOMAIN queue : queue[i] = t -> "taken"
    [] OTHER -> "none"

Contract == INSTANCE MemoryContract WITH
  collection <- domain, place <- [t \in Turns |-> Place(t)], facts <- store

(* The pipeline implements MemoryContract: crashes and redeliveries take no*)
(* task away from its owner and collection and settle none twice, nothing  *)
(* is filed before a task is taken or after it is settled, and a task that *)
(* is handed over is settled or lost in the end: no failure makes it       *)
(* circulate.                                                              *)
ImplementsContract == Contract!Spec

=============================================================================
