------------------------- MODULE MemoryPipelineProofs -------------------------
(***************************************************************************)
(* Theorems about MemoryPipeline, for every set of users and collections   *)
(* and every bound.                                                        *)
(***************************************************************************)
EXTENDS MemoryPipeline, FiniteSetTheorems, TLAPS

Queued == {queue[i] : i \in DOMAIN queue}

(* A turn belongs to the user on whose thread it speaks, and what the      *)
(* worker has in hand belongs to the user of its task.                     *)
OwnersInv ==
  /\ \A u \in Users : running[u] # None => owner[running[u]] = u /\ domain[running[u]] = None
  /\ \A u \in Users : \A i \in DOMAIN thread[u] : owner[thread[u][i]] = u
  /\ \A t \in Turns : domain[t] # None => owner[t] # None
  /\ stage # "extracting" => window = <<>>
  /\ \A i \in DOMAIN window : owner[window[i]] = owner[task]
  /\ \A f \in pending : owner[f.about] = owner[task]
  /\ \A f \in store : /\ f.user = owner[f.task] /\ f.collection = domain[f.task]
                      /\ owner[f.finding.about] = f.user

(* The places a task may be in are disjoint.                               *)
PlacesInv ==
  /\ \A i, j \in DOMAIN queue : queue[i] = queue[j] => i = j
  /\ \A t \in outbox : t \notin Queued \cup acked \cup dead \cup lost
  /\ \A t \in Queued : t \notin acked \cup dead \cup lost
  /\ \A t \in acked : t \notin dead \cup lost
  /\ \A t \in dead : t \notin lost
  /\ task \notin outbox \cup Queued \cup acked \cup dead \cup lost
  /\ \A t \in Turns : domain[t] # None <=>
                        t \in outbox \cup Queued \cup {task} \cup acked \cup dead \cup lost

(* Whatever was stored was stored by the last delivery, or a crash followed.*)
CleanInv ==
  \A f \in store \cup {p.fact : p \in pruned} :
    /\ domain[f.task] # None
    /\ \/ f.task \in redelivered
       \/ /\ f.task \notin outbox \cup Queued \cup dead
          /\ f.task = task => stage \in {"storing", "acking"}

Kept(t, finding) ==
  \/ \E f \in store : f.task = t /\ f.finding = finding
  \/ finding.minor /\ \E p \in pruned : p.idle /\ p.fact.task = t /\ p.fact.finding = finding

(* What was found is kept or still to be stored.                           *)
CompleteInv ==
  /\ stage \in {"reading", "extracting"} => found[task] = {}
  /\ stage \in {"storing", "acking"} /\ task \notin spoiled =>
       \A finding \in found[task] : finding \in pending \/ Kept(task, finding)
  /\ \A t \in acked \ spoiled : \A finding \in found[t] : Kept(t, finding)

IInv == TypeOK /\ OwnersInv /\ PlacesInv /\ CleanInv /\ CompleteInv

-----------------------------------------------------------------------------
(* Lemmas on the operators.                                                *)

(* A turn is a number, and None is not one.                                *)
LEMMA TurnsType == Turns \subseteq Nat /\ None \notin Turns
  BY NoneAssumption DEF Turns

(* The window is a short piece of the thread.                              *)
LEMMA TailType ==
  ASSUME NEW s \in Seq(Turns), s # <<>>
  PROVE  /\ Tail4(s) \in Seq(Turns) /\ Len(Tail4(s)) <= ContextSize
         /\ \A i \in DOMAIN Tail4(s) : \E j \in DOMAIN s : Tail4(s)[i] = s[j]
<1> DEFINE a == IF Len(s) > ContextSize THEN Len(s) - ContextSize + 1 ELSE 1
<1>1. Len(s) \in Nat /\ Len(s) >= 1 /\ ContextSize \in Nat /\ ContextSize >= 1
  BY BoundsAssumption
<1>2. a \in 1..Len(s) /\ Len(s) - a + 1 <= ContextSize
  BY <1>1
<1> HIDE DEF a
<1>3. Tail4(s) = SubSeq(s, a, Len(s))
  BY DEF Tail4, a
<1>4. /\ SubSeq(s, a, Len(s)) \in Seq(Turns)
      /\ Len(SubSeq(s, a, Len(s))) = Len(s) - a + 1
      /\ \A i \in 1..(Len(s) - a + 1) : SubSeq(s, a, Len(s))[i] = s[a + i - 1]
  BY <1>1, <1>2
<1>5. \A i \in 1..(Len(s) - a + 1) : a + i - 1 \in 1..Len(s)
  BY <1>1, <1>2
<1>6. DOMAIN s = 1..Len(s) /\ DOMAIN SubSeq(s, a, Len(s)) = 1..(Len(s) - a + 1)
  BY <1>4
<1>7. \A i \in DOMAIN SubSeq(s, a, Len(s)) :
        \E j \in DOMAIN s : SubSeq(s, a, Len(s))[i] = s[j]
  BY <1>4, <1>5, <1>6
<1> QED BY <1>2, <1>3, <1>4, <1>7

(* What the queue holds when a task is put at its end, or back at its      *)
(* front, or taken from its front.                                         *)
LEMMA QueueGrows ==
  ASSUME TypeOK, NEW t \in Turns, queue' = Append(queue, t) \/ queue' = <<t>> \o queue
  PROVE  /\ queue' \in Seq(Turns) /\ Queued' = Queued \cup {t}
         /\ PlacesInv /\ t \notin Queued =>
              \A i, j \in DOMAIN queue' : queue'[i] = queue'[j] => i = j
<1> DEFINE n == Len(queue)
<1>1. queue \in Seq(Turns) /\ n \in Nat /\ DOMAIN queue = 1..n
  BY DEF TypeOK
<1>2. CASE queue' = Append(queue, t)
  <2>1. /\ queue' \in Seq(Turns) /\ DOMAIN queue' = 1..(n + 1)
        /\ queue'[n + 1] = t /\ \A i \in 1..n : queue'[i] = queue[i]
    BY <1>1, <1>2
  <2> HIDE DEF n
  <2>2. n + 1 \in 1..(n + 1) /\ \A i \in 1..(n + 1) : i \in 1..n \/ i = n + 1
    BY <1>1
  <2>3. Queued' = Queued \cup {t}
    <3>1. ASSUME NEW i \in 1..(n + 1) PROVE queue'[i] \in Queued \cup {t}
      <4>1. CASE i \in 1..n
        BY <1>1, <2>1, <4>1 DEF Queued
      <4>2. CASE i = n + 1
        BY <2>1, <4>2
      <4> QED BY <2>2, <4>1, <4>2
    <3>2. ASSUME NEW i \in 1..n PROVE queue[i] \in Queued'
      <4>1. i \in DOMAIN queue' /\ queue'[i] = queue[i]
        BY <1>1, <2>1
      <4> QED BY <4>1 DEF Queued
    <3>3. t \in Queued'
      BY <2>1, <2>2 DEF Queued
    <3> QED BY <1>1, <2>1, <3>1, <3>2, <3>3 DEF Queued
  <2>4. ASSUME PlacesInv, t \notin Queued, NEW i \in DOMAIN queue', NEW j \in DOMAIN queue',
               queue'[i] = queue'[j]
        PROVE  i = j
    <3>1. \A k \in 1..n : queue[k] \in Queued /\ queue[k] # t
      BY <1>1, <2>4 DEF Queued
    <3>2. \A k \in 1..n : queue'[k] # t
      BY <2>1, <3>1
    <3>3. CASE i \in 1..n /\ j \in 1..n
      <4>1. queue[i] = queue[j]
        BY <2>1, <2>4, <3>3
      <4> QED BY <1>1, <2>4, <3>3, <4>1 DEF PlacesInv
    <3>4. CASE i = n + 1 /\ j \in 1..n
      BY <2>1, <2>4, <3>2, <3>4
    <3>5. CASE i \in 1..n /\ j = n + 1
      BY <2>1, <2>4, <3>2, <3>5
    <3> QED BY <2>1, <2>2, <3>3, <3>4, <3>5
  <2> QED BY <2>1, <2>3, <2>4
<1>3. CASE queue' = <<t>> \o queue
  <2>1. /\ queue' \in Seq(Turns) /\ Len(queue') = n + 1
        /\ queue'[1] = t /\ \A i \in 1..n : queue'[i + 1] = queue[i]
    BY <1>1, <1>3
  <2>2. DOMAIN queue' = 1..(n + 1)
    BY <2>1
  <2> HIDE DEF n
  <2>3. \A i \in 1..(n + 1) : i = 1 \/ (i - 1 \in 1..n /\ queue'[i] = queue[i - 1])
    <3> SUFFICES ASSUME NEW i \in 1..(n + 1), i # 1
                 PROVE  i - 1 \in 1..n /\ queue'[i] = queue[i - 1]
      OBVIOUS
    <3>1. i - 1 \in 1..n /\ i - 1 + 1 = i
      BY <1>1
    <3> QED BY <2>1, <3>1
  <2>4. Queued' = Queued \cup {t}
    <3>1. Queued' \subseteq Queued \cup {t}
      <4>1. ASSUME NEW i \in 1..(n + 1) PROVE queue'[i] \in Queued \cup {t}
        <5>1. CASE i = 1
          BY <2>1, <5>1
        <5>2. CASE i # 1
          BY <1>1, <2>3, <5>2 DEF Queued
        <5> QED BY <5>1, <5>2
      <4> QED BY <2>2, <4>1 DEF Queued
    <3>2. ASSUME NEW i \in 1..n PROVE queue[i] \in Queued'
      <4>1. i + 1 \in DOMAIN queue' /\ queue'[i + 1] = queue[i]
        BY <1>1, <2>1, <2>2
      <4> QED BY <4>1 DEF Queued
    <3>3. t \in Queued'
      BY <1>1, <2>1, <2>2 DEF Queued
    <3> QED BY <1>1, <3>1, <3>2, <3>3 DEF Queued
  <2>5. ASSUME PlacesInv, t \notin Queued, NEW i \in DOMAIN queue', NEW j \in DOMAIN queue',
               queue'[i] = queue'[j]
        PROVE  i = j
    <3>1. \A k \in 1..n : queue[k] # t
      BY <1>1, <2>5 DEF Queued
    <3>2. \A k, l \in 1..n : queue[k] = queue[l] => k = l
      BY <1>1, <2>5 DEF PlacesInv
    <3>3. i \in 1..(n + 1) /\ j \in 1..(n + 1)
      BY <2>2
    <3>4. (i = 1 /\ j = 1) \/ (i # 1 /\ j # 1)
      BY <2>1, <2>3, <2>5, <3>1, <3>3
    <3>5. i # 1 /\ j # 1 => i - 1 = j - 1
      BY <2>3, <2>5, <3>2, <3>3
    <3> QED BY <1>1, <3>3, <3>4, <3>5
  <2> QED BY <2>1, <2>4, <2>5
<1> QED BY <1>2, <1>3

(* What the queue holds when its first task is taken.                      *)
LEMMA QueueShrinks ==
  ASSUME TypeOK, queue # <<>>, queue' = Tail(queue)
  PROVE  /\ queue' \in Seq(Turns) /\ Head(queue) \in Turns
         /\ Queued = Queued' \cup {Head(queue)}
         /\ PlacesInv => /\ Head(queue) \notin Queued'
                         /\ \A i, j \in DOMAIN queue' : queue'[i] = queue'[j] => i = j
<1> DEFINE n == Len(queue) - 1
<1>1. queue \in Seq(Turns) /\ n \in Nat /\ DOMAIN queue = 1..(n + 1)
  BY DEF TypeOK
<1>2. /\ queue' \in Seq(Turns) /\ Len(queue') = n /\ Head(queue) = queue[1]
      /\ \A i \in 1..n : queue'[i] = queue[i + 1]
  BY <1>1
<1>3. DOMAIN queue' = 1..n /\ queue[1] \in Turns
  BY <1>1, <1>2
<1> HIDE DEF n
<1>4. Queued = Queued' \cup {queue[1]}
  <2>1. ASSUME NEW i \in 1..(n + 1), i # 1 PROVE queue[i] \in Queued'
    <3>1. i - 1 \in 1..n /\ queue'[i - 1] = queue[i]
      <4>1. i - 1 \in 1..n /\ i - 1 + 1 = i
        BY <1>1, <2>1
      <4> QED BY <1>2, <4>1
    <3> QED BY <1>3, <3>1 DEF Queued
  <2>2. ASSUME NEW i \in 1..n PROVE queue'[i] \in Queued
    <3>1. i + 1 \in DOMAIN queue
      BY <1>1
    <3> QED BY <1>2, <3>1 DEF Queued
  <2>3. queue[1] \in Queued
    BY <1>1 DEF Queued
  <2> QED BY <1>1, <1>3, <2>1, <2>2, <2>3 DEF Queued
<1>5. ASSUME PlacesInv
      PROVE  /\ queue[1] \notin Queued'
             /\ \A i, j \in DOMAIN queue' : queue'[i] = queue'[j] => i = j
  <2>1. \A i, j \in 1..(n + 1) : queue[i] = queue[j] => i = j
    BY <1>1, <1>5 DEF PlacesInv
  <2>2. \A i \in 1..n : i + 1 \in 1..(n + 1) /\ i + 1 # 1 /\ queue'[i] = queue[i + 1]
    BY <1>1, <1>2
  <2>3. 1 \in 1..(n + 1)
    BY <1>1
  <2>4. ASSUME NEW i \in 1..n PROVE queue'[i] # queue[1]
    <3>1. i + 1 \in 1..(n + 1) /\ i + 1 # 1 /\ queue'[i] = queue[i + 1]
      BY <2>2
    <3> QED BY <2>1, <2>3, <3>1
  <2>5. \A i, j \in 1..n : queue'[i] = queue'[j] => i = j
    <3> SUFFICES ASSUME NEW i \in 1..n, NEW j \in 1..n, queue'[i] = queue'[j]
                 PROVE  i = j
      OBVIOUS
    <3>1. /\ i + 1 \in 1..(n + 1) /\ queue'[i] = queue[i + 1]
          /\ j + 1 \in 1..(n + 1) /\ queue'[j] = queue[j + 1]
      BY <2>2
    <3>2. queue[i + 1] = queue[j + 1]
      BY <3>1
    <3>3. i + 1 = j + 1
      BY <2>1, <3>1, <3>2
    <3>4. i \in Nat /\ j \in Nat
      BY <1>1
    <3> QED BY <3>3, <3>4
  <2> QED BY <1>3, <2>4, <2>5 DEF Queued
<1> QED BY <1>2, <1>3, <1>4, <1>5

(* The worker's task is a turn that was answered.                          *)
LEMMA TaskOwned ==
  ASSUME IInv, task # None
  PROVE  task \in Turns /\ owner[task] \in Users /\ domain[task] \in Collections
<1>1. task \in Turns
  BY DEF IInv, TypeOK
<1>2. domain[task] # None /\ owner[task] # None
  BY <1>1 DEF IInv, PlacesInv, OwnersInv
<1> QED BY <1>1, <1>2 DEF IInv, TypeOK

(* Places stay when nothing moves.                                         *)
LEMMA PlacesKept ==
  ASSUME PlacesInv, UNCHANGED <<queue, outbox, task, acked, dead, lost, domain>>
  PROVE  PlacesInv'
  BY DEF PlacesInv, Queued

(* The facts and the places stay as they are.                              *)
LEMMA CleanKept ==
  ASSUME CleanInv,
         UNCHANGED <<store, pruned, domain, redelivered, outbox, queue, dead, task>>,
         stage \in {"storing", "acking"} => stage' \in {"storing", "acking"}
  PROVE  CleanInv'
  BY DEF CleanInv, Queued

(* The findings and the facts stay as they are.                            *)
LEMMA CompleteKept ==
  ASSUME CompleteInv,
         UNCHANGED <<store, pruned, stage, task, spoiled, found, pending, acked>>
  PROVE  CompleteInv'
  BY DEF CompleteInv, Kept

(* Owners stay when only new turns are given one.                          *)
LEMMA OwnersKept ==
  ASSUME IInv, UNCHANGED <<domain, worker, store>>,
         owner' \in [Turns -> Users \cup {None}],
         \A t \in Turns : owner[t] # None => owner'[t] = owner[t],
         \A u \in Users : running'[u] # None =>
            owner'[running'[u]] = u /\ domain[running'[u]] = None,
         \A u \in Users : \A i \in DOMAIN thread'[u] : owner'[thread'[u][i]] = u
  PROVE  OwnersInv'
<1> USE DEF IInv
<1>1. \A t \in Turns : domain'[t] # None => owner'[t] # None
  BY DEF OwnersInv
<1>2. stage' # "extracting" => window' = <<>>
  BY DEF OwnersInv, worker
<1>3. ASSUME NEW i \in DOMAIN window' PROVE owner'[window'[i]] = owner'[task']
  <2>1. i \in DOMAIN window /\ window' = window /\ task' = task /\ window # <<>>
    BY <1>3 DEF worker, TypeOK
  <2>2. task # None
    BY <2>1 DEF OwnersInv, TypeOK
  <2>3. window[i] \in Turns /\ owner[window[i]] = owner[task]
    BY <2>1 DEF OwnersInv, TypeOK
  <2> QED BY <2>1, <2>2, <2>3, TaskOwned, NoneAssumption
<1>4. ASSUME NEW f \in pending' PROVE owner'[f.about] = owner'[task']
  <2>1. f \in pending /\ task' = task /\ task # None
    BY <1>4 DEF worker, TypeOK
  <2>2. f.about \in Turns /\ owner[f.about] = owner[task]
    BY <2>1 DEF OwnersInv, TypeOK, Finding
  <2> QED BY <2>1, <2>2, TaskOwned, NoneAssumption
<1>5. ASSUME NEW f \in store'
      PROVE  /\ f.user = owner'[f.task] /\ f.collection = domain'[f.task]
             /\ owner'[f.finding.about] = f.user
  <2>1. f \in store /\ f.user \in Users /\ f.task \in Turns /\ f.finding.about \in Turns
    BY <1>5 DEF TypeOK, Fact, Finding
  <2> QED BY <2>1, NoneAssumption DEF OwnersInv
<1> QED BY <1>1, <1>2, <1>3, <1>4, <1>5 DEF OwnersInv

(* A message is appended to a thread.                                      *)
LEMMA SayType ==
  ASSUME TypeOK, NEW u \in Users, NEW t \in Turns, Say(u, t)
  PROVE  /\ thread' \in [Users -> Seq(Turns)]
         /\ \A v \in Users : \A i \in DOMAIN thread'[v] :
              \/ v = u /\ thread'[v][i] = t
              \/ i \in DOMAIN thread[v] /\ thread'[v][i] = thread[v][i]
<1>1. thread[u] \in Seq(Turns) /\ thread' = [thread EXCEPT ![u] = Append(thread[u], t)]
  BY DEF TypeOK, Say
<1>2. /\ Append(thread[u], t) \in Seq(Turns)
      /\ \A i \in DOMAIN Append(thread[u], t) :
           \/ Append(thread[u], t)[i] = t
           \/ i \in DOMAIN thread[u] /\ Append(thread[u], t)[i] = thread[u][i]
  BY <1>1
<1> QED BY <1>1, <1>2 DEF TypeOK

-----------------------------------------------------------------------------
(* The chat side.                                                          *)

(* What the chat side does not touch stays typed and in place.             *)
LEMMA ChatKeeps ==
  ASSUME IInv, UNCHANGED <<domain, outbox, broker, worker, store, crashes, logs>>,
         owner' \in [Turns -> Users \cup {None}],
         running' \in [Users -> Turns \cup {None}],
         thread' \in [Users -> Seq(Turns)]
  PROVE  TypeOK' /\ PlacesInv' /\ CleanInv' /\ CompleteInv'
<1> USE DEF IInv, broker, worker, logs
<1>1. TypeOK'
  BY DEF TypeOK
<1>2. PlacesInv'
  BY PlacesKept
<1>3. CleanInv'
  BY CleanKept
<1>4. CompleteInv'
  BY CompleteKept
<1> QED BY <1>1, <1>2, <1>3, <1>4

(* A turn begins: no fact and no task names it yet.                        *)
LEMMA AskStep ==
  ASSUME IInv, NEW u \in Users, Ask(u)
  PROVE  IInv'
<1>1. PICK t \in Turns :
        /\ owner[t] = None /\ owner' = [owner EXCEPT ![t] = u]
        /\ running' = [running EXCEPT ![u] = t] /\ Say(u, t)
  BY DEF Ask
<1>2. UNCHANGED <<domain, outbox, broker, worker, store, crashes, logs>>
  BY DEF Ask
<1> USE DEF IInv
<1>3. /\ owner' \in [Turns -> Users \cup {None}] /\ running' \in [Users -> Turns \cup {None}]
      /\ thread' \in [Users -> Seq(Turns)]
  BY <1>1, SayType DEF TypeOK
<1>4. owner'[t] = u /\ \A s \in Turns : owner[s] # None => s # t /\ owner'[s] = owner[s]
  BY <1>1 DEF TypeOK
<1>5. domain[t] = None
  BY <1>1 DEF OwnersInv
<1>6. \A v \in Users : running'[v] # None =>
        owner'[running'[v]] = v /\ domain[running'[v]] = None
  <2> SUFFICES ASSUME NEW v \in Users, running'[v] # None
               PROVE  owner'[running'[v]] = v /\ domain[running'[v]] = None
    OBVIOUS
  <2>1. CASE v = u
    BY <1>1, <1>4, <1>5, <2>1 DEF TypeOK
  <2>2. CASE v # u
    <3>1. running'[v] = running[v] /\ running[v] \in Turns /\ owner[running[v]] = v
          /\ domain[running[v]] = None
      BY <1>1, <2>2 DEF TypeOK, OwnersInv
    <3> QED BY <1>4, <3>1, NoneAssumption
  <2> QED BY <2>1, <2>2
<1>7. \A v \in Users : \A i \in DOMAIN thread'[v] : owner'[thread'[v][i]] = v
  <2> SUFFICES ASSUME NEW v \in Users, NEW i \in DOMAIN thread'[v]
               PROVE  owner'[thread'[v][i]] = v
    OBVIOUS
  <2>1. CASE v = u /\ thread'[v][i] = t
    BY <1>4, <2>1
  <2>2. CASE i \in DOMAIN thread[v] /\ thread'[v][i] = thread[v][i]
    <3>1. thread[v][i] \in Turns /\ owner[thread[v][i]] = v
      BY <2>2 DEF TypeOK, OwnersInv
    <3> QED BY <1>4, <2>2, <3>1, NoneAssumption
  <2> QED BY <1>1, <2>1, <2>2, SayType
<1>8. OwnersInv'
  BY <1>2, <1>3, <1>4, <1>6, <1>7, OwnersKept
<1> QED BY <1>2, <1>3, <1>8, ChatKeeps

(* A step of a turn that is running, or of none: what its thread then holds*)
(* is its user's.                                                          *)
LEMMA ThreadStep ==
  ASSUME IInv, UNCHANGED <<owner, domain, outbox, broker, worker, store, crashes, logs>>,
         running' \in [Users -> Turns \cup {None}],
         \A u \in Users : running'[u] # None => running'[u] = running[u],
         thread' \in [Users -> Seq(Turns)],
         \A v \in Users : \A i \in DOMAIN thread'[v] : owner[thread'[v][i]] = v
  PROVE  IInv'
<1>1. owner' \in [Turns -> Users \cup {None}]
  BY DEF IInv, TypeOK
<1>2. \A u \in Users : running'[u] # None =>
        owner'[running'[u]] = u /\ domain[running'[u]] = None
  BY DEF IInv, OwnersInv
<1>3. OwnersInv'
  BY <1>1, <1>2, OwnersKept
<1> QED BY <1>1, <1>3, ChatKeeps DEF IInv

(* What is said on a thread is its user's.                                 *)
LEMMA SayOwned ==
  ASSUME IInv, NEW u \in Users, running[u] # None, Say(u, running[u])
  PROVE  /\ thread' \in [Users -> Seq(Turns)] /\ running[u] \in Turns
         /\ \A v \in Users : \A i \in DOMAIN thread'[v] : owner[thread'[v][i]] = v
<1>1. running[u] \in Turns /\ owner[running[u]] = u
  BY DEF IInv, TypeOK, OwnersInv
<1>2. thread' \in [Users -> Seq(Turns)]
  BY <1>1, SayType DEF IInv
<1>3. ASSUME NEW v \in Users, NEW i \in DOMAIN thread'[v] PROVE owner[thread'[v][i]] = v
  <2>1. \/ v = u /\ thread'[v][i] = running[u]
        \/ i \in DOMAIN thread[v] /\ thread'[v][i] = thread[v][i]
    BY <1>1, SayType DEF IInv
  <2> QED BY <1>1, <2>1 DEF IInv, OwnersInv
<1> QED BY <1>1, <1>2, <1>3

(* The thread of a turn grows, is cut to its first message or forgotten.   *)
LEMMA RunStep ==
  ASSUME IInv, NEW u \in Users, Work(u) \/ Sandbox(u) \/ BreakOff(u) \/ Forget(u)
  PROVE  IInv'
<1> USE DEF IInv
<1>1. /\ running \in [Users -> Turns \cup {None}] /\ thread \in [Users -> Seq(Turns)]
      /\ \A v \in Users : \A i \in DOMAIN thread[v] : owner[thread[v][i]] = v
  BY DEF TypeOK, OwnersInv
<1>2. CASE Work(u)
  BY <1>1, <1>2, SayOwned, ThreadStep DEF Work
<1>3. CASE Sandbox(u)
  <2>1. thread[u] \in Seq(Turns) /\ 1 \in DOMAIN thread[u]
    BY <1>1, <1>3 DEF Sandbox
  <2>2. <<thread[u][1]>> \in Seq(Turns) /\ DOMAIN <<thread[u][1]>> = {1}
        /\ <<thread[u][1]>>[1] = thread[u][1]
    BY <2>1
  <2>3. thread' = [thread EXCEPT ![u] = <<thread[u][1]>>]
    BY <1>3 DEF Sandbox
  <2>4. thread' \in [Users -> Seq(Turns)]
        /\ \A v \in Users : \A i \in DOMAIN thread'[v] : owner[thread'[v][i]] = v
    BY <1>1, <2>1, <2>2, <2>3
  <2> QED BY <1>1, <1>3, <2>4, ThreadStep DEF Sandbox
<1>4. CASE BreakOff(u)
  <2>1. running' \in [Users -> Turns \cup {None}]
        /\ \A v \in Users : running'[v] # None => running'[v] = running[v]
    BY <1>1, <1>4 DEF BreakOff
  <2> QED BY <1>1, <1>4, <2>1, ThreadStep DEF BreakOff
<1>5. CASE Forget(u)
  <2>1. thread' \in [Users -> Seq(Turns)]
        /\ \A v \in Users : \A i \in DOMAIN thread'[v] : owner[thread'[v][i]] = v
    BY <1>1, <1>5 DEF Forget
  <2> QED BY <1>1, <1>5, <2>1, ThreadStep DEF Forget
<1> QED BY <1>2, <1>3, <1>4, <1>5

(* A running turn is in no place yet, and nothing was stored for it.       *)
LEMMA RunningFresh ==
  ASSUME IInv, NEW u \in Users, running[u] # None
  PROVE  /\ running[u] \in Turns /\ domain[running[u]] = None /\ owner[running[u]] = u
         /\ running[u] \notin outbox \cup Queued \cup {task} \cup acked \cup dead \cup lost
         /\ \A f \in store \cup {p.fact : p \in pruned} : f.task # running[u]
  BY DEF IInv, TypeOK, OwnersInv, PlacesInv, CleanInv

(* A turn ends in a domain and its task is handed to the publisher.        *)
LEMMA AnswerStep ==
  ASSUME IInv, NEW u \in Users, Answer(u)
  PROVE  IInv'
<1> DEFINE t == running[u]
<1>1. PICK c \in Collections : domain' = [domain EXCEPT ![t] = c]
  BY DEF Answer
<1>2. /\ t # None /\ Say(u, t) /\ running' = [running EXCEPT ![u] = None]
      /\ outbox' = outbox \cup {t}
      /\ UNCHANGED <<owner, broker, worker, store, crashes, logs>>
  BY DEF Answer
<1>3. /\ t \in Turns /\ domain[t] = None /\ owner[t] = u
      /\ t \notin outbox \cup Queued \cup {task} \cup acked \cup dead \cup lost
      /\ \A f \in store \cup {p.fact : p \in pruned} : f.task # t
  BY <1>2, RunningFresh
<1>4. /\ thread' \in [Users -> Seq(Turns)]
      /\ \A v \in Users : \A i \in DOMAIN thread'[v] : owner[thread'[v][i]] = v
  BY <1>2, SayOwned
<1> USE DEF IInv
<1>5. /\ domain' \in [Turns -> Collections \cup {None}] /\ domain'[t] # None
      /\ \A s \in Turns : s # t => domain'[s] = domain[s]
  BY <1>1, <1>3, NoneAssumption DEF TypeOK
<1>6. \A v \in Users : running'[v] # None =>
        running'[v] = running[v] /\ running[v] \in Turns /\ running[v] # t
  <2> SUFFICES ASSUME NEW v \in Users, running'[v] # None
               PROVE  running'[v] = running[v] /\ running[v] \in Turns /\ running[v] # t
    OBVIOUS
  <2>1. v # u /\ running'[v] = running[v]
    BY <1>2 DEF TypeOK
  <2>2. running[v] \in Turns /\ owner[running[v]] = v
    BY <2>1 DEF TypeOK, OwnersInv
  <2> QED BY <1>3, <2>1, <2>2
<1>7. running' \in [Users -> Turns \cup {None}]
  BY <1>2 DEF TypeOK
<1> HIDE DEF t
<1> USE DEF broker, worker, logs
<1>8. TypeOK'
  BY <1>2, <1>3, <1>4, <1>5, <1>7 DEF TypeOK
<1>9. OwnersInv'
  <2>1. \A v \in Users : running'[v] # None =>
          owner'[running'[v]] = v /\ domain'[running'[v]] = None
    BY <1>2, <1>5, <1>6 DEF OwnersInv
  <2>2. \A v \in Users : \A i \in DOMAIN thread'[v] : owner'[thread'[v][i]] = v
    BY <1>2, <1>4
  <2>3. \A s \in Turns : domain'[s] # None => owner'[s] # None
    BY <1>2, <1>3, <1>5, NoneAssumption DEF OwnersInv
  <2>4. ASSUME NEW f \in store
        PROVE  /\ f.user = owner'[f.task] /\ f.collection = domain'[f.task]
               /\ owner'[f.finding.about] = f.user
    <3>1. f.task \in Turns /\ f.task # t
      BY <1>3 DEF TypeOK, Fact
    <3> QED BY <1>2, <1>5, <3>1 DEF OwnersInv
  <2> QED BY <1>2, <2>1, <2>2, <2>3, <2>4 DEF OwnersInv
<1>10. PlacesInv'
  <2>1. Queued' = Queued
    BY <1>2 DEF Queued
  <2>2. \A s \in Turns : domain'[s] # None <=>
          s \in outbox' \cup Queued' \cup {task'} \cup acked' \cup dead' \cup lost'
    BY <1>2, <1>3, <1>5, <2>1 DEF PlacesInv
  <2> QED BY <1>2, <1>3, <2>1, <2>2 DEF PlacesInv
<1>11. CleanInv'
  <2>1. Queued' = Queued
    BY <1>2 DEF Queued
  <2>2. \A f \in store \cup {p.fact : p \in pruned} : f.task \in Turns /\ f.task # t
    BY <1>3 DEF TypeOK, Fact
  <2> QED BY <1>2, <1>5, <2>1, <2>2 DEF CleanInv
<1>12. CompleteInv'
  BY <1>2, CompleteKept
<1> QED BY <1>8, <1>9, <1>10, <1>11, <1>12

(* What the owner's part needs of a step of the publisher or the worker.   *)
LEMMA OwnersFrame ==
  ASSUME OwnersInv, UNCHANGED <<chat, store>>,
         stage' # "extracting" => window' = <<>>,
         \A i \in DOMAIN window' : owner[window'[i]] = owner[task'],
         \A f \in pending' : owner[f.about] = owner[task']
  PROVE  OwnersInv'
  BY DEF OwnersInv, chat

(* The task enters the queue, or is lost.                                  *)
LEMMA PublishStep ==
  ASSUME IInv, NEW t \in Turns, Publish(t)
  PROVE  IInv'
<1> USE DEF IInv
<1>1. /\ t \in outbox /\ outbox' = outbox \ {t}
      /\ \/ queue' = Append(queue, t) /\ UNCHANGED lost
         \/ lost' = lost \cup {t} /\ UNCHANGED queue
      /\ UNCHANGED <<chat, acked, dead, worker, store, crashes, spoiled, redelivered, found,
                     pruned>>
  BY DEF Publish
<1>2. t \notin Queued \cup acked \cup dead \cup lost /\ t # task
  BY <1>1 DEF PlacesInv
<1>3. /\ queue' \in Seq(Turns)
      /\ \A i, j \in DOMAIN queue' : queue'[i] = queue'[j] => i = j
      /\ \/ Queued' = Queued \cup {t} /\ lost' = lost
         \/ Queued' = Queued /\ lost' = lost \cup {t}
  <2>1. CASE queue' = Append(queue, t) /\ UNCHANGED lost
    BY <1>2, <2>1, QueueGrows
  <2>2. CASE lost' = lost \cup {t} /\ UNCHANGED queue
    BY <2>2 DEF TypeOK, PlacesInv, Queued
  <2> QED BY <1>1, <2>1, <2>2
<1>4. TypeOK'
  BY <1>1, <1>3 DEF TypeOK, chat, worker
<1>5. OwnersInv'
  BY <1>1, OwnersFrame DEF worker, OwnersInv
<1>6. PlacesInv'
  BY <1>1, <1>2, <1>3 DEF PlacesInv, chat, worker
<1>7. CleanInv'
  BY <1>1, <1>3 DEF CleanInv, chat, worker
<1>8. CompleteInv'
  BY <1>1, CompleteKept DEF worker
<1> QED BY <1>4, <1>5, <1>6, <1>7, <1>8

-----------------------------------------------------------------------------
(* The worker.                                                             *)

(* The worker takes the first task and forgets what it found before.       *)
LEMMA DeliverStep ==
  ASSUME IInv, Deliver
  PROVE  IInv'
<1> USE DEF IInv
<1> DEFINE t == Head(queue)
<1>1. /\ stage = "waiting" /\ queue # <<>> /\ task' = t /\ queue' = Tail(queue)
      /\ stage' = "reading" /\ found' = [found EXCEPT ![t] = {}]
      /\ UNCHANGED <<chat, outbox, acked, dead, window, pending, store, crashes, lost,
                     spoiled, redelivered, pruned>>
  BY DEF Deliver
<1>2. /\ queue' \in Seq(Turns) /\ t \in Turns /\ Queued = Queued' \cup {t}
      /\ t \notin Queued'
      /\ \A i, j \in DOMAIN queue' : queue'[i] = queue'[j] => i = j
  BY <1>1, QueueShrinks
<1> HIDE DEF t
<1>3. task = None /\ window = <<>> /\ pending = {} /\ t # None /\ None \notin Turns
  BY <1>1, <1>2, TurnsType DEF TypeOK, OwnersInv
<1>4. TypeOK'
  BY <1>1, <1>2, <1>3 DEF TypeOK, chat
<1>5. OwnersInv'
  BY <1>1, <1>3, OwnersFrame
<1>6. PlacesInv'
  BY <1>1, <1>2, <1>3 DEF PlacesInv, chat
<1>7. CleanInv'
  BY <1>1, <1>2, <1>3 DEF CleanInv, chat
<1>8. \A s \in acked : s # t
  BY <1>2 DEF PlacesInv
<1>9. found'[t] = {} /\ \A s \in acked : found'[s] = found[s]
  BY <1>1, <1>2, <1>8 DEF TypeOK
<1>10. CompleteInv'
  BY <1>1, <1>9 DEF CompleteInv, Kept
<1> QED BY <1>4, <1>5, <1>6, <1>7, <1>10

(* The delivery is over: acknowledged, or dead-lettered while reading.     *)
LEMMA SettleStep ==
  ASSUME IInv, task # None, Rest,
         UNCHANGED <<chat, outbox, queue, store, crashes, logs>>,
         \/ /\ acked' = acked \cup {task} /\ dead' = dead /\ pending = {}
            /\ stage \in {"reading", "acking"}
         \/ dead' = dead \cup {task} /\ acked' = acked /\ stage = "reading"
  PROVE  IInv'
<1> USE DEF IInv, Rest, logs
<1>1. /\ task \in Turns /\ None \notin Turns
      /\ task \notin outbox \cup Queued \cup acked \cup dead \cup lost
  BY TaskOwned, TurnsType DEF PlacesInv
<1>2. TypeOK'
  BY <1>1, BoundsAssumption DEF TypeOK, chat
<1>3. OwnersInv'
  BY OwnersFrame
<1>4. Queued' = Queued
  BY DEF Queued
<1>5. None \notin outbox \cup Queued \cup acked \cup dead \cup lost
  BY <1>1 DEF TypeOK, Queued
<1>6. PlacesInv'
  BY <1>1, <1>4, <1>5 DEF PlacesInv, chat
<1>7. CleanInv'
  <2> SUFFICES ASSUME NEW f \in store \cup {p.fact : p \in pruned}
               PROVE  /\ domain[f.task] # None
                      /\ \/ f.task \in redelivered
                         \/ /\ f.task \notin outbox \cup Queued \cup dead'
                            /\ f.task = task' => stage' \in {"storing", "acking"}
    BY <1>4 DEF CleanInv, chat
  <2>1. f.task \in Turns
    BY DEF TypeOK, Fact
  <2>2. f.task # task'
    BY <1>1, <2>1
  <2> QED BY <2>2 DEF CleanInv
<1>8. \A t, x : Kept(t, x)' <=> Kept(t, x)
  BY DEF Kept
<1>9. task \notin spoiled /\ acked' # acked => \A x \in found[task] : Kept(task, x)
  BY DEF CompleteInv
<1>10. CompleteInv'
  BY <1>1, <1>2, <1>8, <1>9 DEF CompleteInv, TypeOK
<1> QED BY <1>2, <1>3, <1>6, <1>7, <1>10

(* A checkpoint is read, or there is none, or it cannot be read.           *)
LEMMA ReadStep ==
  ASSUME IInv, ReadThread \/ ReadNothing \/ ReadFails
  PROVE  IInv'
<1> USE DEF IInv
<1>1. stage = "reading" /\ task # None /\ pending = {} /\ window = <<>>
  BY DEF ReadThread, ReadNothing, ReadFails, TypeOK, OwnersInv
<1>2. CASE ReadThread
  <2> DEFINE s == thread[owner[task]]
  <2>1. task \in Turns /\ owner[task] \in Users
    BY <1>1, TaskOwned
  <2>2. s \in Seq(Turns) /\ s # <<>> /\ window' = Tail4(s) /\ stage' = "extracting"
        /\ UNCHANGED <<chat, outbox, broker, task, pending, store, crashes, logs>>
    BY <1>2, <2>1 DEF ReadThread, TypeOK
  <2>3. \A i \in DOMAIN s : owner[s[i]] = owner[task]
    BY <2>1 DEF OwnersInv
  <2> HIDE DEF s
  <2>4. /\ window' \in Seq(Turns) /\ Len(window') <= ContextSize
        /\ \A i \in DOMAIN window' : owner[window'[i]] = owner[task']
    BY <2>2, <2>3, TailType
  <2> USE DEF broker, logs
  <2>5. TypeOK'
    BY <1>1, <2>2, <2>4 DEF TypeOK, chat
  <2>6. OwnersInv'
    BY <1>1, <2>2, <2>4, OwnersFrame
  <2>7. PlacesInv' /\ CleanInv'
    BY <1>1, <2>2, PlacesKept, CleanKept DEF chat
  <2>8. CompleteInv'
    BY <1>1, <2>2 DEF CompleteInv, Kept
  <2> QED BY <2>5, <2>6, <2>7, <2>8
<1>3. CASE ReadNothing
  BY <1>1, <1>3, SettleStep DEF ReadNothing, Acknowledge
<1>4. CASE ReadFails
  BY <1>1, <1>4, SettleStep DEF ReadFails
<1> QED BY <1>2, <1>3, <1>4

(* What the worker keeps in place while it has a delivery in hand.         *)
LEMMA HoldStep ==
  ASSUME IInv, UNCHANGED <<chat, outbox, broker, task, crashes, lost, redelivered, pruned>>,
         task # None, window' = <<>>, stage' \in {"storing", "acking"},
         pending' \subseteq Finding, stage' = "storing" <=> pending' # {},
         \A f \in pending' : owner[f.about] = owner[task],
         store' = store, spoiled' \subseteq Turns, found' \in [Turns -> SUBSET Finding]
  PROVE  TypeOK' /\ OwnersInv' /\ PlacesInv' /\ CleanInv'
<1> USE DEF IInv, broker
<1>1. TypeOK'
  BY BoundsAssumption DEF TypeOK, chat
<1>2. OwnersInv'
  BY OwnersFrame
<1>3. PlacesInv' /\ CleanInv'
  BY PlacesKept, CleanKept DEF chat
<1> QED BY <1>1, <1>2, <1>3

(* The facts found are about turns in the window.                          *)
LEMMA ExtractStep ==
  ASSUME IInv, Extract
  PROVE  IInv'
<1> USE DEF IInv
<1>1. PICK findings \in SUBSET {f \in Finding : \E i \in DOMAIN window : window[i] = f.about} :
        /\ pending' = findings /\ found' = [found EXCEPT ![task] = findings]
        /\ stage' = IF findings = {} THEN "acking" ELSE "storing"
  BY DEF Extract
<1>2. /\ stage = "extracting" /\ task # None /\ window' = <<>>
      /\ UNCHANGED <<chat, outbox, broker, task, store, crashes, lost, spoiled, redelivered,
                     pruned>>
  BY DEF Extract, TypeOK
<1>3. task \in Turns
  BY <1>2, TaskOwned
<1>4. \A f \in findings : f \in Finding /\ owner[f.about] = owner[task]
  BY DEF OwnersInv
<1>5. found' \in [Turns -> SUBSET Finding] /\ found'[task] = findings
      /\ \A t \in acked : found'[t] = found[t]
  BY <1>1, <1>3, <1>4 DEF TypeOK, PlacesInv
<1>6. spoiled' \subseteq Turns
  BY <1>2 DEF TypeOK
<1>7. TypeOK' /\ OwnersInv' /\ PlacesInv' /\ CleanInv'
  BY <1>1, <1>2, <1>4, <1>5, <1>6, HoldStep
<1>8. \A t, x : Kept(t, x)' <=> Kept(t, x)
  BY <1>2 DEF Kept
<1>9. CompleteInv'
  BY <1>1, <1>2, <1>5, <1>8 DEF CompleteInv, broker
<1> QED BY <1>7, <1>9

(* An exception is swallowed, and the delivery goes on.                    *)
LEMMA SwallowStep ==
  ASSUME IInv, ExtractFails \/ StoreFails
  PROVE  IInv'
<1> USE DEF IInv
<1>1. /\ task # None /\ window' = <<>> /\ spoiled' = spoiled \cup {task}
      /\ UNCHANGED <<chat, outbox, broker, task, store, crashes, lost, redelivered, found,
                     pruned>>
  BY DEF ExtractFails, StoreFails, Swallow, TypeOK
<1>2. task \in Turns
  BY <1>1, TaskOwned
<1>3. /\ stage' \in {"storing", "acking"} /\ pending' \subseteq pending
      /\ stage' = "storing" <=> pending' # {}
  BY DEF ExtractFails, StoreFails, NextFact, TypeOK
<1>4. /\ \A f \in pending' : f \in Finding /\ owner[f.about] = owner[task]
      /\ spoiled' \subseteq Turns /\ found' \in [Turns -> SUBSET Finding]
  BY <1>1, <1>2, <1>3 DEF TypeOK, OwnersInv
<1>5. TypeOK' /\ OwnersInv' /\ PlacesInv' /\ CleanInv'
  BY <1>1, <1>3, <1>4, HoldStep
<1>6. \A t, x : Kept(t, x)' <=> Kept(t, x)
  BY <1>1 DEF Kept
<1>7. CompleteInv'
  BY <1>1, <1>3, <1>6 DEF CompleteInv, broker
<1> QED BY <1>5, <1>7

(* A fact is stored, for the user and in the collection of the task.       *)
LEMMA StoreStep ==
  ASSUME IInv, StoreFact
  PROVE  IInv'
<1> USE DEF IInv
<1>1. PICK f \in pending :
        /\ store' = store \cup {[user |-> owner[task], collection |-> domain[task],
                                 task |-> task, finding |-> f]}
        /\ pending' = pending \ {f}
        /\ stage' = IF pending = {f} THEN "acking" ELSE "storing"
  BY DEF StoreFact, NextFact
<1> DEFINE new == [user |-> owner[task], collection |-> domain[task], task |-> task,
                   finding |-> f]
<1>2. /\ stage = "storing" /\ task # None /\ window = <<>>
      /\ UNCHANGED <<chat, outbox, broker, task, window, crashes, logs>>
  BY DEF StoreFact, TypeOK, OwnersInv
<1>3. task \in Turns /\ owner[task] \in Users /\ domain[task] \in Collections
  BY <1>2, TaskOwned
<1>4. f \in Finding /\ owner[f.about] = owner[task]
  BY DEF TypeOK, OwnersInv
<1>5. /\ new \in Fact /\ new.task = task /\ new.finding = f /\ new.user = owner[task]
      /\ new.collection = domain[task]
  BY <1>3, <1>4 DEF Fact
<1>6. store' = store \cup {new}
  BY <1>1
<1> HIDE DEF new
<1> USE DEF broker, logs
<1>7. /\ stage' \in {"storing", "acking"} /\ pending' \subseteq pending
      /\ stage' = "storing" <=> pending' # {}
  BY <1>1
<1>8. TypeOK'
  BY <1>2, <1>3, <1>5, <1>6, <1>7 DEF TypeOK, chat
<1>9. OwnersInv'
  BY <1>2, <1>4, <1>5, <1>6, <1>7 DEF OwnersInv, chat
<1>10. PlacesInv'
  BY <1>2, PlacesKept DEF chat
<1>11. CleanInv'
  <2>1. Queued' = Queued
    BY <1>2 DEF Queued
  <2>2. task \notin outbox \cup Queued \cup dead /\ domain[task] # None
    BY <1>3, NoneAssumption DEF PlacesInv
  <2>3. ASSUME NEW g \in store' \cup {p.fact : p \in pruned'}
        PROVE  g = new \/ g \in store \cup {p.fact : p \in pruned}
    BY <1>2, <1>6
  <2> QED BY <1>2, <1>5, <1>7, <2>1, <2>2, <2>3 DEF CleanInv, chat
<1>12. CompleteInv'
  <2>1. \A t, x : Kept(t, x) => Kept(t, x)'
    BY <1>2, <1>6 DEF Kept
  <2>2. Kept(task, f)'
    <3>1. new \in store' /\ new.task = task' /\ new.finding = f
      BY <1>2, <1>5, <1>6
    <3> QED BY <3>1 DEF Kept
  <2>3. \A x \in pending : x \in pending' \/ x = f
    BY <1>1
  <2> QED BY <1>2, <1>7, <2>1, <2>2, <2>3 DEF CompleteInv
<1> QED BY <1>8, <1>9, <1>10, <1>11, <1>12

(* The delivery goes back to the front of the queue.                       *)
LEMMA CrashStep ==
  ASSUME IInv, Crash
  PROVE  IInv'
<1> USE DEF IInv, Rest
<1>1. /\ task # None /\ crashes < MaxCrashes /\ crashes' = crashes + 1
      /\ queue' = <<task>> \o queue /\ redelivered' = redelivered \cup {task} /\ Rest
      /\ UNCHANGED <<chat, outbox, acked, dead, store, lost, spoiled, found, pruned>>
  BY DEF Crash
<1>2. task \in Turns /\ None \notin Turns
  BY <1>1, TaskOwned, TurnsType
<1>3. task \notin outbox \cup Queued \cup acked \cup dead \cup lost
  BY DEF PlacesInv
<1>4. /\ queue' \in Seq(Turns) /\ Queued' = Queued \cup {task}
      /\ \A i, j \in DOMAIN queue' : queue'[i] = queue'[j] => i = j
  BY <1>1, <1>2, <1>3, QueueGrows
<1>5. crashes' \in 0..MaxCrashes
  BY <1>1, BoundsAssumption DEF TypeOK
<1>6. TypeOK'
  BY <1>1, <1>2, <1>4, <1>5, BoundsAssumption DEF TypeOK, chat
<1>7. OwnersInv'
  BY <1>1, OwnersFrame
<1>8. PlacesInv'
  <2>1. None \notin outbox \cup Queued \cup acked \cup dead \cup lost
    BY <1>2 DEF TypeOK, Queued
  <2> QED BY <1>1, <1>2, <1>3, <1>4, <2>1 DEF PlacesInv, chat
<1>9. CleanInv'
  <2> SUFFICES ASSUME NEW f \in store \cup {p.fact : p \in pruned}
               PROVE  /\ domain[f.task] # None
                      /\ \/ f.task \in redelivered'
                         \/ /\ f.task \notin outbox \cup Queued' \cup dead
                            /\ f.task = task' => stage' \in {"storing", "acking"}
    BY <1>1 DEF CleanInv, chat
  <2>1. f.task \in Turns
    BY DEF TypeOK, Fact
  <2> QED BY <1>1, <1>2, <1>4, <2>1 DEF CleanInv
<1>10. \A t, x : Kept(t, x)' <=> Kept(t, x)
  BY <1>1 DEF Kept
<1>11. CompleteInv'
  BY <1>1, <1>10 DEF CompleteInv
<1> QED BY <1>6, <1>7, <1>8, <1>9, <1>11

(* What a sweep deletes is remembered as idle and minor.                   *)
LEMMA PruneStep ==
  ASSUME IInv, NEW c \in Collections, Prune(c)
  PROVE  IInv'
<1> USE DEF IInv
<1>1. PICK page \in SUBSET {f \in store : f.collection = c} : \E idle \in SUBSET page :
        /\ store' = store \ {f \in page : Prunable(f, idle)}
        /\ pruned' = pruned \cup {[fact |-> f, idle |-> f \in idle] :
                                    f \in {g \in page : Prunable(g, idle)}}
  BY DEF Prune
<1>2. PICK idle \in SUBSET page :
        /\ store' = store \ {f \in page : Prunable(f, idle)}
        /\ pruned' = pruned \cup {[fact |-> f, idle |-> f \in idle] :
                                    f \in {g \in page : Prunable(g, idle)}}
  BY <1>1
<1> DEFINE slated == {f \in page : Prunable(f, idle)}
<1>3. UNCHANGED <<chat, outbox, broker, worker, crashes, lost, spoiled, redelivered, found>>
  BY DEF Prune
<1>4. slated \subseteq store /\ \A f \in slated : f \in idle /\ f.finding.minor
  BY DEF Prunable
<1>5. store' = store \ slated
      /\ pruned' = pruned \cup {[fact |-> f, idle |-> f \in idle] : f \in slated}
  BY <1>2
<1> HIDE DEF slated
<1>6. \A p \in pruned' : p \in pruned \/ p.fact \in slated
  BY <1>5
<1>7. \A f \in slated : \E p \in pruned' : p.fact = f /\ p.idle
  <2> SUFFICES ASSUME NEW f \in slated PROVE \E p \in pruned' : p.fact = f /\ p.idle
    OBVIOUS
  <2>1. [fact |-> f, idle |-> f \in idle] \in pruned'
    BY <1>5
  <2> QED BY <1>4, <2>1
<1>8. pruned' \subseteq [fact : Fact, idle : BOOLEAN]
  <2>1. pruned \subseteq [fact : Fact, idle : BOOLEAN] /\ slated \subseteq Fact
    BY <1>4 DEF TypeOK
  <2>2. \A f \in slated : (f \in idle) \in BOOLEAN
    OBVIOUS
  <2>3. \A f \in slated : [fact |-> f, idle |-> f \in idle] \in [fact : Fact, idle : BOOLEAN]
    BY <2>1, <2>2, Zenon
  <2> QED BY <1>5, <2>1, <2>3
<1> USE DEF broker, worker
<1>9. TypeOK'
  BY <1>3, <1>4, <1>5, <1>8 DEF TypeOK, chat
<1>10. OwnersInv'
  BY <1>3, <1>5 DEF OwnersInv, chat
<1>11. PlacesInv'
  BY <1>3, PlacesKept DEF chat
<1>12. CleanInv'
  <2>1. \A f \in store' \cup {p.fact : p \in pruned'} : f \in store \cup {p.fact : p \in pruned}
    BY <1>4, <1>5, <1>6
  <2>2. Queued' = Queued
    BY <1>3 DEF Queued
  <2> QED BY <1>3, <2>1, <2>2 DEF CleanInv, chat
<1>13. \A t, x : Kept(t, x) => Kept(t, x)'
  <2> SUFFICES ASSUME NEW t, NEW x, Kept(t, x) PROVE Kept(t, x)'
    OBVIOUS
  <2>1. ASSUME NEW f \in store, f.task = t, f.finding = x PROVE Kept(t, x)'
    <3>1. CASE f \in slated
      BY <1>4, <1>7, <2>1, <3>1 DEF Kept
    <3>2. CASE f \notin slated
      BY <1>5, <2>1, <3>2 DEF Kept
    <3> QED BY <3>1, <3>2
  <2>2. ASSUME x.minor, NEW p \in pruned, p.idle, p.fact.task = t, p.fact.finding = x
        PROVE  Kept(t, x)'
    BY <1>5, <2>2 DEF Kept
  <2> QED BY <2>1, <2>2 DEF Kept
<1>14. CompleteInv'
  BY <1>3, <1>13 DEF CompleteInv
<1> QED BY <1>9, <1>10, <1>11, <1>12, <1>14

-----------------------------------------------------------------------------
(* The invariant.                                                          *)

(* The invariant holds initially.                                          *)
LEMMA InitInv == Init => IInv
<1> SUFFICES ASSUME Init PROVE IInv
  OBVIOUS
<1> USE DEF Init, Idle
<1>1. TypeOK
  BY BoundsAssumption DEF TypeOK
<1>2. Queued = {}
  BY DEF Queued
<1>3. PlacesInv
  BY <1>2, TurnsType DEF PlacesInv
<1> QED BY <1>1, <1>3 DEF IInv, OwnersInv, CleanInv, CompleteInv

(* Every step keeps the invariant.                                         *)
LEMMA StepInv == IInv /\ [Next]_vars => IInv'
<1> SUFFICES ASSUME IInv, [Next]_vars PROVE IInv'
  OBVIOUS
<1>1. ASSUME NEW u \in Users,
             Ask(u) \/ Work(u) \/ Sandbox(u) \/ Answer(u) \/ BreakOff(u) \/ Forget(u)
      PROVE  IInv'
  BY <1>1, AskStep, RunStep, AnswerStep
<1>2. ASSUME NEW t \in Turns, Publish(t) PROVE IInv'
  BY <1>2, PublishStep
<1>3. CASE WorkerStep
  <2>1. CASE Ack
    <3>1. stage = "acking" /\ task # None /\ pending = {}
      BY <2>1 DEF Ack, IInv, TypeOK
    <3> QED BY <2>1, <3>1, SettleStep DEF Ack, Acknowledge
  <2> QED BY <1>3, <2>1, DeliverStep, ReadStep, ExtractStep, SwallowStep, StoreStep
          DEF WorkerStep
<1>4. CASE Crash
  BY <1>4, CrashStep
<1>5. ASSUME NEW c \in Collections, Prune(c) PROVE IInv'
  BY <1>5, PruneStep
<1>6. CASE UNCHANGED vars
  <2> USE <1>6 DEF vars, chat, broker, worker, logs, IInv
  <2>1. TypeOK'
    BY DEF TypeOK
  <2>2. OwnersInv'
    BY DEF OwnersInv
  <2>3. PlacesInv' /\ CleanInv' /\ CompleteInv'
    BY PlacesKept, CleanKept, CompleteKept
  <2> QED BY <2>1, <2>2, <2>3
<1> QED BY <1>1, <1>2, <1>3, <1>4, <1>5, <1>6 DEF Next

(* The invariant always holds.                                             *)
LEMMA Invariance == Spec => []IInv
  BY InitInv, StepInv, PTL DEF Spec

(* Every variable of the pipeline keeps its type.                          *)
THEOREM MemoryTypeCorrect == Spec => []TypeOK
<1>1. IInv => TypeOK
  BY DEF IInv
<1> QED BY <1>1, Invariance, PTL

(* A fact belongs to the user whose conversation it was taken from, and    *)
(* lies in the collection its task named; retrieval for one user never     *)
(* shows what another said.                                                *)
THEOREM FactsStayOwned == Spec => []FactsOwned
<1>1. IInv => FactsOwned
  BY DEF IInv, OwnersInv, FactsOwned, Retrieved
<1> QED BY <1>1, Invariance, PTL

(* Nothing an undisturbed extraction found is missing when its task is     *)
(* acknowledged, except what a sweep deleted as idle and unimportant.      *)
THEOREM FactsStayComplete == Spec => []FactsComplete
<1>1. IInv => FactsComplete
  BY DEF IInv, CompleteInv, Kept, FactsComplete
<1> QED BY <1>1, Invariance, PTL

(* Replaying a dead-lettered task that was delivered once stores nothing   *)
(* a second time.                                                          *)
THEOREM DeadLettersClean == Spec => []DeadLetterClean
<1>1. IInv => DeadLetterClean
  BY DEF IInv, CleanInv, DeadLetterClean
<1> QED BY <1>1, Invariance, PTL

(* A queue that names no task twice is as long as the set of its tasks.    *)
LEMMA QueueCounts ==
  ASSUME TypeOK, PlacesInv
  PROVE  Len(queue) = Cardinality(Queued)
<1> DEFINE n == Len(queue)
           q == [i \in 1..n |-> queue[i]]
<1>1. n \in Nat /\ DOMAIN queue = 1..n
  BY DEF TypeOK
<1>2. q \in [1..n -> Queued] /\ IsInjective(q)
  BY <1>1 DEF Queued, PlacesInv, IsInjective
<1>3. \A t \in Queued : \E i \in 1..n : q[i] = t
  BY <1>1 DEF Queued
<1>4. q \in Bijection(1..n, Queued)
  BY <1>2, <1>3 DEF Bijection, Injection, Surjection
<1>5. Cardinality(Queued) = n
  BY <1>1, <1>4, FS_CountingElements DEF ExistsBijection
<1> QED BY <1>5

(* A task that was handed to the publisher is in exactly one place.        *)
THEOREM TasksAreConserved == Spec => []TasksConserved
<1>1. ASSUME IInv PROVE TasksConserved
  <2> DEFINE places == <<outbox, Queued, {task}, acked, dead, lost>>
             at(t) == {p \in DOMAIN places : t \in places[p]}
  <2>1. Len(queue) = Cardinality(Queued)
    BY <1>1, QueueCounts DEF IInv
  <2>2. ASSUME NEW t \in Turns
        PROVE  Cardinality(at(t)) = IF domain[t] = None THEN 0 ELSE 1
    <3>1. /\ at(t) \subseteq 1..6
          /\ 1 \in at(t) <=> t \in outbox
          /\ 2 \in at(t) <=> t \in Queued
          /\ 3 \in at(t) <=> t = task
          /\ 4 \in at(t) <=> t \in acked
          /\ 5 \in at(t) <=> t \in dead
          /\ 6 \in at(t) <=> t \in lost
      OBVIOUS
    <3> HIDE DEF at
    <3>2. \A p \in 1..6 : p = 1 \/ p = 2 \/ p = 3 \/ p = 4 \/ p = 5 \/ p = 6
      OBVIOUS
    <3>3. CASE domain[t] = None
      <4>1. at(t) = {}
        BY <1>1, <3>1, <3>2, <3>3 DEF IInv, PlacesInv
      <4> QED BY <3>3, <4>1, FS_EmptySet
    <3>4. CASE domain[t] # None
      <4>1. t \in outbox \cup Queued \cup {task} \cup acked \cup dead \cup lost
        BY <1>1, <3>4 DEF IInv, PlacesInv
      <4>2. \A p, r \in at(t) : p = r
        BY <1>1, <3>1, <3>2 DEF IInv, PlacesInv
      <4>3. \E p : at(t) = {p}
        <5>1. at(t) # {}
          BY <3>1, <4>1
        <5>2. PICK p : p \in at(t)
          BY <5>1
        <5>3. at(t) = {p}
          BY <4>2, <5>2
        <5> QED BY <5>3
      <4> QED BY <3>4, <4>3, FS_Singleton
    <3> QED BY <3>3, <3>4
  <2> HIDE DEF at
  <2>3. \A t \in Turns : Cardinality({p \in DOMAIN places : t \in places[p]})
                           = IF domain[t] = None THEN 0 ELSE 1
    BY <2>2 DEF at
  <2> QED BY <2>1, <2>3 DEF TasksConserved, Queued
<1> QED BY <1>1, Invariance, PTL

-----------------------------------------------------------------------------
(* The refinement of MemoryContract.                                       *)

Places == [t \in Turns |-> Place(t)]

(* A task's place, read off the sets it is in.                             *)
LEMMA PlaceOf ==
  ASSUME IInv, NEW t \in Turns
  PROVE  /\ t \in outbox => Place(t) = "handed"
         /\ t \in lost => Place(t) = "lost"
         /\ t \in acked => Place(t) = "acked"
         /\ t \in dead => Place(t) = "dead"
         /\ t \in Queued \/ t = task => Place(t) = "taken"
         /\ domain[t] = None => Place(t) = "none"
<1>1. (\E i \in DOMAIN queue : queue[i] = t) <=> t \in Queued
  BY DEF Queued
<1>2. /\ t \in outbox => t \notin acked \cup dead \cup lost
      /\ t \in Queued \/ t = task => t \notin outbox \cup acked \cup dead \cup lost
      /\ t \in acked => t \notin dead \cup lost
      /\ t \in dead => t \notin lost
      /\ domain[t] = None => t \notin outbox \cup Queued \cup {task} \cup acked \cup dead \cup lost
  BY DEF IInv, PlacesInv
<1> QED BY <1>1, <1>2 DEF Place

(* And after a step.                                                       *)
LEMMA PlaceAfter ==
  ASSUME IInv', NEW t \in Turns
  PROVE  /\ t \in outbox' => Place(t)' = "handed"
         /\ t \in lost' => Place(t)' = "lost"
         /\ t \in acked' => Place(t)' = "acked"
         /\ t \in dead' => Place(t)' = "dead"
         /\ t \in Queued' \/ t = task' => Place(t)' = "taken"
<1>1. (\E i \in DOMAIN queue' : queue'[i] = t) <=> t \in Queued'
  BY DEF Queued
<1>2. /\ t \in outbox' => t \notin acked' \cup dead' \cup lost'
      /\ t \in Queued' \/ t = task' => t \notin outbox' \cup acked' \cup dead' \cup lost'
      /\ t \in acked' => t \notin dead' \cup lost'
      /\ t \in dead' => t \notin lost'
  BY DEF IInv, PlacesInv
<1> QED BY <1>1, <1>2 DEF Place

(* A task that enters and leaves no set stays where it is.                 *)
LEMMA PlaceStays ==
  ASSUME NEW t,
         t \in outbox' <=> t \in outbox, t \in lost' <=> t \in lost,
         t \in acked' <=> t \in acked, t \in dead' <=> t \in dead,
         t \in Queued' \/ t = task' <=> t \in Queued \/ t = task
  PROVE  Place(t)' = Place(t)
<1>1. /\ (\E i \in DOMAIN queue : queue[i] = t) <=> t \in Queued
      /\ (\E i \in DOMAIN queue' : queue'[i] = t) <=> t \in Queued'
  BY DEF Queued
<1> QED BY <1>1 DEF Place

(* One task moves and the others stay.                                     *)
LEMMA OneMoves ==
  ASSUME NEW t \in Turns, NEW p, Place(t)' = p,
         \A s \in Turns \ {t} : Place(s)' = Place(s)
  PROVE  Places' = [Places EXCEPT ![t] = p]
<1>1. \A s \in Turns : Place(s)' = IF s = t THEN p ELSE Place(s)
  OBVIOUS
<1>2. Places' = [s \in Turns |-> IF s = t THEN p ELSE Place(s)]
  BY <1>1 DEF Places
<1>3. [Places EXCEPT ![t] = p] = [s \in Turns |-> IF s = t THEN p ELSE Place(s)]
  BY DEF Places
<1> QED BY <1>2, <1>3

(* No task moves.                                                          *)
LEMMA NoneMoves ==
  ASSUME \A s \in Turns : Place(s)' = Place(s)
  PROVE  Places' = Places
  BY DEF Places

(* The chat side: a turn begins, goes on, breaks off or is handed over.    *)
LEMMA ChatRefines ==
  ASSUME IInv, IInv', NEW u \in Users,
         Ask(u) \/ Work(u) \/ Sandbox(u) \/ Answer(u) \/ BreakOff(u) \/ Forget(u)
  PROVE  Contract!Next \/ UNCHANGED <<owner, domain, Places, store>>
<1>1. UNCHANGED <<queue, acked, dead, task, lost, store>>
  BY DEF Ask, Work, Sandbox, Answer, BreakOff, Forget, broker, worker, logs
<1>2. Queued' = Queued
  BY <1>1 DEF Queued
<1>3. CASE UNCHANGED <<owner, domain, outbox>>
  BY <1>1, <1>2, <1>3, PlaceStays, NoneMoves
<1>4. CASE Ask(u)
  <2>1. PICK t \in Turns : owner[t] = None /\ owner' = [owner EXCEPT ![t] = u]
    BY <1>4 DEF Ask
  <2>2. UNCHANGED <<domain, outbox>>
    BY <1>4 DEF Ask
  <2>3. Places' = Places
    BY <1>1, <1>2, <2>2, PlaceStays, NoneMoves
  <2>4. Contract!Begin(t)
    BY <1>1, <2>1, <2>2, <2>3 DEF Contract!Begin, Places
  <2> QED BY <2>4 DEF Contract!Next
<1>5. CASE Answer(u)
  <2>1. PICK t \in Turns : t = running[u] /\ domain[t] = None /\ owner[t] = u
    BY <1>5, RunningFresh DEF Answer
  <2>2. PICK c \in Collections : domain' = [domain EXCEPT ![t] = c]
    BY <1>5, <2>1 DEF Answer
  <2>3. outbox' = outbox \cup {t} /\ owner' = owner
    BY <1>5, <2>1 DEF Answer
  <2>4. Place(t) = "none" /\ Place(t)' = "handed"
    BY <2>1, <2>3, PlaceOf, PlaceAfter
  <2>5. \A s \in Turns \ {t} : Place(s)' = Place(s)
    BY <1>1, <1>2, <2>3, PlaceStays
  <2>6. Places' = [Places EXCEPT ![t] = "handed"] /\ Places[t] = "none"
    BY <2>4, <2>5, OneMoves DEF Places
  <2>7. owner[t] # None
    BY <2>1, NoneAssumption
  <2>8. Contract!Hand(t)
    BY <1>1, <2>2, <2>3, <2>6, <2>7 DEF Contract!Hand, Places
  <2> QED BY <2>8 DEF Contract!Next
<1>6. CASE Work(u) \/ Sandbox(u) \/ BreakOff(u) \/ Forget(u)
  BY <1>3, <1>6 DEF Work, Sandbox, BreakOff, Forget
<1> QED BY <1>4, <1>5, <1>6

(* A publication takes the task or loses it.                               *)
LEMMA PublishRefines ==
  ASSUME IInv, IInv', NEW t \in Turns, Publish(t)
  PROVE  Contract!Next
<1>1. /\ t \in outbox /\ outbox' = outbox \ {t}
      /\ \/ queue' = Append(queue, t) /\ UNCHANGED lost
         \/ lost' = lost \cup {t} /\ UNCHANGED queue
      /\ UNCHANGED <<owner, domain, acked, dead, task, store>>
  BY DEF Publish, chat, worker
<1>2. \/ Queued' = Queued \cup {t} /\ lost' = lost
      \/ Queued' = Queued /\ lost' = lost \cup {t}
  <2>1. CASE queue' = Append(queue, t) /\ UNCHANGED lost
    BY <2>1, QueueGrows DEF IInv
  <2>2. CASE lost' = lost \cup {t} /\ UNCHANGED queue
    BY <2>2 DEF Queued
  <2> QED BY <1>1, <2>1, <2>2
<1>3. Place(t) = "handed" /\ (Place(t)' = "taken" \/ Place(t)' = "lost")
  BY <1>1, <1>2, PlaceOf, PlaceAfter
<1>4. \A s \in Turns \ {t} : Place(s)' = Place(s)
  BY <1>1, <1>2, PlaceStays
<1>5. /\ Places[t] = "handed"
      /\ \/ Places' = [Places EXCEPT ![t] = "taken"]
         \/ Places' = [Places EXCEPT ![t] = "lost"]
  BY <1>3, <1>4, OneMoves DEF Places
<1>6. Contract!Take(t)
  BY <1>1, <1>5 DEF Contract!Take, Places
<1> QED BY <1>6 DEF Contract!Next

(* The delivery, and its return by a crash, are invisible.                 *)
LEMMA DeliveryHidden ==
  ASSUME IInv, IInv', Deliver \/ Crash
  PROVE  UNCHANGED <<owner, domain, Places, store>>
<1>1. UNCHANGED <<owner, domain, outbox, acked, dead, lost, store>>
  BY DEF Deliver, Crash, chat
<1>2. \A s \in Turns : s \in Queued' \/ s = task' <=> s \in Queued \/ s = task
  <2>1. CASE Deliver
    <3>1. Queued = Queued' \cup {Head(queue)} /\ task' = Head(queue) /\ task = None
      BY <2>1, QueueShrinks DEF Deliver, IInv, TypeOK
    <3> QED BY <3>1, TurnsType
  <2>2. CASE Crash
    <3>1. task \in Turns /\ queue' = <<task>> \o queue /\ task' = None
      BY <2>2, TaskOwned DEF Crash, Rest
    <3>2. Queued' = Queued \cup {task}
      BY <3>1, QueueGrows DEF IInv
    <3> QED BY <3>1, <3>2, TurnsType
  <2> QED BY <2>1, <2>2
<1> QED BY <1>1, <1>2, PlaceStays, NoneMoves

(* So is what the worker reads, what it finds and what it fails at.        *)
LEMMA WorkHidden ==
  ASSUME IInv, ReadThread \/ Extract \/ ExtractFails \/ StoreFails
  PROVE  UNCHANGED <<owner, domain, Places, store>>
<1>1. UNCHANGED <<owner, domain, outbox, queue, acked, dead, lost, task, store>>
  BY DEF ReadThread, Extract, ExtractFails, StoreFails, Swallow, chat, broker, logs
<1>2. Queued' = Queued
  BY <1>1 DEF Queued
<1> QED BY <1>1, <1>2, PlaceStays, NoneMoves

(* A fact is filed under the task in hand, and about a turn of its owner.  *)
LEMMA StoreRefines ==
  ASSUME IInv, StoreFact
  PROVE  Contract!Next
<1>1. PICK f \in pending :
        store' = store \cup {[user |-> owner[task], collection |-> domain[task],
                              task |-> task, finding |-> f]}
  BY DEF StoreFact
<1>2. UNCHANGED <<owner, domain, outbox, queue, acked, dead, lost, task>> /\ task # None
  BY DEF StoreFact, chat, broker, logs, IInv, TypeOK
<1>3. PICK t \in Turns : t = task
  BY <1>2, TaskOwned
<1>4. Queued' = Queued
  BY <1>2 DEF Queued
<1>5. Places' = Places
  BY <1>2, <1>4, PlaceStays, NoneMoves
<1>6. Places[t] = "taken"
  BY <1>3, PlaceOf DEF Places
<1>7. f \in Finding /\ owner[f.about] = owner[t]
  BY <1>3 DEF IInv, TypeOK, OwnersInv
<1>8. PICK about \in Turns, minor \in BOOLEAN : f = [about |-> about, minor |-> minor]
  BY <1>7 DEF Finding
<1>9. /\ owner[about] = owner[t]
      /\ store' = store \cup {[user |-> owner[t], collection |-> domain[t], task |-> t,
                               finding |-> [about |-> about, minor |-> minor]]}
  BY <1>1, <1>3, <1>7, <1>8
<1>10. Contract!File(t)
  BY <1>2, <1>5, <1>6, <1>9 DEF Contract!File, Places
<1> QED BY <1>10 DEF Contract!Next

(* An acknowledgement or a rejection settles the task in hand.             *)
LEMMA SettleRefines ==
  ASSUME IInv, IInv', Ack \/ ReadNothing \/ ReadFails
  PROVE  Contract!Next
<1>1. /\ UNCHANGED <<owner, domain, outbox, queue, lost, store>> /\ task # None /\ task' = None
      /\ \/ acked' = acked \cup {task} /\ dead' = dead
         \/ dead' = dead \cup {task} /\ acked' = acked
  BY DEF Ack, ReadNothing, ReadFails, Acknowledge, Rest, chat, logs, IInv, TypeOK
<1>2. PICK t \in Turns : t = task
  BY <1>1, TaskOwned
<1>3. Queued' = Queued
  BY <1>1 DEF Queued
<1>4. Place(t) = "taken" /\ (Place(t)' = "acked" \/ Place(t)' = "dead")
  BY <1>1, <1>2, PlaceOf, PlaceAfter
<1>5. \A s \in Turns \ {t} : Place(s)' = Place(s)
  BY <1>1, <1>2, <1>3, TurnsType, PlaceStays
<1>6. /\ Places[t] = "taken"
      /\ \/ Places' = [Places EXCEPT ![t] = "acked"]
         \/ Places' = [Places EXCEPT ![t] = "dead"]
  BY <1>4, <1>5, OneMoves DEF Places
<1>7. Contract!Settle(t)
  BY <1>1, <1>6 DEF Contract!Settle, Places
<1> QED BY <1>7 DEF Contract!Next

(* A sweep forgets unimportant facts of its collection.                    *)
LEMMA PruneRefines ==
  ASSUME IInv, NEW c \in Collections, Prune(c)
  PROVE  Contract!Next
<1>1. PICK page \in SUBSET {f \in store : f.collection = c} : \E idle \in SUBSET page :
        store' = store \ {f \in page : Prunable(f, idle)}
  BY DEF Prune
<1>2. store' \subseteq store /\ \A f \in store \ store' : f.collection = c /\ f.finding.minor
  BY <1>1 DEF Prunable
<1>3. UNCHANGED <<owner, domain, outbox, queue, acked, dead, lost, task>>
  BY DEF Prune, chat, broker, worker
<1>4. Queued' = Queued
  BY <1>3 DEF Queued
<1>5. Places' = Places
  BY <1>3, <1>4, PlaceStays, NoneMoves
<1>6. Contract!Forget(c)
  BY <1>2, <1>3, <1>5 DEF Contract!Forget, Places
<1> QED BY <1>6 DEF Contract!Next

(* Every behaviour of the pipeline is, step by step, a behaviour of        *)
(* MemoryContract: whatever crashes and however often a task is delivered, *)
(* it is settled once, and facts are filed only under a task that is taken *)
(* and not yet settled, for its owner, in its collection.                  *)
THEOREM ContractSafe == Spec => Contract!Safety
<1>1. Init => Contract!Init
  <2> SUFFICES ASSUME Init PROVE Contract!Init
    OBVIOUS
  <2>1. \A t \in Turns : Place(t) = "none"
    BY TurnsType DEF Init, Idle, Place
  <2> QED BY <2>1 DEF Init, Contract!Init
<1>2. IInv /\ IInv' /\ [Next]_vars => [Contract!Next]_(Contract!vars)
  <2> SUFFICES ASSUME IInv, IInv', [Next]_vars
               PROVE  Contract!Next \/ UNCHANGED <<owner, domain, Places, store>>
    BY DEF Contract!vars, Places
  <2>1. ASSUME NEW u \in Users,
               Ask(u) \/ Work(u) \/ Sandbox(u) \/ Answer(u) \/ BreakOff(u) \/ Forget(u)
        PROVE  Contract!Next \/ UNCHANGED <<owner, domain, Places, store>>
    BY <2>1, ChatRefines
  <2>2. ASSUME NEW t \in Turns, Publish(t) PROVE Contract!Next
    BY <2>2, PublishRefines
  <2>3. CASE WorkerStep \/ Crash
    BY <2>3, DeliveryHidden, WorkHidden, StoreRefines, SettleRefines DEF WorkerStep
  <2>4. ASSUME NEW c \in Collections, Prune(c) PROVE Contract!Next
    BY <2>4, PruneRefines
  <2>5. CASE UNCHANGED vars
    <3>1. UNCHANGED <<owner, domain, outbox, queue, acked, dead, lost, task, store>>
      BY <2>5 DEF vars, chat, broker, worker, logs
    <3>2. Queued' = Queued
      BY <3>1 DEF Queued
    <3> QED BY <3>1, <3>2, PlaceStays, NoneMoves
  <2> QED BY <2>1, <2>2, <2>3, <2>4, <2>5 DEF Next
<1> QED BY <1>1, <1>2, Invariance, StepInv, PTL DEF Spec, Contract!Safety
=============================================================================
