-------------------------- MODULE RelayRustProofs --------------------------
(***************************************************************************)
(* Theorems about the Rust relay, for every number of workers, roles,      *)
(* sessions and tasks: that its queues and chains are those of Relay, that *)
(* no poll sleeps beside a task it could take, and who may fail a task.    *)
(***************************************************************************)
EXTENDS RelayRust, FiniteSetTheorems, TLAPS

\* What is proved of the relay's tables and rules.
CP == INSTANCE RelayProofs

-----------------------------------------------------------------------------
(* Relay, as this module and as those proofs instantiate it, is one module *)

LEMMA RelayAssumptions == CP!NamesAssumption /\ CP!BoundsAssumption /\ CP!NoTaskAssumption
<1>1. CP!NamesAssumption
  BY RelayAssumption DEF R!NamesAssumption, CP!NamesAssumption
<1>2. CP!BoundsAssumption
  BY RelayAssumption DEF R!BoundsAssumption, CP!BoundsAssumption
<1>3. CP!NoTaskAssumption
  BY RelayAssumption DEF R!NoTaskAssumption, CP!NoTaskAssumption, R!Task, CP!Task,
     R!TaskId, CP!TaskId, R!Unfinished, CP!Unfinished, R!FINISHED, CP!FINISHED
<1> QED BY <1>1, <1>2, <1>3

LEMMA SameTypes == R!TypeOK <=> CP!TypeOK
BY Zenon DEF R!TypeOK, CP!TypeOK, R!Task, CP!Task, R!TaskId, CP!TaskId, R!Owners, CP!Owners,
             R!Unfinished, CP!Unfinished, R!FINISHED, CP!FINISHED

LEMMA SameInit == R!Init => CP!Init
BY Zenon DEF R!Init, CP!Init, R!Nothing, CP!Nothing, R!TaskId, CP!TaskId, R!Owners, CP!Owners

LEMMA SameRegister ==
    ASSUME NEW w, NEW r, NEW claims, R!Register(w, r, claims)
    PROVE  CP!Register(w, r, claims)
BY Zenon DEF R!Register, CP!Register

LEMMA SameHeartbeat == ASSUME NEW w, R!Heartbeat(w) PROVE CP!Heartbeat(w)
BY Zenon DEF R!Heartbeat, CP!Heartbeat

LEMMA SameRelease ==
    ASSUME NEW gone, NEW overdue, NEW idle, R!Release(gone, overdue, idle)
    PROVE  CP!Release(gone, overdue, idle)
BY Zenon DEF R!Release, CP!Release, R!TakenBack, CP!TakenBack, R!Orphaned, CP!Orphaned,
             R!Assigned, CP!Assigned, R!Waiting, CP!Waiting, R!Requeued, CP!Requeued,
             R!KeepsOrder, CP!KeepsOrder, R!TaskId, CP!TaskId, R!Owners, CP!Owners,
             R!SetToSeqs, CP!SetToSeqs, R!ToSet, CP!ToSet, R!Cardinality, CP!Cardinality

LEMMA SameDeregister == ASSUME NEW w, R!Deregister(w) PROVE CP!Deregister(w)
BY SameRelease, Zenon DEF R!Deregister, CP!Deregister, R!relayVars, CP!relayVars

LEMMA SameSweep ==
    ASSUME NEW overdue, NEW old, NEW idle, R!Sweep(overdue, old, idle)
    PROVE  CP!Sweep(overdue, old, idle)
BY SameRelease, Zenon
   DEF R!Sweep, CP!Sweep, R!Assigned, CP!Assigned, R!OldestFirst, CP!OldestFirst

LEMMA SameEnqueue ==
    ASSUME NEW ts, NEW id, NEW task, R!Enqueue(ts, id, task)
    PROVE  CP!Enqueue(ts, id, task)
BY Zenon DEF R!Enqueue, CP!Enqueue, R!BoundWorker, CP!BoundWorker

LEMMA SameAccepted ==
    ASSUME NEW w, NEW t
    PROVE  /\ R!ResultAccepted(w, t) <=> CP!ResultAccepted(w, t)
           /\ R!Reportable(w, t) <=> CP!Reportable(w, t)
BY Zenon DEF R!ResultAccepted, CP!ResultAccepted, R!Reportable, CP!Reportable,
             R!WorkerAccepted, CP!WorkerAccepted, R!FINISHED, CP!FINISHED

LEMMA SameForward == ASSUME NEW w, NEW t, R!Forward(w, t) PROVE CP!Forward(w, t)
BY SameAccepted, SameEnqueue, Zenon
   DEF R!Forward, CP!Forward, R!NextStep, CP!NextStep, R!NewTask, CP!NewTask,
       R!Answer, CP!Answer, R!Reported, CP!Reported

LEMMA SameFinished ==
    ASSUME NEW ts, NEW t, NEW status, NEW body
    PROVE  R!Finished(ts, t, status, body) = CP!Finished(ts, t, status, body)
BY Zenon DEF R!Finished, CP!Finished, R!TaskId, CP!TaskId

LEMMA SameComplete == ASSUME NEW w, NEW t, R!Complete(w, t) PROVE CP!Complete(w, t)
BY SameAccepted, SameFinished, Zenon
   DEF R!Complete, CP!Complete, R!Answer, CP!Answer, R!Reported, CP!Reported

LEMMA SameRefused == ASSUME NEW w, NEW t, R!ResultRefused(w, t) PROVE CP!ResultRefused(w, t)
BY SameAccepted, Zenon DEF R!ResultRefused, CP!ResultRefused

LEMMA SameSubmit == ASSUME NEW q, R!Submit(q) PROVE CP!Submit(q)
BY SameEnqueue, Zenon DEF R!Submit, CP!Submit, R!NewTask, CP!NewTask,
                             R!Affordable, CP!Affordable

LEMMA SameSilence == ASSUME NEW w, R!Silence(w) PROVE CP!Silence(w)
BY Zenon DEF R!Silence, CP!Silence

LEMMA SameRestart == R!Restart => CP!Restart
BY Zenon DEF R!Restart, CP!Restart, R!TaskId, CP!TaskId, R!Owners, CP!Owners

LEMMA SameTake ==
    ASSUME NEW w, NEW r, NEW max, NEW n, Take(w, r, max, n)
    PROVE  n \in 0 .. Len(queues[w] \o queues[r]) /\ CP!TakeOut(w, r, n)
BY Zenon DEF Take, Taken, CP!TakeOut, CP!Ahead, R!Waiting, CP!Waiting, R!After, CP!After,
             TaskId, R!TaskId, CP!TaskId

LEMMA SameQueues ==
    /\ R!PendingIsQueued <=> CP!PendingIsQueued
    /\ \A t : R!Waiting(t) <=> CP!Waiting(t)
    /\ Owners = CP!Owners /\ TaskId = CP!TaskId
BY Zenon DEF R!PendingIsQueued, CP!PendingIsQueued, R!Queued, CP!Queued, R!Waiting, CP!Waiting,
             Owners, R!Owners, CP!Owners, TaskId, R!TaskId, CP!TaskId

-----------------------------------------------------------------------------
(* The tables *)

TablesInv ==
    /\ CP!QueueInv
    /\ CP!PendingIsQueued
    /\ CP!ChainInv
    /\ failing = {}

LEMMA TablesInit == R!Init => TablesInv
<1> SUFFICES ASSUME CP!Init PROVE TablesInv
  BY SameInit
<1>1. CP!PendingIsQueued
  BY Zenon DEF CP!Init, CP!Nothing, CP!PendingIsQueued
<1> QED BY <1>1, RelayAssumptions, CP!QueueInit, CP!ChainInit, Zenon
        DEF TablesInv, CP!Init, CP!Nothing

\* What stays queued if it was queued is queued if all was.
LEMMA AllStayQueued ==
    ASSUME CP!PendingIsQueued, CP!StaysQueued PROVE CP!PendingIsQueued'
BY Zenon DEF CP!PendingIsQueued, CP!StaysQueued, CP!Waiting

\* The tables and rules of Relay are kept by its steps.
LEMMA TablesStep ==
    ASSUME TablesInv, CP!Orderly, failing' = {}
    PROVE  TablesInv'
<1>1. CP!QueueInv' /\ CP!StaysQueued
  BY RelayAssumptions, CP!OrderlyStep DEF TablesInv
<1>2. CP!ChainInv'
  BY RelayAssumptions, CP!ChainStep DEF TablesInv, CP!Next
<1> QED BY <1>1, <1>2, AllStayQueued DEF TablesInv

LEMMA TablesSame == ASSUME TablesInv, UNCHANGED relayVars PROVE TablesInv'
<1>1. UNCHANGED CP!vars
  BY DEF relayVars, CP!vars
<1>2. CP!QueueInv' /\ CP!StaysQueued
  BY <1>1, RelayAssumptions, CP!OrderlyStep DEF TablesInv
<1>3. CP!ChainInv'
  BY <1>1, RelayAssumptions, CP!ChainStep DEF TablesInv
<1> QED BY <1>2, <1>3, AllStayQueued DEF TablesInv, relayVars

\* A poll takes out as many ids as it likes, as far as the tables go.
LEMMA TablesTake ==
    ASSUME TablesInv, NEW w \in Workers, NEW r \in Roles, NEW max, NEW n, Take(w, r, max, n)
    PROVE  TablesInv' /\ CP!Kept
<1>1. n \in 0 .. Len(queues[w] \o queues[r]) /\ CP!TakeOut(w, r, n)
  BY SameTake
<1>2. CP!TypeOK /\ CP!QueueInv /\ CP!ChainInv
  BY DEF TablesInv, CP!ChainInv
<1>3. CP!TypeOK' /\ CP!Kept
  BY <1>1, <1>2, RelayAssumptions, CP!TypeTakeOut, CP!TakeOutMoves
<1>4. CP!QueueInv' /\ CP!StaysQueued /\ CP!ChainInv'
  BY <1>1, <1>2, <1>3, RelayAssumptions, CP!QueueTakeOut, CP!ChainKept
<1>5. failing' = {}
  BY DEF Take, TablesInv
<1> QED BY <1>3, <1>4, <1>5, AllStayQueued DEF TablesInv

\* /fail in one step ends the task and the root of its chain.
LEMMA FailureFields ==
    ASSUME TablesInv, NEW w \in Workers, NEW t \in TaskId, PostFailure(w, t)
    PROVE  /\ t \in CP!Objects /\ t \in known
           /\ tasks[t].status \in CP!Unfinished /\ tasks[t].worker \in {NoWorker, w}
           /\ tasks' = CP!Finished(tasks, t, "FAILED", CP!Answer(t, w))
           /\ CP!Answer(t, w) \in Seq(Workers)
           /\ known' = known /\ issued' = issued /\ queues' = queues
           /\ \A v \in Workers : held'[v] \subseteq held[v]
<1>1. CP!TypeOK
  BY DEF TablesInv, CP!ChainInv
<1>2. t \in known /\ tasks[t].status \notin CP!FINISHED /\ tasks[t].worker \in {NoWorker, w}
  BY Zenon DEF PostFailure, Fails, R!Reportable, R!WorkerAccepted, R!FINISHED, CP!FINISHED
<1>3. t \in CP!Objects /\ tasks[t] \in CP!Task
  BY <1>1, <1>2 DEF CP!TypeOK, CP!Objects
<1>4. tasks[t].status \in CP!Unfinished
  BY <1>2, <1>3 DEF CP!Task
<1>5. tasks' = CP!Finished(tasks, t, "FAILED", CP!Answer(t, w))
  BY SameFinished, Zenon DEF PostFailure, R!Answer, CP!Answer
<1>6. CP!Answer(t, w) \in Seq(Workers)
  BY <1>3 DEF CP!Answer, CP!Task
<1>7. \A v \in Workers : held'[v] \subseteq held[v]
  BY <1>1 DEF PostFailure, CP!TypeOK
<1> QED BY <1>2, <1>3, <1>4, <1>5, <1>6, <1>7 DEF PostFailure

LEMMA TablesFailure ==
    ASSUME TablesInv, NEW w \in Workers, NEW t \in TaskId, PostFailure(w, t)
    PROVE  TablesInv'
<1>1. CP!TypeOK /\ CP!QueueInv /\ CP!ChainInv
  BY DEF TablesInv, CP!ChainInv
<1>2. /\ t \in CP!Objects /\ t \in CP!TaskId
      /\ tasks' = CP!Finished(tasks, t, "FAILED", CP!Answer(t, w))
      /\ known' = known /\ issued' = issued /\ queues' = queues
      /\ \A v \in Workers : held'[v] \subseteq held[v]
  BY FailureFields DEF CP!Objects
<1>3. "FAILED" \in CP!FINISHED /\ tasks \in [CP!TaskId -> CP!Task \cup {NoTask}]
      /\ tasks[t] # NoTask
  BY <1>1, <1>2 DEF CP!FINISHED, CP!TypeOK, CP!Objects
<1>4. /\ tasks' \in [CP!TaskId -> CP!Task \cup {NoTask}]
      /\ \A u \in CP!TaskId : tasks[u] # NoTask => tasks'[u] # NoTask
  BY <1>1, <1>2, <1>3, RelayAssumptions, CP!FinishedType
<1>5. \A u \in known : tasks'[u].status \in {tasks[u].status} \cup CP!FINISHED
  <2>1. \A u \in known : u \in CP!TaskId /\ tasks[u] # NoTask
    BY <1>1 DEF CP!TypeOK
  <2> QED BY <1>1, <1>2, <1>3, <2>1, RelayAssumptions, CP!FinishedStatus
<1>6. CP!TypeOK'
  <2>1. held' \in [Workers -> SUBSET CP!TaskId]
    BY <1>1 DEF PostFailure, CP!TypeOK
  <2> QED BY <1>1, <1>4, <2>1 DEF PostFailure, CP!TypeOK
<1>7. CP!QueueInv' /\ CP!StaysQueued
  BY <1>1, <1>2, <1>5, <1>6, RelayAssumptions, CP!QueueSame
<1>8. CP!ChainInv'
  BY <1>1, <1>2, <1>6, RelayAssumptions, CP!ChainFinished
<1> QED BY <1>7, <1>8, AllStayQueued DEF TablesInv, PostFailure

-----------------------------------------------------------------------------
(* Notifiers *)

Once(q) == \A i, j \in DOMAIN q : q[i] = q[j] => i = j

\* What permits, listeners and polls have to do with each other.  A worker
\* has one poll, which listens to the notifiers of its role and of its worker.
Coherent(perm, line, poll) ==
    /\ perm \in [Owners -> BOOLEAN]
    /\ line \in [Owners -> Seq(Workers)]
    /\ poll \in [Workers -> Poll]
    /\ \A w \in Workers :
          /\ poll[w].phase # "none" => poll[w].role \in Roles
          /\ poll[w].woken \subseteq Roles \cup {w}
          /\ poll[w].phase # "listening" => poll[w].woken = {}
    /\ \A o \in Owners : perm[o] => line[o] = <<>>
    /\ \A o \in Owners : Once(line[o])
    /\ \A o \in Owners : \A i \in DOMAIN line[o] :
          /\ poll[line[o][i]].phase = "listening"
          /\ o \notin poll[line[o][i]].woken
          /\ o \in Roles \cup {line[o][i]}

LEMMA OwnersAre == Owners = Roles \cup Workers /\ Roles \cap Workers = {}
BY RelayAssumption DEF Owners, R!Owners, R!NamesAssumption

\* The rest of a line after n wake-ups.
LEMMA RestOfLine ==
    ASSUME NEW q \in Seq(Workers), NEW n \in Nat
    PROVE  /\ SubSeq(q, n + 1, Len(q)) \in Seq(Workers)
           /\ \A i \in DOMAIN SubSeq(q, n + 1, Len(q)) :
                 i + n \in DOMAIN q /\ SubSeq(q, n + 1, Len(q))[i] = q[i + n]
           /\ \A j \in DOMAIN q : j > n => \E i \in DOMAIN SubSeq(q, n + 1, Len(q)) : i + n = j
           /\ n <= Len(q) => Len(SubSeq(q, n + 1, Len(q))) = Len(q) - n
           /\ n >= Len(q) => SubSeq(q, n + 1, Len(q)) = <<>>
           /\ q = <<>> => SubSeq(q, n + 1, Len(q)) = <<>>
<1> DEFINE p == SubSeq(q, n + 1, Len(q))
<1>1. Len(q) \in Nat
  OBVIOUS
<1>2. /\ p \in Seq(Workers)
      /\ Len(p) = IF n + 1 <= Len(q) THEN Len(q) - n ELSE 0
      /\ \A i \in 1 .. Len(p) : i + n \in 1 .. Len(q) /\ p[i] = q[i + n]
  OBVIOUS
<1> HIDE DEF p
<1>3. \A j \in DOMAIN q : j > n => j - n \in DOMAIN p /\ (j - n) + n = j
  BY <1>1, <1>2
<1>4. /\ n <= Len(q) => Len(p) = Len(q) - n
      /\ n >= Len(q) => p = <<>>
  BY <1>1, <1>2
<1> QED BY <1>1, <1>2, <1>3, <1>4 DEF p

\* Listeners are woken or stay in line, and what none of them uses is a permit.
LEMMA NotifiedCoherent ==
    ASSUME NEW n \in [Owners -> Nat], NEW gone, NEW poll, NEW line,
           Coherent([o \in Owners |-> permit[o] /\ o \notin gone], line, poll),
           Coherent(permit, listeners, polls),
           Notified(n, gone, poll, line)
    PROVE  /\ Coherent(permit', listeners', polls')
           /\ \A w \in Workers :
                 /\ polls'[w].phase = poll[w].phase
                 /\ polls'[w].detached = poll[w].detached
                 /\ poll[w].woken \subseteq polls'[w].woken
                 /\ w \in ToSet(line[w]) =>
                       w \in ToSet(listeners'[w]) \/ w \in polls'[w].woken
                 /\ w \in ToSet(line[w]) /\ n[w] # 0 => w \in polls'[w].woken
           /\ \A o \in Owners : o \notin gone =>
                 /\ permit[o] => permit'[o]
                 /\ n[o] # 0 /\ line[o] = <<>> => permit'[o]
<1> DEFINE woke(w) == {o \in Owners : \E i \in 1 .. n[o] : i \in DOMAIN line[o] /\ line[o][i] = w}
           rest(o) == SubSeq(line[o], n[o] + 1, Len(line[o]))
<1>1. /\ permit' = [o \in Owners |-> o \notin gone /\ (permit[o] \/ n[o] > Len(line[o]))]
      /\ listeners' = [o \in Owners |-> rest(o)]
      /\ polls' = [w \in Workers |-> [poll[w] EXCEPT !.woken = @ \cup woke(w)]]
  BY Zenon DEF Notified, PermitLeft
<1>2. /\ line \in [Owners -> Seq(Workers)] /\ poll \in [Workers -> Poll]
      /\ permit \in [Owners -> BOOLEAN]
  BY DEF Coherent
<1>3. \A o \in Owners :
         /\ n[o] \in Nat /\ line[o] \in Seq(Workers) /\ Len(line[o]) \in Nat
         /\ DOMAIN line[o] = 1 .. Len(line[o])
         /\ rest(o) \in Seq(Workers)
         /\ \A i \in DOMAIN rest(o) : i + n[o] \in DOMAIN line[o] /\ rest(o)[i] = line[o][i + n[o]]
         /\ \A j \in DOMAIN line[o] : j > n[o] => \E i \in DOMAIN rest(o) : i + n[o] = j
         /\ n[o] >= Len(line[o]) => rest(o) = <<>>
         /\ line[o] = <<>> => rest(o) = <<>>
  <2> SUFFICES ASSUME NEW o \in Owners
               PROVE /\ n[o] \in Nat /\ line[o] \in Seq(Workers) /\ Len(line[o]) \in Nat
                     /\ DOMAIN line[o] = 1 .. Len(line[o])
                     /\ rest(o) \in Seq(Workers)
                     /\ \A i \in DOMAIN rest(o) :
                           i + n[o] \in DOMAIN line[o] /\ rest(o)[i] = line[o][i + n[o]]
                     /\ \A j \in DOMAIN line[o] : j > n[o] =>
                           \E i \in DOMAIN rest(o) : i + n[o] = j
                     /\ n[o] >= Len(line[o]) => rest(o) = <<>>
                     /\ line[o] = <<>> => rest(o) = <<>>
    OBVIOUS
  <2> DEFINE q == line[o]
             k == n[o]
  <2>1. q \in Seq(Workers) /\ k \in Nat
    BY <1>2
  <2> HIDE DEF q, k
  <2>2. Len(q) \in Nat /\ DOMAIN q = 1 .. Len(q)
    BY <2>1
  <2> QED BY <2>1, <2>2, RestOfLine DEF q, k
<1> HIDE DEF rest, woke
<1>4. \A w \in Workers :
         /\ polls'[w] \in Poll
         /\ polls'[w].phase = poll[w].phase /\ polls'[w].role = poll[w].role
         /\ polls'[w].detached = poll[w].detached
         /\ polls'[w].woken = poll[w].woken \cup woke(w)
  BY <1>1, <1>2 DEF Poll, woke
<1>5. \A w \in Workers : \A o \in woke(w) :
         /\ o \in Owners
         /\ \E i \in DOMAIN line[o] : i <= n[o] /\ line[o][i] = w
  BY <1>3 DEF woke
<1>6. Coherent(permit', listeners', polls')
  <2>1. \A w \in Workers :
          /\ polls'[w].phase # "none" => polls'[w].role \in Roles
          /\ polls'[w].woken \subseteq Roles \cup {w}
          /\ polls'[w].phase # "listening" => polls'[w].woken = {}
    <3> TAKE w \in Workers
    <3>1. \A o \in woke(w) : o \in Roles \cup {w} /\ poll[w].phase = "listening"
      <4> TAKE o \in woke(w)
      <4>1. o \in Owners
        BY <1>5
      <4>2. PICK i \in DOMAIN line[o] : line[o][i] = w
        BY <1>5
      <4> QED BY <4>1, <4>2 DEF Coherent
    <3>2. /\ poll[w].phase # "none" => poll[w].role \in Roles
          /\ poll[w].woken \subseteq Roles \cup {w}
          /\ poll[w].phase # "listening" => poll[w].woken = {}
      BY DEF Coherent
    <3> QED BY <1>4, <3>1, <3>2
  <2>2. \A o \in Owners : permit'[o] => listeners'[o] = <<>>
    <3> SUFFICES ASSUME NEW o \in Owners, permit'[o] PROVE rest(o) = <<>>
      BY <1>1
    <3>1. o \notin gone /\ (permit[o] \/ n[o] > Len(line[o]))
      BY <1>1
    <3>2. CASE permit[o]
      <4>1. line[o] = <<>>
        BY <3>1, <3>2 DEF Coherent
      <4> QED BY <4>1, <1>3
    <3>3. CASE n[o] > Len(line[o])
      BY <1>3, <3>3
    <3> QED BY <3>1, <3>2, <3>3
  <2>3. \A o \in Owners : Once(listeners'[o])
    <3> SUFFICES ASSUME NEW o \in Owners, NEW i \in DOMAIN rest(o), NEW j \in DOMAIN rest(o),
                        rest(o)[i] = rest(o)[j]
                 PROVE  i = j
      BY <1>1 DEF Once
    <3>1. Once(line[o])
      BY DEF Coherent
    <3>2. i + n[o] = j + n[o]
      BY <1>3, <3>1 DEF Once
    <3>3. i \in Nat /\ j \in Nat /\ n[o] \in Nat
      BY <1>3
    <3> QED BY <3>2, <3>3
  <2>4. ASSUME NEW o \in Owners, NEW i \in DOMAIN listeners'[o]
        PROVE  /\ polls'[listeners'[o][i]].phase = "listening"
               /\ o \notin polls'[listeners'[o][i]].woken
               /\ o \in Roles \cup {listeners'[o][i]}
    <3> DEFINE w == listeners'[o][i]
    <3>1. i + n[o] \in DOMAIN line[o] /\ w = line[o][i + n[o]] /\ n[o] \in Nat
          /\ i \in Nat \ {0}
      BY <1>1, <1>3, <2>4
    <3>2. w \in Workers
      BY <1>3, <3>1
    <3> HIDE DEF w
    <3>3. /\ poll[w].phase = "listening" /\ o \notin poll[w].woken /\ o \in Roles \cup {w}
      BY <3>1 DEF Coherent
    <3>4. o \notin woke(w)
      <4> SUFFICES ASSUME NEW j \in DOMAIN line[o], j <= n[o], line[o][j] = w PROVE FALSE
        BY <1>5, <3>2
      <4>1. j = i + n[o]
        BY <3>1 DEF Coherent, Once
      <4> QED BY <3>1, <4>1
    <3> QED BY <1>4, <3>2, <3>3, <3>4 DEF w
  <2>5. /\ permit' \in [Owners -> BOOLEAN]
        /\ listeners' \in [Owners -> Seq(Workers)]
        /\ polls' \in [Workers -> Poll]
    <3>1. permit' \in [Owners -> BOOLEAN]
      BY <1>1
    <3>2. listeners' \in [Owners -> Seq(Workers)]
      BY <1>1, <1>3
    <3>3. polls' \in [Workers -> Poll]
      BY <1>1, <1>4
    <3> QED BY <3>1, <3>2, <3>3
  <2> QED BY <2>1, <2>2, <2>3, <2>4, <2>5 DEF Coherent
<1>7. ASSUME NEW w \in Workers, w \in ToSet(line[w])
      PROVE  /\ w \in ToSet(listeners'[w]) \/ w \in polls'[w].woken
             /\ n[w] # 0 => w \in polls'[w].woken
  <2>1. w \in Owners
    BY OwnersAre
  <2>2. PICK j \in DOMAIN line[w] : line[w][j] = w
    BY <1>7 DEF ToSet
  <2>3. \A i \in DOMAIN line[w] : line[w][i] = w
    <3> TAKE i \in DOMAIN line[w]
    <3>1. w \in Roles \cup {line[w][i]}
      BY <2>1 DEF Coherent
    <3> QED BY <3>1, OwnersAre
  <2>4. \A i \in DOMAIN line[w] : i = j
    BY <2>1, <2>2, <2>3 DEF Coherent, Once
  <2>5. j = 1
    <3>1. DOMAIN line[w] = 1 .. Len(line[w]) /\ Len(line[w]) \in Nat
      BY <1>3, <2>1
    <3>2. 1 \in DOMAIN line[w]
      BY <2>2, <3>1
    <3> QED BY <2>4, <3>2
  <2>6. CASE n[w] # 0
    <3>1. 1 \in 1 .. n[w] /\ 1 \in DOMAIN line[w] /\ line[w][1] = w
      BY <1>3, <2>1, <2>2, <2>5, <2>6
    <3>2. w \in woke(w)
      BY <2>1, <3>1 DEF woke
    <3> QED BY <1>4, <3>2
  <2>7. CASE n[w] = 0
    <3>1. PICK i \in DOMAIN rest(w) : i + n[w] = j
      BY <1>3, <2>1, <2>2, <2>5, <2>7
    <3>2. rest(w)[i] = w
      BY <1>3, <2>1, <2>2, <3>1
    <3> QED BY <1>1, <2>1, <2>7, <3>2 DEF ToSet
  <2> QED BY <2>6, <2>7
<1>8. \A o \in Owners : o \notin gone =>
         /\ permit[o] => permit'[o]
         /\ n[o] # 0 /\ line[o] = <<>> => permit'[o]
  <2> TAKE o \in Owners
  <2>1. line[o] = <<>> => Len(line[o]) = 0
    OBVIOUS
  <2>2. n[o] \in Nat /\ (n[o] # 0 => n[o] > 0)
    BY <1>3
  <2> QED BY <1>1, <2>1, <2>2
<1> QED BY <1>4, <1>6, <1>7, <1>8

-----------------------------------------------------------------------------
(* No poll sleeps beside a task of its worker *)

HasWork(w) == \E t \in ToSet(queues[w]) : R!Waiting(t)

\* Until the worker's notifier is replaced: a push that comes before a poll
\* listens leaves a permit, one that comes later wakes it.
Wakeful ==
    \A w \in Workers : ~polls[w].detached =>
        /\ polls[w].phase = "unlocked" /\ HasWork(w) => permit[w]
        /\ polls[w].phase = "listening" =>
              w \in ToSet(listeners[w]) \/ w \in polls[w].woken
        /\ polls[w].phase = "listening" /\ HasWork(w) => polls[w].woken # {}

RustInv ==
    /\ TablesInv
    /\ Coherent(permit, listeners, polls)
    /\ Wakeful

\* What waits and did not wait before is new, or was a worker's.
LEMMA PendingAnew ==
    ASSUME TablesInv, CP!Orderly, NEW t \in known', tasks'[t].status = "PENDING"
    PROVE  \/ t > issued
           \/ t \in known /\ tasks[t].status \in CP!Unfinished
<1>1. /\ CP!TypeOK /\ CP!Rooted /\ CP!Shape /\ known \subseteq CP!Objects
      /\ issued \in Nat
  BY RelayAssumptions, CP!StepShape DEF TablesInv, CP!ChainInv, CP!TypeOK, CP!Objects, CP!Next
<1>2. CASE CP!Kept
  BY <1>1, <1>2 DEF CP!Kept, CP!Moves, CP!Unfinished
<1>3. ASSUME NEW w \in Workers, NEW u \in CP!TaskId, CP!Complete(w, u)
      PROVE  t \in known /\ tasks[t].status \in CP!Unfinished
  <2>1. /\ u \in CP!TaskId /\ tasks[u] # NoTask /\ tasks[u] \in CP!Task
        /\ tasks' = CP!Finished(tasks, u, "COMPLETED", CP!Answer(u, w))
        /\ known' = known
    BY <1>1, <1>3 DEF CP!Complete, CP!ResultAccepted, CP!TypeOK
  <2>2. u \in CP!Objects /\ CP!Answer(u, w) \in Seq(Workers)
    BY <2>1 DEF CP!Objects, CP!Answer, CP!Task
  <2>3. tasks'[t] = tasks[t] \/ tasks'[t].status = "COMPLETED"
    BY <1>1, <2>1, <2>2, RelayAssumptions, CP!FinishedFields DEF CP!FINISHED, CP!Outcome
  <2> QED BY <2>1, <2>3 DEF CP!Unfinished
<1>4. ASSUME NEW w \in Workers, NEW u \in CP!TaskId, CP!FailFinish(w, u) PROVE FALSE
  BY <1>4 DEF CP!FailFinish, TablesInv
<1>5. ASSUME NEW w \in Workers, NEW u \in CP!TaskId, CP!Forward(w, u)
      PROVE  \/ t > issued
             \/ t \in known /\ tasks[t].status \in CP!Unfinished
  <2>1. /\ known' = known \cup {issued'} /\ issued' = issued + 1
        /\ tasks'[u].status = "FORWARDED"
        /\ \A x \in CP!Objects : x # u => tasks'[x] = tasks[x]
    BY <1>1, <1>5, RelayAssumptions, CP!ForwardFields
  <2> QED BY <1>1, <2>1 DEF CP!Unfinished
<1>6. ASSUME NEW q \in Requests, CP!Submit(q)
      PROVE  \/ t > issued
             \/ t \in known /\ tasks[t].status \in CP!Unfinished
  <2>1. /\ known' = known \cup {issued'} /\ issued' = issued + 1
        /\ \A x \in CP!Objects : tasks'[x] = tasks[x]
    BY <1>1, <1>6, RelayAssumptions, CP!SubmitFields
  <2> QED BY <1>1, <2>1 DEF CP!Unfinished
<1>7. ~CP!Restart
  BY DEF CP!Restart
<1> QED BY <1>1, <1>2, <1>3, <1>4, <1>5, <1>6, <1>7 DEF CP!Shape

\* A worker gets work by an id that is put into its queue.
LEMMA WorkIsPushed ==
    ASSUME TablesInv, CP!Orderly, NEW w \in Workers, HasWork(w)'
    PROVE  HasWork(w) \/ \E t \in ToSet(queues'[w]) : t \notin ToSet(queues[w])
<1>1. PICK t \in ToSet(queues'[w]) : CP!Waiting(t)'
  BY DEF HasWork, R!Waiting, CP!Waiting
<1>2. t \in known' /\ tasks'[t].status = "PENDING"
  BY <1>1 DEF CP!Waiting
<1>3. CASE t \in ToSet(queues[w])
  <2>1. PICK i \in DOMAIN queues[w] : queues[w][i] = t
    BY <1>3 DEF ToSet
  <2>2. w \in CP!Owners
    BY OwnersAre, SameQueues
  <2>3. t <= issued /\ issued \in Nat /\ t \in Nat
    <3>1. queues[w] \in Seq(CP!TaskId) /\ issued \in Nat /\ t <= issued
      BY <2>1, <2>2 DEF TablesInv, CP!QueueInv, CP!FreshIds, CP!TypeOK
    <3>2. t \in CP!TaskId
      BY <2>1, <3>1
    <3> QED BY <3>1, <3>2 DEF CP!TaskId
  <2>4. t \in known /\ tasks[t].status \in CP!Unfinished
    BY <1>2, <2>3, PendingAnew
  <2>5. tasks[t].status # "ASSIGNED"
    BY <2>1, <2>2, <2>4 DEF TablesInv, CP!QueueInv, CP!AssignedNotQueued, CP!Assigned
  <2>6. CP!Waiting(t)
    BY <2>4, <2>5 DEF CP!Waiting, CP!Unfinished
  <2> QED BY <1>3, <2>6, SameQueues DEF HasWork
<1> QED BY <1>1, <1>3

\* Nobody listens to the notifier of a worker but its own poll.
LEMMA OwnLine ==
    ASSUME Coherent(permit, listeners, polls), NEW w \in Workers,
           polls[w].phase # "listening"
    PROVE  /\ listeners[w] = <<>>
           /\ \A o \in Owners : w \notin ToSet(listeners[o])
<1>1. w \in Owners
  BY OwnersAre
<1>2. \A o \in Owners : \A i \in DOMAIN listeners[o] : listeners[o][i] # w
  BY DEF Coherent
<1>3. \A i \in DOMAIN listeners[w] : listeners[w][i] = w
  <2> TAKE i \in DOMAIN listeners[w]
  <2>1. w \in Roles \cup {listeners[w][i]}
    BY <1>1 DEF Coherent
  <2> QED BY <2>1, OwnersAre
<1>4. DOMAIN listeners[w] = {} /\ listeners[w] \in Seq(Workers)
  BY <1>1, <1>2, <1>3 DEF Coherent
<1>5. listeners[w] = <<>>
  <2> DEFINE q == listeners[w]
  <2>1. q \in Seq(Workers) /\ DOMAIN q = {}
    BY <1>4
  <2> HIDE DEF q
  <2>2. Len(q) = 0
    BY <2>1
  <2>3. q = <<>>
    BY <2>1, <2>2
  <2> QED BY <2>3 DEF q
<1> QED BY <1>2, <1>5 DEF ToSet

LEMMA PushesAreCounted ==
    ASSUME NEW o \in Owners, queues' \in [Owners -> Seq(TaskId)]
    PROVE  /\ Pushes(o) \in Nat
           /\ (\E t \in ToSet(queues'[o]) : t \notin ToSet(queues[o])) => Pushes(o) # 0
<1> DEFINE S == ToSet(queues'[o]) \ ToSet(queues[o])
<1>1. IsFiniteSet(TaskId)
  <2>1. MaxTasks \in Nat
    BY RelayAssumption DEF R!BoundsAssumption
  <2> QED BY <2>1, FS_Interval DEF TaskId, R!TaskId
<1>2. S \subseteq TaskId
  BY DEF ToSet
<1>3. IsFiniteSet(S)
  BY <1>1, <1>2, FS_Subset
<1>4. Cardinality(S) \in Nat /\ (Cardinality(S) = 0 => S = {})
  BY <1>3, FS_CardinalityType, FS_EmptySet
<1> QED BY <1>4 DEF Pushes

\* A locked section wakes those who listen for what it pushes.
LEMMA NotifyWakes ==
    ASSUME RustInv, TablesInv', NEW gone, Notify(gone),
           \A w \in Workers : HasWork(w)' =>
              HasWork(w) \/ \E t \in ToSet(queues'[w]) : t \notin ToSet(queues[w])
    PROVE  RustInv'
<1> DEFINE n == [o \in Owners |-> Pushes(o)]
           poll == [w \in Workers |-> [polls[w] EXCEPT !.detached =
                       @ \/ (w \in gone /\ polls[w].phase \in {"unlocked", "listening"})]]
           line == [o \in Owners |-> IF o \in gone THEN <<>> ELSE listeners[o]]
<1>1. Coherent(permit, listeners, polls)
  BY DEF RustInv
<1>2. queues' \in [Owners -> Seq(TaskId)]
  BY SameQueues DEF TablesInv, CP!ChainInv, CP!TypeOK
<1>3. n \in [Owners -> Nat]
  BY <1>2, PushesAreCounted
<1>4. Notified(n, gone, poll, line)
  BY DEF Notify
<1>5. \A w \in Workers :
         /\ poll[w] \in Poll
         /\ poll[w].phase = polls[w].phase /\ poll[w].role = polls[w].role
         /\ poll[w].woken = polls[w].woken
         /\ ~poll[w].detached =>
               /\ ~polls[w].detached
               /\ polls[w].phase \in {"unlocked", "listening"} => w \notin gone
  <2> TAKE w \in Workers
  <2> DEFINE now == polls[w].detached \/ (w \in gone /\ polls[w].phase \in {"unlocked", "listening"})
  <2>1. polls[w] \in Poll
    BY <1>1 DEF Coherent
  <2>2. now \in BOOLEAN
    BY Zenon
  <2>3. poll[w] = [polls[w] EXCEPT !.detached = now]
    BY Zenon
  <2>4. ~now => /\ ~polls[w].detached
                /\ polls[w].phase \in {"unlocked", "listening"} => w \notin gone
    BY Zenon
  <2> HIDE DEF now, poll
  <2>5. /\ poll[w] \in Poll /\ poll[w].detached = now
        /\ poll[w].phase = polls[w].phase /\ poll[w].role = polls[w].role
        /\ poll[w].woken = polls[w].woken
    BY <2>1, <2>2, <2>3 DEF Poll
  <2> QED BY <2>4, <2>5
<1>6. \A o \in Owners : IF o \in gone THEN line[o] = <<>> ELSE line[o] = listeners[o]
  OBVIOUS
<1>7. Coherent([o \in Owners |-> permit[o] /\ o \notin gone], line, poll)
  <2>1. line \in [Owners -> Seq(Workers)] /\ poll \in [Workers -> Poll]
    <3>1. \A o \in Owners : line[o] \in Seq(Workers)
      BY <1>1, <1>6 DEF Coherent
    <3> QED BY <1>5, <3>1
  <2>2. \A w \in Workers :
          /\ poll[w].phase # "none" => poll[w].role \in Roles
          /\ poll[w].woken \subseteq Roles \cup {w}
          /\ poll[w].phase # "listening" => poll[w].woken = {}
    BY <1>1, <1>5 DEF Coherent
  <2>3. \A o \in Owners : (permit[o] /\ o \notin gone) => line[o] = <<>>
    BY <1>1, <1>6 DEF Coherent
  <2>4. \A o \in Owners : Once(line[o])
    BY <1>1, <1>6 DEF Coherent, Once
  <2>5. \A o \in Owners : \A i \in DOMAIN line[o] :
          /\ poll[line[o][i]].phase = "listening"
          /\ o \notin poll[line[o][i]].woken
          /\ o \in Roles \cup {line[o][i]}
    <3> SUFFICES ASSUME NEW o \in Owners, NEW i \in DOMAIN line[o]
                 PROVE  /\ poll[line[o][i]].phase = "listening"
                        /\ o \notin poll[line[o][i]].woken
                        /\ o \in Roles \cup {line[o][i]}
      OBVIOUS
    <3>1. line[o] = listeners[o] /\ i \in DOMAIN listeners[o]
      BY <1>6
    <3>2. listeners[o][i] \in Workers
      BY <1>1, <3>1 DEF Coherent
    <3> HIDE DEF line, poll
    <3> QED BY <1>1, <1>5, <3>1, <3>2 DEF Coherent
  <2> HIDE DEF line, poll
  <2>6. [o \in Owners |-> permit[o] /\ o \notin gone] \in [Owners -> BOOLEAN]
    BY <1>1 DEF Coherent
  <2> QED BY <2>1, <2>2, <2>3, <2>4, <2>5, <2>6 DEF Coherent
<1> HIDE DEF n, poll, line
<1>8. Coherent(permit', listeners', polls')
  BY <1>1, <1>3, <1>4, <1>7, NotifiedCoherent
<1>9. \A w \in Workers :
         /\ polls'[w].phase = poll[w].phase
         /\ polls'[w].detached = poll[w].detached
         /\ poll[w].woken \subseteq polls'[w].woken
         /\ w \in ToSet(line[w]) =>
               w \in ToSet(listeners'[w]) \/ w \in polls'[w].woken
         /\ w \in ToSet(line[w]) /\ n[w] # 0 => w \in polls'[w].woken
  BY <1>1, <1>3, <1>4, <1>7, NotifiedCoherent
<1>10. \A o \in Owners : o \notin gone =>
         /\ permit[o] => permit'[o]
         /\ n[o] # 0 /\ line[o] = <<>> => permit'[o]
  BY <1>1, <1>3, <1>4, <1>7, NotifiedCoherent
<1>11. ASSUME NEW w \in Workers, ~polls'[w].detached,
              polls'[w].phase \in {"unlocked", "listening"}
       PROVE  /\ polls'[w].phase = "unlocked" /\ HasWork(w)' => permit'[w]
              /\ polls'[w].phase = "listening" =>
                    w \in ToSet(listeners'[w]) \/ w \in polls'[w].woken
              /\ polls'[w].phase = "listening" /\ HasWork(w)' => polls'[w].woken # {}
  <2>1. /\ w \in Owners /\ w \notin gone /\ ~polls[w].detached
        /\ polls[w].phase = polls'[w].phase /\ line[w] = listeners[w]
        /\ polls[w].woken \subseteq polls'[w].woken
    BY <1>5, <1>6, <1>9, <1>11, OwnersAre
  <2>2. HasWork(w)' => HasWork(w) \/ n[w] # 0
    BY <1>2, <2>1, PushesAreCounted DEF n
  <2>3. CASE polls'[w].phase = "unlocked"
    <3>1. HasWork(w) => permit[w]
      BY <2>1, <2>3 DEF RustInv, Wakeful
    <3>2. line[w] = <<>>
      BY <1>1, <2>1, <2>3, OwnLine
    <3> QED BY <1>10, <2>1, <2>2, <2>3, <3>1, <3>2
  <2>4. CASE polls'[w].phase = "listening"
    <3>1. /\ w \in ToSet(listeners[w]) \/ w \in polls[w].woken
          /\ HasWork(w) => polls[w].woken # {}
      BY <2>1, <2>4 DEF RustInv, Wakeful
    <3> QED BY <1>9, <2>1, <2>2, <2>4, <3>1
  <2> QED BY <1>11, <2>3, <2>4
<1> QED BY <1>8, <1>11 DEF RustInv, Wakeful

-----------------------------------------------------------------------------
(* A poll stops to listen *)

LEMMA ConcatSplits ==
    ASSUME NEW S, NEW a \in Seq(S), NEW b \in Seq(S)
    PROVE  /\ a \o b \in Seq(S) /\ Len(a \o b) = Len(a) + Len(b)
           /\ \A i \in 1 .. Len(a \o b) :
                 (a \o b)[i] = IF i <= Len(a) THEN a[i] ELSE b[i - Len(a)]
<1>1. a \o b \in Seq(S) /\ Len(a \o b) = Len(a) + Len(b)
  OBVIOUS
<1>2. Len(a) \in Nat /\ Len(b) \in Nat
  OBVIOUS
<1>3. ASSUME NEW i \in 1 .. Len(a \o b)
      PROVE  (a \o b)[i] = IF i <= Len(a) THEN a[i] ELSE b[i - Len(a)]
  <2>1. i \in 1 .. (Len(a) + Len(b))
    BY <1>1
  <2> QED BY <1>2, <2>1
<1> QED BY <1>1, <1>3

\* A poll that is once in a line is out of it after RemoveFirst, and the others are not.
LEMMA OutOfLine ==
    ASSUME NEW q \in Seq(Workers), Once(q), NEW w
    PROVE  /\ RemoveFirst(q, w) \in Seq(Workers)
           /\ Once(RemoveFirst(q, w))
           /\ ToSet(RemoveFirst(q, w)) = ToSet(q) \ {w}
<1>1. Len(q) \in Nat /\ DOMAIN q = 1 .. Len(q)
  OBVIOUS
<1>2. CASE \A i \in 1 .. Len(q) : q[i] # w
  <2>1. RemoveFirst(q, w) = q
    BY <1>2 DEF RemoveFirst
  <2> QED BY <1>1, <1>2, <2>1 DEF ToSet
<1>3. CASE \E i \in 1 .. Len(q) : q[i] = w
  <2> DEFINE I == {i \in 1 .. Len(q) : q[i] = w}
             k == CHOOSE x \in I : \A y \in I : x =< y
             p == SubSeq(q, 1, k - 1) \o SubSeq(q, k + 1, Len(q))
  <2>1. RemoveFirst(q, w) = p
    BY <1>3 DEF RemoveFirst, RemoveAt, SelectInSeq, Min
  <2>2. PICK at \in 1 .. Len(q) : q[at] = w
    BY <1>3
  <2>3. \A y \in I : at = y
    BY <1>1, <2>2 DEF Once
  <2>4. at \in I /\ \A y \in I : at =< y
    BY <2>2, <2>3
  <2>5. k \in I
    BY <2>4
  <2> HIDE DEF k
  <2>6. k \in 1 .. Len(q) /\ q[k] = w
    BY <2>5
  <2>7. /\ p \in Seq(Workers)
        /\ Len(p) = Len(q) - 1
        /\ \A i \in 1 .. Len(p) :
              p[i] = IF i < k THEN q[i] ELSE q[i + 1]
    <3> DEFINE a == SubSeq(q, 1, k - 1)
               b == SubSeq(q, k + 1, Len(q))
    <3>1. /\ a \in Seq(Workers) /\ Len(a) = k - 1
          /\ \A i \in 1 .. Len(a) : a[i] = q[i]
      BY <1>1, <2>6
    <3>2. /\ b \in Seq(Workers) /\ Len(b) = Len(q) - k
          /\ \A i \in 1 .. Len(b) : b[i] = q[i + k]
      <4>1. k \in Nat /\ k <= Len(q)
        BY <1>1, <2>6
      <4>2. b \in Seq(Workers) /\ Len(b) = Len(q) - k /\ \A i \in DOMAIN b : b[i] = q[i + k]
        BY <4>1, RestOfLine
      <4> HIDE DEF b
      <4> QED BY <4>2
    <3>3. p = a \o b
      OBVIOUS
    <3> HIDE DEF a, b, p
    <3>4. /\ p \in Seq(Workers) /\ Len(p) = Len(a) + Len(b)
          /\ \A i \in 1 .. Len(p) : p[i] = IF i <= Len(a) THEN a[i] ELSE b[i - Len(a)]
      BY <3>1, <3>2, <3>3, ConcatSplits
    <3>5. Len(p) = Len(q) - 1 /\ k \in Nat /\ Len(a) \in Nat /\ Len(b) \in Nat
      BY <1>1, <2>6, <3>1, <3>2, <3>4
    <3>6. ASSUME NEW i \in 1 .. Len(p) PROVE p[i] = IF i < k THEN q[i] ELSE q[i + 1]
      <4>1. CASE i < k
        BY <1>1, <2>6, <3>1, <3>4, <4>1
      <4>2. CASE ~(i < k)
        <5>1. i - Len(a) \in 1 .. Len(b) /\ (i - Len(a)) + k = i + 1 /\ ~(i <= Len(a))
          BY <1>1, <2>6, <3>1, <3>2, <3>4, <3>5, <4>2
        <5>2. b[i - Len(a)] = q[(i - Len(a)) + k]
          BY <3>2, <5>1
        <5> QED BY <3>4, <4>2, <5>1, <5>2
      <4> QED BY <4>1, <4>2
    <3> QED BY <3>4, <3>5, <3>6
  <2> HIDE DEF p, I
  <2>8. DOMAIN p = 1 .. (Len(q) - 1)
    BY <2>7
  <2>9. Once(p)
    <3> DEFINE from(i) == IF i < k THEN i ELSE i + 1
    <3>1. \A i \in DOMAIN p : from(i) \in DOMAIN q /\ p[i] = q[from(i)]
      BY <1>1, <2>6, <2>7, <2>8
    <3>2. \A i, j \in DOMAIN p : from(i) = from(j) => i = j
      BY <1>1, <2>6, <2>8
    <3> HIDE DEF from
    <3> QED BY <3>1, <3>2 DEF Once
  <2>10. ToSet(p) \subseteq ToSet(q) \ {w}
    <3>1. \A i \in DOMAIN p : \E j \in DOMAIN q : j # k /\ p[i] = q[j]
      <4>1. SUFFICES ASSUME NEW i \in DOMAIN p PROVE \E j \in DOMAIN q : j # k /\ p[i] = q[j]
        OBVIOUS
      <4> DEFINE j == IF i < k THEN i ELSE i + 1
      <4>2. j \in DOMAIN q /\ j # k
        BY <1>1, <2>6, <2>7, <2>8
      <4>3. p[i] = q[j]
        BY <2>7, <2>8
      <4> HIDE DEF j
      <4> QED BY <4>2, <4>3
    <3>2. \A j \in DOMAIN q : j # k => q[j] # w
      BY <1>1, <2>6 DEF Once
    <3> QED BY <3>1, <3>2, Zenon DEF ToSet
  <2>11. ASSUME NEW i \in 1 .. Len(q), q[i] # w PROVE \E h \in DOMAIN p : p[h] = q[i]
    <3>1. CASE i < k
      BY <1>1, <2>6, <2>7, <2>8, <3>1
    <3>2. CASE i > k
      <4>1. i - 1 \in 1 .. Len(p) /\ ~(i - 1 < k) /\ (i - 1) + 1 = i
        BY <1>1, <2>6, <2>7, <3>2
      <4> QED BY <2>7, <2>8, <4>1
    <3> QED BY <2>6, <2>11, <3>1, <3>2
  <2>12. ToSet(q) \ {w} \subseteq ToSet(p)
    BY <1>1, <2>11 DEF ToSet
  <2> QED BY <2>1, <2>7, <2>9, <2>10, <2>12
<1> QED BY <1>2, <1>3

\* Who stops to listen hands on the wake-ups it does not use: nobody else misses one.
LEMMA StopWakes ==
    ASSUME RustInv, NEW w \in Workers, NEW used, NEW phase \in {"looking", "last", "none"},
           polls[w].phase \in {"unlocked", "listening"},
           StopListening(w, used, phase), UNCHANGED relayVars
    PROVE  RustInv'
<1> DEFINE lost(o) == o \in polls[w].woken \ used /\ ~(o = w /\ polls[w].detached)
           n == [o \in Owners |-> IF lost(o) THEN 1 ELSE 0]
           poll == [polls EXCEPT ![w].phase = phase, ![w].woken = {}]
           line == [o \in Owners |-> RemoveFirst(listeners[o], w)]
<1>1. Coherent(permit, listeners, polls) /\ Wakeful
  BY DEF RustInv
<1>2. n \in [Owners -> Nat]
  <2> HIDE DEF lost
  <2> QED OBVIOUS
<1>3. Notified(n, {}, poll, line)
  BY Zenon DEF StopListening
<1>4. polls \in [Workers -> Poll]
  BY <1>1 DEF Coherent
<1>5. /\ \A v \in Workers \ {w} : poll[v] = polls[v]
      /\ poll[w] \in Poll
      /\ poll[w].phase = phase /\ poll[w].role = polls[w].role /\ poll[w].woken = {}
  <2>1. poll[w] = [[polls[w] EXCEPT !.phase = phase] EXCEPT !.woken = {}]
    BY <1>4
  <2>2. polls[w] \in Poll
    BY <1>4
  <2>3. \A v \in Workers \ {w} : poll[v] = polls[v]
    BY <1>4
  <2> HIDE DEF poll
  <2> QED BY <2>1, <2>2, <2>3 DEF Poll
<1>6. \A o \in Owners :
         /\ line[o] \in Seq(Workers)
         /\ Once(line[o])
         /\ ToSet(line[o]) = ToSet(listeners[o]) \ {w}
         /\ permit[o] => line[o] = <<>>
  <2> TAKE o \in Owners
  <2>1. listeners[o] \in Seq(Workers) /\ Once(listeners[o])
    BY <1>1 DEF Coherent
  <2>2. line[o] = RemoveFirst(listeners[o], w)
    OBVIOUS
  <2>3. permit[o] => listeners[o] = <<>>
    BY <1>1 DEF Coherent
  <2>4. RemoveFirst(<<>>, w) = <<>>
    BY DEF RemoveFirst
  <2> HIDE DEF line
  <2> QED BY <2>1, <2>2, <2>3, <2>4, OutOfLine
<1> HIDE DEF n, poll, line
<1>7. Coherent([o \in Owners |-> permit[o] /\ o \notin {}], line, poll)
  <2>1. poll \in [Workers -> Poll]
    BY <1>3, <1>4, <1>5 DEF poll
  <2>2. line \in [Owners -> Seq(Workers)]
    BY <1>6 DEF line
  <2>3. ASSUME NEW v \in Workers
        PROVE  /\ poll[v].phase # "none" => poll[v].role \in Roles
               /\ poll[v].woken \subseteq Roles \cup {v}
               /\ poll[v].phase # "listening" => poll[v].woken = {}
    <3>1. /\ polls[v].phase # "none" => polls[v].role \in Roles
          /\ polls[v].woken \subseteq Roles \cup {v}
          /\ polls[v].phase # "listening" => polls[v].woken = {}
      BY <1>1 DEF Coherent
    <3>2. CASE v # w
      BY <1>5, <3>1, <3>2
    <3>3. CASE v = w
      BY <1>5, <3>1, <3>3
    <3> QED BY <3>2, <3>3
  <2>4. ASSUME NEW o \in Owners, NEW i \in DOMAIN line[o]
        PROVE  /\ poll[line[o][i]].phase = "listening"
               /\ o \notin poll[line[o][i]].woken
               /\ o \in Roles \cup {line[o][i]}
    <3>1. line[o][i] \in ToSet(line[o])
      BY DEF ToSet
    <3>2. line[o][i] \in ToSet(listeners[o]) /\ line[o][i] # w
      BY <1>6, <3>1
    <3>3. PICK j \in DOMAIN listeners[o] : listeners[o][j] = line[o][i]
      BY <3>2 DEF ToSet
    <3>4. line[o][i] \in Workers
      BY <1>6
    <3> QED BY <1>1, <1>5, <3>2, <3>3, <3>4 DEF Coherent
  <2>5. [o \in Owners |-> permit[o] /\ o \notin {}] \in [Owners -> BOOLEAN]
    BY <1>1 DEF Coherent
  <2> QED BY <1>6, <2>1, <2>2, <2>3, <2>4, <2>5 DEF Coherent
<1>8. Coherent(permit', listeners', polls')
  BY <1>1, <1>2, <1>3, <1>7, NotifiedCoherent
<1>9. \A v \in Workers :
         /\ polls'[v].phase = poll[v].phase
         /\ polls'[v].detached = poll[v].detached
         /\ poll[v].woken \subseteq polls'[v].woken
         /\ v \in ToSet(line[v]) =>
               v \in ToSet(listeners'[v]) \/ v \in polls'[v].woken
  BY <1>1, <1>2, <1>3, <1>7, NotifiedCoherent
<1>10. \A v \in Workers : permit[v] => permit'[v]
  BY <1>1, <1>2, <1>3, <1>7, NotifiedCoherent, OwnersAre
<1>11. \A v \in Workers : HasWork(v)' => HasWork(v)
  BY DEF relayVars, HasWork, R!Waiting
<1>12. ASSUME NEW v \in Workers, ~polls'[v].detached,
              polls'[v].phase \in {"unlocked", "listening"}
       PROVE  /\ polls'[v].phase = "unlocked" /\ HasWork(v)' => permit'[v]
              /\ polls'[v].phase = "listening" =>
                    v \in ToSet(listeners'[v]) \/ v \in polls'[v].woken
              /\ polls'[v].phase = "listening" /\ HasWork(v)' => polls'[v].woken # {}
  <2>1. v # w /\ poll[v] = polls[v]
    BY <1>5, <1>9, <1>12
  <2>2. /\ polls[v].phase = polls'[v].phase /\ ~polls[v].detached
        /\ polls[v].woken \subseteq polls'[v].woken
        /\ v \in ToSet(listeners[v]) => v \in ToSet(line[v])
    BY <1>6, <1>9, <1>12, <2>1, OwnersAre
  <2>3. /\ polls[v].phase = "unlocked" /\ HasWork(v) => permit[v]
        /\ polls[v].phase = "listening" =>
              v \in ToSet(listeners[v]) \/ v \in polls[v].woken
        /\ polls[v].phase = "listening" /\ HasWork(v) => polls[v].woken # {}
    BY <1>1, <2>2 DEF Wakeful
  <2> QED BY <1>9, <1>10, <1>11, <2>2, <2>3
<1>13. TablesInv'
  BY TablesSame DEF RustInv
<1> QED BY <1>8, <1>12, <1>13 DEF RustInv, Wakeful

-----------------------------------------------------------------------------
(* The locked sections of a poll, and what it hears between them *)

\* The poll of w, which does not listen, goes on as `poll`.
LEMMA PollGoesOn ==
    ASSUME RustInv, TablesInv', NEW w \in Workers, NEW poll \in Poll,
           polls[w].phase # "listening", poll.phase # "listening", poll.woken = {},
           poll.phase # "none" => poll.role \in Roles,
           polls' = [polls EXCEPT ![w] = poll],
           permit' \in [Owners -> BOOLEAN],
           \A o \in Owners : permit'[o] => permit[o],
           \A v \in Workers \ {w} : permit[v] => permit'[v],
           listeners' = listeners,
           \A v \in Workers \ {w} : HasWork(v)' => HasWork(v),
           poll.phase = "unlocked" => ~HasWork(w)'
    PROVE  RustInv'
<1>1. Coherent(permit, listeners, polls) /\ Wakeful
  BY DEF RustInv
<1>2. /\ polls' \in [Workers -> Poll] /\ polls'[w] = poll
      /\ \A v \in Workers \ {w} : polls'[v] = polls[v]
  BY <1>1 DEF Coherent
<1>3. \A o \in Owners : \A i \in DOMAIN listeners[o] :
         listeners[o][i] \in Workers \ {w}
  BY <1>1 DEF Coherent
<1>4. Coherent(permit', listeners', polls')
  <2>1. ASSUME NEW v \in Workers
        PROVE  /\ polls'[v].phase # "none" => polls'[v].role \in Roles
               /\ polls'[v].woken \subseteq Roles \cup {v}
               /\ polls'[v].phase # "listening" => polls'[v].woken = {}
    <3>1. CASE v = w
      BY <1>2, <3>1
    <3>2. CASE v # w
      BY <1>1, <1>2, <3>2 DEF Coherent
    <3> QED BY <3>1, <3>2
  <2>2. ASSUME NEW o \in Owners, NEW i \in DOMAIN listeners[o]
        PROVE  /\ polls'[listeners[o][i]].phase = "listening"
               /\ o \notin polls'[listeners[o][i]].woken
               /\ o \in Roles \cup {listeners[o][i]}
    BY <1>1, <1>2, <1>3 DEF Coherent
  <2>3. /\ listeners \in [Owners -> Seq(Workers)]
        /\ \A o \in Owners : permit'[o] => listeners[o] = <<>>
        /\ \A o \in Owners : Once(listeners[o])
    BY <1>1 DEF Coherent
  <2> QED BY <1>2, <2>1, <2>2, <2>3 DEF Coherent
<1>5. ASSUME NEW v \in Workers, ~polls'[v].detached
      PROVE  /\ polls'[v].phase = "unlocked" /\ HasWork(v)' => permit'[v]
             /\ polls'[v].phase = "listening" =>
                   v \in ToSet(listeners'[v]) \/ v \in polls'[v].woken
             /\ polls'[v].phase = "listening" /\ HasWork(v)' => polls'[v].woken # {}
  <2>1. CASE v = w
    BY <1>2, <2>1
  <2>2. CASE v # w
    BY <1>1, <1>2, <1>5, <2>2 DEF Wakeful
  <2> QED BY <2>1, <2>2
<1> QED BY <1>4, <1>5 DEF RustInv, Wakeful

\* A poll that finds no task has been through the worker's whole queue.
LEMMA NothingFound ==
    ASSUME TablesInv, NEW w \in Workers, NEW r \in Roles, NEW max \in Nat \ {0},
           NEW n, Take(w, r, max, n)
    PROVE  /\ \A v \in Workers \ {w} : HasWork(v)' => HasWork(v)
           /\ tasks' = tasks => ~HasWork(w)'
<1> DEFINE own == queues[w]
           line == own \o queues[r]
           taken == Taken(line, n)
<1>1. /\ queues \in [Owners -> Seq(TaskId)] /\ w \in Owners /\ r \in Owners /\ r \notin Workers
  BY OwnersAre, SameQueues DEF TablesInv, CP!ChainInv, CP!TypeOK
<1>2. /\ n \in 0 .. Len(line)
      /\ n = Len(line) \/ Cardinality(taken) = max
      /\ queues' = [queues EXCEPT
                ![w] = R!After(own, n),
                ![r] = IF n > Len(own) THEN R!After(@, n - Len(own)) ELSE @]
      /\ tasks' = [t \in TaskId |->
                IF t \in taken
                THEN [tasks[t] EXCEPT !.status = "ASSIGNED", !.worker = w]
                ELSE tasks[t]]
      /\ known' = known
  BY Zenon DEF Take
<1>3. taken = {t \in TaskId : R!Waiting(t) /\ \E i \in 1 .. n : line[i] = t}
  BY DEF Taken
<1>4. \A t \in known : tasks[t] \in CP!Task
  BY DEF TablesInv, CP!ChainInv, CP!TypeOK
<1>5. own \in Seq(TaskId) /\ queues[r] \in Seq(TaskId) /\ Len(own) \in Nat
  BY <1>1
<1>6. /\ Len(line) \in Nat
      /\ \A i \in 1 .. Len(own) : i \in 1 .. Len(line) /\ line[i] = own[i]
  <2> DEFINE b == queues[r]
  <2>1. b \in Seq(TaskId) /\ Len(b) \in Nat /\ line = own \o b
    BY <1>5
  <2> HIDE DEF own, b, line
  <2> QED BY <1>5, <2>1, ConcatSplits
<1> HIDE DEF taken, line
<1>7. /\ queues'[w] = R!After(own, n)
      /\ \A v \in Workers \ {w} : queues'[v] = queues[v]
  <2> DEFINE a == R!After(own, n)
             b == IF n > Len(own) THEN R!After(queues[r], n - Len(own)) ELSE queues[r]
  <2>1. queues' = [queues EXCEPT ![w] = a, ![r] = b]
    BY <1>1, <1>2
  <2> HIDE DEF a, b
  <2>2. queues'[w] = a /\ \A v \in Workers \ {w} : queues'[v] = queues[v]
    BY <1>1, <2>1, OwnersAre
  <2> QED BY <2>2 DEF a
<1>8. ToSet(queues'[w]) \subseteq ToSet(own)
  <2> HIDE DEF own
  <2>1. n \in Nat
    <3>1. n \in 0 .. Len(line)
      BY Zenon, <1>2
    <3> QED BY <1>6, <3>1
  <2>2. R!After(own, n) \in {SubSeq(own, n + 1, Len(own)), <<>>}
    BY DEF R!After
  <2>3. \A i \in DOMAIN SubSeq(own, n + 1, Len(own)) :
           i + n \in DOMAIN own /\ SubSeq(own, n + 1, Len(own))[i] = own[i + n]
    BY <1>5, <2>1
  <2>4. ToSet(SubSeq(own, n + 1, Len(own))) \subseteq ToSet(own)
    BY <2>3 DEF ToSet
  <2>5. ToSet(<<>>) = {}
    BY DEF ToSet
  <2> QED BY <1>7, <2>2, <2>4, <2>5
<1>9. \A t \in TaskId : /\ t \in taken => tasks'[t].status = "ASSIGNED" /\ R!Waiting(t)
                        /\ t \notin taken => tasks'[t] = tasks[t]
  BY <1>2, <1>3, <1>4 DEF R!Waiting, CP!Task
<1>10. \A t \in TaskId : R!Waiting(t)' => R!Waiting(t)
  BY <1>2, <1>9 DEF R!Waiting
<1>11. \A v \in Workers \ {w} : HasWork(v)' => HasWork(v)
  <2> SUFFICES ASSUME NEW v \in Workers \ {w}, NEW t \in ToSet(queues'[v]), R!Waiting(t)'
               PROVE  HasWork(v)
    BY DEF HasWork
  <2>1. queues[v] \in Seq(TaskId) /\ t \in ToSet(queues[v])
    BY <1>1, <1>7, OwnersAre
  <2>2. t \in TaskId
    BY <2>1 DEF ToSet
  <2> QED BY <1>10, <2>1, <2>2 DEF HasWork
<1>12. ASSUME tasks' = tasks, HasWork(w)' PROVE FALSE
  <2>1. taken = {}
    BY <1>3, <1>9, <1>12 DEF R!Waiting
  <2>2. n = Len(line)
    <3>1. Cardinality(taken) = 0
      BY <2>1, FS_EmptySet
    <3> QED BY <1>2, <3>1
  <2>3. PICK t \in ToSet(own) : R!Waiting(t)'
    BY <1>8, <1>12 DEF HasWork
  <2>4. PICK i \in 1 .. Len(own) : own[i] = t
    BY <1>5, <2>3 DEF ToSet
  <2>5. t \in TaskId /\ R!Waiting(t)
    BY <1>5, <1>10, <2>3, <2>4
  <2>6. t \in taken
    BY <1>3, <1>6, <2>2, <2>4, <2>5
  <2> QED BY <2>1, <2>6
<1> QED BY <1>11, <1>12

LEMMA LookWakes ==
    ASSUME RustInv, NEW w \in Workers, NEW r \in Roles, NEW max \in BatchSizes, Look(w, r, max)
    PROVE  RustInv'
<1>1. PICK n : Take(w, r, max, n)
  BY DEF Look
<1>2. TablesInv'
  BY <1>1, TablesTake DEF RustInv
<1> DEFINE poll == IF tasks' # tasks THEN NoPoll
                   ELSE [NoPoll EXCEPT !.phase = "unlocked", !.role = r, !.max = max]
<1>3. polls' = [polls EXCEPT ![w] = poll] /\ permit' = permit /\ listeners' = listeners
  BY Zenon DEF Look
<1>4. /\ poll \in Poll /\ poll.phase \in {"none", "unlocked"} /\ poll.woken = {}
      /\ poll.phase # "none" => poll.role \in Roles
      /\ poll.phase = "unlocked" => tasks' = tasks
  BY DEF Poll, NoPoll
<1> HIDE DEF poll
<1>5. /\ \A v \in Workers \ {w} : HasWork(v)' => HasWork(v)
      /\ tasks' = tasks => ~HasWork(w)'
  <2>1. max \in Nat \ {0}
    BY RelayAssumption DEF R!BoundsAssumption
  <2> QED BY <1>1, <2>1, NothingFound DEF RustInv
<1>6. polls[w].phase # "listening"
  BY DEF Look
<1>7. permit \in [Owners -> BOOLEAN]
  BY DEF RustInv, Coherent
<1> QED BY <1>2, <1>3, <1>4, <1>5, <1>6, <1>7, PollGoesOn

LEMMA LastLookWakes == ASSUME RustInv, NEW w \in Workers, LastLook(w) PROVE RustInv'
<1> DEFINE r == polls[w].role
<1>1. r \in Roles /\ polls[w].phase = "last" /\ permit \in [Owners -> BOOLEAN]
  BY DEF LastLook, RustInv, Coherent
<1>2. PICK n : Take(w, r, 1, n)
  BY DEF LastLook
<1> HIDE DEF r
<1>3. TablesInv' /\ CP!Kept
  BY <1>1, <1>2, TablesTake DEF RustInv
<1>4. \A v \in Workers \ {w} : HasWork(v)' => HasWork(v)
  BY <1>1, <1>2, NothingFound DEF RustInv
<1>5. polls' = [polls EXCEPT ![w] = NoPoll] /\ permit' = permit /\ listeners' = listeners
  BY DEF LastLook
<1>6. NoPoll \in Poll /\ NoPoll.phase = "none" /\ NoPoll.woken = {}
  BY DEF Poll, NoPoll
<1> QED BY <1>1, <1>3, <1>4, <1>5, <1>6, PollGoesOn

LEMMA ListenWakes == ASSUME RustInv, NEW w \in Workers, Listen(w) PROVE RustInv'
<1>1. Coherent(permit, listeners, polls) /\ Wakeful
  BY DEF RustInv
<1>2. /\ polls[w] \in Poll /\ polls[w].phase = "unlocked" /\ polls[w].woken = {}
      /\ polls[w].role \in Roles
  BY <1>1 DEF Listen, Coherent
<1>3. /\ Hears(w) \subseteq Roles \cup {w} /\ Hears(w) \subseteq Owners
      /\ ~polls[w].detached => w \in Hears(w)
  BY <1>2, OwnersAre DEF Hears
<1>4. TablesInv' /\ \A v \in Workers : HasWork(v)' => HasWork(v)
  BY TablesSame DEF RustInv, Listen, relayVars, HasWork, R!Waiting
<1>5. ASSUME NEW o \in Hears(w), permit[o], permit' = [permit EXCEPT ![o] = FALSE],
             polls' = [polls EXCEPT ![w].phase = "looking"], listeners' = listeners
      PROVE  RustInv'
  <2> DEFINE poll == [polls[w] EXCEPT !.phase = "looking"]
  <2>1. polls' = [polls EXCEPT ![w] = poll]
    BY <1>5
  <2>2. /\ poll \in Poll /\ poll.phase = "looking" /\ poll.woken = {}
        /\ poll.role \in Roles
    BY <1>2 DEF Poll
  <2> HIDE DEF poll
  <2>3. /\ permit' \in [Owners -> BOOLEAN]
        /\ \A h \in Owners : permit'[h] => permit[h]
        /\ \A v \in Workers \ {w} : permit[v] => permit'[v]
    BY <1>1, <1>3, <1>5, OwnersAre DEF Coherent
  <2> QED BY <1>2, <1>4, <1>5, <2>1, <2>2, <2>3, PollGoesOn
<1>6. ASSUME ~ \E o \in Hears(w) : permit[o],
             listeners' = [o \in Owners |-> IF o \in Hears(w) THEN Append(listeners[o], w)
                                                              ELSE listeners[o]],
             polls' = [polls EXCEPT ![w].phase = "listening"], permit' = permit
      PROVE  RustInv'
  <2>1. /\ polls' \in [Workers -> Poll]
        /\ \A v \in Workers \ {w} : polls'[v] = polls[v]
        /\ polls'[w].phase = "listening" /\ polls'[w].role = polls[w].role
        /\ polls'[w].woken = {} /\ polls'[w].detached = polls[w].detached
    <3>1. polls \in [Workers -> Poll]
      BY <1>1 DEF Coherent
    <3>2. [polls[w] EXCEPT !.phase = "listening"] \in Poll
      BY <1>2 DEF Poll
    <3> QED BY <1>2, <1>6, <3>1, <3>2 DEF Poll
  <2>2. \A o \in Owners :
           /\ listeners[o] \in Seq(Workers) /\ Once(listeners[o])
           /\ w \notin ToSet(listeners[o])
    BY <1>1, <1>2, OwnLine DEF Coherent
  <2>3. ASSUME NEW o \in Owners
        PROVE  /\ listeners'[o] \in Seq(Workers)
               /\ Once(listeners'[o])
               /\ o \in Hears(w) => w \in ToSet(listeners'[o])
               /\ o \notin Hears(w) => listeners'[o] = listeners[o]
               /\ \A i \in DOMAIN listeners'[o] :
                     \/ i \in DOMAIN listeners[o] /\ listeners'[o][i] = listeners[o][i]
                     \/ o \in Hears(w) /\ listeners'[o][i] = w
    <3>1. CASE o \notin Hears(w)
      BY <1>6, <2>2, <3>1
    <3>2. CASE o \in Hears(w)
      <4> DEFINE q == listeners[o]
                 p == Append(q, w)
      <4>1. q \in Seq(Workers) /\ Once(q) /\ w \notin ToSet(q) /\ listeners'[o] = p
        BY <1>6, <2>2, <3>2
      <4> HIDE DEF q
      <4>2. /\ p \in Seq(Workers) /\ Len(q) \in Nat /\ DOMAIN q = 1 .. Len(q)
            /\ DOMAIN p = 1 .. Len(q) + 1 /\ p[Len(q) + 1] = w
            /\ \A i \in 1 .. Len(q) : p[i] = q[i]
        BY <4>1
      <4> HIDE DEF p
      <4>3. Once(p) /\ w \in ToSet(p)
        BY <4>1, <4>2 DEF Once, ToSet
      <4>4. \A i \in DOMAIN p : \/ i \in DOMAIN q /\ p[i] = q[i]
                                \/ p[i] = w
        BY <4>2
      <4> QED BY <3>2, <4>1, <4>2, <4>3, <4>4 DEF q
    <3> QED BY <3>1, <3>2
  <2>4. Coherent(permit', listeners', polls')
    <3>1. ASSUME NEW v \in Workers
          PROVE  /\ polls'[v].phase # "none" => polls'[v].role \in Roles
                 /\ polls'[v].woken \subseteq Roles \cup {v}
                 /\ polls'[v].phase # "listening" => polls'[v].woken = {}
      <4>1. CASE v = w
        BY <1>2, <2>1, <4>1
      <4>2. CASE v # w
        BY <1>1, <2>1, <4>2 DEF Coherent
      <4> QED BY <4>1, <4>2
    <3>2. ASSUME NEW o \in Owners, permit'[o] PROVE listeners'[o] = <<>>
      BY <1>1, <1>6, <2>3, <3>2 DEF Coherent
    <3>3. ASSUME NEW o \in Owners, NEW i \in DOMAIN listeners'[o]
          PROVE  /\ polls'[listeners'[o][i]].phase = "listening"
                 /\ o \notin polls'[listeners'[o][i]].woken
                 /\ o \in Roles \cup {listeners'[o][i]}
      <4>1. CASE i \in DOMAIN listeners[o] /\ listeners'[o][i] = listeners[o][i]
        <5>1. listeners[o][i] \in Workers \ {w}
          BY <1>1, <1>2, <4>1 DEF Coherent
        <5> QED BY <1>1, <2>1, <4>1, <5>1 DEF Coherent
      <4>2. CASE o \in Hears(w) /\ listeners'[o][i] = w
        BY <1>3, <2>1, <4>2
      <4> QED BY <2>3, <4>1, <4>2
    <3>4. listeners' \in [Owners -> Seq(Workers)]
      BY <1>6, <2>3
    <3>5. permit' \in [Owners -> BOOLEAN]
      BY <1>1, <1>6 DEF Coherent
    <3> QED BY <2>1, <2>3, <3>1, <3>2, <3>3, <3>4, <3>5 DEF Coherent
  <2>5. ASSUME NEW v \in Workers, ~polls'[v].detached
        PROVE  /\ polls'[v].phase = "unlocked" /\ HasWork(v)' => permit'[v]
               /\ polls'[v].phase = "listening" =>
                     v \in ToSet(listeners'[v]) \/ v \in polls'[v].woken
               /\ polls'[v].phase = "listening" /\ HasWork(v)' => polls'[v].woken # {}
    <3>1. CASE v = w
      <4>1. w \in Hears(w) /\ ~permit[w]
        BY <1>3, <1>6, <2>1, <2>5, <3>1
      <4>2. ~HasWork(w)
        BY <1>1, <1>2, <2>1, <2>5, <3>1, <4>1 DEF Wakeful
      <4> QED BY <1>3, <1>4, <2>1, <2>3, <3>1, <4>1, <4>2
    <3>2. CASE v # w
      <4>1. v \in Owners /\ v \notin Hears(w)
        BY <1>3, <3>2, OwnersAre
      <4> QED BY <1>1, <1>4, <1>6, <2>1, <2>3, <2>5, <3>2, <4>1 DEF Wakeful
    <3> QED BY <3>1, <3>2
  <2> QED BY <1>4, <2>4, <2>5 DEF RustInv, Wakeful
<1> QED BY <1>5, <1>6 DEF Listen

LEMMA PollWakes == ASSUME RustInv, NEW w \in Workers, PollStep(w) PROVE RustInv'
<1>1. ASSUME Wake(w) PROVE RustInv'
  BY <1>1, StopWakes DEF Wake
<1>2. ASSUME Deadline(w) PROVE RustInv'
  BY <1>2, StopWakes DEF Deadline
<1>3. ASSUME HangUp(w) PROVE RustInv'
  BY <1>3, StopWakes DEF HangUp
<1> QED BY <1>1, <1>2, <1>3, LookWakes, ListenWakes, LastLookWakes DEF PollStep

-----------------------------------------------------------------------------
(* The other steps *)

\* A step that pushes nothing into a worker's queue, and makes no task pending.
LEMMA QuietStep ==
    ASSUME RustInv, TablesInv', UNCHANGED notifyVars,
           \A w \in Workers : HasWork(w)' => HasWork(w)
    PROVE  RustInv'
<1>1. permit' = permit /\ listeners' = listeners /\ polls' = polls
  BY DEF notifyVars
<1>2. Coherent(permit', listeners', polls')
  BY <1>1 DEF RustInv
<1>3. Wakeful'
  BY <1>1 DEF RustInv, Wakeful
<1> QED BY <1>2, <1>3 DEF RustInv

\* Nor does a step that leaves the queues, the tasks and the table alone.
LEMMA SameWork ==
    ASSUME queues' = queues, tasks' = tasks, known' = known
    PROVE  \A w \in Workers : HasWork(w)' => HasWork(w)
BY DEF HasWork, R!Waiting

\* A step of Relay that notifies for what it pushes.
LEMMA PushWakes ==
    ASSUME RustInv, CP!Orderly, failing' = {}, NEW gone, Notify(gone)
    PROVE  RustInv'
<1>1. TablesInv /\ TablesInv'
  BY TablesStep DEF RustInv
<1> QED BY <1>1, WorkIsPushed, NotifyWakes

LEMMA FailureWakes ==
    ASSUME RustInv, NEW w \in Workers, NEW t \in TaskId, PostFailure(w, t)
    PROVE  RustInv'
<1>1. TablesInv /\ TablesInv'
  BY TablesFailure DEF RustInv
<1>2. /\ t \in CP!Objects
      /\ tasks' = CP!Finished(tasks, t, "FAILED", CP!Answer(t, w))
      /\ CP!Answer(t, w) \in Seq(Workers)
      /\ known' = known /\ queues' = queues
  BY <1>1, FailureFields
<1>3. /\ CP!TypeOK
      /\ \A u \in known : u \in CP!Objects
  BY <1>1 DEF TablesInv, CP!ChainInv, CP!TypeOK, CP!Objects
<1>4. \A u \in known : tasks'[u] = tasks[u] \/ tasks'[u].status = "FAILED"
  BY <1>2, <1>3, RelayAssumptions, CP!FinishedFields DEF CP!FINISHED, CP!Outcome
<1>5. \A v \in Workers : HasWork(v)' => HasWork(v)
  BY <1>2, <1>4 DEF HasWork, R!Waiting
<1> QED BY <1>1, <1>5, QuietStep DEF PostFailure

LEMMA RustInit == Init => RustInv
<1> SUFFICES ASSUME Init PROVE RustInv
  OBVIOUS
<1>1. TablesInv
  BY TablesInit DEF Init
<1>2. /\ permit = [o \in Owners |-> FALSE]
      /\ listeners = [o \in Owners |-> <<>>]
      /\ polls = [w \in Workers |-> NoPoll]
  BY DEF Init, Quiet
<1>3. NoPoll \in Poll /\ NoPoll.phase = "none" /\ NoPoll.woken = {}
  BY DEF NoPoll, Poll
<1>4. Coherent(permit, listeners, polls) /\ Wakeful
  BY <1>2, <1>3 DEF Coherent, Once, Wakeful
<1> QED BY <1>1, <1>4 DEF RustInv

\* What a locked section, but those of /poll and /fail, does to the tables.
RelayStep == CP!Orderly /\ failing' = {}

LEMMA RelaySteps ==
    ASSUME failing = {}, NEW w \in Workers
    PROVE  /\ \A r \in Roles, claims \in SUBSET Sessions :
                 R!Register(w, r, claims) => RelayStep
           /\ R!Deregister(w) \/ R!Heartbeat(w) \/ R!Silence(w) => RelayStep
<1>1. ASSUME NEW r \in Roles, NEW claims \in SUBSET Sessions, R!Register(w, r, claims)
      PROVE  RelayStep
  <2>1. CP!Register(w, r, claims)
    BY <1>1, SameRegister
  <2> QED BY <2>1 DEF RelayStep, CP!Orderly, CP!WorkerStep, CP!Register
<1>2. ASSUME R!Deregister(w) PROVE RelayStep
  <2>1. CP!Deregister(w)
    BY <1>2, SameDeregister
  <2>2. failing' = failing
    BY <2>1 DEF CP!Deregister, CP!relayVars
  <2> QED BY <2>1, <2>2 DEF RelayStep, CP!Orderly, CP!WorkerStep
<1>3. ASSUME R!Heartbeat(w) PROVE RelayStep
  <2>1. CP!Heartbeat(w)
    BY <1>3, SameHeartbeat
  <2> QED BY <2>1 DEF RelayStep, CP!Orderly, CP!WorkerStep, CP!Heartbeat
<1>4. ASSUME R!Silence(w) PROVE RelayStep
  <2>1. CP!Silence(w)
    BY <1>4, SameSilence
  <2> QED BY <2>1 DEF RelayStep, CP!Orderly, CP!Environment, CP!Silence
<1> QED BY <1>1, <1>2, <1>3, <1>4

LEMMA ResultSteps ==
    ASSUME failing = {}, NEW w \in Workers, NEW t \in TaskId,
           R!Forward(w, t) \/ R!Complete(w, t) \/ R!ResultRefused(w, t)
    PROVE  RelayStep
<1>1. CP!Forward(w, t) \/ CP!Complete(w, t) \/ CP!ResultRefused(w, t)
  BY SameForward, SameComplete, SameRefused
<1>2. CP!Orderly
  BY <1>1, SameQueues DEF CP!Orderly, CP!WorkerStep, CP!PostResult
<1>3. failing' = failing
  BY <1>1 DEF CP!Forward, CP!Complete, CP!ResultRefused
<1> QED BY <1>2, <1>3 DEF RelayStep

LEMMA SubmitSteps == ASSUME failing = {}, NEW q \in Requests, R!Submit(q) PROVE RelayStep
<1>1. CP!Submit(q)
  BY SameSubmit
<1> QED BY <1>1 DEF RelayStep, CP!Orderly, CP!Submit

LEMMA SweepSteps ==
    ASSUME failing = {}, NEW overdue \in SUBSET {t \in known : R!Assigned(t)},
           NEW old \in SUBSET known,
           NEW idle \in SUBSET {k \in Roles \X Sessions : affinity[k] # NoWorker},
           R!Sweep(overdue, old, idle)
    PROVE  RelayStep
<1>1. CP!Sweep(overdue, old, idle)
  BY SameSweep
<1>2. overdue \in SUBSET {t \in known : CP!Assigned(t)}
  BY DEF R!Assigned, CP!Assigned
<1>3. CP!Orderly
  BY <1>1, <1>2 DEF CP!Orderly, CP!Janitor
<1>4. failing' = failing
  BY <1>1 DEF CP!Sweep, CP!Release
<1> QED BY <1>3, <1>4 DEF RelayStep

LEMMA RestartSteps == R!Restart => RelayStep
BY SameRestart DEF RelayStep, CP!Orderly, CP!Environment, CP!Restart

LEMMA RustStep == RustInv /\ [Next]_vars => RustInv'
<1> SUFFICES ASSUME RustInv, [Next]_vars PROVE RustInv'
  OBVIOUS
<1>1. TablesInv /\ failing = {}
  BY DEF RustInv, TablesInv
<1>2. RelayStep => TablesInv'
  BY <1>1, TablesStep DEF RelayStep
<1>3. ASSUME RelayStep, UNCHANGED notifyVars, queues' = queues, tasks' = tasks, known' = known
      PROVE  RustInv'
  BY <1>2, <1>3, SameWork, QuietStep
<1>4. ASSUME NEW gone, RelayStep, Notify(gone) PROVE RustInv'
  BY <1>4, PushWakes DEF RelayStep
<1>5. ASSUME NEW w \in Workers, NEW r \in Roles, NEW claims \in SUBSET Sessions,
             Register(w, r, claims)
      PROVE  RustInv'
  <2>1. RelayStep /\ UNCHANGED notifyVars
    BY <1>1, <1>5, RelaySteps DEF Register
  <2>2. queues' = queues /\ tasks' = tasks /\ known' = known
    BY <1>5 DEF Register, R!Register
  <2> QED BY <1>3, <2>1, <2>2
<1>6. ASSUME NEW w \in Workers, Deregister(w) PROVE RustInv'
  <2>1. RelayStep
    BY <1>1, <1>6, RelaySteps DEF Deregister
  <2>2. CASE nodes[w] = NoRole
    <3>1. UNCHANGED notifyVars /\ queues' = queues /\ tasks' = tasks /\ known' = known
      BY <1>6, <2>2 DEF Deregister, R!Deregister, R!relayVars
    <3> QED BY <1>3, <2>1, <3>1
  <2>3. CASE nodes[w] # NoRole
    BY <1>4, <1>6, <2>1, <2>3 DEF Deregister
  <2> QED BY <2>2, <2>3
<1>7. ASSUME NEW w \in Workers, Heartbeat(w) PROVE RustInv'
  <2>1. RelayStep /\ UNCHANGED notifyVars
    BY <1>1, <1>7, RelaySteps DEF Heartbeat
  <2>2. queues' = queues /\ tasks' = tasks /\ known' = known
    BY <1>7 DEF Heartbeat, R!Heartbeat
  <2> QED BY <1>3, <2>1, <2>2
<1>8. ASSUME NEW w \in Workers, NEW t \in TaskId, PostResult(w, t) PROVE RustInv'
  <2>1. RelayStep
    BY <1>1, <1>8, ResultSteps DEF PostResult
  <2>2. CASE R!ResultRefused(w, t) /\ UNCHANGED notifyVars
    <3>1. queues' = queues /\ tasks' = tasks /\ known' = known
      BY <2>2 DEF R!ResultRefused
    <3> QED BY <1>3, <2>1, <2>2, <3>1
  <2>3. CASE Notify({})
    BY <1>4, <2>1, <2>3
  <2> QED BY <1>8, <2>2, <2>3 DEF PostResult
<1>9. ASSUME NEW q \in Requests, Submit(q) PROVE RustInv'
  BY <1>1, <1>4, <1>9, SubmitSteps DEF Submit
<1>10. ASSUME Janitor PROVE RustInv'
  BY <1>1, <1>4, <1>10, SweepSteps DEF Janitor, Sweep
<1>11. ASSUME NEW w \in Workers, R!Silence(w), UNCHANGED notifyVars PROVE RustInv'
  <2>1. RelayStep
    BY <1>1, <1>11, RelaySteps
  <2>2. queues' = queues /\ tasks' = tasks /\ known' = known
    BY <1>11 DEF R!Silence
  <2> QED BY <1>3, <1>11, <2>1, <2>2
<1>12. ASSUME Restart PROVE RustInv'
  <2>1. TablesInv' /\ Quiet'
    BY <1>2, <1>12, RestartSteps DEF Restart, Quiet
  <2>2. NoPoll \in Poll /\ NoPoll.phase = "none" /\ NoPoll.woken = {}
    BY DEF NoPoll, Poll
  <2>3. Coherent(permit', listeners', polls') /\ Wakeful'
    BY <2>1, <2>2 DEF Quiet, Coherent, Once, Wakeful
  <2> QED BY <2>1, <2>3 DEF RustInv
<1>13. CASE UNCHANGED vars
  <2>1. UNCHANGED notifyVars /\ UNCHANGED relayVars
        /\ queues' = queues /\ tasks' = tasks /\ known' = known
    BY <1>13 DEF vars, notifyVars, relayVars
  <2> QED BY <1>1, <2>1, TablesSame, SameWork, QuietStep
<1>14. ASSUME NEW w \in Workers, WorkerStep(w) PROVE RustInv'
  BY <1>5, <1>6, <1>7, <1>8, <1>14, PollWakes, FailureWakes DEF WorkerStep
<1>15. ASSUME Environment PROVE RustInv'
  BY <1>11, <1>12, <1>15 DEF Environment
<1> QED BY <1>9, <1>10, <1>13, <1>14, <1>15 DEF Next

LEMMA RustInvariant == Spec => []RustInv
BY RustInit, RustStep, PTL DEF Spec

-----------------------------------------------------------------------------
(* The properties *)

\* The tables, notifiers and polls have their types, and only polls that listen
\* and were not woken are in a line (relay-rs/src/state.rs, RelayState).
THEOREM TypeCorrect == Spec => []TypeOK
<1>1. RustInv => TypeOK
  BY SameTypes DEF RustInv, TablesInv, CP!ChainInv, Coherent, TypeOK
<1> QED BY <1>1, RustInvariant, PTL

\* No poll sleeps beside a task in its worker's own queue (poll in state.rs).
THEOREM PollsAreWoken == Spec => []OwnPushWakes
<1>1. RustInv => OwnPushWakes
  BY DEF RustInv, Wakeful, HasWork, OwnPushWakes, Awake
<1> QED BY <1>1, RustInvariant, PTL

\* A task that waits is in a queue its worker polls (push_role, push_worker).
THEOREM PendingStaysQueued == Spec => []PendingIsQueued
<1>1. RustInv => PendingIsQueued
  BY SameQueues, Zenon DEF RustInv, TablesInv, PendingIsQueued
<1> QED BY <1>1, RustInvariant, PTL

\* Each step is one of Relay's, a /fail, or keeps the task objects.
LEMMA FourKinds ==
    ASSUME RustInv, [Next]_vars
    PROVE  \/ RelayStep
           \/ \E w \in Workers, t \in TaskId : PostFailure(w, t)
           \/ CP!Kept
           \/ UNCHANGED relayVars
<1>1. TablesInv /\ failing = {}
  BY DEF RustInv, TablesInv
<1>2. ASSUME NEW w \in Workers, PollStep(w) PROVE CP!Kept \/ UNCHANGED relayVars
  <2>1. ASSUME NEW r \in Roles, NEW max \in BatchSizes, Look(w, r, max) PROVE CP!Kept
    BY <1>1, <2>1, TablesTake DEF Look
  <2>2. ASSUME LastLook(w) PROVE CP!Kept
    <3>1. polls[w].role \in Roles
      BY <2>2 DEF LastLook, RustInv, Coherent
    <3> QED BY <1>1, <2>2, <3>1, TablesTake DEF LastLook
  <2>3. Listen(w) \/ Wake(w) \/ Deadline(w) \/ HangUp(w) => UNCHANGED relayVars
    BY DEF Listen, Wake, Deadline, HangUp
  <2> QED BY <1>2, <2>1, <2>2, <2>3 DEF PollStep
<1>3. ASSUME NEW w \in Workers, WorkerStep(w)
      PROVE  \/ RelayStep
             \/ \E t \in TaskId : PostFailure(w, t)
             \/ CP!Kept
             \/ UNCHANGED relayVars
  <2>1. ASSUME NEW r \in Roles, NEW claims \in SUBSET Sessions, Register(w, r, claims)
        PROVE  RelayStep
    BY <1>1, <2>1, RelaySteps DEF Register
  <2>2. Deregister(w) \/ Heartbeat(w) => RelayStep
    BY <1>1, RelaySteps DEF Deregister, Heartbeat
  <2>3. ASSUME NEW t \in TaskId, PostResult(w, t) PROVE RelayStep
    BY <1>1, <2>3, ResultSteps DEF PostResult
  <2> QED BY <1>2, <1>3, <2>1, <2>2, <2>3 DEF WorkerStep
<1>4. ASSUME NEW q \in Requests, Submit(q) PROVE RelayStep
  BY <1>1, <1>4, SubmitSteps DEF Submit
<1>5. Janitor => RelayStep
  BY <1>1, SweepSteps DEF Janitor, Sweep
<1>6. Environment => RelayStep
  BY <1>1, RelaySteps, RestartSteps DEF Environment, Restart
<1>7. UNCHANGED vars => UNCHANGED relayVars
  BY DEF vars, relayVars
<1> QED BY <1>3, <1>4, <1>5, <1>6, <1>7 DEF Next

\* The failure of an assigned task carries the name of its assignee.
LEMMA FailureNames ==
    ASSUME RustInv, [Next]_vars,
           NEW t \in known, CP!Assigned(t), tasks'[t] # NoTask, tasks'[t].status = "FAILED"
    PROVE  Last(tasks'[t].result) = tasks[t].worker
<1>1. /\ TablesInv /\ failing = {}
      /\ CP!TypeOK /\ CP!Rooted /\ CP!OneOpenObject
      /\ t \in CP!Objects /\ tasks[t].status = "ASSIGNED"
      /\ tasks[t].worker # NoWorker /\ ~tasks[t].done
  BY DEF RustInv, TablesInv, CP!ChainInv, CP!TypeOK, CP!Objects, CP!Assigned, CP!DoneIsLast,
         CP!Unfinished
<1>2. ~CP!Kept
  BY <1>1 DEF CP!Kept, CP!Moves, CP!Unfinished
<1>3. ~UNCHANGED relayVars
  BY <1>1 DEF relayVars
<1>4. ASSUME RelayStep PROVE FALSE
  <2>1. CP!Shape
    BY <1>1, <1>4, RelayAssumptions, CP!StepShape DEF RelayStep, CP!Next
  <2>2. ASSUME NEW w \in Workers, NEW u \in CP!TaskId, CP!Complete(w, u) PROVE FALSE
    <3>1. /\ u \in CP!Objects /\ CP!Answer(u, w) \in Seq(Workers)
          /\ tasks' = CP!Finished(tasks, u, "COMPLETED", CP!Answer(u, w))
      BY <1>1, <2>2
         DEF CP!Complete, CP!ResultAccepted, CP!TypeOK, CP!Objects, CP!Answer, CP!Task
    <3> QED BY <1>1, <3>1, RelayAssumptions, CP!FinishedFields DEF CP!FINISHED, CP!Outcome
  <2>3. ASSUME NEW w \in Workers, NEW u \in CP!TaskId, CP!FailFinish(w, u) PROVE FALSE
    BY <1>1, <2>3 DEF CP!FailFinish
  <2>4. ASSUME NEW w \in Workers, NEW u \in CP!TaskId, CP!Forward(w, u) PROVE FALSE
    <3>1. /\ tasks'[u].status = "FORWARDED"
          /\ \A x \in CP!Objects : x # u => tasks'[x] = tasks[x]
      BY <1>1, <2>4, RelayAssumptions, CP!ForwardFields
    <3> QED BY <1>1, <3>1
  <2>5. ASSUME NEW q \in Requests, CP!Submit(q) PROVE FALSE
    <3>1. tasks'[t] = tasks[t]
      BY <1>1, <2>5, RelayAssumptions, CP!SubmitFields
    <3> QED BY <1>1, <3>1
  <2>6. ~CP!Restart
    BY <1>1 DEF CP!Restart, CP!TypeOK
  <2> QED BY <1>2, <2>1, <2>2, <2>3, <2>4, <2>5, <2>6 DEF CP!Shape
<1>5. ASSUME NEW w \in Workers, NEW u \in TaskId, PostFailure(w, u)
      PROVE  Last(tasks'[t].result) = tasks[t].worker
  <2>1. /\ u \in CP!Objects /\ tasks[u].status \in CP!Unfinished
        /\ tasks[u].worker \in {NoWorker, w}
        /\ tasks' = CP!Finished(tasks, u, "FAILED", CP!Answer(u, w))
        /\ CP!Answer(u, w) \in Seq(Workers)
    BY <1>1, <1>5, FailureFields
  <2>2. Last(CP!Answer(u, w)) = w
    <3>1. tasks[u].payload \in Seq(Workers)
      BY <1>1, <2>1 DEF CP!TypeOK, CP!Objects, CP!Task
    <3> QED BY <3>1 DEF CP!Answer, Last
  <2>3. /\ t \notin CP!Ended(u) => tasks'[t] = tasks[t]
        /\ t \in CP!Ended(u) => CP!Outcome(tasks[t], tasks'[t], "FAILED", CP!Answer(u, w))
    BY <1>1, <2>1, RelayAssumptions, CP!FinishedFields DEF CP!FINISHED
  <2>4. t \in CP!Ended(u)
    BY <1>1, <2>3
  <2>5. t = u
    <3>1. t = u \/ t = tasks[u].root
      BY <2>4 DEF CP!Ended
    <3>2. t = tasks[u].root => tasks[t].root = tasks[u].root
      BY <1>1, <2>1 DEF CP!Rooted
    <3> QED BY <1>1, <2>1, <3>1, <3>2 DEF CP!OneOpenObject, CP!Unfinished
  <2> QED BY <1>1, <2>1, <2>2, <2>3, <2>4, <2>5 DEF CP!Outcome
<1> QED BY <1>2, <1>3, <1>4, <1>5, FourKinds

\* Only the worker that a task is assigned to makes it fail (post_failure in
\* state.rs checks it under the lock).
THEOREM FailuresFromAssignee == Spec => FailureFromAssignee
<1>1. RustInv /\ [Next]_vars =>
        [\A t \in known :
           /\ R!Assigned(t) /\ tasks'[t] # NoTask /\ tasks'[t].status = "FAILED"
           => R!Last(tasks'[t].result) = tasks[t].worker]_R!vars
  <2> SUFFICES ASSUME RustInv, [Next]_vars, NEW t \in known, R!Assigned(t),
                      tasks'[t] # NoTask, tasks'[t].status = "FAILED"
               PROVE  R!Last(tasks'[t].result) = tasks[t].worker
    OBVIOUS
  <2>1. CP!Assigned(t)
    BY DEF R!Assigned, CP!Assigned
  <2>2. Last(tasks'[t].result) = tasks[t].worker
    BY <2>1, FailureNames
  <2> QED BY <2>2 DEF Last, R!Last
<1> QED BY <1>1, RustInvariant, RustInit, RustStep, PTL DEF Spec, FailureFromAssignee, R!FailureFromAssignee
=============================================================================
