---------------------------- MODULE RelayProofs ----------------------------
(***************************************************************************)
(* Theorems about the relay for every number of workers, roles, sessions   *)
(* and tasks: its types and its queues; then its chains, that the client   *)
(* hears of their end, and that what clients see is a TaskService.         *)
(***************************************************************************)
EXTENDS Relay, FiniteSetTheorems, SequenceTheorems, TLAPS

USE NamesAssumption, BoundsAssumption, NoTaskAssumption

-----------------------------------------------------------------------------
(* Lemmas about the operators of Relay *)

\* An ordering of a finite set of ids is a sequence with each of them once.
LEMMA OrderingProperties ==
    ASSUME NEW S, S \subseteq TaskId, NEW q \in SetToSeqs(S)
    PROVE  /\ q \in Seq(S)
           /\ \A i, j \in DOMAIN q : q[i] = q[j] => i = j
           /\ \A x \in S : \E i \in DOMAIN q : q[i] = x
<1>1. IsFiniteSet(TaskId)
  BY FS_Interval, 0 \in Int, 1 \in Int, MaxTasks \in Int DEF TaskId
<1>2. IsFiniteSet(S) /\ Cardinality(S) \in Nat
  BY <1>1, FS_Subset, FS_CardinalityType
<1> DEFINE D == 1 .. Cardinality(S)
<1>3. /\ q \in [D -> S]
      /\ \A i, j \in D : i # j => q[i] # q[j]
  BY DEF SetToSeqs
<1>4. IsFiniteSet(D) /\ Cardinality(D) = Cardinality(S)
  <2>1. IsFiniteSet(1 .. Cardinality(S))
    BY <1>2, FS_Interval
  <2>2. Cardinality(1 .. Cardinality(S)) = Cardinality(S)
    BY <1>2, FS_Interval
  <2> QED BY <2>1, <2>2
<1>5. q \in Injection(D, S)
  BY <1>3 DEF Injection, IsInjective
<1>6. q \in Surjection(D, S)
  BY <1>2, <1>4, <1>5, FS_Injection
<1>7. \A x \in S : \E i \in D : q[i] = x
  BY <1>6 DEF Surjection
<1>8. q \in Seq(S) /\ DOMAIN q = D
  BY <1>2, <1>3
<1> QED BY <1>3, <1>7, <1>8

\* What is appended to a queue leaves the positions it had.
LEMMA ConcatPrefix ==
    \A s, t \in Seq(TaskId) : \A i \in DOMAIN s :
        i \in DOMAIN (s \o t) /\ (s \o t)[i] = s[i]
OBVIOUS

\* Taking n ids out of a queue moves every other id n positions to the front.
LEMMA AfterProperties ==
    ASSUME NEW q \in Seq(TaskId), NEW n \in Nat
    PROVE  /\ After(q, n) \in Seq(TaskId)
           /\ \A i \in DOMAIN After(q, n) :
                 i \in Nat \ {0} /\ i + n \in DOMAIN q /\ After(q, n)[i] = q[i + n]
           /\ \A j \in DOMAIN q : j > n =>
                 /\ j \in Nat /\ j - n \in DOMAIN After(q, n)
                 /\ After(q, n)[j - n] = q[j]
BY DEF After

\* A new task joins the table and a queue; nothing else leaves them.
LEMMA EnqueueType ==
    ASSUME TypeOK,
           NEW ts \in [TaskId -> Task \cup {NoTask}],
           \A t \in TaskId : tasks[t] # NoTask => ts[t] # NoTask,
           NEW id \in TaskId, NEW task \in Task,
           Enqueue(ts, id, task)
    PROVE  /\ tasks' \in [TaskId -> Task \cup {NoTask}]
           /\ \A t \in TaskId : tasks[t] # NoTask => tasks'[t] # NoTask
           /\ known' \subseteq {t \in TaskId : tasks'[t] # NoTask}
           /\ queues' \in [Owners -> Seq(TaskId)]
           /\ affinity' \in [Roles \X Sessions -> Workers \cup {NoWorker}]
           /\ issued' = id
<1> DEFINE w == BoundWorker(task.role, task.session)
           owner == IF w = NoWorker THEN task.role ELSE w
<1>1. task.role \in Roles /\ task.session \in Sessions \cup {NoSession}
  BY DEF Task
<1>2. w \in Workers \cup {NoWorker}
  BY <1>1 DEF BoundWorker, TypeOK
<1>3. owner \in Owners
  BY <1>1, <1>2 DEF Owners
<1>4. /\ tasks' = [ts EXCEPT ![id] = task]
      /\ known' = known \cup {id}
      /\ queues' = [queues EXCEPT ![owner] = Append(@, id)]
      /\ affinity' = IF task.session = NoSession THEN affinity
                     ELSE [affinity EXCEPT ![<<task.role, task.session>>] = w]
      /\ issued' = id
  BY DEF Enqueue
<1> HIDE DEF w, owner
<1>5. queues' \in [Owners -> Seq(TaskId)]
  BY <1>3, <1>4 DEF TypeOK
<1>6. affinity' \in [Roles \X Sessions -> Workers \cup {NoWorker}]
  BY <1>1, <1>2, <1>4 DEF TypeOK
<1> QED BY <1>4, <1>5, <1>6 DEF TypeOK

\* Requeueing keeps every object a task and every queue a sequence of ids.
LEMMA ReleaseType ==
    ASSUME TypeOK, NEW gone, NEW overdue, NEW idle,
           Release(gone, overdue, idle)
    PROVE  /\ tasks' \in [TaskId -> Task \cup {NoTask}]
           /\ \A t \in TaskId : tasks[t] # NoTask => tasks'[t] # NoTask
           /\ queues' \in [Owners -> Seq(TaskId)]
           /\ affinity' \in [Roles \X Sessions -> Workers \cup {NoWorker}]
<1> DEFINE back(r) == {t \in TakenBack(gone, overdue) \cup Orphaned(gone) :
                           tasks[t].role = r}
<1>1. \A t \in TakenBack(gone, overdue) : tasks[t] \in Task
  BY DEF TakenBack, TypeOK
<1>2. \A task \in Task : Requeued(task) \in Task
  BY DEF Requeued, Task, Unfinished
<1>3. tasks' = [t \in TaskId |-> IF t \in TakenBack(gone, overdue)
                                 THEN Requeued(tasks[t]) ELSE tasks[t]]
  BY DEF Release
<1>4. /\ tasks' \in [TaskId -> Task \cup {NoTask}]
      /\ \A t \in TaskId : tasks[t] # NoTask => tasks'[t] # NoTask
  BY <1>1, <1>2, <1>3 DEF TypeOK
<1>5. \A r \in Roles : back(r) \subseteq TaskId
  BY DEF TakenBack, Orphaned, TypeOK
<1>6. queues' \in [Owners -> Seq(TaskId)]
  <2>1. PICK line \in [Roles -> UNION {SetToSeqs(back(r)) : r \in Roles}] :
          /\ \A r \in Roles : line[r] \in SetToSeqs(back(r))
          /\ queues' = [o \in Owners |-> IF o \in Roles THEN queues[o] \o line[o]
                                         ELSE IF o \in gone THEN <<>>
                                         ELSE queues[o]]
    BY DEF Release
  <2>2. \A r \in Roles : line[r] \in Seq(TaskId)
    <3> SUFFICES ASSUME NEW r \in Roles PROVE line[r] \in Seq(TaskId)
      OBVIOUS
    <3>1. line[r] \in SetToSeqs(back(r)) /\ back(r) \subseteq TaskId
      BY <2>1, <1>5
    <3> HIDE DEF back
    <3>2. line[r] \in Seq(back(r))
      BY <3>1, OrderingProperties
    <3> QED BY <3>1, <3>2
  <2>3. \A o \in Owners : queues[o] \in Seq(TaskId)
    BY DEF TypeOK
  <2> QED BY <2>1, <2>2, <2>3
<1>7. affinity' \in [Roles \X Sessions -> Workers \cup {NoWorker}]
  BY DEF Release, TypeOK
<1> QED BY <1>4, <1>6, <1>7

\* _finish changes open objects only.
LEMMA FinishedType ==
    ASSUME TypeOK, NEW t \in TaskId, tasks[t] # NoTask,
           NEW status \in FINISHED, NEW w \in Workers
    PROVE  /\ Finished(tasks, t, status, Answer(t, w)) \in [TaskId -> Task \cup {NoTask}]
           /\ \A u \in TaskId : tasks[u] # NoTask
                => Finished(tasks, t, status, Answer(t, w))[u] # NoTask
<1>1. tasks[t] \in Task
  BY DEF TypeOK
<1>2. Answer(t, w) \in Seq(Workers)
  BY <1>1 DEF Answer, Task
<1>3. \A task \in Task :
        [task EXCEPT !.status = status, !.result = Answer(t, w), !.done = TRUE] \in Task
  BY <1>2 DEF Task
<1> DEFINE targets == IF t = tasks[t].root THEN {t} \cap known
                      ELSE {t} \cup ({tasks[t].root} \cap known)
           body == Answer(t, w)
           new(task) == [task EXCEPT !.status = status, !.result = body, !.done = TRUE]
<1>4. \A u \in targets : u \in TaskId /\ tasks[u] \in Task
  BY <1>1 DEF TypeOK
<1>5. Finished(tasks, t, status, body) =
        [u \in TaskId |-> IF u \in targets /\ ~tasks[u].done
                          THEN new(tasks[u]) ELSE tasks[u]]
  BY DEF Finished
<1>6. \A task \in Task : new(task) \in Task
  BY <1>3
<1> HIDE DEF targets, new, body
<1>7. ASSUME NEW u \in TaskId
      PROVE  LET v == Finished(tasks, t, status, body)[u]
             IN  v \in Task \cup {NoTask} /\ (tasks[u] # NoTask => v # NoTask)
  BY <1>4, <1>5, <1>6 DEF TypeOK
<1> QED BY <1>5, <1>7 DEF body

-----------------------------------------------------------------------------
(* Type correctness *)

LEMMA TypeInit == Init => TypeOK
BY DEF Init, Nothing, TypeOK, TaskId, Owners

LEMMA TypeRegister ==
    ASSUME TypeOK, NEW w \in Workers, NEW r \in Roles, NEW claims \in SUBSET Sessions,
           Register(w, r, claims)
    PROVE  TypeOK'
<1>1. nodes' \in [Workers -> Roles \cup {NoRole}]
  BY DEF Register, TypeOK
<1>2. affinity' \in [Roles \X Sessions -> Workers \cup {NoWorker}]
  BY DEF Register, TypeOK
<1>3. silent' \subseteq {v \in Workers : nodes'[v] # NoRole}
  BY DEF Register, TypeOK
<1> QED BY <1>1, <1>2, <1>3 DEF Register, TypeOK

LEMMA TypeDeregister ==
    ASSUME TypeOK, NEW w \in Workers, Deregister(w)
    PROVE  TypeOK'
<1>1. held' \in [Workers -> SUBSET TaskId]
  BY DEF Deregister, TypeOK
<1>2. CASE nodes[w] = NoRole
  BY <1>1, <1>2 DEF Deregister, relayVars, TypeOK
<1>3. CASE nodes[w] # NoRole
  <2>1. /\ Release({w}, {}, {})
        /\ nodes' = [nodes EXCEPT ![w] = NoRole]
        /\ silent' = silent \ {w}
        /\ UNCHANGED <<known, failing, issued, submits>>
    BY <1>3 DEF Deregister
  <2>2. /\ tasks' \in [TaskId -> Task \cup {NoTask}]
        /\ \A t \in TaskId : tasks[t] # NoTask => tasks'[t] # NoTask
        /\ queues' \in [Owners -> Seq(TaskId)]
        /\ affinity' \in [Roles \X Sessions -> Workers \cup {NoWorker}]
    BY <2>1, ReleaseType
  <2> QED BY <1>1, <2>1, <2>2 DEF TypeOK
<1> QED BY <1>2, <1>3

-----------------------------------------------------------------------------
(* Polls.  What they take out of the queues is looked at apart from how many   *)
(* ids it is, where the relay in Rust has another rule.                        *)

\* The pending tasks among the first n ids of a line.
Ahead(line, n) == {t \in TaskId : Waiting(t) /\ \E i \in 1 .. n : line[i] = t}

\* Worker w takes n ids out of its own queue and that of role r, in this order,
\* and the pending tasks among them are assigned to it.
TakeOut(w, r, n) ==
    LET own == queues[w]
        taken == Ahead(own \o queues[r], n)
    IN  /\ queues' = [queues EXCEPT
                ![w] = After(own, n),
                ![r] = IF n > Len(own) THEN After(@, n - Len(own)) ELSE @]
        /\ tasks' = [t \in TaskId |->
                IF t \in taken
                THEN [tasks[t] EXCEPT !.status = "ASSIGNED", !.worker = w]
                ELSE tasks[t]]
        /\ affinity' = [k \in Roles \X Sessions |->
                IF \E t \in taken : tasks[t].role = k[1] /\ tasks[t].session = k[2]
                THEN w ELSE affinity[k]]
        /\ held' = [held EXCEPT ![w] = @ \cup taken]
        /\ UNCHANGED <<nodes, known, silent, failing, issued, submits>>

LEMMA PollTakesOut ==
    ASSUME TypeOK, NEW w \in Workers, NEW r \in Roles, NEW max, Poll(w, r, max)
    PROVE  \E n \in 0 .. Len(queues[w] \o queues[r]) : TakeOut(w, r, n)
<1> DEFINE line == queues[w] \o queues[r]
<1>1. line \in Seq(TaskId)
  BY DEF TypeOK, Owners
<1>2. PICK n \in DOMAIN line : TakeOut(w, r, n)
  BY Zenon DEF Poll, TakeOut, Ahead
<1>3. n \in 0 .. Len(line)
  <2> HIDE DEF line
  <2> QED BY <1>1
<1> QED BY <1>2, <1>3

LEMMA TypeTakeOut ==
    ASSUME TypeOK, NEW w \in Workers, NEW r \in Roles,
           NEW n \in 0 .. Len(queues[w] \o queues[r]), TakeOut(w, r, n)
    PROVE  TypeOK'
<1> DEFINE own == queues[w]
           line == own \o queues[r]
           taken == Ahead(line, n)
<1>1. own \in Seq(TaskId) /\ queues[r] \in Seq(TaskId)
  BY DEF TypeOK, Owners
<1>2. /\ queues' = [queues EXCEPT
                ![w] = After(own, n),
                ![r] = IF n > Len(own) THEN After(@, n - Len(own)) ELSE @]
      /\ tasks' = [t \in TaskId |->
                IF t \in taken
                THEN [tasks[t] EXCEPT !.status = "ASSIGNED", !.worker = w]
                ELSE tasks[t]]
      /\ affinity' = [k \in Roles \X Sessions |->
                IF \E t \in taken : tasks[t].role = k[1] /\ tasks[t].session = k[2]
                THEN w ELSE affinity[k]]
      /\ held' = [held EXCEPT ![w] = @ \cup taken]
  BY DEF TakeOut
<1>3. UNCHANGED <<nodes, known, silent, failing, issued, submits>>
  BY DEF TakeOut
<1>4. \A t \in taken : t \in TaskId /\ tasks[t] \in Task
  BY DEF Ahead, Waiting, TypeOK
<1>5. n \in Nat /\ w \in Owners /\ r \in Owners /\ w # r
  BY <1>1 DEF Owners
<1>6. /\ After(own, n) \in Seq(TaskId)
      /\ n > Len(own) => After(queues[r], n - Len(own)) \in Seq(TaskId)
  <2>1. Len(own) \in Nat
    BY <1>1
  <2> HIDE DEF own
  <2>2. n > Len(own) => n - Len(own) \in Nat
    BY <2>1, <1>5
  <2> QED BY <1>1, <1>5, <2>2, AfterProperties
<1> HIDE DEF own, line, taken
<1>7. queues' \in [Owners -> Seq(TaskId)]
  BY <1>1, <1>2, <1>5, <1>6 DEF TypeOK
<1>8. \A task \in Task : [task EXCEPT !.status = "ASSIGNED", !.worker = w] \in Task
  BY DEF Task, Unfinished
<1>9. /\ tasks' \in [TaskId -> Task \cup {NoTask}]
      /\ \A t \in TaskId : tasks[t] # NoTask => tasks'[t] # NoTask
  <2>1. \A t \in TaskId : t \notin taken => tasks'[t] = tasks[t]
    BY <1>2
  <2>2. \A t \in taken : tasks'[t] \in Task
    BY <1>2, <1>4, <1>8
  <2>3. tasks' = [t \in TaskId |-> tasks'[t]]
    BY <1>2
  <2>4. \A t \in TaskId : tasks'[t] \in Task \cup {NoTask}
    BY <2>1, <2>2 DEF TypeOK
  <2>5. tasks' \in [TaskId -> Task \cup {NoTask}]
    BY <2>3, <2>4
  <2> QED BY <2>1, <2>2, <2>5, NoTaskAssumption
<1>10. affinity' \in [Roles \X Sessions -> Workers \cup {NoWorker}]
  BY <1>2 DEF TypeOK
<1>11. held' \in [Workers -> SUBSET TaskId]
  BY <1>2, <1>4 DEF TypeOK
<1> QED BY <1>3, <1>7, <1>9, <1>10, <1>11 DEF TypeOK

LEMMA TypeForward ==
    ASSUME TypeOK, NEW w \in Workers, NEW t \in TaskId, Forward(w, t)
    PROVE  TypeOK'
<1> DEFINE left == [tasks EXCEPT ![t].status = "FORWARDED",
                                 ![t].done = t # tasks[t].root]
           next == NextStep(t, w)
<1>1. tasks[t] \in Task /\ tasks[t].route # <<>>
  BY DEF Forward, ResultAccepted, TypeOK
<1>2. issued + 1 \in TaskId
  BY DEF Forward, TypeOK, TaskId
<1>3. next \in Task
  <2>1. Head(tasks[t].route) \in Roles /\ Tail(tasks[t].route) \in Seq(Roles)
    BY <1>1 DEF Task
  <2>2. Answer(t, w) \in Seq(Workers)
    BY <1>1 DEF Answer, Task
  <2> QED BY <1>1, <2>1, <2>2 DEF NextStep, NewTask, Task, Unfinished
<1>4. left \in [TaskId -> Task \cup {NoTask}]
  BY <1>1 DEF Task, FINISHED, TypeOK
<1>5. \A u \in TaskId : tasks[u] # NoTask => left[u] # NoTask
  <2>1. left[t] \in Task
    BY <1>1 DEF Task, FINISHED, TypeOK
  <2> QED BY <2>1 DEF TypeOK
<1>6. Enqueue(left, issued + 1, next)
  BY DEF Forward
<1> HIDE DEF left, next
<1>7. /\ tasks' \in [TaskId -> Task \cup {NoTask}]
      /\ \A u \in TaskId : tasks[u] # NoTask => tasks'[u] # NoTask
      /\ known' \subseteq {u \in TaskId : tasks'[u] # NoTask}
      /\ queues' \in [Owners -> Seq(TaskId)]
      /\ affinity' \in [Roles \X Sessions -> Workers \cup {NoWorker}]
      /\ issued' = issued + 1
  BY <1>2, <1>3, <1>4, <1>5, <1>6, EnqueueType
<1>8. held' \in [Workers -> SUBSET TaskId]
  BY DEF Forward, Reported, TypeOK
<1> QED BY <1>2, <1>7, <1>8 DEF Forward, TypeOK, TaskId

LEMMA TypeComplete ==
    ASSUME TypeOK, NEW w \in Workers, NEW t \in TaskId, Complete(w, t)
    PROVE  TypeOK'
<1>1. tasks[t] # NoTask
  BY DEF Complete, ResultAccepted
<1>2. /\ tasks' \in [TaskId -> Task \cup {NoTask}]
      /\ \A u \in TaskId : tasks[u] # NoTask => tasks'[u] # NoTask
  BY <1>1, FinishedType DEF Complete, FINISHED
<1>3. held' \in [Workers -> SUBSET TaskId]
  BY DEF Complete, Reported, TypeOK
<1> QED BY <1>2, <1>3 DEF Complete, TypeOK

LEMMA TypeFailFinish ==
    ASSUME TypeOK, NEW w \in Workers, NEW t \in TaskId, FailFinish(w, t)
    PROVE  TypeOK'
<1>1. tasks[t] # NoTask
  BY DEF FailFinish, TypeOK
<1>2. /\ tasks' \in [TaskId -> Task \cup {NoTask}]
      /\ \A u \in TaskId : tasks[u] # NoTask => tasks'[u] # NoTask
  BY <1>1, FinishedType DEF FailFinish, FINISHED
<1> QED BY <1>2 DEF FailFinish, TypeOK

LEMMA TypeSubmit ==
    ASSUME TypeOK, NEW q \in Requests, Submit(q)
    PROVE  TypeOK'
<1> DEFINE new == NewTask(Head(q.path), Tail(q.path), issued + 1, q.session, <<>>)
<1>1. issued + 1 \in TaskId
  BY DEF Submit, TypeOK, TaskId
<1>2. q.path \in Seq(Roles) /\ q.path # <<>> /\ q.session \in Sessions \cup {NoSession}
  OBVIOUS
<1>3. new \in Task
  <2>1. Head(q.path) \in Roles /\ Tail(q.path) \in Seq(Roles)
    BY <1>2
  <2> QED BY <1>1, <1>2, <2>1 DEF NewTask, Task, Unfinished
<1>4. Enqueue(tasks, issued + 1, new)
  BY DEF Submit
<1> HIDE DEF new
<1>5. /\ tasks' \in [TaskId -> Task \cup {NoTask}]
      /\ \A u \in TaskId : tasks[u] # NoTask => tasks'[u] # NoTask
      /\ known' \subseteq {u \in TaskId : tasks'[u] # NoTask}
      /\ queues' \in [Owners -> Seq(TaskId)]
      /\ affinity' \in [Roles \X Sessions -> Workers \cup {NoWorker}]
      /\ issued' = issued + 1
  BY <1>1, <1>3, <1>4, EnqueueType DEF TypeOK
<1>6. submits' \in 0 .. MaxSubmits
  BY DEF Submit, TypeOK
<1> QED BY <1>1, <1>5, <1>6 DEF Submit, TypeOK, TaskId

LEMMA TypeSweep ==
    ASSUME TypeOK, NEW overdue, NEW old, NEW idle, Sweep(overdue, old, idle)
    PROVE  TypeOK'
<1>1. /\ tasks' \in [TaskId -> Task \cup {NoTask}]
      /\ \A t \in TaskId : tasks[t] # NoTask => tasks'[t] # NoTask
      /\ queues' \in [Owners -> Seq(TaskId)]
      /\ affinity' \in [Roles \X Sessions -> Workers \cup {NoWorker}]
  BY ReleaseType DEF Sweep
<1> QED BY <1>1 DEF Sweep, TypeOK

\* A sequence whose first element is taken out, and put back at its end.
LEMMA HeadProperties ==
    ASSUME NEW T, NEW q \in Seq(T), q # <<>>
    PROVE  /\ Tail(q) \in Seq(T)
           /\ Append(Tail(q), Head(q)) \in Seq(T)
           /\ Len(q) \in Nat \ {0} /\ DOMAIN q = 1 .. Len(q)
           /\ DOMAIN Tail(q) = 1 .. Len(q) - 1
           /\ \A i \in DOMAIN Tail(q) : i + 1 \in DOMAIN q /\ Tail(q)[i] = q[i + 1]
           /\ DOMAIN Append(Tail(q), Head(q)) = 1 .. Len(q)
           /\ \A i \in 1 .. Len(q) - 1 : Append(Tail(q), Head(q))[i] = q[i + 1]
           /\ Append(Tail(q), Head(q))[Len(q)] = q[1]
OBVIOUS

\* A poll that waited has an id in its hands, and puts it back or loses it.
Waited(w, r, o) == PutBack(w, r, o) \/ PollCancelled(w, r, o)

LEMMA WaitedFor ==
    ASSUME TypeOK, NEW w, NEW r, NEW o \in Owners, Waited(w, r, o)
    PROVE  /\ queues[o] \in Seq(TaskId) /\ queues[o] # <<>>
           /\ queues' = [queues EXCEPT ![o] = Append(Tail(@), Head(@))]
              \/ queues' = [queues EXCEPT ![o] = Tail(@)]
           /\ UNCHANGED <<nodes, tasks, known, affinity, silent, failing,
                          issued, submits, held>>
BY Zenon DEF Waited, PutBack, PollCancelled, WaitsFor, TypeOK

LEMMA TypeWaited ==
    ASSUME TypeOK, NEW w, NEW r, NEW o \in Owners, Waited(w, r, o)
    PROVE  TypeOK'
<1>1. /\ queues[o] \in Seq(TaskId) /\ queues[o] # <<>>
      /\ queues' = [queues EXCEPT ![o] = Append(Tail(@), Head(@))]
         \/ queues' = [queues EXCEPT ![o] = Tail(@)]
      /\ UNCHANGED <<nodes, tasks, known, affinity, silent, failing,
                     issued, submits, held>>
      /\ queues \in [Owners -> Seq(TaskId)]
  BY WaitedFor, Zenon DEF TypeOK
<1>2. Append(Tail(queues[o]), Head(queues[o])) \in Seq(TaskId) /\ Tail(queues[o]) \in Seq(TaskId)
  BY <1>1, HeadProperties, Zenon
<1>3. queues' \in [Owners -> Seq(TaskId)]
  BY <1>1, <1>2
<1> QED BY <1>1, <1>3 DEF TypeOK

\* Every variable keeps its type in every step.
LEMMA TypeStep == TypeOK /\ [Next]_vars => TypeOK'
<1> SUFFICES ASSUME TypeOK, [Next]_vars PROVE TypeOK'
  OBVIOUS
<1>1. ASSUME NEW w \in Workers, NEW r \in Roles, NEW claims \in SUBSET Sessions,
             Register(w, r, claims)
      PROVE  TypeOK'
  BY <1>1, TypeRegister
<1>2. ASSUME NEW w \in Workers, Deregister(w) PROVE TypeOK'
  BY <1>2, TypeDeregister
<1>3. ASSUME NEW w \in Workers, Heartbeat(w) PROVE TypeOK'
  BY <1>3 DEF Heartbeat, TypeOK
<1>4. ASSUME NEW w \in Workers, NEW r \in Roles, NEW max \in BatchSizes, Poll(w, r, max)
      PROVE  TypeOK'
  BY <1>4, PollTakesOut, TypeTakeOut
<1>5. ASSUME NEW w \in Workers, NEW t \in TaskId, PostResult(w, t) PROVE TypeOK'
  <2>1. ASSUME ResultRefused(w, t) PROVE TypeOK'
    BY <2>1 DEF ResultRefused, TypeOK
  <2> QED BY <1>5, <2>1, TypeForward, TypeComplete DEF PostResult
<1>6. ASSUME NEW w \in Workers, NEW t \in TaskId, FailArrive(w, t) PROVE TypeOK'
  BY <1>6 DEF FailArrive, Reportable, TypeOK
<1>7. ASSUME NEW w \in Workers, NEW t \in TaskId, FailFinish(w, t) PROVE TypeOK'
  BY <1>7, TypeFailFinish
<1>8. ASSUME NEW q \in Requests, Submit(q) PROVE TypeOK'
  BY <1>8, TypeSubmit
<1>9. ASSUME Janitor PROVE TypeOK'
  BY <1>9, TypeSweep DEF Janitor
<1>10. ASSUME NEW w \in Workers, Silence(w) PROVE TypeOK'
  BY <1>10 DEF Silence, TypeOK
<1>11. ASSUME NEW w \in Workers, NEW t \in TaskId, Abandon(w, t) PROVE TypeOK'
  BY <1>11 DEF Abandon, TypeOK
<1>12. ASSUME Restart PROVE TypeOK'
  BY <1>12 DEF Restart, TypeOK
<1>13. ASSUME UNCHANGED vars PROVE TypeOK'
  BY <1>13 DEF vars, TypeOK
<1>14. ASSUME NEW w \in Workers, NEW r \in Roles, NEW o \in Owners,
              PutBack(w, r, o) \/ PollCancelled(w, r, o)
       PROVE  TypeOK'
  BY <1>14, TypeWaited DEF Waited
<1> QED
  BY <1>1, <1>2, <1>3, <1>4, <1>5, <1>6, <1>7, <1>8, <1>9, <1>10, <1>11, <1>12, <1>13, <1>14
  DEF Next, Orderly, LostPoll, WorkerStep, Environment

\* The relay's tables always hold what their declarations say: in particular an
\* object a handler still refers to, known or failing, exists.
THEOREM TypeCorrect == Spec => []TypeOK
<1> QED BY TypeInit, TypeStep, PTL DEF Spec

-----------------------------------------------------------------------------
(* A pending task stays queued, at one place, and no task a worker has is *)

\* Ids are queued and known only after they were issued: a new id is nowhere.
FreshIds ==
    /\ \A o \in Owners : \A i \in DOMAIN queues[o] : queues[o][i] <= issued
    /\ \A t \in known : t <= issued

QueueInv ==
    /\ TypeOK
    /\ FreshIds
    /\ QueuedOnce
    /\ AssignedNotQueued

LEMMA QueueInit == Init => QueueInv
<1> SUFFICES ASSUME Init PROVE QueueInv
  OBVIOUS
<1>1. \A o \in Owners : queues[o] = <<>> /\ DOMAIN queues[o] = {}
  BY DEF Init, Nothing
<1>2. known = {}
  BY DEF Init, Nothing
<1> QED BY <1>1, <1>2, TypeInit
        DEF QueueInv, FreshIds, QueuedOnce, AssignedNotQueued

\* A step that leaves the queues alone may only finish or forget tasks.
LEMMA QueueSame ==
    ASSUME QueueInv, TypeOK', queues' = queues, issued' = issued, known' \subseteq known,
           \A t \in known' : tasks'[t].status \in {tasks[t].status} \cup FINISHED
    PROVE  QueueInv' /\ StaysQueued
<1>1. \A t \in known' : /\ Waiting(t)' => Waiting(t)
                        /\ Assigned(t)' => Assigned(t)
  BY DEF Waiting, Assigned, FINISHED
<1> QED BY <1>1 DEF QueueInv, FreshIds, QueuedOnce, AssignedNotQueued, StaysQueued, Queued

\* _finish leaves every task as it is or finishes it.
LEMMA FinishedStatus ==
    ASSUME NEW ts, NEW t, NEW status \in FINISHED, NEW body, NEW u \in TaskId,
           TypeOK, ts \in [TaskId -> Task \cup {NoTask}],
           u \in known => ts[u] # NoTask
    PROVE  u \in known =>
             Finished(ts, t, status, body)[u].status \in {ts[u].status} \cup FINISHED
<1> SUFFICES ASSUME u \in known
             PROVE Finished(ts, t, status, body)[u].status \in {ts[u].status} \cup FINISHED
  OBVIOUS
<1>1. ts[u] \in Task
  OBVIOUS
<1>2. [ts[u] EXCEPT !.status = status, !.result = body, !.done = TRUE].status = status
  BY <1>1 DEF Task
<1>3. \/ Finished(ts, t, status, body)[u] = ts[u]
      \/ Finished(ts, t, status, body)[u] =
           [ts[u] EXCEPT !.status = status, !.result = body, !.done = TRUE]
  BY DEF Finished
<1> QED BY <1>2, <1>3

\* A new id is put into one queue, once.
LEMMA QueueEnqueue ==
    ASSUME QueueInv, TypeOK',
           NEW ts \in [TaskId -> Task \cup {NoTask}],
           \A t \in known : ts[t].status \in {tasks[t].status} \cup FINISHED,
           NEW task \in Task, task.status = "PENDING",
           issued + 1 \in TaskId,
           Enqueue(ts, issued + 1, task)
    PROVE  QueueInv' /\ StaysQueued
<1> DEFINE w == BoundWorker(task.role, task.session)
           owner == IF w = NoWorker THEN task.role ELSE w
           id == issued + 1
<1>1. owner \in Owners
  <2>1. task.role \in Roles /\ task.session \in Sessions \cup {NoSession}
    BY DEF Task
  <2>2. w \in Workers \cup {NoWorker}
    BY <2>1 DEF BoundWorker, QueueInv, TypeOK
  <2> QED BY <2>1, <2>2 DEF Owners
<1>2. /\ tasks' = [ts EXCEPT ![id] = task]
      /\ known' = known \cup {id}
      /\ queues' = [queues EXCEPT ![owner] = Append(@, id)]
      /\ issued' = id
  BY DEF Enqueue
<1>3. \A o \in Owners : queues[o] \in Seq(TaskId)
  BY DEF QueueInv, TypeOK
<1>4. issued \in Nat /\ id = issued + 1 /\ id \in TaskId
  BY DEF QueueInv, TypeOK
<1> HIDE DEF w, owner, id
<1>5. /\ Len(queues[owner]) \in Nat
      /\ queues'[owner] \in Seq(TaskId)
      /\ DOMAIN queues'[owner] = 1 .. Len(queues[owner]) + 1
      /\ queues'[owner][Len(queues[owner]) + 1] = id
      /\ \A i \in DOMAIN queues[owner] : /\ i \in DOMAIN queues'[owner]
                                         /\ queues'[owner][i] = queues[owner][i]
      /\ DOMAIN queues[owner] = 1 .. Len(queues[owner])
  <2>1. queues'[owner] = Append(queues[owner], id) /\ queues[owner] \in Seq(TaskId)
    BY <1>1, <1>2, <1>3 DEF QueueInv, TypeOK
  <2> QED BY <2>1, <1>4
<1>6. \A o \in Owners \ {owner} : queues'[o] = queues[o]
  BY <1>1, <1>2 DEF QueueInv, TypeOK
<1>7. \A o \in Owners : \A i \in DOMAIN queues'[o] :
         \/ i \in DOMAIN queues[o] /\ queues'[o][i] = queues[o][i]
         \/ o = owner /\ i = Len(queues[o]) + 1 /\ queues'[o][i] = id
  BY <1>5, <1>6
<1>8. \A o \in Owners : \A i \in DOMAIN queues[o] : queues[o][i] \in Nat /\ queues[o][i] < id
  BY <1>3, <1>4 DEF QueueInv, FreshIds, TaskId
<1>9. \A t \in known : t \in Nat /\ t < id
  BY <1>4 DEF QueueInv, FreshIds, TypeOK, TaskId
<1>10. \A t \in known : tasks'[t] = ts[t]
  BY <1>2, <1>9 DEF QueueInv, TypeOK
<1>11. tasks'[id] = task
  BY <1>2, <1>4
<1>12. FreshIds'
  BY <1>2, <1>4, <1>7, <1>8, <1>9 DEF FreshIds
<1>13. StaysQueued
  <2> SUFFICES ASSUME NEW t \in known', Waiting(t)', Waiting(t) => Queued(t)
               PROVE \E o \in Owners : \E i \in DOMAIN queues'[o] : queues'[o][i] = t
    BY DEF StaysQueued, Queued
  <2>1. CASE t = id
    BY <2>1, <1>1, <1>5
  <2>2. CASE t \in known
    <3>1. Waiting(t)
      BY <2>2, <1>10 DEF Waiting, FINISHED
    <3>2. PICK o \in Owners : \E i \in DOMAIN queues[o] : queues[o][i] = t
      BY <2>2, <3>1 DEF Queued
    <3> QED BY <3>2, <1>5, <1>6
  <2> QED BY <2>1, <2>2, <1>2
<1>14. QueuedOnce'
  <2> SUFFICES ASSUME NEW o \in Owners, NEW p \in Owners, NEW i \in DOMAIN queues'[o],
                      NEW j \in DOMAIN queues'[p], queues'[o][i] = queues'[p][j]
               PROVE o = p /\ i = j
    BY DEF QueuedOnce
  <2> QED BY <1>7, <1>8, <1>4 DEF QueueInv, QueuedOnce
<1>15. AssignedNotQueued'
  <2> SUFFICES ASSUME NEW t \in known', Assigned(t)', NEW o \in Owners,
                      NEW i \in DOMAIN queues'[o], queues'[o][i] = t
               PROVE FALSE
    BY DEF AssignedNotQueued
  <2>1. t \in known
    BY <1>2, <1>11 DEF Assigned
  <2>2. Assigned(t)
    BY <2>1, <1>10 DEF Assigned, FINISHED
  <2> QED BY <2>1, <2>2, <1>7, <1>9 DEF QueueInv, AssignedNotQueued
<1> QED BY <1>12, <1>13, <1>14, <1>15 DEF QueueInv

\* Requeueing appends each task given back, or left behind by a gone worker, to
\* the queue of its role once.
LEMMA QueueRelease ==
    ASSUME QueueInv, TypeOK', issued' = issued, known' \subseteq known,
           NEW gone \in SUBSET Workers, NEW overdue, NEW idle,
           Release(gone, overdue, idle)
    PROVE  QueueInv' /\ StaysQueued
<1> DEFINE taken == TakenBack(gone, overdue)
           moved == Orphaned(gone)
           back(r) == {t \in taken \cup moved : tasks[t].role = r}
<1>1. tasks' = [t \in TaskId |-> IF t \in taken THEN Requeued(tasks[t]) ELSE tasks[t]]
  BY DEF Release
<1>2. PICK line \in [Roles -> UNION {SetToSeqs(back(r)) : r \in Roles}] :
        /\ \A r \in Roles : line[r] \in SetToSeqs(back(r))
        /\ queues' = [o \in Owners |-> IF o \in Roles THEN queues[o] \o line[o]
                                       ELSE IF o \in gone THEN <<>>
                                       ELSE queues[o]]
  BY DEF Release
<1>3. \A t \in taken \cup moved : t \in known /\ t \in TaskId /\ tasks[t] \in Task
  BY DEF TakenBack, Orphaned, QueueInv, TypeOK
<1>4. \A r \in Roles : /\ line[r] \in Seq(back(r))
                       /\ \A i, j \in DOMAIN line[r] : line[r][i] = line[r][j] => i = j
                       /\ \A t \in back(r) : \E i \in DOMAIN line[r] : line[r][i] = t
  <2> SUFFICES ASSUME NEW r \in Roles
               PROVE  /\ line[r] \in Seq(back(r))
                      /\ \A i, j \in DOMAIN line[r] : line[r][i] = line[r][j] => i = j
                      /\ \A t \in back(r) : \E i \in DOMAIN line[r] : line[r][i] = t
    OBVIOUS
  <2>1. line[r] \in SetToSeqs(back(r)) /\ back(r) \subseteq TaskId
    BY <1>2, <1>3
  <2> HIDE DEF back
  <2> QED BY <2>1, OrderingProperties
<1>5. \A o \in Owners : queues[o] \in Seq(TaskId) /\ DOMAIN queues[o] = 1 .. Len(queues[o])
                        /\ Len(queues[o]) \in Nat
  BY DEF QueueInv, TypeOK
<1>6. \A r \in Roles : r \in Owners /\ \A w \in gone : w \in Owners /\ w \notin Roles
  BY DEF Owners
<1>7. \A t \in taken : Assigned(t)
  BY DEF TakenBack
<1>8. \A t \in moved : Waiting(t) /\ \E w \in gone : \E i \in DOMAIN queues[w] : queues[w][i] = t
  BY DEF Orphaned, ToSet
<1>9. \A t \in taken : t \notin moved /\ \A o \in Owners : \A i \in DOMAIN queues[o] : queues[o][i] # t
  BY <1>3, <1>7, <1>8 DEF QueueInv, AssignedNotQueued, Assigned, Waiting
<1>10. \A t \in moved : \A o \in Owners : \A i \in DOMAIN queues[o] :
          queues[o][i] = t => o \in gone
  <2> SUFFICES ASSUME NEW t \in moved, NEW o \in Owners, NEW i \in DOMAIN queues[o],
                      queues[o][i] = t
               PROVE o \in gone
    OBVIOUS
  <2>1. PICK w \in gone : \E j \in DOMAIN queues[w] : queues[w][j] = t
    BY <1>8
  <2>2. PICK j \in DOMAIN queues[w] : queues[w][j] = t
    BY <2>1
  <2>3. w \in Owners /\ QueuedOnce
    BY <1>6, <2>1 DEF QueueInv, Owners
  <2>4. o = w
    BY <2>2, <2>3 DEF QueuedOnce
  <2> QED BY <2>4
<1> HIDE DEF taken, moved
\* Every new position is an old one, or one of the appended ids at its place.
<1>11. ASSUME NEW o \in Owners, NEW i \in DOMAIN queues'[o]
       PROVE  \/ o \notin gone /\ i \in DOMAIN queues[o] /\ queues'[o][i] = queues[o][i]
              \/ /\ o \in Roles /\ i \in Nat /\ i > Len(queues[o])
                 /\ i - Len(queues[o]) \in DOMAIN line[o]
                 /\ queues'[o][i] = line[o][i - Len(queues[o])]
                 /\ queues'[o][i] \in back(o)
  <2>1. CASE o \in Roles
    <3>1. queues'[o] = queues[o] \o line[o]
      BY <1>2, <2>1
    <3>2. line[o] \in Seq(back(o)) /\ queues[o] \in Seq(TaskId)
      BY <1>4, <1>5, <2>1
    <3> HIDE DEF back
    <3>3. /\ Len(line[o]) \in Nat /\ DOMAIN line[o] = 1 .. Len(line[o])
          /\ DOMAIN queues'[o] = 1 .. Len(queues[o]) + Len(line[o])
      BY <3>1, <3>2
    <3>4. CASE i <= Len(queues[o])
      <4>1. o \notin gone
        BY <1>6, <2>1
      <4> QED BY <3>1, <3>2, <3>3, <3>4, <4>1, <1>5
    <3>5. CASE i > Len(queues[o])
      <4> DEFINE m == Len(queues[o])
                 n == Len(line[o])
      <4>a. m \in Nat /\ n \in Nat /\ i \in 1 .. m + n /\ i > m
        BY <3>3, <3>5, <1>5
      <4>b. i - m \in 1 .. n
        <5> HIDE DEF m, n
        <5> QED BY <4>a
      <4>1. i - Len(queues[o]) \in DOMAIN line[o]
        BY <3>3, <4>b
      <4>2. queues'[o][i] = line[o][i - Len(queues[o])]
        BY <3>1, <3>2, <3>3, <3>5, <1>5
      <4>3. line[o][i - Len(queues[o])] \in back(o)
        BY <3>2, <4>1
      <4> QED BY <2>1, <3>3, <3>5, <4>1, <4>2, <4>3, <1>5
    <3> QED BY <3>3, <3>4, <3>5, <1>5
  <2>2. CASE o \notin Roles
    BY <1>2, <2>2
  <2> QED BY <2>1, <2>2
<1>12. ASSUME NEW r \in Roles, NEW t \in back(r)
       PROVE  \E i \in DOMAIN queues'[r] : queues'[r][i] = t
  <2>1. queues'[r] = queues[r] \o line[r]
    BY <1>2, <1>6
  <2>2. PICK j \in DOMAIN line[r] : line[r][j] = t
    BY <1>4
  <2>3. line[r] \in Seq(back(r)) /\ queues[r] \in Seq(TaskId)
    BY <1>4, <1>5, <1>6
  <2> HIDE DEF back
  <2>4. j + Len(queues[r]) \in DOMAIN queues'[r] /\ queues'[r][j + Len(queues[r])] = t
    BY <2>1, <2>2, <2>3
  <2> QED BY <2>4
<1>13. ASSUME NEW o \in Owners, o \notin gone, NEW i \in DOMAIN queues[o]
       PROVE  i \in DOMAIN queues'[o] /\ queues'[o][i] = queues[o][i]
  <2>1. CASE o \in Roles
    <3>1. queues'[o] = queues[o] \o line[o]
      BY <1>2, <2>1
    <3>2. line[o] \in Seq(back(o)) /\ queues[o] \in Seq(TaskId)
      BY <1>4, <1>5, <2>1
    <3> HIDE DEF back
    <3>3. line[o] \in Seq(TaskId)
      BY <1>3, <3>2, SeqMonotonic DEF back
    <3>4. /\ i \in DOMAIN (queues[o] \o line[o])
          /\ (queues[o] \o line[o])[i] = queues[o][i]
      <4>1. queues[o] \in Seq(TaskId) /\ i \in DOMAIN queues[o]
        BY <3>2
      <4> DEFINE q == queues[o]
                 l == line[o]
      <4>2. q \in Seq(TaskId) /\ l \in Seq(TaskId) /\ i \in DOMAIN q
        BY <3>3, <4>1
      <4> HIDE DEF q, l
      <4>3. i \in DOMAIN (q \o l) /\ (q \o l)[i] = q[i]
        BY <4>2, ConcatPrefix
      <4> QED BY <4>3 DEF q, l
    <3> QED BY <3>1, <3>4
  <2>2. CASE o \notin Roles
    BY <1>2, <1>13, <2>2
  <2> QED BY <2>1, <2>2
<1>14. \A t \in known : tasks[t] \in Task
  BY DEF QueueInv, TypeOK
<1>15. \A t \in known : t \notin taken => tasks'[t] = tasks[t]
  BY <1>1 DEF QueueInv, TypeOK
<1>16. \A t \in taken : tasks'[t].status = "PENDING"
  BY <1>1, <1>3 DEF Requeued, Task
<1>17. FreshIds'
  <2>1. \A t \in known : t <= issued
    BY DEF QueueInv, FreshIds
  <2>2. \A o \in Owners : \A i \in DOMAIN queues'[o] : queues'[o][i] <= issued
    BY <1>3, <1>11, <2>1 DEF QueueInv, FreshIds
  <2> QED BY <2>1, <2>2 DEF FreshIds
<1>18. StaysQueued
  <2> SUFFICES ASSUME NEW t \in known', Waiting(t)', Waiting(t) => Queued(t)
               PROVE \E o \in Owners : \E i \in DOMAIN queues'[o] : queues'[o][i] = t
    BY DEF StaysQueued, Queued
  <2>1. CASE t \in taken \cup moved
    <3>1. tasks[t].role \in Roles
      BY <2>1, <1>3 DEF Task
    <3>2. t \in back(tasks[t].role)
      BY <2>1
    <3> QED BY <3>1, <3>2, <1>6, <1>12
  <2>2. CASE t \notin taken \cup moved
    <3>1. Waiting(t)
      BY <2>2, <1>15 DEF Waiting
    <3>2. PICK o \in Owners : \E i \in DOMAIN queues[o] : queues[o][i] = t
      BY <3>1 DEF Queued
    <3>3. o \notin gone
      BY <2>2, <3>1, <3>2 DEF moved, Orphaned, ToSet, Waiting
    <3> QED BY <3>2, <3>3, <1>13
  <2> QED BY <2>1, <2>2
<1>19. QueuedOnce'
  <2> SUFFICES ASSUME NEW o \in Owners, NEW p \in Owners, NEW i \in DOMAIN queues'[o],
                      NEW j \in DOMAIN queues'[p], queues'[o][i] = queues'[p][j]
               PROVE o = p /\ i = j
    BY DEF QueuedOnce
  <2> DEFINE Old(q, k) == q \notin gone /\ k \in DOMAIN queues[q]
                          /\ queues'[q][k] = queues[q][k]
             Added(q, k) == /\ q \in Roles /\ k \in Nat /\ k > Len(queues[q])
                            /\ k - Len(queues[q]) \in DOMAIN line[q]
                            /\ queues'[q][k] = line[q][k - Len(queues[q])]
                            /\ queues'[q][k] \in back(q)
  <2>1. (Old(o, i) \/ Added(o, i)) /\ (Old(p, j) \/ Added(p, j))
    BY <1>11
  <2>2. CASE Old(o, i) /\ Old(p, j)
    <3>1. queues[o][i] = queues[p][j] /\ i \in DOMAIN queues[o] /\ j \in DOMAIN queues[p]
      BY <2>2
    <3>2. QueuedOnce
      BY DEF QueueInv
    <3> QED BY <3>1, <3>2 DEF QueuedOnce
  <2>3. \A q1, q2 \in Owners : \A k1 \in DOMAIN queues'[q1], k2 \in DOMAIN queues'[q2] :
           Old(q1, k1) /\ Added(q2, k2) => queues'[q1][k1] # queues'[q2][k2]
    BY <1>9, <1>10
  <2>4. CASE Added(o, i) /\ Added(p, j)
    <3>1. o = p
      BY <2>4
    <3>2. /\ i - Len(queues[o]) \in DOMAIN line[o] /\ j - Len(queues[o]) \in DOMAIN line[o]
          /\ line[o][i - Len(queues[o])] = line[o][j - Len(queues[o])]
          /\ o \in Roles /\ i \in Nat /\ j \in Nat
      BY <2>4, <3>1
    <3> HIDE DEF back
    <3>3. i - Len(queues[o]) = j - Len(queues[o])
      BY <3>2, <1>4
    <3>4. Len(queues[o]) \in Nat
      BY <1>5
    <3> QED BY <3>1, <3>2, <3>3, <3>4
  <2> QED BY <2>1, <2>2, <2>3, <2>4
<1>20. AssignedNotQueued'
  <2> SUFFICES ASSUME NEW t \in known', Assigned(t)', NEW o \in Owners,
                      NEW i \in DOMAIN queues'[o], queues'[o][i] = t
               PROVE FALSE
    BY DEF AssignedNotQueued
  <2>1. t \notin taken
    BY <1>16 DEF Assigned
  <2>2. Assigned(t)
    BY <2>1, <1>15 DEF Assigned
  <2>3. t \notin moved
    BY <2>2, <1>8 DEF Assigned, Waiting
  <2> QED BY <2>1, <2>2, <2>3, <1>11 DEF QueueInv, AssignedNotQueued, Assigned
<1> QED BY <1>17, <1>18, <1>19, <1>20 DEF QueueInv

\* A poll takes ids from the front of two queues and assigns the pending ones
\* among them: the others keep their places relative to each other.
LEMMA QueueTakeOut ==
    ASSUME QueueInv, TypeOK', NEW w \in Workers, NEW r \in Roles,
           NEW n \in 0 .. Len(queues[w] \o queues[r]), TakeOut(w, r, n)
    PROVE  QueueInv' /\ StaysQueued
<1> DEFINE own == queues[w]
           shared == queues[r]
           line == own \o shared
           taken == Ahead(line, n)
<1>1. own \in Seq(TaskId) /\ shared \in Seq(TaskId) /\ w \in Owners /\ r \in Owners /\ w # r
  BY DEF QueueInv, TypeOK, Owners
<1>2. /\ queues' = [queues EXCEPT
                ![w] = After(own, n),
                ![r] = IF n > Len(own) THEN After(@, n - Len(own)) ELSE @]
      /\ tasks' = [t \in TaskId |->
                IF t \in taken
                THEN [tasks[t] EXCEPT !.status = "ASSIGNED", !.worker = w]
                ELSE tasks[t]]
  BY DEF TakeOut
<1>3. known' = known /\ issued' = issued
  BY DEF TakeOut
<1>0. n \in 0 .. Len(line)
  OBVIOUS
<1> DEFINE m == Len(own)
           shift(o) == IF o = w THEN n ELSE IF o = r /\ n > m THEN n - m ELSE 0
<1>4. m \in Nat /\ n \in Nat /\ n \in 0 .. Len(line)
  <2> HIDE DEF own, shared
  <2>2. own \o shared \in Seq(TaskId) /\ m \in Nat
    BY <1>1
  <2>3. Len(line) \in Nat /\ DOMAIN line = 1 .. Len(line)
    BY <2>2
  <2> HIDE DEF line
  <2> QED BY <1>0, <2>2, <2>3
\* The ids in front of line position n, by the queue they are in.
<1>5. /\ \A i \in DOMAIN own : i \in DOMAIN line /\ line[i] = own[i]
      /\ \A i \in DOMAIN shared : m + i \in DOMAIN line /\ line[m + i] = shared[i]
      /\ \A i \in DOMAIN line : \/ i \in DOMAIN own /\ line[i] = own[i]
                                \/ /\ i > m /\ i - m \in DOMAIN shared
                                   /\ line[i] = shared[i - m]
  <2> HIDE DEF own, shared
  <2> QED BY <1>1
<1> HIDE DEF own, shared, line
<1>6. \A o \in Owners : /\ shift(o) \in Nat
                        /\ queues[o] \in Seq(TaskId)
                        /\ queues'[o] = After(queues[o], shift(o)) \/ queues'[o] = queues[o]
                        /\ queues'[o] = queues[o] /\ shift(o) # 0
                             => queues'[o] = After(queues[o], shift(o))
  <2>1. queues \in [Owners -> Seq(TaskId)]
    BY DEF QueueInv, TypeOK
  <2>2. queues'[w] = After(queues[w], n)
    BY <1>1, <1>2, <2>1 DEF own
  <2>3. queues'[r] = IF n > m THEN After(queues[r], n - m) ELSE queues[r]
    BY <1>1, <1>2, <2>1
  <2>4. \A o \in Owners \ {w, r} : queues'[o] = queues[o]
    BY <1>2, <2>1
  <2> HIDE DEF m
  <2> QED BY <1>1, <1>4, <2>1, <2>2, <2>3, <2>4
<1>7. \A o \in Owners : \A i \in DOMAIN queues'[o] :
         /\ i \in Nat \ {0} /\ i + shift(o) \in DOMAIN queues[o]
         /\ queues'[o][i] = queues[o][i + shift(o)]
  <2> SUFFICES ASSUME NEW o \in Owners
               PROVE \A i \in DOMAIN queues'[o] :
                       /\ i \in Nat \ {0} /\ i + shift(o) \in DOMAIN queues[o]
                       /\ queues'[o][i] = queues[o][i + shift(o)]
    OBVIOUS
  <2> DEFINE q == queues[o]
             k == shift(o)
  <2>1. /\ q \in Seq(TaskId) /\ k \in Nat
        /\ queues'[o] = After(q, k) \/ (queues'[o] = q /\ k = 0)
    BY <1>6
  <2> HIDE DEF q, k
  <2>2. CASE queues'[o] = After(q, k)
    <3>1. \A i \in DOMAIN After(q, k) :
             i \in Nat \ {0} /\ i + k \in DOMAIN q /\ After(q, k)[i] = q[i + k]
      BY <2>1, AfterProperties
    <3> QED BY <2>2, <3>1 DEF q, k
  <2>3. CASE queues'[o] = q /\ k = 0
    <3>1. \A i \in DOMAIN q : i \in Nat \ {0} /\ i + k = i
      BY <2>1, <2>3
    <3> QED BY <2>3, <3>1 DEF q, k
  <2> QED BY <2>1, <2>2, <2>3
<1>8. \A o \in Owners : \A j \in DOMAIN queues[o] : j > shift(o) =>
         /\ j - shift(o) \in DOMAIN queues'[o]
         /\ queues'[o][j - shift(o)] = queues[o][j]
  <2> SUFFICES ASSUME NEW o \in Owners
               PROVE \A j \in DOMAIN queues[o] : j > shift(o) =>
                       /\ j - shift(o) \in DOMAIN queues'[o]
                       /\ queues'[o][j - shift(o)] = queues[o][j]
    OBVIOUS
  <2> DEFINE q == queues[o]
             k == shift(o)
  <2>1. /\ q \in Seq(TaskId) /\ k \in Nat
        /\ queues'[o] = After(q, k) \/ (queues'[o] = q /\ k = 0)
    BY <1>6
  <2> HIDE DEF q, k
  <2>2. CASE queues'[o] = After(q, k)
    <3>1. \A j \in DOMAIN q : j > k =>
             j - k \in DOMAIN After(q, k) /\ After(q, k)[j - k] = q[j]
      BY <2>1, AfterProperties
    <3> QED BY <2>2, <3>1 DEF q, k
  <2>3. CASE queues'[o] = q /\ k = 0
    <3>1. \A j \in DOMAIN q : j - k = j
      BY <2>1, <2>3
    <3> QED BY <2>3, <3>1 DEF q, k
  <2> QED BY <2>1, <2>2, <2>3
<1>9. \A o \in Owners : \A j \in DOMAIN queues[o] :
         j <= shift(o) /\ Waiting(queues[o][j]) => queues[o][j] \in taken
  <2> SUFFICES ASSUME NEW o \in Owners, NEW j \in DOMAIN queues[o],
                      j <= shift(o), Waiting(queues[o][j])
               PROVE queues[o][j] \in taken
    OBVIOUS
  <2>1. queues[o][j] \in TaskId /\ j \in Nat \ {0}
    BY <1>6
  <2>2. CASE o = w
    <3>1. j \in 1 .. n /\ line[j] = queues[o][j]
      BY <1>4, <1>5, <2>1, <2>2 DEF own
    <3> QED BY <2>1, <3>1 DEF Ahead
  <2>3. CASE o = r /\ n > m
    <3>1. line[m + j] = queues[o][j]
      BY <1>5, <2>3 DEF shared
    <3>2. j <= n - m
      BY <1>1, <2>3
    <3> HIDE DEF m
    <3>3. m + j \in 1 .. n
      BY <1>4, <2>1, <3>2
    <3> QED BY <2>1, <3>1, <3>3 DEF Ahead
  <2> QED BY <1>4, <2>1, <2>2, <2>3
<1>10. \A t \in taken : \E o \in Owners : \E j \in DOMAIN queues[o] :
          queues[o][j] = t /\ j <= shift(o)
  <2> SUFFICES ASSUME NEW t \in taken
               PROVE \E o \in Owners : \E j \in DOMAIN queues[o] :
                       queues[o][j] = t /\ j <= shift(o)
    OBVIOUS
  <2>1. PICK i \in 1 .. n : line[i] = t
    BY DEF Ahead
  <2>2. i \in DOMAIN line
    BY <1>1, <1>4 DEF line
  <2>3. CASE i \in DOMAIN own /\ line[i] = own[i]
    <3>1. queues[w][i] = t /\ i \in DOMAIN queues[w] /\ i <= shift(w)
      BY <1>4, <2>1, <2>3 DEF own
    <3> QED BY <1>1, <3>1
  <2>4. CASE i > m /\ i - m \in DOMAIN shared /\ line[i] = shared[i - m]
    <3>1. n > m /\ i - m <= n - m
      <4> HIDE DEF m
      <4> QED BY <1>4, <2>4
    <3>2. queues[r][i - m] = t /\ i - m \in DOMAIN queues[r]
      BY <2>1, <2>4 DEF shared
    <3>3. shift(r) = n - m
      BY <1>1, <3>1
    <3> QED BY <1>1, <3>1, <3>2, <3>3
  <2> QED BY <1>5, <2>2, <2>3, <2>4
<1>11. \A t \in taken : t \in known /\ tasks'[t].status = "ASSIGNED"
  <2>1. \A t \in taken : t \in TaskId /\ t \in known /\ tasks[t] \in Task
    BY DEF Ahead, Waiting, QueueInv, TypeOK
  <2> QED BY <1>2, <2>1 DEF Task
<1>12. \A t \in known : t \notin taken => tasks'[t] = tasks[t]
  BY <1>2 DEF QueueInv, TypeOK
<1>13. FreshIds'
  BY <1>3, <1>7 DEF QueueInv, FreshIds
<1> HIDE DEF taken, shift, m
<1>14. StaysQueued
  <2> SUFFICES ASSUME NEW t \in known', Waiting(t)', Waiting(t) => Queued(t)
               PROVE \E o \in Owners : \E i \in DOMAIN queues'[o] : queues'[o][i] = t
    BY DEF StaysQueued, Queued
  <2>1. t \in known /\ t \notin taken
    BY <1>3, <1>11 DEF Waiting
  <2>2. Waiting(t)
    BY <2>1, <1>12 DEF Waiting
  <2>3. PICK o \in Owners : \E j \in DOMAIN queues[o] : queues[o][j] = t
    BY <2>1, <2>2 DEF Queued
  <2>4. PICK j \in DOMAIN queues[o] : queues[o][j] = t
    BY <2>3
  <2>5. j \in Nat /\ shift(o) \in Nat
    BY <1>6
  <2>6. j > shift(o)
    BY <1>9, <2>1, <2>2, <2>4, <2>5
  <2> QED BY <1>8, <2>4, <2>6
<1>15. QueuedOnce'
  <2> SUFFICES ASSUME NEW o \in Owners, NEW p \in Owners, NEW i \in DOMAIN queues'[o],
                      NEW j \in DOMAIN queues'[p], queues'[o][i] = queues'[p][j]
               PROVE o = p /\ i = j
    BY DEF QueuedOnce
  <2>1. o = p /\ i + shift(o) = j + shift(p)
    BY <1>7 DEF QueueInv, QueuedOnce
  <2>2. i \in Nat /\ j \in Nat /\ shift(o) \in Nat
    BY <1>6, <1>7
  <2> QED BY <2>1, <2>2
<1>16. AssignedNotQueued'
  <2> SUFFICES ASSUME NEW t \in known', Assigned(t)', NEW p \in Owners,
                      NEW i \in DOMAIN queues'[p], queues'[p][i] = t
               PROVE FALSE
    BY DEF AssignedNotQueued
  <2>1. /\ i \in Nat \ {0} /\ shift(p) \in Nat
        /\ i + shift(p) \in DOMAIN queues[p] /\ queues[p][i + shift(p)] = t
    BY <1>6, <1>7
  <2>2. CASE t \in taken
    <3>1. PICK o \in Owners : \E j \in DOMAIN queues[o] : queues[o][j] = t /\ j <= shift(o)
      BY <1>10, <2>2
    <3>2. PICK j \in DOMAIN queues[o] : queues[o][j] = t /\ j <= shift(o)
      BY <3>1
    <3>3. o = p /\ j = i + shift(p)
      BY <2>1, <3>2 DEF QueueInv, QueuedOnce
    <3> QED BY <2>1, <3>2, <3>3
  <2>3. CASE t \notin taken
    <3>1. Assigned(t)
      BY <2>3, <1>3, <1>12 DEF Assigned
    <3> QED BY <2>1, <3>1 DEF QueueInv, AssignedNotQueued, Assigned
  <2> QED BY <2>2, <2>3
<1> QED BY <1>13, <1>14, <1>15, <1>16 DEF QueueInv

\* Ids that change places in their queue, or leave it, are not doubled.
LEMMA QueueRearranged ==
    ASSUME QueueInv, TypeOK', UNCHANGED <<tasks, known, issued>>, NEW from,
           \A o \in Owners : \A i \in DOMAIN queues'[o] :
              /\ from[o][i] \in DOMAIN queues[o]
              /\ queues'[o][i] = queues[o][from[o][i]]
              /\ \A j \in DOMAIN queues'[o] : from[o][i] = from[o][j] => i = j
    PROVE  QueueInv'
<1>1. FreshIds'
  BY DEF QueueInv, FreshIds
<1>2. QueuedOnce'
  BY DEF QueueInv, QueuedOnce
<1>3. AssignedNotQueued'
  BY DEF QueueInv, AssignedNotQueued, Assigned
<1> QED BY <1>1, <1>2, <1>3 DEF QueueInv

\* A poll that waited loses an id only if it does not put it back.
LEMMA QueueWaited ==
    ASSUME QueueInv, TypeOK', NEW w, NEW r, NEW o \in Owners, Waited(w, r, o)
    PROVE  QueueInv' /\ (PutBack(w, r, o) => StaysQueued)
<1> DEFINE q == queues[o]
           n == Len(q)
           from == [p \in Owners |-> [i \in DOMAIN queues'[p] |->
                      IF p # o THEN i ELSE IF i = n THEN 1 ELSE i + 1]]
<1>1. /\ q \in Seq(TaskId) /\ q # <<>>
      /\ queues' = [queues EXCEPT ![o] = Append(Tail(@), Head(@))]
         \/ queues' = [queues EXCEPT ![o] = Tail(@)]
      /\ UNCHANGED <<tasks, known, issued>>
      /\ queues \in [Owners -> Seq(TaskId)]
  BY WaitedFor, Zenon DEF QueueInv, TypeOK
<1>2. /\ queues'[o] = Append(Tail(q), Head(q)) \/ queues'[o] = Tail(q)
      /\ PutBack(w, r, o) => queues'[o] = Append(Tail(q), Head(q))
      /\ \A p \in Owners : p # o => queues'[p] = queues[p]
  <2>1. PutBack(w, r, o) => queues' = [queues EXCEPT ![o] = Append(Tail(@), Head(@))]
    BY Zenon DEF PutBack
  <2> QED BY <1>1, <2>1
<1> HIDE DEF q
<1>3. /\ n \in Nat \ {0} /\ DOMAIN q = 1 .. n
      /\ DOMAIN Tail(q) = 1 .. n - 1
      /\ \A i \in DOMAIN Tail(q) : i + 1 \in DOMAIN q /\ Tail(q)[i] = q[i + 1]
      /\ DOMAIN Append(Tail(q), Head(q)) = 1 .. n
      /\ \A i \in 1 .. n - 1 : Append(Tail(q), Head(q))[i] = q[i + 1]
      /\ Append(Tail(q), Head(q))[n] = q[1]
  BY <1>1, HeadProperties
<1> HIDE DEF n
<1>4. /\ DOMAIN queues'[o] \subseteq 1 .. n
      /\ \A i \in DOMAIN queues'[o] :
            queues'[o][i] = q[IF i = n THEN 1 ELSE i + 1]
  <2>1. CASE queues'[o] = Append(Tail(q), Head(q))
    <3>1. \A i \in 1 .. n : i = n \/ i \in 1 .. n - 1
      BY <1>3
    <3> QED BY <1>3, <2>1, <3>1
  <2>2. CASE queues'[o] = Tail(q)
    <3>1. \A i \in 1 .. n - 1 : i # n /\ i \in 1 .. n
      BY <1>3
    <3> QED BY <1>3, <2>2, <3>1
  <2> QED BY <1>2, <2>1, <2>2
<1>5. \A i, j \in 1 .. n :
         LET f(k) == IF k = n THEN 1 ELSE k + 1
         IN  f(i) \in 1 .. n /\ (f(i) = f(j) => i = j)
  BY <1>3
<1>6. \A p \in Owners : \A i \in DOMAIN queues'[p] :
         from[p][i] = IF p # o THEN i ELSE IF i = n THEN 1 ELSE i + 1
  OBVIOUS
<1> HIDE DEF from
<1>7. ASSUME NEW p \in Owners, NEW i \in DOMAIN queues'[p]
      PROVE  /\ from[p][i] \in DOMAIN queues[p]
             /\ queues'[p][i] = queues[p][from[p][i]]
             /\ \A j \in DOMAIN queues'[p] : from[p][i] = from[p][j] => i = j
  <2>1. CASE p # o
    BY <1>2, <1>6, <2>1
  <2>2. CASE p = o
    BY <1>3, <1>4, <1>5, <1>6, <2>2 DEF q
  <2> QED BY <2>1, <2>2
<1>8. QueueInv'
  BY <1>1, <1>7, QueueRearranged
<1>9. ASSUME PutBack(w, r, o) PROVE StaysQueued
  <2>1. queues'[o] = Append(Tail(q), Head(q))
    BY <1>2, <1>9
  <2>2. ASSUME NEW p \in Owners, NEW j \in DOMAIN queues[p]
        PROVE  \E i \in DOMAIN queues'[p] : queues'[p][i] = queues[p][j]
    <3>1. CASE p # o
      BY <1>2, <3>1
    <3>2. CASE p = o
      <4>1. j = 1 \/ (j - 1 \in 1 .. n - 1 /\ (j - 1) + 1 = j)
        BY <1>3, <3>2 DEF q
      <4>2. CASE j = 1
        <5>1. n \in 1 .. n
          BY <1>3
        <5> QED BY <1>3, <2>1, <3>2, <4>2, <5>1 DEF q
      <4>3. CASE j - 1 \in 1 .. n - 1 /\ (j - 1) + 1 = j
        <5>1. j - 1 \in 1 .. n
          BY <1>3, <4>3
        <5>2. Append(Tail(q), Head(q))[j - 1] = q[j]
          BY <1>3, <4>3
        <5> QED BY <1>3, <2>1, <3>2, <5>1, <5>2 DEF q
      <4> QED BY <4>1, <4>2, <4>3
    <3> QED BY <3>1, <3>2
  <2>3. \A t : Queued(t) => Queued(t)'
    BY <2>2 DEF Queued
  <2> QED BY <1>1, <2>3 DEF StaysQueued, Waiting
<1> QED BY <1>8, <1>9

\* Every step of the relay keeps the queues and the task table in agreement, and
\* loses no id, but for a cancelled poll.
LEMMA OrderlyStep == QueueInv /\ (Orderly \/ UNCHANGED vars) => QueueInv' /\ StaysQueued
<1> SUFFICES ASSUME QueueInv, Orderly \/ UNCHANGED vars PROVE QueueInv' /\ StaysQueued
  OBVIOUS
<1>1. TypeOK /\ TypeOK'
  BY TypeStep DEF QueueInv, Next
<1>2. ASSUME NEW w \in Workers, NEW r \in Roles, NEW claims \in SUBSET Sessions,
             Register(w, r, claims)
      PROVE  QueueInv' /\ StaysQueued
  BY <1>1, <1>2, QueueSame DEF Register
<1>3. ASSUME NEW w \in Workers, Deregister(w) PROVE QueueInv' /\ StaysQueued
  <2>1. CASE nodes[w] = NoRole
    BY <1>1, <1>3, <2>1, QueueSame DEF Deregister, relayVars
  <2>2. CASE nodes[w] # NoRole
    <3>1. Release({w}, {}, {}) /\ issued' = issued /\ known' = known
      BY <1>3, <2>2 DEF Deregister
    <3>2. {w} \in SUBSET Workers
      OBVIOUS
    <3> QED BY <1>1, <3>1, <3>2, QueueRelease
  <2> QED BY <2>1, <2>2
<1>4. ASSUME NEW w \in Workers, Heartbeat(w) PROVE QueueInv' /\ StaysQueued
  BY <1>1, <1>4, QueueSame DEF Heartbeat
<1>5. ASSUME NEW w \in Workers, NEW r \in Roles, NEW max \in BatchSizes, Poll(w, r, max)
      PROVE  QueueInv' /\ StaysQueued
  BY <1>1, <1>5, PollTakesOut, QueueTakeOut
<1>6. ASSUME NEW w \in Workers, NEW t \in TaskId, Forward(w, t) PROVE QueueInv' /\ StaysQueued
  <2> DEFINE left == [tasks EXCEPT ![t].status = "FORWARDED",
                                   ![t].done = t # tasks[t].root]
             next == NextStep(t, w)
  <2>1. tasks[t] \in Task /\ tasks[t].route # <<>>
    BY <1>1, <1>6 DEF Forward, ResultAccepted, TypeOK
  <2>2. issued + 1 \in TaskId
    BY <1>1, <1>6 DEF Forward, TypeOK, TaskId
  <2>3. next \in Task /\ next.status = "PENDING"
    <3>1. Head(tasks[t].route) \in Roles /\ Tail(tasks[t].route) \in Seq(Roles)
      BY <2>1 DEF Task
    <3>2. Answer(t, w) \in Seq(Workers)
      BY <2>1 DEF Answer, Task
    <3> QED BY <2>1, <3>1, <3>2 DEF NextStep, NewTask, Task, Unfinished
  <2>4. /\ left \in [TaskId -> Task \cup {NoTask}]
        /\ \A u \in known : left[u].status \in {tasks[u].status} \cup FINISHED
    <3>1. left[t] \in Task /\ left[t].status = "FORWARDED"
      BY <1>1, <2>1 DEF Task, FINISHED, TypeOK
    <3>2. \A u \in TaskId \ {t} : left[u] = tasks[u]
      BY <1>1 DEF TypeOK
    <3>3. left \in [TaskId -> Task \cup {NoTask}]
      BY <1>1, <3>1 DEF TypeOK
    <3> HIDE DEF left
    <3> QED BY <1>1, <3>1, <3>2, <3>3 DEF TypeOK, FINISHED
  <2>5. Enqueue(left, issued + 1, next)
    BY <1>6 DEF Forward
  <2> HIDE DEF left, next
  <2> QED BY <1>1, <2>2, <2>3, <2>4, <2>5, QueueEnqueue
<1>7. ASSUME NEW w \in Workers, NEW t \in TaskId, Complete(w, t) PROVE QueueInv' /\ StaysQueued
  <2>1. \A u \in known : u \in TaskId /\ tasks[u] # NoTask
    BY <1>1 DEF TypeOK
  <2>2. \A u \in known : tasks'[u].status \in {tasks[u].status} \cup FINISHED
    BY <1>1, <1>7, <2>1, FinishedStatus DEF Complete, FINISHED, TypeOK
  <2> QED BY <1>1, <1>7, <2>2, QueueSame DEF Complete
<1>8. ASSUME NEW w \in Workers, NEW t \in TaskId, ResultRefused(w, t) PROVE QueueInv' /\ StaysQueued
  BY <1>1, <1>8, QueueSame DEF ResultRefused
<1>9. ASSUME NEW w \in Workers, NEW t \in TaskId, FailArrive(w, t) PROVE QueueInv' /\ StaysQueued
  BY <1>1, <1>9, QueueSame DEF FailArrive
<1>10. ASSUME NEW w \in Workers, NEW t \in TaskId, FailFinish(w, t) PROVE QueueInv' /\ StaysQueued
  <2>1. \A u \in known : u \in TaskId /\ tasks[u] # NoTask
    BY <1>1 DEF TypeOK
  <2>2. \A u \in known : tasks'[u].status \in {tasks[u].status} \cup FINISHED
    BY <1>1, <1>10, <2>1, FinishedStatus DEF FailFinish, FINISHED, TypeOK
  <2> QED BY <1>1, <1>10, <2>2, QueueSame DEF FailFinish
<1>11. ASSUME NEW q \in Requests, Submit(q) PROVE QueueInv' /\ StaysQueued
  <2> DEFINE new == NewTask(Head(q.path), Tail(q.path), issued + 1, q.session, <<>>)
  <2>1. issued + 1 \in TaskId
    BY <1>1, <1>11 DEF Submit, TypeOK, TaskId
  <2>2. q.path \in Seq(Roles) /\ q.path # <<>> /\ q.session \in Sessions \cup {NoSession}
    OBVIOUS
  <2>3. new \in Task /\ new.status = "PENDING"
    <3>1. Head(q.path) \in Roles /\ Tail(q.path) \in Seq(Roles)
      BY <2>2
    <3> QED BY <2>1, <2>2, <3>1 DEF NewTask, Task, Unfinished
  <2>4. Enqueue(tasks, issued + 1, new)
    BY <1>11 DEF Submit
  <2> HIDE DEF new
  <2> QED BY <1>1, <2>1, <2>3, <2>4, QueueEnqueue DEF TypeOK
<1>12. ASSUME NEW overdue, NEW old, NEW idle, Sweep(overdue, old, idle) PROVE QueueInv' /\ StaysQueued
  <2>1. /\ Release(silent, overdue, idle) /\ issued' = issued
        /\ known' \subseteq known /\ silent \in SUBSET Workers
    BY <1>1, <1>12 DEF Sweep, TypeOK
  <2> QED BY <1>1, <2>1, QueueRelease
<1>13. ASSUME NEW w \in Workers, Silence(w) PROVE QueueInv' /\ StaysQueued
  BY <1>1, <1>13, QueueSame DEF Silence
<1>14. ASSUME NEW w \in Workers, NEW t \in TaskId, Abandon(w, t) PROVE QueueInv' /\ StaysQueued
  BY <1>1, <1>14, QueueSame DEF Abandon
<1>15. ASSUME Restart PROVE QueueInv' /\ StaysQueued
  <2>1. \A o \in Owners : queues'[o] = <<>> /\ DOMAIN queues'[o] = {}
    BY <1>15 DEF Restart
  <2>2. known' = {}
    BY <1>15 DEF Restart
  <2> QED BY <1>1, <2>1, <2>2
          DEF QueueInv, FreshIds, QueuedOnce, AssignedNotQueued, StaysQueued
<1>16. ASSUME UNCHANGED vars PROVE QueueInv' /\ StaysQueued
  BY <1>1, <1>16, QueueSame DEF vars
<1>17. ASSUME NEW w \in Workers, NEW r \in Roles, NEW o \in Owners, PutBack(w, r, o)
       PROVE  QueueInv' /\ StaysQueued
  BY <1>1, <1>17, QueueWaited DEF Waited
<1> QED
  BY <1>2, <1>3, <1>4, <1>5, <1>6, <1>7, <1>8, <1>9, <1>10, <1>11, <1>12, <1>13,
     <1>14, <1>15, <1>16, <1>17
  DEF Orderly, WorkerStep, PostResult, Janitor, Environment

LEMMA QueueStep == QueueInv /\ [Next]_vars => QueueInv' /\ (StaysQueued \/ LostPoll)
<1> SUFFICES ASSUME QueueInv, [Next]_vars PROVE QueueInv' /\ (StaysQueued \/ LostPoll)
  OBVIOUS
<1>1. TypeOK /\ TypeOK'
  BY TypeStep DEF QueueInv
<1>2. ASSUME LostPoll PROVE QueueInv'
  BY <1>1, <1>2, QueueWaited DEF LostPoll, Waited
<1> QED BY <1>2, OrderlyStep DEF Next

\* New, requeued and moved tasks are queued, and pending ones stay so until a
\* poll takes them, in every step but that of a poll that is cancelled with an
\* id in its hands (relay.py _enqueue, _requeue, _forget_worker, poll_task).
THEOREM QueuesCorrect == Spec => PendingStaysQueued
<1>1. QueueInv /\ [Next]_vars => [StaysQueued \/ LostPoll]_vars
  BY QueueStep
<1>2. QueueInv /\ [Next]_vars => QueueInv'
  BY QueueStep
<1> QED BY <1>1, <1>2, QueueInit, PTL DEF Spec, PendingStaysQueued

\* No task is delivered twice: its id is at one place of one queue at most
\* (relay.py _enqueue, _take).
THEOREM QueuesHoldATaskOnce == Spec => []QueuedOnce
<1>1. QueueInv => QueuedOnce
  BY DEF QueueInv
<1>2. QueueInv /\ [Next]_vars => QueueInv'
  BY QueueStep
<1> QED BY <1>1, <1>2, QueueInit, PTL DEF Spec

\* A task a worker computes is in no queue, so no other worker gets it until it
\* is released (relay.py _take, _requeue).
THEOREM QueuesHoldNoTaskInHand == Spec => []AssignedNotQueued
<1>1. QueueInv => AssignedNotQueued
  BY DEF QueueInv
<1>2. QueueInv /\ [Next]_vars => QueueInv'
  BY QueueStep
<1> QED BY <1>1, <1>2, QueueInit, PTL DEF Spec

-----------------------------------------------------------------------------
(* A worker that left has no queue of its own *)

\* A task joins a worker's own queue only while the worker is registered.
LEMMA StrandedEnqueue ==
    ASSUME TypeOK, NoTaskStranded, NEW ts, NEW id, NEW task \in Task,
           Enqueue(ts, id, task), nodes' = nodes
    PROVE  NoTaskStranded'
<1> DEFINE v == BoundWorker(task.role, task.session)
           owner == IF v = NoWorker THEN task.role ELSE v
<1>1. task.role \in Roles /\ task.session \in Sessions \cup {NoSession}
  BY DEF Task
<1>2. v \in Workers => nodes[v] # NoRole
  BY <1>1 DEF BoundWorker, TypeOK
<1>3. owner \in Roles \/ (owner \in Workers /\ owner = v)
  BY <1>1 DEF BoundWorker, TypeOK
<1>4. queues' = [queues EXCEPT ![owner] = Append(@, id)]
  BY DEF Enqueue
<1> HIDE DEF v, owner
<1>5. ASSUME NEW w \in Workers, nodes[w] = NoRole PROVE queues'[w] = queues[w]
  BY <1>2, <1>3, <1>4, <1>5 DEF TypeOK, Owners
<1> QED BY <1>5 DEF NoTaskStranded

\* A worker that is dropped leaves an empty queue.
LEMMA StrandedRelease ==
    ASSUME NoTaskStranded, NEW gone, NEW overdue, NEW idle,
           Release(gone, overdue, idle),
           \A w \in Workers \ gone : nodes'[w] = nodes[w]
    PROVE  NoTaskStranded'
<1>1. \A w \in Workers : /\ w \in gone => queues'[w] = <<>>
                         /\ w \notin gone => queues'[w] = queues[w]
  BY DEF Release, Owners
<1> QED BY <1>1 DEF NoTaskStranded

LEMMA StrandedStep == TypeOK /\ NoTaskStranded /\ [Next]_vars => NoTaskStranded'
<1> SUFFICES ASSUME TypeOK, NoTaskStranded, [Next]_vars PROVE NoTaskStranded'
  OBVIOUS
<1>1. ASSUME NEW w \in Workers, NEW r \in Roles, NEW claims \in SUBSET Sessions,
             Register(w, r, claims)
      PROVE  NoTaskStranded'
  BY <1>1 DEF Register, NoTaskStranded, TypeOK
<1>2. ASSUME NEW w \in Workers, Deregister(w) PROVE NoTaskStranded'
  <2>1. CASE nodes[w] = NoRole
    BY <1>2, <2>1 DEF Deregister, relayVars, NoTaskStranded
  <2>2. CASE nodes[w] # NoRole
    BY <1>2, <2>2, StrandedRelease DEF Deregister, TypeOK
  <2> QED BY <2>1, <2>2
<1>3. ASSUME NEW w \in Workers, NEW r \in Roles, NEW max \in BatchSizes, Poll(w, r, max)
      PROVE  NoTaskStranded'
  <2> SUFFICES ASSUME NEW v \in Workers, nodes'[v] = NoRole PROVE queues'[v] = <<>>
    BY DEF NoTaskStranded
  <2>1. queues[v] = <<>> /\ v # r /\ v \in Owners
    BY <1>3 DEF Poll, NoTaskStranded, Owners
  <2>2. \A n : After(<<>>, n) = <<>> \/ n < Len(<<>>)
    BY DEF After
  <2>3. DOMAIN (queues[w] \o queues[r]) \subseteq Nat
    BY DEF TypeOK, Owners
  <2>4. PICK n \in DOMAIN (queues[w] \o queues[r]) :
          queues' = [queues EXCEPT
              ![w] = After(queues[w], n),
              ![r] = IF n > Len(queues[w]) THEN After(@, n - Len(queues[w])) ELSE @]
    BY <1>3 DEF Poll
  <2>5. ~(n < Len(<<>>))
    BY <2>3
  <2> QED BY <2>1, <2>2, <2>4, <2>5 DEF TypeOK, Owners
<1>4. ASSUME NEW w \in Workers, NEW t \in TaskId, Forward(w, t) PROVE NoTaskStranded'
  <2> DEFINE next == NextStep(t, w)
  <2>1. tasks[t] \in Task /\ tasks[t].route # <<>>
    BY <1>4 DEF Forward, ResultAccepted, TypeOK
  <2>2. next \in Task
    <3>1. Head(tasks[t].route) \in Roles /\ Tail(tasks[t].route) \in Seq(Roles)
      BY <2>1 DEF Task
    <3>2. Answer(t, w) \in Seq(Workers)
      BY <2>1 DEF Answer, Task
    <3> QED BY <2>1, <3>1, <3>2 DEF NextStep, NewTask, Task, Unfinished
  <2>3. Enqueue([tasks EXCEPT ![t].status = "FORWARDED", ![t].done = t # tasks[t].root],
                issued + 1, next) /\ nodes' = nodes
    BY <1>4 DEF Forward
  <2> HIDE DEF next
  <2> QED BY <2>2, <2>3, StrandedEnqueue
<1>5. ASSUME NEW q \in Requests, Submit(q) PROVE NoTaskStranded'
  <2> DEFINE new == NewTask(Head(q.path), Tail(q.path), issued + 1, q.session, <<>>)
  <2>1. q.path \in Seq(Roles) /\ q.path # <<>> /\ q.session \in Sessions \cup {NoSession}
    OBVIOUS
  <2>2. new \in Task
    <3>1. Head(q.path) \in Roles /\ Tail(q.path) \in Seq(Roles)
      BY <2>1
    <3>2. issued + 1 \in TaskId
      BY <1>5 DEF Submit, TypeOK, TaskId
    <3> QED BY <2>1, <3>1, <3>2 DEF NewTask, Task, Unfinished
  <2>3. Enqueue(tasks, issued + 1, new) /\ nodes' = nodes
    BY <1>5 DEF Submit
  <2> HIDE DEF new
  <2> QED BY <2>2, <2>3, StrandedEnqueue
<1>6. ASSUME NEW overdue, NEW old, NEW idle, Sweep(overdue, old, idle)
      PROVE  NoTaskStranded'
  BY <1>6, StrandedRelease DEF Sweep
<1>7. ASSUME Restart PROVE NoTaskStranded'
  BY <1>7 DEF Restart, NoTaskStranded, Owners
<1>8. ASSUME nodes' = nodes, queues' = queues PROVE NoTaskStranded'
  BY <1>8 DEF NoTaskStranded
<1>9. ASSUME NEW w \in Workers, NEW t \in TaskId,
             \/ Complete(w, t) \/ ResultRefused(w, t) \/ FailArrive(w, t)
             \/ FailFinish(w, t) \/ Abandon(w, t)
      PROVE  NoTaskStranded'
  BY <1>8, <1>9 DEF Complete, ResultRefused, FailArrive, FailFinish, Abandon
<1>10. ASSUME NEW w \in Workers, Heartbeat(w) \/ Silence(w) PROVE NoTaskStranded'
  BY <1>8, <1>10 DEF Heartbeat, Silence
<1>11. ASSUME UNCHANGED vars PROVE NoTaskStranded'
  BY <1>8, <1>11 DEF vars
<1>12. ASSUME NEW w \in Workers, NEW r \in Roles, NEW o \in Owners,
              PutBack(w, r, o) \/ PollCancelled(w, r, o)
       PROVE  NoTaskStranded'
  <2> SUFFICES ASSUME NEW v \in Workers, nodes'[v] = NoRole PROVE queues'[v] = <<>>
    BY DEF NoTaskStranded
  <2>1. /\ queues[o] # <<>> /\ nodes' = nodes
        /\ queues' = [queues EXCEPT ![o] = Append(Tail(@), Head(@))]
           \/ queues' = [queues EXCEPT ![o] = Tail(@)]
    BY <1>12, WaitedFor DEF Waited
  <2>2. queues[v] = <<>> /\ v # o /\ v \in Owners
    BY <2>1 DEF NoTaskStranded, Owners
  <2> QED BY <2>1, <2>2 DEF TypeOK
<1> QED
  BY <1>1, <1>2, <1>3, <1>4, <1>5, <1>6, <1>7, <1>9, <1>10, <1>11, <1>12
  DEF Next, Orderly, LostPoll, WorkerStep, PostResult, Janitor, Environment

\* No task waits in the own queue of a worker the relay has dropped
\* (relay.py _drop_node, _forget_worker, _bound_worker).
THEOREM NothingStranded == Spec => []NoTaskStranded
<1>1. Init => NoTaskStranded
  BY DEF Init, Nothing, NoTaskStranded, Owners
<1> QED BY <1>1, StrandedStep, TypeCorrect, PTL DEF Spec
-----------------------------------------------------------------------------
(* Chains.  Their invariant speaks of every task object, in the table or *)
(* not: a result for a forgotten task is still taken.                        *)

Objects == {t \in TaskId : tasks[t] # NoTask}

\* An id stands for one object for ever, and a chain's root is its oldest.
Rooted ==
    /\ \A t \in Objects :
          /\ t <= issued
          /\ tasks[t].root <= t
          /\ tasks[t].root \in Objects
          /\ tasks[tasks[t].root].root = tasks[t].root
    /\ \A w \in Workers : \A t \in held[w] : t <= issued

\* `done` says that the object has its last status, which for the root of a
\* chain FORWARDED is not.
DoneIsLast ==
    \A t \in Objects :
        /\ tasks[t].status \in Unfinished => ~tasks[t].done
        /\ tasks[t].status \in {"COMPLETED", "FAILED"} => tasks[t].done
        /\ tasks[t].status = "FORWARDED" /\ t # tasks[t].root => tasks[t].done
        /\ tasks[t].status = "ASSIGNED" => tasks[t].worker # NoWorker

\* OneLiveStep, of all the objects.
OneOpenObject ==
    \A t, u \in Objects :
        /\ tasks[t].status \in Unfinished
        /\ tasks[u].status \in Unfinished
        /\ tasks[t].root = tasks[u].root
        => t = u

\* A step has passed fewer workers than there were ids before its own.
ShortBodies ==
    \A t \in Objects :
        /\ Len(tasks[t].payload) < t
        /\ Len(tasks[t].result) <= MaxTasks

ChainInv ==
    /\ TypeOK
    /\ Rooted
    /\ DoneIsLast
    /\ OneOpenObject
    /\ ShortBodies
    /\ ChainAlive
    /\ EndReachesRoot

-----------------------------------------------------------------------------
(* What a step does to the task objects *)

\* Object b is object a, or a while it waits for a worker or has one.
Moves(a, b) ==
    \/ b = a
    \/ /\ a.status \in Unfinished
       /\ b.status \in Unfinished
       /\ b.status = "ASSIGNED" => b.worker # NoWorker
       /\ b.role = a.role /\ b.route = a.route /\ b.root = a.root
       /\ b.session = a.session /\ b.payload = a.payload
       /\ b.result = a.result /\ b.done = a.done

\* The steps that neither end an object nor add one.
Kept ==
    /\ issued' = issued
    /\ known' \subseteq known
    /\ OldestFirst(known \ known')
    /\ Objects' = Objects
    /\ \A t \in Objects : Moves(tasks[t], tasks'[t])
    /\ \A w \in Workers : held'[w] \subseteq held[w] \cup known

Shape ==
    \/ Kept
    \/ \E w \in Workers, t \in TaskId : Complete(w, t) \/ FailFinish(w, t) \/ Forward(w, t)
    \/ \E q \in Requests : Submit(q)
    \/ Restart

\* A release moves objects between pending and assigned only.
LEMMA ReleaseMoves ==
    ASSUME TypeOK, NEW gone, NEW overdue, NEW idle,
           Release(gone, overdue, idle)
    PROVE  /\ Objects' = Objects
           /\ \A t \in Objects : Moves(tasks[t], tasks'[t])
<1>1. tasks' = [t \in TaskId |-> IF t \in TakenBack(gone, overdue)
                                 THEN Requeued(tasks[t]) ELSE tasks[t]]
  BY DEF Release
<1>2. ASSUME NEW t \in TakenBack(gone, overdue)
      PROVE  /\ t \in TaskId /\ tasks[t] \in Task
             /\ Requeued(tasks[t]) \in Task
             /\ Moves(tasks[t], Requeued(tasks[t]))
  <2>1. t \in TaskId /\ tasks[t] \in Task /\ tasks[t].status = "ASSIGNED"
    BY DEF TakenBack, Assigned, TypeOK
  <2> QED BY <2>1 DEF Requeued, Moves, Task, Unfinished
<1>3. \A t \in TaskId : t \notin TakenBack(gone, overdue) => tasks'[t] = tasks[t]
  BY <1>1
<1>4. \A t \in TakenBack(gone, overdue) : tasks'[t] = Requeued(tasks[t])
  BY <1>1, <1>2
<1>5. Objects' = Objects
  BY <1>2, <1>3, <1>4, NoTaskAssumption DEF Objects
<1> QED BY <1>2, <1>3, <1>4, <1>5 DEF Objects, Moves

\* A poll assigns pending objects, all of them in the table.
LEMMA TakeOutMoves ==
    ASSUME TypeOK, NEW w \in Workers, NEW r \in Roles,
           NEW n \in 0 .. Len(queues[w] \o queues[r]), TakeOut(w, r, n)
    PROVE  Kept
<1> DEFINE taken == Ahead(queues[w] \o queues[r], n)
<1>1. /\ tasks' = [t \in TaskId |->
                IF t \in taken
                THEN [tasks[t] EXCEPT !.status = "ASSIGNED", !.worker = w]
                ELSE tasks[t]]
      /\ held' = [held EXCEPT ![w] = @ \cup taken]
  BY DEF TakeOut
<1>2. issued' = issued /\ known' = known
  BY DEF TakeOut
<1>3. \A t \in taken : t \in known /\ t \in TaskId /\ tasks[t] \in Task
                       /\ tasks[t].status = "PENDING"
  BY DEF Ahead, Waiting, TypeOK
<1> HIDE DEF taken
<1>4. \A a \in Task : a.status = "PENDING" =>
         LET b == [a EXCEPT !.status = "ASSIGNED", !.worker = w]
         IN  b \in Task /\ Moves(a, b)
  BY DEF Task, Moves, Unfinished
<1>5. \A t \in TaskId : t \notin taken => tasks'[t] = tasks[t]
  BY <1>1
<1>6. \A t \in taken : tasks'[t] \in Task /\ Moves(tasks[t], tasks'[t])
  BY <1>1, <1>3, <1>4
<1>7. Objects' = Objects
  BY <1>3, <1>5, <1>6, NoTaskAssumption DEF Objects
<1>8. \A t \in Objects : Moves(tasks[t], tasks'[t])
  BY <1>5, <1>6 DEF Objects, Moves
<1>9. \A v \in Workers : held'[v] \subseteq held[v] \cup known
  BY <1>1, <1>3 DEF TypeOK
<1> QED BY <1>2, <1>7, <1>8, <1>9 DEF Kept, OldestFirst

LEMMA PollMoves ==
    ASSUME TypeOK, NEW w \in Workers, NEW r \in Roles, NEW max \in BatchSizes,
           Poll(w, r, max)
    PROVE  Kept
BY PollTakesOut, TakeOutMoves

\* Every step keeps the objects, ends one, adds one or forgets all.
LEMMA StepShape == TypeOK /\ [Next]_vars => Shape
<1> SUFFICES ASSUME TypeOK, [Next]_vars PROVE Shape
  OBVIOUS
<1>0. ASSUME UNCHANGED <<tasks, known, issued>>,
             \A w \in Workers : held'[w] \subseteq held[w]
      PROVE  Shape
  BY <1>0 DEF Shape, Kept, OldestFirst, Moves, Objects
<1>1. ASSUME NEW w \in Workers, NEW r \in Roles, NEW claims \in SUBSET Sessions,
             Register(w, r, claims)
      PROVE  Shape
  BY <1>0, <1>1 DEF Register
<1>2. ASSUME NEW w \in Workers, Deregister(w) PROVE Shape
  <2>1. \A v \in Workers : held'[v] \subseteq held[v]
    BY <1>2 DEF Deregister, TypeOK
  <2>2. CASE nodes[w] = NoRole
    BY <1>0, <1>2, <2>1, <2>2 DEF Deregister, relayVars
  <2>3. CASE nodes[w] # NoRole
    <3>1. Release({w}, {}, {}) /\ known' = known /\ issued' = issued
      BY <1>2, <2>3 DEF Deregister
    <3> QED BY <2>1, <3>1, ReleaseMoves DEF Shape, Kept, OldestFirst
  <2> QED BY <2>2, <2>3
<1>3. ASSUME NEW w \in Workers, Heartbeat(w) PROVE Shape
  BY <1>0, <1>3 DEF Heartbeat
<1>4. ASSUME NEW w \in Workers, NEW r \in Roles, NEW max \in BatchSizes, Poll(w, r, max)
      PROVE  Shape
  BY <1>4, PollMoves DEF Shape
<1>5. ASSUME NEW w \in Workers, NEW t \in TaskId, PostResult(w, t) PROVE Shape
  <2>1. ASSUME ResultRefused(w, t) PROVE Shape
    <3>1. \A v \in Workers : held'[v] \subseteq held[v]
      BY <2>1 DEF ResultRefused, TypeOK
    <3> QED BY <1>0, <2>1, <3>1 DEF ResultRefused
  <2> QED BY <1>5, <2>1 DEF PostResult, Shape
<1>6. ASSUME NEW w \in Workers, NEW t \in TaskId, FailArrive(w, t) PROVE Shape
  <2>1. \A v \in Workers : held'[v] \subseteq held[v]
    BY <1>6 DEF FailArrive, TypeOK
  <2> QED BY <1>0, <1>6, <2>1 DEF FailArrive
<1>7. ASSUME NEW w \in Workers, NEW t \in TaskId, FailFinish(w, t) PROVE Shape
  BY <1>7 DEF Shape
<1>8. ASSUME NEW q \in Requests, Submit(q) PROVE Shape
  BY <1>8 DEF Shape
<1>9. ASSUME NEW overdue, NEW old \in SUBSET known, NEW idle, Sweep(overdue, old, idle)
      PROVE  Shape
  <2>1. Release(silent, overdue, idle) /\ OldestFirst(old)
    BY <1>9 DEF Sweep
  <2>2. /\ known' = known \ old
        /\ UNCHANGED <<issued, held>>
    BY <1>9 DEF Sweep
  <2>3. known \ known' = old
    BY <2>2
  <2> QED BY <2>1, <2>2, <2>3, ReleaseMoves DEF Shape, Kept
<1>10. ASSUME NEW w \in Workers, Silence(w) PROVE Shape
  BY <1>0, <1>10 DEF Silence
<1>11. ASSUME NEW w \in Workers, NEW t \in TaskId, Abandon(w, t) PROVE Shape
  <2>1. \A v \in Workers : held'[v] \subseteq held[v]
    BY <1>11 DEF Abandon, TypeOK
  <2> QED BY <1>0, <1>11, <2>1 DEF Abandon
<1>12. ASSUME Restart PROVE Shape
  BY <1>12 DEF Shape
<1>13. ASSUME UNCHANGED vars PROVE Shape
  BY <1>0, <1>13 DEF vars
<1>14. ASSUME NEW w \in Workers, NEW r \in Roles, NEW o \in Owners,
              PutBack(w, r, o) \/ PollCancelled(w, r, o)
       PROVE  Shape
  <2>1. UNCHANGED <<tasks, known, issued, held>>
    BY <1>14, WaitedFor DEF Waited
  <2> QED BY <1>0, <2>1
<1> QED
  BY <1>1, <1>2, <1>3, <1>4, <1>5, <1>6, <1>7, <1>8, <1>9, <1>10, <1>11, <1>12, <1>13, <1>14
  DEF Next, Orderly, LostPoll, WorkerStep, Janitor, Environment

\* The objects that _finish(t) ends, if they have no outcome yet.
Ended(t) ==
    IF t = tasks[t].root THEN {t} \cap known ELSE {t} \cup ({tasks[t].root} \cap known)

\* Object b is object a with its outcome.
Outcome(a, b, status, body) ==
    /\ b.status = status /\ b.result = body /\ b.done = TRUE
    /\ b.role = a.role /\ b.route = a.route /\ b.root = a.root
    /\ b.session = a.session /\ b.payload = a.payload

\* _finish gives its outcome to those, and leaves the others.
LEMMA FinishedFields ==
    ASSUME TypeOK, NEW t \in Objects, NEW status \in FINISHED, NEW body \in Seq(Workers),
           tasks' = Finished(tasks, t, status, body)
    PROVE  /\ Objects' = Objects
           /\ \A u \in Objects :
                /\ u \notin Ended(t) \/ tasks[u].done => tasks'[u] = tasks[u]
                /\ u \in Ended(t) /\ ~tasks[u].done =>
                      Outcome(tasks[u], tasks'[u], status, body)
<1> DEFINE new(a) == [a EXCEPT !.status = status, !.result = body, !.done = TRUE]
<1>1. tasks' = [u \in TaskId |-> IF u \in Ended(t) /\ ~tasks[u].done
                                 THEN new(tasks[u]) ELSE tasks[u]]
  BY DEF Finished, Ended
<1>2. \A a \in Task : new(a) \in Task /\ Outcome(a, new(a), status, body)
  BY DEF Outcome, Task
<1>3. \A u \in Ended(t) : u \in TaskId /\ tasks[u] \in Task
  BY DEF Ended, Objects, TypeOK
<1> HIDE DEF new
<1>4. \A u \in TaskId : \/ tasks'[u] = tasks[u] /\ (u \notin Ended(t) \/ tasks[u].done)
                        \/ /\ tasks'[u] = new(tasks[u])
                           /\ u \in Ended(t) /\ ~tasks[u].done
  BY <1>1
<1>5. \A u \in Ended(t) : new(tasks[u]) # NoTask /\ tasks[u] # NoTask
  BY <1>2, <1>3
<1>6. Objects' = Objects
  BY <1>4, <1>5 DEF Objects
<1> QED BY <1>2, <1>3, <1>4, <1>6 DEF Objects

\* A new task joins the objects under an id that none of them has.
LEMMA AddedFields ==
    ASSUME TypeOK, Rooted, issued < MaxTasks,
           NEW ts \in [TaskId -> Task \cup {NoTask}],
           \A t \in TaskId : tasks[t] # NoTask <=> ts[t] # NoTask,
           NEW task \in Task,
           Enqueue(ts, issued + 1, task)
    PROVE  /\ issued' = issued + 1 /\ issued' \in TaskId \ Objects
           /\ Objects' = Objects \cup {issued'}
           /\ known' = known \cup {issued'}
           /\ tasks'[issued'] = task
           /\ \A t \in Objects : tasks'[t] = ts[t]
<1>1. issued + 1 \in TaskId /\ ~(issued + 1 <= issued)
  BY DEF TypeOK, TaskId
<1>2. issued + 1 \notin Objects
  BY <1>1 DEF Rooted
<1>3. /\ tasks' = [ts EXCEPT ![issued + 1] = task]
      /\ known' = known \cup {issued + 1}
      /\ issued' = issued + 1
  BY DEF Enqueue
<1>4. \A t \in TaskId : t # issued + 1 => tasks'[t] = ts[t]
  BY <1>3
<1>5. tasks'[issued + 1] = task /\ task # NoTask
  BY <1>1, <1>3
<1>6. Objects' = Objects \cup {issued + 1}
  BY <1>1, <1>4, <1>5 DEF Objects
<1> QED BY <1>1, <1>2, <1>3, <1>4, <1>5, <1>6 DEF Objects

\* A forwarded step is over, and the next one has its answer as payload.
LEMMA ForwardFields ==
    ASSUME TypeOK, Rooted, NEW w \in Workers, NEW t \in TaskId, Forward(w, t)
    PROVE  /\ t \in Objects /\ t \in held[w]
           /\ tasks[t].status \in Unfinished /\ WorkerAccepted(w, t)
           /\ tasks[t].route # <<>>
           /\ issued' = issued + 1 /\ issued' \in TaskId \ Objects
           /\ Objects' = Objects \cup {issued'}
           /\ known' = known \cup {issued'}
           /\ tasks'[issued'] = NextStep(t, w)
           /\ tasks'[t].status = "FORWARDED"
           /\ tasks'[t].done = (t # tasks[t].root)
           /\ tasks'[t].role = tasks[t].role /\ tasks'[t].route = tasks[t].route
           /\ tasks'[t].root = tasks[t].root /\ tasks'[t].payload = tasks[t].payload
           /\ tasks'[t].result = tasks[t].result
           /\ \A u \in Objects : u # t => tasks'[u] = tasks[u]
           /\ \A v \in Workers : held'[v] \subseteq held[v]
<1> DEFINE left == [tasks EXCEPT ![t].status = "FORWARDED",
                                 ![t].done = t # tasks[t].root]
           next == NextStep(t, w)
<1>1. /\ t \in Objects /\ tasks[t] \in Task /\ tasks[t].route # <<>>
      /\ tasks[t].status \in Unfinished /\ t \in held[w] /\ WorkerAccepted(w, t)
  BY DEF Forward, ResultAccepted, Objects, TypeOK, Task
<1>2. next \in Task
  <2>1. Head(tasks[t].route) \in Roles /\ Tail(tasks[t].route) \in Seq(Roles)
    BY <1>1 DEF Task
  <2>2. Answer(t, w) \in Seq(Workers)
    BY <1>1 DEF Answer, Task
  <2> QED BY <1>1, <2>1, <2>2 DEF NextStep, NewTask, Task, Unfinished
<1>3. left \in [TaskId -> Task \cup {NoTask}] /\ left[t] \in Task
  BY <1>1 DEF Task, FINISHED, TypeOK
<1>4. /\ left[t].status = "FORWARDED" /\ left[t].done = (t # tasks[t].root)
      /\ left[t].role = tasks[t].role /\ left[t].route = tasks[t].route
      /\ left[t].root = tasks[t].root /\ left[t].payload = tasks[t].payload
      /\ left[t].result = tasks[t].result
  BY <1>1 DEF Task, TypeOK
<1>5. \A u \in TaskId : u # t => left[u] = tasks[u]
  BY DEF TypeOK
<1>6. \A u \in TaskId : tasks[u] # NoTask <=> left[u] # NoTask
  BY <1>1, <1>3, <1>5 DEF Objects
<1>7. Enqueue(left, issued + 1, next) /\ issued < MaxTasks
  BY DEF Forward
<1>8. \A v \in Workers : held'[v] \subseteq held[v]
  BY DEF Forward, Reported, TypeOK
<1> HIDE DEF left, next
<1>9. /\ issued' = issued + 1 /\ issued' \in TaskId \ Objects
      /\ Objects' = Objects \cup {issued'}
      /\ known' = known \cup {issued'}
      /\ tasks'[issued'] = next
      /\ \A u \in Objects : tasks'[u] = left[u]
  BY <1>2, <1>3, <1>6, <1>7, AddedFields
<1> QED BY <1>1, <1>4, <1>5, <1>8, <1>9 DEF next, Objects

\* A submitted task is the root of a chain of its own.
LEMMA SubmitFields ==
    ASSUME TypeOK, Rooted, NEW q \in Requests, Submit(q)
    PROVE  /\ issued' = issued + 1 /\ issued' \in TaskId \ Objects
           /\ Objects' = Objects \cup {issued'}
           /\ known' = known \cup {issued'}
           /\ tasks'[issued'] = NewTask(Head(q.path), Tail(q.path), issued',
                                        q.session, <<>>)
           /\ \A u \in Objects : tasks'[u] = tasks[u]
           /\ held' = held
<1> DEFINE new == NewTask(Head(q.path), Tail(q.path), issued + 1, q.session, <<>>)
<1>1. q.path \in Seq(Roles) /\ q.path # <<>> /\ q.session \in Sessions \cup {NoSession}
  OBVIOUS
<1>2. new \in Task
  <2>1. Head(q.path) \in Roles /\ Tail(q.path) \in Seq(Roles)
    BY <1>1
  <2>2. issued + 1 \in TaskId
    BY DEF Submit, TypeOK, TaskId
  <2> QED BY <1>1, <2>1, <2>2 DEF NewTask, Task, Unfinished
<1>3. Enqueue(tasks, issued + 1, new) /\ issued < MaxTasks /\ held' = held
  BY DEF Submit
<1>4. tasks \in [TaskId -> Task \cup {NoTask}]
  BY DEF TypeOK
<1> HIDE DEF new
<1>5. /\ issued' = issued + 1 /\ issued' \in TaskId \ Objects
      /\ Objects' = Objects \cup {issued'}
      /\ known' = known \cup {issued'}
      /\ tasks'[issued'] = new
      /\ \A u \in Objects : tasks'[u] = tasks[u]
  BY <1>2, <1>3, <1>4, AddedFields
<1> QED BY <1>3, <1>5 DEF new

-----------------------------------------------------------------------------
(* The objects of a chain *)

LEMMA ChainInit == Init => ChainInv
<1> SUFFICES ASSUME Init PROVE ChainInv
  OBVIOUS
<1>1. Objects = {} /\ known = {} /\ \A w \in Workers : held[w] = {}
  BY DEF Init, Nothing, Objects
<1> QED BY <1>1, TypeInit DEF ChainInv, Rooted, DoneIsLast, OneOpenObject, ShortBodies,
                              ChainAlive, EndReachesRoot

\* Requeueing and assigning leave a chain as it is; of an open chain the sweep
\* forgets the step under way only with its root, which is older.
LEMMA ChainKept ==
    ASSUME ChainInv, TypeOK', Kept
    PROVE  ChainInv'
<1>1. \A t \in Objects : t \in TaskId /\ tasks[t] \in Task /\ tasks'[t] \in Task
  BY DEF Objects, ChainInv, TypeOK, Kept
<1>2. \A t \in Objects :
        /\ tasks'[t].root = tasks[t].root /\ tasks'[t].done = tasks[t].done
        /\ tasks'[t].payload = tasks[t].payload /\ tasks'[t].result = tasks[t].result
        /\ tasks'[t].status \in Unfinished <=> tasks[t].status \in Unfinished
        /\ tasks'[t].status \notin Unfinished => tasks'[t].status = tasks[t].status
        /\ tasks'[t].status = "ASSIGNED" =>
              tasks'[t] = tasks[t] \/ tasks'[t].worker # NoWorker
  BY DEF Kept, Moves
<1>3. Objects' = Objects /\ issued' = issued /\ known' \subseteq known
  BY DEF Kept
<1>4. known \subseteq Objects
  BY DEF ChainInv, TypeOK, Objects
<1>5. Rooted'
  <2>1. \A w \in Workers : \A t \in held'[w] : t <= issued
    BY <1>4 DEF Kept, ChainInv, Rooted
  <2> QED BY <1>2, <1>3, <2>1 DEF ChainInv, Rooted
<1>6. DoneIsLast'
  BY <1>2, <1>3 DEF ChainInv, DoneIsLast, Unfinished
<1>7. OneOpenObject'
  BY <1>2, <1>3 DEF ChainInv, OneOpenObject
<1>8. ShortBodies'
  BY <1>2, <1>3 DEF ChainInv, ShortBodies
<1>9. ChainAlive'
  <2> SUFFICES ASSUME NEW r \in known', tasks'[r].status = "FORWARDED", ~tasks'[r].done
               PROVE  \E t \in known' : tasks'[t].root = r /\ tasks'[t].status \in Unfinished
    BY DEF ChainAlive
  <2>1. r \in known /\ r \in Objects /\ tasks[r].status = "FORWARDED" /\ ~tasks[r].done
    BY <1>2, <1>3, <1>4 DEF Unfinished
  <2>2. PICK t \in known : tasks[t].root = r /\ tasks[t].status \in Unfinished
    BY <2>1 DEF ChainInv, ChainAlive
  <2>3. t \in known'
    <3> SUFFICES ASSUME t \notin known' PROVE FALSE
      OBVIOUS
    <3>1. ~tasks[t].done /\ r <= t /\ r # t
      BY <1>4, <2>1, <2>2 DEF ChainInv, DoneIsLast, Rooted, Unfinished
    <3>2. r < t
      BY <1>1, <1>4, <2>1, <3>1 DEF TaskId
    <3> QED BY <2>1, <3>1, <3>2 DEF Kept, OldestFirst
  <2> QED BY <1>2, <1>4, <2>2, <2>3
<1>10. EndReachesRoot'
  BY <1>2, <1>3, <1>4 DEF ChainInv, EndReachesRoot, Unfinished, Rooted
<1> QED BY <1>5, <1>6, <1>7, <1>8, <1>9, <1>10 DEF ChainInv

\* An end is told to the root, if the relay still knows it.
LEMMA ChainFinished ==
    ASSUME ChainInv, TypeOK', NEW t \in Objects, NEW status \in {"COMPLETED", "FAILED"},
           NEW w \in Workers,
           tasks' = Finished(tasks, t, status, Answer(t, w)),
           known' = known, issued' = issued,
           \A v \in Workers : held'[v] \subseteq held[v]
    PROVE  ChainInv'
<1> DEFINE body == Answer(t, w)
<1>1. TypeOK /\ known \subseteq Objects
  BY DEF ChainInv, TypeOK, Objects
<1>2. t \in TaskId /\ tasks[t] \in Task
  BY <1>1 DEF TypeOK, Objects
<1>3. body \in Seq(Workers) /\ Len(body) <= MaxTasks
  <2>1. tasks[t].payload \in Seq(Workers) /\ Len(tasks[t].payload) < t /\ t <= MaxTasks
    BY <1>2 DEF Task, TaskId, ChainInv, ShortBodies
  <2>2. body \in Seq(Workers) /\ Len(body) = Len(tasks[t].payload) + 1
    BY <2>1 DEF Answer
  <2> HIDE DEF body
  <2> QED BY <1>2, <2>1, <2>2 DEF TaskId
<1> HIDE DEF body
<1>4. /\ Objects' = Objects
      /\ \A u \in Objects :
           /\ u \notin Ended(t) \/ tasks[u].done => tasks'[u] = tasks[u]
           /\ u \in Ended(t) /\ ~tasks[u].done =>
                 Outcome(tasks[u], tasks'[u], status, body)
  BY <1>1, <1>3, FinishedFields DEF body, FINISHED
<1>5. \A u \in Objects :
        /\ tasks'[u].root = tasks[u].root /\ tasks'[u].payload = tasks[u].payload
        /\ Len(tasks'[u].result) <= MaxTasks
        /\ \/ tasks'[u] = tasks[u]
           \/ /\ ~tasks[u].done /\ tasks'[u].done /\ tasks'[u].status = status
              /\ u = t \/ u = tasks[t].root
  BY <1>3, <1>4 DEF Outcome, Ended, ChainInv, ShortBodies
<1>6. \A u \in Objects : tasks[u].done => tasks'[u].done
  BY <1>5
<1>7. t # tasks[t].root \/ t \in known => tasks'[t].done
  BY <1>4, <1>6 DEF Ended, Outcome
<1>8. tasks[t].root \in known => tasks'[tasks[t].root].done
  BY <1>1, <1>4, <1>6 DEF Ended, Outcome
<1>9. Rooted'
  BY <1>4, <1>5 DEF ChainInv, Rooted
<1>10. DoneIsLast'
  BY <1>4, <1>5 DEF ChainInv, DoneIsLast, Unfinished
<1>11. OneOpenObject'
  BY <1>4, <1>5 DEF ChainInv, OneOpenObject, Unfinished
<1>12. ShortBodies'
  BY <1>4, <1>5 DEF ChainInv, ShortBodies
<1>13. ChainAlive'
  <2> SUFFICES ASSUME NEW r \in known, tasks'[r].status = "FORWARDED", ~tasks'[r].done
               PROVE  \E u \in known : tasks'[u].root = r /\ tasks'[u].status \in Unfinished
    BY DEF ChainAlive
  <2>1. r \in Objects /\ tasks'[r] = tasks[r]
    BY <1>1, <1>5
  <2>2. PICK u \in known : tasks[u].root = r /\ tasks[u].status \in Unfinished
    BY <2>1 DEF ChainInv, ChainAlive
  <2>3. tasks'[u] = tasks[u]
    <3> SUFFICES ASSUME tasks'[u] # tasks[u] PROVE FALSE
      OBVIOUS
    <3>1. u = t \/ u = tasks[t].root
      BY <1>1, <1>5
    <3>2. tasks[t].root = r
      BY <2>2, <3>1 DEF ChainInv, Rooted
    <3> QED BY <1>8, <3>2
  <2> QED BY <2>2, <2>3
<1>14. EndReachesRoot'
  <2> SUFFICES ASSUME NEW u \in known, tasks'[u].status \in {"COMPLETED", "FAILED"},
                      tasks'[u].root \in known
               PROVE  tasks'[tasks'[u].root].done
    BY DEF EndReachesRoot
  <2>1. u \in Objects /\ tasks'[u].root = tasks[u].root /\ tasks[u].root \in Objects
    BY <1>1, <1>5
  <2>2. CASE tasks'[u] = tasks[u]
    BY <1>6, <2>1, <2>2 DEF ChainInv, EndReachesRoot
  <2>3. CASE u = t \/ u = tasks[t].root
    BY <1>8, <2>1, <2>3 DEF ChainInv, Rooted
  <2> QED BY <1>5, <2>1, <2>2, <2>3
<1> QED BY <1>9, <1>10, <1>11, <1>12, <1>13, <1>14 DEF ChainInv

\* A forwarded result opens the next step as it ends the last one.
LEMMA ChainForward ==
    ASSUME ChainInv, TypeOK', NEW w \in Workers, NEW t \in TaskId, Forward(w, t)
    PROVE  ChainInv'
<1> DEFINE n == issued'
<1>1. TypeOK /\ Rooted /\ known \subseteq Objects
  BY DEF ChainInv, TypeOK, Objects
<1>2. /\ t \in Objects /\ tasks[t].status \in Unfinished
      /\ n = issued + 1 /\ n \in TaskId \ Objects
      /\ Objects' = Objects \cup {n} /\ known' = known \cup {n}
      /\ tasks'[n] = NextStep(t, w)
      /\ tasks'[t].status = "FORWARDED" /\ tasks'[t].done = (t # tasks[t].root)
      /\ \A u \in Objects : u # t => tasks'[u] = tasks[u]
  BY <1>1, ForwardFields
<1>3. \A u \in Objects : /\ tasks'[u].root = tasks[u].root
                         /\ tasks'[u].payload = tasks[u].payload
                         /\ tasks'[u].result = tasks[u].result
  BY <1>1, <1>2, ForwardFields
<1>4. /\ tasks'[n].root = tasks[t].root /\ tasks'[n].status = "PENDING"
      /\ tasks'[n].done = FALSE /\ tasks'[n].result = <<>>
      /\ tasks'[n].payload = Answer(t, w)
  BY <1>2 DEF NextStep, NewTask
<1>5. \A v \in Workers : held'[v] \subseteq held[v]
  BY <1>1, ForwardFields
<1>6. issued \in Nat /\ \A u \in Objects : u \in Nat /\ tasks[u].root \in Nat
  BY <1>1 DEF TypeOK, Objects, TaskId, Task
<1>7. ~tasks[t].done
  BY <1>2 DEF ChainInv, DoneIsLast
<1>8. Rooted'
  <2>1. \A u \in Objects : u <= n
    BY <1>1, <1>2, <1>6 DEF Rooted
  <2>2. tasks[t].root \in Objects /\ tasks[t].root <= n
        /\ tasks[tasks[t].root].root = tasks[t].root
    BY <1>1, <1>2, <2>1 DEF Rooted
  <2>3. \A v \in Workers : \A u \in held[v] : u <= n
    BY <1>1, <1>2, <1>6 DEF Rooted, TypeOK, TaskId
  <2> HIDE DEF n
  <2>4. \A u \in Objects' : /\ u <= n /\ tasks'[u].root <= u
                            /\ tasks'[u].root \in Objects'
                            /\ tasks'[tasks'[u].root].root = tasks'[u].root
    BY <1>1, <1>2, <1>3, <1>4, <1>6, <2>1, <2>2 DEF Rooted
  <2>5. n = issued'
    BY DEF n
  <2> QED BY <1>5, <2>3, <2>4, <2>5 DEF Rooted
<1> HIDE DEF n
<1>9. DoneIsLast'
  <2> DEFINE Lasts(u) ==
        /\ tasks'[u].status \in Unfinished => ~tasks'[u].done
        /\ tasks'[u].status \in {"COMPLETED", "FAILED"} => tasks'[u].done
        /\ tasks'[u].status = "FORWARDED" /\ u # tasks'[u].root => tasks'[u].done
        /\ tasks'[u].status = "ASSIGNED" => tasks'[u].worker # NoWorker
  <2>1. ASSUME NEW u \in Objects, u # t PROVE Lasts(u)
    BY <1>2, <2>1 DEF ChainInv, DoneIsLast
  <2>2. Lasts(t)
    BY <1>2, <1>3 DEF Unfinished
  <2>3. Lasts(n)
    BY <1>4 DEF Unfinished
  <2> HIDE DEF Lasts
  <2>4. \A u \in Objects' : Lasts(u)
    BY <1>2, <2>1, <2>2, <2>3
  <2> QED BY <2>4 DEF DoneIsLast, Lasts
<1>10. OneOpenObject'
  BY <1>2, <1>3, <1>4 DEF ChainInv, OneOpenObject, Unfinished
<1>11. ShortBodies'
  <2>1. tasks[t].payload \in Seq(Workers) /\ Len(tasks[t].payload) < t
    BY <1>1, <1>2 DEF ChainInv, ShortBodies, TypeOK, Objects, Task
  <2>2. Len(Answer(t, w)) = Len(tasks[t].payload) + 1
    BY <2>1 DEF Answer
  <2>3. Len(Answer(t, w)) < n
    BY <1>1, <1>2, <1>6, <2>1, <2>2 DEF Rooted
  <2> QED BY <1>2, <1>3, <1>4, <2>3 DEF ChainInv, ShortBodies
<1>12. ChainAlive'
  <2> SUFFICES ASSUME NEW r \in known', tasks'[r].status = "FORWARDED", ~tasks'[r].done
               PROVE  \E u \in known' : tasks'[u].root = r /\ tasks'[u].status \in Unfinished
    BY DEF ChainAlive
  <2>1. CASE r = tasks[t].root
    BY <1>2, <1>4, <2>1 DEF Unfinished
  <2>2. CASE r # tasks[t].root
    <3>1. r # n /\ r # t
      BY <1>2, <1>4, <2>2
    <3>2. r \in known /\ tasks'[r] = tasks[r]
      BY <1>1, <1>2, <3>1
    <3>3. PICK u \in known : tasks[u].root = r /\ tasks[u].status \in Unfinished
      BY <3>2 DEF ChainInv, ChainAlive
    <3>4. u # t
      BY <2>2, <3>3
    <3> QED BY <1>1, <1>2, <3>3, <3>4
  <2> QED BY <2>1, <2>2
<1>13. EndReachesRoot'
  <2> SUFFICES ASSUME NEW u \in known', tasks'[u].status \in {"COMPLETED", "FAILED"},
                      tasks'[u].root \in known'
               PROVE  tasks'[tasks'[u].root].done
    BY DEF EndReachesRoot
  <2>1. u # n /\ u # t
    BY <1>2, <1>4
  <2>2. u \in known /\ tasks'[u] = tasks[u] /\ tasks[u].root \in Objects
    BY <1>1, <1>2, <2>1 DEF Rooted
  <2>3. tasks[tasks[u].root].done
    BY <1>2, <2>2 DEF ChainInv, EndReachesRoot
  <2> QED BY <1>2, <1>7, <2>2, <2>3
<1> QED BY <1>8, <1>9, <1>10, <1>11, <1>12, <1>13 DEF ChainInv

LEMMA ChainSubmit ==
    ASSUME ChainInv, TypeOK', NEW q \in Requests, Submit(q)
    PROVE  ChainInv'
<1> DEFINE n == issued'
<1>1. TypeOK /\ Rooted /\ known \subseteq Objects
  BY DEF ChainInv, TypeOK, Objects
<1>2. /\ n = issued + 1 /\ n \in TaskId \ Objects
      /\ Objects' = Objects \cup {n} /\ known' = known \cup {n}
      /\ tasks'[n] = NewTask(Head(q.path), Tail(q.path), n, q.session, <<>>)
      /\ \A u \in Objects : tasks'[u] = tasks[u]
      /\ held' = held
  BY <1>1, SubmitFields
<1>3. /\ tasks'[n].root = n /\ tasks'[n].status = "PENDING"
      /\ tasks'[n].done = FALSE /\ tasks'[n].result = <<>> /\ tasks'[n].payload = <<>>
  BY <1>2 DEF NewTask
<1>4. issued \in Nat /\ n \in Nat \ {0} /\ \A u \in Objects : u \in Nat
  BY <1>1, <1>2 DEF TypeOK, Objects, TaskId
<1>5. \A u \in Objects : tasks[u].root \in Objects
  BY <1>1 DEF Rooted
<1>6. Rooted'
  <2>1. \A v \in Workers : \A u \in held[v] : u <= issued /\ u \in Nat
    BY <1>1 DEF Rooted, TypeOK, TaskId
  <2>2. \A u \in Objects : u <= issued
    BY <1>1 DEF Rooted
  <2>3. n = issued'
    BY DEF n
  <2> HIDE DEF n
  <2>4. \A u \in Objects' : /\ u <= n /\ tasks'[u].root <= u
                            /\ tasks'[u].root \in Objects'
                            /\ tasks'[tasks'[u].root].root = tasks'[u].root
    <3>1. ASSUME NEW u \in Objects
          PROVE  /\ u <= n /\ tasks'[u].root <= u
                 /\ tasks'[u].root \in Objects'
                 /\ tasks'[tasks'[u].root].root = tasks'[u].root
      BY <1>1, <1>2, <1>4, <1>5, <2>2 DEF Rooted
    <3>2. /\ n <= n /\ tasks'[n].root <= n
          /\ tasks'[n].root \in Objects'
          /\ tasks'[tasks'[n].root].root = tasks'[n].root
      BY <1>2, <1>3, <1>4
    <3> QED BY <1>2, <3>1, <3>2
  <2>5. \A v \in Workers : \A u \in held[v] : u <= n
    BY <1>2, <1>4, <2>1
  <2> QED BY <1>2, <2>3, <2>4, <2>5 DEF Rooted
<1> HIDE DEF n
<1>7. DoneIsLast'
  BY <1>2, <1>3 DEF ChainInv, DoneIsLast, Unfinished
<1>8. OneOpenObject'
  BY <1>2, <1>3, <1>5 DEF ChainInv, OneOpenObject
<1>9. ShortBodies'
  BY <1>2, <1>3, <1>4 DEF ChainInv, ShortBodies
<1>10. ChainAlive'
  <2> SUFFICES ASSUME NEW r \in known', tasks'[r].status = "FORWARDED", ~tasks'[r].done
               PROVE  \E u \in known' : tasks'[u].root = r /\ tasks'[u].status \in Unfinished
    BY DEF ChainAlive
  <2>1. r \in known /\ tasks'[r] = tasks[r]
    BY <1>1, <1>2, <1>3
  <2>2. PICK u \in known : tasks[u].root = r /\ tasks[u].status \in Unfinished
    BY <2>1 DEF ChainInv, ChainAlive
  <2> QED BY <1>1, <1>2, <2>2
<1>11. EndReachesRoot'
  BY <1>1, <1>2, <1>3, <1>5 DEF ChainInv, EndReachesRoot
<1> QED BY <1>6, <1>7, <1>8, <1>9, <1>10, <1>11 DEF ChainInv

LEMMA ChainRestart ==
    ASSUME ChainInv, TypeOK', Restart
    PROVE  ChainInv'
<1>1. Objects' = {} /\ known' = {} /\ issued' = issued /\ held' = held
  BY DEF Restart, Objects
<1> QED BY <1>1 DEF ChainInv, Rooted, DoneIsLast, OneOpenObject, ShortBodies,
                    ChainAlive, EndReachesRoot

LEMMA ChainStep == ChainInv /\ [Next]_vars => ChainInv'
<1> SUFFICES ASSUME ChainInv, [Next]_vars PROVE ChainInv'
  OBVIOUS
<1>1. TypeOK /\ TypeOK' /\ Shape
  BY TypeStep, StepShape DEF ChainInv
<1>2. ASSUME NEW w \in Workers, NEW t \in TaskId, Complete(w, t) PROVE ChainInv'
  <2>1. /\ t \in Objects /\ tasks' = Finished(tasks, t, "COMPLETED", Answer(t, w))
        /\ known' = known /\ issued' = issued
        /\ held' = [held EXCEPT ![w] = @ \ {t}] \/ held' = held
    BY <1>1, <1>2, Zenon DEF Complete, ResultAccepted, Reported, Objects, TypeOK
  <2>2. \A v \in Workers : held'[v] \subseteq held[v]
    <3>1. held \in [Workers -> SUBSET TaskId]
      BY <1>1 DEF TypeOK
    <3>2. held' = [held EXCEPT ![w] = @ \ {t}] \/ held' = held
      BY <2>1
    <3> QED BY <3>1, <3>2
  <2> QED BY <1>1, <2>1, <2>2, ChainFinished
<1>3. ASSUME NEW w \in Workers, NEW t \in TaskId, FailFinish(w, t) PROVE ChainInv'
  <2>1. /\ t \in Objects /\ tasks' = Finished(tasks, t, "FAILED", Answer(t, w))
        /\ known' = known /\ issued' = issued /\ held' = held
    BY <1>1, <1>3 DEF FailFinish, Objects, TypeOK
  <2> QED BY <1>1, <2>1, ChainFinished
<1> QED BY <1>1, <1>2, <1>3, ChainKept, ChainForward, ChainSubmit, ChainRestart DEF Shape

\* The sender of a chain that it waits on is not left without a step to end it
\* (relay.py cleanup_old_tasks, _finish).
THEOREM ChainsStayAlive == Spec => []ChainAlive
<1>1. ChainInv => ChainAlive
  BY DEF ChainInv
<1> QED BY <1>1, ChainInit, ChainStep, PTL DEF Spec

\* The end of a step in the table is the end of its chain (relay.py _finish).
THEOREM EndsReachTheRoot == Spec => []EndReachesRoot
<1>1. ChainInv => EndReachesRoot
  BY DEF ChainInv
<1> QED BY <1>1, ChainInit, ChainStep, PTL DEF Spec

\* No chain is open at two steps, however often and late results arrive
\* (relay.py post_result, _forward).
THEOREM OneStepAtATime == Spec => []OneLiveStep
<1>1. ChainInv => OneLiveStep
  BY DEF ChainInv, OneOpenObject, OneLiveStep, TypeOK, Objects
<1> QED BY <1>1, ChainInit, ChainStep, PTL DEF Spec

-----------------------------------------------------------------------------
(* Chains follow their route *)

\* Owner o, a role or a worker, queues tasks of its role, or of one it serves.
Suits(o, task) == IF o \in Roles THEN task.role = o ELSE task.role \in MayServe[o]

QueuesSuit ==
    \A o \in Owners : \A i \in DOMAIN queues[o] :
        queues[o][i] \in Objects => Suits(o, tasks[queues[o][i]])

\* A worker is registered for a role it may serve, and has tasks of such only.
Served ==
    \A w \in Workers :
        /\ nodes[w] \in MayServe[w] \cup {NoRole}
        /\ \A t \in held[w] \cap Objects : tasks[t].role \in MayServe[w]

\* RouteFollowed, of all the objects.
Follows(task, path) ==
    LET k == Len(task.payload)
    IN  /\ k < Len(path)
        /\ path[k + 1] = task.role
        /\ task.route = SubSeq(path, k + 2, Len(path))
        /\ \A i \in 1 .. k : path[i] \in MayServe[task.payload[i]]

StepsFollow == \A t \in Objects : Follows(tasks[t], Path(tasks[tasks[t].root]))

RouteInv ==
    /\ QueueInv
    /\ ChainInv
    /\ QueuesSuit
    /\ Served
    /\ StepsFollow

\* What an object was created with never changes.
SameFields ==
    /\ issued' \in Nat
    /\ Objects' \subseteq Objects \cup {issued'}
    /\ \A t \in Objects' : t \notin Objects => t > issued
    /\ \A t \in Objects \cap Objects' :
          /\ tasks'[t].role = tasks[t].role /\ tasks'[t].route = tasks[t].route
          /\ tasks'[t].root = tasks[t].root /\ tasks'[t].payload = tasks[t].payload

LEMMA FieldsKept ==
    ASSUME ChainInv, TypeOK', Shape
    PROVE  SameFields
<1>1. TypeOK /\ Rooted /\ known \subseteq Objects /\ issued \in Nat /\ issued' \in Nat
  BY DEF ChainInv, TypeOK, Objects
<1>2. CASE Kept
  BY <1>1, <1>2 DEF SameFields, Kept, Moves
<1>3. ASSUME NEW w \in Workers, NEW t \in TaskId, NEW status \in FINISHED,
             tasks[t] # NoTask, tasks' = Finished(tasks, t, status, Answer(t, w))
      PROVE  SameFields
  <2>1. Answer(t, w) \in Seq(Workers) /\ t \in Objects
    BY <1>1, <1>3 DEF Answer, Task, TypeOK, Objects
  <2>2. /\ Objects' = Objects
        /\ \A u \in Objects :
             \/ tasks'[u] = tasks[u]
             \/ Outcome(tasks[u], tasks'[u], status, Answer(t, w))
    BY <1>1, <1>3, <2>1, FinishedFields
  <2> QED BY <1>1, <2>2 DEF SameFields, Outcome
<1>4. ASSUME NEW w \in Workers, NEW t \in TaskId, Complete(w, t) PROVE SameFields
  BY <1>1, <1>3, <1>4 DEF Complete, ResultAccepted, FINISHED
<1>5. ASSUME NEW w \in Workers, NEW t \in TaskId, FailFinish(w, t) PROVE SameFields
  BY <1>1, <1>3, <1>5 DEF FailFinish, TypeOK, FINISHED
<1>6. ASSUME NEW w \in Workers, NEW t \in TaskId, Forward(w, t) PROVE SameFields
  <2>1. /\ Objects' = Objects \cup {issued'} /\ issued' = issued + 1
        /\ tasks'[t].role = tasks[t].role /\ tasks'[t].route = tasks[t].route
        /\ tasks'[t].root = tasks[t].root /\ tasks'[t].payload = tasks[t].payload
        /\ \A u \in Objects : u # t => tasks'[u] = tasks[u]
    BY <1>1, <1>6, ForwardFields
  <2>2. issued + 1 > issued
    BY <1>1
  <2> QED BY <1>1, <2>1, <2>2 DEF SameFields
<1>7. ASSUME NEW q \in Requests, Submit(q) PROVE SameFields
  <2>1. /\ Objects' = Objects \cup {issued'} /\ issued' = issued + 1
        /\ \A u \in Objects : tasks'[u] = tasks[u]
    BY <1>1, <1>7, SubmitFields
  <2>2. issued + 1 > issued
    BY <1>1
  <2> QED BY <1>1, <2>1, <2>2 DEF SameFields
<1>8. CASE Restart
  <2>1. Objects' = {}
    BY <1>8 DEF Restart, Objects
  <2> QED BY <1>1, <2>1 DEF SameFields
<1> QED BY <1>2, <1>4, <1>5, <1>6, <1>7, <1>8 DEF Shape

\* A queue that gets no other ids than it had, or ones that suit it, suits.
LEMMA SuitsKept ==
    ASSUME QueueInv, TypeOK', QueuesSuit, SameFields,
           NEW o \in Owners, NEW i \in DOMAIN queues'[o],
           NEW j \in DOMAIN queues[o], queues'[o][i] = queues[o][j],
           queues'[o][i] \in Objects'
    PROVE  Suits(o, tasks'[queues'[o][i]])
<1> DEFINE t == queues[o][j]
<1>1. t <= issued /\ t \in Nat /\ issued \in Nat
  BY DEF QueueInv, FreshIds, TypeOK, TaskId
<1>2. t \in Objects
  BY <1>1 DEF SameFields
<1> QED BY <1>2 DEF QueuesSuit, SameFields, Suits

LEMMA SuitsSame ==
    ASSUME QueueInv, TypeOK', QueuesSuit, SameFields, queues' = queues
    PROVE  QueuesSuit'
BY SuitsKept DEF QueuesSuit

\* A task is queued for its role, or for a worker that serves it now.
LEMMA SuitsEnqueue ==
    ASSUME QueueInv, TypeOK', QueuesSuit, SameFields, Served,
           NEW ts, NEW id \in TaskId, NEW task \in Task, Enqueue(ts, id, task),
           tasks'[id] = task
    PROVE  QueuesSuit'
<1> DEFINE w == BoundWorker(task.role, task.session)
           owner == IF w = NoWorker THEN task.role ELSE w
<1>1. task.role \in Roles /\ task.session \in Sessions \cup {NoSession}
  BY DEF Task
<1>2. /\ w \in Workers \cup {NoWorker}
      /\ w # NoWorker => nodes[w] = task.role
  BY <1>1 DEF BoundWorker, QueueInv, TypeOK
<1>3. queues' = [queues EXCEPT ![owner] = Append(@, id)]
  BY DEF Enqueue
<1>4. owner \in Owners /\ Suits(owner, task)
  <2>1. CASE w = NoWorker
    BY <1>1, <2>1 DEF Suits, Owners
  <2>2. CASE w # NoWorker
    BY <1>1, <1>2, <2>2 DEF Suits, Owners, Served
  <2> QED BY <2>1, <2>2
<1> HIDE DEF w, owner
<1>5. \A o \in Owners : queues[o] \in Seq(TaskId)
  BY DEF QueueInv, TypeOK
<1>6. SUFFICES ASSUME NEW o \in Owners, NEW i \in DOMAIN queues'[o],
                      queues'[o][i] \in Objects'
               PROVE  Suits(o, tasks'[queues'[o][i]])
  BY DEF QueuesSuit
<1>7. CASE o # owner
  <2>1. queues'[o] = queues[o]
    BY <1>3, <1>7 DEF QueueInv, TypeOK
  <2> QED BY <1>6, <2>1, SuitsKept
<1>8. CASE o = owner
  <2>1. queues'[o] = Append(queues[o], id)
    BY <1>3, <1>4, <1>8 DEF QueueInv, TypeOK
  <2>2. \/ i \in DOMAIN queues[o] /\ queues'[o][i] = queues[o][i]
        \/ queues'[o][i] = id
    BY <1>5, <2>1
  <2> QED BY <1>4, <1>6, <1>8, <2>2, SuitsKept
<1> QED BY <1>7, <1>8

\* Requeued and moved tasks go to the queue of their own role.
LEMMA SuitsRelease ==
    ASSUME QueueInv, TypeOK', QueuesSuit, SameFields, Objects' = Objects,
           NEW gone, NEW overdue, NEW idle, Release(gone, overdue, idle)
    PROVE  QueuesSuit'
<1> DEFINE back(r) == {t \in TakenBack(gone, overdue) \cup Orphaned(gone) :
                           tasks[t].role = r}
<1>1. PICK line \in [Roles -> UNION {SetToSeqs(back(r)) : r \in Roles}] :
        /\ \A r \in Roles : line[r] \in SetToSeqs(back(r))
        /\ queues' = [o \in Owners |-> IF o \in Roles THEN queues[o] \o line[o]
                                       ELSE IF o \in gone THEN <<>>
                                       ELSE queues[o]]
  BY DEF Release
<1>2. \A r \in Roles : back(r) \subseteq TaskId
  BY DEF TakenBack, Orphaned, QueueInv, TypeOK
<1>3. \A r \in Roles : \A t \in back(r) : tasks[t].role = r
  OBVIOUS
<1> HIDE DEF back
<1>4. \A r \in Roles : line[r] \in Seq(back(r))
  BY <1>1, <1>2, OrderingProperties
<1>5. \A o \in Owners : queues[o] \in Seq(TaskId)
  BY DEF QueueInv, TypeOK
<1>6. SUFFICES ASSUME NEW o \in Owners, NEW i \in DOMAIN queues'[o],
                      queues'[o][i] \in Objects'
               PROVE  Suits(o, tasks'[queues'[o][i]])
  BY DEF QueuesSuit
<1>7. CASE o \in Roles
  <2>1. queues'[o] = queues[o] \o line[o]
    BY <1>1, <1>7
  <2>2. \/ i \in DOMAIN queues[o] /\ queues'[o][i] = queues[o][i]
        \/ queues'[o][i] \in back(o)
    BY <1>4, <1>5, <1>7, <2>1
  <2>3. queues'[o][i] \in back(o) => Suits(o, tasks'[queues'[o][i]])
    BY <1>3, <1>6, <1>7 DEF Suits, SameFields
  <2> QED BY <1>6, <2>2, <2>3, SuitsKept
<1>8. CASE o \notin Roles
  <2>1. queues'[o] = queues[o]
    BY <1>1, <1>6, <1>8
  <2> QED BY <1>6, <2>1, SuitsKept
<1> QED BY <1>7, <1>8

\* What is in a line of two queues is in one of them.
LEMMA ConcatSplit ==
    ASSUME NEW s \in Seq(TaskId), NEW t \in Seq(TaskId)
    PROVE  /\ DOMAIN (s \o t) = 1 .. Len(s \o t)
           /\ Len(s \o t) \in Nat /\ Len(s) \in Nat
           /\ \A i \in DOMAIN (s \o t) :
                 \/ i \in DOMAIN s /\ (s \o t)[i] = s[i]
                 \/ i - Len(s) \in DOMAIN t /\ (s \o t)[i] = t[i - Len(s)]
OBVIOUS

\* A poll leaves in a queue what was in it, and takes what suits the worker.
LEMMA ServedPoll ==
    ASSUME RouteInv, TypeOK', SameFields,
           NEW w \in Workers, NEW r \in Roles, NEW max \in BatchSizes, Poll(w, r, max)
    PROVE  QueuesSuit' /\ Served'
<1> DEFINE own == queues[w]
           line == own \o queues[r]
           taken(n) == {t \in TaskId : Waiting(t) /\ \E i \in 1 .. n : line[i] = t}
<1>1. QueueInv /\ TypeOK /\ QueuesSuit /\ Served
  BY DEF RouteInv, QueueInv
<1>2. /\ own \in Seq(TaskId) /\ queues[r] \in Seq(TaskId)
      /\ w \in Owners /\ r \in Owners /\ w # r /\ w \notin Roles
  BY <1>1 DEF TypeOK, Owners
<1>3. PICK n \in DOMAIN line :
        /\ queues' = [queues EXCEPT
                ![w] = After(own, n),
                ![r] = IF n > Len(own) THEN After(@, n - Len(own)) ELSE @]
        /\ held' = [held EXCEPT ![w] = @ \cup taken(n)]
  BY DEF Poll
<1>4. r \in MayServe[w] /\ nodes' = nodes
  <2>1. r \in IF nodes[w] = NoRole THEN MayServe[w] ELSE {nodes[w]}
    BY DEF Poll
  <2>2. nodes' = nodes
    BY DEF Poll
  <2> QED BY <1>1, <2>1, <2>2 DEF Served
<1>5. /\ n \in 1 .. Len(line) /\ DOMAIN line = 1 .. Len(line)
      /\ Len(line) \in Nat /\ Len(own) \in Nat
  BY <1>2, ConcatSplit
<1>6. \A t \in taken(n) : t \in Objects /\ tasks[t].role \in MayServe[w]
  <2> SUFFICES ASSUME NEW t \in taken(n) PROVE t \in Objects /\ tasks[t].role \in MayServe[w]
    OBVIOUS
  <2>1. t \in Objects
    BY <1>1 DEF Waiting, TypeOK, Objects
  <2>2. PICK i \in 1 .. n : line[i] = t
    OBVIOUS
  <2>3. i \in DOMAIN line
    <3> HIDE DEF line
    <3> QED BY <1>5
  <2>4. \/ i \in DOMAIN own /\ own[i] = t
        \/ i - Len(own) \in DOMAIN queues[r] /\ queues[r][i - Len(own)] = t
    <3>1. \/ i \in DOMAIN own /\ line[i] = own[i]
          \/ i - Len(own) \in DOMAIN queues[r] /\ line[i] = queues[r][i - Len(own)]
      BY <1>2, <2>3, ConcatSplit
    <3> HIDE DEF line, own
    <3> QED BY <2>2, <3>1
  <2>5. Suits(w, tasks[t]) \/ Suits(r, tasks[t])
    BY <1>1, <1>2, <2>1, <2>4 DEF QueuesSuit
  <2> QED BY <1>2, <1>4, <2>1, <2>5 DEF Suits
<1> HIDE DEF line, taken
<1>7. \A o \in Owners : \A i \in DOMAIN queues'[o] :
        \E j \in DOMAIN queues[o] : queues'[o][i] = queues[o][j]
  <2> SUFFICES ASSUME NEW o \in Owners, NEW i \in DOMAIN queues'[o]
               PROVE  \E j \in DOMAIN queues[o] : queues'[o][i] = queues[o][j]
    OBVIOUS
  <2>1. CASE o = w
    <3>1. queues'[o] = After(own, n) /\ n \in Nat
      BY <1>1, <1>2, <1>3, <1>5, <2>1 DEF TypeOK
    <3> HIDE DEF own
    <3>2. \A k \in DOMAIN After(own, n) :
             k + n \in DOMAIN own /\ After(own, n)[k] = own[k + n]
      BY <1>2, <3>1, AfterProperties
    <3>3. i + n \in DOMAIN own /\ queues'[o][i] = own[i + n]
      BY <3>1, <3>2
    <3> QED BY <2>1, <3>3 DEF own
  <2>2. CASE o = r /\ n > Len(own)
    <3> DEFINE m == n - Len(own)
    <3>1. queues'[o] = After(queues[r], m)
      BY <1>1, <1>2, <1>3, <2>2 DEF TypeOK
    <3> HIDE DEF own
    <3>2. m \in Nat
      BY <1>5, <2>2
    <3> HIDE DEF m
    <3>3. \A k \in DOMAIN After(queues[r], m) :
             k + m \in DOMAIN queues[r] /\ After(queues[r], m)[k] = queues[r][k + m]
      <4>1. \A q \in Seq(TaskId), j \in Nat : \A k \in DOMAIN After(q, j) :
               k + j \in DOMAIN q /\ After(q, j)[k] = q[k + j]
        BY AfterProperties
      <4> QED BY <1>2, <3>2, <4>1
    <3>4. i + m \in DOMAIN queues[r] /\ queues'[o][i] = queues[r][i + m]
      BY <3>1, <3>3
    <3> QED BY <2>2, <3>4
  <2>3. CASE o # w /\ ~(o = r /\ n > Len(own))
    <3>1. queues'[o] = queues[o]
      BY <1>1, <1>2, <1>3, <2>3 DEF TypeOK
    <3> QED BY <3>1
  <2> QED BY <2>1, <2>2, <2>3
<1>8. QueuesSuit'
  <2> SUFFICES ASSUME NEW o \in Owners, NEW i \in DOMAIN queues'[o],
                      queues'[o][i] \in Objects'
               PROVE  Suits(o, tasks'[queues'[o][i]])
    BY DEF QueuesSuit
  <2>1. PICK j \in DOMAIN queues[o] : queues'[o][i] = queues[o][j]
    BY <1>7
  <2> QED BY <1>1, <2>1, SuitsKept
<1>9. Served'
  <2> SUFFICES ASSUME NEW v \in Workers, NEW t \in held'[v] \cap Objects'
               PROVE  tasks'[t].role \in MayServe[v]
    BY <1>1, <1>4 DEF Served
  <2>1. t \in held[v] \/ (v = w /\ t \in taken(n))
    BY <1>1, <1>3 DEF TypeOK
  <2>2. t \in Objects /\ tasks[t].role \in MayServe[v]
    <3>1. CASE t \in held[v]
      <4>1. t <= issued /\ t \in Nat /\ issued \in Nat
        BY <1>1, <3>1 DEF RouteInv, ChainInv, Rooted, TypeOK, TaskId
      <4> QED BY <1>1, <3>1, <4>1 DEF SameFields, Served
    <3> QED BY <1>6, <2>1, <3>1
  <2> QED BY <2>2 DEF SameFields
<1> QED BY <1>8, <1>9

\* A worker that gets no task has none that it may not serve.
LEMMA ServedSame ==
    ASSUME RouteInv, TypeOK', SameFields,
           \A v \in Workers : held'[v] \subseteq held[v],
           \A v \in Workers : nodes'[v] \in MayServe[v] \cup {NoRole}
    PROVE  Served'
<1> SUFFICES ASSUME NEW v \in Workers, NEW t \in held'[v] \cap Objects'
             PROVE  tasks'[t].role \in MayServe[v]
  BY DEF Served
<1>1. t \in held[v] /\ t <= issued /\ t \in Nat /\ issued \in Nat
  BY DEF RouteInv, ChainInv, Rooted, TypeOK, TaskId
<1> QED BY <1>1 DEF SameFields, RouteInv, Served

LEMMA ServedStep == RouteInv /\ TypeOK' /\ [Next]_vars => QueuesSuit' /\ Served'
<1> SUFFICES ASSUME RouteInv, TypeOK', [Next]_vars PROVE QueuesSuit' /\ Served'
  OBVIOUS
<1>1. QueueInv /\ ChainInv /\ QueuesSuit /\ Served /\ TypeOK /\ Shape
  BY StepShape DEF RouteInv, QueueInv
<1>2. SameFields
  BY <1>1, FieldsKept
<1>3. /\ \A v \in Workers : nodes[v] \in MayServe[v] \cup {NoRole}
      /\ Rooted
  BY <1>1 DEF Served, ChainInv
<1>4. ASSUME queues' = queues, \A v \in Workers : held'[v] \subseteq held[v],
             \A v \in Workers : nodes'[v] \in MayServe[v] \cup {NoRole}
      PROVE  QueuesSuit' /\ Served'
  BY <1>1, <1>2, <1>4, SuitsSame, ServedSame
<1>5. ASSUME NEW w \in Workers, NEW r \in Roles, NEW claims \in SUBSET Sessions,
             Register(w, r, claims)
      PROVE  QueuesSuit' /\ Served'
  <2>1. \A v \in Workers : nodes'[v] \in MayServe[v] \cup {NoRole}
    BY <1>1, <1>3, <1>5 DEF Register, TypeOK
  <2> QED BY <1>4, <1>5, <2>1 DEF Register
<1>6. ASSUME NEW w \in Workers, Deregister(w) PROVE QueuesSuit' /\ Served'
  <2>1. \A v \in Workers : held'[v] \subseteq held[v]
    BY <1>1, <1>6 DEF Deregister, TypeOK
  <2>2. CASE nodes[w] = NoRole
    BY <1>3, <1>4, <1>6, <2>1, <2>2 DEF Deregister, relayVars
  <2>3. CASE nodes[w] # NoRole
    <3>1. Release({w}, {}, {}) /\ nodes' = [nodes EXCEPT ![w] = NoRole]
      BY <1>6, <2>3 DEF Deregister
    <3>2. \A v \in Workers : nodes'[v] \in MayServe[v] \cup {NoRole}
      BY <1>1, <1>3, <3>1 DEF TypeOK
    <3>3. Objects' = Objects
      BY <1>1, <3>1, ReleaseMoves
    <3> QED BY <1>1, <1>2, <2>1, <3>1, <3>2, <3>3, SuitsRelease, ServedSame
  <2> QED BY <2>2, <2>3
<1>7. ASSUME NEW w \in Workers, NEW r \in Roles, NEW max \in BatchSizes, Poll(w, r, max)
      PROVE  QueuesSuit' /\ Served'
  BY <1>2, <1>7, ServedPoll
<1>8. ASSUME NEW w \in Workers, NEW t \in TaskId, Forward(w, t)
      PROVE  QueuesSuit' /\ Served'
  <2> DEFINE left == [tasks EXCEPT ![t].status = "FORWARDED",
                                   ![t].done = t # tasks[t].root]
             next == NextStep(t, w)
  <2>1. /\ issued' = issued + 1 /\ issued' \in TaskId /\ issued' \in Objects'
        /\ tasks'[issued'] = next
        /\ \A v \in Workers : held'[v] \subseteq held[v]
    BY <1>1, <1>3, <1>8, ForwardFields
  <2>2. Enqueue(left, issued + 1, next) /\ nodes' = nodes
    BY <1>8 DEF Forward
  <2> HIDE DEF left, next
  <2>3. next \in Task
    BY <2>1 DEF TypeOK, Objects
  <2>4. QueuesSuit'
    BY <1>1, <1>2, <2>1, <2>2, <2>3, SuitsEnqueue
  <2> QED BY <1>2, <1>3, <2>1, <2>2, <2>4, ServedSame
<1>9. ASSUME NEW q \in Requests, Submit(q) PROVE QueuesSuit' /\ Served'
  <2> DEFINE new == NewTask(Head(q.path), Tail(q.path), issued + 1, q.session, <<>>)
  <2>1. /\ issued' = issued + 1 /\ issued' \in TaskId /\ issued' \in Objects'
        /\ tasks'[issued'] = new /\ held' = held
    BY <1>1, <1>3, <1>9, SubmitFields
  <2>2. Enqueue(tasks, issued + 1, new) /\ nodes' = nodes
    BY <1>9 DEF Submit
  <2> HIDE DEF new
  <2>3. new \in Task
    BY <2>1 DEF TypeOK, Objects
  <2>4. QueuesSuit'
    BY <1>1, <1>2, <2>1, <2>2, <2>3, SuitsEnqueue
  <2> QED BY <1>2, <1>3, <2>1, <2>2, <2>4, ServedSame
<1>10. ASSUME NEW overdue, NEW old \in SUBSET known, NEW idle, Sweep(overdue, old, idle)
       PROVE  QueuesSuit' /\ Served'
  <2>1. Release(silent, overdue, idle) /\ held' = held
    BY <1>10 DEF Sweep
  <2>2. \A v \in Workers : nodes'[v] \in MayServe[v] \cup {NoRole}
    BY <1>3, <1>10 DEF Sweep
  <2>3. Objects' = Objects
    BY <1>1, <2>1, ReleaseMoves
  <2> QED BY <1>1, <1>2, <2>1, <2>2, <2>3, SuitsRelease, ServedSame
<1>11. ASSUME Restart PROVE QueuesSuit' /\ Served'
  <2>1. Objects' = {} /\ \A v \in Workers : nodes'[v] = NoRole
    BY <1>11 DEF Restart, Objects
  <2> QED BY <2>1 DEF QueuesSuit, Served
<1>12. ASSUME NEW w \in Workers, NEW t \in TaskId,
              \/ Complete(w, t) \/ ResultRefused(w, t) \/ FailArrive(w, t)
              \/ FailFinish(w, t) \/ Abandon(w, t)
       PROVE  QueuesSuit' /\ Served'
  <2>1. \A v \in Workers : held'[v] \subseteq held[v]
    <3>1. held' = [held EXCEPT ![w] = @ \ {t}] \/ held' = held
      BY <1>12 DEF Complete, Reported, ResultRefused, FailArrive, FailFinish, Abandon
    <3>2. held \in [Workers -> SUBSET TaskId]
      BY <1>1 DEF TypeOK
    <3> QED BY <3>1, <3>2
  <2>2. queues' = queues /\ nodes' = nodes
    BY <1>12 DEF Complete, ResultRefused, FailArrive, FailFinish, Abandon
  <2> QED BY <1>3, <1>4, <2>1, <2>2
<1>13. ASSUME NEW w \in Workers, Heartbeat(w) \/ Silence(w) PROVE QueuesSuit' /\ Served'
  BY <1>3, <1>4, <1>13 DEF Heartbeat, Silence
<1>14. ASSUME UNCHANGED vars PROVE QueuesSuit' /\ Served'
  BY <1>3, <1>4, <1>14 DEF vars
<1>15. ASSUME NEW w \in Workers, NEW r \in Roles, NEW o \in Owners,
              PutBack(w, r, o) \/ PollCancelled(w, r, o)
       PROVE  QueuesSuit' /\ Served'
  <2>1. /\ queues[o] \in Seq(TaskId) /\ queues[o] # <<>>
        /\ queues' = [queues EXCEPT ![o] = Append(Tail(@), Head(@))]
           \/ queues' = [queues EXCEPT ![o] = Tail(@)]
        /\ nodes' = nodes /\ held' = held
    BY <1>1, <1>15, WaitedFor DEF Waited
  <2>2. Served'
    BY <1>2, <1>3, <2>1, ServedSame
  <2>3. ASSUME NEW p \in Owners, NEW i \in DOMAIN queues'[p]
        PROVE  \E j \in DOMAIN queues[p] : queues'[p][i] = queues[p][j]
    <3>1. CASE p # o
      BY <1>1, <2>1, <3>1 DEF TypeOK
    <3>2. CASE p = o
      <4> DEFINE q == queues[o]
      <4>1. queues'[o] = Append(Tail(q), Head(q)) \/ queues'[o] = Tail(q)
        BY <1>1, <2>1 DEF TypeOK
      <4>2. q \in Seq(TaskId) /\ q # <<>>
        BY <2>1
      <4> HIDE DEF q
      <4>3. \A k \in DOMAIN Append(Tail(q), Head(q)) :
               \E j \in DOMAIN q : Append(Tail(q), Head(q))[k] = q[j]
        BY <4>2
      <4>4. \A k \in DOMAIN Tail(q) : \E j \in DOMAIN q : Tail(q)[k] = q[j]
        BY <4>2, HeadProperties
      <4> QED BY <3>2, <4>1, <4>3, <4>4 DEF q
    <3> QED BY <3>1, <3>2
  <2>4. QueuesSuit'
    BY <1>1, <1>2, <2>3, SuitsKept DEF QueuesSuit
  <2> QED BY <2>2, <2>4
<1> QED
  BY <1>5, <1>6, <1>7, <1>8, <1>9, <1>10, <1>11, <1>12, <1>13, <1>14, <1>15
  DEF Next, Orderly, LostPoll, WorkerStep, PostResult, Janitor, Environment

\* The role of a step is the first one of what its route is the rest of.
LEMMA NextOfRoute ==
    ASSUME NEW path \in Seq(Roles), NEW k \in Nat, k < Len(path),
           SubSeq(path, k + 2, Len(path)) # <<>>
    PROVE  /\ k + 1 < Len(path)
           /\ Head(SubSeq(path, k + 2, Len(path))) = path[k + 2]
           /\ Tail(SubSeq(path, k + 2, Len(path))) = SubSeq(path, k + 3, Len(path))
<1>1. k + 2 <= Len(path)
  OBVIOUS
<1> QED BY <1>1

LEMMA FirstOfRoute ==
    ASSUME NEW role \in Roles, NEW route \in Seq(Roles)
    PROVE  LET path == <<role>> \o route
           IN  /\ Len(path) > 0
               /\ path[1] = role
               /\ route = SubSeq(path, 2, Len(path))
OBVIOUS

\* The next step has the next role, and one more worker behind it.
LEMMA FollowForward ==
    ASSUME RouteInv, NEW w \in Workers, NEW t \in TaskId, Forward(w, t), TypeOK'
    PROVE  StepsFollow'
<1> DEFINE n == issued'
           root == tasks[t].root
           path == Path(tasks[root])
           k == Len(tasks[t].payload)
<1>1. TypeOK /\ Rooted /\ Served /\ StepsFollow
  BY DEF RouteInv, ChainInv
<1>2. /\ t \in Objects /\ t \in held[w] /\ tasks[t].route # <<>>
      /\ n \in TaskId \ Objects /\ Objects' = Objects \cup {n}
      /\ tasks'[n] = NextStep(t, w)
      /\ \A u \in Objects : u # t => tasks'[u] = tasks[u]
  BY <1>1, ForwardFields
<1>3. /\ tasks'[t].role = tasks[t].role /\ tasks'[t].route = tasks[t].route
      /\ tasks'[t].root = tasks[t].root /\ tasks'[t].payload = tasks[t].payload
  BY <1>1, ForwardFields
<1>4. \A u \in Objects :
         /\ tasks'[u].role = tasks[u].role /\ tasks'[u].route = tasks[u].route
         /\ tasks'[u].root = tasks[u].root /\ tasks'[u].payload = tasks[u].payload
         /\ tasks[u].root \in Objects
  BY <1>1, <1>2, <1>3 DEF Rooted
<1>5. \A u \in Objects : Path(tasks'[tasks'[u].root]) = Path(tasks[tasks[u].root])
  BY <1>4 DEF Path
<1>6. /\ tasks[t] \in Task /\ tasks[root] \in Task
      /\ path \in Seq(Roles) /\ k \in Nat /\ tasks[t].payload \in Seq(Workers)
  <2>1. tasks[t] \in Task /\ tasks[root] \in Task
    BY <1>1, <1>2, <1>4 DEF TypeOK, Objects
  <2>2. /\ tasks[root].role \in Roles /\ tasks[root].route \in Seq(Roles)
        /\ tasks[t].payload \in Seq(Workers)
    BY <2>1 DEF Task
  <2> QED BY <2>1, <2>2 DEF Path
<1>7. /\ k < Len(path) /\ path[k + 1] = tasks[t].role
      /\ tasks[t].route = SubSeq(path, k + 2, Len(path))
      /\ \A i \in 1 .. k : path[i] \in MayServe[tasks[t].payload[i]]
  BY <1>1, <1>2 DEF StepsFollow, Follows
<1>8. tasks[t].role \in MayServe[w]
  BY <1>1, <1>2 DEF Served
<1>9. /\ tasks'[n].role = Head(tasks[t].route) /\ tasks'[n].route = Tail(tasks[t].route)
      /\ tasks'[n].root = root /\ tasks'[n].payload = Append(tasks[t].payload, w)
  BY <1>2 DEF NextStep, NewTask, Answer
<1>10. Path(tasks'[tasks'[n].root]) = path
  BY <1>2, <1>3, <1>5, <1>9
<1>11. Len(tasks'[n].payload) = k + 1
  BY <1>6, <1>9
<1>12. \A i \in 1 .. k + 1 : path[i] \in MayServe[tasks'[n].payload[i]]
  <2> SUFFICES ASSUME NEW i \in 1 .. k + 1 PROVE path[i] \in MayServe[tasks'[n].payload[i]]
    OBVIOUS
  <2>1. tasks'[n].payload[i] = IF i \in 1 .. k THEN tasks[t].payload[i] ELSE w
    BY <1>6, <1>9
  <2> HIDE DEF path, k
  <2>2. i \in 1 .. k \/ i = k + 1
    BY <1>6
  <2>3. k + 1 \notin 1 .. k
    BY <1>6
  <2> QED BY <1>7, <1>8, <2>1, <2>2, <2>3
<1> HIDE DEF n, path, k
<1>13. /\ k + 1 < Len(path)
       /\ tasks'[n].role = path[k + 2]
       /\ tasks'[n].route = SubSeq(path, k + 3, Len(path))
  BY <1>2, <1>6, <1>7, <1>9, NextOfRoute
<1>14. (k + 1) + 1 = k + 2 /\ (k + 1) + 2 = k + 3
  BY <1>6
<1>15. Follows(tasks'[n], path)
  BY <1>11, <1>12, <1>13, <1>14 DEF Follows
<1>16. \A u \in Objects : Follows(tasks'[u], Path(tasks'[tasks'[u].root]))
  BY <1>1, <1>4, <1>5 DEF Follows, StepsFollow
<1> QED BY <1>2, <1>10, <1>15, <1>16 DEF StepsFollow

LEMMA FollowSubmit ==
    ASSUME RouteInv, NEW q \in Requests, Submit(q), TypeOK'
    PROVE  StepsFollow'
<1> DEFINE n == issued'
<1>1. TypeOK /\ Rooted /\ StepsFollow
  BY DEF RouteInv, ChainInv
<1>2. /\ n \in TaskId \ Objects /\ Objects' = Objects \cup {n}
      /\ tasks'[n] = NewTask(Head(q.path), Tail(q.path), n, q.session, <<>>)
      /\ \A u \in Objects : tasks'[u] = tasks[u]
  BY <1>1, SubmitFields
<1>3. tasks'[n].root = n /\ tasks'[n].payload = <<>>
  BY <1>2 DEF NewTask
<1>4. tasks'[n].role \in Roles /\ tasks'[n].route \in Seq(Roles)
  BY <1>2 DEF TypeOK, Objects, Task
<1>5. \A u \in Objects : tasks[u].root \in Objects
  BY <1>1 DEF Rooted
<1> HIDE DEF n
<1>6. Follows(tasks'[n], Path(tasks'[n]))
  <2>1. Len(tasks'[n].payload) = 0 /\ 1 .. 0 = {}
    BY <1>3
  <2>2. /\ Len(Path(tasks'[n])) > 0
        /\ Path(tasks'[n])[1] = tasks'[n].role
        /\ tasks'[n].route = SubSeq(Path(tasks'[n]), 2, Len(Path(tasks'[n])))
    BY <1>4, FirstOfRoute DEF Path
  <2> QED BY <2>1, <2>2 DEF Follows
<1>7. \A u \in Objects : Follows(tasks'[u], Path(tasks'[tasks'[u].root]))
  BY <1>1, <1>2, <1>5 DEF StepsFollow
<1> QED BY <1>2, <1>3, <1>6, <1>7 DEF StepsFollow

LEMMA RouteStep == RouteInv /\ [Next]_vars => RouteInv'
<1> SUFFICES ASSUME RouteInv, [Next]_vars PROVE RouteInv'
  OBVIOUS
<1>1. /\ QueueInv /\ ChainInv /\ StepsFollow /\ TypeOK' /\ Shape
      /\ QueueInv' /\ ChainInv'
  BY QueueStep, ChainStep, TypeStep, StepShape DEF RouteInv, ChainInv
<1>2. QueuesSuit' /\ Served'
  BY <1>1, ServedStep
<1>3. SameFields /\ Rooted
  BY <1>1, FieldsKept DEF ChainInv
<1>4. ASSUME Objects' \subseteq Objects PROVE StepsFollow'
  <2>1. \A u \in Objects' :
          /\ u \in Objects /\ tasks[u].root \in Objects'
          /\ tasks'[u].role = tasks[u].role /\ tasks'[u].route = tasks[u].route
          /\ tasks'[u].root = tasks[u].root /\ tasks'[u].payload = tasks[u].payload
    BY <1>1, <1>3, <1>4 DEF SameFields, ChainInv, Rooted
  <2>2. \A u \in Objects' : Path(tasks'[tasks'[u].root]) = Path(tasks[tasks[u].root])
    BY <2>1 DEF Path
  <2> QED BY <1>1, <2>1, <2>2 DEF StepsFollow, Follows
<1>5. ASSUME Kept \/ Restart PROVE StepsFollow'
  BY <1>4, <1>5 DEF Kept, Restart, Objects
<1>6. ASSUME NEW w \in Workers, NEW t \in TaskId, Complete(w, t) \/ FailFinish(w, t)
      PROVE  StepsFollow'
  <2>1. PICK status \in FINISHED : tasks' = Finished(tasks, t, status, Answer(t, w))
    BY <1>6 DEF Complete, FailFinish, FINISHED
  <2>2. t \in Objects
    BY <1>1, <1>6 DEF Complete, ResultAccepted, FailFinish, Objects, ChainInv, TypeOK
  <2>3. Answer(t, w) \in Seq(Workers)
    BY <1>1, <2>2 DEF Answer, Task, ChainInv, TypeOK, Objects
  <2>4. Objects' = Objects
    BY <1>1, <2>1, <2>2, <2>3, FinishedFields DEF ChainInv
  <2> QED BY <1>4, <2>4
<1>7. StepsFollow'
  BY <1>1, <1>5, <1>6, FollowForward, FollowSubmit DEF Shape
<1> QED BY <1>1, <1>2, <1>7 DEF RouteInv

LEMMA RouteInit == Init => RouteInv
<1> SUFFICES ASSUME Init PROVE RouteInv
  OBVIOUS
<1>1. /\ Objects = {} /\ \A w \in Workers : nodes[w] = NoRole
  BY DEF Init, Nothing, Objects
<1> QED BY <1>1, QueueInit, ChainInit DEF RouteInv, QueuesSuit, Served, StepsFollow, Init, Nothing

\* Whatever is requeued, repeated, late or forgotten, the k-th step of a chain is
\* for the k-th role of the submitted route, and its payload has passed workers
\* of the roles before, in order (relay.py _forward, _take).
THEOREM RoutesAreFollowed == Spec => []RouteFollowed
<1>1. RouteInv => RouteFollowed
  BY DEF RouteInv, ChainInv, TypeOK, StepsFollow, Follows, RouteFollowed, Objects
<1> QED BY <1>1, RouteInit, RouteStep, PTL DEF Spec

-----------------------------------------------------------------------------
(* Whose result counts *)

\* A task that a worker is computing is ended as COMPLETED by that worker, and
\* forwarded with what that worker added: no late result takes its place
\* (relay.py post_result, _check_worker).
LEMMA AssigneeStep ==
    ASSUME ChainInv, [Next]_vars,
           NEW t \in known, Assigned(t), tasks'[t] # NoTask
    PROVE  /\ tasks'[t].status = "COMPLETED" => Last(tasks'[t].result) = tasks[t].worker
           /\ tasks'[t].status = "FORWARDED" => Last(tasks'[issued'].payload) = tasks[t].worker
<1>1. /\ TypeOK /\ TypeOK' /\ Shape /\ Rooted
      /\ t \in Objects /\ tasks[t].status = "ASSIGNED"
      /\ tasks[t].worker # NoWorker /\ ~tasks[t].done
  BY TypeStep, StepShape
     DEF ChainInv, TypeOK, Objects, Assigned, DoneIsLast, Unfinished
<1>2. \A u \in Objects, v \in Workers :
         LET body == Answer(u, v)
         IN  body \in Seq(Workers) /\ Last(body) = v
  <2> SUFFICES ASSUME NEW u \in Objects, NEW v \in Workers
               PROVE  Answer(u, v) \in Seq(Workers) /\ Last(Answer(u, v)) = v
    OBVIOUS
  <2>1. tasks[u].payload \in Seq(Workers)
    BY <1>1 DEF TypeOK, Objects, Task
  <2> QED BY <2>1 DEF Answer, Last
<1>3. CASE Kept
  BY <1>1, <1>3 DEF Kept, Moves, Unfinished
<1>4. ASSUME NEW w \in Workers, NEW u \in TaskId, Complete(w, u)
      PROVE  /\ tasks'[t].status = "COMPLETED" => Last(tasks'[t].result) = tasks[t].worker
             /\ tasks'[t].status # "FORWARDED"
  <2>1. /\ u \in Objects /\ tasks[u].status \in Unfinished /\ WorkerAccepted(w, u)
        /\ tasks' = Finished(tasks, u, "COMPLETED", Answer(u, w))
    BY <1>1, <1>4 DEF Complete, ResultAccepted, Objects, TypeOK, Task
  <2>2. /\ t \notin Ended(u) \/ tasks[t].done => tasks'[t] = tasks[t]
        /\ t \in Ended(u) /\ ~tasks[t].done =>
              Outcome(tasks[t], tasks'[t], "COMPLETED", Answer(u, w))
    BY <1>1, <1>2, <2>1, FinishedFields DEF FINISHED
  <2>3. CASE t \notin Ended(u)
    BY <1>1, <2>2, <2>3
  <2>4. CASE t \in Ended(u)
    <3>1. t = u
      <4>1. t = u \/ t = tasks[u].root
        BY <2>4 DEF Ended
      <4>2. t = tasks[u].root => tasks[t].root = tasks[u].root
        BY <1>1, <2>1 DEF Rooted
      <4> QED BY <1>1, <2>1, <4>1, <4>2 DEF ChainInv, OneOpenObject, Unfinished
    <3>2. tasks[t].worker = w
      BY <1>1, <2>1, <3>1 DEF WorkerAccepted
    <3> QED BY <1>1, <1>2, <2>1, <2>2, <2>4, <3>2 DEF Outcome
  <2> QED BY <2>3, <2>4
<1>5. ASSUME NEW w \in Workers, NEW u \in TaskId, FailFinish(w, u)
      PROVE  tasks'[t].status \notin {"COMPLETED", "FORWARDED"}
  <2>1. u \in Objects /\ tasks' = Finished(tasks, u, "FAILED", Answer(u, w))
    BY <1>1, <1>5 DEF FailFinish, Objects, TypeOK
  <2>2. \/ tasks'[t] = tasks[t]
        \/ Outcome(tasks[t], tasks'[t], "FAILED", Answer(u, w))
    BY <1>1, <1>2, <2>1, FinishedFields DEF FINISHED
  <2> QED BY <1>1, <2>2 DEF Outcome
<1>6. ASSUME NEW w \in Workers, NEW u \in TaskId, Forward(w, u)
      PROVE  /\ tasks'[t].status # "COMPLETED"
             /\ tasks'[t].status = "FORWARDED" =>
                   Last(tasks'[issued'].payload) = tasks[t].worker
  <2>1. /\ u \in Objects /\ WorkerAccepted(w, u)
        /\ tasks'[issued'] = NextStep(u, w)
        /\ tasks'[u].status = "FORWARDED"
        /\ \A x \in Objects : x # u => tasks'[x] = tasks[x]
    BY <1>1, <1>6, ForwardFields
  <2>2. CASE t # u
    BY <1>1, <2>1, <2>2
  <2>3. CASE t = u
    <3>1. tasks[t].worker = w
      BY <1>1, <2>1, <2>3 DEF WorkerAccepted
    <3>2. tasks'[issued'].payload = Answer(u, w)
      BY <2>1 DEF NextStep, NewTask
    <3> QED BY <1>2, <2>1, <2>3, <3>1, <3>2
  <2> QED BY <2>2, <2>3
<1>7. ASSUME NEW q \in Requests, Submit(q) PROVE tasks'[t] = tasks[t]
  BY <1>1, <1>7, SubmitFields
<1>8. ~Restart
  BY <1>1 DEF Restart, Objects
<1> QED BY <1>1, <1>3, <1>4, <1>5, <1>6, <1>7, <1>8 DEF Shape

\* A result for an assigned task is its assignee's (relay.py post_result).
THEOREM ResultsFromAssignee == Spec => ResultFromAssignee
<1>1. ChainInv /\ [Next]_vars =>
        [\A t \in known :
           /\ Assigned(t) /\ tasks'[t] # NoTask
           => /\ tasks'[t].status = "COMPLETED" =>
                     Last(tasks'[t].result) = tasks[t].worker
              /\ tasks'[t].status = "FORWARDED" =>
                     Last(tasks'[issued'].payload) = tasks[t].worker]_vars
  BY AssigneeStep
<1> QED BY <1>1, ChainInit, ChainStep, PTL DEF Spec, ResultFromAssignee

-----------------------------------------------------------------------------
(* The relay implements TaskService *)

\* What a client sees of task t.
Seen(t) == IF t > issued THEN [status |-> "new", result |-> <<>>] ELSE View(t)

SeenView == [t \in TaskId |-> Seen(t)]

BodiesSeen == UNION {[1 .. n -> Workers] : n \in 0 .. MaxTasks}

LEMMA BodyIsBody ==
    ASSUME NEW body \in Seq(Workers), Len(body) <= MaxTasks
    PROVE  body \in BodiesSeen
<1>1. Len(body) \in 0 .. MaxTasks /\ body \in [1 .. Len(body) -> Workers]
  OBVIOUS
<1> QED BY <1>1 DEF BodiesSeen

\* What a task in the table looks like.
LEMMA SeenKnown ==
    ASSUME ChainInv, NEW t \in TaskId
    PROVE  /\ t > issued => t \notin known /\ t \notin Objects /\ Seen(t) = Service!New
           /\ t \notin known /\ ~(t > issued) => Seen(t) = Service!Gone
           /\ t \in known /\ tasks[t].status \in {"COMPLETED", "FAILED"} =>
                 /\ tasks[t].done
                 /\ Seen(t) = [status |-> tasks[t].status, result |-> tasks[t].result]
           /\ t \in known /\ tasks[t].status \notin {"COMPLETED", "FAILED"} =>
                 Seen(t) = Service!WaitingView
<1>1. known \subseteq Objects /\ t \in Nat /\ issued \in Nat
  BY DEF ChainInv, TypeOK, Objects, TaskId
<1>2. t \in Objects => ~(t > issued)
  BY <1>1 DEF ChainInv, Rooted
<1>3. t \in known /\ tasks[t].status \in {"COMPLETED", "FAILED"} => tasks[t].done
  BY <1>1 DEF ChainInv, DoneIsLast
<1> QED BY <1>1, <1>2, <1>3
        DEF Seen, View, Service!New, Service!Gone, Service!WaitingView

SeenTyped == SeenView \in [TaskId -> Service!AnswerView \cup
                              {Service!New, Service!WaitingView, Service!Gone}]

LEMMA SeenType == ChainInv => SeenTyped
<1> SUFFICES ASSUME ChainInv, NEW t \in TaskId
             PROVE  Seen(t) \in Service!AnswerView \cup
                        {Service!New, Service!WaitingView, Service!Gone}
  BY DEF SeenTyped, SeenView
<1>1. CASE t \in known /\ tasks[t].status \in {"COMPLETED", "FAILED"}
  <2>1. tasks[t].result \in Seq(Workers) /\ Len(tasks[t].result) <= MaxTasks
    BY <1>1 DEF ChainInv, TypeOK, Objects, Task, ShortBodies
  <2>2. tasks[t].result \in BodiesSeen
    BY <2>1, BodyIsBody
  <2> QED BY <1>1, <2>2, SeenKnown DEF Service!AnswerView, BodiesSeen
<1> QED BY <1>1, SeenKnown

LEMMA ServiceInit == Init => Service!Init
<1> SUFFICES ASSUME Init PROVE Service!Init
  OBVIOUS
<1>1. \A t \in TaskId : t > issued
  BY DEF Init, TaskId
<1> QED BY <1>1 DEF Service!Init, Service!New

\* A step changes what clients see in one of three ways, or not at all.
LEMMA ServiceStep ==
    ASSUME ChainInv, ChainInv', [Next]_vars
    PROVE  \/ \A t \in TaskId : \/ Seen(t)' = Seen(t)
                                \/ Seen(t) = Service!New /\ Seen(t)' = Service!WaitingView
                                \/ Seen(t) # Service!New /\ Seen(t)' = Service!Gone
           \/ \E answer \in Service!AnswerView :
                \A t \in TaskId : \/ Seen(t)' = Seen(t)
                                  \/ Seen(t) = Service!WaitingView /\ Seen(t)' = answer
<1>1. /\ Shape /\ TypeOK /\ TypeOK' /\ Rooted /\ known \subseteq Objects
      /\ issued \in Nat /\ \A t \in TaskId : t \in Nat
  BY StepShape, TypeStep DEF ChainInv, TypeOK, Objects, TaskId
<1>2. /\ Service!New # Service!Gone
      /\ \A t \in known : t \in TaskId /\ Seen(t) # Service!New
  BY <1>1, SeenKnown DEF Service!New, Service!Gone, Service!WaitingView, Objects
<1>3. CASE Kept
  <2> SUFFICES ASSUME NEW t \in TaskId
               PROVE  Seen(t)' = Seen(t) \/ (Seen(t) # Service!New /\ Seen(t)' = Service!Gone)
    OBVIOUS
  <2>1. issued' = issued /\ known' \subseteq known
    BY <1>3 DEF Kept
  <2>2. CASE t \notin known
    BY <2>1, <2>2 DEF Seen, View
  <2>3. CASE t \in known /\ t \notin known'
    <3>1. ~(t > issued)
      BY <2>3, SeenKnown
    <3> QED BY <1>2, <2>1, <2>3, <3>1 DEF Seen, View, Service!Gone
  <2>4. CASE t \in known'
    <3>1. Moves(tasks[t], tasks'[t])
      BY <1>1, <1>3, <2>1, <2>4 DEF Kept
    <3> QED BY <2>1, <2>4, <3>1 DEF Seen, View, Moves, Unfinished
  <2> QED BY <2>2, <2>3, <2>4
<1>4. ASSUME NEW w \in Workers, NEW t \in Objects, NEW status \in {"COMPLETED", "FAILED"},
             tasks' = Finished(tasks, t, status, Answer(t, w)),
             known' = known, issued' = issued
      PROVE  \E answer \in Service!AnswerView :
                \A u \in TaskId : \/ Seen(u)' = Seen(u)
                                  \/ Seen(u) = Service!WaitingView /\ Seen(u)' = answer
  <2> DEFINE body == Answer(t, w)
             answer == [status |-> status, result |-> body]
  <2>1. body \in Seq(Workers) /\ Len(body) <= MaxTasks
    <3>1. tasks[t].payload \in Seq(Workers) /\ Len(tasks[t].payload) < t /\ t <= MaxTasks
      BY <1>1 DEF TypeOK, Objects, Task, TaskId, ChainInv, ShortBodies
    <3>2. body \in Seq(Workers) /\ Len(body) = Len(tasks[t].payload) + 1
      BY <3>1 DEF Answer
    <3> HIDE DEF body
    <3> QED BY <1>1, <3>1, <3>2 DEF Objects
  <2>2. answer \in Service!AnswerView
    BY <2>1, BodyIsBody DEF Service!AnswerView, BodiesSeen
  <2> HIDE DEF body
  <2>3. \A u \in Objects :
          \/ tasks'[u] = tasks[u]
          \/ ~tasks[u].done /\ Outcome(tasks[u], tasks'[u], status, body)
    BY <1>1, <1>4, <2>1, FinishedFields DEF body, FINISHED
  <2>4. ASSUME NEW u \in TaskId
        PROVE  \/ Seen(u)' = Seen(u)
               \/ Seen(u) = Service!WaitingView /\ Seen(u)' = answer
    <3>1. CASE u \notin known \/ tasks'[u] = tasks[u]
      BY <1>4, <3>1 DEF Seen, View
    <3>2. CASE u \in known /\ ~tasks[u].done /\ Outcome(tasks[u], tasks'[u], status, body)
      <4>1. Seen(u) = Service!WaitingView /\ ~(u > issued)
        BY <3>2, SeenKnown
      <4>2. Seen(u)' = answer
        BY <1>4, <3>2, <4>1 DEF Seen, View, Outcome
      <4> QED BY <4>1, <4>2
    <3> QED BY <1>1, <2>3, <3>1, <3>2
  <2> QED BY <2>2, <2>4
<1>5. ASSUME NEW w \in Workers, NEW t \in TaskId, Complete(w, t) \/ FailFinish(w, t)
      PROVE  \E answer \in Service!AnswerView :
                \A u \in TaskId : \/ Seen(u)' = Seen(u)
                                  \/ Seen(u) = Service!WaitingView /\ Seen(u)' = answer
  <2>1. t \in Objects /\ known' = known /\ issued' = issued
    BY <1>1, <1>5 DEF Complete, ResultAccepted, FailFinish, Objects, TypeOK
  <2>2. PICK status \in {"COMPLETED", "FAILED"} :
           tasks' = Finished(tasks, t, status, Answer(t, w))
    BY <1>5 DEF Complete, FailFinish
  <2> QED BY <1>4, <2>1, <2>2
<1>6. ASSUME issued' = issued + 1, issued' \in TaskId \ Objects,
             known' = known \cup {issued'}, tasks'[issued'].status = "PENDING",
             \A u \in Objects :
                \/ tasks'[u] = tasks[u]
                \/ {tasks[u].status, tasks'[u].status} \cap {"COMPLETED", "FAILED"} = {},
             NEW t \in TaskId
      PROVE  \/ Seen(t)' = Seen(t)
             \/ Seen(t) = Service!New /\ Seen(t)' = Service!WaitingView
  <2>1. CASE t = issued'
    <3>1. t > issued /\ ~(t > issued')
      BY <1>1, <1>6, <2>1
    <3>2. Seen(t) = Service!New
      BY <3>1, SeenKnown
    <3>3. t \in known' /\ tasks'[t].status = "PENDING"
      BY <1>6, <2>1
    <3>4. Seen(t)' = Service!WaitingView
      BY <3>1, <3>3 DEF Seen, View, Service!WaitingView
    <3> QED BY <3>2, <3>4
  <2>2. CASE t # issued'
    <3>1. t > issued' <=> t > issued
      BY <1>1, <1>6, <2>2
    <3>2. t \in known' <=> t \in known
      BY <1>6, <2>2
    <3> QED BY <1>1, <1>6, <3>1, <3>2 DEF Seen, View
  <2> QED BY <2>1, <2>2
<1>7. ASSUME NEW w \in Workers, NEW t \in TaskId, Forward(w, t), NEW u \in TaskId
      PROVE  \/ Seen(u)' = Seen(u)
             \/ Seen(u) = Service!New /\ Seen(u)' = Service!WaitingView
  <2>1. /\ issued' = issued + 1 /\ issued' \in TaskId \ Objects
        /\ known' = known \cup {issued'} /\ tasks'[issued'] = NextStep(t, w)
        /\ tasks[t].status \in Unfinished /\ tasks'[t].status = "FORWARDED"
        /\ \A x \in Objects : x # t => tasks'[x] = tasks[x]
    BY <1>1, <1>7, ForwardFields
  <2>2. tasks'[issued'].status = "PENDING"
    BY <2>1 DEF NextStep, NewTask
  <2> QED BY <1>6, <2>1, <2>2 DEF Unfinished
<1>8. ASSUME NEW q \in Requests, Submit(q), NEW u \in TaskId
      PROVE  \/ Seen(u)' = Seen(u)
             \/ Seen(u) = Service!New /\ Seen(u)' = Service!WaitingView
  <2>1. /\ issued' = issued + 1 /\ issued' \in TaskId \ Objects
        /\ known' = known \cup {issued'}
        /\ tasks'[issued'] = NewTask(Head(q.path), Tail(q.path), issued', q.session, <<>>)
        /\ \A x \in Objects : tasks'[x] = tasks[x]
    BY <1>1, <1>8, SubmitFields
  <2>2. tasks'[issued'].status = "PENDING"
    BY <2>1 DEF NewTask
  <2> QED BY <1>6, <2>1, <2>2
<1>9. ASSUME Restart, NEW t \in TaskId
      PROVE  Seen(t)' = Seen(t) \/ (Seen(t) # Service!New /\ Seen(t)' = Service!Gone)
  <2>1. known' = {} /\ issued' = issued
    BY <1>9 DEF Restart
  <2>2. CASE t \notin known
    BY <2>1, <2>2 DEF Seen, View
  <2>3. CASE t \in known
    <3>1. ~(t > issued)
      BY <2>3, SeenKnown
    <3> QED BY <1>2, <2>1, <2>3, <3>1 DEF Seen, View, Service!Gone
  <2> QED BY <2>2, <2>3
<1> QED BY <1>1, <1>3, <1>5, <1>7, <1>8, <1>9 DEF Shape

\* Every behaviour of the relay is one of TaskService to its clients: at most one
\* answer per task, which never changes, and none after it was forgotten.
THEOREM RelayImplementsTaskService == Spec => ImplementsTaskService
<1>1. ChainInv /\ ChainInv' /\ [Next]_vars => Service!Next \/ UNCHANGED SeenView
  <2> SUFFICES ASSUME ChainInv, ChainInv', [Next]_vars PROVE Service!Next
    OBVIOUS
  <2>1. SeenView' \in [TaskId -> Service!AnswerView \cup
                          {Service!New, Service!WaitingView, Service!Gone}]
    <3>1. SeenTyped'
      BY SeenType, PTL
    <3> QED BY <3>1 DEF SeenTyped
  <2>2. \A t \in TaskId : SeenView[t] = Seen(t) /\ SeenView'[t] = Seen(t)'
    BY DEF SeenView
  <2> QED BY <2>1, <2>2, ServiceStep
          DEF Service!Next, Service!Submitted, Service!Answered, Service!Forgotten,
              SeenView, Seen
<1> QED BY <1>1, ServiceInit, ChainInit, ChainStep, PTL
        DEF Spec, ImplementsTaskService, Service!Spec, SeenView, Seen
=============================================================================
