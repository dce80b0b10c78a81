--------------------------- MODULE ClusterProofs ---------------------------
(***************************************************************************)
(* Theorems about worker processes, the relay and client calls together,   *)
(* for every number of each and any budget of faults: a call gets its own  *)
(* result, or fails for its own sake.                                      *)
(***************************************************************************)
EXTENDS Cluster, FiniteSetTheorems, TLAPS

\* What is proved of the relay alone.
CP == INSTANCE RelayProofs

-----------------------------------------------------------------------------
(* Relay, as this module and as those proofs instantiate it, is one module *)

LEMMA RelayAssumptions == CP!NamesAssumption /\ CP!BoundsAssumption /\ CP!NoTaskAssumption
<1>1. CP!NamesAssumption
  BY RelayAssumption DEF R!NamesAssumption, CP!NamesAssumption
<1>2. CP!BoundsAssumption
  BY RelayAssumption DEF R!BoundsAssumption, CP!BoundsAssumption
<1>3. CP!NoTaskAssumption
  BY RelayAssumption DEF R!NoTaskAssumption, CP!NoTaskAssumption, R!Task, CP!Task,
     R!TaskId, CP!TaskId, R!Unfinished, CP!Unfinished, R!FINISHED, CP!FINISHED
<1> QED BY <1>1, <1>2, <1>3

LEMMA SameTypes == R!TypeOK <=> CP!TypeOK
BY Zenon DEF R!TypeOK, CP!TypeOK, R!Task, CP!Task, R!TaskId, CP!TaskId, R!Owners, CP!Owners,
             R!Unfinished, CP!Unfinished, R!FINISHED, CP!FINISHED

LEMMA SameInit == R!Init => CP!Init
BY Zenon DEF R!Init, CP!Init, R!Nothing, CP!Nothing, R!TaskId, CP!TaskId, R!Owners, CP!Owners

LEMMA SameRegister ==
    ASSUME NEW w, NEW r, NEW claims, R!Register(w, r, claims)
    PROVE  CP!Register(w, r, claims)
BY Zenon DEF R!Register, CP!Register

LEMMA SameHeartbeat == ASSUME NEW w, R!Heartbeat(w) PROVE CP!Heartbeat(w)
BY Zenon DEF R!Heartbeat, CP!Heartbeat

LEMMA SamePoll ==
    ASSUME NEW w, NEW r, NEW max, R!Poll(w, r, max)
    PROVE  CP!Poll(w, r, max)
BY Zenon DEF R!Poll, CP!Poll, R!After, CP!After, R!Waiting, CP!Waiting, R!TaskId, CP!TaskId,
             R!Cardinality, CP!Cardinality

LEMMA SamePutBack == ASSUME NEW w, NEW r, NEW o, R!PutBack(w, r, o) PROVE CP!PutBack(w, r, o)
BY Zenon DEF R!PutBack, CP!PutBack, R!WaitsFor, CP!WaitsFor

LEMMA SamePollCancelled ==
    ASSUME NEW w, NEW r, NEW o, R!PollCancelled(w, r, o)
    PROVE  CP!PollCancelled(w, r, o)
BY Zenon DEF R!PollCancelled, CP!PollCancelled, R!WaitsFor, CP!WaitsFor

LEMMA SameRelease ==
    ASSUME NEW gone, NEW overdue, NEW idle, R!Release(gone, overdue, idle)
    PROVE  CP!Release(gone, overdue, idle)
BY Zenon DEF R!Release, CP!Release, R!TakenBack, CP!TakenBack, R!Orphaned, CP!Orphaned,
             R!Assigned, CP!Assigned, R!Waiting, CP!Waiting, R!Requeued, CP!Requeued,
             R!KeepsOrder, CP!KeepsOrder, R!TaskId, CP!TaskId, R!Owners, CP!Owners,
             R!SetToSeqs, CP!SetToSeqs, R!ToSet, CP!ToSet, R!Cardinality, CP!Cardinality

LEMMA SameDeregister == ASSUME NEW w, R!Deregister(w) PROVE CP!Deregister(w)
BY SameRelease, Zenon DEF R!Deregister, CP!Deregister, R!relayVars, CP!relayVars

LEMMA SameSweep ==
    ASSUME NEW overdue, NEW old, NEW idle, R!Sweep(overdue, old, idle)
    PROVE  CP!Sweep(overdue, old, idle)
BY SameRelease, Zenon
   DEF R!Sweep, CP!Sweep, R!Assigned, CP!Assigned, R!OldestFirst, CP!OldestFirst

LEMMA SameEnqueue ==
    ASSUME NEW ts, NEW id, NEW task, R!Enqueue(ts, id, task)
    PROVE  CP!Enqueue(ts, id, task)
BY Zenon DEF R!Enqueue, CP!Enqueue, R!BoundWorker, CP!BoundWorker

LEMMA SameAccepted ==
    ASSUME NEW w, NEW t
    PROVE  /\ R!ResultAccepted(w, t) <=> CP!ResultAccepted(w, t)
           /\ R!Reportable(w, t) <=> CP!Reportable(w, t)
BY Zenon DEF R!ResultAccepted, CP!ResultAccepted, R!Reportable, CP!Reportable,
             R!WorkerAccepted, CP!WorkerAccepted, R!FINISHED, CP!FINISHED

LEMMA SameForward == ASSUME NEW w, NEW t, R!Forward(w, t) PROVE CP!Forward(w, t)
BY SameAccepted, SameEnqueue, Zenon
   DEF R!Forward, CP!Forward, R!NextStep, CP!NextStep, R!NewTask, CP!NewTask,
       R!Answer, CP!Answer, R!Reported, CP!Reported

LEMMA SameFinished ==
    ASSUME NEW ts, NEW t, NEW status, NEW body
    PROVE  R!Finished(ts, t, status, body) = CP!Finished(ts, t, status, body)
BY Zenon DEF R!Finished, CP!Finished, R!TaskId, CP!TaskId

LEMMA SameComplete == ASSUME NEW w, NEW t, R!Complete(w, t) PROVE CP!Complete(w, t)
BY SameAccepted, SameFinished, Zenon
   DEF R!Complete, CP!Complete, R!Answer, CP!Answer, R!Reported, CP!Reported

LEMMA SameRefused == ASSUME NEW w, NEW t, R!ResultRefused(w, t) PROVE CP!ResultRefused(w, t)
BY SameAccepted, Zenon DEF R!ResultRefused, CP!ResultRefused

LEMMA SameFailArrive == ASSUME NEW w, NEW t, R!FailArrive(w, t) PROVE CP!FailArrive(w, t)
BY SameAccepted, Zenon DEF R!FailArrive, CP!FailArrive

LEMMA SameFailFinish == ASSUME NEW w, NEW t, R!FailFinish(w, t) PROVE CP!FailFinish(w, t)
BY SameFinished, Zenon DEF R!FailFinish, CP!FailFinish, R!Answer, CP!Answer

LEMMA SameSubmit == ASSUME NEW q, R!Submit(q) PROVE CP!Submit(q)
BY SameEnqueue, Zenon
   DEF R!Submit, CP!Submit, R!NewTask, CP!NewTask, R!Affordable, CP!Affordable

LEMMA SameSilence == ASSUME NEW w, R!Silence(w) PROVE CP!Silence(w)
BY Zenon DEF R!Silence, CP!Silence

LEMMA SameAbandon == ASSUME NEW w, NEW t, R!Abandon(w, t) PROVE CP!Abandon(w, t)
BY Zenon DEF R!Abandon, CP!Abandon

LEMMA SameRestart == R!Restart => CP!Restart
BY Zenon DEF R!Restart, CP!Restart, R!TaskId, CP!TaskId, R!Owners, CP!Owners

-----------------------------------------------------------------------------
(* Types of the processes and calls *)

ProcTyped ==
    /\ procs \in [Workers -> Process]
    /\ work \in [Workers -> [TaskId -> Outcome]]
    /\ data \in [TaskId -> Calls \cup {NoCall}]
    /\ calls \in [Calls -> Call]
    /\ raised \subseteq Calls \X Calls
    /\ budget \in Nat
    /\ \A w \in Workers :
          /\ procs[w].mail = {} \/ \E claims : procs[w].mail = {claims}
          /\ held[w] # {} => procs[w].phase \in {"running", "stopping"}
          /\ \A t \in TaskId : work[w][t] # None => t \in held[w]

LEMMA TypesTogether == CP!TypeOK /\ ProcTyped => TypeOK
<1> SUFFICES ASSUME CP!TypeOK, ProcTyped PROVE TypeOK
  OBVIOUS
<1>1. \A w \in Workers : Cardinality(procs[w].mail) <= 1
  <2> SUFFICES ASSUME NEW w \in Workers PROVE Cardinality(procs[w].mail) <= 1
    OBVIOUS
  <2>1. CASE procs[w].mail = {}
    <3>1. Cardinality({}) = 0
      BY FS_EmptySet
    <3> QED BY <2>1, <3>1
  <2>2. CASE \E claims : procs[w].mail = {claims}
    <3>1. PICK claims : procs[w].mail = {claims}
      BY <2>2
    <3>2. Cardinality({claims}) = 1
      BY FS_Singleton
    <3> QED BY <3>1, <3>2
  <2>3. procs[w].mail = {} \/ \E claims : procs[w].mail = {claims}
    BY DEF ProcTyped
  <2> QED BY <2>1, <2>2, <2>3
<1>2. R!TypeOK
  BY SameTypes
<1> QED BY <1>1, <1>2 DEF TypeOK, ProcTyped

LEMMA Ids ==
    /\ TaskId = CP!TaskId /\ CP!TaskId = 1 .. MaxTasks
    /\ MaxTasks \in Nat /\ MaxSubmits \in Nat
BY RelayAssumptions DEF TaskId, R!TaskId, CP!TaskId, CP!BoundsAssumption

LEMMA NoneIsOutcome == None \in Outcome /\ None.kind = "none" /\ Idle \in [TaskId -> Outcome]
BY DEF None, Outcome, Idle

LEMMA DownIsProcess ==
    ASSUME NEW p \in Process
    PROVE  /\ Down \in Process /\ Down.mail = {} /\ Down.phase = "down"
           /\ [Down EXCEPT !.mail = p.mail] \in Process
           /\ [Down EXCEPT !.mail = p.mail].mail = p.mail
           /\ [Down EXCEPT !.mail = p.mail].phase = "down"
BY DEF Down, Process

LEMMA InitTyped == Init => CP!ChainInv /\ ProcTyped
<1> SUFFICES ASSUME Init PROVE CP!ChainInv /\ ProcTyped
  OBVIOUS
<1>1. CP!Init
  BY SameInit DEF Init
<1>2. CP!ChainInv
  BY <1>1, RelayAssumptions, CP!ChainInit
<1>3. \A w \in Workers : held[w] = {}
  BY <1>1 DEF CP!Init
<1>4. procs \in [Workers -> Process] /\ \A w \in Workers : procs[w].mail = {}
  BY DEF Init, Down, Process
<1>5. /\ work \in [Workers -> [TaskId -> Outcome]]
      /\ \A w \in Workers, t \in TaskId : work[w][t] = None
  BY DEF Init, Idle, None, Outcome
<1>6. calls \in [Calls -> Call] /\ budget \in Nat
  <2>1. PICK l \in Workloads :
          /\ calls = [c \in Calls |-> [phase |-> IF c \in l.calls THEN "idle" ELSE "none",
                                      task |-> 0]]
          /\ budget = l.faults
    BY DEF Init
  <2>2. 0 \in 0 .. MaxTasks
    BY Ids
  <2> QED BY <2>1, <2>2, ProcessAssumption DEF Call
<1> QED BY <1>2, <1>3, <1>4, <1>5, <1>6 DEF ProcTyped, Init

\* What the tasks a worker keeps are, and that it forgets the others.
LEMMA WorkLeftTyped ==
    ASSUME ProcTyped, NEW w \in Workers, work' = WorkLeft(w)
    PROVE  /\ work' \in [Workers -> [TaskId -> Outcome]]
           /\ \A v \in Workers, t \in TaskId :
                 /\ work'[v][t] \in {work[v][t], None}
                 /\ v = w /\ work'[v][t] # None => t \in held'[v]
<1> DEFINE left == [t \in TaskId |-> IF t \in held'[w] THEN work[w][t] ELSE None]
<1>1. work' = [work EXCEPT ![w] = left]
  BY DEF WorkLeft
<1>2. left \in [TaskId -> Outcome]
  BY NoneIsOutcome DEF ProcTyped
<1>3. \A t \in TaskId : /\ left[t] \in {work[w][t], None}
                        /\ left[t] # None => t \in held'[w]
  OBVIOUS
<1> HIDE DEF left
<1> QED BY <1>1, <1>2, <1>3 DEF ProcTyped

LEMMA CostsTyped == ASSUME ProcTyped, NEW fault, Costs(fault) PROVE budget' \in Nat
BY DEF ProcTyped, Costs

-----------------------------------------------------------------------------
(* The inductive invariant *)

\* Every step of a chain, every result that is under way and every call that
\* waits carries the data of one call.
DataFollows ==
    /\ \A t \in TaskId : t <= issued => data[t] \in Calls
    /\ \A t \in CP!Objects : data[tasks[t].root] = data[t]
    /\ \A w \in Workers, t \in TaskId :
          work[w][t].kind \in {"result", "stop"} => work[w][t].of = data[t]
    /\ \A c \in Calls : calls[c].phase = "waiting" =>
          /\ calls[c].task \in TaskId /\ calls[c].task <= issued
          /\ data[calls[c].task] = c
    /\ OwnAnswers

\* The calls that cannot be read, or were in a batch that a function raised on.
Blamed ==
    Unreadable \cup {c \in Calls : \E d \in Calls \ Unreadable : <<c, d>> \in raised}

LEMMA BlamedGrows == raised \subseteq raised' => Blamed \subseteq Blamed'
BY DEF Blamed

LEMMA BlamedFail ==
    FailedForCause <=> \A c \in Calls : calls[c].phase = "failed" => c \in Blamed
BY DEF FailedForCause, Blamed

Caused(t) == data[t] \in Blamed

\* A failure has its cause when it is noticed, reported, read by the relay, kept
\* for the root and told to the client.
FailuresCaused ==
    /\ \A w \in Workers, t \in TaskId : work[w][t].kind = "error" => Caused(t)
    /\ \A w \in Workers, t \in TaskId : <<t, w>> \in failing => Caused(t)
    /\ \A t \in CP!Objects : tasks[t].status = "FAILED" => Caused(t)
    /\ FailedForCause

ClusterInv ==
    /\ CP!ChainInv
    /\ ProcTyped
    /\ DataFollows
    /\ FailuresCaused

LEMMA ClusterInit == Init => ClusterInv
<1> SUFFICES ASSUME Init PROVE ClusterInv
  OBVIOUS
<1>1. CP!ChainInv /\ ProcTyped
  BY InitTyped
<1>2. issued = 0 /\ failing = {} /\ \A t \in CP!TaskId : tasks[t] = NoTask
  BY SameInit DEF Init, CP!Init, CP!Nothing
<1>3. CP!Objects = {}
  BY <1>2 DEF CP!Objects
<1>4. \A t \in TaskId : ~(t <= issued)
  BY <1>2, Ids
<1>5. \A w \in Workers, t \in TaskId : work[w][t].kind = "none"
  BY NoneIsOutcome DEF Init, Idle
<1>6. \A c \in Calls : calls[c].phase \in {"idle", "none"}
  BY DEF Init
<1> QED BY <1>1, <1>2, <1>3, <1>4, <1>5, <1>6
        DEF ClusterInv, DataFollows, FailuresCaused, OwnAnswers, FailedForCause

\* The task objects stay what they are, and no call begins to wait.
LEMMA ClusterKept ==
    ASSUME ClusterInv, CP!Kept, CP!ChainInv', ProcTyped',
           data' = data, raised \subseteq raised',
           \A w \in Workers, t \in TaskId :
              \/ work'[w][t] \in {work[w][t], None}
              \/ /\ work'[w][t].kind \in {"result", "stop"} => work'[w][t].of = data[t]
                 /\ work'[w][t].kind = "error" => data[t] \in Blamed',
           \A w \in Workers, t \in TaskId :
              <<t, w>> \in failing' => <<t, w>> \in failing \/ Caused(t),
           \A c \in Calls :
              \/ calls'[c] = calls[c]
              \/ calls'[c].phase \notin {"waiting", "refused", "failed"}
              \/ calls'[c].phase = "failed" /\ c \in Blamed
    PROVE  ClusterInv'
<1>1. issued' = issued /\ CP!Objects' = CP!Objects
  BY DEF CP!Kept
<1>2. \A t \in CP!Objects : /\ tasks'[t].root = tasks[t].root
                            /\ tasks'[t].status = "FAILED" => tasks[t].status = "FAILED"
  BY DEF CP!Kept, CP!Moves, CP!Unfinished
<1>3. \A w \in Workers, t \in TaskId :
        /\ work'[w][t].kind \in {"result", "stop"} => work'[w][t].of = data[t]
        /\ work'[w][t].kind = "error" => data[t] \in Blamed'
  BY NoneIsOutcome, BlamedGrows DEF ClusterInv, DataFollows, FailuresCaused, Caused
<1>4. DataFollows'
  BY <1>1, <1>2, <1>3 DEF ClusterInv, DataFollows, OwnAnswers
<1>5. FailuresCaused'
  <2>1. Blamed \subseteq Blamed'
    BY BlamedGrows
  <2>2. \A c \in Calls : calls'[c].phase = "failed" => c \in Blamed'
    BY <2>1, BlamedFail DEF ClusterInv, FailuresCaused
  <2>3. FailedForCause'
    BY <2>2 DEF FailedForCause, Blamed
  <2> QED BY <1>1, <1>2, <1>3, <2>1, <2>3 DEF ClusterInv, FailuresCaused, Caused
<1> QED BY <1>4, <1>5 DEF ClusterInv

-----------------------------------------------------------------------------
(* What the relay does in a step *)

LEMMA RelayStep == ASSUME CP!ChainInv, CP!Next PROVE CP!ChainInv'
BY RelayAssumptions, CP!ChainStep

LEMMA TablesKept ==
    ASSUME UNCHANGED <<tasks, known, issued>>,
           \A w \in Workers : held'[w] \subseteq held[w]
    PROVE  CP!Kept
BY DEF CP!Kept, CP!OldestFirst, CP!Moves, CP!Objects

LEMMA HandsEmptied ==
    ASSUME CP!ChainInv, UNCHANGED relayVars, held' \in [Workers -> SUBSET TaskId],
           \A w \in Workers : held'[w] \subseteq held[w]
    PROVE  CP!ChainInv' /\ CP!Kept
<1>1. CP!Kept
  BY TablesKept DEF relayVars
<1>2. CP!TypeOK'
  BY Ids DEF relayVars, CP!ChainInv, CP!TypeOK
<1> QED BY <1>1, <1>2, RelayAssumptions, CP!ChainKept

LEMMA QuietRegister ==
    ASSUME CP!ChainInv, NEW w \in Workers, NEW r, NEW claims \in SUBSET Sessions,
           R!Register(w, r, claims)
    PROVE  CP!ChainInv' /\ CP!Kept
<1>1. CP!Register(w, r, claims)
  BY SameRegister
<1>2. r \in Roles
  BY <1>1, RelayAssumptions DEF CP!Register, CP!NamesAssumption
<1>3. CP!Next
  BY <1>1, <1>2 DEF CP!Next, CP!Orderly, CP!WorkerStep
<1>4. CP!Kept
  BY <1>1, TablesKept DEF CP!Register
<1> QED BY <1>3, <1>4, RelayStep

LEMMA QuietPoll ==
    ASSUME CP!ChainInv, NEW w \in Workers, NEW r, NEW max \in BatchSizes,
           R!Poll(w, r, max)
    PROVE  /\ CP!ChainInv' /\ CP!Kept /\ failing' = failing
           /\ \A v \in Workers : v # w => held'[v] = held[v]
           /\ held[w] \subseteq held'[w]
<1>1. CP!Poll(w, r, max)
  BY SamePoll
<1>2. r \in Roles
  <2>1. r \in IF nodes[w] = NoRole THEN MayServe[w] ELSE {nodes[w]}
    BY <1>1, Zenon DEF CP!Poll
  <2>2. MayServe[w] \subseteq Roles /\ nodes[w] \in Roles \cup {NoRole}
    BY RelayAssumptions DEF CP!NamesAssumption, CP!ChainInv, CP!TypeOK
  <2> QED BY <2>1, <2>2
<1>3. CP!Next
  BY <1>1, <1>2 DEF CP!Next, CP!Orderly, CP!WorkerStep
<1>4. CP!Kept
  BY <1>1, <1>2, RelayAssumptions, CP!PollMoves DEF CP!ChainInv
<1>5. failing' = failing /\ \E T : held' = [held EXCEPT ![w] = @ \cup T]
  BY <1>1 DEF CP!Poll
<1>6. held \in [Workers -> SUBSET CP!TaskId]
  BY DEF CP!ChainInv, CP!TypeOK
<1> QED BY <1>3, <1>4, <1>5, <1>6, RelayStep

LEMMA QuietLeave ==
    ASSUME CP!ChainInv, NEW w \in Workers, R!Deregister(w)
    PROVE  /\ CP!ChainInv' /\ CP!Kept /\ failing' = failing
           /\ \A v \in Workers : v # w => held'[v] = held[v]
           /\ held'[w] = {}
<1>1. CP!Deregister(w)
  BY SameDeregister
<1>2. CP!Next
  BY <1>1 DEF CP!Next, CP!Orderly, CP!WorkerStep
<1>3. /\ \A v \in Workers : v # w => held'[v] = held[v]
      /\ held'[w] = {}
  BY <1>1 DEF CP!Deregister, CP!ChainInv, CP!TypeOK
<1>4. \A v \in Workers : held'[v] \subseteq held[v]
  BY <1>3
<1>5. CP!Kept /\ failing' = failing
  <2>1. CASE nodes[w] = NoRole
    BY <1>1, <1>4, <2>1, TablesKept DEF CP!Deregister, CP!relayVars
  <2>2. CASE nodes[w] # NoRole
    <3>1. /\ CP!Release({w}, {}, {}) /\ known' = known /\ issued' = issued
          /\ failing' = failing
      BY <1>1, <2>2 DEF CP!Deregister
    <3>2. CP!TypeOK
      BY DEF CP!ChainInv
    <3>3. /\ CP!Objects' = CP!Objects
          /\ \A t \in CP!Objects : CP!Moves(tasks[t], tasks'[t])
      BY <3>1, <3>2, RelayAssumptions, CP!ReleaseMoves
    <3> QED BY <1>4, <3>1, <3>3 DEF CP!Kept, CP!OldestFirst
  <2> QED BY <2>1, <2>2
<1> QED BY <1>2, <1>3, <1>5, RelayStep

LEMMA QuietSweep ==
    ASSUME CP!ChainInv, NEW overdue \in SUBSET {t \in known : R!Assigned(t)},
           NEW old \in SUBSET known,
           NEW idle \in SUBSET {k \in Roles \X Sessions : affinity[k] # NoWorker},
           R!Sweep(overdue, old, idle)
    PROVE  CP!ChainInv' /\ CP!Kept /\ failing' = failing /\ held' = held
<1>1. CP!Sweep(overdue, old, idle)
  BY SameSweep
<1>2. overdue \in SUBSET {t \in known : CP!Assigned(t)}
  BY DEF R!Assigned, CP!Assigned
<1>3. CP!Next
  BY <1>1, <1>2 DEF CP!Next, CP!Orderly, CP!Janitor
<1>4. /\ CP!Release(silent, overdue, idle) /\ CP!OldestFirst(old)
      /\ known' = known \ old /\ issued' = issued /\ held' = held /\ failing' = failing
  BY <1>1 DEF CP!Sweep
<1>5. CP!TypeOK /\ known \ known' = old
  BY <1>4 DEF CP!ChainInv
<1>6. /\ CP!Objects' = CP!Objects
      /\ \A t \in CP!Objects : CP!Moves(tasks[t], tasks'[t])
  BY <1>4, <1>5, RelayAssumptions, CP!ReleaseMoves
<1>7. CP!Kept
  BY <1>4, <1>5, <1>6 DEF CP!Kept
<1> QED BY <1>3, <1>4, <1>7, RelayStep

\* The answers to a heartbeat, or none, and the relay not hearing of one.
LEMMA QuietNode ==
    ASSUME CP!ChainInv, NEW w \in Workers, R!Heartbeat(w) \/ R!Silence(w)
    PROVE  CP!ChainInv' /\ CP!Kept /\ failing' = failing /\ held' = held
<1>1. CP!Heartbeat(w) \/ CP!Silence(w)
  BY SameHeartbeat, SameSilence
<1>2. CP!Next
  BY <1>1 DEF CP!Next, CP!Orderly, CP!WorkerStep, CP!Environment
<1>3. UNCHANGED <<tasks, known, issued, failing, held>>
  BY <1>1 DEF CP!Heartbeat, CP!Silence
<1> QED BY <1>2, <1>3, RelayStep, TablesKept

\* The worker forgets a task the relay does not want to hear of, or about which
\* it was not heard.
LEMMA QuietReport ==
    ASSUME CP!ChainInv, NEW w \in Workers, NEW t \in TaskId,
           R!ResultRefused(w, t) \/ R!Abandon(w, t) \/ R!FailArrive(w, t)
    PROVE  /\ CP!ChainInv' /\ CP!Kept
           /\ held' = [held EXCEPT ![w] = @ \ {t}]
           /\ failing' \subseteq failing \cup {<<t, w>>}
           /\ known' = known /\ tasks' = tasks /\ issued' = issued
<1>1. CP!ResultRefused(w, t) \/ CP!Abandon(w, t) \/ CP!FailArrive(w, t)
  BY SameRefused, SameAbandon, SameFailArrive
<1>2. CP!Next
  BY <1>1, Ids DEF CP!Next, CP!Orderly, CP!WorkerStep, CP!Environment, CP!PostResult
<1>3. /\ UNCHANGED <<tasks, known, issued>>
      /\ held' = [held EXCEPT ![w] = @ \ {t}]
      /\ failing' \subseteq failing \cup {<<t, w>>}
  BY <1>1 DEF CP!ResultRefused, CP!Abandon, CP!FailArrive
<1>4. \A v \in Workers : held'[v] \subseteq held[v]
  BY <1>3 DEF CP!ChainInv, CP!TypeOK
<1> QED BY <1>2, <1>3, <1>4, RelayStep, TablesKept

-----------------------------------------------------------------------------
(* The steps of a worker that start, end or repeat no work *)

\* A process that keeps its hands, or has them empty, is as well-typed as before.
LEMMA ProcKept ==
    ASSUME ProcTyped, UNCHANGED <<work, data, calls, raised>>, budget' \in Nat,
           NEW w \in Workers, NEW p \in Process, procs' = [procs EXCEPT ![w] = p],
           p.mail = {} \/ \E claims : p.mail = {claims},
           held'[w] # {} => p.phase \in {"running", "stopping"},
           \A v \in Workers : v # w => held'[v] = held[v],
           held[w] \subseteq held'[w]
    PROVE  ProcTyped'
<1>1. procs' \in [Workers -> Process] /\ procs'[w] = p
      /\ \A v \in Workers : v # w => procs'[v] = procs[v]
  BY DEF ProcTyped
<1>2. \A v \in Workers :
        /\ procs'[v].mail = {} \/ \E claims : procs'[v].mail = {claims}
        /\ held'[v] # {} => procs'[v].phase \in {"running", "stopping"}
  BY <1>1 DEF ProcTyped
<1>3. \A v \in Workers, t \in TaskId : work'[v][t] # None => t \in held'[v]
  BY DEF ProcTyped
<1> QED BY <1>1, <1>2, <1>3 DEF ProcTyped

\* Only processes and hands change.
LEMMA ClusterQuiet ==
    ASSUME ClusterInv, CP!ChainInv', CP!Kept, ProcTyped',
           UNCHANGED <<data, calls, raised, failing>>,
           work' = work
    PROVE  ClusterInv'
<1>1. \A w \in Workers, t \in TaskId : work'[w][t] \in {work[w][t], None}
  OBVIOUS
<1> QED BY <1>1, ClusterKept

LEMMA StartStep == ASSUME ClusterInv, NEW w \in Workers, Start(w) PROVE ClusterInv'
<1> DEFINE p == [Down EXCEPT !.phase = "starting", !.mail = {{}}]
<1>1. /\ procs' = [procs EXCEPT ![w] = p] /\ procs[w].phase = "down"
      /\ UNCHANGED <<relayVars, held, work, raised, data, calls, budget>>
  BY DEF Start, workVars
<1>2. p \in Process /\ p.mail = {{}}
  BY DEF Down, Process
<1>3. ProcTyped /\ CP!ChainInv /\ held[w] = {} /\ budget' \in Nat
  BY <1>1 DEF ClusterInv, ProcTyped
<1>4. held' = held
  BY <1>1
<1> HIDE DEF p
<1>5. ProcTyped'
  BY <1>1, <1>2, <1>3, <1>4, ProcKept
<1>6. CP!ChainInv' /\ CP!Kept
  BY <1>1, <1>3, HandsEmptied, Ids DEF CP!ChainInv, CP!TypeOK
<1>7. failing' = failing
  BY <1>1 DEF relayVars
<1> QED BY <1>1, <1>5, <1>6, <1>7, ClusterQuiet

LEMMA HeartbeatStep == ASSUME ClusterInv, NEW w \in Workers, Heartbeat(w) PROVE ClusterInv'
<1>1. R!Heartbeat(w) /\ UNCHANGED <<procs, work, raised, data, calls, budget>>
  BY DEF Heartbeat, workVars
<1>2. CP!ChainInv' /\ CP!Kept /\ failing' = failing /\ held' = held
  BY <1>1, QuietNode DEF ClusterInv
<1>3. ProcTyped'
  BY <1>1, <1>2 DEF ClusterInv, ProcTyped
<1> QED BY <1>1, <1>2, <1>3, ClusterQuiet

LEMMA SilenceStep == ASSUME ClusterInv, NEW w \in Workers, Silence(w) PROVE ClusterInv'
<1>1. R!Silence(w) /\ UNCHANGED <<procs, work, raised, data, calls>>
  BY DEF Silence, workVars
<1>2. CP!ChainInv' /\ CP!Kept /\ failing' = failing /\ held' = held
  BY <1>1, QuietNode DEF ClusterInv
<1>3. budget' \in Nat
  BY CostsTyped DEF Silence, ClusterInv
<1>4. ProcTyped'
  BY <1>1, <1>2, <1>3 DEF ClusterInv, ProcTyped
<1> QED BY <1>1, <1>2, <1>4, ClusterQuiet

LEMMA HeartbeatMissedStep ==
    ASSUME ClusterInv, NEW w \in Workers, HeartbeatMissed(w) PROVE ClusterInv'
<1> DEFINE p == [procs[w] EXCEPT !.mail = {procs[w].sessions}]
<1>1. /\ procs' = [procs EXCEPT ![w] = p]
      /\ UNCHANGED <<relayVars, held, work, raised, data, calls, budget>>
  BY DEF HeartbeatMissed, workVars
<1>2. ProcTyped /\ CP!ChainInv /\ budget' \in Nat
  BY <1>1 DEF ClusterInv, ProcTyped
<1>3. /\ p \in Process /\ p.phase = procs[w].phase
      /\ p.mail = {procs[w].sessions}
  <2>1. procs[w] \in Process
    BY <1>2 DEF ProcTyped
  <2> QED BY <2>1 DEF Process
<1>4. held' = held /\ (held[w] # {} => procs[w].phase \in {"running", "stopping"})
  BY <1>1, <1>2 DEF ProcTyped
<1> HIDE DEF p
<1>5. ProcTyped'
  BY <1>1, <1>2, <1>3, <1>4, ProcKept
<1>6. CP!ChainInv' /\ CP!Kept
  BY <1>1, <1>2, HandsEmptied, Ids DEF CP!ChainInv, CP!TypeOK
<1>7. failing' = failing
  BY <1>1 DEF relayVars
<1> QED BY <1>1, <1>5, <1>6, <1>7, ClusterQuiet

LEMMA StopStep == ASSUME ClusterInv, NEW w \in Workers, Stop(w) PROVE ClusterInv'
<1> DEFINE p == [procs[w] EXCEPT !.phase = "stopping"]
<1>1. /\ procs' = [procs EXCEPT ![w] = p] /\ Costs(TRUE)
      /\ UNCHANGED <<relayVars, held, work, raised, data, calls>>
  BY DEF Stop, workVars
<1>2. ProcTyped /\ CP!ChainInv /\ budget' \in Nat
  BY <1>1, CostsTyped DEF ClusterInv
<1>3. /\ p \in Process /\ p.phase = "stopping" /\ p.mail = procs[w].mail
      /\ procs[w].mail = {} \/ \E claims : procs[w].mail = {claims}
  <2>1. /\ procs[w] \in Process
        /\ procs[w].mail = {} \/ \E claims : procs[w].mail = {claims}
    BY <1>2, Zenon DEF ProcTyped
  <2>2. p \in Process /\ p.phase = "stopping" /\ p.mail = procs[w].mail
    BY <2>1 DEF Process
  <2> QED BY <2>1, <2>2, Zenon
<1>4. held' = held
  BY <1>1
<1> HIDE DEF p
<1>5. ProcTyped'
  BY <1>1, <1>2, <1>3, <1>4, ProcKept
<1>6. CP!ChainInv' /\ CP!Kept
  BY <1>1, <1>2, HandsEmptied, Ids DEF CP!ChainInv, CP!TypeOK
<1>7. failing' = failing
  BY <1>1 DEF relayVars
<1> QED BY <1>1, <1>5, <1>6, <1>7, ClusterQuiet

LEMMA RegisterArrivesStep ==
    ASSUME ClusterInv, NEW w \in Workers, RegisterArrives(w) PROVE ClusterInv'
<1>1. ProcTyped /\ CP!ChainInv /\ procs[w] \in Process
  BY DEF ClusterInv, ProcTyped
<1>2. PICK claims \in procs[w].mail : R!Register(w, RoleOf(w), claims)
  BY DEF RegisterArrives
<1>3. CP!Register(w, RoleOf(w), claims)
  BY <1>2, SameRegister
<1>4. failing' = failing /\ held' = held
  BY <1>3 DEF CP!Register
<1>5. CP!ChainInv' /\ CP!Kept
  <2>1. claims \in SUBSET Sessions
    BY <1>1, <1>2 DEF Process
  <2> QED BY <1>1, <1>2, <2>1, QuietRegister
<1>6. UNCHANGED <<work, raised, data, calls>>
  BY DEF RegisterArrives, workVars
<1>7. ProcTyped'
  <2>1. CASE procs' = procs /\ Costs(TRUE)
    <3>1. budget' \in Nat
      BY <1>1, <2>1, CostsTyped
    <3> QED BY <1>1, <1>4, <1>6, <2>1, <3>1 DEF ProcTyped
  <2>2. CASE /\ procs' = [procs EXCEPT ![w].mail = {},
                                       ![w].phase = IF @ = "starting" THEN "running" ELSE @]
             /\ Costs(FALSE)
    <3> DEFINE p == [procs[w] EXCEPT !.mail = {},
                                     !.phase = IF @ = "starting" THEN "running" ELSE @]
    <3>1. procs' = [procs EXCEPT ![w] = p]
      BY <1>1, <2>2 DEF ProcTyped
    <3>2. /\ p \in Process /\ p.mail = {}
          /\ p.phase \in {"running", procs[w].phase}
      BY <1>1 DEF Process
    <3>3. held[w] # {} => procs[w].phase \in {"running", "stopping"}
      BY <1>1 DEF ProcTyped
    <3>4. budget' \in Nat
      BY <1>1, <2>2, CostsTyped
    <3> HIDE DEF p
    <3> QED BY <1>1, <1>4, <1>6, <3>1, <3>2, <3>3, <3>4, ProcKept
  <2> QED BY <2>1, <2>2 DEF RegisterArrives
<1> QED BY <1>4, <1>5, <1>6, <1>7, ClusterQuiet

LEMMA PollStep == ASSUME ClusterInv, NEW w \in Workers, Poll(w) PROVE ClusterInv'
<1>1. /\ Running(w)
      /\ \E max \in BatchSizes : R!Poll(w, RoleOf(w), max)
      /\ UNCHANGED <<procs, work, raised, data, calls, budget>>
  BY DEF Poll, workVars
<1>2. /\ CP!ChainInv' /\ CP!Kept /\ failing' = failing
      /\ \A v \in Workers : v # w => held'[v] = held[v]
      /\ held[w] \subseteq held'[w]
  BY <1>1, QuietPoll DEF ClusterInv
<1>3. ProcTyped'
  BY <1>1, <1>2 DEF ClusterInv, ProcTyped, Running
<1> QED BY <1>1, <1>2, <1>3, ClusterQuiet

\* A poll that waits moves an id within a queue, or loses it.
LEMMA WaitStep ==
    ASSUME ClusterInv, NEW w \in Workers, PutBack(w) \/ PollCancelled(w)
    PROVE  ClusterInv'
<1>1. CP!ChainInv /\ ProcTyped /\ budget' \in Nat
  BY CostsTyped DEF ClusterInv, ProcTyped, PutBack, PollCancelled
<1>2. PICK o \in Workers \cup Roles :
         R!PutBack(w, RoleOf(w), o) \/ R!PollCancelled(w, RoleOf(w), o)
  BY DEF PutBack, PollCancelled
<1>3. CP!PutBack(w, RoleOf(w), o) \/ CP!PollCancelled(w, RoleOf(w), o)
  BY <1>2, SamePutBack, SamePollCancelled
<1>4. RoleOf(w) \in Roles
  BY <1>1, <1>3, RelayAssumptions
     DEF CP!PutBack, CP!PollCancelled, CP!WaitsFor, CP!NamesAssumption, CP!ChainInv, CP!TypeOK
<1>5. CP!Next
  BY <1>3, <1>4 DEF CP!Next, CP!Orderly, CP!LostPoll, CP!WorkerStep, CP!Owners
<1>6. UNCHANGED <<nodes, tasks, known, affinity, silent, failing, issued, submits, held>>
  BY <1>3 DEF CP!PutBack, CP!PollCancelled, CP!WaitsFor
<1>7. CP!ChainInv' /\ CP!Kept
  BY <1>1, <1>5, <1>6, RelayStep, TablesKept
<1>8. UNCHANGED <<procs, work, raised, data, calls>>
  BY DEF PutBack, PollCancelled, workVars
<1>9. ProcTyped'
  BY <1>1, <1>6, <1>8 DEF ProcTyped
<1> QED BY <1>6, <1>7, <1>8, <1>9, ClusterQuiet

-----------------------------------------------------------------------------
(* The steps that lose work, and reports of failures *)

\* A worker drops what is not in its hands any more; its process goes on, or
\* ends with empty hands.
LEMMA ProcChanged ==
    ASSUME ProcTyped, UNCHANGED <<calls, raised>>, budget' \in Nat,
           data' \in [TaskId -> Calls \cup {NoCall}],
           NEW w \in Workers, work' = WorkLeft(w),
           \A v \in Workers : v # w => held'[v] = held[v],
           \/ procs' = procs /\ (held'[w] # {} => held[w] # {})
           \/ /\ procs' = [procs EXCEPT ![w] = [Down EXCEPT !.mail = procs[w].mail]]
              /\ held'[w] = {}
    PROVE  ProcTyped'
<1>1. /\ work' \in [Workers -> [TaskId -> Outcome]]
      /\ \A v \in Workers, t \in TaskId :
            /\ work'[v][t] \in {work[v][t], None}
            /\ v = w /\ work'[v][t] # None => t \in held'[v]
  BY WorkLeftTyped
<1>2. \A v \in Workers, t \in TaskId : work'[v][t] # None => t \in held'[v]
  BY <1>1 DEF ProcTyped
<1>3. /\ procs' \in [Workers -> Process]
      /\ \A v \in Workers : /\ procs'[v].mail = procs[v].mail
                            /\ held'[v] # {} => procs'[v].phase \in {"running", "stopping"}
  <2>1. CASE procs' = procs /\ (held'[w] # {} => held[w] # {})
    BY <2>1 DEF ProcTyped
  <2>2. CASE /\ procs' = [procs EXCEPT ![w] = [Down EXCEPT !.mail = procs[w].mail]]
             /\ held'[w] = {}
    <3> DEFINE p == [Down EXCEPT !.mail = procs[w].mail]
    <3>1. p \in Process /\ p.mail = procs[w].mail
      BY DownIsProcess DEF ProcTyped
    <3> HIDE DEF p
    <3>2. procs' = [procs EXCEPT ![w] = p]
      BY <2>2 DEF p
    <3> QED BY <2>2, <3>1, <3>2 DEF ProcTyped
  <2> QED BY <2>1, <2>2
<1>4. \A v \in Workers : procs[v].mail = {} \/ \E claims : procs[v].mail = {claims}
  BY DEF ProcTyped
<1>5. \A v \in Workers : procs'[v].mail = {} \/ \E claims : procs'[v].mail = {claims}
  BY <1>3, <1>4
<1>6. data' \in [TaskId -> Calls \cup {NoCall}] /\ calls' \in [Calls -> Call]
      /\ raised' \subseteq Calls \X Calls
  BY DEF ProcTyped
<1>7. \A v \in Workers : held'[v] # {} => procs'[v].phase \in {"running", "stopping"}
  BY <1>3
<1>8. work' \in [Workers -> [TaskId -> Outcome]] /\ procs' \in [Workers -> Process]
  BY <1>1, <1>3
<1> QED BY <1>2, <1>5, <1>6, <1>7, <1>8, Zenon DEF ProcTyped

LEMMA ProcLeft ==
    ASSUME ProcTyped, UNCHANGED <<data, calls, raised>>, budget' \in Nat,
           NEW w \in Workers, work' = WorkLeft(w),
           \A v \in Workers : v # w => held'[v] = held[v],
           \/ procs' = procs /\ (held'[w] # {} => held[w] # {})
           \/ /\ procs' = [procs EXCEPT ![w] = [Down EXCEPT !.mail = procs[w].mail]]
              /\ held'[w] = {}
    PROVE  ProcTyped'
<1>1. data' \in [TaskId -> Calls \cup {NoCall}]
  BY DEF ProcTyped
<1> QED BY <1>1, ProcChanged

LEMMA PollLostStep == ASSUME ClusterInv, NEW w \in Workers, PollLost(w) PROVE ClusterInv'
<1>1. /\ held' = [held EXCEPT ![w] = {}] /\ work[w] = Idle
      /\ UNCHANGED <<relayVars, procs, work, raised, data, calls>>
  BY DEF PollLost, workVars
<1>2. ProcTyped /\ CP!ChainInv /\ budget' \in Nat
  BY CostsTyped DEF ClusterInv, PollLost
<1>3. held \in [Workers -> SUBSET TaskId]
  BY <1>2, Ids DEF CP!ChainInv, CP!TypeOK
<1>4. CP!ChainInv' /\ CP!Kept
  BY <1>1, <1>2, <1>3, HandsEmptied
<1>5. \A t \in TaskId : work[w][t] = None
  BY <1>1 DEF Idle
<1>6. ProcTyped'
  BY <1>1, <1>2, <1>3, <1>5 DEF ProcTyped
<1>7. failing' = failing
  BY <1>1 DEF relayVars
<1> QED BY <1>1, <1>4, <1>6, <1>7, ClusterQuiet

LEMMA CrashStep == ASSUME ClusterInv, NEW w \in Workers, Crash(w) PROVE ClusterInv'
<1> DEFINE p == [Down EXCEPT !.mail = procs[w].mail]
<1>1. /\ held' = [held EXCEPT ![w] = {}] /\ work' = [work EXCEPT ![w] = Idle]
      /\ procs' = [procs EXCEPT ![w] = p]
      /\ UNCHANGED <<relayVars, raised, data, calls>>
  BY DEF Crash
<1>2. ProcTyped /\ CP!ChainInv /\ budget' \in Nat
  BY CostsTyped DEF ClusterInv, Crash
<1>3. held \in [Workers -> SUBSET TaskId]
  BY <1>2, Ids DEF CP!ChainInv, CP!TypeOK
<1>4. CP!ChainInv' /\ CP!Kept
  BY <1>1, <1>2, <1>3, HandsEmptied
<1>5. p \in Process /\ p.mail = procs[w].mail
  BY <1>2, DownIsProcess DEF ProcTyped
<1>6. \A v \in Workers, t \in TaskId : work'[v][t] = IF v = w THEN None ELSE work[v][t]
  BY <1>1, <1>2 DEF Idle, ProcTyped
<1>7. work' \in [Workers -> [TaskId -> Outcome]]
  BY <1>1, <1>2, NoneIsOutcome DEF ProcTyped
<1> HIDE DEF p
<1>8. ProcTyped'
  BY <1>1, <1>2, <1>3, <1>5, <1>6, <1>7 DEF ProcTyped
<1>9. failing' = failing
  BY <1>1 DEF relayVars
<1>10. \A v \in Workers, t \in TaskId : work'[v][t] \in {work[v][t], None}
  BY <1>6
<1> QED BY <1>1, <1>4, <1>8, <1>9, <1>10, ClusterKept

LEMMA LeaveStep == ASSUME ClusterInv, NEW w \in Workers, Leave(w) PROVE ClusterInv'
<1>1. /\ R!Deregister(w) /\ work' = WorkLeft(w)
      /\ procs' = [procs EXCEPT ![w] = [Down EXCEPT !.mail = procs[w].mail]]
      /\ UNCHANGED <<raised, data, calls, budget>>
  BY DEF Leave
<1>2. ProcTyped /\ CP!ChainInv /\ budget' \in Nat
  BY <1>1 DEF ClusterInv, ProcTyped
<1>3. /\ CP!ChainInv' /\ CP!Kept /\ failing' = failing
      /\ \A v \in Workers : v # w => held'[v] = held[v]
      /\ held'[w] = {}
  BY <1>1, <1>2, QuietLeave
<1>4. ProcTyped'
  BY <1>1, <1>2, <1>3, ProcLeft
<1>5. \A v \in Workers, t \in TaskId : work'[v][t] \in {work[v][t], None}
  BY <1>1, <1>2, WorkLeftTyped
<1> QED BY <1>1, <1>3, <1>4, <1>5, ClusterKept

\* The worker is done with t, and the relay learned at most that it failed.
LEMMA ReportStep ==
    ASSUME ClusterInv, NEW w \in Workers, NEW t \in TaskId,
           \/ R!ResultRefused(w, t) \/ R!Abandon(w, t)
           \/ R!FailArrive(w, t) /\ work[w][t].kind = "error",
           work' = WorkLeft(w), budget' \in Nat,
           UNCHANGED <<procs, data, calls, raised>>
    PROVE  ClusterInv'
<1>1. ProcTyped /\ CP!ChainInv
  BY DEF ClusterInv
<1>2. /\ CP!ChainInv' /\ CP!Kept
      /\ held' = [held EXCEPT ![w] = @ \ {t}]
      /\ \/ failing' = failing
         \/ /\ failing' \subseteq failing \cup {<<t, w>>}
            /\ Caused(t)
  <2>1. CASE R!ResultRefused(w, t) \/ R!Abandon(w, t)
    BY <1>1, <2>1, QuietReport DEF R!ResultRefused, R!Abandon
  <2>2. CASE R!FailArrive(w, t) /\ work[w][t].kind = "error"
    BY <1>1, <2>2, QuietReport DEF ClusterInv, FailuresCaused
  <2> QED BY <2>1, <2>2
<1>3. held \in [Workers -> SUBSET CP!TaskId]
  BY <1>1 DEF CP!ChainInv, CP!TypeOK
<1>4. /\ \A v \in Workers : v # w => held'[v] = held[v]
      /\ held'[w] # {} => held[w] # {}
  BY <1>2, <1>3
<1>5. ProcTyped'
  BY <1>1, <1>4, ProcLeft
<1>6. \A v \in Workers, u \in TaskId : work'[v][u] \in {work[v][u], None}
  BY <1>1, WorkLeftTyped
<1>7. \A v \in Workers, u \in TaskId :
        <<u, v>> \in failing' => <<u, v>> \in failing \/ Caused(u)
  BY <1>2 DEF ClusterInv, FailuresCaused
<1> QED BY <1>2, <1>5, <1>6, <1>7, ClusterKept

LEMMA ReportFailureStep ==
    ASSUME ClusterInv, NEW w \in Workers, NEW t \in TaskId, ReportFailure(w, t)
    PROVE  ClusterInv'
<1>1. budget' \in Nat
  BY DEF ReportFailure, ClusterInv, ProcTyped
<1> QED BY <1>1, ReportStep DEF ReportFailure

LEMMA ReportLostStep ==
    ASSUME ClusterInv, NEW w \in Workers, NEW t \in TaskId, ReportLost(w, t)
    PROVE  ClusterInv'
<1>1. budget' \in Nat
  BY CostsTyped DEF ReportLost, ClusterInv
<1> QED BY <1>1, ReportStep DEF ReportLost

LEMMA JanitorStep == ASSUME ClusterInv, Janitor PROVE ClusterInv'
<1>1. PICK overdue \in SUBSET {t \in known : R!Assigned(t)},
           old \in SUBSET known,
           idle \in SUBSET {k \in Roles \X Sessions : affinity[k] # NoWorker} :
        Sweep(overdue, old, idle)
  BY DEF Janitor
<1>2. R!Sweep(overdue, old, idle) /\ old \in SUBSET known
  BY <1>1 DEF Sweep
<1>3. ProcTyped /\ CP!ChainInv /\ budget' \in Nat
  BY <1>1, CostsTyped DEF ClusterInv, Sweep
<1>4. CP!ChainInv' /\ CP!Kept /\ failing' = failing /\ held' = held
  BY <1>2, <1>3, QuietSweep
<1>5. UNCHANGED <<procs, work, raised, data, calls>>
  BY <1>1 DEF Sweep, workVars
<1>6. ProcTyped'
  BY <1>3, <1>4, <1>5 DEF ProcTyped
<1> QED BY <1>4, <1>5, <1>6, ClusterQuiet

-----------------------------------------------------------------------------
(* The batch that is run, and the answers that are received *)

\* The batch is what the worker holds, and what runs is what can be decoded.
LEMMA BatchRuns ==
    ASSUME NEW hold \in SUBSET TaskId, NEW line \in SetToSeqs(hold), NEW good \in Good(line)
    PROVE  /\ ToSet(line) = hold
           /\ ToSet(good) = {t \in hold : Decodes(t)}
           /\ \A t \in ToSet(good) : \E i \in DOMAIN good : good[i] = t
<1>1. \A S \in SUBSET TaskId : \A q \in SetToSeqs(S) : ToSet(q) = S
  <2> SUFFICES ASSUME NEW S \in SUBSET TaskId, NEW q \in SetToSeqs(S) PROVE ToSet(q) = S
    OBVIOUS
  <2>1. q \in CP!SetToSeqs(S) /\ S \subseteq CP!TaskId
    BY Ids, Zenon DEF SetToSeqs, CP!SetToSeqs, Cardinality, CP!Cardinality
  <2>2. /\ q \in Seq(S)
        /\ \A x \in S : \E i \in DOMAIN q : q[i] = x
    BY <2>1, RelayAssumptions, CP!OrderingProperties
  <2>3. \A i \in DOMAIN q : q[i] \in S
    BY <2>2
  <2> QED BY <2>2, <2>3, Zenon DEF ToSet
<1>2. ToSet(line) = hold
  BY <1>1
<1>3. good \in SetToSeqs({t \in hold : Decodes(t)})
  BY <1>2, Zenon DEF Good
<1>4. {t \in hold : Decodes(t)} \in SUBSET TaskId
  OBVIOUS
<1>5. ToSet(good) = {t \in hold : Decodes(t)}
  BY <1>1, <1>3, <1>4, Zenon
<1> QED BY <1>2, <1>5, Zenon DEF ToSet

LEMMA RunStep == ASSUME ClusterInv, NEW w \in Workers, Run(w) PROVE ClusterInv'
<1>1. PICK line, good, raising, unfit, bad, stop, expired :
        /\ line \in SetToSeqs(held[w]) /\ good \in Good(line)
        /\ raising \in SUBSET ToSet(good) /\ unfit \in SUBSET ToSet(good)
        /\ bad = Failing(w, good, raising, unfit)
        /\ work' = [work EXCEPT ![w] = Outcomes(line, good, bad, stop)]
        /\ procs' = [procs EXCEPT ![w].sessions = Tracked(@ \ expired, good)]
        /\ raised' = raised \cup {<<data[t], data[t]>> : t \in unfit} \cup
              UNION {{<<data[t], data[u]>> : t \in Together(w, good, u)} : u \in raising}
        /\ Costs(bad # {})
  BY Zenon DEF Run
<1> DEFINE position(t) == CHOOSE i \in DOMAIN good : good[i] = t
           new == Outcomes(line, good, bad, stop)
           p == [procs[w] EXCEPT !.sessions = Tracked(procs[w].sessions \ expired, good)]
<1>2. ProcTyped /\ CP!ChainInv /\ budget' \in Nat
  BY <1>1, CostsTyped DEF ClusterInv
<1>3. /\ work' = [work EXCEPT ![w] = new]
      /\ procs' = [procs EXCEPT ![w] = p]
  BY <1>1, <1>2 DEF ProcTyped
<1>4. /\ Running(w)
      /\ UNCHANGED <<relayVars, held, data, calls>>
  BY DEF Run
<1>5. held \in [Workers -> SUBSET TaskId] /\ held[w] \in SUBSET TaskId
  BY <1>2, Ids DEF CP!ChainInv, CP!TypeOK
<1>6. \A t \in held[w] : t \in TaskId /\ data[t] \in Calls
  BY <1>2, <1>5 DEF CP!ChainInv, CP!Rooted, ClusterInv, DataFollows
<1>7. /\ ToSet(line) = held[w]
      /\ ToSet(good) = {t \in held[w] : Decodes(t)}
      /\ \A t \in ToSet(good) : \E i \in DOMAIN good : good[i] = t
  BY <1>1, <1>5, BatchRuns
<1>8. \A t \in ToSet(good) : Rids(line, good)[position(t)] = data[t]
  <2> SUFFICES ASSUME NEW t \in ToSet(good) PROVE Rids(line, good)[position(t)] = data[t]
    OBVIOUS
  <2>1. position(t) \in DOMAIN good /\ good[position(t)] = t
    BY <1>7
  <2> QED BY <2>1 DEF Rids
<1>9. new = [t \in TaskId |->
                IF t \notin ToSet(line) THEN None
                ELSE IF t \in ToSet(good) \ bad
                THEN [kind |-> IF t \in stop THEN "stop" ELSE "result",
                      of |-> Rids(line, good)[position(t)]]
                ELSE [kind |-> "error", of |-> NoCall]]
  BY Zenon DEF Outcomes
<1> HIDE DEF position, new
<1>10. \A t \in TaskId : new[t] \in Outcome /\ (new[t] # None => t \in held[w])
  <2> SUFFICES ASSUME NEW t \in TaskId, t \in held[w] PROVE new[t] \in Outcome
    BY <1>7, <1>9, NoneIsOutcome
  <2>1. CASE t \in ToSet(good) \ bad
    BY <1>6, <1>7, <1>8, <1>9, <2>1 DEF Outcome
  <2>2. CASE t \notin ToSet(good) \ bad
    BY <1>7, <1>9, <2>2 DEF Outcome
  <2> QED BY <2>1, <2>2
<1>22. /\ raised' \subseteq Calls \X Calls /\ raised \subseteq raised'
      /\ \A t \in bad : data[t] \in Blamed'
  <2>1. \A u \in ToSet(good) : Together(w, good, u) \subseteq ToSet(good)
    BY DEF Together
  <2>2. \A t \in ToSet(good) : data[t] \in Calls \ Unreadable
    BY <1>6, <1>7 DEF Decodes
  <2>5. /\ raised \subseteq raised'
        /\ \A t \in unfit : <<data[t], data[t]>> \in raised'
        /\ \A u \in raising : \A t \in Together(w, good, u) : <<data[t], data[u]>> \in raised'
        /\ \A pair \in raised' :
              \/ pair \in raised
              \/ \E t \in unfit : pair = <<data[t], data[t]>>
              \/ \E u \in raising : \E t \in Together(w, good, u) : pair = <<data[t], data[u]>>
    <3> DEFINE A == {<<data[t], data[t]>> : t \in unfit}
               B(u) == {<<data[t], data[u]>> : t \in Together(w, good, u)}
               C == UNION {B(u) : u \in raising}
    <3>1. raised' = raised \cup A \cup C
      BY <1>1
    <3>2. \A t \in unfit : <<data[t], data[t]>> \in A
      OBVIOUS
    <3>3. \A u \in raising : \A t \in Together(w, good, u) : <<data[t], data[u]>> \in C
      OBVIOUS
    <3>4. \A pair \in A : \E t \in unfit : pair = <<data[t], data[t]>>
      OBVIOUS
    <3>5. \A pair \in C :
            \E u \in raising : \E t \in Together(w, good, u) : pair = <<data[t], data[u]>>
      OBVIOUS
    <3> HIDE DEF A, C
    <3> QED BY <3>1, <3>2, <3>3, <3>4, <3>5
  <2>3. raised' \subseteq Calls \X Calls /\ raised \subseteq raised'
    <3>1. raised \subseteq Calls \X Calls
      BY <1>2 DEF ProcTyped
    <3>2. \A t \in ToSet(good) : data[t] \in Calls
      BY <2>2
    <3>3. unfit \subseteq ToSet(good) /\ raising \subseteq ToSet(good)
      BY <1>1
    <3> QED BY <2>1, <2>5, <3>1, <3>2, <3>3
  <2>4. ASSUME NEW t \in bad PROVE data[t] \in Blamed'
    <3>1. t \in ToSet(good) /\ (t \in unfit \/ Together(w, good, t) \cap raising # {})
      BY <1>1, <2>4 DEF Failing
    <3>2. CASE t \in unfit
      <4>1. <<data[t], data[t]>> \in raised'
        BY <2>5, <3>2
      <4> QED BY <2>2, <3>1, <4>1 DEF Blamed
    <3>3. CASE Together(w, good, t) \cap raising # {}
      <4>1. PICK u \in raising : u \in Together(w, good, t)
        BY <3>3
      <4>2. t \in Together(w, good, u) /\ u \in ToSet(good)
        BY <1>1, <3>1, <4>1 DEF Together
      <4>3. <<data[t], data[u]>> \in raised'
        BY <2>5, <4>1, <4>2
      <4> QED BY <2>2, <3>1, <4>2, <4>3 DEF Blamed
    <3> QED BY <3>1, <3>2, <3>3
  <2> QED BY <2>3, <2>4
<1>11. \A t \in TaskId :
         /\ new[t].kind \in {"result", "stop"} => new[t].of = data[t]
         /\ new[t].kind = "error" => data[t] \in Blamed'
  <2> SUFFICES ASSUME NEW t \in TaskId
               PROVE  /\ new[t].kind \in {"result", "stop"} => new[t].of = data[t]
                      /\ new[t].kind = "error" => data[t] \in Blamed'
    OBVIOUS
  <2>1. CASE t \notin held[w]
    BY <1>7, <1>9, <2>1, NoneIsOutcome
  <2>2. CASE t \in ToSet(good) \ bad
    <3>1. new[t].of = data[t] /\ new[t].kind \in {"stop", "result"}
      BY <1>7, <1>8, <1>9, <2>2
    <3> QED BY <3>1
  <2>3. CASE t \in held[w] /\ t \notin ToSet(good) \ bad
    <3>1. new[t].kind = "error"
      BY <1>7, <1>9, <2>3
    <3>2. CASE t \in ToSet(good)
      BY <1>22, <2>3, <3>1, <3>2
    <3>3. CASE t \notin ToSet(good)
      <4>1. data[t] \in Unreadable
        BY <1>7, <2>3, <3>3 DEF Decodes
      <4> QED BY <3>1, <4>1 DEF Blamed
    <3> QED BY <3>1, <3>2, <3>3
  <2> QED BY <1>7, <2>1, <2>2, <2>3
<1>12. work' \in [Workers -> [TaskId -> Outcome]]
       /\ \A v \in Workers : work'[v] = IF v = w THEN new ELSE work[v]
  <2>1. new \in [TaskId -> Outcome]
    BY <1>9, <1>10
  <2> QED BY <1>2, <1>3, <2>1 DEF ProcTyped
<1>13. p \in Process /\ p.phase = procs[w].phase /\ p.mail = procs[w].mail
  <2>1. Tracked(procs[w].sessions \ expired, good) \in SUBSET Sessions
    BY DEF Tracked
  <2> QED BY <1>2, <2>1 DEF ProcTyped, Process
<1> HIDE DEF p
<1>14. procs' \in [Workers -> Process]
       /\ \A v \in Workers : procs'[v].phase = procs[v].phase /\ procs'[v].mail = procs[v].mail
  BY <1>2, <1>3, <1>13 DEF ProcTyped
<1>15. raised' \subseteq Calls \X Calls /\ raised \subseteq raised'
  BY <1>22
<1>16. ProcTyped'
  <2>1. \A v \in Workers, t \in TaskId : work'[v][t] # None => t \in held'[v]
    BY <1>2, <1>4, <1>10, <1>12 DEF ProcTyped
  <2>2. \A v \in Workers : /\ procs'[v].mail = {} \/ \E claims : procs'[v].mail = {claims}
                           /\ held'[v] # {} => procs'[v].phase \in {"running", "stopping"}
    BY <1>2, <1>4, <1>14 DEF ProcTyped
  <2>3. data' \in [TaskId -> Calls \cup {NoCall}] /\ calls' \in [Calls -> Call]
    BY <1>2, <1>4 DEF ProcTyped
  <2>4. work' \in [Workers -> [TaskId -> Outcome]] /\ procs' \in [Workers -> Process]
    BY <1>12, <1>14
  <2> QED BY <1>2, <1>15, <2>1, <2>2, <2>3, <2>4, Zenon DEF ProcTyped
<1>17. CP!ChainInv' /\ CP!Kept
  BY <1>2, <1>4, <1>5, HandsEmptied
<1>18. failing' = failing /\ data' = data /\ calls' = calls
  BY <1>4 DEF relayVars
<1>19. \A v \in Workers, t \in TaskId :
          \/ work'[v][t] \in {work[v][t], None}
          \/ /\ work'[v][t].kind \in {"result", "stop"} => work'[v][t].of = data[t]
             /\ work'[v][t].kind = "error" => data[t] \in Blamed'
  BY <1>11, <1>12
<1>20. \A v \in Workers, t \in TaskId :
          <<t, v>> \in failing' => <<t, v>> \in failing \/ Caused(t)
  BY <1>18
<1>21. \A c \in Calls : calls'[c] = calls[c]
  BY <1>18
<1> QED BY <1>15, <1>16, <1>17, <1>18, <1>19, <1>20, <1>21, ClusterKept

\* The end of a call is of its own making.
LEMMA CallEnds ==
    ASSUME ClusterInv, NEW c \in Calls, NEW phase \in Ended, EndsAs(c, phase),
           UNCHANGED <<relayVars, held, procs, work, raised, data>>, budget' \in Nat,
           phase # "refused",
           phase = "failed" => c \in Blamed
    PROVE  ClusterInv'
<1>1. ProcTyped /\ CP!ChainInv
  BY DEF ClusterInv
<1>2. CP!ChainInv' /\ CP!Kept
  BY <1>1, HandsEmptied, Ids DEF CP!ChainInv, CP!TypeOK
<1>3. [phase |-> phase, task |-> 0] \in Call
  BY Ids DEF Call, Ended
<1>4. /\ calls' \in [Calls -> Call]
      /\ calls'[c].phase = phase
      /\ \A d \in Calls : d # c => calls'[d] = calls[d]
  BY <1>1, <1>3 DEF EndsAs, ProcTyped
<1>5. ProcTyped'
  BY <1>1, <1>4 DEF ProcTyped
<1>6. \A d \in Calls :
         \/ calls'[d] = calls[d]
         \/ calls'[d].phase \notin {"waiting", "refused", "failed"}
         \/ calls'[d].phase = "failed" /\ d \in Blamed
  BY <1>4 DEF Ended
<1>7. failing' = failing /\ \A w \in Workers, t \in TaskId : work'[w][t] \in {work[w][t], None}
  BY DEF relayVars
<1> QED BY <1>2, <1>5, <1>6, <1>7, ClusterKept

LEMMA GiveUpStep == ASSUME ClusterInv, NEW c \in Calls, GiveUp(c) PROVE ClusterInv'
<1>1. budget' \in Nat
  BY CostsTyped DEF GiveUp, ClusterInv
<1>2. UNCHANGED <<relayVars, held, procs, work, raised, data>> /\ EndsAs(c, "timeout")
  BY DEF GiveUp, workVars
<1> QED BY <1>1, <1>2, CallEnds DEF Ended

LEMMA ReceiveStep == ASSUME ClusterInv, NEW c \in Calls, Receive(c) PROVE ClusterInv'
<1> DEFINE t == calls[c].task
<1>1. /\ calls[c].phase = "waiting" /\ Received(c) # "waiting" /\ EndsAs(c, Received(c))
      /\ UNCHANGED <<relayVars, held, procs, work, raised, data, budget>>
  BY DEF Receive, workVars
<1>2. budget' \in Nat /\ t \in TaskId /\ data[t] = c
  BY <1>1 DEF ClusterInv, ProcTyped, DataFollows
<1>3. R!View(t).status = "FAILED" => c \in Blamed
  <2> SUFFICES ASSUME R!View(t).status = "FAILED" PROVE c \in Blamed
    OBVIOUS
  <2>1. t \in known /\ tasks[t].status = "FAILED"
    BY DEF R!View
  <2>2. t \in CP!Objects
    BY <2>1 DEF ClusterInv, CP!ChainInv, CP!TypeOK, CP!Objects
  <2> QED BY <1>2, <2>1, <2>2 DEF ClusterInv, FailuresCaused, Caused
<1>4. /\ Received(c) \in Ended /\ Received(c) # "refused"
      /\ Received(c) = "failed" => R!View(t).status = "FAILED"
  BY <1>1, <1>2 DEF Received, Ended
<1> QED BY <1>1, <1>2, <1>3, <1>4, CallEnds

-----------------------------------------------------------------------------
(* The steps that end a task, or add one *)

\* What a worker has in hand, or reports as failed, has been given out.
LEMMA HandsAreOld ==
    ASSUME ClusterInv
    PROVE  /\ \A w \in Workers, t \in TaskId : work[w][t] # None => t <= issued
           /\ \A w \in Workers, t \in TaskId : <<t, w>> \in failing => t \in CP!Objects
           /\ \A t \in CP!Objects : /\ t \in TaskId /\ t <= issued
                                    /\ tasks[t].root \in CP!Objects
           /\ issued \in Nat /\ known \subseteq CP!Objects
           /\ TaskId \subseteq Nat
<1>1. \A t \in CP!Objects : /\ t \in TaskId /\ t <= issued
                            /\ tasks[t].root \in CP!Objects
  BY Ids DEF ClusterInv, CP!ChainInv, CP!Rooted, CP!Objects
<1>2. \A w \in Workers, t \in TaskId : work[w][t] # None => t <= issued
  BY DEF ClusterInv, CP!ChainInv, CP!Rooted, ProcTyped
<1>3. failing \subseteq {t \in CP!TaskId : tasks[t] # NoTask} \X Workers
  BY DEF ClusterInv, CP!ChainInv, CP!TypeOK
<1>4. \A w \in Workers, t \in TaskId : <<t, w>> \in failing => t \in CP!Objects
  BY <1>3 DEF CP!Objects
<1>5. issued \in Nat /\ known \subseteq CP!Objects /\ TaskId \subseteq Nat
  BY Ids DEF ClusterInv, CP!ChainInv, CP!TypeOK, CP!Objects
<1> QED BY <1>1, <1>2, <1>4, <1>5

\* Data stays with the tasks it was given to.
LEMMA ClusterMoved ==
    ASSUME ClusterInv, CP!ChainInv', ProcTyped',
           issued' \in Nat, issued <= issued', raised' = raised,
           \A t \in TaskId : t <= issued => data'[t] = data[t],
           \A t \in TaskId : t <= issued' => data'[t] \in Calls,
           \A t \in CP!Objects' : data'[tasks'[t].root] = data'[t],
           \A t \in CP!Objects' : tasks'[t].status = "FAILED" => t \in CP!Objects /\ Caused(t),
           \A pair \in failing' : pair \in failing,
           \A w \in Workers, t \in TaskId : work'[w][t] \in {work[w][t], None},
           \A c \in Calls :
              \/ calls'[c] = calls[c]
              \/ calls'[c].phase = "submitting"
              \/ /\ calls'[c].phase = "waiting"
                 /\ calls'[c].task \in TaskId /\ calls'[c].task <= issued'
                 /\ data'[calls'[c].task] = c
    PROVE  ClusterInv'
<1>1. /\ \A w \in Workers, t \in TaskId : work[w][t] # None => data'[t] = data[t]
      /\ \A w \in Workers, t \in TaskId : <<t, w>> \in failing => data'[t] = data[t]
      /\ \A t \in CP!Objects : data'[t] = data[t]
  BY HandsAreOld
<1>2. \A w \in Workers, t \in TaskId :
        /\ work'[w][t].kind \in {"result", "stop"} => work'[w][t].of = data'[t]
        /\ work'[w][t].kind = "error" => data'[t] \in Blamed
  <2> SUFFICES ASSUME NEW w \in Workers, NEW t \in TaskId
               PROVE  /\ work'[w][t].kind \in {"result", "stop"} => work'[w][t].of = data'[t]
                      /\ work'[w][t].kind = "error" => data'[t] \in Blamed
    OBVIOUS
  <2>1. CASE work'[w][t] = None
    BY <2>1, NoneIsOutcome
  <2>2. CASE work'[w][t] = work[w][t] /\ work[w][t] # None
    BY <1>1, <2>2 DEF ClusterInv, DataFollows, FailuresCaused, Caused
  <2> QED BY <2>1, <2>2
<1>3. \A c \in Calls : calls[c].phase = "waiting" =>
         /\ calls[c].task \in TaskId /\ calls[c].task <= issued'
         /\ data'[calls[c].task] = c
  BY HandsAreOld DEF ClusterInv, DataFollows
<1>4. DataFollows'
  BY <1>2, <1>3 DEF ClusterInv, DataFollows, OwnAnswers
<1>5. \A w \in Workers, t \in TaskId :
        <<t, w>> \in failing' => data'[t] \in Blamed
  BY <1>1 DEF ClusterInv, FailuresCaused, Caused
<1>6. \A t \in CP!Objects' : tasks'[t].status = "FAILED" => data'[t] \in Blamed
  BY <1>1 DEF Caused
<1>7. FailedForCause' /\ Blamed' = Blamed
  <2>1. \A c \in Calls : calls'[c].phase = "failed" => c \in Blamed
    BY BlamedFail DEF ClusterInv, FailuresCaused
  <2>2. Blamed' = Blamed
    BY DEF Blamed
  <2> QED BY <2>1, <2>2 DEF FailedForCause, Blamed
<1>8. FailuresCaused'
  BY <1>2, <1>5, <1>6, <1>7 DEF FailuresCaused, Caused
<1> QED BY <1>4, <1>8 DEF ClusterInv

\* A task and the root it ends carry the same data.
LEMMA EndedCarriesSame ==
    ASSUME ClusterInv, NEW t \in CP!Objects, NEW u \in CP!Ended(t)
    PROVE  u \in CP!Objects /\ data[u] = data[t]
<1>1. u \in {t, tasks[t].root}
  BY DEF CP!Ended
<1> QED BY <1>1, HandsAreOld DEF ClusterInv, DataFollows

\* A task gets its last status, and its root with it.
LEMMA EndStep ==
    ASSUME ClusterInv, CP!ChainInv', ProcTyped', NEW t \in CP!Objects,
           NEW status \in {"COMPLETED", "FAILED"}, NEW body \in Seq(Workers),
           tasks' = CP!Finished(tasks, t, status, body),
           issued' = issued, data' = data, raised' = raised, calls' = calls,
           status = "FAILED" => Caused(t),
           \A pair \in failing' : pair \in failing,
           \A w \in Workers, u \in TaskId : work'[w][u] \in {work[w][u], None}
    PROVE  ClusterInv'
<1>1. CP!TypeOK /\ status \in CP!FINISHED
  BY DEF ClusterInv, CP!ChainInv, CP!FINISHED
<1>2. /\ CP!Objects' = CP!Objects
      /\ \A u \in CP!Objects :
           /\ u \notin CP!Ended(t) \/ tasks[u].done => tasks'[u] = tasks[u]
           /\ u \in CP!Ended(t) /\ ~tasks[u].done =>
                 CP!Outcome(tasks[u], tasks'[u], status, body)
  BY <1>1, RelayAssumptions, CP!FinishedFields
<1>3. \A u \in CP!Objects :
        /\ tasks'[u].root = tasks[u].root
        /\ tasks'[u].status = "FAILED" => Caused(u)
  <2> SUFFICES ASSUME NEW u \in CP!Objects
               PROVE  /\ tasks'[u].root = tasks[u].root
                      /\ tasks'[u].status = "FAILED" => Caused(u)
    OBVIOUS
  <2>1. CASE u \notin CP!Ended(t) \/ tasks[u].done
    BY <1>2, <2>1 DEF ClusterInv, FailuresCaused
  <2>2. CASE u \in CP!Ended(t) /\ ~tasks[u].done
    <3>1. data[u] = data[t]
      BY <2>2, EndedCarriesSame
    <3>2. tasks'[u].status = status /\ tasks'[u].root = tasks[u].root
      BY <1>2, <2>2 DEF CP!Outcome
    <3> QED BY <3>1, <3>2 DEF Caused
  <2> QED BY <2>1, <2>2
<1>4. \A u \in CP!Objects' : data'[tasks'[u].root] = data'[u]
  BY <1>2, <1>3 DEF ClusterInv, DataFollows
<1>5. \A u \in CP!Objects' : tasks'[u].status = "FAILED" => u \in CP!Objects /\ Caused(u)
  BY <1>2, <1>3
<1>6. /\ issued' \in Nat /\ issued <= issued'
      /\ \A u \in TaskId : u <= issued' => data'[u] \in Calls
  BY HandsAreOld DEF ClusterInv, DataFollows
<1> QED BY <1>4, <1>5, <1>6, ClusterMoved

LEMMA FailFinishStep ==
    ASSUME ClusterInv, NEW w \in Workers, NEW t \in TaskId, FailFinish(w, t)
    PROVE  ClusterInv'
<1>1. /\ CP!FailFinish(w, t)
      /\ UNCHANGED <<procs, work, raised, data, calls, budget>>
  BY SameFailFinish DEF FailFinish, workVars
<1>2. CP!ChainInv'
  <2>1. CP!Next
    BY <1>1, Ids DEF CP!Next, CP!Orderly, CP!WorkerStep
  <2> QED BY <2>1, RelayStep DEF ClusterInv
<1>3. /\ <<t, w>> \in failing /\ \A pair \in failing' : pair \in failing
      /\ tasks' = CP!Finished(tasks, t, "FAILED", CP!Answer(t, w))
      /\ issued' = issued /\ held' = held
  BY <1>1 DEF CP!FailFinish
<1>4. t \in CP!Objects /\ Caused(t)
  BY <1>3, HandsAreOld DEF ClusterInv, FailuresCaused
<1>5. CP!Answer(t, w) \in Seq(Workers)
  <2>1. tasks[t].payload \in Seq(Workers)
    BY <1>4 DEF ClusterInv, CP!ChainInv, CP!TypeOK, CP!Objects, CP!Task
  <2> QED BY <2>1 DEF CP!Answer
<1>6. ProcTyped'
  BY <1>1, <1>3 DEF ClusterInv, ProcTyped
<1>7. \A v \in Workers, u \in TaskId : work'[v][u] \in {work[v][u], None}
  BY <1>1
<1> QED BY <1>1, <1>2, <1>3, <1>4, <1>5, <1>6, <1>7, EndStep

LEMMA RestartStep == ASSUME ClusterInv, Restart PROVE ClusterInv'
<1>1. CP!Restart /\ Costs(TRUE) /\ UNCHANGED <<procs, work, raised, data, calls>>
  BY SameRestart DEF Restart, workVars
<1>2. CP!ChainInv'
  <2>1. CP!Next
    BY <1>1 DEF CP!Next, CP!Orderly, CP!Environment
  <2> QED BY <2>1, RelayStep DEF ClusterInv
<1>3. /\ failing' = {} /\ issued' = issued /\ held' = held
      /\ \A t \in CP!TaskId : tasks'[t] = NoTask
  BY <1>1 DEF CP!Restart
<1>4. CP!Objects' = {}
  BY <1>3 DEF CP!Objects
<1>5. ProcTyped'
  <2>1. budget' \in Nat
    BY <1>1, CostsTyped DEF ClusterInv
  <2> QED BY <1>1, <1>3, <2>1 DEF ClusterInv, ProcTyped
<1>6. /\ issued' \in Nat /\ issued <= issued'
      /\ \A u \in TaskId : u <= issued' => data'[u] \in Calls
  BY <1>1, <1>3, HandsAreOld DEF ClusterInv, DataFollows
<1>7. \A w \in Workers, t \in TaskId : work'[w][t] \in {work[w][t], None}
  BY <1>1
<1> QED BY <1>1, <1>2, <1>3, <1>4, <1>5, <1>6, <1>7, ClusterMoved

\* An upload that ends the chain: only the task and its root have a new result.
LEMMA CompleteStep ==
    ASSUME ClusterInv, NEW w \in Workers, NEW t \in TaskId,
           CP!Complete(w, t), work[w][t].kind \in {"result", "stop"},
           Carries(work[w][t].of), work' = WorkLeft(w), budget' \in Nat,
           UNCHANGED <<procs, calls, raised>>
    PROVE  ClusterInv'
<1>1. CP!ChainInv'
  <2>1. CP!Next
    BY Ids DEF CP!Next, CP!Orderly, CP!WorkerStep, CP!PostResult
  <2> QED BY <2>1, RelayStep DEF ClusterInv
<1>2. /\ tasks[t] # NoTask
      /\ tasks' = CP!Finished(tasks, t, "COMPLETED", CP!Answer(t, w))
      /\ issued' = issued /\ failing' = failing /\ known' = known
      /\ held' = [held EXCEPT ![w] = @ \ {t}] \/ held' = held
  BY DEF CP!Complete, CP!ResultAccepted, CP!Reported
<1>3. t \in CP!Objects /\ CP!Answer(t, w) \in Seq(Workers)
  <2>1. t \in CP!Objects
    BY <1>2, Ids DEF CP!Objects
  <2>2. tasks[t].payload \in Seq(Workers)
    BY <2>1 DEF ClusterInv, CP!ChainInv, CP!TypeOK, CP!Objects, CP!Task
  <2> QED BY <2>1, <2>2 DEF CP!Answer
<1>4. \A u \in CP!Objects : u \notin CP!Ended(t) => tasks'[u] = tasks[u]
  <2>1. CP!TypeOK /\ "COMPLETED" \in CP!FINISHED
    BY DEF ClusterInv, CP!ChainInv, CP!FINISHED
  <2> QED BY <1>2, <1>3, <2>1, RelayAssumptions, CP!FinishedFields
<1>5. data' = data
  <2>1. data \in [TaskId -> Calls \cup {NoCall}]
    BY DEF ClusterInv, ProcTyped
  <2>2. work[w][t].of = data[t]
    BY DEF ClusterInv, DataFollows
  <2>3. ASSUME NEW u \in TaskId PROVE data'[u] = data[u]
    <3>1. data'[u] = IF \/ issued < u /\ u <= issued'
                        \/ Answered(u)' /\ ~Answered(u)
                     THEN data[t] ELSE data[u]
      BY <2>2, <2>3 DEF Carries
    <3>2. ~(issued < u /\ u <= issued')
      BY <1>2, HandsAreOld
    <3>3. ASSUME Answered(u)', ~Answered(u) PROVE data[u] = data[t]
      <4>1. u \in known /\ tasks'[u] # tasks[u]
        BY <1>2, <3>3 DEF Answered
      <4>2. u \in CP!Objects /\ u \in CP!Ended(t)
        BY <1>4, <4>1, HandsAreOld
      <4> QED BY <1>3, <4>2, EndedCarriesSame
    <3> QED BY <3>1, <3>2, <3>3
  <2> QED BY <2>1, <2>3 DEF Carries
<1>6. /\ \A v \in Workers : v # w => held'[v] = held[v]
      /\ held'[w] # {} => held[w] # {}
  BY <1>2 DEF ClusterInv, CP!ChainInv, CP!TypeOK
<1>7. ProcTyped'
  BY <1>5, <1>6, ProcLeft DEF ClusterInv
<1>8. \A v \in Workers, u \in TaskId : work'[v][u] \in {work[v][u], None}
  BY WorkLeftTyped DEF ClusterInv
<1> QED BY <1>1, <1>2, <1>3, <1>5, <1>7, <1>8, EndStep

\* A task that is added is answered by nobody yet, and no other one is.
LEMMA AddedData ==
    ASSUME ClusterInv, NEW c \in Calls, Carries(c),
           issued' = issued + 1, issued' \in TaskId,
           known' = known \cup {issued'}, tasks'[issued'].status = "PENDING",
           \A u \in CP!Objects : \/ tasks'[u].status = tasks[u].status
                                 \/ tasks'[u].status = "FORWARDED"
    PROVE  /\ data' \in [TaskId -> Calls \cup {NoCall}]
           /\ data'[issued'] = c
           /\ \A u \in TaskId : u <= issued => data'[u] = data[u]
           /\ \A u \in TaskId : u <= issued' => data'[u] \in Calls
           /\ issued' \in Nat /\ issued < issued'
<1>1. issued \in Nat /\ TaskId \subseteq Nat /\ known \subseteq CP!Objects
  BY HandsAreOld
<1>2. ASSUME NEW u \in TaskId
      PROVE  data'[u] = IF u = issued' THEN c ELSE data[u]
  <2>1. data'[u] = IF \/ issued < u /\ u <= issued'
                      \/ Answered(u)' /\ ~Answered(u)
                   THEN c ELSE data[u]
    BY <1>2 DEF Carries
  <2>2. issued < u /\ u <= issued' <=> u = issued'
    BY <1>1
  <2>3. ~(Answered(u)' /\ ~Answered(u))
    <3> SUFFICES ASSUME Answered(u)', ~Answered(u) PROVE FALSE
      OBVIOUS
    <3>1. u \in known' /\ tasks'[u].status = "COMPLETED"
      BY DEF Answered
    <3>2. u \in known
      BY <3>1
    <3> QED BY <1>1, <3>1, <3>2 DEF Answered
  <2> QED BY <2>1, <2>2, <2>3
<1>3. data \in [TaskId -> Calls \cup {NoCall}]
  BY DEF ClusterInv, ProcTyped
<1>4. data' \in [TaskId -> Calls \cup {NoCall}]
  BY <1>2, <1>3 DEF Carries
<1>5. \A u \in TaskId : u <= issued => data'[u] = data[u] /\ data[u] \in Calls
  BY <1>1, <1>2 DEF ClusterInv, DataFollows
<1>6. \A u \in TaskId : u <= issued' => u <= issued \/ u = issued'
  BY <1>1
<1> QED BY <1>1, <1>2, <1>4, <1>5, <1>6

\* An upload that is forwarded: the next step carries on what this one carried.
LEMMA ForwardStep ==
    ASSUME ClusterInv, NEW w \in Workers, NEW t \in TaskId,
           CP!Forward(w, t), work[w][t].kind = "result",
           Carries(work[w][t].of), work' = WorkLeft(w), budget' \in Nat,
           UNCHANGED <<procs, calls, raised>>
    PROVE  ClusterInv'
<1> DEFINE n == issued'
<1>1. CP!ChainInv'
  <2>1. CP!Next
    BY Ids DEF CP!Next, CP!Orderly, CP!WorkerStep, CP!PostResult
  <2> QED BY <2>1, RelayStep DEF ClusterInv
<1>2. CP!TypeOK /\ CP!Rooted
  BY DEF ClusterInv, CP!ChainInv
<1>3. /\ t \in CP!Objects
      /\ n = issued + 1 /\ n \in CP!TaskId \ CP!Objects
      /\ CP!Objects' = CP!Objects \cup {n} /\ known' = known \cup {n}
      /\ tasks'[n] = CP!NextStep(t, w)
      /\ tasks'[t].status = "FORWARDED" /\ tasks'[t].root = tasks[t].root
      /\ \A u \in CP!Objects : u # t => tasks'[u] = tasks[u]
  BY <1>2, RelayAssumptions, Ids, CP!ForwardFields
<1>4. tasks'[n].root = tasks[t].root /\ tasks'[n].status = "PENDING"
  BY <1>3 DEF CP!NextStep, CP!NewTask
<1>5. work[w][t].of = data[t] /\ data[t] \in Calls
  BY <1>3, HandsAreOld DEF ClusterInv, DataFollows
<1>6. /\ data' \in [TaskId -> Calls \cup {NoCall}]
      /\ data'[n] = data[t]
      /\ \A u \in TaskId : u <= issued => data'[u] = data[u]
      /\ \A u \in TaskId : u <= n => data'[u] \in Calls
      /\ n \in Nat /\ issued < n
  BY <1>3, <1>4, <1>5, Ids, AddedData
<1>7. failing' = failing /\ (held' = [held EXCEPT ![w] = @ \ {t}] \/ held' = held)
  BY DEF CP!Forward, CP!Reported
<1>8. /\ \A v \in Workers : v # w => held'[v] = held[v]
      /\ held'[w] # {} => held[w] # {}
  BY <1>2, <1>7 DEF CP!TypeOK
<1>9. ProcTyped'
  <2>1. ProcTyped
    BY DEF ClusterInv
  <2> QED BY <1>6, <1>8, <2>1, ProcChanged
<1>10. \A v \in Workers, u \in TaskId : work'[v][u] \in {work[v][u], None}
  BY WorkLeftTyped DEF ClusterInv
<1> HIDE DEF n
<1>11. \A u \in CP!Objects : /\ data'[u] = data[u] /\ tasks'[u].root = tasks[u].root
                             /\ data'[tasks[u].root] = data[u]
  BY <1>3, <1>6, HandsAreOld DEF ClusterInv, DataFollows
<1>12. \A u \in CP!Objects' : data'[tasks'[u].root] = data'[u]
  BY <1>3, <1>4, <1>6, <1>11
<1>13. \A u \in CP!Objects' : tasks'[u].status = "FAILED" => u \in CP!Objects /\ Caused(u)
  BY <1>3, <1>4 DEF ClusterInv, FailuresCaused
<1>14. /\ issued' \in Nat /\ issued <= issued'
       /\ \A u \in TaskId : u <= issued' => data'[u] \in Calls
  <2>1. issued \in Nat /\ n \in Nat /\ issued < n
    BY <1>6, HandsAreOld
  <2>2. issued <= n
    BY <2>1
  <2> QED BY <1>6, <2>1, <2>2 DEF n
<1> QED BY <1>1, <1>6, <1>7, <1>9, <1>10, <1>12, <1>13, <1>14, ClusterMoved

LEMMA UploadStep ==
    ASSUME ClusterInv, NEW w \in Workers, NEW t \in TaskId, Upload(w, t)
    PROVE  ClusterInv'
<1>1. /\ Carries(work[w][t].of) /\ work' = WorkLeft(w) /\ Costs(t \in held'[w])
      /\ UNCHANGED <<procs, calls, raised>>
  BY DEF Upload
<1>2. budget' \in Nat
  BY <1>1, CostsTyped DEF ClusterInv
<1>3. CASE work[w][t].kind = "result" /\ R!Forward(w, t)
  BY <1>1, <1>2, <1>3, SameForward, ForwardStep
<1>4. CASE work[w][t].kind \in {"result", "stop"} /\ R!Complete(w, t)
  BY <1>1, <1>2, <1>4, SameComplete, CompleteStep
<1>5. CASE work[w][t] # None /\ R!ResultRefused(w, t)
  <2>1. issued' = issued /\ known' = known /\ tasks' = tasks
    BY <1>5 DEF R!ResultRefused
  <2>2. \A u \in TaskId : /\ ~(issued < u /\ u <= issued')
                          /\ ~(Answered(u)' /\ ~Answered(u))
    BY <2>1, HandsAreOld DEF Answered
  <2>3. data' = data
    BY <1>1, <2>2 DEF Carries, ClusterInv, ProcTyped
  <2> QED BY <1>1, <1>2, <1>5, <2>3, ReportStep
<1> QED BY <1>3, <1>4, <1>5 DEF Upload

LEMMA SubmitStep == ASSUME ClusterInv, NEW c \in Calls, Submit(c) PROVE ClusterInv'
<1> DEFINE n == issued'
           q == RequestOf[c]
<1>1. /\ CP!Submit(q) /\ Carries(c) /\ UNCHANGED <<procs, work, raised>>
      /\ \/ /\ calls' = [calls EXCEPT ![c] = [phase |-> "waiting", task |-> n]]
            /\ Costs(FALSE)
         \/ /\ calls' = [calls EXCEPT ![c].phase = "submitting"]
            /\ Costs(TRUE)
  BY SameSubmit DEF Submit, workVars
<1>2. q \in Requests
  BY DEF Requests
<1>3. CP!ChainInv'
  <2>1. CP!Next
    BY <1>1, <1>2 DEF CP!Next, CP!Orderly
  <2> QED BY <2>1, RelayStep DEF ClusterInv
<1>4. CP!TypeOK /\ CP!Rooted /\ ProcTyped
  BY DEF ClusterInv, CP!ChainInv
<1>5. /\ n = issued + 1 /\ n \in CP!TaskId \ CP!Objects
      /\ CP!Objects' = CP!Objects \cup {n} /\ known' = known \cup {n}
      /\ tasks'[n] = CP!NewTask(Head(q.path), Tail(q.path), n, q.session, <<>>)
      /\ \A u \in CP!Objects : tasks'[u] = tasks[u]
      /\ held' = held
  BY <1>1, <1>2, <1>4, RelayAssumptions, CP!SubmitFields
<1>6. tasks'[n].root = n /\ tasks'[n].status = "PENDING"
  BY <1>5 DEF CP!NewTask
<1>7. /\ data' \in [TaskId -> Calls \cup {NoCall}]
      /\ data'[n] = c
      /\ \A u \in TaskId : u <= issued => data'[u] = data[u]
      /\ \A u \in TaskId : u <= n => data'[u] \in Calls
      /\ n \in Nat /\ issued < n /\ n \in TaskId
  BY <1>1, <1>5, <1>6, Ids, AddedData
<1>8. failing' = failing
  BY <1>1 DEF CP!Submit
<1> HIDE DEF n, q
<1>9. /\ \A d \in Calls :
          \/ calls'[d] = calls[d]
          \/ calls'[d].phase = "submitting"
          \/ /\ calls'[d].phase = "waiting"
             /\ calls'[d].task \in TaskId /\ calls'[d].task <= n
             /\ data'[calls'[d].task] = d
      /\ calls' \in [Calls -> Call]
      /\ budget' \in Nat
  <2>1. [phase |-> "waiting", task |-> n] \in Call /\ calls[c] \in Call
    BY <1>4, <1>7, Ids DEF Call, ProcTyped
  <2>2. [calls[c] EXCEPT !.phase = "submitting"] \in Call
    BY <2>1 DEF Call
  <2>3. budget' \in Nat
    BY <1>1, <1>4, CostsTyped
  <2>4. CASE calls' = [calls EXCEPT ![c] = [phase |-> "waiting", task |-> n]]
    BY <1>4, <1>7, <2>1, <2>3, <2>4 DEF ProcTyped
  <2>5. CASE calls' = [calls EXCEPT ![c].phase = "submitting"]
    BY <1>4, <2>1, <2>2, <2>3, <2>5 DEF ProcTyped, Call
  <2> QED BY <1>1, <2>4, <2>5
<1>10. ProcTyped'
  BY <1>1, <1>4, <1>5, <1>7, <1>9 DEF ProcTyped
<1>11. \A v \in Workers, u \in TaskId : work'[v][u] \in {work[v][u], None}
  BY <1>1
<1>12. \A u \in CP!Objects' : data'[tasks'[u].root] = data'[u]
  <2>1. \A u \in CP!Objects : data'[u] = data[u] /\ data'[tasks[u].root] = data[u]
    BY <1>7, HandsAreOld DEF ClusterInv, DataFollows
  <2>2. \A u \in CP!Objects : data'[tasks'[u].root] = data'[u]
    BY <1>5, <2>1
  <2> QED BY <1>5, <1>6, <2>2
<1>13. \A u \in CP!Objects' : tasks'[u].status = "FAILED" => u \in CP!Objects /\ Caused(u)
  BY <1>5, <1>6 DEF ClusterInv, FailuresCaused
<1>14. /\ issued' \in Nat /\ issued <= issued'
       /\ \A u \in TaskId : u <= issued' => data'[u] \in Calls
  <2>1. issued \in Nat /\ n \in Nat /\ issued < n
    BY <1>7, HandsAreOld
  <2>2. issued <= n
    BY <2>1
  <2> QED BY <1>7, <2>1, <2>2 DEF n
<1>15. raised' = raised /\ \A pair \in failing' : pair \in failing
  BY <1>1, <1>8
<1> QED BY <1>3, <1>7, <1>9, <1>10, <1>11, <1>12, <1>13, <1>14, <1>15, ClusterMoved DEF n
-----------------------------------------------------------------------------
(* The theorems *)

LEMMA ClusterStutter == ASSUME ClusterInv, UNCHANGED vars PROVE ClusterInv'
<1>1. /\ UNCHANGED relayVars /\ held' = held
      /\ UNCHANGED <<procs, work, data, calls, raised, budget, failing>>
  BY DEF vars, relayVars
<1>2. CP!ChainInv' /\ CP!Kept
  BY <1>1, HandsEmptied, Ids DEF ClusterInv, CP!ChainInv, CP!TypeOK
<1>3. ProcTyped'
  BY <1>1 DEF ClusterInv, ProcTyped
<1> QED BY <1>1, <1>2, <1>3, ClusterQuiet

LEMMA ClusterStep == ClusterInv /\ [Next]_vars => ClusterInv'
<1> SUFFICES ASSUME ClusterInv, [Next]_vars PROVE ClusterInv'
  OBVIOUS
<1>1. ASSUME NEW w \in Workers, WorkerStep(w) PROVE ClusterInv'
  <2>1. CASE Start(w) \/ Heartbeat(w) \/ HeartbeatMissed(w) \/ RegisterArrives(w)
    BY <2>1, StartStep, HeartbeatStep, HeartbeatMissedStep, RegisterArrivesStep
  <2>2. CASE Poll(w) \/ PutBack(w) \/ PollCancelled(w) \/ Run(w)
    BY <2>2, PollStep, WaitStep, RunStep
  <2>3. ASSUME NEW t \in TaskId, Upload(w, t) \/ ReportFailure(w, t) PROVE ClusterInv'
    BY <2>3, UploadStep, ReportFailureStep
  <2>4. ASSUME NEW t \in TaskId, ReportLost(w, t) \/ FailFinish(w, t) PROVE ClusterInv'
    BY <2>4, ReportLostStep, FailFinishStep
  <2>5. CASE PollLost(w) \/ Crash(w) \/ Stop(w) \/ Leave(w) \/ Silence(w)
    BY <2>5, PollLostStep, CrashStep, StopStep, LeaveStep, SilenceStep
  <2> QED BY <1>1, <2>1, <2>2, <2>3, <2>4, <2>5 DEF WorkerStep, Loop
<1>2. ASSUME NEW c \in Calls, ClientStep(c) PROVE ClusterInv'
  BY <1>2, SubmitStep, ReceiveStep, GiveUpStep DEF ClientStep
<1>3. CASE Janitor \/ Restart
  BY <1>3, JanitorStep, RestartStep
<1>4. CASE UNCHANGED vars
  BY <1>4, ClusterStutter
<1> QED BY <1>1, <1>2, <1>3, <1>4 DEF Next

\* The processes, what they have in hand and what they report fit together, for
\* any number of workers and calls and any faults.
THEOREM TypeCorrect == Spec => []TypeOK
<1>1. ClusterInv => TypeOK
  BY TypesTogether DEF ClusterInv, CP!ChainInv
<1> QED BY <1>1, ClusterInit, ClusterStep, PTL DEF Spec

\* No result is refused for its request id: what was batched, decoded in part,
\* repeated, requeued and routed comes back to the call it belongs to
\* (worker.py _process, wait_for).
THEOREM AnswersAreOwn == Spec => []OwnAnswers
<1>1. ClusterInv => OwnAnswers
  BY DEF ClusterInv, DataFollows
<1> QED BY <1>1, ClusterInit, ClusterStep, PTL DEF Spec

\* A call fails because its payload cannot be read, or a function raised on it or on
\* a readable payload that it ran together with; a payload that cannot be read fails
\* alone (worker.py _decode, _run_func, _process, relay.py _finish).
THEOREM FailuresAreCaused == Spec => []FailedForCause
<1>1. ClusterInv => FailedForCause
  BY DEF ClusterInv, FailuresCaused
<1> QED BY <1>1, ClusterInit, ClusterStep, PTL DEF Spec

-----------------------------------------------------------------------------
(* Sessions stay with their worker, or go with a task *)

LEMMA BindingKept ==
    ASSUME CP!TypeOK, NEW ts, NEW id, NEW task, CP!Enqueue(ts, id, task),
           NEW k \in Roles \X Sessions, affinity[k] \in Workers,
           nodes[affinity[k]] = k[1]
    PROVE  affinity'[k] = affinity[k]
<1> DEFINE b == CP!BoundWorker(task.role, task.session)
<1>1. affinity' = IF task.session = NoSession THEN affinity
                  ELSE [affinity EXCEPT ![<<task.role, task.session>>] = b]
  BY Zenon DEF CP!Enqueue
<1>2. ASSUME k = <<task.role, task.session>>, task.session # NoSession
      PROVE  b = affinity[k]
  <2>1. affinity[k] # NoWorker /\ k[1] = task.role
    BY <1>2, RelayAssumptions DEF CP!NamesAssumption
  <2> QED BY <1>2, <2>1 DEF CP!BoundWorker
<1>3. affinity \in [Roles \X Sessions -> Workers \cup {NoWorker}]
  BY DEF CP!TypeOK
<1> HIDE DEF b
<1> QED BY <1>1, <1>2, <1>3

LEMMA BindingReleased ==
    ASSUME NEW gone, NEW overdue, NEW idle, CP!Release(gone, overdue, idle),
           NEW k \in Roles \X Sessions
    PROVE  affinity'[k] \in {affinity[k], NoWorker}
BY DEF CP!Release

LEMMA BindingClaimed ==
    ASSUME CP!TypeOK, NEW u \in Workers, NEW r, NEW claims, CP!Register(u, r, claims),
           NEW k \in Roles \X Sessions, affinity[k] \in Workers, nodes[affinity[k]] = k[1]
    PROVE  affinity'[k] \in {affinity[k], u} /\ (u # affinity[k] => affinity'[k] = affinity[k])
<1>1. affinity'[k] = IF /\ k[1] = r /\ k[2] \in claims
                        /\ affinity[k] = NoWorker \/ nodes'[affinity[k]] = NoRole
                     THEN u ELSE affinity[k]
  BY DEF CP!Register
<1>2. affinity[k] # NoWorker /\ k[1] \in Roles /\ k[1] # NoRole
  BY RelayAssumptions DEF CP!NamesAssumption
<1>3. u # affinity[k] => nodes'[affinity[k]] = k[1]
  BY DEF CP!Register, CP!TypeOK
<1> QED BY <1>1, <1>2, <1>3

\* A worker that polls takes tasks in hands that were empty.
LEMMA BindingTaken ==
    ASSUME ClusterInv, NEW u \in Workers, Poll(u), NEW k \in Roles \X Sessions,
           affinity'[k] # affinity[k]
    PROVE  affinity'[k] = u /\ held'[u] # held[u]
<1>1. PICK max \in BatchSizes : R!Poll(u, RoleOf(u), max)
  BY DEF Poll
<1>2. CP!Poll(u, RoleOf(u), max) /\ held[u] = {}
  BY <1>1, SamePoll DEF Poll
<1>3. PICK T : /\ held' = [held EXCEPT ![u] = @ \cup T]
               /\ affinity' = [l \in Roles \X Sessions |->
                    IF \E t \in T : /\ tasks[t].role = l[1]
                                    /\ tasks[t].session = l[2]
                    THEN u ELSE affinity[l]]
  BY <1>2, Zenon DEF CP!Poll
<1>4. held \in [Workers -> SUBSET CP!TaskId]
  BY DEF ClusterInv, CP!ChainInv, CP!TypeOK
<1>5. T # {} /\ affinity'[k] = u
  BY <1>3
<1> QED BY <1>2, <1>3, <1>4, <1>5

LEMMA SessionStep ==
    ASSUME ClusterInv, Next, NEW k \in Roles \X Sessions,
           NEW w \in Workers, NEW v \in Workers,
           w # v, affinity[k] = v, nodes[v] = k[1], affinity'[k] = w
    PROVE  held'[w] # held[w]
<1>1. CP!TypeOK /\ affinity[k] \in Workers /\ nodes[affinity[k]] = k[1]
      /\ affinity'[k] \in Workers /\ affinity'[k] # affinity[k] /\ NoWorker \notin Workers
  BY RelayAssumptions DEF ClusterInv, CP!ChainInv, CP!NamesAssumption
<1>2. affinity' # affinity
  BY <1>1
<1>3. ASSUME NEW gone, NEW overdue, NEW idle, CP!Release(gone, overdue, idle) PROVE FALSE
  BY <1>1, <1>3, BindingReleased
<1>4. ASSUME NEW ts, NEW id, NEW task, CP!Enqueue(ts, id, task) PROVE FALSE
  BY <1>1, <1>4, BindingKept
<1>5. ASSUME NEW u \in Workers, WorkerStep(u) PROVE held'[w] # held[w]
  <2>1. CASE Start(u) \/ HeartbeatMissed(u) \/ PollLost(u) \/ Run(u) \/ Crash(u) \/ Stop(u)
    BY <1>2, <2>1 DEF Start, HeartbeatMissed, PollLost, Run, Crash, Stop, relayVars
  <2>2. CASE Heartbeat(u) \/ Silence(u)
    BY <1>2, <2>2 DEF Heartbeat, Silence, R!Heartbeat, R!Silence
  <2>3. CASE RegisterArrives(u)
    <3>1. PICK claims \in procs[u].mail : CP!Register(u, RoleOf(u), claims)
      BY <2>3, SameRegister DEF RegisterArrives
    <3>2. u = v \/ affinity'[k] = v
      BY <1>1, <3>1, BindingClaimed
    <3>3. affinity'[k] \in {v, u}
      BY <1>1, <3>1, BindingClaimed
    <3> QED BY <1>1, <3>2, <3>3
  <2>4. CASE Poll(u)
    BY <1>1, <2>4, BindingTaken
  <2>8. CASE PutBack(u) \/ PollCancelled(u)
    BY <1>2, <2>8 DEF PutBack, PollCancelled, R!PutBack, R!PollCancelled, R!WaitsFor
  <2>5. ASSUME NEW t \in TaskId, Upload(u, t) PROVE FALSE
    <3>1. CASE R!Forward(u, t)
      BY <1>4, <3>1, SameForward DEF CP!Forward
    <3>2. CASE R!Complete(u, t) \/ R!ResultRefused(u, t)
      BY <1>2, <3>2 DEF R!Complete, R!ResultRefused
    <3> QED BY <2>5, <3>1, <3>2 DEF Upload
  <2>6. ASSUME NEW t \in TaskId, ReportFailure(u, t) \/ ReportLost(u, t) \/ FailFinish(u, t)
        PROVE  FALSE
    BY <1>2, <2>6
    DEF ReportFailure, ReportLost, FailFinish, R!FailArrive, R!Abandon, R!FailFinish
  <2>7. CASE Leave(u)
    <3>1. CP!Deregister(u)
      BY <2>7, SameDeregister DEF Leave
    <3> QED BY <1>2, <1>3, <3>1 DEF CP!Deregister, CP!relayVars
  <2> QED BY <1>5, <2>1, <2>2, <2>3, <2>4, <2>5, <2>6, <2>7, <2>8 DEF WorkerStep, Loop
<1>6. ASSUME NEW c \in Calls, ClientStep(c) PROVE FALSE
  <2>1. CASE Submit(c)
    <3>1. CP!Submit(RequestOf[c])
      BY <2>1, SameSubmit DEF Submit
    <3> QED BY <1>4, <3>1 DEF CP!Submit
  <2>2. CASE Receive(c) \/ GiveUp(c)
    BY <1>2, <2>2 DEF Receive, GiveUp, relayVars
  <2> QED BY <1>6, <2>1, <2>2 DEF ClientStep
<1>7. ASSUME Janitor PROVE FALSE
  <2>1. PICK overdue, old, idle : CP!Sweep(overdue, old, idle)
    BY <1>7, SameSweep DEF Janitor, Sweep
  <2> QED BY <1>3, <2>1 DEF CP!Sweep
<1>8. ~Restart
  <2>1. Restart => affinity'[k] = NoWorker
    BY SameRestart DEF Restart, CP!Restart
  <2> QED BY <1>1, <2>1
<1> QED BY <1>5, <1>6, <1>7, <1>8 DEF Next

\* A session leaves a worker that is registered for its role only with a task
\* that another one takes, never by a claim (relay.py register, poll).
THEOREM SessionsAreNotStolen == Spec => NoSessionStolen
<1>1. ClusterInv /\ [Next]_vars =>
        [\A k \in Roles \X Sessions : \A w, v \in Workers :
           /\ w # v
           /\ affinity[k] = v /\ nodes[v] = k[1]
           /\ affinity'[k] = w
           => held'[w] # held[w]]_vars
  BY SessionStep
<1> QED BY <1>1, ClusterInit, ClusterStep, PTL DEF Spec, NoSessionStolen
=============================================================================
