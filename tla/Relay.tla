------------------------------- MODULE Relay -------------------------------
(***************************************************************************)
(* The relay of distllm (src/distllm/relay.py): clients submit tasks for a *)
(* role, workers of that role long-poll them, and the relay keeps the      *)
(* task table, one queue per role and one per worker, and the session      *)
(* affinity that sends the tasks of one session back to the worker that    *)
(* holds its KV cache.                                                     *)
(*                                                                         *)
(* The relay is one asyncio thread.  Putting into its unbounded queues     *)
(* never suspends, so a handler, and a whole janitor sweep, is one step    *)
(* unless it awaits the request body after reading the task table: only    *)
(* /fail does that and is two steps (FailArrive, FailFinish).              *)
(*                                                                         *)
(* Time is a choice: a task may be overdue, a binding idle or a task old   *)
(* whenever the janitor looks.  A request or response payload is the       *)
(* sequence of workers that computed it.                                   *)
(***************************************************************************)
EXTENDS Naturals, Sequences, FiniteSets, SequencesExt

CONSTANTS
    Workers,        \* node ids of the workers
    Roles,          \* roles (pipeline stages) the workers serve
    Sessions,       \* session ids a client may submit with
    MayServe,       \* MayServe[w]: the roles worker w may be started with
    Requests,       \* what clients submit: a chain of roles and a session
    MaxTasks,       \* bound: task ids ever issued
    MaxSubmits,     \* bound: /submit calls
    BatchSizes,     \* the values of max_tasks the workers poll with
    NoWorker, NoRole, NoSession, NoTask

TaskId == 1 .. MaxTasks
Owners == Roles \cup Workers

ASSUME NamesAssumption ==
    /\ Roles \cap Workers = {}
    /\ NoWorker \notin Workers
    /\ NoRole \notin Roles
    /\ NoSession \notin Sessions
    /\ MayServe \in [Workers -> SUBSET Roles]
    /\ Requests \subseteq [path : Seq(Roles) \ {<<>>},
                           session : Sessions \cup {NoSession}]

ASSUME BoundsAssumption ==
    /\ MaxTasks \in Nat
    /\ MaxSubmits \in Nat
    /\ BatchSizes \subseteq Nat \ {0}

Unfinished == {"PENDING", "ASSIGNED"}
FINISHED == {"COMPLETED", "FAILED", "FORWARDED"}

Task ==
    [role    : Roles,
     route   : Seq(Roles),
     root    : TaskId,
     session : Sessions \cup {NoSession},
     status  : Unfinished \cup FINISHED,
     worker  : Workers \cup {NoWorker},
     payload : Seq(Workers),
     result  : Seq(Workers),
     done    : BOOLEAN]

ASSUME NoTaskAssumption == NoTask \notin Task

VARIABLES
    nodes,      \* nodes[w]: the role w is registered for, or NoRole
    tasks,      \* tasks[t]: the Task object with id t, or NoTask
    known,      \* the ids in the dict `tasks`; a handler may hold an object longer
    queues,     \* pending_queues and worker_queues, by owner: sequences of ids
    affinity,   \* affinity[r, s]: the worker that session s of role r is bound to
    silent,     \* registered nodes without a heartbeat for NODE_TIMEOUT
    failing,    \* /fail requests past their checks, still reading their body
    issued,     \* the number of task ids issued so far
    submits,    \* the number of /submit calls so far
    held        \* held[w]: tasks delivered to w and not given up or reported

relayVars == <<nodes, tasks, known, queues, affinity, silent, failing>>
vars == <<nodes, tasks, known, queues, affinity, silent, failing,
          issued, submits, held>>

TypeOK ==
    /\ nodes \in [Workers -> Roles \cup {NoRole}]
    /\ tasks \in [TaskId -> Task \cup {NoTask}]
    /\ known \subseteq {t \in TaskId : tasks[t] # NoTask}
    /\ queues \in [Owners -> Seq(TaskId)]
    /\ affinity \in [Roles \X Sessions -> Workers \cup {NoWorker}]
    /\ silent \subseteq {w \in Workers : nodes[w] # NoRole}
    /\ failing \subseteq {t \in TaskId : tasks[t] # NoTask} \X Workers
    /\ issued \in 0 .. MaxTasks
    /\ submits \in 0 .. MaxSubmits
    /\ held \in [Workers -> SUBSET TaskId]

Nothing ==      \* what a relay process starts with
    /\ nodes = [w \in Workers |-> NoRole]
    /\ tasks = [t \in TaskId |-> NoTask]
    /\ known = {}
    /\ queues = [o \in Owners |-> <<>>]
    /\ affinity = [k \in Roles \X Sessions |-> NoWorker]
    /\ silent = {}
    /\ failing = {}

Init ==
    /\ Nothing
    /\ issued = 0
    /\ submits = 0
    /\ held = [w \in Workers |-> {}]

-----------------------------------------------------------------------------
Waiting(t) == t \in known /\ tasks[t].status = "PENDING"
Assigned(t) == t \in known /\ tasks[t].status = "ASSIGNED"

NewTask(role, route, root, session, payload) ==
    [role |-> role, route |-> route, root |-> root, session |-> session,
     status |-> "PENDING", worker |-> NoWorker,
     payload |-> payload, result |-> <<>>, done |-> FALSE]

\* Mutant: a binding is followed whether its worker is alive or not.
BoundToAnyWorker(role, session) ==
    IF session = NoSession THEN NoWorker ELSE affinity[<<role, session>>]

\* The worker a session's next task for a role goes to, if it is alive.
BoundWorker(role, session) ==
    IF session = NoSession THEN NoWorker
    ELSE LET w == affinity[<<role, session>>]
         IN  IF w # NoWorker /\ nodes[w] = role THEN w ELSE NoWorker

\* _enqueue: the new task id joins its bound worker's queue or its role's;
\* a binding to a worker that is gone is dropped.
Enqueue(ts, id, task) ==
    LET w == BoundWorker(task.role, task.session)
        owner == IF w = NoWorker THEN task.role ELSE w
    IN  /\ tasks' = [ts EXCEPT ![id] = task]
        /\ known' = known \cup {id}
        /\ queues' = [queues EXCEPT ![owner] = Append(@, id)]
        /\ affinity' = IF task.session = NoSession THEN affinity
                       ELSE [affinity EXCEPT ![<<task.role, task.session>>] = w]
        /\ issued' = id

\* Mutant: the status is not reset.
RequeuedAssigned(task) == [task EXCEPT !.worker = NoWorker]

\* _requeue: an assigned task is pending again.
Requeued(task) == [task EXCEPT !.status = "PENDING", !.worker = NoWorker]

\* Mutant: only the tasks of dropped workers are requeued.
TakenFromGone(gone, overdue) == {t \in known : Assigned(t) /\ tasks[t].worker \in gone}

\* Mutant: finished tasks are requeued with the others.
TakenFinished(gone, overdue) ==
    {t \in known : tasks[t].worker \in gone \/ t \in overdue}

\* The assigned tasks _forget_worker and cleanup_stuck_tasks requeue.
TakenBack(gone, overdue) ==
    {t \in known : Assigned(t) /\ (tasks[t].worker \in gone \/ t \in overdue)}

\* Mutant: the queue of a gone worker is dropped with what is in it.
OrphanedNone(gone) == {}

\* The pending tasks _forget_worker moves out of the queues of gone workers.
Orphaned(gone) ==
    {t \in known : Waiting(t) /\ \E w \in gone : t \in ToSet(queues[w])}

KeepsOrder(line, q) ==
    \A i, j \in DOMAIN line : \A a, b \in DOMAIN q :
        i < j /\ line[i] = q[a] /\ line[j] = q[b] => a < b

\* _requeue and _forget_worker over every worker in `gone` and every task in
\* `overdue`: the tasks go to the back of their role queues, those of one
\* worker queue in its order; `idle` are bindings that expired on their own.
Release(gone, overdue, idle) ==
    LET back(r) == {t \in TakenBack(gone, overdue) \cup Orphaned(gone) :
                        tasks[t].role = r}
        loses(k, t) == /\ tasks[t].role = k[1]
                       /\ tasks[t].session = k[2]
                       /\ tasks[t].worker = affinity[k]
    IN  /\ tasks' = [t \in TaskId |->
                        IF t \in TakenBack(gone, overdue)
                        THEN Requeued(tasks[t]) ELSE tasks[t]]
        /\ \E line \in [Roles -> UNION {SetToSeqs(back(r)) : r \in Roles}] :
              /\ \A r \in Roles : /\ line[r] \in SetToSeqs(back(r))
                                  /\ \A w \in gone : KeepsOrder(line[r], queues[w])
              /\ queues' = [o \in Owners |-> IF o \in Roles THEN queues[o] \o line[o]
                                             ELSE IF o \in gone THEN <<>>
                                             ELSE queues[o]]
        /\ affinity' = [k \in Roles \X Sessions |->
                          IF \/ k \in idle
                             \/ affinity[k] \in gone
                             \/ \E t \in TakenBack(gone, overdue) : loses(k, t)
                          THEN NoWorker ELSE affinity[k]]

\* Mutant: an outcome is overwritten by a later one.
FinishedAgain(ts, t, status, body) ==
    [u \in TaskId |->
        IF u = t \/ (u = ts[t].root /\ u \in known)
        THEN [ts[u] EXCEPT !.status = status, !.result = body, !.done = TRUE]
        ELSE ts[u]]

\* Mutant: the root of the chain is not told.
FinishedStepOnly(ts, t, status, body) ==
    IF ts[t].done THEN ts
    ELSE [ts EXCEPT ![t].status = status, ![t].result = body, ![t].done = TRUE]

\* _finish: the task and, while it is in the table, the root of its chain get
\* their outcome, unless they have one.
Finished(ts, t, status, body) ==
    LET root == ts[t].root
        targets == IF t = root THEN {t} \cap known ELSE {t} \cup ({root} \cap known)
    IN  [u \in TaskId |->
            IF u \in targets /\ ~ts[u].done
            THEN [ts[u] EXCEPT !.status = status, !.result = body, !.done = TRUE]
            ELSE ts[u]]

\* The body worker w uploads for task t.
Answer(t, w) == Append(tasks[t].payload, w)

\* Mutant: any worker may answer.
AnyWorkerAccepted(w, t) == TRUE

\* _check_worker: an assigned task takes an answer from its worker only.
WorkerAccepted(w, t) == tasks[t].worker \in {NoWorker, w}

\* The checks /result and /fail make on a task that is in the table.
Reportable(w, t) ==
    t \in known /\ tasks[t].status \notin FINISHED /\ WorkerAccepted(w, t)

-----------------------------------------------------------------------------
(* Requests of the workers *)

\* Mutant: a claim replaces the binding to another live worker.
RegisterTakesAll(w, r, claims) ==
    /\ r \in MayServe[w]
    /\ nodes' = [nodes EXCEPT ![w] = r]
    /\ silent' = silent \ {w}
    /\ affinity' = [k \in Roles \X Sessions |->
                      IF k[1] = r /\ k[2] \in claims THEN w ELSE affinity[k]]
    /\ UNCHANGED <<tasks, known, queues, failing, issued, submits, held>>

\* A worker process starts, or re-registers after a 404 to its heartbeat, and
\* claims the sessions it reports to hold a cache for.
Register(w, r, claims) ==
    /\ r \in MayServe[w]
    /\ nodes' = [nodes EXCEPT ![w] = r]
    /\ silent' = silent \ {w}
    /\ affinity' = [k \in Roles \X Sessions |->
                      IF /\ k[1] = r /\ k[2] \in claims
                         /\ affinity[k] = NoWorker \/ nodes'[affinity[k]] = NoRole
                      THEN w ELSE affinity[k]]
    /\ UNCHANGED <<tasks, known, queues, failing, issued, submits, held>>

\* Mutant: the node's timer outlives the node.
DeregisterNodeOnly(w) ==
    /\ nodes' = [nodes EXCEPT ![w] = NoRole]
    /\ UNCHANGED <<tasks, known, queues, affinity, silent, failing,
                   issued, submits, held>>

\* A graceful stop: _drop_node forgets the worker.
Deregister(w) ==
    /\ held' = [held EXCEPT ![w] = {}]
    /\ IF nodes[w] = NoRole
       THEN UNCHANGED relayVars
       ELSE /\ Release({w}, {}, {})
            /\ nodes' = [nodes EXCEPT ![w] = NoRole]
            /\ silent' = silent \ {w}
            /\ UNCHANGED <<known, failing>>
    /\ UNCHANGED <<issued, submits>>

Heartbeat(w) ==
    /\ w \in silent
    /\ silent' = silent \ {w}
    /\ UNCHANGED <<nodes, tasks, known, queues, affinity, failing,
                   issued, submits, held>>

\* Mutant: ids are read and not taken out.
AfterPeek(q, n) == q

\* What is left of queue q once the first n ids of it are taken out.
After(q, n) == IF n < Len(q) THEN SubSeq(q, n + 1, Len(q)) ELSE <<>>

\* The worker takes out ids until it has `max` pending tasks or the queues are
\* empty, its own queue first; a first id that is not pending ends the poll.
Poll(w, r, max) ==
    LET own == queues[w]
        line == own \o queues[r]
        taken(n) == {t \in TaskId : Waiting(t) /\ \E i \in 1 .. n : line[i] = t}
    IN  /\ r \in IF nodes[w] = NoRole THEN MayServe[w] ELSE {nodes[w]}
        /\ \E n \in DOMAIN line :
             /\ \/ n = 1
                \/ Waiting(line[1]) /\ Cardinality(taken(n - 1)) < max
             /\ \/ n = Len(line)
                \/ ~Waiting(line[1])
                \/ Cardinality(taken(n)) = max
             /\ queues' = [queues EXCEPT
                    ![w] = After(own, n),
                    ![r] = IF n > Len(own) THEN After(@, n - Len(own)) ELSE @]
             /\ tasks' = [t \in TaskId |->
                    IF t \in taken(n)
                    THEN [tasks[t] EXCEPT !.status = "ASSIGNED", !.worker = w]
                    ELSE tasks[t]]
             /\ affinity' = [k \in Roles \X Sessions |->
                    IF \E t \in taken(n) : /\ tasks[t].role = k[1]
                                           /\ tasks[t].session = k[2]
                    THEN w ELSE affinity[k]]
             /\ held' = [held EXCEPT ![w] = @ \cup taken(n)]
        /\ UNCHANGED <<nodes, known, silent, failing, issued, submits>>

\* A poll that found both queues empty waits with a getter on each.  An id that
\* came in the meantime is out of its queue before the poll goes on.  (Waiting
\* polls are no state of the model: here it is the first id of either queue.)
WaitsFor(w, r, o) ==
    /\ r \in IF nodes[w] = NoRole THEN MayServe[w] ELSE {nodes[w]}
    /\ o \in {w, r}
    /\ queues[o] # <<>>
    /\ UNCHANGED <<nodes, tasks, known, affinity, silent, failing,
                   issued, submits, held>>

\* The other getter won, or the request was cancelled while it waited: the id
\* is put back, behind those that came since.
PutBack(w, r, o) ==
    /\ WaitsFor(w, r, o)
    /\ queues' = [queues EXCEPT ![o] = Append(Tail(@), Head(@))]

\* The request is cancelled while it awaits the cancelled getters, or puts the
\* id into a queue that _forget_worker has removed: nobody has the id any more.
PollCancelled(w, r, o) ==
    /\ WaitsFor(w, r, o)
    /\ queues' = [queues EXCEPT ![o] = Tail(@)]

\* After a result was uploaded the worker forgets the task, or uploads it again
\* because the response was lost.
Reported(w, t) ==
    \/ held' = [held EXCEPT ![w] = @ \ {t}]
    \/ held' = held

\* /result looks the task up before it reads the body, and everything else
\* after: a task that is forgotten in between is still answered.
ResultAccepted(w, t) ==
    /\ t \in held[w]
    /\ tasks[t] # NoTask
    /\ tasks[t].status \notin FINISHED
    /\ WorkerAccepted(w, t)

\* Mutant: the rest of the route is not shortened.
NextStepWholeRoute(t, w) ==
    LET task == tasks[t]
    IN  NewTask(Head(task.route), task.route, task.root, task.session, Answer(t, w))

\* The result of a step becomes the payload of the next role of the route.
NextStep(t, w) ==
    LET task == tasks[t]
    IN  NewTask(Head(task.route), Tail(task.route), task.root, task.session,
                Answer(t, w))

\* An intermediate step is done once it is forwarded, a root when its chain ends.
Forward(w, t) ==
    /\ ResultAccepted(w, t)
    /\ tasks[t].route # <<>>
    /\ issued < MaxTasks
    /\ LET left == [tasks EXCEPT ![t].status = "FORWARDED",
                                 ![t].done = t # tasks[t].root]
       IN  Enqueue(left, issued + 1, NextStep(t, w))
    /\ Reported(w, t)
    /\ UNCHANGED <<nodes, silent, failing, submits>>

\* The last step of a chain, or a result flagged stop_chain.
Complete(w, t) ==
    /\ ResultAccepted(w, t)
    /\ tasks' = Finished(tasks, t, "COMPLETED", Answer(t, w))
    /\ Reported(w, t)
    /\ UNCHANGED <<nodes, known, queues, affinity, silent, failing,
                   issued, submits>>

\* 404, "ignored" or 409: the relay does nothing and the worker drops the task.
ResultRefused(w, t) ==
    /\ t \in held[w]
    /\ ~Reportable(w, t)
    /\ held' = [held EXCEPT ![w] = @ \ {t}]
    /\ UNCHANGED <<nodes, tasks, known, queues, affinity, silent, failing,
                   issued, submits>>

\* /fail checks the task and then awaits the body of the request.
FailArrive(w, t) ==
    /\ t \in held[w]
    /\ Reportable(w, t)
    /\ failing' = failing \cup {<<t, w>>}
    /\ held' = [held EXCEPT ![w] = @ \ {t}]
    /\ UNCHANGED <<nodes, tasks, known, queues, affinity, silent,
                   issued, submits>>

FailFinish(w, t) ==
    /\ <<t, w>> \in failing
    /\ failing' = failing \ {<<t, w>>}
    /\ tasks' = Finished(tasks, t, "FAILED", Answer(t, w))
    /\ UNCHANGED <<nodes, known, queues, affinity, silent,
                   issued, submits, held>>

-----------------------------------------------------------------------------
(* Requests of the clients *)

\* The bound leaves an id for every step of a chain, in runs whose requests are
\* all of one length.
Affordable(q) == (submits + 1) * Len(q.path) <= MaxTasks

\* target_role is the first role of the path, route the rest of it.
Submit(q) ==
    /\ submits < MaxSubmits
    /\ Affordable(q)
    /\ issued < MaxTasks
    /\ submits' = submits + 1
    /\ Enqueue(tasks, issued + 1,
               NewTask(Head(q.path), Tail(q.path), issued + 1, q.session, <<>>))
    /\ UNCHANGED <<nodes, silent, failing, held>>

\* What /get_result answers for a task id.
View(t) ==
    IF t \notin known THEN [status |-> "404", result |-> <<>>]
    ELSE IF tasks[t].status \in {"COMPLETED", "FAILED"}
         THEN [status |-> tasks[t].status, result |-> tasks[t].result]
         ELSE [status |-> "waiting", result |-> <<>>]

-----------------------------------------------------------------------------
(* The janitor *)

\* Mutant: a task is forgotten by its age alone, open or not.
AnyAge(old) == TRUE

\* A finished task is old FINISHED_TTL after it was completed, an unfinished one
\* DANGLING_TTL after it was created: never before one created earlier.
OldestFirst(old) ==
    \A t \in old : ~tasks[t].done =>
        \A u \in known : u < t /\ ~tasks[u].done => u \in old

\* One sweep: it drops silent nodes, requeues overdue tasks, and forgets old
\* tasks and idle bindings.
Sweep(overdue, old, idle) ==
    /\ silent # {} \/ overdue # {} \/ old # {} \/ idle # {}
    /\ \A t \in overdue : Assigned(t)
    /\ OldestFirst(old)
    /\ Release(silent, overdue, idle)
    /\ nodes' = [w \in Workers |-> IF w \in silent THEN NoRole ELSE nodes[w]]
    /\ silent' = {}
    /\ known' = known \ old
    /\ UNCHANGED <<failing, issued, submits, held>>

-----------------------------------------------------------------------------
(* The environment *)

\* No heartbeat of a registered worker arrives for NODE_TIMEOUT.
Silence(w) ==
    /\ nodes[w] # NoRole
    /\ w \notin silent
    /\ silent' = silent \cup {w}
    /\ UNCHANGED <<nodes, tasks, known, queues, affinity, failing,
                   issued, submits, held>>

\* A worker loses a task: the response to its poll, or every upload, is lost.
Abandon(w, t) ==
    /\ t \in held[w]
    /\ held' = [held EXCEPT ![w] = @ \ {t}]
    /\ UNCHANGED <<nodes, tasks, known, queues, affinity, silent, failing,
                   issued, submits>>

\* The relay process restarts: it keeps nothing on disk.
Restart ==
    /\ nodes' = [w \in Workers |-> NoRole]
    /\ tasks' = [t \in TaskId |-> NoTask]
    /\ known' = {}
    /\ queues' = [o \in Owners |-> <<>>]
    /\ affinity' = [k \in Roles \X Sessions |-> NoWorker]
    /\ silent' = {}
    /\ failing' = {}
    /\ UNCHANGED <<issued, submits, held>>

-----------------------------------------------------------------------------
PostResult(w, t) == Forward(w, t) \/ Complete(w, t) \/ ResultRefused(w, t)

Janitor ==
    \E overdue \in SUBSET {t \in known : Assigned(t)}, old \in SUBSET known,
       idle \in SUBSET {k \in Roles \X Sessions : affinity[k] # NoWorker} :
        Sweep(overdue, old, idle)

WorkerStep(w) ==
    \/ \E r \in Roles, claims \in SUBSET Sessions : Register(w, r, claims)
    \/ Deregister(w)
    \/ Heartbeat(w)
    \/ \E r \in Roles, max \in BatchSizes : Poll(w, r, max)
    \/ \E r \in Roles, o \in Owners : PutBack(w, r, o)
    \/ \E t \in TaskId : PostResult(w, t) \/ FailArrive(w, t) \/ FailFinish(w, t)

Environment ==
    \/ \E w \in Workers : Silence(w)
    \/ \E w \in Workers, t \in TaskId : Abandon(w, t)
    \/ Restart

LostPoll == \E w \in Workers, r \in Roles, o \in Owners : PollCancelled(w, r, o)

Orderly ==
    \/ \E w \in Workers : WorkerStep(w)
    \/ \E q \in Requests : Submit(q)
    \/ Janitor
    \/ Environment

Next == Orderly \/ LostPoll

Spec == Init /\ [][Next]_vars
-----------------------------------------------------------------------------
(* Safety *)

QueuedAt(t, o, i) == i \in DOMAIN queues[o] /\ queues[o][i] = t

Queued(t) == \E o \in Owners : \E i \in DOMAIN queues[o] : queues[o][i] = t

\* A task that waits for a worker can be polled: nothing loses its id
\* (relay.py _queue_get_first: "Never loses an item").
PendingIsQueued == \A t \in known : Waiting(t) => Queued(t)

\* No id is queued twice, whatever timeouts and dropped workers sent it back.
QueuedOnce ==
    \A o, p \in Owners : \A i \in DOMAIN queues[o], j \in DOMAIN queues[p] :
        queues[o][i] = queues[p][j] => o = p /\ i = j

\* A task a worker is computing is in no queue, so no second worker gets it
\* before the first one is given up.
AssignedNotQueued ==
    \A t \in known : Assigned(t) =>
        \A o \in Owners : \A i \in DOMAIN queues[o] : queues[o][i] # t

\* A worker that left the node table leaves no task behind in its own queue,
\* where only its own polls would look.
NoTaskStranded ==
    \A w \in Workers : nodes[w] = NoRole => queues[w] = <<>>

\* The root of a chain the sender waits on stays open only as long as a step of
\* the chain is in the table to end it (relay.py cleanup_old_tasks).
ChainAlive ==
    \A r \in known : tasks[r].status = "FORWARDED" /\ ~tasks[r].done =>
        \E t \in known : tasks[t].root = r /\ tasks[t].status \in Unfinished

\* A chain is never worked on at two of its steps at once: a result that
\* arrives twice, or late, is not forwarded a second time.
OneLiveStep ==
    \A t, u \in known :
        /\ tasks[t].status \in Unfinished /\ tasks[u].status \in Unfinished
        /\ tasks[t].root = tasks[u].root
        => t = u

Path(root) == <<root.role>> \o root.route

\* The k-th step of a chain is for the k-th role of the submitted route, and
\* its payload was computed by workers of the roles before, in order.
RouteFollowed ==
    \A t \in known :
        LET task == tasks[t]
            path == Path(tasks[task.root])
            k == Len(task.payload)
        IN  /\ k < Len(path)
            /\ path[k + 1] = task.role
            /\ task.route = SubSeq(path, k + 2, Len(path))
            /\ \A i \in 1 .. k : path[i] \in MayServe[task.payload[i]]

\* A step whose work is over has told the sender: its root has an outcome, or
\* the next step is under way (FORWARDED).
EndReachesRoot ==
    \A t \in known :
        tasks[t].status \in {"COMPLETED", "FAILED"} /\ tasks[t].root \in known
        => tasks[tasks[t].root].done

-----------------------------------------------------------------------------
(* Action properties *)

\* New, requeued and moved tasks can be polled, and stay so until they are taken:
\* only a poll that is cancelled at the wrong moment loses an id.
StaysQueued ==
    \A t \in known' : Waiting(t)' /\ (Waiting(t) => Queued(t)) => Queued(t)'

PendingStaysQueued == [][StaysQueued \/ LostPoll]_vars

\* A result for an assigned task is the one its current worker computed: the
\* late result of a worker that was given up is not taken in its place.
ResultFromAssignee ==
    [][\A t \in known :
         /\ Assigned(t) /\ tasks'[t] # NoTask
         => /\ tasks'[t].status = "COMPLETED" =>
                   Last(tasks'[t].result) = tasks[t].worker
            /\ tasks'[t].status = "FORWARDED" =>
                   Last(tasks'[issued'].payload) = tasks[t].worker]_vars

\* The same for /fail, as docs/architecture.md says of both.
FailureFromAssignee ==
    [][\A t \in known :
         /\ Assigned(t) /\ tasks'[t] # NoTask /\ tasks'[t].status = "FAILED"
         => Last(tasks'[t].result) = tasks[t].worker]_vars

-----------------------------------------------------------------------------
(* What the clients see of this relay is a TaskService. *)

Service ==
    INSTANCE TaskService WITH
        Bodies <- UNION {[1 .. n -> Workers] : n \in 0 .. MaxTasks},
        view <- [t \in TaskId |->
                    IF t > issued THEN [status |-> "new", result |-> <<>>]
                    ELSE View(t)]

\* Clients get at most one answer per task, it never changes, and a chain's
\* last step and its root get the same one.
ImplementsTaskService == Service!Spec

=============================================================================
