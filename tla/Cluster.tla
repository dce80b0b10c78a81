------------------------------ MODULE Cluster ------------------------------
(***************************************************************************)
(* Worker processes and client calls (src/distllm/worker.py) around the    *)
(* relay.  A worker is a loop: it polls, runs what it got, reports all of  *)
(* it and polls again; beside the loop a heartbeat registers the worker    *)
(* again when the relay does not know it.  A call is submitted, again when *)
(* the response is lost, and waits for its result.                         *)
(*                                                                         *)
(* What the worker's function computes is left out: a payload or a result  *)
(* is the call it belongs to, the one whose request id it carries.         *)
(***************************************************************************)
EXTENDS Naturals, Sequences, FiniteSets, SequencesExt

CONSTANTS
    Workers, Roles, Sessions, MayServe, MaxTasks, MaxSubmits,
    BatchSizes, NoWorker, NoRole, NoSession, NoTask,    \* as in Relay
    Calls,          \* Cluster.call and call_route of the clients
    RequestOf,      \* RequestOf[c]: the route and the session of call c
    Closing,        \* the calls that close their session
    Unreadable,     \* the calls whose client has another key than the workers
    Stable,         \* workers that neither crash nor are stopped
    Batched,        \* workers whose function gets all payloads of a poll in one call
    Workloads,      \* the calls that are made and, a bound, the faults they meet
    NoCall

Requests == {RequestOf[c] : c \in Calls}

ASSUME ProcessAssumption ==
    /\ \A w \in Workers : Cardinality(MayServe[w]) = 1
    /\ Closing \subseteq Calls /\ Unreadable \subseteq Calls
    /\ Stable \subseteq Workers /\ Batched \subseteq Workers
    /\ \A l \in Workloads : l.calls \subseteq Calls /\ l.faults \in Nat
    /\ NoCall \notin Calls

VARIABLES
    nodes, tasks, known, queues, affinity, silent, failing, issued, submits,
    held,       \* as in Relay: the tasks of the batch a worker is busy with
    procs,      \* procs[w]: the worker process
    work,       \* work[w][t]: the outcome of task t that w has yet to report
    data,       \* data[t]: the call whose payload, or result, task t carries
    calls,      \* calls[c]: how far a call is, and the task it waits for
    raised,     \* <<c, d>>: a function raised on d, in a batch that c was in
    budget      \* how many more faults may happen

R == INSTANCE Relay

ASSUME RelayAssumption ==
    R!NamesAssumption /\ R!BoundsAssumption /\ R!NoTaskAssumption

relayVars == <<nodes, tasks, known, queues, affinity, silent, failing, issued,
               submits>>
workVars == <<work, raised>>
vars == <<nodes, tasks, known, queues, affinity, silent, failing, issued,
          submits, held, procs, work, data, calls, raised, budget>>

TaskId == R!TaskId

\* `mail` holds the claims of a /register that is on its way to the relay.
Process ==
    [phase : {"down", "starting", "running", "stopping"},
     sessions : SUBSET Sessions, mail : SUBSET SUBSET Sessions]

Down == [phase |-> "down", sessions |-> {}, mail |-> {}]

Outcome == [kind : {"none", "result", "stop", "error"}, of : Calls \cup {NoCall}]

None == [kind |-> "none", of |-> NoCall]

Idle == [t \in TaskId |-> None]

Ended == {"returned", "refused", "failed", "lost", "timeout"}

Call == [phase : {"none", "idle", "submitting", "waiting"} \cup Ended, task : 0 .. MaxTasks]

TypeOK ==
    /\ R!TypeOK
    /\ procs \in [Workers -> Process]
    /\ work \in [Workers -> [TaskId -> Outcome]]
    /\ data \in [TaskId -> Calls \cup {NoCall}]
    /\ calls \in [Calls -> Call]
    /\ raised \subseteq Calls \X Calls
    /\ budget \in Nat
    /\ \A w \in Workers :
          /\ Cardinality(procs[w].mail) <= 1
          /\ held[w] # {} => procs[w].phase \in {"running", "stopping"}
          /\ \A t \in TaskId : work[w][t] # None => t \in held[w]

Init ==
    /\ R!Init
    /\ procs = [w \in Workers |-> Down]
    /\ work = [w \in Workers |-> Idle]
    /\ data = [t \in TaskId |-> NoCall]
    /\ raised = {}
    /\ \E l \in Workloads :
          /\ calls = [c \in Calls |-> [phase |-> IF c \in l.calls THEN "idle" ELSE "none",
                                      task |-> 0]]
          /\ budget = l.faults

\* A crash, a stop, a restart, a loss or a delay is a fault.
Costs(fault) ==
    /\ fault => budget > 0
    /\ budget' = IF fault THEN budget - 1 ELSE budget

RoleOf(w) == CHOOSE r \in MayServe[w] : TRUE

Running(w) == procs[w].phase = "running"
-----------------------------------------------------------------------------
(* Worker.register and Worker._heartbeat *)

\* run() begins: the first thing is to register, with no sessions to claim.
Start(w) ==
    /\ procs[w].phase = "down"
    /\ procs' = [procs EXCEPT ![w] = [Down EXCEPT !.phase = "starting", !.mail = {{}}]]
    /\ UNCHANGED <<relayVars, held, workVars, data, calls, budget>>

\* Mutant: the heartbeat goes on after the loop has ended.
BeatsForEver(w) == procs[w].phase # "starting"

\* The heartbeat runs beside the loop and is cancelled when that ends.
Beats(w) == Running(w)

Heartbeat(w) ==
    /\ Beats(w)
    /\ R!Heartbeat(w)
    /\ UNCHANGED <<procs, workVars, data, calls, budget>>

\* Mutant: a 404 is an error like any other.
IgnoresUnknown(w) == FALSE

\* The relay answers 404 to a heartbeat of a node it does not have.
IsUnknown(w) == nodes[w] = NoRole

\* The worker registers again, with the sessions it has tracked up to now.
HeartbeatMissed(w) ==
    /\ Beats(w)
    /\ IsUnknown(w)
    /\ procs[w].mail = {}
    /\ procs' = [procs EXCEPT ![w].mail = {procs[w].sessions}]
    /\ UNCHANGED <<relayVars, held, workVars, data, calls, budget>>

\* A /register reaches the relay, perhaps after its process has ended.  When the
\* response is lost the same request is sent again.
RegisterArrives(w) ==
    /\ \E claims \in procs[w].mail : R!Register(w, RoleOf(w), claims)
    /\ \/ /\ procs' = [procs EXCEPT ![w].mail = {},
                                    ![w].phase = IF @ = "starting" THEN "running" ELSE @]
          /\ Costs(FALSE)
       \/ /\ procs[w].phase \in {"starting", "running"}
          /\ procs' = procs
          /\ Costs(TRUE)
    /\ UNCHANGED <<workVars, data, calls>>
-----------------------------------------------------------------------------
(* Worker.run, _poll_once, _process and _report *)

\* The loop polls when every outcome of the last batch was reported.
Poll(w) ==
    /\ Running(w)
    /\ held[w] = {}
    /\ \E max \in BatchSizes : R!Poll(w, RoleOf(w), max)
    /\ UNCHANGED <<procs, workVars, data, calls, budget>>

\* A poll that waits took an id out of a queue: it puts the id back, or it is
\* cancelled and loses it.
Waits(w) == Running(w) /\ held[w] = {}

PutBack(w) ==
    /\ Waits(w)
    /\ \E o \in Workers \cup Roles : R!PutBack(w, RoleOf(w), o)
    /\ UNCHANGED <<procs, workVars, data, calls, budget>>

PollCancelled(w) ==
    /\ Waits(w)
    /\ \E o \in Workers \cup Roles : R!PollCancelled(w, RoleOf(w), o)
    /\ Costs(TRUE)
    /\ UNCHANGED <<procs, workVars, data, calls>>

\* The response to a poll is lost: its tasks stay assigned to the worker.
PollLost(w) ==
    /\ held[w] # {}
    /\ work[w] = Idle
    /\ held' = [held EXCEPT ![w] = {}]
    /\ Costs(TRUE)
    /\ UNCHANGED <<relayVars, procs, workVars, data, calls>>

Decodes(t) == data[t] \notin Unreadable

\* Mutant: one payload that cannot be decoded fails the whole batch.
AllGood(line) ==
    {good \in SetToSeqs({t \in ToSet(line) : \A u \in ToSet(line) : Decodes(u)}) :
        R!KeepsOrder(good, line)}

\* Payloads that cannot be decoded fail on their own; the others run, in order.
Good(line) ==
    {good \in SetToSeqs({t \in ToSet(line) : Decodes(t)}) : R!KeepsOrder(good, line)}

\* Mutant: the ids are those of the tasks as they were delivered.
RidsAsDelivered(line, good) == [i \in DOMAIN good |-> data[line[i]]]

\* The request ids, one per payload that runs, in the order of their results.
Rids(line, good) == [i \in DOMAIN good |-> data[good[i]]]

\* _track_sessions: a session is tracked from its first task until it is closed.
Tracked(sessions, line) ==
    {s \in Sessions :
        LET uses == {i \in DOMAIN line : RequestOf[data[line[i]]].session = s}
        IN  IF uses = {} THEN s \in sessions
            ELSE \E i \in uses : /\ \A j \in uses : j <= i
                                 /\ data[line[i]] \notin Closing}

\* Mutant: a payload fails with its neighbours, batched or not.
TogetherAlways(w, good, t) == ToSet(good)

\* _run_func: the tasks that one call of the function runs along with t.  If it
\* raises, its exception is the outcome of them all.
Together(w, good, t) == IF w \in Batched THEN ToSet(good) ELSE {t}

\* The tasks that fail if the function raises on those of `raising`, and the
\* results of those of `unfit` are exceptions or cannot be packed.
Failing(w, good, raising, unfit) ==
    {t \in ToSet(good) : t \in unfit \/ Together(w, good, t) \cap raising # {}}

\* The results are zipped with the tasks and the request ids.  `bad` are the tasks
\* that fail, `stop` those whose result ends the chain.
Outcomes(line, good, bad, stop) ==
    LET position(t) == CHOOSE i \in DOMAIN good : good[i] = t
    IN  [t \in TaskId |->
            IF t \notin ToSet(line) THEN None
            ELSE IF t \in ToSet(good) \ bad
            THEN [kind |-> IF t \in stop THEN "stop" ELSE "result",
                  of |-> Rids(line, good)[position(t)]]
            ELSE [kind |-> "error", of |-> NoCall]]

\* The function runs.  `expired` are sessions not used for SESSION_CLAIM_TTL.
Run(w) ==
    /\ Running(w)
    /\ held[w] # {}
    /\ work[w] = Idle
    /\ \E line \in SetToSeqs(held[w]) : \E good \in Good(line) :
       \E raising \in SUBSET ToSet(good) : \E unfit \in SUBSET ToSet(good) :
       \E bad \in {Failing(w, good, raising, unfit)} :
       \E stop \in SUBSET {t \in ToSet(good) \ bad : RequestOf[data[t]].path # <<RoleOf(w)>>} :
       \E expired \in SUBSET (procs[w].sessions \ Tracked({}, good)) :
          /\ work' = [work EXCEPT ![w] = Outcomes(line, good, bad, stop)]
          /\ procs' = [procs EXCEPT ![w].sessions = Tracked(@ \ expired, good)]
          /\ raised' = raised \cup {<<data[t], data[t]>> : t \in unfit} \cup
                UNION {{<<data[t], data[u]>> : t \in Together(w, good, u)} : u \in raising}
          /\ Costs(bad # {})
    /\ UNCHANGED <<relayVars, held, data, calls>>

Answered(t) == t \in known /\ tasks[t].status = "COMPLETED"

\* The data of call c becomes the payload of the next step, or the result of a
\* task and of its root.
Carries(c) ==
    data' = [t \in TaskId |-> IF \/ issued < t /\ t <= issued'
                                 \/ Answered(t)' /\ ~Answered(t)
                              THEN c ELSE data[t]]

\* Mutant: a task whose upload was answered is kept.
WorkKept(w) == work

\* An outcome that was reported, or given up, is forgotten.
WorkLeft(w) ==
    [work EXCEPT ![w] = [t \in TaskId |-> IF t \in held'[w] THEN @[t] ELSE None]]

\* _post_result: any answer below 500 ends the upload; a lost one repeats it.
Upload(w, t) ==
    /\ \/ work[w][t].kind = "result" /\ R!Forward(w, t)
       \/ /\ work[w][t].kind \in {"result", "stop"}
          /\ R!Complete(w, t)
          /\ work[w][t].kind = "stop" \/ tasks[t].route = <<>>
       \/ work[w][t] # None /\ R!ResultRefused(w, t)
    /\ Carries(work[w][t].of)
    /\ work' = WorkLeft(w)
    /\ Costs(t \in held'[w])
    /\ UNCHANGED <<procs, calls, raised>>

\* The failure of a task is posted once.
ReportFailure(w, t) ==
    /\ work[w][t].kind = "error"
    /\ R!FailArrive(w, t)
    /\ work' = WorkLeft(w)
    /\ UNCHANGED <<procs, data, calls, raised, budget>>

\* Every upload of a result, or the one report of a failure, is lost.
ReportLost(w, t) ==
    /\ work[w][t] # None
    /\ R!Abandon(w, t)
    /\ work' = WorkLeft(w)
    /\ Costs(TRUE)
    /\ UNCHANGED <<procs, data, calls, raised>>

Loop(w) ==
    \/ Poll(w)
    \/ Run(w)
    \/ \E t \in TaskId : Upload(w, t) \/ ReportFailure(w, t)

\* The process ends without another word.
Crash(w) ==
    /\ w \notin Stable
    /\ procs[w].phase # "down"
    /\ procs' = [procs EXCEPT ![w] = [Down EXCEPT !.mail = procs[w].mail]]
    /\ held' = [held EXCEPT ![w] = {}]
    /\ work' = [work EXCEPT ![w] = Idle]
    /\ Costs(TRUE)
    /\ UNCHANGED <<relayVars, data, calls, raised>>

\* The loop is interrupted, or ended by a 401.
Stop(w) ==
    /\ w \notin Stable
    /\ Running(w)
    /\ procs' = [procs EXCEPT ![w].phase = "stopping"]
    /\ Costs(TRUE)
    /\ UNCHANGED <<relayVars, held, workVars, data, calls>>

\* The `finally` of run: the worker deregisters.
Leave(w) ==
    /\ procs[w].phase = "stopping"
    /\ R!Deregister(w)
    /\ procs' = [procs EXCEPT ![w] = [Down EXCEPT !.mail = procs[w].mail]]
    /\ work' = WorkLeft(w)
    /\ UNCHANGED <<data, calls, raised, budget>>
-----------------------------------------------------------------------------
(* Cluster.submit, wait_for and _result *)

\* A submission whose response is lost is repeated, with the same request id.
Submit(c) ==
    /\ calls[c].phase \in {"idle", "submitting"}
    /\ R!Submit(RequestOf[c])
    /\ Carries(c)
    /\ \/ /\ calls' = [calls EXCEPT ![c] = [phase |-> "waiting", task |-> issued']]
          /\ Costs(FALSE)
       \/ /\ calls' = [calls EXCEPT ![c].phase = "submitting"]
          /\ Costs(TRUE)
    /\ UNCHANGED <<procs, workVars>>

\* What wait_for makes of the answer of /get_result.
Received(c) ==
    LET t == calls[c].task
    IN  CASE R!View(t).status = "404"    -> "lost"
          [] R!View(t).status = "FAILED" -> "failed"
          [] R!View(t).status = "COMPLETED" ->
                IF data[t] = c THEN "returned" ELSE "refused"
          [] OTHER -> "waiting"

EndsAs(c, phase) == calls' = [calls EXCEPT ![c] = [phase |-> phase, task |-> 0]]

Receive(c) ==
    /\ calls[c].phase = "waiting"
    /\ Received(c) # "waiting"
    /\ EndsAs(c, Received(c))
    /\ UNCHANGED <<relayVars, held, procs, workVars, data, budget>>

\* The deadline of submit or wait_for.
GiveUp(c) ==
    /\ calls[c].phase \in {"submitting", "waiting"}
    /\ EndsAs(c, "timeout")
    /\ Costs(TRUE)
    /\ UNCHANGED <<relayVars, held, procs, workVars, data>>
-----------------------------------------------------------------------------
(* The relay *)

\* No process has t in hand, and no report on it is under way: it is overdue in
\* the end.
Lost(t) ==
    /\ R!Assigned(t)
    /\ \A w \in Workers : t \notin held[w] /\ <<t, w>> \notin failing

FailFinish(w, t) ==
    /\ R!FailFinish(w, t)
    /\ UNCHANGED <<procs, workVars, data, calls, budget>>

\* No worker will get t: a poll lost its id.
Stranded(t) == R!Waiting(t) /\ ~R!Queued(t)

\* What is older than DANGLING_TTL once a stranded task is.
Dangling == {u \in known : ~tasks[u].done /\ \E t \in known : Stranded(t) /\ u <= t}

\* The janitor finds lost tasks overdue, and stranded ones old in the end; a task
\* that is only slow, a result nobody fetched or a binding nobody used for long
\* is a fault.
Sweep(overdue, old, idle) ==
    /\ Costs(old \notin {{}, Dangling} \/ idle # {} \/ \E t \in overdue : ~Lost(t))
    /\ R!Sweep(overdue, old, idle)
    /\ UNCHANGED <<procs, workVars, data, calls>>

Janitor ==
    \E overdue \in SUBSET {t \in known : R!Assigned(t)},
       old \in SUBSET known,
       idle \in SUBSET {k \in Roles \X Sessions : affinity[k] # NoWorker} :
        Sweep(overdue, old, idle)

\* The heartbeats of a worker stop with its process, or get lost.
Silence(w) ==
    /\ Costs(Running(w))
    /\ R!Silence(w)
    /\ UNCHANGED <<procs, workVars, data, calls>>

Restart ==
    /\ Costs(TRUE)
    /\ R!Restart
    /\ UNCHANGED <<procs, workVars, data, calls>>
-----------------------------------------------------------------------------
WorkerStep(w) ==
    \/ Start(w)
    \/ Heartbeat(w)
    \/ HeartbeatMissed(w)
    \/ RegisterArrives(w)
    \/ Loop(w)
    \/ PutBack(w)
    \/ PollCancelled(w)
    \/ PollLost(w)
    \/ \E t \in TaskId : ReportLost(w, t) \/ FailFinish(w, t)
    \/ Crash(w)
    \/ Stop(w)
    \/ Leave(w)
    \/ Silence(w)

ClientStep(c) == Submit(c) \/ Receive(c) \/ GiveUp(c)

Next ==
    \/ \E w \in Workers : WorkerStep(w)
    \/ \E c \in Calls : ClientStep(c)
    \/ Janitor
    \/ Restart

\* What goes on by itself: the loops of processes that run, the relay and its
\* janitor, and the clients that wait.
Progress ==
    \/ \E w \in Workers :
          \/ w \in Stable /\ Start(w)
          \/ Heartbeat(w) \/ HeartbeatMissed(w) \/ RegisterArrives(w)
          \/ Loop(w)
          \/ Leave(w)
          \/ ~Running(w) /\ Silence(w)
          \/ \E t \in TaskId : FailFinish(w, t)
    \/ \E c \in Calls : Receive(c)
    \/ Sweep({t \in known : Lost(t)}, Dangling, {})

Spec == Init /\ [][Next]_vars
FairSpec == Spec /\ WF_vars(Progress)
-----------------------------------------------------------------------------
(* Safety *)

\* The request id of every result is that of the call that gets it: whatever was
\* batched, repeated, requeued or routed, an honest relay is never accused.
OwnAnswers == \A c \in Calls : calls[c].phase # "refused"

\* A call fails because its payload cannot be read or a function raised on it, or,
\* since a batched function is one call, on another readable payload of its batch
\* (worker.py _run_func).  A payload that cannot be read fails on its own.
FailedForCause ==
    \A c \in Calls : calls[c].phase = "failed" =>
        \/ c \in Unreadable
        \/ \E d \in Calls \ Unreadable : <<c, d>> \in raised

-----------------------------------------------------------------------------
(* Action properties *)

\* A worker that comes back with old claims does not take a session from the
\* worker that has it now: sessions move by tasks.
NoSessionStolen ==
    [][\A k \in Roles \X Sessions : \A w, v \in Workers :
         /\ w # v
         /\ affinity[k] = v /\ nodes[v] = k[1]
         /\ affinity'[k] = w
         => held'[w] # held[w]]_vars

-----------------------------------------------------------------------------
(* Liveness *)

\* Every call comes to its end without its deadline, whatever is lost, restarted
\* or stopped on the way, if a stable worker serves each role.  For a task that
\* a cancelled poll lost, the end is the 404 after the janitor forgot it.
EveryCallEnds == \A c \in Calls : calls[c].phase = "waiting" ~> calls[c].phase \in Ended

\* A worker that runs is, or becomes, known to the relay, restarted or not.
WorkersRejoin ==
    \A w \in Workers : Running(w) ~> (nodes[w] # NoRole \/ ~Running(w))

\* A worker that has left is not registered for ever, by a request of its
\* heartbeat that overtook the end of its process.
GhostsVanish ==
    \A w \in Workers :
        procs[w].phase = "down" ~> (nodes[w] = NoRole \/ procs[w].phase # "down")
=============================================================================
