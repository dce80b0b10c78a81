----------------------------- MODULE RelayRust -----------------------------
(***************************************************************************)
(* The Rust relay (relay-rs/src/state.rs): the tables and rules of Relay   *)
(* under one mutex, served by many threads.  A locked section is one step. *)
(* It differs from the Python relay where it waits: a body is read before  *)
(* the lock is taken, so /fail is one step, and a poll that finds nothing  *)
(* unlocks and then listens to two notifiers, one of its role and one of   *)
(* its worker.  A notifier is a tokio Notify: notify_one wakes the first   *)
(* listener, or leaves one permit for the next.                            *)
(***************************************************************************)
EXTENDS Naturals, Sequences, FiniteSets, SequencesExt

CONSTANTS
    Workers, Roles, Sessions, MayServe, Requests, MaxTasks, MaxSubmits,
    BatchSizes, NoWorker, NoRole, NoSession, NoTask     \* as in Relay

VARIABLES
    nodes, tasks, known, queues, affinity, silent, failing, issued, submits,
    held,       \* as in Relay: failing stays empty
    permit,     \* permit[o]: the notifier of a role or worker holds a permit
    listeners,  \* listeners[o]: the polls listening to it, by worker, in order
    polls       \* polls[w]: the /poll of worker w in progress

R == INSTANCE Relay

ASSUME RelayAssumption ==
    R!NamesAssumption /\ R!BoundsAssumption /\ R!NoTaskAssumption

relayVars == <<nodes, tasks, known, queues, affinity, silent, failing, issued,
               submits, held>>
notifyVars == <<permit, listeners, polls>>
vars == <<nodes, tasks, known, queues, affinity, silent, failing, issued,
          submits, held, permit, listeners, polls>>

Owners == R!Owners
TaskId == R!TaskId

\* `detached`: the worker's notifier was replaced since the poll cloned it;
\* `woken`: the notifiers that woke it and whose wake-up it did not use yet.
Poll ==
    [phase : {"none", "looking", "unlocked", "listening", "last"},
     role : Roles \cup {NoRole}, max : BatchSizes \cup {0},
     detached : BOOLEAN, woken : SUBSET Owners]

NoPoll == [phase |-> "none", role |-> NoRole, max |-> 0,
           detached |-> FALSE, woken |-> {}]

TypeOK ==
    /\ R!TypeOK
    /\ failing = {}
    /\ permit \in [Owners -> BOOLEAN]
    /\ listeners \in [Owners -> Seq(Workers)]
    /\ polls \in [Workers -> Poll]
    /\ \A o \in Owners : permit[o] => listeners[o] = <<>>
    /\ \A o \in Owners : \A i \in DOMAIN listeners[o] :
          LET p == polls[listeners[o][i]]
          IN  p.phase = "listening" /\ o \notin p.woken

Quiet ==
    /\ permit = [o \in Owners |-> FALSE]
    /\ listeners = [o \in Owners |-> <<>>]
    /\ polls = [w \in Workers |-> NoPoll]

Init == R!Init /\ Quiet
-----------------------------------------------------------------------------
(* Notifiers *)

\* Mutant: a wake-up nobody listens to is lost.
PermitLost(n, listening) == FALSE

\* Mutant: a permit is left also when a listener is woken.
PermitAlways(n, listening) == n > 0

\* n times notify_one: what the listeners do not use is one permit.
PermitLeft(n, listening) == n > listening

\* notify_one, n[o] times for each owner o, when `poll` are the polls and `line`
\* the listeners, and the notifiers of the owners in `gone` are removed.
Notified(n, gone, poll, line) ==
    /\ permit' = [o \in Owners |-> /\ o \notin gone
                                   /\ permit[o] \/ PermitLeft(n[o], Len(line[o]))]
    /\ listeners' = [o \in Owners |-> SubSeq(line[o], n[o] + 1, Len(line[o]))]
    /\ polls' = [w \in Workers |->
          [poll[w] EXCEPT !.woken = @ \cup
              {o \in Owners : \E i \in 1 .. n[o] : i \in DOMAIN line[o] /\ line[o][i] = w}]]

\* push_role and push_worker notify once per id that they put into a queue.
Pushes(o) == Cardinality(ToSet(queues'[o]) \ ToSet(queues[o]))

\* forget_worker also removes the notifiers of the workers in `gone`: polls that
\* cloned one keep it, and nobody else has it.
Notify(gone) ==
    Notified([o \in Owners |-> Pushes(o)], gone,
             [w \in Workers |-> [polls[w] EXCEPT !.detached =
                 @ \/ (w \in gone /\ polls[w].phase \in {"unlocked", "listening"})]],
             [o \in Owners |-> IF o \in gone THEN <<>> ELSE listeners[o]])

\* The listening futures of w are dropped: a wake-up that one of them got goes to
\* the next listener, but for `used`, the one that ends the wait.
StopListening(w, used, phase) ==
    LET lost(o) == /\ o \in polls[w].woken \ used
                   /\ ~(o = w /\ polls[w].detached)
    IN  Notified([o \in Owners |-> IF lost(o) THEN 1 ELSE 0], {},
                 [polls EXCEPT ![w].phase = phase, ![w].woken = {}],
                 [o \in Owners |-> RemoveFirst(listeners[o], w)])
-----------------------------------------------------------------------------
(* /poll *)

\* The pending tasks among the first n ids of a line.
Taken(line, n) == {t \in TaskId : R!Waiting(t) /\ \E i \in 1 .. n : line[i] = t}

\* take_next by worker w, until it has `max` tasks or finds none: it takes out n
\* ids, and goes on over those of tasks that are gone or no longer pending.
Take(w, r, max, n) ==
    LET own == queues[w]
        line == own \o queues[r]
    IN  /\ n \in 0 .. Len(line)
        /\ n > 0 => Cardinality(Taken(line, n - 1)) < max
        /\ \/ n = Len(line)
           \/ Cardinality(Taken(line, n)) = max
        /\ queues' = [queues EXCEPT
                ![w] = R!After(own, n),
                ![r] = IF n > Len(own) THEN R!After(@, n - Len(own)) ELSE @]
        /\ tasks' = [t \in TaskId |->
                IF t \in Taken(line, n)
                THEN [tasks[t] EXCEPT !.status = "ASSIGNED", !.worker = w]
                ELSE tasks[t]]
        /\ affinity' = [k \in Roles \X Sessions |->
                IF \E t \in Taken(line, n) : tasks[t].role = k[1] /\ tasks[t].session = k[2]
                THEN w ELSE affinity[k]]
        /\ held' = [held EXCEPT ![w] = @ \cup Taken(line, n)]
        /\ UNCHANGED <<nodes, known, silent, failing, issued, submits>>

\* The locked section at the start of a poll and after each wake-up: it answers
\* with tasks or clones the two notifiers.
Look(w, r, max) ==
    /\ IF polls[w].phase = "none"
       THEN r \in IF nodes[w] = NoRole THEN MayServe[w] ELSE {nodes[w]}
       ELSE polls[w].phase = "looking" /\ r = polls[w].role /\ max = polls[w].max
    /\ \E n \in 0 .. 2 * MaxTasks : Take(w, r, max, n)
    /\ polls' = [polls EXCEPT ![w] =
                    IF tasks' # tasks THEN NoPoll
                    ELSE [NoPoll EXCEPT !.phase = "unlocked", !.role = r, !.max = max]]
    /\ UNCHANGED <<permit, listeners>>

Hears(w) == {polls[w].role} \cup (IF polls[w].detached THEN {} ELSE {w})

\* The futures are polled for the first time: they use a permit that was left
\* since the lock was released, or start to listen.
Listen(w) ==
    /\ polls[w].phase = "unlocked"
    /\ IF \E o \in Hears(w) : permit[o]
       THEN \E o \in Hears(w) :
              /\ permit[o]
              /\ permit' = [permit EXCEPT ![o] = FALSE]
              /\ polls' = [polls EXCEPT ![w].phase = "looking"]
              /\ UNCHANGED listeners
       ELSE /\ listeners' = [o \in Owners |-> IF o \in Hears(w)
                                              THEN Append(listeners[o], w)
                                              ELSE listeners[o]]
            /\ polls' = [polls EXCEPT ![w].phase = "listening"]
            /\ UNCHANGED permit
    /\ UNCHANGED relayVars

Wake(w) ==
    /\ polls[w].phase = "listening"
    /\ \E o \in polls[w].woken : StopListening(w, {o}, "looking")
    /\ UNCHANGED relayVars

\* The deadline of the poll; LastLook is the locked section that follows it.
Deadline(w) ==
    /\ polls[w].phase \in {"unlocked", "listening"}
    /\ StopListening(w, {}, "last")
    /\ UNCHANGED relayVars

LastLook(w) ==
    /\ polls[w].phase = "last"
    /\ \E n \in 0 .. 2 * MaxTasks : Take(w, polls[w].role, 1, n)
    /\ polls' = [polls EXCEPT ![w] = NoPoll]
    /\ UNCHANGED <<permit, listeners>>

\* The worker hangs up: the handler's futures are dropped.
HangUp(w) ==
    /\ polls[w].phase = "listening"
    /\ StopListening(w, {}, "none")
    /\ UNCHANGED relayVars
-----------------------------------------------------------------------------
(* The other requests, the janitor and the environment *)

Register(w, r, claims) == R!Register(w, r, claims) /\ UNCHANGED notifyVars

Deregister(w) ==
    /\ R!Deregister(w)
    /\ IF nodes[w] = NoRole THEN UNCHANGED notifyVars ELSE Notify({w})

Heartbeat(w) == R!Heartbeat(w) /\ UNCHANGED notifyVars

Submit(q) == R!Submit(q) /\ Notify({})

\* post_result does everything under one lock: the task is in the table.
PostResult(w, t) ==
    \/ t \in known /\ (R!Forward(w, t) \/ R!Complete(w, t)) /\ Notify({})
    \/ R!ResultRefused(w, t) /\ UNCHANGED notifyVars

\* Mutant: the worker is checked before the lock is taken, as in the Python relay.
FailsAny(w, t) == t \in known /\ tasks[t].status \notin R!FINISHED

\* The checks of post_failure, under the lock.
Fails(w, t) == R!Reportable(w, t)

PostFailure(w, t) ==
    /\ t \in held[w]
    /\ Fails(w, t)
    /\ tasks' = R!Finished(tasks, t, "FAILED", R!Answer(t, w))
    /\ held' = [held EXCEPT ![w] = @ \ {t}]
    /\ UNCHANGED <<nodes, known, queues, affinity, silent, failing, issued, submits>>
    /\ UNCHANGED notifyVars

Sweep(overdue, old, idle) ==
    /\ R!Sweep(overdue, old, idle)
    /\ Notify(silent)

Restart == R!Restart /\ permit' = [o \in Owners |-> FALSE]
                     /\ listeners' = [o \in Owners |-> <<>>]
                     /\ polls' = [w \in Workers |-> NoPoll]

\* A worker that loses a task is one that never reports on it.
Environment ==
    \/ \E w \in Workers : R!Silence(w) /\ UNCHANGED notifyVars
    \/ Restart

PollStep(w) ==
    \/ \E r \in Roles, max \in BatchSizes : Look(w, r, max)
    \/ Listen(w)
    \/ Wake(w)
    \/ Deadline(w)
    \/ LastLook(w)
    \/ HangUp(w)

WorkerStep(w) ==
    \/ PollStep(w)
    \/ \E r \in Roles, claims \in SUBSET Sessions : Register(w, r, claims)
    \/ Deregister(w)
    \/ Heartbeat(w)
    \/ \E t \in TaskId : PostResult(w, t) \/ PostFailure(w, t)

Janitor ==
    \E overdue \in SUBSET {t \in known : R!Assigned(t)}, old \in SUBSET known,
       idle \in SUBSET {k \in Roles \X Sessions : affinity[k] # NoWorker} :
        Sweep(overdue, old, idle)

Next ==
    \/ \E w \in Workers : WorkerStep(w)
    \/ \E q \in Requests : Submit(q)
    \/ Janitor
    \/ Environment

Spec == Init /\ [][Next]_vars
-----------------------------------------------------------------------------
(* Safety *)

Awake(w) == \/ polls[w].phase = "looking"
            \/ polls[w].woken # {}

\* No poll sleeps while a task waits in its worker's own queue: a push while it
\* does not listen yet leaves a permit.
OwnPushWakes ==
    \A w \in Workers :
        /\ polls[w].phase = "listening" /\ ~polls[w].detached
        /\ \E t \in ToSet(queues[w]) : R!Waiting(t)
        => Awake(w)

\* A task that waits can be polled, whatever the locked sections interleave with.
PendingIsQueued == R!PendingIsQueued

\* Only the worker a task is assigned to makes it fail.
FailureFromAssignee == R!FailureFromAssignee
=============================================================================
