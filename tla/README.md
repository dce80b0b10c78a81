# distllm in TLA+

TLA+ models of distllm: a relay hands the tasks of a model's pipeline stages to workers,
each worker runs a slice of the layers and keeps a KV cache per session, and a client
generates text through them. TLC checks the models on small instances, and TLAPS proves
what matters most of them for every instance: the relays' queues, chains and wake-ups, that the relay
implements an abstract task service, that a stage answers a batch as it would its requests alone, that a generation's output is that of the full model, with
speculative decoding too, that calls get their own answers, and that tokens and stages are consistent. Further models follow the worker processes
and client calls around the relay, and the way to a running system: planning the layers,
loading the stages, rotating the workers' token. All paths below are in the repository.

## The system and its parts

| part | source | state | operations | interacts by |
|---|---|---|---|---|
| relay | `src/distllm/relay.py` | node table, task table, one queue per role and per worker, session affinity | register, deregister, heartbeat, submit, poll, result, fail, get_result, janitor sweep | HTTP, with workers and clients |
| relay in Rust | `relay-rs/src/state.rs`, `main.rs` | the same, under one mutex, and notifiers of waiting polls | the same | HTTP |
| worker | `src/distllm/worker.py` (`Worker`) | sessions it served lately | register, heartbeat, poll, process, report, deregister | relay; calls the stage |
| cluster client | `worker.py` (`Cluster`) | request ids of encrypted tasks | submit with retries, wait for a result, call, call_route | relay; called by the generators |
| pipeline stage | `src/distllm/hf.py` (`PipelineStage`) | LRU of KV caches | handle, handle_batch, drop_sessions | called by the worker |
| generator | `hf.py` (`PipelineGenerator`) | sequence, length the stages hold | generate, step, replay, close, audit | calls the stages through the cluster |
| speculative generator | `hf.py` (`SpeculativeGenerator`, `_DraftModel`) | sequence, proposal, draft cache | propose, verify, accept | as the generator |
| stage loading | `hf.py` (`load_stage`) | none kept | choose parameters and weight files | Hugging Face Hub |
| layer planning | `examples/plan_split.py` | none | split the layers over machines | command line |
| tokens | `src/distllm/auth.py`, `relay-rs/src/auth.rs` | accepted tokens, mtime of their file | accepts, reload | file system, relay middleware |
| encryption, transport | `crypto.py`, `transport.py` | none | seal, open, pack, unpack | worker, client |
| command line, page, latency simulation, benchmarks | the rest | none | | |

What is hard in it:

- *The relay's tables.* A task id is in at most one queue, a pending one in exactly one (a
  cancelled poll may lose it), while timeouts, dead workers, re-registrations, batch polls and late answers move it. A
  worker may answer after it was given up, twice, or after the relay restarted.
- *Chains.* The result of a step is the next step's payload; the sender waits on the first
  task only, so that one has to outlive the others and hear of their end.
- *Replicas.* A session's cache is on one of several workers of a role; affinity follows it.
- *Caches.* A step is run at least once, perhaps late and perhaps elsewhere; a stage knows
  only a start position and whether it may rewind.
- *Failure in the middle*: a forward that raises after some layers, an upload that is lost,
  a batch in which one request evicts another's cache or cannot be decoded.
- *Processes.* A worker's loop and its heartbeat both talk to a relay that may have restarted
  and that may hear them late; submissions and uploads are repeated when an answer is lost.
- *Two versions of one thing*: a model repository that moves on between two downloads, a token
  file that is edited between a stat and a read.

`PROJECT.json` lists these hazards at their lines, with the properties that cover each.

## Modules

| module | models | state | actions |
|---|---|---|---|
| `TaskService` | what a client may rely on | one view per task id | one answer per task, restart, forgetting |
| `Relay` | `relay.py` | the five tables; `failing`: `/fail` requests between their check and their body; `held`: what workers were given | one per endpoint, `PutBack` and `PollCancelled` of a poll that waits, `Sweep`, `Restart`, `Silence`, `Abandon` |
| `RelayRust` | `relay-rs/src/state.rs`, over `Relay` | the same and `permit`, `listeners`, `polls` | the same, a poll in up to five kinds of step |
| `RelayProofs` | theorems about `Relay`: its queues, its chains and its refinement of `TaskService` | | |
| `StageOps` | `PipelineStage` as functions | a record of sessions | `Handled`, `HandledBatch`: the set of outcomes |
| `PipelineStage` | one stage under any requests | the stage, the last requests and answers | `Handle`, `HandleBatch`, `DropSessions` |
| `Pipeline` | one step through roles and replicas (`_step`, `_through`) | stages, binding, late requests, copies of repeated submits, the step, the faulty replicas | `Run`, `Stall`, `RunLate`, `Repeat`, `RunOrphan`, `Lose`, `Forget`, `Move` |
| `Generation` | `PipelineGenerator.generate` and its audit, over `Pipeline` | sequence, cached length, replays, suspects | `Send`, `Recover`, `TaskFailed`, `Check`, `CheckFails`, `Emit`, `Close` |
| `Speculative` | `SpeculativeGenerator.generate` and `_DraftModel`, over `Pipeline` | the same, proposal, draft cache | `Propose`, `Verify`, `Recover`, `EndRound`, `Close` |
| `Cluster` | `Worker` and `Cluster` of `worker.py`, over `Relay` | worker processes, the outcomes they have to report, calls, the data of tasks | `Start`, `HeartbeatMissed`, `RegisterArrives`, `Poll`, `PollCancelled`, `Run`, `Upload`, `ReportFailure`, `Crash`, `Stop`, `Leave`, `Submit`, `Receive`, `GiveUp`, losses, the relay's own |
| `ModelShape` | what is read of a model's `config.json` | | |
| `PlanSplit` | `plan` of `plan_split.py` | the counts | `Weigh`, `Grow`, `Shrink`, `Check` |
| `StageLoad` | `load_stage`, `_weight_files`, `_CheckpointReader` | the newest commit, each stage's files and tensors | `Begin`, `FindFiles`, `NextFormat`, `FetchFile`, `FileMissing`, `Assemble`, `Publish` |
| `TokenFile` | `TokenSet` of `auth.py` and the file it reads | the file, the tokens kept with their modification time | `Edit`, `EndEdit`, `Glitch`, `Stat`, `Reread` |
| `Deployment` | `plan_split.py` and `worker_hf.py`, over the last three | the pinned commit, the workers' tokens | planning, `Start`, `Loading`, `Publishing`, `Rotate`, `Move`, `Request` |
| `RelayRustProofs` | theorems about `RelayRust`, over `RelayProofs` | | |
| `StageProofs` | theorems about `PipelineStage`: a stage of many sessions and its batches | | |
| `PipelineProofs` | lemmas about the stages one session meets and about `Pipeline` | | |
| `GenerationProofs` | theorems about `Generation`, over `PipelineProofs` | | |
| `SpeculativeProofs` | theorems about `Speculative`, over `PipelineProofs` | | |
| `ClusterProofs` | theorems about `Cluster`, over `RelayProofs` | | |
| `DeploymentProofs` | theorems about `Deployment` and the modules it extends | | |
| `MC...` | the instances | | |

The composition is by steps of the modules below: `RelayRust` and `Cluster` instantiate `Relay`
and use its handlers in theirs; `Generation` and `Speculative` extend `Pipeline`, and that
`StageOps`; `Deployment` extends `PlanSplit`, `StageLoad` and `TokenFile`, whose variables are
disjoint.

**Relay.** Handlers of one asyncio thread that do not suspend are one step. `/result` reads
its body before it checks the task, so it is one step; `/fail` reads it after and
is two (`FailArrive`, `FailFinish`). Ids are issued in order (1, 2, ...) in place of UUIDs.
Time is a choice: a sweep may find any assigned task overdue, any binding idle, any silent
node dead; only the order of ages is kept (`OldestFirst`), because a chain's root is never
younger than its steps. Task objects outlive their removal from the table (`known`), since a
handler may hold one. A payload is the sequence of workers that computed it, enough to tell
whose answer it is and which roles it passed. Restart loses all tables and leaves the
workers with their tasks. `Poll` takes what is queued in one step, as the code does when a queue is not
empty. A poll that found both empty waits with a getter on each; an id that comes is first taken by a
getter and then by the poll. What can happen between the two is in two actions of their own: the id
is put back behind those that came since (`PutBack`, when both getters had one or the request was
cancelled in `asyncio.wait`), or the request is cancelled while it awaits the cancelled getters, outside
the `try`, and the id is gone (`PollCancelled`). `Next` keeps that step, `LostPoll`, apart from all others
(`Orderly`): it is the only one that `PendingStaysQueued` excepts, and it violates `PendingIsQueued`.

**Relay in Rust.** The tables and rules are those of `Relay`, so `RelayRust` instantiates it and
adds what is different: a locked section is one step; `/fail` is one; a poll skips stale ids,
and when it finds nothing it unlocks (`Look`), begins to listen to the notifiers of its role and
worker (`Listen`), is woken (`Wake`) or meets its deadline and looks once more (`Deadline`,
`LastLook`), or its worker hangs up. A notifier is tokio's `Notify`, modelled from its use:
`notify_one` wakes the first listener or leaves one permit, and a future that is dropped with
an unused wake-up passes it on. `forget_worker` drops a notifier that a poll may have cloned
(`detached`). A worker has one poll at a time, as `Worker.run` does. That a worker may lose
a task needs no action here: it never reports on it.

**Stages.** A model is deterministic, so a token, a hidden state or a cache entry is
represented by one bit: whether it is the one computed from the right tokens. An entry
computed on a cache with a wrong entry, or on one of the wrong length, is wrong. This keeps
all that the properties speak about and nothing of the tensors. Decode steps that share a forward
do as `_decode_batch` does: each cache is padded on the left to the longest (`Padded`), the row's mask
hides the padding (`Mask`), the new entry is right if the row attends to its session's entries and to
nothing else and its position is its length (`Decoded`), and the row is cut from the padding on
(`Unpadded`). Rows of different width do not stack: the batch fails. `Failures` names what may
raise: the layers, `lm_head`, both or none.

**Pipeline.** The relay appears by what it does to a step: it gives the task to the bound
replica (`Run`), gives up on it and gives it to another (`Stall`, after which the first one
may still run it, `RunLate`, before it runs anything else), loses it (`Lose`), or rebinds
the session (`Move`). When the answer to a `/submit` is lost and it is sent again (`Repeat`), the
generator waits for one of two tasks. The other one (`orphans`) is run at any time, by any replica of
its role, after any number of later steps (`RunOrphan`), because the relay gives a task out again that a worker
did not answer; with a route it goes on to the next roles. `MaxLate` and `MaxOrphans` bound how many requests are late or
copied at once. Caches vanish (`Forget`). These are the outcomes `Relay` allows for
one session. Hop-by-hop calls and relay routes give the same steps. A replica may be
faulty (`Computed`): other weights, broken hardware, garbage. Its answers are then never right.

**Audit.** With `AuditConfig`, a token is compared with that of trusted auditors before it is
emitted (`Check`). The auditors run the sequence from scratch and are right. When they disagree,
each main role is tried in their chain in turn, in a fresh session, which the relay may bind to
another replica than the one that answered (`tried`): so a guilty stage may escape, but an
innocent one is not accused. Unlike a step, an audit is not repeated when one of its calls fails
(`CheckFails`): the generation ends with that error. The model audits every token (rate 1) when
there is a faulty replica; at a lower rate a wrong token may be emitted before an audit is drawn,
which is what the rate means.

**Cluster.** `Relay` allows any worker to call any endpoint at any time; `Cluster` says when they
do. A process is down, starting, running or stopping. Its loop polls with empty hands only, runs
the batch (`Run`: payloads that do not decode fail alone, an exception of a batched function is the outcome of
all that ran with it (`Together`), results are zipped with tasks and request ids after the undecodable
ones are taken out) and reports each outcome; an upload whose response is lost
is repeated, a failure is posted once. Beside it the heartbeat meets a 404 and sends `/register`
with the sessions tracked up to then; such a request (`mail`) may reach the relay after its process
has ended. `data` replaces payloads and results by the call whose request id they carry, which is
all that `wait_for` compares: an id of another call is `refused`. What the function computes is
left to the stage modules. The relay's janitor finds a task overdue that nobody works on (`Lost`);
it may take one from a worker that is only slow, which counts as a fault. A task whose id a cancelled
poll lost (`Stranded`) becomes older than `DANGLING_TTL` in the end: it is forgotten, with what is
unfinished and older (`Dangling`), and its caller gets a 404, unless its own deadline came first.
`raised` remembers on which payload a function raised and what was run with it.

**Deployment.** The planner's arithmetic is done on whole numbers: weights are multiplied by
`Parts` and `NLayers`, so every quotient the code forms is compared exactly; floating-point
rounding is left out. `max` takes the first of equals, and so does `FirstLargest`. With all counts
fixed and layers left over, the code's `max()` of nothing raises (`crashed`). A checkpoint maps
tensors to files; a file that cannot be reached is as one that is missing, because `fetch`
returns None for both, so loading may go on to the next format. The planner prints the commit it
planned for and every machine loads at it, again after a failure, while the branch moves on.
`TokenSet._reload` is two steps, a stat and a read; an editor replaces the file or
rewrites it in place, and it may be unreadable at any time. (`accepts` of `auth.rs` takes the same
two steps, under a mutex.) The rotation is that of
`docs/architecture.md`: add the new token, restart the workers with it, remove the old one.

## Runs

| run | instance | shows |
|---|---|---|
| `relay` | 2 replicas with 2 tasks of 1 session, or 2 workers with a chain a-b-a; polls of 2 | `QueuedOnce`, `AssignedNotQueued`, `NoTaskStranded`, `ChainAlive`, `RouteFollowed`, `EndReachesRoot`, `OneLiveStep`, `PendingStaysQueued`, `ResultFromAssignee`, refinement of `TaskService` |
| `lost_poll` | 2 replicas, 1 task | finding: a cancelled poll loses a task |
| `late_failure` | 2 replicas | finding: `/fail` of a worker that lost the task |
| `stage_sessions` | 3 sessions, 2 kept, 3 tokens, batches of 3 | `SoundAnswers`, `AnsweredAlone` |
| `stage_batch` | the same, nothing raises | finding: a batch evicts one of its own sessions |
| `generation` | 2 replicas, one perhaps faulty, + 1 worker, 2 new tokens, one submit repeated at a time | `OutputIsGreedy`, `ErrorsHaveCauses`, `GenerationEnds` |
| `generation_output` | 2 replicas, `lm_head` may raise | finding: a grown cache is used again |
| `speculative` | 2 single-worker roles, proposals of 2, 4 new tokens | `OutputIsGreedy`, `DraftFollows`, `GenerationEnds` |
| `speculative_repeated` | 1 worker, 5 new tokens, one submit repeated | finding: a rejected draft is taken for an emitted token |
| `rust` | 2 replicas of a, a chain a-b, nobody serves b | `OwnPushWakes`, `PendingIsQueued`, `FailureFromAssignee` |
| `cluster` | 2 processes of one role, one of them stable; a call of a session, a routed one that closes it, or two in one batch, one of them perhaps unreadable | `OwnAnswers`, `FailedForCause`, `NoSessionStolen`, `EveryCallEnds`, `WorkersRejoin`, `GhostsVanish` |
| `deployment` | 4 layers on 2 machines, 1 to 3 stages, 2 commits in 2 formats, 3 edits of the token file | `PlanCovers`, `Balanced`, `OneModel`, `WholeModel`, `CacheCoherent`, `NoDowntime` |

Every passing run checks the module's `TypeOK` too. A property is stated and explained at the end of its module; each one is violated by at
least one plausible mistake in the code, a `Mutant:` definition beside the one it replaces,
listed in `PROJECT.json`.

What the findings say:

- `late_failure`: `post_failure` checks its worker, awaits the body and does not check again.
- `stage_batch`: a batch chooses the decode steps that share a forward before it runs the
  others, which may evict one of them.
- `generation_output`: when `lm_head` raises, the cache has grown and its length has not.
- `lost_poll`: `_queue_get_first` puts back what its getters took unless it is cancelled while it awaits
  them; then the task is pending in no queue until it is forgotten.
- `speculative_repeated`: a cache is trusted by its length. The second task of a repeated `/submit`, run after
  later rounds, crops it to the old start and leaves rejected drafts in it. (So does a replica
  that a session left and came back to.) No replica, failure or fault of a worker is needed.

**Bounds.** `relay` has two fleets (`Fleets`), of which a behaviour has one. The first has two tasks of one session,
two replicas and the death of either: the smallest instance in which a bound queue, a role queue and a batch poll meet. The second has a chain of three
steps: it has a first, a middle and a last one. Three sessions on a stage that keeps two force an
eviction, and three requests allow one before or between two that share a forward. Two
new tokens make a cache that is left behind, found too short or too long and filled again;
four with proposals of two make rounds that keep all, some and none of a proposal. `rust` has two polls that compete for
a role queue and its permit while the session's worker has a queue of its own; the second step
of its chain has no worker, which is enough to have `forwarded` results push to another queue.
`Affordable` keeps an id for every step of
a chain that is submitted. `generation` has one late request and one copy at a time, `speculative` two late ones and no
copy, `speculative_repeated` one copy; each may be followed by another one when it has run. `MaxLosses` does not bound
the losses but the count of them: it saturates. `generation` allows one replay
(`MaxRecoveries` is 1, the code's default 2) and counts three losses: a second replay adds no other
kind of step, and the relation of replays to losses is seen with the first and the error.

`cluster` runs one of four workloads, each with a budget of faults (crash, stop, restart, loss,
delay): two for a call of a session, one for the others. Two faults are enough for those that need a
pair, such as a relay restart with claims under way; more calls meet each other in `relay`,
where nothing bounds the faults. One worker is stable, or nobody would be there to answer.
In `deployment`, `MaxLoading` lets one stage load at a time: stages share nothing
but the branch, which moves between any two of their steps. The first commit is in two files or
one, the second is split elsewhere, has the tied head once more, and its other format lacks
layers. The forty-seven requests of one to three stages contain fixed and flexible ones, one machine
twice, too little memory and too few layers. Three edits are those of a rotation, one of them in
two parts.

**Symmetry and views.** Replicas of one role are interchangeable in `relay`, sessions in
`stage_sessions`; runs with liveness properties use no symmetry. `MCRelay` has a
view that leaves out objects nothing refers to any more (a deleted task that no handler,
no chain and no worker holds) and tasks a worker holds whose report would be refused in any
case. Neither enables a step that changes what is left, and the properties read of a forgotten
object only what never changes (its role and route). `MCRelayRust` has the same symmetry and
view.

**Fairness.** In `Cluster` it is weak fairness of `Progress`: as long as a process
that runs, the relay's janitor, a silent node or a waiting client can go on by itself, something
of that goes on. This is less than fairness to each of them, which the event loops and processes
would justify, and it is enough because no behaviour without faults goes round for ever; faults
are bounded. The janitor is a loop (`relay_janitor`), heartbeats have a period, polls are
long-polling, uploads are tried five times, and a `wait_for` polls until its deadline. Nothing is
assumed of workers that are not stable, except that one that runs goes on running until it
crashes or is stopped. In `Generation` and `Speculative`: the client goes on, a worker finishes
what it has, and a step that is given out again and again is run at some time (`wait_for` would
end it with an error after its timeout otherwise).

## Proofs

TLAPS proves the following for every number of workers, roles, sessions, tasks, tokens and
losses, and for any requests. Each result is a theorem about `Spec`, without its fairness.

| module | theorem | states |
|---|---|---|
| `RelayProofs` | `TypeCorrect` | `Spec => []TypeOK` |
| | `QueuesCorrect` | `PendingStaysQueued`, an action property |
| | `QueuesHoldATaskOnce`, `QueuesHoldNoTaskInHand` | `QueuedOnce`, `AssignedNotQueued` |
| | `NothingStranded` | `NoTaskStranded` |
| | `ChainsStayAlive`, `EndsReachTheRoot`, `OneStepAtATime` | `ChainAlive`, `EndReachesRoot`, `OneLiveStep` |
| | `RoutesAreFollowed` | `RouteFollowed` |
| | `ResultsFromAssignee` | `ResultFromAssignee`, an action property |
| | `RelayImplementsTaskService` | `ImplementsTaskService`, the refinement |
| `RelayRustProofs` | `TypeCorrect` | `TypeOK` |
| | `PollsAreWoken`, `PendingStaysQueued` | `OwnPushWakes`, `PendingIsQueued` |
| | `FailuresFromAssignee` | `FailureFromAssignee`, an action property |
| `StageProofs` | `TypeCorrect` | `TypeOK` |
| | `AnswersAreSound` | `SoundAnswers`, if `"output" \notin Failures` |
| | `SharedAsAlone` | `AnsweredAlone` |
| | `BatchAnswersAlone` | the same of one batch, of any requests and any length |
| `GenerationProofs` | `TypeCorrect` | `TypeOK` |
| | `OutputIsThatOfTheModel` | `OutputIsGreedy`, if `"output" \notin Failures` |
| | `ErrorsAreCaused` | `ErrorsHaveCauses` |
| `SpeculativeProofs` | `TypeCorrect`, `DraftFollowsTheSequence` | `TypeOK`, `DraftFollows` |
| | `OutputIsThatOfTheModel` | `OutputIsGreedy`, if `"output" \notin Failures`, `OnePerRole`, `MaxOrphans = 0` and no worker is faulty |
| `ClusterProofs` | `TypeCorrect` | `TypeOK` |
| | `AnswersAreOwn`, `FailuresAreCaused` | `OwnAnswers`, `FailedForCause` |
| | `SessionsAreNotStolen` | `NoSessionStolen`, an action property |
| `DeploymentProofs` | `TypeCorrect` | `TypeOK` |
| | `PlanCoversTheModel`, `PlanIsFair` | `PlanCovers`, `Balanced` |
| | `StagesAreOfOneModel`, `StagesAreTheWholeModel` | `OneModel`, `WholeModel` |
| | `TokensAreCoherent` | `CacheCoherent` |
| | `RotationHasNoDowntime` | `NoDowntime`, an action property |

**Assumptions.** The theorems rest on the named assumptions about the constants and on nothing
else; TLC evaluates each of them in the runs. `NamesAssumption` and `NoTaskAssumption` keep names
apart (a role is not a worker, "no task" is not a task) and say what a request is.
`BoundsAssumption` says that the bounds are numbers.
`RelayAssumption` says the same of the relay inside `Cluster` and `RelayRust`. `RepoAssumption` has a branch name
that is not a commit and at least one checkpoint format per commit, `RotationAssumption` a token file
that holds the old token at first. `PlanAssumption` has a pipeline of at least one stage and sizes
that are natural numbers, `SlotsAssumption` a worker for every stage that may be planned.
`StageAssumption`, `PipelineAssumption`, `GenerationAssumption` and `SpeculativeAssumption` give each
role a replica, and the prompt, the output and a proposal a token.

Three theorems about a `Spec` have hypotheses of their own. `AnswersAreSound` of `StageProofs` and
`OutputIsThatOfTheModel` of `GenerationProofs` ask that `lm_head` does not raise. Without that the
second is false, which is the finding of `generation_output`, and the first for the same reason;
the runs `stage_sessions` and `generation` satisfy it,
failing layers and faulty replicas included. The theorem of the same name in `SpeculativeProofs` asks
this too, that each role is served by one worker (`OnePerRole`), and that no submit is repeated
(`MaxOrphans = 0`): with copies it is false, which is the finding of `speculative_repeated`, and with
replicas for the same reason. Speculative decoding has no audit, so no worker may be faulty.
The run `speculative` satisfies all four.

**Queues** (`QueueInv`). The queue properties are not inductive one by one: that an assigned task is
not queued needs that its id was queued once when it was taken, and that a new id is in no queue
needs that the queues hold issued ids only (`FreshIds`). `QueueInv` is their conjunction with
`TypeOK` and `FreshIds`. `QueuesCorrect` is about steps: from a state of `QueueInv`, every step of `Orderly`
leaves or puts the pending tasks where a poll finds them. In the Rust relay, which has no
`PollCancelled`, the same lemma makes `PendingIsQueued` an invariant. The proof has a lemma per action; those about `Poll`, `Release` and
`Enqueue` rest on lemmas about what is left of a queue, what a permutation of the requeued ids adds
to it and how a queue grows by one id.

**Chains** (`ChainInv`, `RouteInv`). A handler may hold a task that the table has forgotten, and
the late result of one still starts the next step. `ChainInv` therefore speaks of all the objects
there ever were: a root is the oldest of its chain and stays one (`Rooted`), `done` is never taken
back (`DoneIsLast`), and one object of a chain is unfinished at most. That an open root has a
step in the table is inductive only with these. `RouteInv` adds that the roles a step has
passed and those it has left are the submitted path, by which routes of any length are followed
without induction over them.

**Refinement.** `ImplementsTaskService` maps a task to what a client sees of it. By `ChainInv`, and
by its truth after the step, every step of `Relay` leaves each id as it was, or gives it one answer,
or forgets it, or is a restart: this is a step of `TaskService` or a stutter. The
actions that can answer a task (`Complete`, `FailFinish`) answer its root with it, and the two views
change together, which is why one step of the service may answer several tasks.

**Relay in Rust** (`RustInv`). The two relays take tasks out of the queues differently (the Python
one stops at a stale id, the Rust one skips it), so `RelayProofs` proves its
lemmas about polls for any number of ids that a poll takes out (`TakeOut`), and `RustInv` has
`QueueInv` and `ChainInv` from there. What it adds is about waiting. `Coherent`: a worker's poll
is at most once in a line, in those of its role and of its worker only, and a permit excludes
listeners. `Wakeful`: until its notifier is replaced, a poll between its unlock and its first look at
the notifiers has a permit if its worker's queue has work, and one that listens is in that
notifier's line or was woken by it, and woken if there is work. That is why a push meets the poll or leaves
a permit. The proof goes by what a step pushes: work that was not there comes with an id put
into the queue (`WorkIsPushed`), and each such id is a call of `notify_one`. `OwnPushWakes`
alone is not inductive: it does not speak of the time between unlocking and listening.
`FailuresFromAssignee`, which this relay has because it checks under the lock, is what
`late_failure` refutes for the Python relay.

**Pipeline stage** (`Sound(B, stage)`). A stage keeps the least recently used sessions first, each once, with a
cache and a length: the cache has bits of `B`, any (`BOOLEAN`) or sound ones only (`{TRUE}`). One invariant
serves both, and so do its lemmas. With sound bits only, the length is the cache's own, from
which a new entry follows to be sound; with any it is not more than that, since `lm_head` may have failed
after the cache grew, which is enough for the types. Orders are chosen among the permutations of a set, so
the first lemmas show that there is one that keeps an earlier order (`LineExists`): the elements in the
order of the places where they first stood. For `AnsweredAlone` a request is compared with what the stage
*before the whole step* would have answered it. `HandledSound` says that a request leaves every other session
untouched or gone, and `UntouchedTwice` that this lasts. The function that goes through a batch is what its
recursion says, because a smallest number for which it is not has none smaller (`RunsExist`, and
`RunsAre` in the same way): before request `i` the sessions of later lone requests are untouched or gone, and those
before it have been answered as they would have been (`Ran`). Then the picked sessions share a forward, or are
all dropped when one of them is gone (`DecodedSound`); a decode step alone is the same forward with one new token
(`TogetherIsAlone`). That a row that was padded, masked, extended and cut back is the cache that the request
alone would have left, in every place, is proved from the definitions for any two lengths
(`PaddedIsAlone`). Nothing here depends on how many sessions or requests there are. The theorems about `Spec`
speak of the batches that it polls; `BatchAnswersAlone` of any.

**Generation** (`GreedyInv`, `CauseInv`). `PipelineProofs` shows what a stage answers that has met one
session only: with sound caches and input it answers with sound values or an error, whatever
length it was left with by repeated and late requests, and a forward that raises leaves no cache
behind. The lemmas are about sets of stages, parameterised by the bits allowed in a cache: any
for the types, sound ones only for the output. `GreedyInv` says that while no replica is faulty
all that the stages, the late requests and the step contain is sound, that the sequence
always is, and that a generation with a faulty replica emits audited tokens only. `CauseInv` counts: the
n-th replay takes `2 * n - 1` losses (`LossInv`), because a stage misses only what was lost
(`SyncInv`: until the first loss each bound stage holds what the client takes it to hold) and
a replay starts from nothing. The count of losses saturates, and so does `Enough`.

**Speculative decoding** (`TypeInv`, `GreedyInv` of `SpeculativeProofs`). The types need arithmetic on
three sequences: `RoundInv` says that the step runs sequence and proposal from `cached` or from the
start and that each role answers as many values as it is given, from which a prediction for every
proposed token follows; `DraftInv` says what the draft cache holds in each phase. For the output the
argument of `Generation` does not do, because wrong tokens do go through the stages: a draft may be
rejected. `GreedyInv` is therefore about positions. `Sound` are those up to which sequence and proposal
are the model's; a stage holds right values up to `cached` at all times, and at all of `Sound` once its role has
run the step under way (`Ran`), and the step's values and those of late requests are right at `Sound`
(`Follows`). What a stage held of an earlier proposal lies behind `cached` and is cropped by the
rewind before it counts (`HandledSound`). An accepted token is the model's: the first that were not
would follow sound ones, its prediction would be right and would differ (`AcceptedAreSound`, by
`Smallest`, the least-number principle). So when a round ends, all it accepted is in `Sound`,
and every stage holds it. With replicas the last step fails: a role has run the step, but a
replica of it has not.

**Cluster** (`ClusterInv`). `Cluster` takes the relay's steps from `Relay`, so its proofs take the
relay's invariant from `RelayProofs`: the first lemmas show that the handlers as `Cluster` and as `RelayProofs`
instantiate them are the same. Beside `ChainInv`, `ClusterInv` follows the data: what a
worker has to report of a task is that task's own, a result belongs to the call of its chain's
root (`DataFollows`), and a failure has its cause from the time it is noticed until the client hears
of it (`FailuresCaused`). The step that needs most is `Run`, where a batch loses its undecodable
payloads and is zipped again, and where an exception is the outcome of all that ran together.

**Planning** (`PlanInv`). `PlanCovers` says little before the end, and `Balanced` nothing. `PlanInv`
has them from the first distribution on: rounded down and raised to one, the shares are balanced
(`SharesBalanced`), a layer that is handed out or taken back keeps them so, and the requested
counts with one layer for each other stage are not too many, so that while there is a layer too
many some stage has several and `max` has something to choose from. `max` itself finds a stage because
quotients, compared by cross-multiplication, are ordered. Sums are folds of the community modules: a
fold is what its recursion says because a smallest set for which it is not has none smaller, and so are
the facts about sums (an element may be taken out first, a part is no more than the whole).

**Deployment.** `TokenInv` orders the modification times a reload has seen, has read and will see.
`LoadInv` follows the plan's layers and commit through files and tensors: what a stage has when it is
up is complete. `StagesInOrder` lays the planned counts end to end, and with it the stages are the
whole model. `RotationInv` says that the token
of every worker is in what the file is to contain when its editor is done, and that the relay
accepts it unless it read a file that was only partly written.

**What stays with TLC**, and why:

- *Liveness and fairness*, in all modules: this prover does neither.
- *`MissIsAnswered`, `PendingIsQueued` and `FailureFromAssignee` of `Relay`, and `OutputIsGreedy` without its hypotheses*:
  they are false, and TLC shows how.

## Not modelled, and the plan

Modelled are the relay in both languages, the worker, the client's calls, the stage, both
generators, loading, planning and the token file. Left out, and why:

- *Tensors.* Encoding (`transport.py`), quantization, devices, dtypes, the sampling of a token:
  conversions without a state. A result that is not a dict loses its request id; the models have
  dicts only. ChaCha20-Poly1305 and key derivation are cryptography: a payload opens with its key
  or does not.
- *Uploads after deregistration*: requests of an ended process are modelled for `/register` only;
  a late `/result` of a worker the relay forgot is in `Relay`, where workers report at any time.
- *Refused tokens* are modelled for running workers (`Deployment`), for clients not at all;
  lists of tokens in the environment never change.
- *Two edits in one tick* of a file system's clock, and floating-point rounding in the planner.
- *A worker registered again by hand* under its fixed id with another role (`relay.py:249`).
- Command line, web page, `/status`, latency simulation, benchmarks: they keep no state or only
  read it.

Every safety invariant and action property that a passing run checks is now a theorem; of the passing
runs only the liveness properties are not.
