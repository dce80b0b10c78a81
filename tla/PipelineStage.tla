---------------------------- MODULE PipelineStage ----------------------------
(***************************************************************************)
(* One pipeline stage (PipelineStage of src/distllm/hf.py) under any       *)
(* requests of its clients, alone or in the batches the worker polls.  A   *)
(* client is careful: it only sends sound tokens (StageOps).  A request it *)
(* sends may be run again, out of order or without its answer being heard, *)
(* so any request may come at any time.                                    *)
(***************************************************************************)
EXTENDS StageOps

CONSTANTS
    MaxLength,      \* bound: tokens of a session
    MaxNew,         \* bound: new tokens of a request
    MaxPolled       \* max_tasks of the worker's polls

ASSUME PolledAssumption == {MaxLength, MaxNew, MaxPolled} \subseteq Nat

VARIABLES
    stage,      \* the stage's sessions
    asked,      \* the requests of the last step, and
    held,       \* the sessions before it, and
    answers     \* the answers to them

vars == <<stage, asked, held, answers>>

Answer == [kind : {"closed", "cache_miss", "error", "hidden_states"}, hidden : Bits]

\* The stage keeps each session once and no more of them than it may.
TypeOK ==
    /\ stage.order \in Seq(Sessions)
    /\ IsInjective(stage.order)
    /\ Len(stage.order) <= MaxSessions
    /\ stage.cache \in [ToSet(stage.order) -> Bits]
    /\ stage.length \in [ToSet(stage.order) -> Nat \ {0}]
    /\ asked \in Seq(Payload)
    /\ answers \in Seq(Answer)
    /\ Len(answers) = Len(asked)

Init ==
    /\ stage = Empty
    /\ held = Empty
    /\ asked = <<>>
    /\ answers = <<>>

SoundPayload ==
    {p \in [session : Sessions, start : 0 .. MaxLength, rewind : BOOLEAN, close : BOOLEAN,
            new : {[i \in 1 .. n |-> TRUE] : n \in 0 .. MaxNew}] :
        /\ p.start + Len(p.new) <= MaxLength
        /\ p.close => p.start = 0 /\ p.new = <<>> /\ ~p.rewind}

\* A worker that does not batch runs its tasks one by one.
Handle(p) ==
    /\ \E o \in Handled(stage, p) :
         /\ stage' = o.stage
         /\ answers' = <<o.answer>>
    /\ asked' = <<p>>
    /\ held' = stage

HandleBatch(ps) ==
    /\ \E o \in HandledBatch(stage, ps) :
         /\ stage' = o.stage
         /\ answers' = o.answers
    /\ asked' = ps
    /\ held' = stage

\* The worker process restarts, or drop_sessions is called.
DropSessions ==
    /\ stage' = Empty
    /\ held' = stage
    /\ asked' = <<>>
    /\ answers' = <<>>

\* Batches worth looking at: two decode steps that may share a forward, alone
\* or with any request before, between or after them.
Polled ==
    LET decode == {p \in SoundPayload : Batchable(stage, p)}
        pairs == {<<p, q>> : p, q \in decode}
    IN  {ps \in pairs \cup {InsertAt(d, i, p) : d \in pairs, i \in 1 .. 3, p \in SoundPayload} :
            Len(ps) <= MaxPolled /\ Batch(stage, ps) # {}}

Next ==
    \/ \E p \in SoundPayload : Handle(p)
    \/ \E ps \in Polled : HandleBatch(ps)
    \/ DropSessions

Spec == Init /\ [][Next]_vars
-----------------------------------------------------------------------------
(* Properties *)

\* What a stage answers was computed on exactly the tokens before it: requests
\* that fail, are repeated or come late leave no cache that answers wrongly.
SoundAnswers ==
    \A i \in DOMAIN answers : \A j \in DOMAIN answers[i].hidden : answers[i].hidden[j]

\* A request that shares a step with others gets the answer it would get alone,
\* and its session goes on from the same cache: padding the caches of a batch to
\* the longest, masking, and cutting them back leave nothing of the others in it.
AnsweredAlone ==
    \A i \in DOMAIN asked :
        LET p == asked[i]
        IN  /\ answers[i].kind = "hidden_states"
            /\ \A j \in DOMAIN asked : asked[j].session = p.session => j = i
            => \E o \in Handled(held, p) :
                 /\ o.answer = answers[i]
                 /\ Keeps(stage, p.session) /\ Keeps(o.stage, p.session) =>
                        /\ stage.length[p.session] = o.stage.length[p.session]
                        /\ stage.cache[p.session] = o.stage.cache[p.session]

\* A stage without the cache a request continues says so (the protocol in
\* PipelineStage's docstring): unless something failed, a request that has its
\* input is not answered by an error.
MissIsAnswered ==
    \A i \in DOMAIN answers : answers[i].kind = "error" => asked[i].new = <<>>
=============================================================================
