------------------------------ MODULE Pipeline ------------------------------
(***************************************************************************)
(* One step of a generation on its way through the pipeline: _step and     *)
(* _through of PipelineGenerator (src/distllm/hf.py), the stages (StageOps)*)
(* and the relay as far as the step meets it.  A role is served by         *)
(* replicas; the relay sends the session to the one it is bound to and to  *)
(* another one when that one is gone or too slow.  A slow replica may      *)
(* still run what it was given up for, before anything else it runs.  The  *)
(* copy of a request that a repeated /submit leaves at the relay may be    *)
(* run by any replica of its role, however much later.                     *)
(*                                                                         *)
(* The generators (Generation, Speculative) extend this module: they begin *)
(* steps and read their outcomes.                                          *)
(***************************************************************************)
EXTENDS StageOps

CONSTANTS
    Workers,
    Depth,          \* the number of roles: role 1 embeds, role Depth has lm_head
    RoleOf,         \* RoleOf[w]: the role of worker w
    Session,        \* the session of the generation
    Idle,           \* not a request: the worker has none to run late
    FaultSets,      \* the sets of workers that may compute something else
    MaxLosses,      \* bound: losses are counted up to here
    MaxLate,        \* bound: replicas at a time that are late
    MaxOrphans      \* bound: copies at a time that nobody waits for

ASSUME PipelineAssumption ==
    /\ Depth \in Nat \ {0}
    /\ RoleOf \in [Workers -> 1 .. Depth]
    /\ \A r \in 1 .. Depth : \E w \in Workers : RoleOf[w] = r
    /\ Session \in Sessions
    /\ Idle \notin Payload
    /\ FaultSets \subseteq SUBSET Workers
    /\ MaxLosses \in Nat

ASSUME BoundsAssumption == {MaxLate, MaxOrphans} \subseteq Nat

VARIABLES
    stages,     \* stages[w]: what the stage of worker w keeps
    home,       \* home[r]: the replica of role r the session is bound to
    late,       \* late[w]: the request w still runs after it was given up
    orphans,    \* the copies at the relay that nobody waits for
    step,       \* the step under way
    losses,     \* tasks lost, given up or repeated, caches lost, sessions moved
    faulty      \* the workers whose outputs are never right: other weights, ...

pipeVars == <<stages, home, late, orphans, step, losses, faulty>>

\* hop: the role whose turn it is; at: its input, or the last role's output.
Step ==
    [phase : {"idle", "running", "answered", "missed", "failed"},
     start : Nat, new : Bits, rewind : BOOLEAN,
     attempt : 1 .. 2, hop : 1 .. Depth, at : Bits]

NoStep == [phase |-> "idle", start |-> 0, new |-> <<>>, rewind |-> FALSE,
           attempt |-> 1, hop |-> 1, at |-> <<>>]

\* A copy of a request for the role `hop`.
Copy == [hop : 1 .. Depth, request : Payload]

PipeTypeOK ==
    /\ \A w \in Workers :
         /\ stages[w].order \in {<<>>, <<Session>>}
         /\ stages[w].cache \in [ToSet(stages[w].order) -> Bits]
         /\ stages[w].length \in [ToSet(stages[w].order) -> Nat]
    /\ home \in [1 .. Depth -> Workers]
    /\ \A r \in 1 .. Depth : RoleOf[home[r]] = r
    /\ late \in [Workers -> Payload \cup {Idle}]
    /\ orphans \subseteq Copy
    /\ step \in Step
    /\ losses \in 0 .. MaxLosses
    /\ faulty \in FaultSets

PipeInit ==
    /\ stages = [w \in Workers |-> Empty]
    /\ home \in {h \in [1 .. Depth -> Workers] : \A r \in 1 .. Depth : RoleOf[h[r]] = r}
    /\ late = [w \in Workers |-> Idle]
    /\ orphans = {}
    /\ step = NoStep
    /\ losses = 0
    /\ faulty \in FaultSets

Lost == losses' = IF losses < MaxLosses THEN losses + 1 ELSE losses

\* The generator sends new tokens from position start on.
Begun(start, new, rewind) ==
    [phase |-> "running", start |-> start, new |-> new, rewind |-> rewind,
     attempt |-> 1, hop |-> 1, at |-> new]

Running == step.phase = "running"

\* The payload for the role whose turn it is: the control keys are those of the
\* step, the second attempt rewinds.
Request ==
    [session |-> Session, start |-> step.start, new |-> step.at,
     rewind |-> step.rewind \/ step.attempt = 2, close |-> FALSE]

\* _through or the relay's route: hidden states are the next role's input.
Passed(answer) ==
    CASE answer.kind = "cache_miss" -> [step EXCEPT !.phase = "missed", !.at = <<>>]
      [] answer.kind = "error" -> [step EXCEPT !.phase = "failed", !.at = <<>>]
      [] answer.kind = "hidden_states" ->
            IF step.hop < Depth THEN [step EXCEPT !.hop = @ + 1, !.at = answer.hidden]
            ELSE [step EXCEPT !.phase = "answered", !.at = answer.hidden]

\* What worker w answers.
Computed(w, answer) ==
    IF w \in faulty
    THEN [answer EXCEPT !.hidden = [i \in DOMAIN answer.hidden |-> FALSE]]
    ELSE answer

\* The bound replica runs the request and its answer is passed on.
Run(w) ==
    /\ Running
    /\ w = home[step.hop]
    /\ late[w] = Idle
    /\ \E o \in Handled(stages[w], Request) :
         /\ stages' = [stages EXCEPT ![w] = o.stage]
         /\ step' = Passed(Computed(w, o.answer))
    /\ UNCHANGED <<home, late, orphans, losses, faulty>>

\* The replica takes the request and is too slow, or its answer is lost: the
\* relay gives the task to a replica of the role again.
Stall(w) ==
    /\ Running
    /\ w = home[step.hop]
    /\ late[w] = Idle
    /\ Cardinality({v \in Workers : late[v] # Idle}) < MaxLate
    /\ late' = [late EXCEPT ![w] = Request]
    /\ \E v \in Workers : /\ RoleOf[v] = step.hop
                          /\ home' = [home EXCEPT ![step.hop] = v]
    /\ Lost
    /\ UNCHANGED <<stages, orphans, step, faulty>>

\* It runs the request after all; nobody hears the answer.
RunLate(w) ==
    /\ late[w] # Idle
    /\ \E o \in Handled(stages[w], late[w]) : stages' = [stages EXCEPT ![w] = o.stage]
    /\ late' = [late EXCEPT ![w] = Idle]
    /\ UNCHANGED <<home, orphans, step, losses, faulty>>

\* The answer to /submit is lost and it is sent again: the relay has the request
\* twice, and the generator waits for one of the two.
Repeat ==
    /\ Running
    /\ Cardinality(orphans) < MaxOrphans
    /\ orphans' = orphans \cup {[hop |-> step.hop, request |-> Request]}
    /\ Lost
    /\ UNCHANGED <<stages, home, late, step, faulty>>

\* What the relay has of a copy after an answer: nothing, or the request it
\* passes on when the copy had a route.
Onward(copy, answer) ==
    IF answer.kind = "hidden_states" /\ copy.hop < Depth
    THEN {{}, {[hop |-> copy.hop + 1,
                request |-> [copy.request EXCEPT !.new = answer.hidden]]}}
    ELSE {{}}

\* A replica of the role is given the copy, now or after any number of steps, as
\* the relay queues a task again that it handed out and heard nothing of.  The
\* session is bound to that replica.
RunOrphan(w) ==
    /\ late[w] = Idle
    /\ \E copy \in orphans :
         /\ copy.hop = RoleOf[w]
         /\ home' = [home EXCEPT ![copy.hop] = w]
         /\ \E o \in Handled(stages[w], copy.request) :
              /\ stages' = [stages EXCEPT ![w] = o.stage]
              /\ \E onward \in Onward(copy, Computed(w, o.answer)) :
                   orphans' = (orphans \ {copy}) \cup onward
    /\ UNCHANGED <<late, step, losses, faulty>>

\* _step sends a lost step again, to all roles and with rewind.
Resent == [step EXCEPT !.attempt = 2, !.hop = 1, !.at = step.new]

\* TaskLostError: the relay does not know the task any more.  A second one
\* counts as a cache miss.
Lose ==
    /\ Running
    /\ step' = IF step.attempt = 1 THEN Resent
               ELSE [step EXCEPT !.phase = "missed", !.at = <<>>]
    /\ Lost
    /\ UNCHANGED <<stages, home, late, orphans, faulty>>

\* The worker restarts, or evicts the session: its cache is gone.
Forget(w) ==
    /\ stages[w] # Empty
    /\ stages' = [stages EXCEPT ![w] = Empty]
    /\ Lost
    /\ UNCHANGED <<home, late, orphans, step, faulty>>

\* The relay drops the bound replica, or the binding, between two steps.
Move(w) ==
    /\ home[RoleOf[w]] # w
    /\ home' = [home EXCEPT ![RoleOf[w]] = w]
    /\ Lost
    /\ UNCHANGED <<stages, late, orphans, step, faulty>>

PipeStep ==
    \/ \E w \in Workers :
         Run(w) \/ Stall(w) \/ RunLate(w) \/ RunOrphan(w) \/ Forget(w) \/ Move(w)
    \/ Lose
    \/ Repeat

\* _close: the session is closed where it lives, as far as the calls get through.
Closing ==
    \E heard \in SUBSET (1 .. Depth) :
        stages' = [w \in Workers |->
                     IF RoleOf[w] \in heard /\ home[RoleOf[w]] = w
                     THEN Without(stages[w], {Session}) ELSE stages[w]]

=============================================================================
