----------------------------- MODULE Speculative -----------------------------
(***************************************************************************)
(* Speculative decoding: SpeculativeGenerator.generate and _DraftModel of  *)
(* src/distllm/hf.py over a Pipeline.  Each round a draft model proposes   *)
(* tokens, the pipeline runs what is pending and the proposal in one step, *)
(* and the longest agreeing prefix is kept with one token more.  A token   *)
(* is TRUE if it is the one the target model chooses at its position.      *)
(***************************************************************************)
EXTENDS Pipeline

CONSTANTS
    PromptLength,
    MaxNewTokens,
    K,                  \* k: tokens of a proposal
    MaxRecoveries       \* max_recoveries_per_step

ASSUME SpeculativeAssumption ==
    /\ {PromptLength, MaxNewTokens, K} \subseteq Nat \ {0}
    /\ MaxRecoveries \in Nat

VARIABLES
    gen,        \* the local state of generate
    draft       \* the tokens the draft model's cache was fed

vars == <<stages, home, late, orphans, step, losses, faulty, gen, draft>>

Gen ==
    [phase : {"proposing", "verifying", "waiting", "closing", "done"},
     outcome : {"none", "tokens", "task_failed", "recovery_failed"},
     sequence : Bits, proposal : Bits, cached : Nat, replays : Nat]

Prompted ==
    [phase |-> "proposing", outcome |-> "none",
     sequence |-> [i \in 1 .. PromptLength |-> TRUE],
     proposal |-> <<>>, cached |-> 0, replays |-> 0]

New == Len(gen.sequence) - PromptLength

TypeOK ==
    /\ PipeTypeOK
    /\ gen \in Gen
    /\ draft \in Bits
    /\ gen.phase = "proposing" => gen.cached < Len(gen.sequence)
    /\ New <= MaxNewTokens
    /\ Len(gen.proposal) <= K
    /\ gen.replays <= MaxRecoveries

Init ==
    /\ PipeInit
    /\ gen = Prompted
    /\ draft = <<>>

MinOf(a, b) == IF a < b THEN a ELSE b

\* The part of the draft cache propose goes on from: all of it but for one token.
Reused == SubSeq(draft, 1, MinOf(Len(draft), Len(gen.sequence) - 1))

\* propose: k tokens, all but the last of which are fed to the cache.
Propose ==
    /\ gen.phase = "proposing"
    /\ LET k == MinOf(K, MaxNewTokens - New)
       IN  \E proposal \in [1 .. k -> BOOLEAN] :
             /\ gen' = [gen EXCEPT !.phase = "verifying", !.proposal = proposal]
             /\ draft' = Reused
                    \o SubSeq(gen.sequence, Len(Reused) + 1, Len(gen.sequence))
                    \o SubSeq(proposal, 1, k - 1)
    /\ UNCHANGED pipeVars

Full == gen.sequence \o gen.proposal

\* _verify: what the stages do not hold yet and the proposal, with rewind.
Verify ==
    /\ gen.phase = "verifying"
    /\ step' = Begun(gen.cached, SubSeq(Full, gen.cached + 1, Len(Full)), TRUE)
    /\ gen' = [gen EXCEPT !.phase = "waiting"]
    /\ UNCHANGED <<stages, home, late, orphans, losses, draft, faulty>>

GaveUp(outcome) == [gen EXCEPT !.phase = "closing", !.outcome = outcome]

\* Mutant: replays are not counted.
CountedNever == gen.replays

Counted == gen.replays + 1

\* A cache miss: sequence and proposal are run from the start.
Recover ==
    /\ step.phase = "missed"
    /\ IF gen.replays < MaxRecoveries
       THEN /\ step' = Begun(0, Full, TRUE)
            /\ gen' = [gen EXCEPT !.replays = Counted]
       ELSE /\ step' = NoStep
            /\ gen' = GaveUp("recovery_failed")
    /\ UNCHANGED <<stages, home, late, orphans, losses, draft, faulty>>

TaskFailed ==
    /\ step.phase = "failed"
    /\ step' = NoStep
    /\ gen' = GaveUp("task_failed")
    /\ UNCHANGED <<stages, home, late, orphans, losses, draft, faulty>>

\* The target's tokens after each prefix, from the last token of the sequence on.
Predictions == SubSeq(step.at, Len(step.at) - Len(gen.proposal), Len(step.at))

\* Mutant: one proposed token more is taken.
AgreesShort(accepted, predictions) ==
    \A i \in 1 .. accepted - 1 : gen.proposal[i] = predictions[i]

\* The number of proposed tokens that agree with the target's: two wrong tokens
\* may be the same or not.
Agrees(accepted, predictions) ==
    /\ \A i \in 1 .. accepted : gen.proposal[i] = predictions[i]
    /\ accepted < Len(gen.proposal) =>
           ~(gen.proposal[accepted + 1] /\ predictions[accepted + 1])

\* Mutant: what was run is what is kept.
CachedAll(old, accepted) == old + Len(gen.proposal) - 1

\* The stages hold what was pending and the proposal; this much of it is valid.
ValidLength(old, accepted) == old + accepted

\* Mutant: the draft cache is not cropped.
AcceptedAll(valid) == draft

\* _DraftModel.accept: rejected tokens leave the draft cache.
Accepted(valid) == SubSeq(draft, 1, MinOf(Len(draft), valid))

\* The tokens of the round that are emitted: as many as are wanted, or up to a
\* token that ends the text.
EndRound ==
    /\ step.phase = "answered"
    /\ \E accepted \in 0 .. Len(gen.proposal) :
         /\ Agrees(accepted, Predictions)
         /\ LET round == Append(SubSeq(gen.proposal, 1, accepted), Predictions[accepted + 1])
                most == MinOf(Len(round), MaxNewTokens - New)
                old == Len(gen.sequence)
            IN  \E emitted \in 1 .. most, eos \in BOOLEAN :
                  /\ emitted < most => eos
                  /\ gen' = [gen EXCEPT
                        !.phase = IF eos \/ New + emitted = MaxNewTokens
                                  THEN "closing" ELSE "proposing",
                        !.outcome = "tokens",
                        !.sequence = @ \o SubSeq(round, 1, emitted),
                        !.cached = ValidLength(old, accepted),
                        !.proposal = <<>>,
                        !.replays = 0]
                  /\ draft' = Accepted(ValidLength(old, accepted))
    /\ step' = NoStep
    /\ UNCHANGED <<stages, home, late, orphans, losses, faulty>>

Close ==
    /\ gen.phase = "closing"
    /\ gen' = [gen EXCEPT !.phase = "done"]
    /\ Closing
    /\ UNCHANGED <<home, late, orphans, step, losses, draft, faulty>>

Client == Propose \/ Verify \/ Recover \/ TaskFailed \/ EndRound \/ Close

Next == Client \/ (gen.phase # "done" /\ PipeStep /\ UNCHANGED <<gen, draft>>)

Spec == Init /\ [][Next]_vars
-----------------------------------------------------------------------------
(* Safety *)

\* The output is what greedy decoding with the target model produces, whatever
\* the draft proposes (SpeculativeGenerator's docstring).
OutputIsGreedy == \A i \in DOMAIN gen.sequence : gen.sequence[i]

\* Between rounds the draft cache holds a part of the sequence and never all of
\* it: accept drops what was rejected, and propose has a token to feed ("the
\* caller always appends at least one token").
DraftFollows == gen.phase = "proposing" => IsStrictPrefix(draft, gen.sequence)
-----------------------------------------------------------------------------
(* Liveness *)

Fairness ==
    /\ WF_vars(Client)
    /\ \A w \in Workers : WF_vars(gen.phase # "done" /\ RunLate(w) /\ UNCHANGED <<gen, draft>>)
    /\ SF_vars(\E w \in Workers : Run(w) /\ UNCHANGED <<gen, draft>>)

FairSpec == Spec /\ Fairness

\* However often tasks and caches are lost, a generation ends.
GenerationEnds == <>(gen.phase = "done")
=============================================================================
