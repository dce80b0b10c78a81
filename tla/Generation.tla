----------------------------- MODULE Generation -----------------------------
(***************************************************************************)
(* Generation token by token: PipelineGenerator.generate of                *)
(* src/distllm/hf.py over a Pipeline that loses tasks, caches and          *)
(* replicas.  A token of the sequence is TRUE if it is the one the full    *)
(* model chooses after the tokens before it (StageOps: sound).             *)
(***************************************************************************)
EXTENDS Pipeline

CONSTANTS
    PromptLength,
    MaxNewTokens,
    MaxRecoveries       \* max_recoveries_per_step

ASSUME GenerationAssumption ==
    {PromptLength, MaxNewTokens} \subseteq Nat \ {0} /\ MaxRecoveries \in Nat

VARIABLE gen

vars == <<stages, home, late, orphans, step, losses, faulty, gen>>

\* cached: tokens the stages are taken to hold; replays: of the current token;
\* audited: every token is checked (AuditConfig.rate is 1).
Gen ==
    [phase : {"sending", "waiting", "closing", "done"},
     outcome : {"none", "tokens", "task_failed", "recovery_failed", "audit_failed",
               "unverified"},
     audited : BOOLEAN, checked : BOOLEAN, suspects : SUBSET (1 .. Depth),
     useCache : BOOLEAN,
     sequence : Bits, cached : Nat, replays : Nat]

TypeOK ==
    /\ PipeTypeOK
    /\ gen \in Gen
    /\ gen.cached <= Len(gen.sequence)
    /\ Len(gen.sequence) <= PromptLength + MaxNewTokens
    /\ gen.replays <= MaxRecoveries
    /\ gen.phase = "waiting" <=> step.phase # "idle"

Init ==
    /\ PipeInit
    /\ gen \in [phase : {"sending"}, outcome : {"none"},
                audited : {faulty # {}}, checked : {FALSE}, suspects : {{}},
                useCache : BOOLEAN,
                sequence : {[i \in 1 .. PromptLength |-> TRUE]},
                cached : {0}, replays : {0}]

Send ==
    /\ gen.phase = "sending"
    /\ LET start == IF gen.useCache THEN gen.cached ELSE 0
       IN  step' = Begun(start, SubSeq(gen.sequence, start + 1, Len(gen.sequence)), FALSE)
    /\ gen' = [gen EXCEPT !.phase = "waiting"]
    /\ UNCHANGED <<stages, home, late, orphans, losses, faulty>>

\* Mutant: only what is new is sent again.
ReplayedFromCache == Begun(gen.cached, SubSeq(gen.sequence, gen.cached + 1, Len(gen.sequence)), FALSE)

\* The whole prefix is run again, to rebuild every stage.
Replayed == Begun(0, gen.sequence, FALSE)

\* Mutant: replays are not counted.
CountedNever == gen.replays

Counted == gen.replays + 1

\* Mutant: one replay too many.
MayReplayOnceMore == gen.useCache /\ gen.replays <= MaxRecoveries

MayReplay == gen.useCache /\ gen.replays < MaxRecoveries

GaveUp(outcome) == [gen EXCEPT !.phase = "closing", !.outcome = outcome]

\* The step was a cache miss for a stage, or was lost twice.
Recover ==
    /\ step.phase = "missed"
    /\ IF MayReplay
       THEN /\ step' = Replayed
            /\ gen' = [gen EXCEPT !.replays = Counted]
       ELSE /\ step' = NoStep
            /\ gen' = GaveUp("recovery_failed")
    /\ UNCHANGED <<stages, home, late, orphans, losses, faulty>>

\* A worker reported an error.
TaskFailed ==
    /\ step.phase = "failed"
    /\ step' = NoStep
    /\ gen' = GaveUp("task_failed")
    /\ UNCHANGED <<stages, home, late, orphans, losses, faulty>>

\* Mutant: the stages are compared with the answer that was checked.
SuspectsByAnswer(tried) == {r \in 1 .. Depth : tried[r] \notin faulty}

\* The stages that give another result than the auditors when they replace one
\* of them, if the fresh session of the trial is bound to the replicas `tried`.
Suspects(tried) == {r \in 1 .. Depth : tried[r] \in faulty}

Tries == {t \in [1 .. Depth -> Workers] : \A r \in 1 .. Depth : RoleOf[t[r]] = r}

\* Mutant: the tokens that were cached are not audited.
CheckDueAtFirst == gen.audited /\ ~gen.checked /\ gen.cached = 0

\* An audit comes before the token.
CheckDue == gen.audited /\ ~gen.checked

\* _check: auditors run the sequence from scratch.  Their logits are right; when
\* those of the pipeline are not, one stage after the other is tried.
Check ==
    /\ step.phase = "answered"
    /\ CheckDue
    /\ IF Last(step.at)
       THEN gen' = [gen EXCEPT !.checked = TRUE] /\ UNCHANGED step
       ELSE /\ \E tried \in Tries :
                  gen' = [GaveUp("unverified") EXCEPT !.suspects = Suspects(tried)]
            /\ step' = NoStep
    /\ UNCHANGED <<stages, home, late, orphans, losses, faulty>>

\* A call of a fresh session fails: nothing is tried again.
CheckFails ==
    /\ step.phase = "answered"
    /\ CheckDue
    /\ step' = NoStep
    /\ gen' = GaveUp("audit_failed")
    /\ UNCHANGED <<stages, home, late, orphans, losses, faulty>>

\* The logits of the last position give the next token.
Emit ==
    /\ step.phase = "answered"
    /\ ~CheckDue
    /\ LET longer == Append(gen.sequence, Last(step.at))
       IN  \E eos \in BOOLEAN :
             gen' = [gen EXCEPT
                       !.phase = IF eos \/ Len(longer) = PromptLength + MaxNewTokens
                                 THEN "closing" ELSE "sending",
                       !.outcome = IF @ = "none" THEN "tokens" ELSE @,
                       !.sequence = longer,
                       !.cached = Len(gen.sequence),
                       !.checked = FALSE,
                       !.replays = 0]
    /\ step' = NoStep
    /\ UNCHANGED <<stages, home, late, orphans, losses, faulty>>

Close ==
    /\ gen.phase = "closing"
    /\ gen' = [gen EXCEPT !.phase = "done"]
    /\ Closing
    /\ UNCHANGED <<home, late, orphans, step, losses, faulty>>

Client == Send \/ Recover \/ TaskFailed \/ Check \/ CheckFails \/ Emit \/ Close

\* The pipeline is at work for the generation until that closes its session.
Working == gen.phase \in {"sending", "waiting"}

Next == Client \/ (Working /\ PipeStep /\ UNCHANGED gen)

Spec == Init /\ [][Next]_vars
-----------------------------------------------------------------------------
(* Safety *)

\* The output is that of the full model: repeated, late and lost steps, lost
\* caches and moved sessions never change a token (README.md, architecture.md).
OutputIsGreedy == \A i \in DOMAIN gen.sequence : gen.sequence[i]

\* A lost cache costs one replay: each further replay of a token, and so the
\* error that ends a generation, takes two more lost tasks.
ReplaysNeedLosses ==
    LET replays == gen.replays + IF gen.outcome = "recovery_failed" THEN 1 ELSE 0
        needed == IF gen.useCache THEN 2 * replays - 1 ELSE 2
    IN  replays > 0 => losses >= IF needed < MaxLosses THEN needed ELSE MaxLosses

\* Only a stage with a replica that computes something else is suspected.
NobodyFramed == gen.suspects \subseteq {RoleOf[w] : w \in faulty}

\* The errors that end a generation are due to what happened, not to replays
\* that were sent too often or to a comparison with the wrong answer.
ErrorsHaveCauses == ReplaysNeedLosses /\ NobodyFramed
-----------------------------------------------------------------------------
(* Liveness *)

\* The client goes on; late replicas run what they have, as long as there are
\* any; a step that is asked for again and again gets to a replica that runs it.
\* (The premises are what enables RunLate and Run.)
Fairness ==
    /\ WF_vars(Client)
    /\ <>[](Working /\ \E w \in Workers : late[w] # Idle)
         => []<><<\E w \in Workers : RunLate(w)>>_vars
    /\ []<>(Running /\ late[home[step.hop]] = Idle)
         => []<><<\E w \in Workers : Run(w)>>_vars

FairSpec == Spec /\ Fairness

\* However often tasks, caches and replicas are lost, a generation ends, with
\* its tokens or with an error.
GenerationEnds == <>(gen.phase = "done")
=============================================================================
