-------------------------- MODULE GenerationProofs --------------------------
(***************************************************************************)
(* Theorems about PipelineGenerator.generate for every pipeline, prompt    *)
(* and number of losses: its output is that of the full model, and the     *)
(* errors that end it have their causes.                                   *)
(***************************************************************************)
EXTENDS Generation, PipelineProofs

USE StageAssumption, PipelineAssumption, GenerationAssumption

-----------------------------------------------------------------------------
(* Types *)

Gens ==
    [phase : {"sending", "waiting", "closing", "done"},
     outcome : {"none", "tokens", "task_failed", "recovery_failed", "audit_failed",
                "unverified"},
     audited : BOOLEAN, checked : BOOLEAN, suspects : SUBSET (1 .. Depth),
     useCache : BOOLEAN,
     sequence : Seq(BOOLEAN), cached : Nat, replays : Nat]

\* There is room for one more token while the generation goes on.
GenTyped ==
    /\ gen \in Gens
    /\ gen.cached <= Len(gen.sequence)
    /\ Len(gen.sequence) <= PromptLength + MaxNewTokens
    /\ gen.phase \in {"sending", "waiting"} =>
          Len(gen.sequence) < PromptLength + MaxNewTokens
    /\ gen.replays <= MaxRecoveries
    /\ gen.phase = "waiting" <=> step.phase # "idle"

TypeInv == Pipe(BOOLEAN) /\ GenTyped

LEMMA TypeInvIsTypeOK == TypeInv => TypeOK
BY PipeIsTyped DEF TypeInv, GenTyped, TypeOK, Gens, Gen, Bits

LEMMA TypeInit == Init => TypeInv
<1> SUFFICES ASSUME Init PROVE TypeInv
  OBVIOUS
<1>1. Pipe(BOOLEAN)
  BY PipeInitial DEF Init
<1>2. step.phase = "idle"
  BY DEF Init, PipeInit, NoStep
<1> DEFINE prompt == [i \in 1 .. PromptLength |-> TRUE]
<1>3. prompt \in Seq(BOOLEAN) /\ Len(prompt) = PromptLength
  <2>1. prompt \in [1 .. PromptLength -> BOOLEAN]
    OBVIOUS
  <2> HIDE DEF prompt
  <2>2. \A q \in [1 .. PromptLength -> BOOLEAN] : q \in Seq(BOOLEAN) /\ Len(q) = PromptLength
    OBVIOUS
  <2> QED BY <2>1, <2>2
<1>4. gen \in [phase : {"sending"}, outcome : {"none"},
               audited : {faulty # {}}, checked : {FALSE}, suspects : {{}}, useCache : BOOLEAN,
               sequence : {prompt}, cached : {0}, replays : {0}]
  BY DEF Init
<1> HIDE DEF prompt
<1>5. (faulty # {}) \in BOOLEAN
  BY Zenon
<1>6. gen \in Gens
  <2> DEFINE audited == faulty # {}
  <2>1. audited \in BOOLEAN
    BY <1>5
  <2> HIDE DEF audited
  <2>2. /\ {audited} \subseteq BOOLEAN /\ {FALSE} \subseteq BOOLEAN
        /\ {prompt} \subseteq Seq(BOOLEAN) /\ {{}} \subseteq SUBSET (1 .. Depth)
    BY <1>3, <2>1
  <2>3. gen \in [phase : {"sending"}, outcome : {"none"},
                 audited : {audited}, checked : {FALSE}, suspects : {{}}, useCache : BOOLEAN,
                 sequence : {prompt}, cached : {0}, replays : {0}]
    BY <1>4 DEF audited
  <2>4. /\ gen = [phase |-> gen.phase, outcome |-> gen.outcome, audited |-> gen.audited,
                  checked |-> gen.checked, suspects |-> gen.suspects,
                  useCache |-> gen.useCache, sequence |-> gen.sequence,
                  cached |-> gen.cached, replays |-> gen.replays]
        /\ gen.phase = "sending" /\ gen.outcome = "none" /\ gen.audited \in {audited}
        /\ gen.checked \in {FALSE} /\ gen.suspects \in {{}} /\ gen.useCache \in BOOLEAN
        /\ gen.sequence \in {prompt} /\ gen.cached = 0 /\ gen.replays = 0
    BY <2>3, Zenon
  <2>5. /\ gen.phase = "sending" /\ gen.outcome = "none" /\ gen.audited \in BOOLEAN
        /\ gen.checked \in BOOLEAN /\ gen.suspects \in SUBSET (1 .. Depth)
        /\ gen.useCache \in BOOLEAN
        /\ gen.sequence \in Seq(BOOLEAN) /\ gen.cached \in Nat /\ gen.replays \in Nat
    <3>1. 0 \in Nat
      OBVIOUS
    <3> QED BY <2>2, <2>4, <3>1, Zenon
  <2> QED BY <2>4, <2>5 DEF Gens
<1> QED BY <1>1, <1>2, <1>3, <1>4, <1>6 DEF TypeInv, GenTyped

\* The client begins or ends a step and leaves the pipeline alone.
Quiet == UNCHANGED <<stages, home, late, orphans, losses, faulty>>

\* The step that Send begins.
Sent ==
    LET start == IF gen.useCache THEN gen.cached ELSE 0
    IN  Begun(start, SubSeq(gen.sequence, start + 1, Len(gen.sequence)), FALSE)

LEMMA SentStep ==
    ASSUME NEW B, Allowed(B), GenTyped, gen.sequence \in Seq(B)
    PROVE  Sent \in Steps(B) /\ Sent.phase = "running" /\ Sent.at = Sent.new
<1> DEFINE start == IF gen.useCache THEN gen.cached ELSE 0
           q == gen.sequence
<1>1. start \in Nat /\ start <= Len(q) /\ Len(q) \in Nat
  BY DEF GenTyped, Gens
<1>2. Sent = Begun(start, SubSeq(q, start + 1, Len(q)), FALSE)
  BY DEF Sent
<1> HIDE DEF start, q
<1>3. SubSeq(q, start + 1, Len(q)) \in Seq(B)
  BY <1>1 DEF q
<1> QED BY <1>1, <1>2, <1>3, BegunStep DEF Begun

LEMMA ReplayedStep ==
    ASSUME NEW B, gen.sequence \in Seq(B)
    PROVE  Replayed \in Steps(B) /\ Replayed.phase = "running" /\ Replayed.at = Replayed.new
BY BegunStep DEF Replayed, Begun

\* What the client's actions do to the generation.
LEMMA ClientCases ==
    ASSUME Client
    PROVE  \/ gen.phase = "sending" /\ step' = Sent /\ Quiet
              /\ gen' = [gen EXCEPT !.phase = "waiting"]
           \/ step.phase = "missed" /\ MayReplay /\ step' = Replayed /\ Quiet
              /\ gen' = [gen EXCEPT !.replays = Counted]
           \/ step.phase = "missed" /\ ~MayReplay /\ step' = NoStep /\ Quiet
              /\ gen' = GaveUp("recovery_failed")
           \/ step.phase = "failed" /\ step' = NoStep /\ Quiet
              /\ gen' = GaveUp("task_failed")
           \/ step.phase = "answered" /\ CheckDue /\ Last(step.at) /\ step' = step /\ Quiet
              /\ gen' = [gen EXCEPT !.checked = TRUE]
           \/ step.phase = "answered" /\ CheckDue /\ step' = NoStep /\ Quiet
              /\ \E tried \in Tries :
                    gen' = [GaveUp("unverified") EXCEPT !.suspects = Suspects(tried)]
           \/ step.phase = "answered" /\ CheckDue /\ step' = NoStep /\ Quiet
              /\ gen' = GaveUp("audit_failed")
           \/ Emit
           \/ Close
BY DEF Client, Send, Recover, TaskFailed, Check, CheckFails, Sent, Quiet
\* The logits of the last position give the token that is emitted.
Longer == Append(gen.sequence, Last(step.at))

LEMMA EmitEffect ==
    ASSUME Emit, GenTyped
    PROVE  /\ step.phase = "answered" /\ ~CheckDue /\ step' = NoStep /\ Quiet
           /\ gen.phase = "waiting"
           /\ \E phase \in {"closing", "sending"}, outcome \in {"tokens", gen.outcome} :
                 /\ gen' = [gen EXCEPT !.phase = phase, !.outcome = outcome,
                                      !.sequence = Longer, !.cached = Len(gen.sequence),
                                      !.checked = FALSE, !.replays = 0]
                 /\ phase = "sending" => Len(Longer) # PromptLength + MaxNewTokens
<1>1. /\ step.phase = "answered" /\ ~CheckDue /\ step' = NoStep /\ Quiet
      /\ gen.phase = "waiting"
  BY DEF Emit, Quiet, GenTyped
<1>2. PICK eos \in BOOLEAN :
        gen' = [gen EXCEPT
                  !.phase = IF eos \/ Len(Longer) = PromptLength + MaxNewTokens
                            THEN "closing" ELSE "sending",
                  !.outcome = IF @ = "none" THEN "tokens" ELSE @,
                  !.sequence = Longer,
                  !.cached = Len(gen.sequence),
                  !.checked = FALSE,
                  !.replays = 0]
  BY DEF Emit, Longer
<1> DEFINE phase == IF eos \/ Len(Longer) = PromptLength + MaxNewTokens
                    THEN "closing" ELSE "sending"
           outcome == IF gen.outcome = "none" THEN "tokens" ELSE gen.outcome
<1>3. phase \in {"closing", "sending"} /\ outcome \in {"tokens", gen.outcome}
      /\ (phase = "sending" => Len(Longer) # PromptLength + MaxNewTokens)
  OBVIOUS
<1>4. gen' = [gen EXCEPT !.phase = phase, !.outcome = outcome,
                         !.sequence = Longer, !.cached = Len(gen.sequence),
                         !.checked = FALSE, !.replays = 0]
  BY <1>2
<1> HIDE DEF phase, outcome
<1> QED BY <1>1, <1>3, <1>4

\* One more token is within the bound.
LEMMA LongerSequence ==
    ASSUME NEW B, gen.sequence \in Seq(B), Last(step.at) \in B
    PROVE  Longer \in Seq(B) /\ Len(Longer) = Len(gen.sequence) + 1
BY DEF Longer

\* A generation that gives up goes on to close its session.
LEMMA GaveUpTyped ==
    ASSUME gen \in Gens,
           NEW outcome \in {"task_failed", "recovery_failed", "audit_failed", "unverified"}
    PROVE  GaveUp(outcome) \in Gens
BY DEF GaveUp, Gens

LEMMA ClientTyped ==
    ASSUME TypeInv, Client
    PROVE  TypeInv'
<1>1. /\ Pipe(BOOLEAN) /\ GenTyped /\ gen \in Gens
      /\ gen.sequence \in Seq(BOOLEAN) /\ Allowed(BOOLEAN)
  BY AnyBits DEF TypeInv, GenTyped, Gens
<1>2. NoStep \in Steps(BOOLEAN) /\ NoStep.phase = "idle"
  BY NoStepTyped DEF NoStep
<1>3. CASE gen.phase = "sending" /\ step' = Sent /\ Quiet
           /\ gen' = [gen EXCEPT !.phase = "waiting"]
  <2>1. Sent \in Steps(BOOLEAN) /\ Sent.phase = "running"
    BY <1>1, SentStep
  <2>2. Pipe(BOOLEAN)'
    BY <1>1, <1>3, <2>1, PipeStepChanged DEF Quiet
  <2>3. GenTyped'
    BY <1>1, <1>3, <2>1 DEF GenTyped, Gens
  <2> QED BY <2>2, <2>3 DEF TypeInv
<1>4. CASE step.phase = "missed" /\ MayReplay /\ step' = Replayed /\ Quiet
           /\ gen' = [gen EXCEPT !.replays = Counted]
  <2>1. Replayed \in Steps(BOOLEAN) /\ Replayed.phase = "running"
    BY <1>1, ReplayedStep
  <2>2. Pipe(BOOLEAN)'
    BY <1>1, <1>4, <2>1, PipeStepChanged DEF Quiet
  <2>3. gen.phase = "waiting" /\ gen.replays \in Nat /\ gen.replays < MaxRecoveries
    BY <1>1, <1>4 DEF GenTyped, Gens, MayReplay
  <2>4. gen' \in Gens /\ gen'.replays <= MaxRecoveries
        /\ gen'.phase = gen.phase /\ gen'.sequence = gen.sequence /\ gen'.cached = gen.cached
    <3>1. gen.replays + 1 \in Nat /\ gen.replays + 1 <= MaxRecoveries
      BY <2>3
    <3> QED BY <1>1, <1>4, <3>1 DEF Gens, Counted
  <2>5. step'.phase = "running"
    BY <1>4, <2>1
  <2> HIDE DEF Gens
  <2>6. GenTyped'
    BY <1>1, <2>3, <2>4, <2>5 DEF GenTyped
  <2> QED BY <2>2, <2>6 DEF TypeInv
<1>5. ASSUME NEW outcome \in {"task_failed", "recovery_failed", "audit_failed", "unverified"},
             NEW suspects \in SUBSET (1 .. Depth), step.phase # "idle",
             step' = NoStep, Quiet,
             gen' = [GaveUp(outcome) EXCEPT !.suspects = suspects]
      PROVE  TypeInv'
  <2>1. Pipe(BOOLEAN)'
    BY <1>1, <1>2, <1>5, PipeStepChanged DEF Quiet
  <2>2. gen' = [gen EXCEPT !.phase = "closing", !.outcome = outcome, !.suspects = suspects]
    BY <1>1, <1>5 DEF GaveUp, Gens
  <2>3. gen \in Gens
    BY <1>1 DEF GenTyped
  <2>4. /\ gen' \in Gens /\ gen'.phase = "closing"
        /\ gen'.cached = gen.cached /\ gen'.sequence = gen.sequence
        /\ gen'.replays = gen.replays
    BY <2>2, <2>3 DEF Gens
  <2>5. step'.phase = "idle"
    BY <1>2, <1>5
  <2> HIDE DEF Gens
  <2>6. GenTyped'
    BY <1>1, <2>4, <2>5 DEF GenTyped
  <2> QED BY <2>1, <2>6 DEF TypeInv
<1>6. ASSUME NEW outcome \in {"task_failed", "recovery_failed", "audit_failed", "unverified"},
             step.phase # "idle", step' = NoStep, Quiet, gen' = GaveUp(outcome)
      PROVE  TypeInv'
  <2>1. GaveUp(outcome) = [GaveUp(outcome) EXCEPT !.suspects = gen.suspects]
    BY <1>1 DEF GaveUp, Gens
  <2>2. gen.suspects \in SUBSET (1 .. Depth)
    BY <1>1 DEF Gens
  <2> QED BY <1>5, <1>6, <2>1, <2>2
<1>7. CASE step.phase = "answered" /\ step' = step /\ Quiet
           /\ gen' = [gen EXCEPT !.checked = TRUE]
  <2>1. Pipe(BOOLEAN)'
    BY <1>1, <1>7 DEF Quiet, Pipe
  <2>2. GenTyped'
    BY <1>1, <1>7 DEF GenTyped, Gens
  <2> QED BY <2>1, <2>2 DEF TypeInv
<1>8. CASE step.phase = "answered" /\ step' = NoStep /\ Quiet
           /\ \E tried \in Tries :
                 gen' = [GaveUp("unverified") EXCEPT !.suspects = Suspects(tried)]
  <2>1. PICK tried \in Tries : gen' = [GaveUp("unverified") EXCEPT !.suspects = Suspects(tried)]
    BY <1>8
  <2>2. Suspects(tried) \in SUBSET (1 .. Depth)
    BY DEF Suspects
  <2> QED BY <1>5, <1>8, <2>1, <2>2
<1>9. CASE Emit
  <2>1. PICK phase \in {"closing", "sending"}, outcome \in {"tokens", gen.outcome} :
          /\ gen' = [gen EXCEPT !.phase = phase, !.outcome = outcome,
                               !.sequence = Longer, !.cached = Len(gen.sequence),
                               !.checked = FALSE, !.replays = 0]
          /\ phase = "sending" => Len(Longer) # PromptLength + MaxNewTokens
    BY <1>1, <1>9, EmitEffect
  <2>2. step.phase = "answered" /\ step' = NoStep /\ Quiet /\ gen.phase = "waiting"
    BY <1>1, <1>9, EmitEffect
  <2>3. Pipe(BOOLEAN)'
    BY <1>1, <1>2, <2>2, PipeStepChanged DEF Quiet
  <2>4. Last(step.at) \in BOOLEAN
    BY <1>1, <2>2 DEF Pipe, Steps, Last
  <2>5. Longer \in Seq(BOOLEAN) /\ Len(Longer) = Len(gen.sequence) + 1
    BY <1>1, <2>4, LongerSequence
  <2>6. /\ gen' \in Gens /\ gen'.phase = phase /\ gen'.replays = 0
        /\ gen'.sequence = Longer /\ gen'.cached = Len(gen.sequence)
    <3>1. Len(gen.sequence) \in Nat
      BY <1>1
    <3> HIDE DEF Longer
    <3> QED BY <1>1, <2>1, <2>5, <3>1 DEF Gens
  <2>7. gen'.cached <= Len(gen'.sequence)
        /\ Len(gen'.sequence) <= PromptLength + MaxNewTokens
        /\ (gen'.phase \in {"sending", "waiting"} =>
              Len(gen'.sequence) < PromptLength + MaxNewTokens)
    <3> DEFINE n == Len(gen.sequence)
               m == Len(Longer)
               max == PromptLength + MaxNewTokens
    <3>1. n \in Nat /\ max \in Nat /\ n < max /\ m = n + 1
      BY <1>1, <2>2, <2>5 DEF GenTyped
    <3>2. phase \in {"sending", "waiting"} => m # max
      BY <2>1
    <3> HIDE DEF n, m, max
    <3>3. n <= m /\ m <= max /\ (phase \in {"sending", "waiting"} => m < max)
      BY <3>1, <3>2
    <3> QED BY <2>6, <3>3, Zenon DEF n, m, max
  <2>8. gen'.replays <= MaxRecoveries /\ (gen'.phase = "waiting" <=> step'.phase # "idle")
    BY <1>2, <2>1, <2>2, <2>6
  <2> QED BY <2>3, <2>6, <2>7, <2>8, Zenon DEF GenTyped, TypeInv
<1>10. CASE Close
  <2>1. Pipe(BOOLEAN)'
    BY <1>1, <1>10, PipeClosing DEF Close
  <2>2. GenTyped'
    <3>1. gen' = [gen EXCEPT !.phase = "done"] /\ gen.phase = "closing" /\ step' = step
      BY <1>10 DEF Close
    <3>2. gen' \in Gens /\ gen'.phase = "done" /\ gen'.replays = gen.replays
          /\ gen'.sequence = gen.sequence /\ gen'.cached = gen.cached
      BY <1>1, <3>1 DEF Gens
    <3> QED BY <1>1, <3>1, <3>2 DEF GenTyped
  <2> QED BY <2>1, <2>2 DEF TypeInv
<1> QED
  BY <1>3, <1>4, <1>6, <1>7, <1>8, <1>9, <1>10, ClientCases

LEMMA TypeStep == TypeInv /\ [Next]_vars => TypeInv'
<1> SUFFICES ASSUME TypeInv, [Next]_vars PROVE TypeInv'
  OBVIOUS
<1>1. CASE Client
  BY <1>1, ClientTyped
<1>2. CASE Working /\ PipeStep /\ UNCHANGED gen
  <2>1. Pipe(BOOLEAN)' /\ (step'.phase # "idle" \/ step.phase = "idle")
    BY <1>2, AnyBits, PipeStepKept DEF TypeInv
  <2>2. step.phase # "running" => step' = step
    BY <1>2, PipeStepFrame
  <2>3. step'.phase = "idle" <=> step.phase = "idle"
    BY <2>1, <2>2
  <2> QED BY <1>2, <2>1, <2>3 DEF TypeInv, GenTyped
<1>3. CASE UNCHANGED vars
  BY <1>3 DEF vars, TypeInv, GenTyped, Pipe
<1> QED BY <1>1, <1>2, <1>3 DEF Next

\* Every state of a generation is well-typed: no sequence is longer than asked
\* for, no token is replayed more often than allowed, and the client waits
\* exactly while a step is under way.
THEOREM TypeCorrect == Spec => []TypeOK
BY TypeInit, TypeStep, TypeInvIsTypeOK, PTL DEF Spec
-----------------------------------------------------------------------------
(* The output *)

\* Every token is audited exactly while a worker may be faulty, and only the
\* answer that is at hand counts as checked.
AuditInv ==
    /\ gen.audited <=> faulty # {}
    /\ gen.checked => step.phase = "answered" /\ Last(step.at)

GreedyInv ==
    /\ TypeInv
    /\ faulty = {} => Pipe({TRUE})
    /\ gen.sequence \in Seq({TRUE})
    /\ AuditInv

LEMMA SoundBits == Allowed({TRUE})
BY Zenon DEF Allowed

LEMMA ListsAreSequences ==
    ASSUME NEW B PROVE \A q \in [1 .. PromptLength -> B] : q \in Seq(B)
OBVIOUS

LEMMA LastIsMember ==
    ASSUME NEW B PROVE \A q \in Seq(B) : q # <<>> => q[Len(q)] \in B
OBVIOUS

LEMMA EntriesAreMembers ==
    ASSUME NEW B PROVE \A q \in Seq(B) : \A i \in DOMAIN q : q[i] \in B
OBVIOUS

LEMMA GreedyInit == Init => GreedyInv
<1> SUFFICES ASSUME Init PROVE GreedyInv
  OBVIOUS
<1>1. Pipe({TRUE})
  BY PipeInitial DEF Init
<1> DEFINE prompt == [i \in 1 .. PromptLength |-> TRUE]
<1>2. gen.sequence \in Seq({TRUE})
  <2>1. prompt \in [1 .. PromptLength -> {TRUE}]
    BY Zenon
  <2> HIDE DEF prompt
  <2>2. \A q \in [1 .. PromptLength -> {TRUE}] : q \in Seq({TRUE})
    BY ListsAreSequences, Zenon
  <2>3. gen.sequence \in {prompt}
    BY Zenon DEF Init, prompt
  <2> QED BY <2>1, <2>2, <2>3
<1>3. gen.audited \in {faulty # {}} /\ gen.checked \in {FALSE}
  BY Zenon DEF Init
<1>4. AuditInv
  BY <1>3, Zenon DEF AuditInv
<1> QED BY <1>1, <1>2, <1>4, TypeInit, Zenon DEF GreedyInv

\* The token that is emitted is the full model's: it was checked, or nothing
\* that could be wrong took part in it.
LEMMA EmittedIsGreedy ==
    ASSUME GreedyInv, step.phase = "answered", ~CheckDue
    PROVE  Last(step.at) \in {TRUE}
<1>1. CASE faulty = {}
  <2>1. step.at \in Seq({TRUE}) /\ step.at # <<>>
    BY <1>1 DEF GreedyInv, Pipe, Steps
  <2>2. \A q \in Seq({TRUE}) : q # <<>> => q[Len(q)] \in {TRUE}
    BY LastIsMember, Zenon
  <2> QED BY <2>1, <2>2, Zenon DEF Last
<1>2. CASE faulty # {}
  <2>1. gen.checked
    BY <1>2, Zenon DEF GreedyInv, AuditInv, CheckDue
  <2>2. Last(step.at)
    BY <2>1, Zenon DEF GreedyInv, AuditInv
  <2>3. Last(step.at) \in BOOLEAN
    BY DEF GreedyInv, TypeInv, Pipe, Steps, Last
  <2> QED BY <2>2, <2>3, Zenon
<1> QED BY <1>1, <1>2

LEMMA GreedyClient ==
    ASSUME GreedyInv, Client
    PROVE  GreedyInv'
<1>1. TypeInv /\ TypeInv' /\ GenTyped /\ gen \in Gens /\ gen.sequence \in Seq({TRUE})
  BY ClientTyped DEF GreedyInv, TypeInv, GenTyped
<1>2. NoStep \in Steps({TRUE}) /\ NoStep.phase = "idle"
  BY NoStepTyped DEF NoStep
<1>3. ASSUME Quiet, step' \in Steps({TRUE}), step'.phase # "answered"
      PROVE  faulty' = {} => Pipe({TRUE})'
  <2>1. faulty' = {} => Pipe({TRUE})
    BY <1>3 DEF GreedyInv, Quiet
  <2> QED BY <1>3, <2>1, PipeStepChanged DEF Quiet
<1>4. ASSUME Quiet, step' \in Steps({TRUE}), step'.phase # "answered", step.phase # "answered",
             gen'.sequence = gen.sequence, gen'.audited = gen.audited,
             gen'.checked = gen.checked
      PROVE  GreedyInv'
  <2>1. AuditInv'
    BY <1>4, Zenon DEF GreedyInv, AuditInv, Quiet
  <2> QED BY <1>1, <1>3, <1>4, <2>1 DEF GreedyInv
<1>5. CASE gen.phase = "sending" /\ step' = Sent /\ Quiet
           /\ gen' = [gen EXCEPT !.phase = "waiting"]
  <2>1. Sent \in Steps({TRUE}) /\ Sent.phase = "running"
    BY <1>1, SoundBits, SentStep
  <2>2. step.phase = "idle"
    BY <1>1, <1>5 DEF GenTyped, Pipe, TypeInv, Steps
  <2> QED BY <1>1, <1>4, <1>5, <2>1, <2>2 DEF Gens
<1>6. CASE step.phase = "missed" /\ MayReplay /\ step' = Replayed /\ Quiet
           /\ gen' = [gen EXCEPT !.replays = Counted]
  <2>1. Replayed \in Steps({TRUE}) /\ Replayed.phase = "running"
    BY <1>1, ReplayedStep
  <2> QED BY <1>1, <1>4, <1>6, <2>1 DEF Gens
\* The generation gives up, whatever was checked: no more tokens are emitted.
<1>7. ASSUME step' = NoStep, Quiet, gen'.sequence = gen.sequence,
             gen'.audited = gen.audited, gen'.checked = gen.checked,
             ~gen.checked
      PROVE  GreedyInv'
  <2>1. AuditInv'
    BY <1>7, Zenon DEF GreedyInv, AuditInv, Quiet
  <2> QED BY <1>1, <1>2, <1>3, <1>7, <2>1 DEF GreedyInv
<1>8. ASSUME NEW outcome
      PROVE  /\ GaveUp(outcome).sequence = gen.sequence
             /\ GaveUp(outcome).audited = gen.audited
             /\ GaveUp(outcome).checked = gen.checked
             /\ \A x : /\ [GaveUp(outcome) EXCEPT !.suspects = x].sequence = gen.sequence
                       /\ [GaveUp(outcome) EXCEPT !.suspects = x].audited = gen.audited
                       /\ [GaveUp(outcome) EXCEPT !.suspects = x].checked = gen.checked
  BY <1>1 DEF GaveUp, Gens
<1>9. step.phase \in {"missed", "failed"} => ~gen.checked
  BY Zenon DEF GreedyInv, AuditInv
<1>10. CASE step.phase = "missed" /\ step' = NoStep /\ Quiet
            /\ gen' = GaveUp("recovery_failed")
  BY <1>7, <1>8, <1>9, <1>10, Zenon
<1>11. CASE step.phase = "failed" /\ step' = NoStep /\ Quiet /\ gen' = GaveUp("task_failed")
  BY <1>7, <1>8, <1>9, <1>11, Zenon
<1>12. CASE step.phase = "answered" /\ CheckDue /\ Last(step.at) /\ step' = step /\ Quiet
            /\ gen' = [gen EXCEPT !.checked = TRUE]
  <2>1. gen'.sequence = gen.sequence /\ gen'.audited = gen.audited
    BY <1>1, <1>12 DEF Gens
  <2>2. AuditInv'
    BY <1>12, <2>1, Zenon DEF GreedyInv, AuditInv, Quiet
  <2>3. faulty' = {} => Pipe({TRUE})'
    BY <1>12 DEF GreedyInv, Quiet, Pipe
  <2> QED BY <1>1, <2>1, <2>2, <2>3 DEF GreedyInv
<1>13. CASE step.phase = "answered" /\ CheckDue /\ step' = NoStep /\ Quiet
            /\ \E tried \in Tries :
                  gen' = [GaveUp("unverified") EXCEPT !.suspects = Suspects(tried)]
  <2>1. ~gen.checked
    BY <1>13, Zenon DEF CheckDue
  <2>2. PICK tried \in Tries : gen' = [GaveUp("unverified") EXCEPT !.suspects = Suspects(tried)]
    BY <1>13
  <2>3. gen'.sequence = gen.sequence /\ gen'.audited = gen.audited /\ gen'.checked = gen.checked
    BY <1>8, <2>2, Zenon
  <2> QED BY <1>7, <1>13, <2>1, <2>3, Zenon
<1>14. CASE step.phase = "answered" /\ CheckDue /\ step' = NoStep /\ Quiet
            /\ gen' = GaveUp("audit_failed")
  BY <1>7, <1>8, <1>14, Zenon DEF CheckDue
<1>15. CASE Emit
  <2>1. PICK phase \in {"closing", "sending"}, outcome \in {"tokens", gen.outcome} :
          /\ gen' = [gen EXCEPT !.phase = phase, !.outcome = outcome,
                               !.sequence = Longer, !.cached = Len(gen.sequence),
                               !.checked = FALSE, !.replays = 0]
          /\ phase = "sending" => Len(Longer) # PromptLength + MaxNewTokens
    BY <1>1, <1>15, EmitEffect
  <2>2. step.phase = "answered" /\ ~CheckDue /\ step' = NoStep /\ Quiet
    BY <1>1, <1>15, EmitEffect
  <2>3. Last(step.at) \in {TRUE}
    BY <2>2, EmittedIsGreedy
  <2>4. Longer \in Seq({TRUE})
    BY <1>1, <2>3, LongerSequence
  <2>5. gen'.sequence = Longer /\ gen'.audited = gen.audited /\ gen'.checked = FALSE
    BY <1>1, <2>1 DEF Gens
  <2>6. AuditInv'
    BY <2>2, <2>5, Zenon DEF GreedyInv, AuditInv, Quiet
  <2> QED BY <1>1, <1>2, <1>3, <2>2, <2>4, <2>5, <2>6 DEF GreedyInv
<1>16. CASE Close
  <2>1. gen' = [gen EXCEPT !.phase = "done"] /\ Closing
        /\ UNCHANGED <<home, late, orphans, step, losses, faulty>>
    BY <1>16 DEF Close
  <2>2. gen'.sequence = gen.sequence /\ gen'.audited = gen.audited /\ gen'.checked = gen.checked
    BY <1>1, <2>1 DEF Gens
  <2>3. faulty' = {} => Pipe({TRUE})'
    <3>1. faulty' = {} => Pipe({TRUE})
      BY <2>1 DEF GreedyInv
    <3> QED BY <2>1, <3>1, PipeClosing
  <2>4. AuditInv'
    BY <2>1, <2>2, Zenon DEF GreedyInv, AuditInv
  <2> QED BY <1>1, <2>2, <2>3, <2>4 DEF GreedyInv
<1> QED
  BY <1>5, <1>6, <1>10, <1>11, <1>12, <1>13, <1>14, <1>15, <1>16, ClientCases

LEMMA GreedyStep ==
    ASSUME "output" \notin Failures
    PROVE  GreedyInv /\ [Next]_vars => GreedyInv'
<1> SUFFICES ASSUME GreedyInv, [Next]_vars PROVE GreedyInv'
  OBVIOUS
<1>1. TypeInv'
  BY TypeStep DEF GreedyInv
<1>2. CASE Client
  BY <1>2, GreedyClient
<1>3. CASE PipeStep /\ UNCHANGED gen
  <2>1. faulty' = faulty /\ (step.phase # "running" => step' = step)
    BY <1>3, PipeStepFrame
  <2>2. faulty = {} => Pipe({TRUE})'
    <3>1. faulty = {} => Clean({TRUE}) /\ Pipe({TRUE})
      BY Zenon DEF Clean, GreedyInv
    <3> QED BY <1>3, <3>1, SoundBits, PipeStepKept
  <2>3. AuditInv'
    <3>1. gen.checked => step.phase = "answered" /\ Last(step.at)
      BY Zenon DEF GreedyInv, AuditInv
    <3>2. gen.checked => step' = step
      BY <2>1, <3>1
    <3> QED BY <1>3, <2>1, <3>1, <3>2, Zenon DEF GreedyInv, AuditInv
  <2> QED BY <1>1, <1>3, <2>1, <2>2, <2>3 DEF GreedyInv
<1>4. CASE UNCHANGED vars
  <2>1. AuditInv'
    BY <1>4, Zenon DEF vars, GreedyInv, AuditInv
  <2>2. faulty' = {} => Pipe({TRUE})'
    BY <1>4 DEF vars, GreedyInv, Pipe
  <2> QED BY <1>1, <1>4, <2>1, <2>2 DEF vars, GreedyInv
<1> QED BY <1>2, <1>3, <1>4 DEF Next

\* Unless lm_head fails after the layers extended the cache (which the run
\* generation_output refutes), every token is the full model's, whatever is
\* lost, repeated, run late or moved, and whoever computes something else.
THEOREM OutputIsThatOfTheModel ==
    ASSUME "output" \notin Failures
    PROVE  Spec => []OutputIsGreedy
<1>1. GreedyInv => OutputIsGreedy
  <2>1. \A q \in Seq({TRUE}) : \A i \in DOMAIN q : q[i] \in {TRUE}
    BY EntriesAreMembers, Zenon
  <2> QED BY <2>1, Zenon DEF GreedyInv, OutputIsGreedy
<1> QED BY <1>1, GreedyInit, GreedyStep, PTL DEF Spec

-----------------------------------------------------------------------------
(* Replays and the losses that caused them *)

\* What replay number n, after the first, takes.
Due(n) == IF n = 0 THEN 0 ELSE 2 * n - 1

\* At least n losses happened, as far as they are counted.
Enough(n) == losses >= n \/ losses = MaxLosses

\* The step under way sends what the stages are taken not to hold.
StepInv ==
    /\ gen.phase = "waiting" => step.start + Len(step.new) = Len(gen.sequence)
    /\ Running => Len(step.at) = Len(step.new)
    /\ gen.phase = "waiting" /\ (~gen.useCache \/ gen.replays # 0) => step.start = 0
    /\ gen.phase = "sending" => gen.replays = 0
    /\ ~gen.useCache => gen.replays = 0
    /\ gen.phase \in {"sending", "waiting"} => gen.outcome # "recovery_failed"

LossInv ==
    /\ Enough(Due(gen.replays))
    /\ Running => Enough(Due(gen.replays) + (step.attempt - 1))
    /\ step.phase = "missed" \/ gen.outcome = "recovery_failed" =>
          Enough(IF gen.useCache THEN 2 * gen.replays + 1 ELSE 2)

\* Until something is lost, the stages the session is bound to hold just what
\* they are taken to hold.
Holds(r, n) ==
    n # 0 => Keeps(stages[home[r]], Session) /\ stages[home[r]].length[Session] = n

SyncInv ==
    losses = 0 /\ MaxLosses # 0 =>
        /\ orphans = {}
        /\ \A w \in Workers : late[w] = Idle
        /\ gen.phase = "sending" /\ gen.useCache => \A r \in 1 .. Depth : Holds(r, gen.cached)
        /\ Running => \A r \in 1 .. Depth :
              IF r < step.hop THEN Holds(r, step.start + Len(step.new))
              ELSE Holds(r, step.start)
        /\ step.phase = "answered" =>
              \A r \in 1 .. Depth : Holds(r, step.start + Len(step.new))

CauseInv == TypeInv /\ StepInv /\ LossInv /\ SyncInv /\ NobodyFramed

\* What is enough stays enough, and one more loss counts.
LEMMA EnoughIsKept ==
    ASSUME losses \in 0 .. MaxLosses, NEW n \in Nat, NEW m \in Nat, m <= n, Enough(n)
    PROVE  /\ Enough(m)
           /\ losses' = losses => Enough(m)'
           /\ Lost => Enough(m)' /\ Enough(m + 1)'
BY DEF Enough, Lost

\* Once a loss is counted, nothing is said about the stages.
LEMMA LossEndsSync ==
    ASSUME losses \in 0 .. MaxLosses, Lost
    PROVE  SyncInv'
BY DEF Lost, SyncInv

LEMMA CausesFound == CauseInv => ErrorsHaveCauses
<1> SUFFICES ASSUME CauseInv PROVE ReplaysNeedLosses
  BY DEF ErrorsHaveCauses, CauseInv
<1> DEFINE n == gen.replays
           failed == gen.outcome = "recovery_failed"
<1>1. n \in Nat /\ losses \in 0 .. MaxLosses
  BY DEF CauseInv, TypeInv, GenTyped, Gens, Pipe
<1>2. Enough(Due(n)) /\ (~gen.useCache => n = 0)
  BY DEF CauseInv, LossInv, StepInv
<1>3. failed => Enough(IF gen.useCache THEN 2 * n + 1 ELSE 2)
  BY DEF CauseInv, LossInv
<1> HIDE DEF n, failed
<1>4. CASE failed
  <2>1. CASE gen.useCache
    <3>1. Enough(2 * n + 1)
      BY <1>3, <1>4, <2>1
    <3>2. losses >= IF 2 * (n + 1) - 1 < MaxLosses THEN 2 * (n + 1) - 1 ELSE MaxLosses
      BY <1>1, <3>1 DEF Enough
    <3> QED BY <1>4, <2>1, <3>2 DEF ReplaysNeedLosses, n, failed
  <2>2. CASE ~gen.useCache
    <3>1. Enough(2)
      BY <1>3, <1>4, <2>2
    <3>2. losses >= IF 2 < MaxLosses THEN 2 ELSE MaxLosses
      BY <1>1, <3>1 DEF Enough
    <3> QED BY <1>4, <2>2, <3>2 DEF ReplaysNeedLosses, n, failed
  <2> QED BY <2>1, <2>2
<1>5. CASE ~failed
  <2>1. n > 0 => losses >= IF 2 * n - 1 < MaxLosses THEN 2 * n - 1 ELSE MaxLosses
    BY <1>1, <1>2 DEF Enough, Due
  <2>2. n > 0 => gen.useCache
    BY <1>1, <1>2
  <2>3. n + 0 = n
    BY <1>1
  <2> QED BY <1>5, <2>1, <2>2, <2>3 DEF ReplaysNeedLosses, n, failed
<1> QED BY <1>4, <1>5

LEMMA CauseInit == Init => CauseInv
<1> SUFFICES ASSUME Init PROVE CauseInv
  OBVIOUS
<1>1. /\ gen.phase = "sending" /\ gen.outcome = "none" /\ gen.suspects = {}
      /\ gen.cached = 0 /\ gen.replays = 0
  BY DEF Init
<1>2. /\ losses = 0 /\ orphans = {} /\ step.phase = "idle"
      /\ \A w \in Workers : late[w] = Idle
  BY DEF Init, PipeInit, NoStep
<1>3. StepInv
  BY <1>1, <1>2 DEF StepInv, Running
<1>4. LossInv
  BY <1>1, <1>2 DEF LossInv, Enough, Due, Running
<1>5. SyncInv
  BY <1>1, <1>2 DEF SyncInv, Holds, Running
<1> QED BY <1>1, <1>3, <1>4, <1>5, TypeInit DEF CauseInv, NobodyFramed

\* A generation that ends its step is not waiting for anything any more.
LEMMA CauseStepEnded ==
    ASSUME CauseInv, Client, step' = NoStep, Quiet,
           gen'.phase = "closing", gen'.useCache = gen.useCache,
           gen'.replays = gen.replays,
           gen'.outcome = "recovery_failed" =>
              Enough(IF gen.useCache THEN 2 * gen.replays + 1 ELSE 2),
           gen'.suspects \subseteq {RoleOf[w] : w \in faulty}
    PROVE  CauseInv'
<1>1. TypeInv' /\ step'.phase = "idle"
  BY ClientTyped DEF CauseInv, NoStep
<1>2. StepInv'
  BY <1>1 DEF CauseInv, StepInv, Running
<1>3. LossInv'
  BY <1>1 DEF CauseInv, LossInv, Running, Enough, Due, Quiet
<1>4. SyncInv'
  BY <1>1 DEF CauseInv, SyncInv, Running, Quiet
<1>5. NobodyFramed'
  BY DEF NobodyFramed, Quiet
<1> QED BY <1>1, <1>2, <1>3, <1>4, <1>5 DEF CauseInv

LEMMA CauseSend ==
    ASSUME CauseInv, Client, gen.phase = "sending", step' = Sent, Quiet,
           gen' = [gen EXCEPT !.phase = "waiting"]
    PROVE  CauseInv'
<1>1. TypeInv' /\ GenTyped /\ gen \in Gens /\ gen.sequence \in Seq(BOOLEAN)
  BY ClientTyped DEF CauseInv, TypeInv, GenTyped, Gens
<1>2. /\ gen'.phase = "waiting" /\ gen'.useCache = gen.useCache /\ gen'.replays = gen.replays
      /\ gen'.sequence = gen.sequence /\ gen'.outcome = gen.outcome
      /\ gen'.suspects = gen.suspects
  BY <1>1 DEF Gens
<1>3. gen.replays = 0 /\ (gen.outcome # "recovery_failed")
  BY DEF CauseInv, StepInv
<1> DEFINE start == IF gen.useCache THEN gen.cached ELSE 0
           new == SubSeq(gen.sequence, start + 1, Len(gen.sequence))
<1>4. /\ step'.phase = "running" /\ step'.start = start /\ step'.new = new
      /\ step'.at = new /\ step'.attempt = 1 /\ step'.hop = 1
  BY DEF Sent, Begun
<1>5. start \in Nat /\ start <= Len(gen.sequence)
  BY <1>1 DEF GenTyped, Gens
<1>6. Len(new) \in Nat /\ start + Len(new) = Len(gen.sequence)
  <2> DEFINE q == gen.sequence
             n == Len(q)
  <2>1. n \in Nat /\ q \in Seq(BOOLEAN)
    BY <1>1
  <2> HIDE DEF start, q
  <2>2. Len(SubSeq(q, start + 1, n)) = n - start
    BY <1>5, <2>1 DEF q
  <2> HIDE DEF n
  <2>3. n - start \in Nat /\ start + (n - start) = n
    BY <1>5, <2>1 DEF n, q
  <2> QED BY <2>2, <2>3 DEF n, q
<1>7. gen.useCache => start = gen.cached
  OBVIOUS
<1>8. ~gen.useCache => start = 0
  OBVIOUS
<1> HIDE DEF start, new
<1>9. StepInv'
  BY <1>2, <1>3, <1>4, <1>6, <1>8 DEF CauseInv, StepInv
<1>10. LossInv'
  BY <1>2, <1>3, <1>4 DEF CauseInv, LossInv, Running, Enough, Due, Quiet
<1>11. SyncInv'
  <2> SUFFICES ASSUME losses = 0, MaxLosses # 0
               PROVE  /\ orphans = {}
                      /\ \A w \in Workers : late[w] = Idle
                      /\ \A r \in 1 .. Depth : Holds(r, start)
    BY <1>2, <1>4 DEF SyncInv, Holds, Running, Quiet
  <2>1. orphans = {} /\ \A w \in Workers : late[w] = Idle
    BY DEF CauseInv, SyncInv
  <2>2. \A r \in 1 .. Depth : gen.useCache => Holds(r, gen.cached)
    BY DEF CauseInv, SyncInv
  <2>3. \A r \in 1 .. Depth : Holds(r, start)
    BY <1>7, <1>8, <2>2 DEF Holds
  <2> QED BY <2>1, <2>3
<1>12. NobodyFramed'
  BY <1>2 DEF CauseInv, NobodyFramed, Quiet
<1> QED BY <1>1, <1>9, <1>10, <1>11, <1>12 DEF CauseInv

LEMMA CauseReplay ==
    ASSUME CauseInv, Client, step.phase = "missed", MayReplay, step' = Replayed, Quiet,
           gen' = [gen EXCEPT !.replays = Counted]
    PROVE  CauseInv'
<1>1. TypeInv' /\ GenTyped /\ gen \in Gens /\ gen.sequence \in Seq(BOOLEAN)
      /\ losses \in 0 .. MaxLosses
  BY ClientTyped DEF CauseInv, TypeInv, GenTyped, Gens, Pipe
<1> DEFINE n == gen.replays
<1>2. /\ gen'.phase = gen.phase /\ gen'.useCache = gen.useCache /\ gen'.replays = n + 1
      /\ gen'.sequence = gen.sequence /\ gen'.outcome = gen.outcome
      /\ gen'.suspects = gen.suspects
  BY <1>1 DEF Gens, Counted
<1>3. n \in Nat /\ n + 1 # 0 /\ gen.phase = "waiting" /\ gen.useCache
  BY <1>1 DEF Gens, GenTyped, MayReplay
<1>4. /\ step'.phase = "running" /\ step'.start = 0 /\ step'.new = gen.sequence
      /\ step'.at = gen.sequence /\ step'.attempt = 1 /\ step'.hop = 1
  BY DEF Replayed, Begun
<1>5. Enough(2 * n + 1)
  BY <1>3 DEF CauseInv, LossInv
<1>6. gen.outcome # "recovery_failed"
  BY <1>3 DEF CauseInv, StepInv
<1> HIDE DEF n
<1>7. Due(n + 1) = 2 * n + 1 /\ Due(n + 1) + (1 - 1) = 2 * n + 1
  BY <1>3 DEF Due
<1>8. StepInv'
  <2>1. Len(gen.sequence) \in Nat
    BY <1>1
  <2> QED BY <1>2, <1>3, <1>4, <1>6, <2>1 DEF StepInv, Running
<1>9. LossInv'
  <2>1. Due(gen'.replays) = 2 * n + 1 /\ Due(gen'.replays) + (step'.attempt - 1) = 2 * n + 1
    BY <1>2, <1>4, <1>7
  <2>2. losses' >= 2 * n + 1 \/ losses' = MaxLosses
    BY <1>5 DEF Enough, Quiet
  <2> QED BY <1>2, <1>4, <1>6, <2>1, <2>2 DEF LossInv, Running, Enough, Due
<1>10. SyncInv'
  BY <1>2, <1>3, <1>4 DEF CauseInv, SyncInv, Holds, Running, Quiet
<1>11. NobodyFramed'
  BY <1>2 DEF CauseInv, NobodyFramed, Quiet
<1> QED BY <1>1, <1>8, <1>9, <1>10, <1>11 DEF CauseInv

LEMMA CauseEmit ==
    ASSUME CauseInv, Client, Emit
    PROVE  CauseInv'
<1>1. TypeInv' /\ GenTyped /\ gen \in Gens /\ gen.sequence \in Seq(BOOLEAN)
      /\ losses \in 0 .. MaxLosses /\ step \in Steps(BOOLEAN)
  BY ClientTyped DEF CauseInv, TypeInv, GenTyped, Gens, Pipe
<1>2. PICK phase \in {"closing", "sending"}, outcome \in {"tokens", gen.outcome} :
        gen' = [gen EXCEPT !.phase = phase, !.outcome = outcome,
                           !.sequence = Longer, !.cached = Len(gen.sequence),
                           !.checked = FALSE, !.replays = 0]
  BY <1>1, EmitEffect
<1>3. /\ gen'.phase = phase /\ gen'.useCache = gen.useCache /\ gen'.replays = 0
      /\ gen'.outcome = outcome /\ gen'.cached = Len(gen.sequence)
      /\ gen'.suspects = gen.suspects
  BY <1>1, <1>2 DEF Gens
<1>4. step.phase = "answered" /\ step' = NoStep /\ Quiet /\ gen.phase = "waiting"
  BY <1>1, EmitEffect
<1>5. step'.phase = "idle"
  BY <1>4 DEF NoStep
<1>6. outcome # "recovery_failed"
  BY <1>4 DEF CauseInv, StepInv
<1>7. StepInv'
  BY <1>3, <1>5, <1>6 DEF StepInv, Running
<1>8. LossInv'
  BY <1>1, <1>3, <1>4, <1>5, <1>6 DEF LossInv, Enough, Due, Running, Quiet
<1>9. SyncInv'
  <2>1. step.start + Len(step.new) = Len(gen.sequence)
    BY <1>4 DEF CauseInv, StepInv
  <2> SUFFICES ASSUME losses = 0, MaxLosses # 0
               PROVE  /\ orphans = {}
                      /\ \A w \in Workers : late[w] = Idle
                      /\ \A r \in 1 .. Depth : Holds(r, Len(gen.sequence))
    BY <1>3, <1>4, <1>5 DEF SyncInv, Holds, Running, Quiet
  <2> QED BY <1>4, <2>1 DEF CauseInv, SyncInv
<1>10. NobodyFramed'
  BY <1>3, <1>4 DEF CauseInv, NobodyFramed, Quiet
<1> QED BY <1>1, <1>7, <1>8, <1>9, <1>10 DEF CauseInv

LEMMA CauseClient ==
    ASSUME CauseInv, Client
    PROVE  CauseInv'
<1>1. TypeInv' /\ GenTyped /\ gen \in Gens
  BY ClientTyped DEF CauseInv, TypeInv, GenTyped
<1>2. gen.suspects \subseteq {RoleOf[w] : w \in faulty}
  BY DEF CauseInv, NobodyFramed
<1>3. CASE gen.phase = "sending" /\ step' = Sent /\ Quiet
           /\ gen' = [gen EXCEPT !.phase = "waiting"]
  BY <1>3, CauseSend
<1>4. CASE step.phase = "missed" /\ MayReplay /\ step' = Replayed /\ Quiet
           /\ gen' = [gen EXCEPT !.replays = Counted]
  BY <1>4, CauseReplay
<1>5. ASSUME NEW outcome, NEW suspects
      PROVE  /\ GaveUp(outcome).phase = "closing"
             /\ GaveUp(outcome).outcome = outcome
             /\ GaveUp(outcome).useCache = gen.useCache
             /\ GaveUp(outcome).replays = gen.replays
             /\ GaveUp(outcome).suspects = gen.suspects
             /\ [GaveUp(outcome) EXCEPT !.suspects = suspects].phase = "closing"
             /\ [GaveUp(outcome) EXCEPT !.suspects = suspects].outcome = outcome
             /\ [GaveUp(outcome) EXCEPT !.suspects = suspects].useCache = gen.useCache
             /\ [GaveUp(outcome) EXCEPT !.suspects = suspects].replays = gen.replays
             /\ [GaveUp(outcome) EXCEPT !.suspects = suspects].suspects = suspects
  BY <1>1 DEF GaveUp, Gens
<1>6. ASSUME NEW outcome, step' = NoStep, Quiet, gen' = GaveUp(outcome),
             outcome = "recovery_failed" => step.phase = "missed"
      PROVE  CauseInv'
  <2>1. /\ gen'.phase = "closing" /\ gen'.outcome = outcome
        /\ gen'.useCache = gen.useCache /\ gen'.replays = gen.replays
        /\ gen'.suspects = gen.suspects
    BY <1>5, <1>6
  <2>2. gen'.outcome = "recovery_failed" =>
          Enough(IF gen.useCache THEN 2 * gen.replays + 1 ELSE 2)
    BY <1>6, <2>1 DEF CauseInv, LossInv
  <2> QED BY <1>2, <1>6, <2>1, <2>2, CauseStepEnded
<1>7. CASE step.phase = "answered" /\ CheckDue /\ Last(step.at) /\ step' = step /\ Quiet
           /\ gen' = [gen EXCEPT !.checked = TRUE]
  <2>1. /\ gen'.phase = gen.phase /\ gen'.outcome = gen.outcome
        /\ gen'.useCache = gen.useCache /\ gen'.replays = gen.replays
        /\ gen'.suspects = gen.suspects /\ gen'.cached = gen.cached
        /\ gen'.sequence = gen.sequence
    BY <1>1, <1>7 DEF Gens
  <2>2. StepInv'
    BY <1>7, <2>1 DEF CauseInv, StepInv, Running
  <2>3. LossInv'
    BY <1>7, <2>1 DEF CauseInv, LossInv, Running, Enough, Due, Quiet
  <2>4. SyncInv'
    BY <1>7, <2>1 DEF CauseInv, SyncInv, Running, Holds, Quiet
  <2>5. NobodyFramed'
    BY <1>7, <2>1 DEF CauseInv, NobodyFramed, Quiet
  <2> QED BY <1>1, <2>2, <2>3, <2>4, <2>5 DEF CauseInv
<1>8. CASE step.phase = "answered" /\ CheckDue /\ step' = NoStep /\ Quiet
           /\ \E tried \in Tries :
                 gen' = [GaveUp("unverified") EXCEPT !.suspects = Suspects(tried)]
  <2>1. PICK tried \in Tries : gen' = [GaveUp("unverified") EXCEPT !.suspects = Suspects(tried)]
    BY <1>8
  <2>2. Suspects(tried) \subseteq {RoleOf[w] : w \in faulty}
    BY DEF Suspects, Tries
  <2>3. /\ gen'.phase = "closing" /\ gen'.outcome = "unverified"
        /\ gen'.useCache = gen.useCache /\ gen'.replays = gen.replays
        /\ gen'.suspects = Suspects(tried)
    BY <1>5, <2>1
  <2> QED BY <1>8, <2>2, <2>3, CauseStepEnded
<1>9. CASE Emit
  BY <1>9, CauseEmit
<1>10. CASE Close
  <2>1. gen' = [gen EXCEPT !.phase = "done"] /\ gen.phase = "closing"
        /\ UNCHANGED <<home, late, orphans, step, losses, faulty>>
    BY <1>10 DEF Close
  <2>2. /\ gen'.phase = "done" /\ gen'.outcome = gen.outcome
        /\ gen'.useCache = gen.useCache /\ gen'.replays = gen.replays
        /\ gen'.suspects = gen.suspects
    BY <1>1, <2>1 DEF Gens
  <2>3. step.phase = "idle"
    BY <1>1, <2>1 DEF GenTyped
  <2>4. StepInv'
    BY <2>1, <2>2, <2>3 DEF CauseInv, StepInv, Running
  <2>5. LossInv'
    BY <2>1, <2>2, <2>3 DEF CauseInv, LossInv, Running, Enough, Due
  <2>6. SyncInv'
    BY <2>1, <2>2, <2>3 DEF CauseInv, SyncInv, Running
  <2>7. NobodyFramed'
    BY <2>1, <2>2 DEF CauseInv, NobodyFramed
  <2> QED BY <1>1, <2>4, <2>5, <2>6, <2>7 DEF CauseInv
<1> QED
  <2>1. \A outcome :
          /\ step' = NoStep /\ Quiet /\ gen' = GaveUp(outcome)
          /\ outcome = "recovery_failed" => step.phase = "missed"
          => CauseInv'
    BY <1>6
  <2>2. "task_failed" # "recovery_failed" /\ "audit_failed" # "recovery_failed"
    OBVIOUS
  <2> QED BY <1>3, <1>4, <1>7, <1>8, <1>9, <1>10, <2>1, <2>2, ClientCases, Zenon

\* A loss that leaves the step as it is, or sends it again.
LEMMA CauseLoss ==
    ASSUME CauseInv, TypeInv', gen.phase \in {"sending", "waiting"}, UNCHANGED gen, Lost,
           faulty' = faulty,
           step' = step \/ Lose
    PROVE  CauseInv'
<1>1. /\ gen \in Gens /\ losses \in 0 .. MaxLosses /\ step \in Steps(BOOLEAN)
      /\ gen.replays \in Nat
  BY DEF CauseInv, TypeInv, GenTyped, Gens, Pipe
<1> DEFINE n == gen.replays
<1>2. Enough(Due(n)) /\ Due(n) \in Nat
  BY <1>1 DEF CauseInv, LossInv, Due
<1>3. \A m, k \in Nat : m <= k /\ Enough(k) =>
         /\ losses' >= m \/ losses' = MaxLosses
         /\ losses' >= m + 1 \/ losses' = MaxLosses
  BY <1>1 DEF Enough, Lost
<1>4. gen.outcome # "recovery_failed"
  BY DEF CauseInv, StepInv
<1>5. SyncInv' /\ NobodyFramed'
  BY <1>1, LossEndsSync DEF CauseInv, NobodyFramed
<1> HIDE DEF n
<1>6. CASE step' = step
  <2>1. StepInv'
    BY <1>6 DEF CauseInv, StepInv, Running
  <2>2. \A k \in Nat : Enough(k) => losses' >= k \/ losses' = MaxLosses
    BY <1>1 DEF Enough, Lost
  <2> DEFINE tried == Due(n) + (step.attempt - 1)
             needed == IF gen.useCache THEN 2 * n + 1 ELSE 2
  <2>3. tried \in Nat /\ needed \in Nat
    <3>1. n \in Nat /\ step.attempt \in 1 .. 2
      BY <1>1 DEF Steps, n
    <3> QED BY <1>2, <3>1
  <2>4. /\ Enough(Due(n))
        /\ step.phase = "running" => Enough(tried)
        /\ step.phase = "missed" \/ gen.outcome = "recovery_failed" => Enough(needed)
    BY DEF CauseInv, LossInv, Running, n
  <2> HIDE DEF tried, needed
  <2>5. /\ losses' >= Due(n) \/ losses' = MaxLosses
        /\ step.phase = "running" => losses' >= tried \/ losses' = MaxLosses
        /\ step.phase = "missed" \/ gen.outcome = "recovery_failed" =>
              losses' >= needed \/ losses' = MaxLosses
    BY <1>2, <2>2, <2>3, <2>4, Zenon
  <2>6. gen' = gen
    OBVIOUS
  <2>7. LossInv'
    BY <1>6, <2>5, <2>6, Zenon DEF LossInv, Enough, Running, n, tried, needed, Due
  <2> QED BY <1>5, <2>1, <2>7 DEF CauseInv
<1>7. CASE Lose /\ step.attempt = 1
  <2>1. step' = [step EXCEPT !.attempt = 2, !.hop = 1, !.at = step.new] /\ step.phase = "running"
    BY <1>7 DEF Lose, Resent, Running
  <2>2. /\ step'.phase = "running" /\ step'.attempt = 2 /\ step'.at = step.new
        /\ step'.start = step.start /\ step'.new = step.new
    BY <1>1, <2>1 DEF Steps
  <2>3. StepInv'
    BY <2>1, <2>2 DEF CauseInv, StepInv, Running
  <2>4. /\ losses' >= Due(n) \/ losses' = MaxLosses
        /\ losses' >= Due(n) + 1 \/ losses' = MaxLosses
    BY <1>2, <1>3
  <2>5. LossInv'
    <3>1. Enough(Due(n))'
      BY <2>4 DEF Enough, Due, n
    <3>2. Enough(Due(gen.replays) + (step.attempt - 1))'
      BY <2>2, <2>4 DEF Enough, Due, n
    <3> QED BY <1>4, <2>2, <3>1, <3>2 DEF LossInv, Running, n
  <2> QED BY <1>5, <2>3, <2>5 DEF CauseInv
<1>8. CASE Lose /\ step.attempt # 1
  <2>1. step' = [step EXCEPT !.phase = "missed", !.at = <<>>] /\ step.phase = "running"
        /\ step.attempt = 2
    BY <1>1, <1>8 DEF Lose, Running, Steps
  <2>2. step'.phase = "missed" /\ step'.start = step.start /\ step'.new = step.new
    BY <1>1, <2>1 DEF Steps
  <2>3. StepInv'
    BY <2>1, <2>2 DEF CauseInv, StepInv, Running
  <2>4. Enough(Due(n) + 1)
    BY <2>1 DEF CauseInv, LossInv, Running, n
  <2>5. losses' >= Due(n) + 2 \/ losses' = MaxLosses
    BY <1>1, <1>2, <2>4 DEF Enough, Lost
  <2>6. gen.phase = "waiting" /\ (~gen.useCache => n = 0)
    BY <2>1 DEF CauseInv, StepInv, TypeInv, GenTyped, n
  <2>7. LossInv'
    <3>1. Enough(Due(n))'
      BY <1>2, <1>3 DEF Enough, Due, n
    <3>2. Enough(IF gen.useCache THEN 2 * gen.replays + 1 ELSE 2)'
      <4> DEFINE needed == IF gen.useCache THEN 2 * n + 1 ELSE 2
      <4>1. needed \in Nat /\ needed <= Due(n) + 2 /\ n \in Nat
        BY <1>1, <2>6 DEF Due, n
      <4>2. losses' \in 0 .. MaxLosses
        BY <1>1, LossCounted
      <4> HIDE DEF needed
      <4>3. losses' >= needed \/ losses' = MaxLosses
        BY <1>2, <2>5, <4>1, <4>2
      <4>4. gen' = gen
        OBVIOUS
      <4> QED BY <4>3, <4>4 DEF needed, Enough, n
    <3> QED BY <2>2, <3>1, <3>2 DEF LossInv, Running, n
  <2> QED BY <1>5, <2>3, <2>7 DEF CauseInv
<1> QED BY <1>6, <1>7, <1>8

LEMMA CauseRun ==
    ASSUME CauseInv, TypeInv', gen.phase \in {"sending", "waiting"}, UNCHANGED gen,
           NEW w \in Workers, Run(w)
    PROVE  CauseInv'
<1>1. /\ gen \in Gens /\ losses \in 0 .. MaxLosses /\ step \in Steps(BOOLEAN)
      /\ gen.replays \in Nat /\ Pipe(BOOLEAN)
  BY DEF CauseInv, TypeInv, GenTyped, Gens, Pipe
<1>2. /\ UNCHANGED <<home, late, orphans, losses, faulty>>
      /\ w = home[step.hop] /\ step.phase = "running" /\ step.hop \in 1 .. Depth
      /\ \A v \in Workers : v # w => stages'[v] = stages[v]
  BY <1>1, RunEffect DEF Running, Steps
<1>3. gen.phase = "waiting" /\ gen.outcome # "recovery_failed"
      /\ step.start + Len(step.new) = Len(gen.sequence)
      /\ Len(step.at) = Len(step.new)
  BY <1>2 DEF CauseInv, StepInv, TypeInv, GenTyped, Running
<1>4. NobodyFramed'
  BY <1>2 DEF CauseInv, NobodyFramed
\* The other roles' replicas are other workers.
<1>5. \A r \in 1 .. Depth : r # step.hop => home[r] \in Workers /\ home[r] # w
  BY <1>1, <1>2 DEF Pipe
<1>6. ASSUME step' = [step EXCEPT !.phase = "missed", !.at = <<>>],
             step.start # 0,
             ~(Keeps(stages[w], Session) /\ stages[w].length[Session] = step.start)
      PROVE  CauseInv'
  <2>1. step'.phase = "missed" /\ step'.start = step.start /\ step'.new = step.new
    BY <1>1, <1>6 DEF Steps
  <2>2. StepInv'
    BY <1>2, <2>1 DEF CauseInv, StepInv, Running
  <2>3. gen.useCache /\ gen.replays = 0
    BY <1>3, <1>6 DEF CauseInv, StepInv
  <2>4. losses >= 1 \/ losses = MaxLosses
    <3> SUFFICES ASSUME losses = 0, MaxLosses # 0 PROVE FALSE
      BY <1>1
    <3>1. Holds(step.hop, step.start)
      <4>1. ~(step.hop < step.hop)
        BY <1>2
      <4> QED BY <1>2, <4>1 DEF CauseInv, SyncInv, Running
    <3> QED BY <1>2, <1>6, <3>1 DEF Holds
  <2>5. LossInv'
    <3>1. losses' = losses
      BY <1>2
    <3> QED BY <1>1, <2>1, <2>3, <2>4, <3>1 DEF LossInv, Enough, Due, Running
  <2>6. SyncInv'
    BY <1>2, <1>3, <2>1 DEF CauseInv, SyncInv, Running
  <2> QED BY <1>4, <2>2, <2>5, <2>6 DEF CauseInv
<1>7. ASSUME step' = [step EXCEPT !.phase = "failed", !.at = <<>>]
      PROVE  CauseInv'
  <2>1. step'.phase = "failed" /\ step'.start = step.start /\ step'.new = step.new
    BY <1>1, <1>7 DEF Steps
  <2>2. StepInv'
    BY <1>2, <2>1 DEF CauseInv, StepInv, Running
  <2>3. LossInv'
    BY <1>2, <1>3, <2>1 DEF CauseInv, LossInv, Enough, Due, Running
  <2>4. SyncInv'
    BY <1>2, <1>3, <2>1 DEF CauseInv, SyncInv, Running
  <2> QED BY <1>4, <2>2, <2>3, <2>4 DEF CauseInv
<1>8. ASSUME NEW hidden \in Seq(BOOLEAN),
             Len(hidden) = Len(step.at),
             Keeps(stages'[w], Session),
             stages'[w].length[Session] = step.start + Len(step.at),
             IF step.hop < Depth
             THEN step' = [step EXCEPT !.hop = @ + 1, !.at = hidden]
             ELSE step' = [step EXCEPT !.phase = "answered", !.at = hidden]
      PROVE  CauseInv'
  <2>1. /\ step'.start = step.start /\ step'.new = step.new /\ step'.attempt = step.attempt
        /\ step'.at = hidden
        /\ \/ step'.phase = "running" /\ step'.hop = step.hop + 1
           \/ step'.phase = "answered" /\ step.hop = Depth
    <3>1. CASE step.hop < Depth
      <4>1. step' = [step EXCEPT !.hop = @ + 1, !.at = hidden]
        BY <1>8, <3>1
      <4> QED BY <1>1, <1>2, <4>1 DEF Steps
    <3>2. CASE ~(step.hop < Depth)
      <4>1. step' = [step EXCEPT !.phase = "answered", !.at = hidden]
        BY <1>8, <3>2
      <4>2. step.hop = Depth
        BY <1>2, <3>2
      <4> QED BY <1>1, <4>1, <4>2 DEF Steps
    <3> QED BY <3>1, <3>2
  <2>2. step'.phase \in {"running", "answered"}
    BY <2>1
  <2>3. StepInv'
    BY <1>2, <1>3, <1>8, <2>1, <2>2 DEF CauseInv, StepInv, Running
  <2>4. LossInv'
    BY <1>2, <1>3, <2>1, <2>2 DEF CauseInv, LossInv, Enough, Due, Running
  <2>5. SyncInv'
    <3> SUFFICES ASSUME losses = 0, MaxLosses # 0
                 PROVE  /\ orphans = {}
                        /\ \A v \in Workers : late[v] = Idle
                        /\ step'.phase = "running" => \A r \in 1 .. Depth :
                              IF r < step'.hop THEN Holds(r, step.start + Len(step.new))'
                              ELSE Holds(r, step.start)'
                        /\ step'.phase = "answered" => \A r \in 1 .. Depth :
                              Holds(r, step.start + Len(step.new))'
      BY <1>2, <1>3, <2>1 DEF SyncInv, Running
    <3>1. /\ orphans = {}
          /\ \A v \in Workers : late[v] = Idle
          /\ \A r \in 1 .. Depth :
                IF r < step.hop THEN Holds(r, step.start + Len(step.new))
                ELSE Holds(r, step.start)
      BY <1>2 DEF CauseInv, SyncInv, Running
    <3>2. \A r \in 1 .. Depth : r # step.hop =>
             IF r < step.hop THEN Holds(r, step.start + Len(step.new))'
             ELSE Holds(r, step.start)'
      BY <1>2, <1>5, <2>1, <3>1 DEF Holds
    <3>3. \A r \in 1 .. Depth : r = step.hop => Holds(r, step.start + Len(step.new))'
      <4>1. stages'[home'[step.hop]] = stages'[w]
        BY <1>2
      <4>2. step'.start + Len(step'.new) = step.start + Len(step.at)
        BY <1>3, <2>1
      <4> QED BY <1>8, <4>1, <4>2 DEF Holds
    <3>4. CASE step'.phase = "running" /\ step'.hop = step.hop + 1
      <4>1. \A r \in 1 .. Depth : /\ r < step'.hop => r < step.hop \/ r = step.hop
                                  /\ ~(r < step'.hop) => r # step.hop /\ ~(r < step.hop)
        BY <1>2, <3>4
      <4>2. step'.phase # "answered"
        BY <3>4
      <4> QED BY <3>1, <3>2, <3>3, <3>4, <4>1, <4>2, Zenon
    <3>5. CASE step'.phase = "answered" /\ step.hop = Depth
      <4>1. \A r \in 1 .. Depth : r < step.hop \/ r = step.hop
        BY <3>5
      <4>2. \A r \in 1 .. Depth : r # step.hop => r < step.hop
        BY <4>1
      <4>3. step'.phase # "running"
        BY <3>5
      <4> QED BY <3>1, <3>2, <3>3, <3>5, <4>2, <4>3, Zenon
    <3> QED BY <2>1, <3>4, <3>5
  <2> QED BY <1>4, <2>3, <2>4, <2>5 DEF CauseInv
<1> QED BY <1>1, <1>6, <1>7, <1>8, RunEffect

LEMMA CauseRunLate ==
    ASSUME CauseInv, TypeInv', UNCHANGED gen, NEW w \in Workers, RunLate(w)
    PROVE  CauseInv'
<1>1. late[w] # Idle /\ UNCHANGED <<home, step, losses, faulty>>
  BY DEF RunLate
<1>2. StepInv' /\ LossInv' /\ NobodyFramed'
  BY <1>1 DEF CauseInv, StepInv, LossInv, NobodyFramed, Enough, Running
<1>3. SyncInv'
  BY <1>1 DEF CauseInv, SyncInv
<1> QED BY <1>2, <1>3 DEF CauseInv

LEMMA CauseRunOrphan ==
    ASSUME CauseInv, TypeInv', UNCHANGED gen, NEW w \in Workers, RunOrphan(w)
    PROVE  CauseInv'
<1>1. orphans # {} /\ UNCHANGED <<late, step, losses, faulty>>
  BY DEF RunOrphan
<1>2. StepInv' /\ LossInv' /\ NobodyFramed'
  BY <1>1 DEF CauseInv, StepInv, LossInv, NobodyFramed, Enough, Running
<1>3. SyncInv'
  BY <1>1 DEF CauseInv, SyncInv
<1> QED BY <1>2, <1>3 DEF CauseInv

LEMMA CauseStep == CauseInv /\ [Next]_vars => CauseInv'
<1> SUFFICES ASSUME CauseInv, [Next]_vars PROVE CauseInv'
  OBVIOUS
<1>1. TypeInv'
  BY TypeStep DEF CauseInv
<1>2. CASE Client
  BY <1>2, CauseClient
<1>3. CASE Working /\ PipeStep /\ UNCHANGED gen
  <2> USE DEF Working
  <2>1. ASSUME NEW w \in Workers, Run(w) PROVE CauseInv'
    BY <1>1, <1>3, <2>1, CauseRun
  <2>2. ASSUME NEW w \in Workers, RunLate(w) PROVE CauseInv'
    BY <1>1, <1>3, <2>2, CauseRunLate
  <2>3. ASSUME NEW w \in Workers, Stall(w) \/ Forget(w) \/ Move(w) PROVE CauseInv'
    <3>1. Lost /\ faulty' = faulty /\ step' = step
      BY <2>3 DEF Stall, Forget, Move
    <3> QED BY <1>1, <1>3, <3>1, CauseLoss
  <2>4. ASSUME Lose \/ Repeat PROVE CauseInv'
    <3>1. Lost /\ faulty' = faulty /\ (step' = step \/ Lose)
      BY <2>4 DEF Lose, Repeat
    <3> QED BY <1>1, <1>3, <3>1, CauseLoss
  <2>5. ASSUME NEW w \in Workers, RunOrphan(w) PROVE CauseInv'
    BY <1>1, <1>3, <2>5, CauseRunOrphan
  <2> QED BY <1>3, <2>1, <2>2, <2>3, <2>4, <2>5 DEF PipeStep
<1>4. CASE UNCHANGED vars
  BY <1>1, <1>4 DEF vars, CauseInv, StepInv, LossInv, SyncInv, NobodyFramed, Enough, Holds,
                    Running
<1> QED BY <1>2, <1>3, <1>4 DEF Next

\* A lost cache costs one replay: the first replay of a token takes a loss, each
\* further one, and the error that ends a generation, two more.  A replica that
\* computes what the model does is never suspected.
THEOREM ErrorsAreCaused == Spec => []ErrorsHaveCauses
BY CauseInit, CauseStep, CausesFound, PTL DEF Spec

=============================================================================
