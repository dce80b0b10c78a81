-------------------------- MODULE SpeculativeProofs --------------------------
(***************************************************************************)
(* Theorems about SpeculativeGenerator.generate for every pipeline, prompt *)
(* and number of proposed tokens: the lengths its rounds count on three    *)
(* sequences agree, the draft model's cache follows the sequence, and, as  *)
(* long as a session cannot move to another replica and no submit is       *)
(* repeated, the output is that of greedy decoding.                        *)
(***************************************************************************)
EXTENDS Speculative, PipelineProofs, WellFoundedInduction

USE StageAssumption, PipelineAssumption, SpeculativeAssumption

-----------------------------------------------------------------------------
(* Sequences of tokens *)

\* Every set of numbers that is not empty has a smallest one.
LEMMA Smallest ==
    ASSUME NEW S, S # {}, S \subseteq Nat
    PROVE  \E n \in S : \A m \in S : n <= m
<1>0. S # {} /\ S \subseteq Nat
  OBVIOUS
<1>1. PICK n \in S : \A m \in S : <<m, n>> \notin OpToRel(<, Nat)
  BY ONLY <1>0, NatLessThanWellFounded, WFMin, Zenon
<1>2. ASSUME NEW m \in S PROVE n <= m
  <2>1. m \in Nat /\ n \in Nat /\ <<m, n>> \notin OpToRel(<, Nat)
    BY <1>1
  <2>2. ~(m < n)
    BY <2>1 DEF OpToRel
  <2>3. m \in Nat /\ n \in Nat
    BY <2>1, Zenon
  <2> QED BY <2>2, <2>3
<1> QED BY <1>2, Zenon

\* A part of a sequence.
LEMMA PartOf ==
    ASSUME NEW B, NEW q \in Seq(B), NEW a \in Nat, NEW b \in Nat,
           1 <= a, a <= b + 1, b <= Len(q)
    PROVE  /\ SubSeq(q, a, b) \in Seq(B)
           /\ Len(SubSeq(q, a, b)) = b + 1 - a
           /\ \A i \in 1 .. b + 1 - a : SubSeq(q, a, b)[i] = q[a + i - 1]
OBVIOUS

\* Two sequences, one after the other.
LEMMA Joined ==
    ASSUME NEW B, NEW q \in Seq(B), NEW r \in Seq(B)
    PROVE  /\ q \o r \in Seq(B)
           /\ Len(q \o r) = Len(q) + Len(r)
           /\ \A i \in 1 .. Len(q) : (q \o r)[i] = q[i]
           /\ \A i \in 1 .. Len(r) : (q \o r)[Len(q) + i] = r[i]
OBVIOUS

\* The entries of a sequence of bits of B are bits of B.
LEMMA EntriesAreMembers ==
    ASSUME NEW B PROVE \A q \in Seq(B) : \A i \in 1 .. Len(q) : q[i] \in B
OBVIOUS

\* Sequences with the same entries are the same.
LEMMA SameEntries ==
    ASSUME NEW B, NEW q \in Seq(B), NEW r \in Seq(B), Len(q) = Len(r),
           \A i \in 1 .. Len(q) : q[i] = r[i]
    PROVE  q = r
OBVIOUS

\* A sequence that is shorter than another and has its entries is a part of it.
LEMMA StrictPrefix ==
    ASSUME NEW B, NEW q \in Seq(B), NEW r \in Seq(B), Len(q) < Len(r),
           \A i \in 1 .. Len(q) : q[i] = r[i]
    PROVE  IsStrictPrefix(q, r)
<1> DEFINE n == Len(q)
<1>1. n \in Nat /\ Len(r) \in Nat /\ n < Len(r)
  OBVIOUS
<1> HIDE DEF n
<1>2. \A s \in Seq(B) : n <= Len(s) =>
        SubSeq(s, 1, n) \in Seq(B) /\ Len(SubSeq(s, 1, n)) = n
        /\ \A i \in 1 .. n : SubSeq(s, 1, n)[i] = s[i]
  BY <1>1
<1>3. SubSeq(q, 1, n) = SubSeq(r, 1, n)
  <2> DEFINE a == SubSeq(q, 1, n)
             b == SubSeq(r, 1, n)
  <2>1. a \in Seq(B) /\ b \in Seq(B) /\ Len(a) = n /\ Len(b) = n
    BY <1>1, <1>2 DEF n
  <2>2. \A i \in 1 .. n : a[i] = b[i]
    BY <1>1, <1>2 DEF n
  <2> HIDE DEF a, b
  <2>3. a = b
    BY <2>1, <2>2, SameEntries
  <2> QED BY <2>3 DEF a, b
<1> QED BY <1>1, <1>3 DEF n, IsStrictPrefix, IsPrefix
-----------------------------------------------------------------------------
(* Types *)

Gens ==
    [phase : {"proposing", "verifying", "waiting", "closing", "done"},
     outcome : {"none", "tokens", "task_failed", "recovery_failed"},
     sequence : Seq(BOOLEAN), proposal : Seq(BOOLEAN), cached : Nat, replays : Nat]

Active == gen.phase \in {"proposing", "verifying", "waiting"}

\* While a round is under way something is left to run and a token to be found.
GenTyped ==
    /\ gen \in Gens
    /\ PromptLength <= Len(gen.sequence)
    /\ Len(gen.sequence) <= PromptLength + MaxNewTokens
    /\ Active => /\ gen.cached < Len(gen.sequence)
                 /\ Len(gen.sequence) < PromptLength + MaxNewTokens
    /\ Len(gen.proposal) <= K
    /\ gen.replays <= MaxRecoveries
    /\ gen.phase = "waiting" <=> step.phase # "idle"

\* The step under way runs sequence and proposal from what the stages hold, or
\* from the start.
RoundInv ==
    /\ gen.phase = "waiting" =>
          /\ step.start \in {0, gen.cached}
          /\ step.new = SubSeq(Full, step.start + 1, Len(Full))
    /\ step.phase \in {"running", "answered"} => Len(step.at) = Len(step.new)

\* In a round the draft cache holds the sequence and all but one token of the
\* proposal; between rounds it has lost what was rejected.
DraftInv ==
    /\ draft \in Seq(BOOLEAN)
    /\ gen.phase = "proposing" => IsStrictPrefix(draft, gen.sequence)
    /\ gen.phase \in {"verifying", "waiting"} =>
          /\ 1 <= Len(gen.proposal)
          /\ draft = gen.sequence \o SubSeq(gen.proposal, 1, Len(gen.proposal) - 1)

TypeInv == Pipe(BOOLEAN) /\ GenTyped /\ RoundInv /\ DraftInv

LEMMA TypeInvIsTypeOK == TypeInv => TypeOK
<1> SUFFICES ASSUME TypeInv PROVE TypeOK
  OBVIOUS
<1>1. PipeTypeOK
  BY PipeIsTyped DEF TypeInv
<1>2. gen \in Gen /\ draft \in Bits
  BY DEF TypeInv, GenTyped, DraftInv, Gens, Gen, Bits
<1>3. New <= MaxNewTokens
  BY DEF TypeInv, GenTyped, Gens, New
<1> QED BY <1>1, <1>2, <1>3 DEF TypeInv, GenTyped, TypeOK, Active

LEMMA TypeInit == Init => TypeInv
<1> SUFFICES ASSUME Init PROVE TypeInv
  OBVIOUS
<1>1. Pipe(BOOLEAN) /\ step.phase = "idle" /\ gen = Prompted /\ draft = <<>>
  BY PipeInitial DEF Init, PipeInit, NoStep
<1> DEFINE prompt == [i \in 1 .. PromptLength |-> TRUE]
<1>2. prompt \in Seq(BOOLEAN) /\ Len(prompt) = PromptLength
  <2>1. prompt \in [1 .. PromptLength -> BOOLEAN]
    OBVIOUS
  <2> HIDE DEF prompt
  <2>2. \A q \in [1 .. PromptLength -> BOOLEAN] : q \in Seq(BOOLEAN) /\ Len(q) = PromptLength
    OBVIOUS
  <2> QED BY <2>1, <2>2
<1>3. gen = [phase |-> "proposing", outcome |-> "none", sequence |-> prompt,
             proposal |-> <<>>, cached |-> 0, replays |-> 0]
  BY <1>1 DEF Prompted
<1> HIDE DEF prompt
<1>4. <<>> \in Seq(BOOLEAN) /\ Len(<<>>) = 0
  OBVIOUS
<1>5. GenTyped
  BY <1>1, <1>2, <1>3, <1>4 DEF GenTyped, Gens, Active
<1>6. RoundInv
  BY <1>1, <1>3 DEF RoundInv
<1>7. IsStrictPrefix(<<>>, prompt)
  <2>1. Len(<<>>) < Len(prompt) /\ \A i \in 1 .. Len(<<>>) : <<>>[i] = prompt[i]
    BY <1>2
  <2> QED BY <1>2, <1>4, <2>1, StrictPrefix
<1>8. DraftInv
  BY <1>1, <1>3, <1>4, <1>7 DEF DraftInv
<1> QED BY <1>1, <1>5, <1>6, <1>8 DEF TypeInv

\* The client begins or ends a step and leaves the pipeline alone.
Quiet == UNCHANGED <<stages, home, late, orphans, losses, faulty>>

\* What there is to run: all of the sequence and of the proposal.
LEMMA FullTyped ==
    ASSUME GenTyped
    PROVE  /\ Full \in Seq(BOOLEAN)
           /\ Len(Full) = Len(gen.sequence) + Len(gen.proposal)
           /\ gen.sequence \in Seq(BOOLEAN) /\ gen.proposal \in Seq(BOOLEAN)
           /\ Len(gen.sequence) \in Nat /\ Len(gen.proposal) \in Nat /\ gen.cached \in Nat
           /\ gen.sequence # <<>>
<1>1. gen.sequence \in Seq(BOOLEAN) /\ gen.proposal \in Seq(BOOLEAN) /\ gen.cached \in Nat
  BY DEF GenTyped, Gens
<1>2. Full \in Seq(BOOLEAN) /\ Len(Full) = Len(gen.sequence) + Len(gen.proposal)
  BY <1>1, Joined DEF Full
<1>3. gen.sequence # <<>>
  BY <1>1 DEF GenTyped
<1> QED BY <1>1, <1>2, <1>3

\* The step that runs sequence and proposal from a position on.
LEMMA FullStep ==
    ASSUME GenTyped, NEW start \in Nat, start < Len(gen.sequence),
           step' = Begun(start, SubSeq(Full, start + 1, Len(Full)), TRUE)
    PROVE  /\ step' \in Steps(BOOLEAN)
           /\ step'.phase = "running"
           /\ step'.start = start
           /\ step'.new = SubSeq(Full, start + 1, Len(Full))
           /\ step'.at = step'.new
           /\ step'.hop = 1
<1> DEFINE n == Len(gen.sequence)
           p == Len(gen.proposal)
           f == Full
<1>1. f \in Seq(BOOLEAN) /\ Len(f) = n + p /\ n \in Nat /\ p \in Nat /\ start < n
  BY FullTyped
<1> HIDE DEF n, p, f
<1>2. 1 <= start + 1 /\ start + 1 <= Len(f) + 1 /\ Len(f) \in Nat /\ start + 1 \in Nat
  BY <1>1
<1>3. SubSeq(f, start + 1, Len(f)) \in Seq(BOOLEAN)
  BY <1>1, <1>2, PartOf
<1> DEFINE new == SubSeq(Full, start + 1, Len(Full))
<1>4. new \in Seq(BOOLEAN) /\ step' = Begun(start, new, TRUE)
  BY <1>3 DEF f
<1> HIDE DEF new
<1>5. step' \in Steps(BOOLEAN)
  <2>1. TRUE \in BOOLEAN
    BY Zenon
  <2>2. Begun(start, new, TRUE) \in Steps(BOOLEAN)
    BY <1>4, <2>1, BegunStep, Zenon
  <2> QED BY <1>4, <2>2, Zenon
<1>6. /\ step'.phase = "running" /\ step'.start = start /\ step'.new = new
      /\ step'.at = new /\ step'.hop = 1
  BY <1>4 DEF Begun
<1> QED BY <1>5, <1>6 DEF new

LEMMA ProposeTyped ==
    ASSUME TypeInv, Propose
    PROVE  TypeInv'
<1>1. Pipe(BOOLEAN)' /\ gen.phase = "proposing" /\ UNCHANGED pipeVars
  BY DEF Propose, TypeInv, Pipe, pipeVars
<1> DEFINE s == gen.sequence
           n == Len(s)
           k == MinOf(K, MaxNewTokens - New)
           r == Reused
<1>2. /\ s \in Seq(BOOLEAN) /\ n \in Nat /\ PromptLength <= n
      /\ n < PromptLength + MaxNewTokens /\ gen \in Gens /\ gen.replays <= MaxRecoveries
      /\ draft \in Seq(BOOLEAN) /\ IsStrictPrefix(draft, s) /\ gen.cached < n
  BY <1>1 DEF TypeInv, GenTyped, DraftInv, Gens, Active
<1>3. k \in Nat /\ 1 <= k /\ k <= K
  <2>1. /\ n \in Nat /\ PromptLength <= n /\ n < PromptLength + MaxNewTokens
        /\ K \in Nat \ {0} /\ PromptLength \in Nat /\ MaxNewTokens \in Nat
    BY ONLY <1>2, SpeculativeAssumption
  <2>2. k = IF K < MaxNewTokens - (n - PromptLength) THEN K
            ELSE MaxNewTokens - (n - PromptLength)
    BY ONLY Zenon DEF New, MinOf
  <2> HIDE DEF n, k
  <2> QED BY ONLY <2>1, <2>2
<1>4. PICK proposal \in [1 .. k -> BOOLEAN] :
        /\ gen' = [gen EXCEPT !.phase = "verifying", !.proposal = proposal]
        /\ draft' = Reused
               \o SubSeq(gen.sequence, Len(Reused) + 1, Len(gen.sequence))
               \o SubSeq(proposal, 1, k - 1)
  BY DEF Propose
<1>5. Len(draft) \in Nat /\ Len(draft) < n /\ \A i \in 1 .. Len(draft) : draft[i] = s[i]
  <2>1. Len(draft) <= n /\ SubSeq(draft, 1, Len(draft)) = SubSeq(s, 1, Len(draft)) /\ draft # s
    BY <1>2 DEF IsStrictPrefix, IsPrefix
  <2> DEFINE d == Len(draft)
  <2>2. d \in Nat /\ d <= n
    BY <1>2, <2>1
  <2> HIDE DEF d, n
  <2>3. \A q \in Seq(BOOLEAN) : d <= Len(q) => \A i \in 1 .. d : SubSeq(q, 1, d)[i] = q[i]
    BY <2>2
  <2>4. \A i \in 1 .. d : draft[i] = s[i]
    <3>1. d <= Len(draft) /\ d <= Len(s)
      BY <2>2 DEF d, n
    <3>2. /\ \A i \in 1 .. d : SubSeq(draft, 1, d)[i] = draft[i]
          /\ \A i \in 1 .. d : SubSeq(s, 1, d)[i] = s[i]
      BY <1>2, <2>3, <3>1
    <3> QED BY <2>1, <3>2 DEF d
  <2>5. d # n
    <3>1. ASSUME d = n PROVE FALSE
      BY <1>2, <2>1, <2>4, <3>1, SameEntries DEF d, n
    <3> QED BY <3>1
  <2>6. n \in Nat
    BY <1>2 DEF n
  <2>7. d < n
    BY <2>2, <2>5, <2>6
  <2> QED BY <2>2, <2>4, <2>7 DEF d
<1>6. r = draft
  <2>1. MinOf(Len(draft), n - 1) = Len(draft)
    BY <1>2, <1>5 DEF MinOf
  <2>2. \A q \in Seq(BOOLEAN) : SubSeq(q, 1, Len(q)) = q
    OBVIOUS
  <2> QED BY <1>2, <2>1, <2>2 DEF Reused
<1>7. r \o SubSeq(s, Len(r) + 1, n) = s
  <2> DEFINE d == Len(r)
             t == SubSeq(s, d + 1, n)
  <2>1. d \in Nat /\ d < n /\ r \in Seq(BOOLEAN) /\ \A i \in 1 .. d : r[i] = s[i]
    BY <1>2, <1>5, <1>6
  <2> HIDE DEF r, d, n
  <2>8. n \in Nat /\ n <= Len(s) /\ s \in Seq(BOOLEAN)
    BY <1>2 DEF n
  <2> HIDE DEF s
  <2>2. 1 <= d + 1 /\ d + 1 <= n + 1 /\ n <= Len(s) /\ n \in Nat /\ d + 1 \in Nat
        /\ n + 1 - (d + 1) = n - d
    BY <2>1, <2>8
  <2>3. t \in Seq(BOOLEAN) /\ Len(t) = n - d
        /\ \A i \in 1 .. n - d : t[i] = s[(d + 1) + i - 1]
    <3>1. /\ SubSeq(s, d + 1, n) \in Seq(BOOLEAN)
          /\ Len(SubSeq(s, d + 1, n)) = n + 1 - (d + 1)
          /\ \A i \in 1 .. n + 1 - (d + 1) : SubSeq(s, d + 1, n)[i] = s[(d + 1) + i - 1]
      BY ONLY <2>2, <2>8, PartOf
    <3> QED BY <2>2, <3>1
  <2> DEFINE j == r \o t
  <2>4. /\ j \in Seq(BOOLEAN) /\ Len(j) = d + Len(t)
        /\ \A i \in 1 .. d : j[i] = r[i]
        /\ \A i \in 1 .. Len(t) : j[d + i] = t[i]
    BY ONLY <2>1, <2>3, Joined DEF d, j
  <2> HIDE DEF t, j
  <2>5. Len(j) = n
    BY <2>1, <2>2, <2>3, <2>4
  <2>6. ASSUME NEW i \in 1 .. n PROVE j[i] = s[i]
    <3>1. CASE i <= d
      BY <2>1, <2>4, <3>1
    <3>2. CASE i > d
      <4>1. i - d \in 1 .. n - d /\ d + (i - d) = i /\ (d + 1) + (i - d) - 1 = i
        BY <2>1, <2>2, <3>2
      <4> DEFINE m == i - d
      <4> HIDE DEF m
      <4>2. m \in 1 .. Len(t) /\ d + m = i /\ (d + 1) + m - 1 = i /\ m \in 1 .. n - d
        BY <2>3, <4>1 DEF m
      <4>3. j[d + m] = t[m] /\ t[m] = s[(d + 1) + m - 1]
        BY <2>3, <2>4, <4>2
      <4> QED BY <4>2, <4>3
    <3> QED BY <2>1, <2>2, <3>1, <3>2
  <2>7. j = s
    BY <1>2, <2>4, <2>5, <2>6, SameEntries DEF n
  <2> QED BY <2>7 DEF j, t, d
<1>8. proposal \in Seq(BOOLEAN) /\ Len(proposal) = k
  <2> HIDE DEF k
  <2> QED BY <1>3
<1>9. draft' = s \o SubSeq(proposal, 1, Len(proposal) - 1)
  BY <1>4, <1>7, <1>8
<1>10. SubSeq(proposal, 1, Len(proposal) - 1) \in Seq(BOOLEAN)
  <2> HIDE DEF k
  <2> QED BY <1>3, <1>8
<1> HIDE DEF k, n, r
<1>11. gen' \in Gens /\ gen'.phase = "verifying" /\ gen'.sequence = s
       /\ gen'.proposal = proposal /\ gen'.cached = gen.cached /\ gen'.replays = gen.replays
  BY <1>2, <1>4, <1>8 DEF Gens
<1>12. draft' \in Seq(BOOLEAN)
  <2> DEFINE t == SubSeq(proposal, 1, Len(proposal) - 1)
  <2>1. t \in Seq(BOOLEAN)
    BY <1>10
  <2> HIDE DEF t
  <2>2. s \o t \in Seq(BOOLEAN)
    BY <1>2, <2>1
  <2> QED BY <1>9, <2>2 DEF t
<1>13. step' = step /\ step.phase = "idle"
  BY <1>1 DEF pipeVars, TypeInv, GenTyped
<1>14. GenTyped'
  BY <1>2, <1>3, <1>8, <1>11, <1>13 DEF GenTyped, Active, n
<1>15. RoundInv'
  BY <1>11, <1>13 DEF RoundInv
<1>16. DraftInv'
  BY <1>3, <1>8, <1>9, <1>11, <1>12 DEF DraftInv
<1> QED BY <1>1, <1>14, <1>15, <1>16 DEF TypeInv

\* The client sends a step, or sends it again.
LEMMA SendTyped ==
    ASSUME TypeInv, NEW start \in {0, gen.cached}, NEW replays \in {gen.replays, gen.replays + 1},
           replays <= MaxRecoveries, gen.phase \in {"verifying", "waiting"},
           step' = Begun(start, SubSeq(Full, start + 1, Len(Full)), TRUE),
           gen' = [gen EXCEPT !.phase = "waiting", !.replays = replays],
           Quiet, draft' = draft
    PROVE  TypeInv'
<1> DEFINE new == SubSeq(Full, start + 1, Len(Full))
<1>1. /\ GenTyped /\ gen \in Gens /\ gen.cached < Len(gen.sequence) /\ DraftInv
      /\ gen.replays \in Nat
  BY DEF TypeInv, GenTyped, Active, Gens
<1>2. start \in Nat /\ start < Len(gen.sequence)
  BY <1>1, FullTyped
<1>4. /\ step' \in Steps(BOOLEAN) /\ step'.phase = "running"
      /\ step'.start = start /\ step'.new = new /\ step'.at = new
  BY <1>1, <1>2, FullStep
<1> HIDE DEF new
<1>5. Pipe(BOOLEAN)'
  BY <1>4, PipeStepChanged DEF Quiet, TypeInv
<1>6. /\ gen' \in Gens /\ gen'.phase = "waiting" /\ gen'.sequence = gen.sequence
      /\ gen'.proposal = gen.proposal /\ gen'.cached = gen.cached /\ gen'.replays = replays
  <2>1. replays \in Nat
    BY <1>1
  <2> QED BY <1>1, <2>1 DEF Gens
<1> HIDE DEF Gens
<1>7. GenTyped'
  BY <1>1, <1>4, <1>6 DEF GenTyped, Active
<1>8. Full' = Full
  BY <1>6 DEF Full
<1>9. RoundInv'
  BY <1>4, <1>6, <1>8 DEF RoundInv, new
<1>10. DraftInv'
  BY <1>1, <1>6 DEF DraftInv
<1> QED BY <1>5, <1>7, <1>9, <1>10 DEF TypeInv

\* A generation that gives up goes on to close its session.
LEMMA GiveUpTyped ==
    ASSUME TypeInv, NEW outcome \in {"task_failed", "recovery_failed"},
           step' = NoStep, gen' = GaveUp(outcome), Quiet, draft' = draft
    PROVE  TypeInv'
<1>1. NoStep \in Steps(BOOLEAN) /\ NoStep.phase = "idle"
  BY NoStepTyped DEF NoStep
<1>2. Pipe(BOOLEAN)'
  BY <1>1, PipeStepChanged DEF Quiet, TypeInv
<1>3. GenTyped /\ gen \in Gens
  BY DEF TypeInv, GenTyped
<1>4. /\ gen' \in Gens /\ gen'.phase = "closing" /\ gen'.sequence = gen.sequence
      /\ gen'.proposal = gen.proposal /\ gen'.cached = gen.cached
      /\ gen'.replays = gen.replays
  BY <1>3 DEF Gens, GaveUp
<1> HIDE DEF Gens
<1>5. GenTyped'
  BY <1>1, <1>3, <1>4 DEF GenTyped, Active
<1>6. RoundInv'
  BY <1>1, <1>4 DEF RoundInv
<1>7. DraftInv'
  BY <1>4 DEF DraftInv, TypeInv
<1> QED BY <1>2, <1>5, <1>6, <1>7 DEF TypeInv

\* An answer gives one prediction for each proposed token and one more.
LEMMA PredictionsTyped ==
    ASSUME TypeInv, step.phase = "answered"
    PROVE  /\ Predictions \in Seq(BOOLEAN)
           /\ Len(Predictions) = Len(gen.proposal) + 1
           /\ step.start \in Nat /\ step.start < Len(gen.sequence)
           /\ Len(step.at) = Len(gen.sequence) + Len(gen.proposal) - step.start
           /\ \A i \in 1 .. Len(gen.proposal) + 1 :
                 Predictions[i] = step.at[Len(gen.sequence) - step.start + i - 1]
<1> DEFINE n == Len(gen.sequence)
           p == Len(gen.proposal)
           f == Full
           m == Len(step.at)
           start == step.start
<1>1. /\ f \in Seq(BOOLEAN) /\ Len(f) = n + p /\ n \in Nat /\ p \in Nat /\ gen.cached \in Nat
  BY FullTyped DEF TypeInv
<1>2. /\ gen.phase = "waiting" /\ gen.cached < n /\ start \in {0, gen.cached}
      /\ step.new = SubSeq(f, start + 1, Len(f)) /\ m = Len(step.new)
      /\ step.at \in Seq(BOOLEAN) /\ m \in Nat
  BY DEF TypeInv, GenTyped, Active, RoundInv, Pipe, Steps
<1>3. start \in Nat /\ start < n
  BY <1>1, <1>2
<1> HIDE DEF n, p, f, start
<1>4. /\ 1 <= start + 1 /\ start + 1 <= Len(f) + 1 /\ start + 1 \in Nat /\ Len(f) \in Nat
      /\ Len(f) + 1 - (start + 1) = n + p - start
  BY <1>1, <1>3
<1>5. Len(SubSeq(f, start + 1, Len(f))) = Len(f) + 1 - (start + 1)
  BY <1>1, <1>4, PartOf
<1>6. m = n + p - start
  BY <1>2, <1>4, <1>5
<1> HIDE DEF m
<1>7. /\ m - p \in Nat /\ 1 <= m - p /\ m - p <= m + 1 /\ m <= m /\ m + 1 - (m - p) = p + 1
      /\ \A i \in 1 .. p + 1 : m - p + i - 1 = n - start + i - 1
  BY <1>1, <1>2, <1>3, <1>6
<1> DEFINE a == m - p
<1>12. /\ a \in Nat /\ m \in Nat /\ 1 <= a /\ a <= m + 1 /\ m <= Len(step.at)
       /\ step.at \in Seq(BOOLEAN)
  BY <1>2, <1>7 DEF m
<1> HIDE DEF a
<1>8. /\ SubSeq(step.at, a, m) \in Seq(BOOLEAN)
      /\ Len(SubSeq(step.at, a, m)) = m + 1 - a
      /\ \A i \in 1 .. m + 1 - a : SubSeq(step.at, a, m)[i] = step.at[a + i - 1]
  BY <1>12, PartOf
<1>9. Predictions = SubSeq(step.at, a, m)
  BY DEF Predictions, a, m, p
<1>10. \A i \in 1 .. p + 1 : Predictions[i] = step.at[n - start + i - 1]
  BY <1>7, <1>8, <1>9 DEF a
<1>11. Predictions \in Seq(BOOLEAN) /\ Len(Predictions) = p + 1
  BY <1>7, <1>8, <1>9 DEF a
<1> QED BY <1>3, <1>6, <1>10, <1>11 DEF n, p, start, m

\* The accepted tokens and the target's own one after them.
Round(accepted) == Append(SubSeq(gen.proposal, 1, accepted), Predictions[accepted + 1])

LEMMA RoundTyped ==
    ASSUME TypeInv, step.phase = "answered", NEW accepted \in 0 .. Len(gen.proposal)
    PROVE  /\ Round(accepted) \in Seq(BOOLEAN)
           /\ Len(Round(accepted)) = accepted + 1
           /\ \A i \in 1 .. accepted : Round(accepted)[i] = gen.proposal[i]
           /\ Round(accepted)[accepted + 1] = Predictions[accepted + 1]
<1> DEFINE p == Len(gen.proposal)
           q == gen.proposal
           t == SubSeq(q, 1, accepted)
           b == Predictions[accepted + 1]
<1>1. /\ q \in Seq(BOOLEAN) /\ p \in Nat
      /\ Predictions \in Seq(BOOLEAN) /\ Len(Predictions) = p + 1
  BY FullTyped, PredictionsTyped DEF TypeInv
<1>2. accepted \in Nat /\ accepted <= p
  BY <1>1
<1>3. b \in BOOLEAN
  <2> HIDE DEF p
  <2>1. accepted + 1 \in 1 .. Len(Predictions)
    BY <1>1, <1>2
  <2>2. \A s \in Seq(BOOLEAN) : \A i \in 1 .. Len(s) : s[i] \in BOOLEAN
    OBVIOUS
  <2> QED BY <1>1, <2>1, <2>2
<1>4. /\ t \in Seq(BOOLEAN) /\ Len(t) = accepted
      /\ \A i \in 1 .. accepted : t[i] = q[i]
  BY <1>1, <1>2
<1>5. Round(accepted) = Append(t, b)
  BY DEF Round
<1> HIDE DEF t, b, q, p
<1>6. \A s \in Seq(BOOLEAN), c \in BOOLEAN :
        /\ Append(s, c) \in Seq(BOOLEAN) /\ Len(Append(s, c)) = Len(s) + 1
        /\ \A i \in 1 .. Len(s) : Append(s, c)[i] = s[i]
        /\ Append(s, c)[Len(s) + 1] = c
  OBVIOUS
<1> QED BY <1>2, <1>3, <1>4, <1>5, <1>6 DEF b, q

\* What a round leaves: only if all its tokens are emitted does another follow.
LEMMA EndRoundEffect ==
    ASSUME TypeInv, EndRound
    PROVE  /\ step.phase = "answered" /\ gen.phase = "waiting" /\ step' = NoStep /\ Quiet
           /\ \E accepted \in 0 .. Len(gen.proposal), phase \in {"closing", "proposing"} :
                /\ Agrees(accepted, Predictions)
                /\ draft' = Accepted(Len(gen.sequence) + accepted)
                /\ \E emitted \in 1 .. accepted + 1 :
                     /\ gen' = [gen EXCEPT
                           !.phase = phase,
                           !.outcome = "tokens",
                           !.sequence = gen.sequence \o SubSeq(Round(accepted), 1, emitted),
                           !.cached = Len(gen.sequence) + accepted,
                           !.proposal = <<>>,
                           !.replays = 0]
                     /\ Len(gen.sequence) + emitted <= PromptLength + MaxNewTokens
                     /\ phase = "proposing" =>
                           /\ emitted = accepted + 1
                           /\ Len(gen.sequence) + emitted < PromptLength + MaxNewTokens
<1>1. step.phase = "answered" /\ gen.phase = "waiting" /\ step' = NoStep /\ Quiet
  BY DEF EndRound, Quiet, TypeInv, GenTyped
<1> DEFINE n == Len(gen.sequence)
           p == Len(gen.proposal)
<1>2. n \in Nat /\ p \in Nat /\ PromptLength <= n /\ n < PromptLength + MaxNewTokens
  BY <1>1, FullTyped DEF TypeInv, GenTyped, Active
<1>3. PICK accepted \in 0 .. p :
        /\ Agrees(accepted, Predictions)
        /\ LET most == MinOf(Len(Round(accepted)), MaxNewTokens - New)
           IN  \E emitted \in 1 .. most, eos \in BOOLEAN :
                  /\ emitted < most => eos
                  /\ gen' = [gen EXCEPT
                        !.phase = IF eos \/ New + emitted = MaxNewTokens
                                  THEN "closing" ELSE "proposing",
                        !.outcome = "tokens",
                        !.sequence = @ \o SubSeq(Round(accepted), 1, emitted),
                        !.cached = ValidLength(n, accepted),
                        !.proposal = <<>>,
                        !.replays = 0]
                  /\ draft' = Accepted(ValidLength(n, accepted))
  BY DEF EndRound, Round
<1>4. Len(Round(accepted)) = accepted + 1 /\ accepted \in Nat
  BY <1>1, <1>2, <1>3, RoundTyped
<1> DEFINE most == MinOf(accepted + 1, MaxNewTokens - New)
<1>5. PICK emitted \in 1 .. most, eos \in BOOLEAN :
        /\ emitted < most => eos
        /\ gen' = [gen EXCEPT
              !.phase = IF eos \/ New + emitted = MaxNewTokens
                        THEN "closing" ELSE "proposing",
              !.outcome = "tokens",
              !.sequence = @ \o SubSeq(Round(accepted), 1, emitted),
              !.cached = ValidLength(n, accepted),
              !.proposal = <<>>,
              !.replays = 0]
        /\ draft' = Accepted(ValidLength(n, accepted))
  BY <1>3, <1>4
<1>6. most \in Nat /\ most <= accepted + 1 /\ New + most <= MaxNewTokens /\ New \in Nat
      /\ New = n - PromptLength /\ (most = accepted + 1 \/ New + most = MaxNewTokens)
  <2>1. New = n - PromptLength
    BY DEF New
  <2> DEFINE room == MaxNewTokens - New
             a == accepted + 1
  <2>2. most = IF a < room THEN a ELSE room
    BY DEF MinOf
  <2> HIDE DEF n, p, most
  <2>5. PromptLength \in Nat /\ MaxNewTokens \in Nat
    OBVIOUS
  <2>6. n - PromptLength \in Nat /\ n - PromptLength < MaxNewTokens
    BY <1>2, <2>5
  <2>7. New \in Nat /\ New < MaxNewTokens
    BY <2>1, <2>6
  <2>3. New \in Nat /\ room \in Nat /\ New + room = MaxNewTokens /\ a \in Nat
    BY <1>4, <2>5, <2>7
  <2> HIDE DEF room, a
  <2>4. most \in Nat /\ most <= a /\ New + most <= MaxNewTokens
        /\ (most = a \/ New + most = MaxNewTokens)
    BY <2>2, <2>3
  <2> QED BY <2>1, <2>3, <2>4 DEF a
<1> DEFINE phase == IF eos \/ New + emitted = MaxNewTokens THEN "closing" ELSE "proposing"
<1> HIDE DEF most, n, p
<1>7. /\ emitted \in 1 .. accepted + 1
      /\ n + emitted <= PromptLength + MaxNewTokens
  <2>1. emitted \in Nat /\ 1 <= emitted /\ emitted <= most
    BY <1>5, <1>6
  <2>2. PromptLength \in Nat /\ MaxNewTokens \in Nat /\ n = New + PromptLength
    BY <1>2, <1>6
  <2>3. New + emitted <= MaxNewTokens /\ emitted <= accepted + 1
    BY <1>4, <1>6, <2>1, <2>2
  <2> DEFINE new == New
  <2>4. new \in Nat /\ n = new + PromptLength /\ new + emitted <= MaxNewTokens
    BY <1>6, <2>2, <2>3
  <2> HIDE DEF new
  <2> QED BY <1>4, <2>1, <2>2, <2>3, <2>4
<1>8. phase = "proposing" =>
         emitted = accepted + 1 /\ n + emitted < PromptLength + MaxNewTokens
  <2> SUFFICES ASSUME phase = "proposing"
               PROVE  emitted = accepted + 1 /\ n + emitted < PromptLength + MaxNewTokens
    OBVIOUS
  <2>1. ~eos /\ New + emitted # MaxNewTokens
    BY Zenon
  <2>2. ~(emitted < most)
    BY <1>5, <2>1, Zenon
  <2>3. emitted = most
    BY <1>5, <1>6, <2>2
  <2>4. New + most < MaxNewTokens /\ most = accepted + 1
    BY <1>6, <2>1, <2>3
  <2> QED BY <1>2, <1>4, <1>6, <2>3, <2>4
<1>9. phase \in {"closing", "proposing"}
  OBVIOUS
<1>10. gen' = [gen EXCEPT
           !.phase = phase,
           !.outcome = "tokens",
           !.sequence = gen.sequence \o SubSeq(Round(accepted), 1, emitted),
           !.cached = n + accepted,
           !.proposal = <<>>,
           !.replays = 0]
  BY <1>5 DEF ValidLength
<1>11. draft' = Accepted(n + accepted)
  BY <1>5 DEF ValidLength
<1> HIDE DEF phase
<1> QED BY <1>1, <1>3, <1>7, <1>8, <1>9, <1>10, <1>11 DEF n, p

\* What accept leaves of the draft cache is a part of the new sequence, and one
\* token of the round is not in it.
LEMMA AcceptedFollows ==
    ASSUME TypeInv, step.phase = "answered", NEW accepted \in 0 .. Len(gen.proposal)
    PROVE  /\ Accepted(Len(gen.sequence) + accepted) \in Seq(BOOLEAN)
           /\ IsStrictPrefix(Accepted(Len(gen.sequence) + accepted),
                             gen.sequence \o SubSeq(Round(accepted), 1, accepted + 1))
<1> DEFINE s == gen.sequence
           q == gen.proposal
           n == Len(s)
           p == Len(q)
           r == Round(accepted)
           u == SubSeq(q, 1, p - 1)
           d == draft
<1>1. /\ s \in Seq(BOOLEAN) /\ q \in Seq(BOOLEAN) /\ n \in Nat /\ p \in Nat /\ 1 <= p
      /\ d = s \o u
  BY FullTyped DEF TypeInv, DraftInv, GenTyped
<1>2. accepted \in Nat /\ accepted <= p
  BY <1>1
<1>3. /\ r \in Seq(BOOLEAN) /\ Len(r) = accepted + 1
      /\ \A i \in 1 .. accepted : r[i] = q[i]
  BY RoundTyped
<1> HIDE DEF r, p
<1>4. SubSeq(r, 1, accepted + 1) = r
  <2>1. \A z \in Seq(BOOLEAN) : SubSeq(z, 1, Len(z)) = z
    OBVIOUS
  <2> QED BY <1>3, <2>1
<1>5. u \in Seq(BOOLEAN) /\ Len(u) = p - 1 /\ \A i \in 1 .. p - 1 : u[i] = q[i]
  <2>1. 1 \in Nat /\ p - 1 \in Nat /\ 1 <= 1 /\ 1 <= p - 1 + 1 /\ p - 1 <= Len(q)
        /\ p - 1 + 1 - 1 = p - 1
    BY <1>1 DEF p
  <2>2. /\ u \in Seq(BOOLEAN) /\ Len(u) = p - 1 + 1 - 1
        /\ \A i \in 1 .. p - 1 + 1 - 1 : u[i] = q[1 + i - 1]
    BY <1>1, <2>1, PartOf
  <2> QED BY <2>1, <2>2
<1> HIDE DEF u
<1>6. /\ d \in Seq(BOOLEAN) /\ Len(d) = n + (p - 1)
      /\ \A i \in 1 .. n : d[i] = s[i]
      /\ \A i \in 1 .. p - 1 : d[n + i] = u[i]
  <2> DEFINE z == s \o u
  <2>2. /\ z \in Seq(BOOLEAN) /\ Len(z) = n + Len(u)
        /\ \A i \in 1 .. n : z[i] = s[i]
        /\ \A i \in 1 .. Len(u) : z[n + i] = u[i]
    <3>1. s \in Seq(BOOLEAN) /\ u \in Seq(BOOLEAN)
      BY <1>1, <1>5
    <3> HIDE DEF s
    <3> QED BY <3>1, Joined
  <2> HIDE DEF z, n
  <2>3. d = z
    BY <1>1 DEF z
  <2> HIDE DEF d
  <2> QED BY <1>5, <2>2, <2>3
<1> DEFINE whole == s \o r
<1>7. /\ whole \in Seq(BOOLEAN) /\ Len(whole) = n + (accepted + 1)
      /\ \A i \in 1 .. n : whole[i] = s[i]
      /\ \A i \in 1 .. accepted + 1 : whole[n + i] = r[i]
  <2>2. /\ whole \in Seq(BOOLEAN) /\ Len(whole) = n + Len(r)
        /\ \A i \in 1 .. n : whole[i] = s[i]
        /\ \A i \in 1 .. Len(r) : whole[n + i] = r[i]
    <3>1. s \in Seq(BOOLEAN) /\ r \in Seq(BOOLEAN)
      BY <1>1, <1>3
    <3> HIDE DEF s
    <3> QED BY <3>1, Joined
  <2> HIDE DEF whole, n
  <2> QED BY <1>3, <2>2
<1> HIDE DEF whole, n, d
<1> DEFINE m == MinOf(Len(d), n + accepted)
           left == SubSeq(d, 1, m)
<1>8. m \in Nat /\ m <= n + (p - 1) /\ m <= n + accepted
  BY <1>1, <1>2, <1>6 DEF MinOf
<1> HIDE DEF m
<1>9. left \in Seq(BOOLEAN) /\ Len(left) = m /\ \A i \in 1 .. m : left[i] = d[i]
  <2>1. 1 \in Nat /\ 1 <= 1 /\ 1 <= m + 1 /\ m <= Len(d) /\ m + 1 - 1 = m
    BY <1>6, <1>8
  <2>2. /\ left \in Seq(BOOLEAN) /\ Len(left) = m + 1 - 1
        /\ \A i \in 1 .. m + 1 - 1 : left[i] = d[1 + i - 1]
    BY <1>6, <1>8, <2>1, PartOf
  <2> HIDE DEF left
  <2> QED BY <1>8, <2>1, <2>2
<1> HIDE DEF left
<1>10. Len(left) < Len(whole)
  BY <1>1, <1>2, <1>7, <1>8, <1>9
<1>11. ASSUME NEW i \in 1 .. Len(left) PROVE left[i] = whole[i]
  <2>1. i \in Nat /\ 1 <= i /\ i <= m /\ left[i] = d[i]
    <3>1. i \in 1 .. m
      BY <1>9
    <3> QED BY <1>8, <1>9, <3>1
  <2>4. n \in Nat
    BY <1>1
  <2>2. CASE i <= n
    BY <1>6, <1>7, <2>1, <2>2, <2>4
  <2>3. CASE i > n
    <3> DEFINE j == i - n
    <3>1. j \in 1 .. p - 1 /\ j \in 1 .. accepted /\ j \in 1 .. accepted + 1 /\ n + j = i
      BY <1>1, <1>2, <1>8, <2>1, <2>3, <2>4 DEF p
    <3> HIDE DEF j
    <3>2. d[n + j] = u[j] /\ u[j] = q[j] /\ whole[n + j] = r[j] /\ r[j] = q[j]
      BY <1>3, <1>5, <1>6, <1>7, <3>1
    <3> QED BY <2>1, <3>1, <3>2
  <2> QED BY <2>1, <2>2, <2>3, <2>4
<1>12. IsStrictPrefix(left, whole)
  BY <1>7, <1>9, <1>10, <1>11, StrictPrefix
<1>13. left = Accepted(n + accepted) /\ whole = s \o SubSeq(r, 1, accepted + 1)
  BY <1>4 DEF left, m, d, Accepted, whole
<1> QED BY <1>9, <1>12, <1>13 DEF n, r

LEMMA EndRoundTyped ==
    ASSUME TypeInv, EndRound
    PROVE  TypeInv'
<1>1. step.phase = "answered" /\ gen.phase = "waiting" /\ step' = NoStep /\ Quiet
  BY EndRoundEffect
<1> DEFINE s == gen.sequence
           n == Len(s)
<1>2. PICK accepted \in 0 .. Len(gen.proposal), phase \in {"closing", "proposing"} :
        /\ Agrees(accepted, Predictions)
        /\ draft' = Accepted(n + accepted)
        /\ \E emitted \in 1 .. accepted + 1 :
             /\ gen' = [gen EXCEPT
                   !.phase = phase,
                   !.outcome = "tokens",
                   !.sequence = s \o SubSeq(Round(accepted), 1, emitted),
                   !.cached = n + accepted,
                   !.proposal = <<>>,
                   !.replays = 0]
             /\ n + emitted <= PromptLength + MaxNewTokens
             /\ phase = "proposing" =>
                   /\ emitted = accepted + 1
                   /\ n + emitted < PromptLength + MaxNewTokens
  BY EndRoundEffect
<1>3. PICK emitted \in 1 .. accepted + 1 :
        /\ gen' = [gen EXCEPT
              !.phase = phase,
              !.outcome = "tokens",
              !.sequence = s \o SubSeq(Round(accepted), 1, emitted),
              !.cached = n + accepted,
              !.proposal = <<>>,
              !.replays = 0]
        /\ n + emitted <= PromptLength + MaxNewTokens
        /\ phase = "proposing" =>
              /\ emitted = accepted + 1
              /\ n + emitted < PromptLength + MaxNewTokens
  BY <1>2
<1>4. /\ s \in Seq(BOOLEAN) /\ n \in Nat /\ PromptLength <= n
      /\ Len(gen.proposal) \in Nat /\ gen \in Gens
  BY FullTyped DEF TypeInv, GenTyped
<1>5. accepted \in Nat /\ emitted \in Nat /\ 1 <= emitted /\ emitted <= accepted + 1
  BY <1>4
<1> DEFINE r == Round(accepted)
           t == SubSeq(r, 1, emitted)
           whole == s \o t
<1>6. r \in Seq(BOOLEAN) /\ Len(r) = accepted + 1
  BY <1>1, RoundTyped
<1> HIDE DEF r
<1>7. t \in Seq(BOOLEAN) /\ Len(t) = emitted
  BY <1>5, <1>6
<1> HIDE DEF t
<1>8. whole \in Seq(BOOLEAN) /\ Len(whole) = n + emitted
  <2>1. \A a, b \in Seq(BOOLEAN) : a \o b \in Seq(BOOLEAN) /\ Len(a \o b) = Len(a) + Len(b)
    BY Joined
  <2>2. whole \in Seq(BOOLEAN) /\ Len(whole) = n + Len(t)
    BY <1>4, <1>7, <2>1
  <2> HIDE DEF whole, n
  <2> QED BY <1>7, <2>2
<1> HIDE DEF whole
<1>9. NoStep \in Steps(BOOLEAN) /\ NoStep.phase = "idle"
  BY NoStepTyped DEF NoStep
<1>10. Pipe(BOOLEAN)'
  BY <1>1, <1>9, PipeStepChanged DEF Quiet, TypeInv
<1> DEFINE valid == n + accepted
<1>11. valid \in Nat
  BY <1>4, <1>5
<1>12. gen' = [gen EXCEPT !.phase = phase, !.outcome = "tokens", !.sequence = whole,
                          !.cached = valid, !.proposal = <<>>, !.replays = 0]
  BY <1>3 DEF whole, t, r
<1>13. <<>> \in Seq(BOOLEAN) /\ Len(<<>>) = 0
  OBVIOUS
<1> HIDE DEF valid, n, s
<1>14. /\ gen' \in Gens /\ gen'.phase = phase /\ gen'.sequence = whole
       /\ gen'.proposal = <<>> /\ gen'.cached = valid /\ gen'.replays = 0
  BY <1>4, <1>8, <1>11, <1>12, <1>13 DEF Gens
<1>15. /\ PromptLength <= n + emitted
       /\ phase = "proposing" => valid < n + emitted /\ n + emitted < PromptLength + MaxNewTokens
  <2>1. PromptLength \in Nat /\ MaxNewTokens \in Nat
    OBVIOUS
  <2> QED BY <1>3, <1>4, <1>5, <2>1 DEF valid
<1>16. step'.phase = "idle"
  BY <1>1, <1>9
<1>17. GenTyped'
  <2>1. /\ PromptLength <= Len(gen'.sequence)
        /\ Len(gen'.sequence) <= PromptLength + MaxNewTokens
    BY <1>3, <1>8, <1>14, <1>15 DEF n, s
  <2>2. gen'.phase \in {"proposing", "verifying", "waiting"} =>
          /\ gen'.cached < Len(gen'.sequence)
          /\ Len(gen'.sequence) < PromptLength + MaxNewTokens
    BY <1>8, <1>14, <1>15
  <2>3. Len(gen'.proposal) <= K /\ gen'.replays <= MaxRecoveries
    BY <1>13, <1>14
  <2>4. gen'.phase = "waiting" <=> step'.phase # "idle"
    BY <1>14, <1>16
  <2> QED BY <1>14, <2>1, <2>2, <2>3, <2>4 DEF GenTyped, Active
<1>18. RoundInv'
  BY <1>14, <1>16 DEF RoundInv
<1>19. DraftInv'
  <2>1. draft' = Accepted(valid) /\ draft' \in Seq(BOOLEAN)
    BY <1>1, <1>2, AcceptedFollows DEF valid, n, s
  <2>2. phase = "proposing" => IsStrictPrefix(draft', gen'.sequence)
    <3>1. SUFFICES ASSUME phase = "proposing" PROVE IsStrictPrefix(draft', whole)
      BY <1>14
    <3>2. whole = s \o SubSeq(Round(accepted), 1, accepted + 1)
      BY <1>3, <3>1 DEF whole, t, r
    <3> QED BY <1>1, <2>1, <3>2, AcceptedFollows DEF valid, n, s
  <2> QED BY <1>14, <2>1, <2>2 DEF DraftInv
<1> QED BY <1>10, <1>17, <1>18, <1>19 DEF TypeInv

LEMMA ClientTyped ==
    ASSUME TypeInv, Client
    PROVE  TypeInv'
<1>1. CASE Propose
  BY <1>1, ProposeTyped
<1>2. CASE Verify
  <2>1. /\ gen.phase = "verifying"
        /\ step' = Begun(gen.cached, SubSeq(Full, gen.cached + 1, Len(Full)), TRUE)
        /\ gen' = [gen EXCEPT !.phase = "waiting"]
        /\ Quiet /\ draft' = draft
    BY <1>2 DEF Verify, Quiet
  <2>2. gen' = [gen EXCEPT !.phase = "waiting", !.replays = gen.replays]
    BY <2>1 DEF TypeInv, GenTyped, Gens
  <2>3. gen.replays <= MaxRecoveries
    BY DEF TypeInv, GenTyped
  <2> QED BY <2>1, <2>2, <2>3, SendTyped
<1>3. CASE Recover
  <2>1. step.phase = "missed" /\ gen.phase = "waiting" /\ Quiet /\ draft' = draft
    BY <1>3 DEF Recover, Quiet, TypeInv, GenTyped
  <2>2. CASE gen.replays < MaxRecoveries
    <3>1. step' = Begun(0, Full, TRUE) /\ gen' = [gen EXCEPT !.replays = gen.replays + 1]
      BY <1>3, <2>2 DEF Recover, Counted
    <3>2. gen' = [gen EXCEPT !.phase = "waiting", !.replays = gen.replays + 1]
      BY <2>1, <3>1 DEF TypeInv, GenTyped, Gens
    <3>3. Full = SubSeq(Full, 0 + 1, Len(Full))
      <4>1. Full \in Seq(BOOLEAN)
        BY FullTyped DEF TypeInv
      <4>2. \A q \in Seq(BOOLEAN) : q = SubSeq(q, 0 + 1, Len(q))
        OBVIOUS
      <4> QED BY <4>1, <4>2, Zenon
    <3>4. gen.replays + 1 <= MaxRecoveries
      BY <2>2 DEF TypeInv, GenTyped, Gens
    <3> QED BY <2>1, <3>1, <3>2, <3>3, <3>4, SendTyped
  <2>3. CASE ~(gen.replays < MaxRecoveries)
    BY <1>3, <2>1, <2>3, GiveUpTyped DEF Recover
  <2> QED BY <2>2, <2>3
<1>4. CASE TaskFailed
  BY <1>4, GiveUpTyped DEF TaskFailed, Quiet
<1>5. CASE EndRound
  BY <1>5, EndRoundTyped
<1>6. CASE Close
  <2>1. Pipe(BOOLEAN)'
    BY <1>6, PipeClosing DEF Close, TypeInv
  <2>2. /\ gen' = [gen EXCEPT !.phase = "done"] /\ gen.phase = "closing"
        /\ step' = step /\ draft' = draft
    BY <1>6 DEF Close
  <2>3. /\ gen' \in Gens /\ gen'.phase = "done" /\ gen'.replays = gen.replays
        /\ gen'.sequence = gen.sequence /\ gen'.cached = gen.cached
        /\ gen'.proposal = gen.proposal
    BY <2>2 DEF Gens, TypeInv, GenTyped
  <2> HIDE DEF Gens
  <2>4. GenTyped' /\ RoundInv' /\ DraftInv'
    BY <2>2, <2>3 DEF TypeInv, GenTyped, Active, RoundInv, DraftInv
  <2> QED BY <2>1, <2>4 DEF TypeInv
<1> QED BY <1>1, <1>2, <1>3, <1>4, <1>5, <1>6 DEF Client

\* On its way through the pipeline a step keeps what it runs, and each role
\* answers as many hidden states as it is given.
LEMMA PipeStepLength ==
    ASSUME Pipe(BOOLEAN), PipeStep
    PROVE  /\ step'.start = step.start /\ step'.new = step.new
           /\ (step.phase \in {"running", "answered"} => Len(step.at) = Len(step.new)) =>
                 (step'.phase \in {"running", "answered"} => Len(step'.at) = Len(step'.new))
<1>1. step \in Steps(BOOLEAN)
  BY DEF Pipe
<1>2. ASSUME NEW w \in Workers, Run(w)
      PROVE  /\ step'.start = step.start /\ step'.new = step.new /\ step.phase = "running"
             /\ step'.phase \in {"running", "answered"} => Len(step'.at) = Len(step.at)
  <2>1. step.phase = "running"
    BY <1>2, RunEffect DEF Running
  <2>2. CASE step' = [step EXCEPT !.phase = "missed", !.at = <<>>]
    BY <1>1, <2>1, <2>2 DEF Steps
  <2>3. CASE step' = [step EXCEPT !.phase = "failed", !.at = <<>>]
    BY <1>1, <2>1, <2>3 DEF Steps
  <2>4. ASSUME NEW hidden \in Seq(BOOLEAN), Len(hidden) = Len(step.at),
               \/ step' = [step EXCEPT !.hop = @ + 1, !.at = hidden]
               \/ step' = [step EXCEPT !.phase = "answered", !.at = hidden]
        PROVE  /\ step'.start = step.start /\ step'.new = step.new
               /\ Len(step'.at) = Len(step.at)
    BY <1>1, <2>4 DEF Steps
  <2>5. \/ step' = [step EXCEPT !.phase = "missed", !.at = <<>>]
        \/ step' = [step EXCEPT !.phase = "failed", !.at = <<>>]
        \/ \E hidden \in Seq(BOOLEAN) :
              /\ Len(hidden) = Len(step.at)
              /\ \/ step' = [step EXCEPT !.hop = @ + 1, !.at = hidden]
                 \/ step' = [step EXCEPT !.phase = "answered", !.at = hidden]
    BY <1>2, RunEffect, Zenon
  <2> QED BY <2>1, <2>2, <2>3, <2>4, <2>5
<1>3. ASSUME Lose
      PROVE  /\ step'.start = step.start /\ step'.new = step.new
             /\ step'.phase \in {"running", "answered"} => step'.at = step'.new
  BY <1>1, <1>3 DEF Lose, Running, Resent, Steps
<1>4. \/ \E w \in Workers : Run(w)
      \/ Lose
      \/ step' = step
  BY DEF PipeStep, Stall, RunLate, RunOrphan, Forget, Move, Repeat
<1>5. CASE \E w \in Workers : Run(w)
  BY <1>2, <1>5
<1>6. CASE Lose
  BY <1>3, <1>6
<1> QED BY <1>4, <1>5, <1>6

LEMMA PipeTyped ==
    ASSUME TypeInv, PipeStep, UNCHANGED <<gen, draft>>
    PROVE  TypeInv'
<1>1. Pipe(BOOLEAN)' /\ (step'.phase # "idle" \/ step.phase = "idle")
  BY AnyBits, PipeStepKept DEF TypeInv
<1>2. step.phase # "running" => step' = step
  BY PipeStepFrame
<1>3. step'.phase = "idle" <=> step.phase = "idle"
  BY <1>1, <1>2
<1>4. GenTyped'
  BY <1>3 DEF TypeInv, GenTyped, Active
<1>5. RoundInv'
  <2>1. Full' = Full
    BY DEF Full
  <2>2. step'.start = step.start /\ step'.new = step.new
    BY PipeStepLength DEF TypeInv
  <2>3. step'.phase \in {"running", "answered"} => Len(step'.at) = Len(step'.new)
    BY PipeStepLength DEF TypeInv, RoundInv
  <2>4. SubSeq(Full', step'.start + 1, Len(Full')) = SubSeq(Full, step.start + 1, Len(Full))
    BY <2>1, <2>2
  <2> QED BY <2>2, <2>3, <2>4 DEF TypeInv, RoundInv
<1>6. DraftInv'
  BY DEF TypeInv, DraftInv
<1> QED BY <1>1, <1>4, <1>5, <1>6 DEF TypeInv

LEMMA TypeStep == TypeInv /\ [Next]_vars => TypeInv'
<1> SUFFICES ASSUME TypeInv, [Next]_vars PROVE TypeInv'
  OBVIOUS
<1>1. CASE UNCHANGED vars
  BY <1>1 DEF vars, TypeInv, GenTyped, Active, RoundInv, Full, DraftInv, Pipe
<1> QED BY <1>1, ClientTyped, PipeTyped DEF Next

\* Every state of a speculative generation is well-typed: a round never counts
\* on a token it has not found, so that something is left for the stages to run,
\* no more tokens are emitted than were asked for and no replay is one too many.
THEOREM TypeCorrect == Spec => []TypeOK
BY TypeInit, TypeStep, TypeInvIsTypeOK, PTL DEF Spec

\* Whatever was accepted, the draft model goes on from a part of the sequence
\* and has at least one token to be fed.
THEOREM DraftFollowsTheSequence == Spec => []DraftFollows
<1>1. TypeInv => DraftFollows
  BY DEF TypeInv, DraftInv, DraftFollows
<1> QED BY <1>1, TypeInit, TypeStep, PTL DEF Spec

-----------------------------------------------------------------------------
(* Sound positions *)

\* q holds what the model computes at the positions S, as far as it reaches.
TrueAt(q, S) == \A i \in DOMAIN q : i \in S => q[i] \in {TRUE}

\* The input new for the positions after start is right at those of S.
Follows(start, new, S) == \A i \in DOMAIN new : start + i \in S => new[i] \in {TRUE}

HoldsAt(st, S) == Keeps(st, Session) => TrueAt(st.cache[Session], S)

\* Where all before it is right too.
Downward(S) == \A i \in S : 1 .. i \subseteq S

\* What a forward adds to a cache that is right is right where its input is.
LEMMA ExtendedSound ==
    ASSUME NEW cache \in Seq(BOOLEAN), NEW new \in Seq(BOOLEAN), NEW start \in Nat,
           Len(cache) = start, \A j \in DOMAIN cache : cache[j] \in {TRUE},
           NEW S \in SUBSET Nat, Downward(S), Follows(start, new, S)
    PROVE  LET grown == Extended(cache, start, new)
           IN  /\ grown \in Seq(BOOLEAN) /\ Len(grown) = start + Len(new)
               /\ TrueAt(grown, S)
               /\ Follows(start, SubSeq(grown, Len(cache) + 1, Len(grown)), S)
<1> DEFINE row == [i \in DOMAIN new |-> /\ Len(cache) = start
                                        /\ \A j \in DOMAIN cache : cache[j]
                                        /\ \A j \in 1 .. i : new[j]]
           m == Len(new)
<1>1. DOMAIN new = 1 .. m /\ m \in Nat
  OBVIOUS
<1>2. \A i \in DOMAIN new : row[i] \in BOOLEAN
  <2>1. \A i \in DOMAIN new : row[i] = TRUE \/ row[i] = FALSE
    OBVIOUS
  <2> HIDE DEF row
  <2> QED BY <2>1
<1>3. row \in Seq(BOOLEAN) /\ Len(row) = m
  <2>1. DOMAIN row = 1 .. m
    BY <1>1
  <2>2. row = [i \in DOMAIN new |-> row[i]]
    OBVIOUS
  <2> HIDE DEF row, m
  <2>3. row \in [1 .. m -> BOOLEAN]
    BY <1>1, <1>2, <2>2
  <2> QED BY <1>1, <2>3
<1>4. ASSUME NEW i \in 1 .. m, start + i \in S PROVE row[i] \in {TRUE}
  <2>1. \A j \in DOMAIN cache : cache[j]
    BY Zenon
  <2>2. \A j \in 1 .. i : new[j]
    <3>1. ASSUME NEW j \in 1 .. i PROVE new[j] \in {TRUE}
      <4>1. start + j \in 1 .. start + i /\ j \in DOMAIN new
        BY <1>1
      <4>2. start + j \in S
        BY <1>4, <4>1 DEF Downward
      <4> QED BY <4>1, <4>2 DEF Follows
    <3> QED BY <3>1, Zenon
  <2>3. i \in DOMAIN new
    BY <1>1
  <2>4. row[i] = (Len(cache) = start /\ (\A j \in DOMAIN cache : cache[j])
                  /\ \A j \in 1 .. i : new[j])
    BY <2>3
  <2> HIDE DEF row
  <2> QED BY <2>1, <2>2, <2>4, Zenon
<1> DEFINE grown == cache \o row
<1>5. Extended(cache, start, new) = grown
  BY DEF Extended
<1> HIDE DEF row
<1>6. /\ grown \in Seq(BOOLEAN) /\ Len(grown) = start + m
      /\ \A i \in 1 .. start : grown[i] = cache[i]
      /\ \A i \in 1 .. m : grown[start + i] = row[i]
  <2>1. /\ grown \in Seq(BOOLEAN) /\ Len(grown) = Len(cache) + Len(row)
        /\ \A i \in 1 .. Len(cache) : grown[i] = cache[i]
        /\ \A i \in 1 .. Len(row) : grown[Len(cache) + i] = row[i]
    <3>1. grown \in Seq(BOOLEAN)
      BY <1>3, Joined
    <3>2. Len(grown) = Len(cache) + Len(row)
      <4>1. \A a, b \in Seq(BOOLEAN) : Len(a \o b) = Len(a) + Len(b)
        BY Joined
      <4> QED BY <1>3, <4>1, Zenon
    <3>3. \A i \in 1 .. Len(cache) : grown[i] = cache[i]
      BY <1>3, Joined
    <3>4. \A i \in 1 .. Len(row) : grown[Len(cache) + i] = row[i]
      BY <1>3, Joined
    <3> QED BY <3>1, <3>2, <3>3, <3>4
  <2> HIDE DEF grown, m
  <2> QED BY <1>3, <2>1
<1> HIDE DEF grown, m
<1>7. TrueAt(grown, S)
  <2>3. DOMAIN grown = 1 .. start + m
    BY <1>6
  <2> SUFFICES ASSUME NEW i \in 1 .. start + m, i \in S PROVE grown[i] \in {TRUE}
    BY <2>3, Zenon DEF TrueAt
  <2>1. CASE i <= start
    <3>1. i \in 1 .. start /\ i \in DOMAIN cache
      BY <1>1, <2>1
    <3> QED BY <1>6, <3>1, Zenon
  <2>2. CASE i > start
    <3> DEFINE j == i - start
    <3>1. j \in 1 .. m /\ start + j = i
      BY <1>1, <2>2
    <3> HIDE DEF j
    <3>2. grown[start + j] = row[j]
      BY <1>6, <3>1
    <3>3. row[j] \in {TRUE}
      BY <1>4, <3>1
    <3>4. grown[i] = row[j]
      BY <3>1, <3>2
    <3> QED BY <3>3, <3>4, Zenon
  <2>4. i <= start \/ i > start
    BY <1>1
  <2> QED BY <2>1, <2>2, <2>4, Zenon
<1> DEFINE out == SubSeq(grown, start + 1, Len(grown))
<1>8. Follows(start, out, S)
  <2>1. /\ start + 1 \in Nat /\ Len(grown) \in Nat /\ 1 <= start + 1
        /\ start + 1 <= Len(grown) + 1 /\ Len(grown) + 1 - (start + 1) = m
    BY <1>1, <1>6
  <2>2. /\ out \in Seq(BOOLEAN) /\ Len(out) = Len(grown) + 1 - (start + 1)
        /\ \A i \in 1 .. Len(grown) + 1 - (start + 1) : out[i] = grown[start + 1 + i - 1]
    BY <1>6, <2>1, PartOf
  <2> HIDE DEF out
  <2>3. /\ DOMAIN out = 1 .. m
        /\ \A i \in 1 .. m : out[i] = grown[start + i]
    <3>1. \A i \in 1 .. m : start + 1 + i - 1 = start + i
      BY <1>1
    <3>2. Len(out) = m
      BY <2>1, <2>2
    <3> QED BY <2>1, <2>2, <3>1, <3>2
  <2> QED BY <1>4, <1>6, <2>3 DEF Follows
<1> QED BY <1>5, <1>6, <1>7, <1>8 DEF m, out

\* What handle continues is right up to start.
LEMMA PositionedSound ==
    ASSUME NEW st \in Stage(BOOLEAN), Exact(st), NEW p \in Requests(BOOLEAN),
           NEW n \in Nat, p.start <= n, HoldsAt(st, 1 .. n), Positioned(st, p).there
    PROVE  /\ Positioned(st, p).cache \in Seq(BOOLEAN)
           /\ Len(Positioned(st, p).cache) = p.start
           /\ \A j \in DOMAIN Positioned(st, p).cache : Positioned(st, p).cache[j] \in {TRUE}
<1>1. p.start \in Nat /\ p.session = Session /\ p \in Payload /\ p.rewind \in BOOLEAN
  BY RequestsArePayloads DEF Requests, Allowed
<1>2. /\ Positioned(st, p).cache \in Seq(BOOLEAN)
      /\ Len(Positioned(st, p).cache) = p.start
  BY <1>1, PositionedOne
<1>3. CASE p.start = 0
  <2>1. Positioned(st, p).cache = <<>>
    BY <1>3 DEF Positioned
  <2> QED BY <1>2, <2>1
<1>4. CASE p.start # 0
  <2> DEFINE c == st.cache[Session]
             k == st.length[Session]
             t == SubSeq(c, 1, p.start)
  <2>1. Keeps(st, Session)
    BY <1>1, <1>4, PositionedOne
  <2>2. c \in Seq(BOOLEAN) /\ k = Len(c)
    BY <2>1, OrdersOfOne DEF Keeps, Stage, Bare, Filled, Exact
  <2>3. \A j \in DOMAIN c : j \in 1 .. n => c[j] \in {TRUE}
    BY <2>1 DEF HoldsAt, TrueAt
  <2> DEFINE found == Positioned(st, p).cache
             a == p.start
  <2>4. found = c \/ (found = t /\ a < k)
    BY <1>1, <1>4, <2>1 DEF Positioned
  <2>5. a \in Nat /\ a <= n /\ found \in Seq(BOOLEAN) /\ Len(found) = a
    BY <1>1, <1>2
  <2>6. k \in Nat /\ DOMAIN c = 1 .. k
    BY <2>2
  <2>7. found = t /\ a < k => \A j \in 1 .. a : found[j] = c[j]
    <3> SUFFICES ASSUME found = t, a < k PROVE \A j \in 1 .. a : found[j] = c[j]
      OBVIOUS
    <3> HIDE DEF c, k, a
    <3>1. 1 \in Nat /\ a \in Nat /\ 1 <= 1 /\ 1 <= a + 1 /\ a <= Len(c) /\ a + 1 - 1 = a
      BY <2>2, <2>5, <2>6
    <3>2. \A j \in 1 .. a + 1 - 1 : SubSeq(c, 1, a)[j] = c[1 + j - 1]
      BY <2>2, <3>1, PartOf
    <3>3. found = SubSeq(c, 1, a)
      BY DEF c, a
    <3> HIDE DEF found, t
    <3> QED BY <3>1, <3>2, <3>3
  <2> HIDE DEF found, c, a, k, t
  <2>8. ASSUME NEW j \in DOMAIN found PROVE found[j] \in {TRUE}
    <3>1. j \in 1 .. a /\ j \in 1 .. n
      BY <2>5
    <3>2. CASE found = c
      BY <2>3, <3>1, <3>2
    <3>3. CASE found = t /\ a < k
      <4>1. j \in DOMAIN c
        BY <2>5, <2>6, <3>1, <3>3
      <4> QED BY <2>3, <2>7, <3>1, <3>3, <4>1
    <3> QED BY <2>4, <3>2, <3>3
  <2> QED BY <1>2, <2>8, Zenon DEF found
<1> QED BY <1>3, <1>4

\* A stage that is right up to n stays so, and what it runs becomes right, as
\* its answer is, wherever the input is: rejected tokens are cropped before.
LEMMA HandledSound ==
    ASSUME NEW st \in Stage(BOOLEAN), Exact(st), NEW p \in Requests(BOOLEAN),
           NEW o \in Handled(st, p), "output" \notin Failures,
           NEW n \in Nat, p.start <= n, HoldsAt(st, 1 .. n),
           NEW S \in SUBSET Nat, Downward(S), 1 .. n \subseteq S, Follows(p.start, p.new, S)
    PROVE  /\ Exact(o.stage)
           /\ HoldsAt(o.stage, 1 .. n)
           /\ o.answer.kind = "hidden_states" =>
                 HoldsAt(o.stage, S) /\ Follows(p.start, o.answer.hidden, S)
<1> DEFINE at == Positioned(st, p)
           grown == Extended(at.cache, p.start, p.new)
           out == SubSeq(grown, Len(at.cache) + 1, Len(grown))
<1>1. /\ p.start \in Nat /\ p.session = Session /\ p \in Payload
      /\ p.new \in Seq(BOOLEAN) /\ p.close = FALSE
  BY RequestsArePayloads DEF Requests, Allowed
<1>2. Exact(o.stage)
  BY <1>1, HandledOne DEF Allowed, Trusted
<1>3. at.there => /\ at.cache \in Seq(BOOLEAN) /\ Len(at.cache) = p.start
                  /\ \A j \in DOMAIN at.cache : at.cache[j] \in {TRUE}
  BY PositionedSound
<1>4. at.there => /\ grown \in Seq(BOOLEAN) /\ Len(grown) = p.start + Len(p.new)
                  /\ TrueAt(grown, S) /\ Follows(p.start, out, S)
  <2> HIDE DEF at
  <2> QED BY <1>1, <1>3, ExtendedSound
<1>5. \A q : TrueAt(q, S) => TrueAt(q, 1 .. n)
  BY DEF TrueAt
<1>6. \A c, k : Keeping(c, k).cache[Session] = c
  BY DEF Keeping
<1>7. /\ Miss.kind # "hidden_states" /\ Error.kind # "hidden_states"
  BY DEF Miss, Error
<1>8. ~Keeps(Without(st, {Session}), Session)
  <2>1. Without(st, {Session}) \in Bare(BOOLEAN)
    BY WithoutOne
  <2> QED BY <2>1, OrdersOfOne DEF Bare, Keeps
<1>9. at.there /\ p.start # 0 => Cropped(st, p) = Keeping(at.cache, p.start)
  <2>1. at.there /\ p.start # 0 => Keeps(st, Session)
    BY <1>1, PositionedOne
  <2> QED BY <1>1, <2>1, CroppedOne
<1> HIDE DEF at, grown, out
<1>10. \/ ~at.there /\ o = [stage |-> st, answer |-> Miss]
       \/ at.there /\ o = [stage |-> Cropped(st, p), answer |-> Error]
       \/ o = [stage |-> Without(st, {Session}), answer |-> Error]
       \/ /\ at.there
          /\ o.stage \in AfterUse(st, grown, p.start + Len(p.new))
          /\ o = [stage |-> o.stage, answer |-> Hidden(out)]
  BY <1>1, HandledCases DEF at, grown, out, AfterUse
<1>11. CASE ~at.there /\ o = [stage |-> st, answer |-> Miss]
  BY <1>2, <1>7, <1>11
<1>12. CASE at.there /\ o = [stage |-> Cropped(st, p), answer |-> Error]
  <2>1. CASE p.start = 0
    BY <1>2, <1>7, <1>12, <2>1 DEF Cropped
  <2>2. CASE p.start # 0
    <3>1. o.stage = Keeping(at.cache, p.start)
      BY <1>9, <1>12, <2>2
    <3>2. TrueAt(o.stage.cache[Session], 1 .. n)
      <4>1. o.stage.cache[Session] = at.cache
        BY <1>6, <3>1
      <4> QED BY <1>3, <1>12, <4>1, Zenon DEF TrueAt
    <3> QED BY <1>2, <1>7, <1>12, <3>2 DEF HoldsAt
  <2> QED BY <2>1, <2>2
<1>13. CASE o = [stage |-> Without(st, {Session}), answer |-> Error]
  BY <1>2, <1>7, <1>8, <1>13 DEF HoldsAt
<1>14. CASE /\ at.there
            /\ o.stage \in AfterUse(st, grown, p.start + Len(p.new))
            /\ o = [stage |-> o.stage, answer |-> Hidden(out)]
  <2> DEFINE length == p.start + Len(p.new)
  <2>1. length \in Nat /\ length <= Len(grown) /\ grown \in Seq(BOOLEAN)
    BY <1>1, <1>4, <1>14
  <2>2. o.stage = Keeping(grown, length)
    <3> HIDE DEF length
    <3>1. o.stage \in AfterUse(st, grown, length)
      BY <1>14 DEF length
    <3>2. \A c \in Seq(BOOLEAN), k \in Nat :
            \A after \in AfterUse(st, c, k) : k <= Len(c) => after = Keeping(c, k)
      BY KeptAfterUse
    <3> QED BY <2>1, <3>1, <3>2, Zenon
  <2>3. TrueAt(o.stage.cache[Session], S)
    BY <1>4, <1>6, <1>14, <2>2
  <2>4. o.answer.hidden = out
    BY <1>14 DEF Hidden
  <2> QED BY <1>2, <1>4, <1>5, <1>14, <2>3, <2>4 DEF HoldsAt
<1> QED BY <1>10, <1>11, <1>12, <1>13, <1>14

-----------------------------------------------------------------------------
(* The output *)

\* Every role is served by one worker, so that a session never moves.
OnePerRole == \A v, w \in Workers : RoleOf[v] = RoleOf[w] => v = w

\* The positions of sequence and proposal up to which all tokens are the model's.
Sound == {i \in 0 .. Len(Full) : \A j \in 1 .. i : Full[j] \in {TRUE}}

\* Workers whose role has run the step under way.
Ran(w) == \/ step.phase = "answered"
          \/ step.phase = "running" /\ RoleOf[w] < step.hop

\* What the stages are taken to hold is right; beyond it a stage may hold
\* rejected tokens until it has run the step under way, which crops them.
CachesInv ==
    /\ \A w \in Workers : Exact(stages[w]) /\ HoldsAt(stages[w], 1 .. gen.cached)
    /\ gen.phase # "waiting" => \A w \in Workers : late[w] = Idle
    /\ gen.phase = "waiting" =>
          /\ step.phase \in {"running", "answered"} => Follows(step.start, step.at, Sound)
          /\ \A w \in Workers : late[w] # Idle =>
                late[w].start <= gen.cached /\ Follows(late[w].start, late[w].new, Sound)
          /\ \A w \in Workers : Ran(w) => late[w] = Idle /\ HoldsAt(stages[w], Sound)

GreedyInv ==
    /\ TypeInv
    /\ faulty = {}
    /\ gen.sequence \in Seq({TRUE})
    /\ Active => CachesInv

\* Which positions are sound.
LEMMA SoundPositions ==
    ASSUME TypeInv, gen.sequence \in Seq({TRUE})
    PROVE  /\ Sound \in SUBSET Nat /\ Downward(Sound)
           /\ \A i \in 1 .. Len(Full) : i \in Sound => Full[i] \in {TRUE}
           /\ \A k \in 0 .. Len(gen.proposal) :
                 (\A j \in 1 .. k : gen.proposal[j] \in {TRUE}) =>
                    1 .. Len(gen.sequence) + k \subseteq Sound
<1> DEFINE n == Len(gen.sequence)
           p == Len(gen.proposal)
           f == Full
<1>1. /\ f \in Seq(BOOLEAN) /\ Len(f) = n + p /\ n \in Nat /\ p \in Nat
      /\ gen.sequence \in Seq(BOOLEAN) /\ gen.proposal \in Seq(BOOLEAN)
  BY FullTyped DEF TypeInv
<1>2. \A i \in 1 .. n : f[i] = gen.sequence[i]
  <2>1. \A a, b \in Seq(BOOLEAN) : \A i \in 1 .. Len(a) : (a \o b)[i] = a[i]
    BY Joined
  <2> QED BY <1>1, <2>1, Zenon DEF Full
<1>3. \A i \in 1 .. p : f[n + i] = gen.proposal[i]
  <2>1. \A a, b \in Seq(BOOLEAN) : \A i \in 1 .. Len(b) : (a \o b)[Len(a) + i] = b[i]
    BY Joined
  <2> QED BY <1>1, <2>1, Zenon DEF Full
<1>4. \A i \in 1 .. n : gen.sequence[i] \in {TRUE}
  BY EntriesAreMembers, Zenon
<1>5. Sound = {i \in 0 .. Len(f) : \A j \in 1 .. i : f[j] \in {TRUE}}
  BY DEF Sound
<1> HIDE DEF n, p, f
<1>6. Sound \in SUBSET Nat
  <2>1. 0 .. Len(f) \subseteq Nat
    BY <1>1
  <2> QED BY <1>5, <2>1, Zenon
<1>7. Downward(Sound)
  <2> SUFFICES ASSUME NEW i \in Sound, NEW k \in 1 .. i PROVE k \in Sound
    BY Zenon DEF Downward
  <2>1. i \in 0 .. Len(f) /\ \A j \in 1 .. i : f[j] \in {TRUE}
    BY <1>5
  <2>2. k \in 0 .. Len(f) /\ \A j \in 1 .. k : j \in 1 .. i
    BY <1>1, <2>1
  <2>3. \A j \in 1 .. k : f[j] \in {TRUE}
    BY <2>1, <2>2, Zenon
  <2> QED BY <1>5, <2>2, <2>3, Zenon
<1>8. \A i \in 1 .. Len(f) : i \in Sound => f[i] \in {TRUE}
  <2> SUFFICES ASSUME NEW i \in 1 .. Len(f), i \in Sound PROVE f[i] \in {TRUE}
    BY Zenon
  <2>1. i \in 1 .. i
    BY <1>1
  <2> QED BY <1>5, <2>1, Zenon
<1>9. ASSUME NEW k \in 0 .. p, \A j \in 1 .. k : gen.proposal[j] \in {TRUE},
             NEW i \in 1 .. n + k
      PROVE  i \in Sound
  <2>1. i \in 0 .. Len(f)
    BY <1>1
  <2>2. ASSUME NEW j \in 1 .. i PROVE f[j] \in {TRUE}
    <3>1. CASE j <= n
      <4>1. j \in 1 .. n
        BY <1>1, <3>1
      <4> QED BY <1>2, <1>4, <4>1, Zenon
    <3>2. CASE j > n
      <4> DEFINE m == j - n
      <4>1. m \in 1 .. p /\ m \in 1 .. k /\ n + m = j
        BY <1>1, <3>2
      <4> HIDE DEF m
      <4>2. f[n + m] = gen.proposal[m]
        BY <1>3, <4>1
      <4>3. f[j] = gen.proposal[m]
        BY <4>1, <4>2
      <4>4. gen.proposal[m] \in {TRUE}
        BY <1>9, <4>1, Zenon
      <4> QED BY <4>3, <4>4, Zenon
    <3>3. j <= n \/ j > n
      BY <1>1
    <3> QED BY <3>1, <3>2, <3>3, Zenon
  <2> QED BY <1>5, <2>1, <2>2, Zenon
<1>10. \A k \in 0 .. p : (\A j \in 1 .. k : gen.proposal[j] \in {TRUE}) =>
          1 .. n + k \subseteq Sound
  BY <1>9, Zenon
<1> QED BY <1>6, <1>7, <1>8, <1>10, Zenon DEF n, p, f

\* What the stages are taken to hold is sound.
LEMMA CachedIsSound ==
    ASSUME TypeInv, gen.sequence \in Seq({TRUE}), Active
    PROVE  1 .. gen.cached \subseteq Sound
<1> DEFINE n == Len(gen.sequence)
<1>1. 1 .. n + 0 \subseteq Sound
  <2>1. 0 \in 0 .. Len(gen.proposal) /\ \A j \in 1 .. 0 : gen.proposal[j] \in {TRUE}
    BY FullTyped DEF TypeInv
  <2> QED BY <2>1, SoundPositions
<1>2. n \in Nat /\ gen.cached \in Nat /\ gen.cached < n
  BY FullTyped DEF TypeInv, GenTyped
<1> HIDE DEF n
<1> QED BY <1>1, <1>2

\* A step begins with an input that is right at the sound positions.
LEMMA FullFollows ==
    ASSUME TypeInv, gen.sequence \in Seq({TRUE}), NEW start \in Nat,
           start < Len(gen.sequence)
    PROVE  Follows(start, SubSeq(Full, start + 1, Len(Full)), Sound)
<1> DEFINE f == Full
           m == Len(Full)
           new == SubSeq(f, start + 1, m)
<1>1. f \in Seq(BOOLEAN) /\ m \in Nat /\ m = Len(f) /\ start < m
  <2>1. /\ f \in Seq(BOOLEAN) /\ m = Len(gen.sequence) + Len(gen.proposal)
        /\ Len(gen.sequence) \in Nat /\ Len(gen.proposal) \in Nat
    BY FullTyped DEF TypeInv
  <2> DEFINE n == Len(gen.sequence)
             p == Len(gen.proposal)
  <2>3. m = n + p /\ n \in Nat /\ p \in Nat /\ start < n
    BY <2>1
  <2> HIDE DEF m, f, n, p
  <2>2. m \in Nat /\ start < m
    BY <2>3
  <2> QED BY <2>1, <2>2 DEF m, f
<1>2. \A i \in 1 .. m : i \in Sound => f[i] \in {TRUE}
  BY SoundPositions
<1> HIDE DEF f, m
<1>3. /\ start + 1 \in Nat /\ 1 <= start + 1 /\ start + 1 <= m + 1 /\ m <= Len(f)
      /\ m + 1 - (start + 1) = m - start
  BY <1>1
<1>4. /\ new \in Seq(BOOLEAN) /\ Len(new) = m + 1 - (start + 1)
      /\ \A i \in 1 .. m + 1 - (start + 1) : new[i] = f[start + 1 + i - 1]
  <2> DEFINE a == start + 1
  <2>1. f \in Seq(BOOLEAN) /\ a \in Nat /\ m \in Nat /\ 1 <= a /\ a <= m + 1 /\ m <= Len(f)
    BY <1>1, <1>3
  <2> HIDE DEF a
  <2>2. /\ SubSeq(f, a, m) \in Seq(BOOLEAN) /\ Len(SubSeq(f, a, m)) = m + 1 - a
        /\ \A i \in 1 .. m + 1 - a : SubSeq(f, a, m)[i] = f[a + i - 1]
    BY <2>1, PartOf
  <2> QED BY <2>2 DEF a
<1> HIDE DEF new
<1>5. DOMAIN new = 1 .. m - start
  BY <1>3, <1>4
<1>6. ASSUME NEW i \in DOMAIN new, start + i \in Sound PROVE new[i] \in {TRUE}
  <2>1. i \in 1 .. m - start /\ start + 1 + i - 1 = start + i /\ start + i \in 1 .. m
    BY <1>1, <1>5
  <2>2. new[i] = f[start + i]
    BY <1>3, <1>4, <2>1
  <2>3. f[start + i] \in {TRUE}
    BY <1>2, <1>6, <2>1, Zenon
  <2> QED BY <2>2, <2>3, Zenon
<1> QED BY <1>6, Zenon DEF Follows, new, f, m

\* Accepted tokens are the model's: the first that were not would follow tokens
\* that are, so that the prediction for it were the model's, and they would differ.
LEMMA AcceptedAreSound ==
    ASSUME TypeInv, gen.sequence \in Seq({TRUE}), step.phase = "answered",
           Follows(step.start, step.at, Sound),
           NEW accepted \in 0 .. Len(gen.proposal), Agrees(accepted, Predictions)
    PROVE  /\ \A i \in 1 .. accepted : gen.proposal[i] \in {TRUE}
           /\ Predictions[accepted + 1] \in {TRUE}
<1> DEFINE n == Len(gen.sequence)
           p == Len(gen.proposal)
           start == step.start
           q == gen.proposal
<1>1. n \in Nat /\ p \in Nat
  BY FullTyped DEF TypeInv
<1>2. /\ start \in Nat /\ start < n /\ Len(step.at) = n + p - start
      /\ \A i \in 1 .. p + 1 : Predictions[i] = step.at[n - start + i - 1]
  BY PredictionsTyped
<1>3. step.at \in Seq(BOOLEAN)
  BY DEF TypeInv, Pipe, Steps
<1>4. \A i \in 1 .. accepted : q[i] = Predictions[i]
  BY DEF Agrees
<1>5. \A i \in DOMAIN step.at : start + i \in Sound => step.at[i] \in {TRUE}
  BY Zenon DEF Follows
<1>6. \A k \in 0 .. p : (\A j \in 1 .. k : q[j] \in {TRUE}) => 1 .. n + k \subseteq Sound
  BY SoundPositions
<1> HIDE DEF n, p, start, q
<1>7. ASSUME NEW k \in 0 .. p, \A j \in 1 .. k : q[j] \in {TRUE}
      PROVE  Predictions[k + 1] \in {TRUE}
  <2> DEFINE i == n - start + (k + 1) - 1
  <2>1. /\ i \in 1 .. n + p - start /\ start + i = n + k /\ k + 1 \in 1 .. p + 1
        /\ n + k \in 1 .. n + k
    BY <1>1, <1>2
  <2>2. i \in DOMAIN step.at
    BY <1>1, <1>2, <1>3, <2>1
  <2>3. 1 .. n + k \subseteq Sound
    BY <1>6, <1>7, Zenon
  <2>4. Predictions[k + 1] = step.at[i]
    BY <1>2, <2>1
  <2> HIDE DEF i
  <2>5. start + i \in Sound
    BY <2>1, <2>3
  <2>6. step.at[i] \in {TRUE}
    BY <1>5, <2>2, <2>5, Zenon
  <2> QED BY <2>4, <2>6, Zenon
<1> DEFINE wrong == {i \in 1 .. accepted : q[i] \notin {TRUE}}
<1>8. accepted \in Nat /\ accepted <= p
  BY <1>1 DEF p
<1>9. wrong = {}
  <2> SUFFICES ASSUME wrong # {} PROVE FALSE
    OBVIOUS
  <2>1. wrong \in SUBSET Nat
    <3>1. 1 .. accepted \subseteq Nat
      BY <1>8
    <3> QED BY <3>1, Zenon
  <2> HIDE DEF wrong
  <2>2. PICK m \in wrong : \A i \in wrong : m <= i
    BY <2>1, Smallest
  <2>3. m \in 1 .. accepted /\ q[m] \notin {TRUE}
    BY Zenon DEF wrong
  <2> DEFINE k == m - 1
  <2>4. k \in 0 .. p /\ k + 1 = m
    <3>1. m \in 1 .. accepted
      BY <2>3
    <3> QED BY <1>1, <1>8, <3>1
  <2>5. ASSUME NEW j \in 1 .. k PROVE q[j] \in {TRUE}
    <3>1. j \in 1 .. accepted /\ ~(m <= j)
      BY <1>8, <2>3
    <3>2. j \notin wrong
      BY <2>2, <3>1
    <3> QED BY <3>1, <3>2, Zenon DEF wrong
  <2> HIDE DEF k
  <2>6. Predictions[k + 1] \in {TRUE}
    BY <1>7, <2>4, <2>5, Zenon
  <2>7. Predictions[m] \in {TRUE}
    BY <2>4, <2>6
  <2>8. q[m] = Predictions[m]
    BY <1>4, <2>3, Zenon
  <2> QED BY <2>3, <2>7, <2>8, Zenon
<1>10. \A i \in 1 .. accepted : q[i] \in {TRUE}
  BY <1>9, Zenon DEF wrong
<1>11. accepted \in 0 .. p
  BY <1>8
<1> QED BY <1>7, <1>10, <1>11, Zenon DEF q

\* A token that is the model's is TRUE.
LEMMA ListsAreSequences ==
    ASSUME NEW B PROVE \A q \in [1 .. PromptLength -> B] : q \in Seq(B)
OBVIOUS

LEMMA GreedyInit ==
    ASSUME FaultSets \subseteq {{}}
    PROVE  Init => GreedyInv
<1> SUFFICES ASSUME Init PROVE GreedyInv
  OBVIOUS
<1>1. TypeInv /\ faulty = {}
  BY TypeInit DEF Init, PipeInit
<1> DEFINE prompt == [i \in 1 .. PromptLength |-> TRUE]
<1>2. gen.sequence \in Seq({TRUE})
  <2>1. prompt \in [1 .. PromptLength -> {TRUE}]
    BY Zenon
  <2> HIDE DEF prompt
  <2>2. \A q \in [1 .. PromptLength -> {TRUE}] : q \in Seq({TRUE})
    BY ListsAreSequences, Zenon
  <2>3. gen.sequence \in {prompt}
    BY Zenon DEF Init, Prompted, prompt
  <2> QED BY <2>1, <2>2, <2>3
<1>3. CachesInv
  <2>1. gen.phase = "proposing"
    BY DEF Init, Prompted
  <2>2. ASSUME NEW w \in Workers
        PROVE  Exact(stages[w]) /\ HoldsAt(stages[w], 1 .. gen.cached) /\ late[w] = Idle
    <3>1. stages[w] = Empty /\ late[w] = Idle
      BY DEF Init, PipeInit
    <3>2. <<>> # <<Session>>
      BY OrdersOfOne
    <3> QED BY <3>1, <3>2, OrdersOfOne DEF Empty, Exact, HoldsAt, Keeps
  <2> QED BY <2>1, <2>2 DEF CachesInv
<1> QED BY <1>1, <1>2, <1>3 DEF GreedyInv

\* A step is sent: no stage has run it, and its input is right.
LEMMA SendGreedy ==
    ASSUME GreedyInv, NEW start \in {0, gen.cached}, NEW replays \in {gen.replays, gen.replays + 1},
           replays <= MaxRecoveries, gen.phase \in {"verifying", "waiting"},
           step' = Begun(start, SubSeq(Full, start + 1, Len(Full)), TRUE),
           gen' = [gen EXCEPT !.phase = "waiting", !.replays = replays],
           Quiet, draft' = draft
    PROVE  GreedyInv'
<1>1. TypeInv'
  BY SendTyped DEF GreedyInv
<1>2. /\ TypeInv /\ gen \in Gens /\ gen.cached < Len(gen.sequence) /\ GenTyped
      /\ gen.sequence \in Seq({TRUE}) /\ CachesInv /\ faulty = {}
  BY DEF GreedyInv, TypeInv, GenTyped, Active
<1>3. /\ gen'.phase = "waiting" /\ gen'.sequence = gen.sequence
      /\ gen'.proposal = gen.proposal /\ gen'.cached = gen.cached
  BY <1>2 DEF Gens
<1>4. start \in Nat /\ start < Len(gen.sequence)
  BY <1>2, FullTyped
<1>5. /\ step'.phase = "running" /\ step'.start = start /\ step'.hop = 1
      /\ step'.at = SubSeq(Full, start + 1, Len(Full))
  BY <1>2, <1>4, FullStep
<1>6. Full' = Full
  BY <1>3 DEF Full
<1>7. Sound' = Sound
  BY <1>6 DEF Sound
<1>8. Follows(step'.start, step'.at, Sound')
  <2>1. Follows(start, SubSeq(Full, start + 1, Len(Full)), Sound)
    BY <1>2, <1>4, FullFollows
  <2> QED BY <1>5, <1>7, <2>1
<1>9. \A w \in Workers : ~Ran(w)'
  <2>1. ASSUME NEW w \in Workers PROVE ~(RoleOf[w] < 1)
    OBVIOUS
  <2>2. step'.phase # "answered" /\ \A w \in Workers : ~(RoleOf[w] < step'.hop)
    BY <1>5, <2>1
  <2> QED BY <2>2, Zenon DEF Ran
<1>10. UNCHANGED <<stages, late, faulty>>
  BY DEF Quiet
<1>11. \A w \in Workers : Exact(stages'[w]) /\ HoldsAt(stages'[w], 1 .. gen'.cached)
  BY <1>2, <1>3, <1>10 DEF CachesInv
<1>12. \A w \in Workers : late'[w] # Idle =>
          late'[w].start <= gen'.cached /\ Follows(late'[w].start, late'[w].new, Sound')
  BY <1>2, <1>3, <1>7, <1>10 DEF CachesInv
<1>13. CachesInv'
  BY <1>3, <1>8, <1>9, <1>11, <1>12 DEF CachesInv
<1> QED BY <1>1, <1>2, <1>3, <1>10, <1>13 DEF GreedyInv

\* A generation that has ended takes no more answers.
LEMMA InactiveGreedy ==
    ASSUME GreedyInv, TypeInv', gen'.phase \in {"closing", "done"},
           gen'.sequence = gen.sequence, faulty' = faulty
    PROVE  GreedyInv'
BY DEF GreedyInv, Active

LEMMA EntriesMakeSequences ==
    ASSUME NEW B, NEW C, NEW q \in Seq(B), \A i \in 1 .. Len(q) : q[i] \in C
    PROVE  q \in Seq(C)
OBVIOUS

\* A round ends when every stage has run the step: what was accepted is the
\* model's, and so is what the stages hold of it.
LEMMA EndRoundGreedy ==
    ASSUME GreedyInv, EndRound
    PROVE  GreedyInv'
<1>1. step.phase = "answered" /\ gen.phase = "waiting" /\ step' = NoStep /\ Quiet /\ TypeInv'
  BY EndRoundEffect, EndRoundTyped DEF GreedyInv
<1>2. TypeInv /\ gen.sequence \in Seq({TRUE}) /\ CachesInv /\ faulty = {} /\ gen \in Gens
  BY <1>1 DEF GreedyInv, TypeInv, GenTyped, Active
<1> DEFINE s == gen.sequence
           n == Len(s)
<1>3. PICK accepted \in 0 .. Len(gen.proposal), phase \in {"closing", "proposing"} :
        /\ Agrees(accepted, Predictions)
        /\ \E emitted \in 1 .. accepted + 1 :
              gen' = [gen EXCEPT
                   !.phase = phase,
                   !.outcome = "tokens",
                   !.sequence = s \o SubSeq(Round(accepted), 1, emitted),
                   !.cached = n + accepted,
                   !.proposal = <<>>,
                   !.replays = 0]
  BY <1>2, EndRoundEffect
<1>4. PICK emitted \in 1 .. accepted + 1 :
        gen' = [gen EXCEPT
             !.phase = phase,
             !.outcome = "tokens",
             !.sequence = s \o SubSeq(Round(accepted), 1, emitted),
             !.cached = n + accepted,
             !.proposal = <<>>,
             !.replays = 0]
  BY <1>3
<1> DEFINE r == Round(accepted)
           t == SubSeq(r, 1, emitted)
           whole == s \o t
           p == Len(gen.proposal)
<1>5. p \in Nat /\ n \in Nat
  BY <1>2, FullTyped DEF TypeInv
<1>6. accepted \in Nat /\ emitted \in Nat /\ 1 <= emitted /\ emitted <= accepted + 1
  BY <1>3, <1>4, <1>5
<1>7. /\ r \in Seq(BOOLEAN) /\ Len(r) = accepted + 1
      /\ \A i \in 1 .. accepted : r[i] = gen.proposal[i]
      /\ r[accepted + 1] = Predictions[accepted + 1]
  BY <1>1, <1>2, RoundTyped
<1>8. /\ \A i \in 1 .. accepted : gen.proposal[i] \in {TRUE}
      /\ Predictions[accepted + 1] \in {TRUE}
  <2>1. Follows(step.start, step.at, Sound)
    BY <1>1, <1>2 DEF CachesInv
  <2> QED BY <1>1, <1>2, <1>3, <2>1, AcceptedAreSound
<1>9. gen'.sequence = whole /\ gen'.phase = phase /\ gen'.cached = n + accepted
  BY <1>2, <1>4 DEF Gens
<1> HIDE DEF r, p
<1>10. r \in Seq({TRUE})
  <2>1. ASSUME NEW i \in 1 .. Len(r) PROVE r[i] \in {TRUE}
    <3>1. i \in 1 .. accepted \/ i = accepted + 1
      BY <1>6, <1>7
    <3>2. CASE i \in 1 .. accepted
      BY <1>7, <1>8, <3>2, Zenon
    <3>3. CASE i = accepted + 1
      BY <1>7, <1>8, <3>3, Zenon
    <3> QED BY <3>1, <3>2, <3>3, Zenon
  <2> QED BY <1>7, <2>1, EntriesMakeSequences
<1>11. t \in Seq({TRUE})
  <2>1. 1 \in Nat /\ 1 <= 1 /\ 1 <= emitted + 1 /\ emitted <= Len(r)
    BY <1>6, <1>7
  <2> QED BY <1>6, <1>10, <2>1, PartOf
<1> HIDE DEF t, s, n
<1>12. s \in Seq({TRUE})
  BY <1>2 DEF s
<1>13. gen'.sequence \in Seq({TRUE})
  BY <1>9, <1>11, <1>12, Joined
<1>14. 1 .. n + accepted \subseteq Sound
  BY <1>2, <1>3, <1>8, SoundPositions DEF n, s
<1>15. ASSUME NEW w \in Workers
       PROVE  Exact(stages'[w]) /\ HoldsAt(stages'[w], 1 .. n + accepted) /\ late'[w] = Idle
  <2>1. /\ Exact(stages[w]) /\ HoldsAt(stages[w], Sound) /\ late[w] = Idle
    BY <1>1, <1>2 DEF CachesInv, Ran
  <2>2. HoldsAt(stages[w], 1 .. n + accepted)
    BY <1>14, <2>1, Zenon DEF HoldsAt, TrueAt
  <2>3. stages' = stages /\ late' = late
    BY <1>1 DEF Quiet
  <2> QED BY <2>1, <2>2, <2>3
<1>16. gen'.phase # "waiting"
  BY <1>9
<1>17. CachesInv'
  BY <1>9, <1>15, <1>16 DEF CachesInv
<1> QED BY <1>1, <1>2, <1>13, <1>17 DEF GreedyInv, Quiet

LEMMA ClientGreedy ==
    ASSUME GreedyInv, Client
    PROVE  GreedyInv'
<1>1. TypeInv /\ TypeInv' /\ gen \in Gens
  BY ClientTyped DEF GreedyInv, TypeInv, GenTyped
<1>2. CASE Propose
  <2>1. /\ gen.phase = "proposing" /\ UNCHANGED pipeVars
        /\ \E proposal : gen' = [gen EXCEPT !.phase = "verifying", !.proposal = proposal]
    BY <1>2 DEF Propose
  <2>2. /\ gen'.phase = "verifying" /\ gen'.sequence = gen.sequence
        /\ gen'.cached = gen.cached
    BY <1>1, <2>1 DEF Gens
  <2>3. CachesInv'
    BY <2>1, <2>2 DEF GreedyInv, Active, CachesInv, pipeVars
  <2> QED BY <1>1, <2>1, <2>2, <2>3 DEF GreedyInv, pipeVars
<1>3. CASE Verify
  <2>1. /\ gen.phase = "verifying"
        /\ step' = Begun(gen.cached, SubSeq(Full, gen.cached + 1, Len(Full)), TRUE)
        /\ gen' = [gen EXCEPT !.phase = "waiting"]
        /\ Quiet /\ draft' = draft
    BY <1>3 DEF Verify, Quiet
  <2>2. gen' = [gen EXCEPT !.phase = "waiting", !.replays = gen.replays]
    BY <1>1, <2>1 DEF Gens
  <2>3. gen.replays <= MaxRecoveries
    BY <1>1 DEF TypeInv, GenTyped
  <2> QED BY <2>1, <2>2, <2>3, SendGreedy
<1>4. CASE Recover
  <2>1. step.phase = "missed" /\ gen.phase = "waiting" /\ Quiet /\ draft' = draft
    BY <1>1, <1>4 DEF Recover, Quiet, TypeInv, GenTyped
  <2>2. CASE gen.replays < MaxRecoveries
    <3>1. step' = Begun(0, Full, TRUE) /\ gen' = [gen EXCEPT !.replays = gen.replays + 1]
      BY <1>4, <2>2 DEF Recover, Counted
    <3>2. gen' = [gen EXCEPT !.phase = "waiting", !.replays = gen.replays + 1]
      BY <1>1, <2>1, <3>1 DEF Gens
    <3>3. Full = SubSeq(Full, 0 + 1, Len(Full))
      <4>1. Full \in Seq(BOOLEAN)
        BY <1>1, FullTyped DEF TypeInv
      <4>2. \A q \in Seq(BOOLEAN) : q = SubSeq(q, 0 + 1, Len(q))
        OBVIOUS
      <4> QED BY <4>1, <4>2, Zenon
    <3>4. gen.replays + 1 <= MaxRecoveries
      BY <1>1, <2>2 DEF Gens
    <3> QED BY <2>1, <3>1, <3>2, <3>3, <3>4, SendGreedy
  <2>3. CASE ~(gen.replays < MaxRecoveries)
    <3>1. gen' = [gen EXCEPT !.phase = "closing", !.outcome = "recovery_failed"]
      BY <1>4, <2>3 DEF Recover, GaveUp
    <3>2. gen'.phase = "closing" /\ gen'.sequence = gen.sequence
      BY <1>1, <3>1 DEF Gens
    <3> QED BY <1>1, <2>1, <3>2, InactiveGreedy DEF Quiet
  <2> QED BY <2>2, <2>3
<1>5. CASE TaskFailed
  <2>1. gen' = [gen EXCEPT !.phase = "closing", !.outcome = "task_failed"] /\ faulty' = faulty
    BY <1>5 DEF TaskFailed, GaveUp
  <2>2. gen'.phase = "closing" /\ gen'.sequence = gen.sequence
    BY <1>1, <2>1 DEF Gens
  <2> QED BY <1>1, <2>1, <2>2, InactiveGreedy
<1>6. CASE EndRound
  BY <1>6, EndRoundGreedy
<1>7. CASE Close
  <2>1. gen' = [gen EXCEPT !.phase = "done"] /\ faulty' = faulty
    BY <1>7 DEF Close
  <2>2. gen'.phase = "done" /\ gen'.sequence = gen.sequence
    BY <1>1, <2>1 DEF Gens
  <2> QED BY <1>1, <2>1, <2>2, InactiveGreedy
<1> QED BY <1>2, <1>3, <1>4, <1>5, <1>6, <1>7 DEF Client

\* While the client waits nothing changes what is sound.
LEMMA SoundKept ==
    ASSUME gen' = gen
    PROVE  Sound' = Sound
<1>1. Full' = Full
  BY DEF Full
<1> QED BY <1>1 DEF Sound

\* A step that is running begins where the stages are taken to be right.
LEMMA StartIsCached ==
    ASSUME TypeInv, Running
    PROVE  /\ gen.phase = "waiting" /\ Active /\ gen.cached \in Nat
           /\ step.start \in Nat /\ step.start <= gen.cached
           /\ step.hop \in 1 .. Depth /\ Request \in Requests(BOOLEAN)
           /\ Request.start = step.start /\ Request.new = step.at
<1>1. gen.phase = "waiting" /\ step.start \in {0, gen.cached} /\ gen.cached \in Nat
  BY DEF TypeInv, GenTyped, RoundInv, Running, Gens
<1>2. step.hop \in 1 .. Depth
  BY DEF TypeInv, Pipe, Steps
<1>3. Request \in Requests(BOOLEAN)
  BY RequestTyped DEF TypeInv
<1>4. Request.start = step.start /\ Request.new = step.at
  BY DEF Request
<1> QED BY <1>1, <1>2, <1>3, <1>4 DEF Active

\* A replica that runs a request of this round stays right.
LEMMA RequestSound ==
    ASSUME GreedyInv, Active, "output" \notin Failures, NEW w \in Workers,
           NEW p \in Requests(BOOLEAN), p.start <= gen.cached,
           Follows(p.start, p.new, Sound), NEW o \in Handled(stages[w], p)
    PROVE  /\ Exact(o.stage) /\ HoldsAt(o.stage, 1 .. gen.cached)
           /\ o.answer.kind = "hidden_states" =>
                 HoldsAt(o.stage, Sound) /\ Follows(p.start, o.answer.hidden, Sound)
<1>1. /\ TypeInv /\ gen.sequence \in Seq({TRUE}) /\ gen.cached \in Nat
      /\ Exact(stages[w]) /\ HoldsAt(stages[w], 1 .. gen.cached)
  BY DEF GreedyInv, CachesInv, TypeInv, GenTyped, Gens
<1>2. stages[w] \in Stage(BOOLEAN)
  BY <1>1 DEF TypeInv, Pipe
<1>3. Sound \in SUBSET Nat /\ Downward(Sound) /\ 1 .. gen.cached \subseteq Sound
  BY <1>1, SoundPositions, CachedIsSound
<1> QED BY <1>1, <1>2, <1>3, HandledSound

LEMMA RunGreedy ==
    ASSUME GreedyInv, "output" \notin Failures, OnePerRole, NEW w \in Workers, Run(w),
           gen' = gen
    PROVE  CachesInv'
<1>1. /\ w = home[step.hop] /\ late[w] = Idle /\ Running /\ late' = late
      /\ \E o \in Handled(stages[w], Request) :
           /\ stages' = [stages EXCEPT ![w] = o.stage]
           /\ step' = Passed(Computed(w, o.answer))
  BY DEF Run
<1>2. PICK o \in Handled(stages[w], Request) :
        /\ stages' = [stages EXCEPT ![w] = o.stage]
        /\ step' = Passed(Computed(w, o.answer))
  BY <1>1
<1>3. /\ TypeInv /\ faulty = {} /\ gen.phase = "waiting" /\ Active /\ CachesInv
      /\ step.phase = "running" /\ step.start <= gen.cached /\ step.start \in Nat
      /\ step.hop \in 1 .. Depth /\ Request \in Requests(BOOLEAN)
      /\ Request.start = step.start /\ Request.new = step.at
  BY <1>1, StartIsCached DEF GreedyInv, Running
<1>4. Follows(step.start, step.at, Sound)
  BY <1>3 DEF CachesInv
<1>5. /\ Exact(o.stage) /\ HoldsAt(o.stage, 1 .. gen.cached)
      /\ o.answer.kind = "hidden_states" =>
            HoldsAt(o.stage, Sound) /\ Follows(step.start, o.answer.hidden, Sound)
  BY <1>3, <1>4, RequestSound
<1>6. step' = Passed(o.answer)
  BY <1>2, <1>3 DEF Computed
<1>7. Sound' = Sound
  BY SoundKept
<1>8. /\ stages'[w] = o.stage /\ \A v \in Workers : v # w => stages'[v] = stages[v]
      /\ RoleOf[w] = step.hop /\ step \in Steps(BOOLEAN)
  BY <1>1, <1>2, <1>3 DEF TypeInv, Pipe
<1>9. \A v \in Workers : Exact(stages'[v]) /\ HoldsAt(stages'[v], 1 .. gen.cached)
  BY <1>3, <1>5, <1>8, Zenon DEF CachesInv
<1>10. \A v \in Workers : late[v] # Idle =>
          late[v].start <= gen.cached /\ Follows(late[v].start, late[v].new, Sound)
  BY <1>3 DEF CachesInv
<1>11. /\ step'.phase \in {"running", "answered"} => Follows(step'.start, step'.at, Sound)
       /\ \A v \in Workers : Ran(v)' => late[v] = Idle /\ HoldsAt(stages'[v], Sound)
  <2>1. CASE step'.phase \in {"missed", "failed"}
    BY <2>1 DEF Ran
  <2>2. CASE o.answer.kind = "hidden_states"
    <3> DEFINE hidden == o.answer.hidden
    <3>1. \/ step.hop < Depth /\ step' = [step EXCEPT !.hop = @ + 1, !.at = hidden]
          \/ step.hop = Depth /\ step' = [step EXCEPT !.phase = "answered", !.at = hidden]
      BY <1>3, <1>6, <2>2 DEF Passed
    <3> HIDE DEF hidden
    <3>2. /\ step'.start = step.start /\ step'.at = hidden
          /\ \/ step'.phase = "running" /\ step'.hop = step.hop + 1
             \/ step'.phase = "answered" /\ step.hop = Depth
      <4>1. DOMAIN step = {"phase", "start", "new", "rewind", "attempt", "hop", "at"}
        BY <1>8 DEF Steps
      <4>2. CASE step' = [step EXCEPT !.hop = @ + 1, !.at = hidden]
        BY <1>3, <4>1, <4>2
      <4>3. CASE step.hop = Depth /\ step' = [step EXCEPT !.phase = "answered", !.at = hidden]
        BY <4>1, <4>3
      <4> QED BY <3>1, <4>2, <4>3, Zenon
    <3>3. Follows(step'.start, step'.at, Sound)
      BY <1>5, <2>2, <3>2 DEF hidden
    <3>4. ASSUME NEW v \in Workers, Ran(v)'
          PROVE  late[v] = Idle /\ HoldsAt(stages'[v], Sound)
      <4>1. RoleOf[v] < step.hop \/ RoleOf[v] = step.hop
        <5>1. RoleOf[v] \in 1 .. Depth
          OBVIOUS
        <5>2. step'.phase = "answered" \/ RoleOf[v] < step'.hop
          BY <3>4 DEF Ran
        <5> QED BY <1>3, <3>2, <5>1, <5>2
      <4>2. CASE RoleOf[v] < step.hop
        <5>1. Ran(v) /\ v # w
          BY <1>3, <1>8, <4>2 DEF Ran
        <5> QED BY <1>3, <1>8, <5>1 DEF CachesInv
      <4>3. CASE RoleOf[v] = step.hop
        <5>1. v = w
          BY <1>8, <4>3 DEF OnePerRole
        <5> QED BY <1>1, <1>5, <1>8, <2>2, <5>1
      <4> QED BY <4>1, <4>2, <4>3
    <3> QED BY <3>3, <3>4
  <2>3. step'.phase \in {"missed", "failed"} \/ o.answer.kind = "hidden_states"
    <3>1. o.answer \in Answers(BOOLEAN) /\ o.answer.kind # "closed"
      BY <1>3, AnyBits, RequestHandled DEF TypeInv
    <3>2. o.answer.kind = "cache_miss" =>
             step' = [step EXCEPT !.phase = "missed", !.at = <<>>]
      BY <1>6 DEF Passed
    <3>3. o.answer.kind = "error" =>
             step' = [step EXCEPT !.phase = "failed", !.at = <<>>]
      BY <1>6 DEF Passed
    <3>4. o.answer.kind \in {"hidden_states", "cache_miss", "error"}
      BY <3>1 DEF Answers
    <3>5. "phase" \in DOMAIN step
      BY <1>8 DEF Steps
    <3>6. o.answer.kind = "cache_miss" => step'.phase = "missed"
      BY <3>2, <3>5
    <3>7. o.answer.kind = "error" => step'.phase = "failed"
      BY <3>3, <3>5
    <3> QED BY <3>4, <3>6, <3>7, Zenon
  <2> QED BY <2>1, <2>2, <2>3
<1> QED BY <1>1, <1>3, <1>7, <1>9, <1>10, <1>11 DEF CachesInv

LEMMA StallGreedy ==
    ASSUME GreedyInv, NEW w \in Workers, Stall(w), gen' = gen
    PROVE  CachesInv'
<1>1. /\ w = home[step.hop] /\ Running /\ late' = [late EXCEPT ![w] = Request]
      /\ stages' = stages /\ step' = step
  BY DEF Stall
<1>2. /\ TypeInv /\ gen.phase = "waiting" /\ CachesInv /\ step.phase = "running"
      /\ step.start <= gen.cached /\ step.hop \in 1 .. Depth
      /\ Request.start = step.start /\ Request.new = step.at
  BY <1>1, StartIsCached DEF GreedyInv, Running
<1>3. Follows(step.start, step.at, Sound) /\ Sound' = Sound
  BY <1>2, SoundKept DEF CachesInv
<1>4. /\ late'[w] = Request /\ \A v \in Workers : v # w => late'[v] = late[v]
      /\ RoleOf[w] = step.hop
  BY <1>1, <1>2 DEF TypeInv, Pipe
<1>5. \A v \in Workers : late'[v] # Idle =>
         late'[v].start <= gen.cached /\ Follows(late'[v].start, late'[v].new, Sound)
  <2> SUFFICES ASSUME NEW v \in Workers, late'[v] # Idle
               PROVE  late'[v].start <= gen.cached /\ Follows(late'[v].start, late'[v].new, Sound)
    OBVIOUS
  <2>1. CASE v = w
    BY <1>2, <1>3, <1>4, <2>1
  <2>2. CASE v # w
    BY <1>2, <1>4, <2>2 DEF CachesInv
  <2> QED BY <2>1, <2>2
<1>6. \A v \in Workers : Ran(v) => late'[v] = Idle /\ HoldsAt(stages[v], Sound)
  <2> SUFFICES ASSUME NEW v \in Workers, Ran(v)
               PROVE  late'[v] = Idle /\ HoldsAt(stages[v], Sound)
    OBVIOUS
  <2>1. v # w
    BY <1>2, <1>4 DEF Ran
  <2> QED BY <1>2, <1>4, <2>1 DEF CachesInv
<1>7. \A v \in Workers : Ran(v)' => Ran(v)
  BY <1>1 DEF Ran
<1> QED BY <1>1, <1>2, <1>3, <1>5, <1>6, <1>7 DEF CachesInv

\* What is run late is of this round: what was given up for it begins where the
\* stages are taken to be right too.
LEMMA RunLateGreedy ==
    ASSUME GreedyInv, Active, "output" \notin Failures, NEW w \in Workers, RunLate(w),
           gen' = gen
    PROVE  CachesInv'
<1>1. /\ late[w] # Idle /\ late' = [late EXCEPT ![w] = Idle] /\ step' = step
  BY DEF RunLate
<1>2. PICK o \in Handled(stages[w], late[w]) : stages' = [stages EXCEPT ![w] = o.stage]
  BY DEF RunLate
<1>3. /\ TypeInv /\ CachesInv /\ gen.phase = "waiting" /\ late[w] \in Requests(BOOLEAN)
      /\ late[w].start <= gen.cached /\ Follows(late[w].start, late[w].new, Sound)
  BY <1>1 DEF GreedyInv, CachesInv, TypeInv, Pipe
<1>4. /\ Exact(o.stage) /\ HoldsAt(o.stage, 1 .. gen.cached)
  BY <1>3, RequestSound
<1>5. /\ stages'[w] = o.stage /\ \A v \in Workers : v # w => stages'[v] = stages[v]
      /\ late'[w] = Idle /\ \A v \in Workers : v # w => late'[v] = late[v]
  BY <1>1, <1>2, <1>3 DEF TypeInv, Pipe
<1>6. Sound' = Sound
  BY SoundKept
<1>7. \A v \in Workers : Exact(stages'[v]) /\ HoldsAt(stages'[v], 1 .. gen.cached)
  BY <1>3, <1>4, <1>5, Zenon DEF CachesInv
<1>8. \A v \in Workers : late'[v] # Idle =>
         late'[v].start <= gen.cached /\ Follows(late'[v].start, late'[v].new, Sound)
  BY <1>3, <1>5 DEF CachesInv
<1>9. \A v \in Workers : Ran(v) => late'[v] = Idle /\ HoldsAt(stages'[v], Sound)
  <2> SUFFICES ASSUME NEW v \in Workers, Ran(v)
               PROVE  late'[v] = Idle /\ HoldsAt(stages'[v], Sound)
    OBVIOUS
  <2>1. late[v] = Idle /\ HoldsAt(stages[v], Sound)
    BY <1>3 DEF CachesInv
  <2> QED BY <1>1, <1>5, <2>1
<1>10. \A v \in Workers : Ran(v)' => Ran(v)
  BY <1>1 DEF Ran
<1> QED BY <1>1, <1>3, <1>6, <1>7, <1>8, <1>9, <1>10 DEF CachesInv

LEMMA ForgetGreedy ==
    ASSUME GreedyInv, Active, NEW w \in Workers, Forget(w), gen' = gen
    PROVE  CachesInv'
<1>1. stages' = [stages EXCEPT ![w] = Empty] /\ UNCHANGED <<late, step>>
  BY DEF Forget
<1>2. CachesInv /\ stages \in [Workers -> Stage(BOOLEAN)] /\ Sound' = Sound
  BY SoundKept DEF GreedyInv, TypeInv, Pipe
<1>3. Exact(Empty) /\ \A S : HoldsAt(Empty, S)
  <2>1. <<>> # <<Session>>
    BY OrdersOfOne
  <2> QED BY <2>1, OrdersOfOne DEF Empty, Exact, HoldsAt, Keeps
<1>4. stages'[w] = Empty /\ \A v \in Workers : v # w => stages'[v] = stages[v]
  BY <1>1, <1>2
<1>5. \A v \in Workers : /\ Exact(stages'[v]) /\ HoldsAt(stages'[v], 1 .. gen.cached)
                         /\ HoldsAt(stages[v], Sound) => HoldsAt(stages'[v], Sound)
  BY <1>2, <1>3, <1>4, Zenon DEF CachesInv
<1>6. \A v \in Workers : Ran(v)' => Ran(v)
  BY <1>1 DEF Ran
<1> QED BY <1>1, <1>2, <1>5, <1>6 DEF CachesInv

LEMMA LoseGreedy ==
    ASSUME GreedyInv, Lose, gen' = gen
    PROVE  CachesInv'
<1>1. Running /\ UNCHANGED <<stages, late>>
  BY DEF Lose
<1>2. /\ TypeInv /\ gen.phase = "waiting" /\ CachesInv /\ step \in Steps(BOOLEAN)
      /\ gen.sequence \in Seq({TRUE}) /\ Sound' = Sound /\ step.phase = "running"
  BY <1>1, StartIsCached, SoundKept DEF GreedyInv, TypeInv, Pipe, Running
<1>3. \/ step' = [step EXCEPT !.attempt = 2, !.hop = 1, !.at = step.new]
      \/ step' = [step EXCEPT !.phase = "missed", !.at = <<>>]
  BY DEF Lose, Resent
<1>4. \/ step'.start = step.start /\ step'.at = step.new /\ step'.hop = 1 /\ step'.phase = "running"
      \/ step'.phase = "missed"
  BY <1>2, <1>3 DEF Steps
<1>5. Follows(step.start, step.new, Sound)
  <2>1. /\ step.start \in Nat /\ step.start < Len(gen.sequence)
        /\ step.new = SubSeq(Full, step.start + 1, Len(Full))
    <3> DEFINE n == Len(gen.sequence)
    <3>1. /\ step.start \in {0, gen.cached} /\ gen.cached \in Nat /\ gen.cached < n
          /\ step.new = SubSeq(Full, step.start + 1, Len(Full)) /\ n \in Nat
      BY <1>2, FullTyped DEF TypeInv, GenTyped, RoundInv, Active
    <3> HIDE DEF n
    <3>2. step.start \in Nat /\ step.start < n
      BY <3>1
    <3> QED BY <3>1, <3>2 DEF n
  <2> QED BY <1>2, <2>1, FullFollows
<1>6. \A v \in Workers : ~Ran(v)'
  <2>1. ASSUME NEW v \in Workers PROVE ~(RoleOf[v] < 1)
    OBVIOUS
  <2>2. CASE step'.phase = "missed"
    BY <2>2 DEF Ran
  <2>3. CASE step'.hop = 1 /\ step'.phase = "running"
    <3>1. step'.phase # "answered" /\ \A v \in Workers : ~(RoleOf[v] < step'.hop)
      BY <2>1, <2>3
    <3> QED BY <3>1, Zenon DEF Ran
  <2> QED BY <1>4, <2>2, <2>3
<1> QED BY <1>1, <1>2, <1>4, <1>5, <1>6 DEF CachesInv

\* Without repeated submits there are no copies that nobody waits for.
NoCopies == orphans = {}

LEMMA NothingIsRepeated ==
    ASSUME MaxOrphans = 0, NoCopies
    PROVE  ~Repeat /\ \A w \in Workers : ~RunOrphan(w)
<1>1. ~Repeat
  <2>1. Cardinality(orphans) = 0
    BY FS_EmptySet DEF NoCopies
  <2> QED BY <2>1 DEF Repeat
<1> QED BY <1>1 DEF RunOrphan, NoCopies

LEMMA NoCopiesStep ==
    ASSUME MaxOrphans = 0
    PROVE  NoCopies /\ [Next]_vars => NoCopies'
<1> SUFFICES ASSUME NoCopies, [Next]_vars PROVE orphans' = orphans
  BY DEF NoCopies
<1>1. CASE Client
  BY <1>1 DEF Client, Propose, Verify, Recover, TaskFailed, EndRound, Close, pipeVars
<1>2. CASE PipeStep
  BY <1>2, NothingIsRepeated DEF PipeStep, Run, Stall, RunLate, Forget, Move, Lose
<1> QED BY <1>1, <1>2 DEF Next, vars

LEMMA GreedyStep ==
    ASSUME "output" \notin Failures, OnePerRole, MaxOrphans = 0
    PROVE  NoCopies /\ GreedyInv /\ [Next]_vars => GreedyInv'
<1> SUFFICES ASSUME NoCopies, GreedyInv, [Next]_vars PROVE GreedyInv'
  OBVIOUS
<1>1. CASE Client
  BY <1>1, ClientGreedy
<1>2. CASE PipeStep /\ UNCHANGED <<gen, draft>>
  <2>1. TypeInv' /\ faulty' = faulty /\ gen' = gen
    BY <1>2, PipeTyped, PipeStepFrame DEF GreedyInv
  <2>2. ASSUME Active PROVE CachesInv'
    <3>1. ASSUME NEW w \in Workers, Run(w) \/ Stall(w) \/ RunLate(w) \/ Forget(w)
          PROVE  CachesInv'
      BY <2>1, <2>2, <3>1, RunGreedy, StallGreedy, RunLateGreedy, ForgetGreedy
    <3>2. ASSUME NEW w \in Workers, Move(w) PROVE CachesInv'
      <4>1. UNCHANGED <<stages, late, step>> /\ CachesInv /\ Sound' = Sound
        BY <2>1, <2>2, <3>2, SoundKept DEF Move, GreedyInv
      <4>2. \A v \in Workers : Ran(v)' => Ran(v)
        BY <4>1 DEF Ran
      <4> QED BY <2>1, <4>1, <4>2 DEF CachesInv
    <3>3. CASE Lose
      BY <2>1, <3>3, LoseGreedy
    <3> QED BY <1>2, <3>1, <3>2, <3>3, NothingIsRepeated DEF PipeStep
  <2>3. Active' => Active
    BY <2>1 DEF Active
  <2> QED BY <2>1, <2>2, <2>3 DEF GreedyInv
<1>3. CASE UNCHANGED vars
  <2>1. /\ UNCHANGED <<stages, late, step, gen, draft, faulty>> /\ Sound' = Sound
        /\ TypeInv'
    BY <1>3, TypeStep, SoundKept DEF vars, GreedyInv
  <2>2. \A v \in Workers : Ran(v)' => Ran(v)
    BY <2>1 DEF Ran
  <2>3. CachesInv => CachesInv'
    BY <2>1, <2>2 DEF CachesInv
  <2> QED BY <2>1, <2>3 DEF GreedyInv, Active
<1> QED BY <1>1, <1>2, <1>3 DEF Next

\* The output is the one of greedy decoding whatever the draft model proposes and
\* whatever is lost, sent again or run late, as long as every role is served by
\* one worker, no submit is repeated (MaxOrphans = 0), nobody computes something
\* else, and lm_head does not fail after the layers extended the cache.  A copy
\* that a repeated submit leaves at the relay refutes it (the run
\* speculative_repeated), and so does a session that moves between replicas.
THEOREM OutputIsThatOfTheModel ==
    ASSUME "output" \notin Failures, FaultSets \subseteq {{}}, OnePerRole, MaxOrphans = 0
    PROVE  Spec => []OutputIsGreedy
<1>1. GreedyInv => OutputIsGreedy
  <2>1. \A q \in Seq({TRUE}) : \A i \in 1 .. Len(q) : q[i] \in {TRUE}
    BY EntriesAreMembers, Zenon
  <2>2. GreedyInv => DOMAIN gen.sequence = 1 .. Len(gen.sequence)
    BY DEF GreedyInv
  <2> QED BY <2>1, <2>2, Zenon DEF GreedyInv, OutputIsGreedy
<1>2. Init => NoCopies
  BY DEF Init, PipeInit, NoCopies
<1> QED BY <1>1, <1>2, GreedyInit, GreedyStep, NoCopiesStep, PTL DEF Spec
=============================================================================
