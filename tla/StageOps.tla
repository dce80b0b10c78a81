------------------------------ MODULE StageOps ------------------------------
(***************************************************************************)
(* What one PipelineStage of src/distllm/hf.py does with a request: handle *)
(* and handle_batch as functions of the stage's sessions.  The stage holds *)
(* a lock while it works, so each of them is one step.                     *)
(*                                                                         *)
(* A model is deterministic: what a position computes to is decided by the *)
(* tokens up to it.  So a token, a hidden state and an entry of a KV cache *)
(* are each represented by whether they are SOUND, that is computed from   *)
(* the tokens the session is to hold.  An entry computed on a cache that   *)
(* has an unsound entry, or one too many, is unsound.                      *)
(***************************************************************************)
EXTENDS Naturals, Sequences, FiniteSets, SequencesExt

CONSTANTS
    Sessions,       \* session ids
    MaxSessions,    \* max_sessions: caches a stage keeps
    MinBatch,       \* min_batch: decode steps worth one batched forward
    Failures        \* what may raise: "forward" the layers, "output" lm_head

ASSUME StageAssumption ==
    /\ MaxSessions \in Nat \ {0}
    /\ MinBatch \in Nat
    /\ Failures \subseteq {"forward", "output"}

Bits == Seq(BOOLEAN)

\* A request: a payload without its input tensor has new = <<>>.
Payload ==
    [session : Sessions, start : Nat, new : Bits, rewind : BOOLEAN, close : BOOLEAN]

\* A stage: its OrderedDict of sessions, least recently used first.
Empty == [order |-> <<>>, cache |-> <<>>, length |-> <<>>]

Keeps(st, s) == s \in ToSet(st.order)

Closed == [kind |-> "closed", hidden |-> <<>>]
Miss   == [kind |-> "cache_miss", hidden |-> <<>>]
Error  == [kind |-> "error", hidden |-> <<>>]
Hidden(h) == [kind |-> "hidden_states", hidden |-> h]

\* The sessions `left` of an order, one after the other as they were in it.
InOrder(order, left) ==
    CHOOSE line \in SetToSeqs(left) :
        \A i, j \in DOMAIN line : \A a, b \in DOMAIN order :
            i < j /\ line[i] = order[a] /\ line[j] = order[b] => a < b

Without(st, gone) ==
    LET left == ToSet(st.order) \ gone
    IN  [order  |-> InOrder(st.order, left),
         cache  |-> [s \in left |-> st.cache[s]],
         length |-> [s \in left |-> st.length[s]]]

\* The sessions of `fresh` were just used: they get these caches and move to
\* the end of the order.
With(st, fresh, cache, length) ==
    LET kept == InOrder(st.order, ToSet(st.order) \ ToSet(fresh))
        all == ToSet(st.order) \cup ToSet(fresh)
    IN  [order  |-> kept \o fresh,
         cache  |-> [s \in all |-> IF s \in ToSet(fresh) THEN cache[s] ELSE st.cache[s]],
         length |-> [s \in all |-> IF s \in ToSet(fresh) THEN length[s] ELSE st.length[s]]]

\* Mutant: nothing is evicted for its number.
EvictedByAge(st, used) ==
    {Without(st, {st.order[i] : i \in 1 .. k}) :
        k \in 0 .. Len(st.order) - Cardinality(used)}

\* _evict: the expired sessions, which are the least recently used ones, and
\* then as many more as are above the limit.
Evicted(st, used) ==
    LET n == Len(st.order)
        over == IF n > MaxSessions THEN n - MaxSessions ELSE 0
    IN  {Without(st, {st.order[i] : i \in 1 .. k}) :
            k \in {over} \cup over .. n - Cardinality(used)}

\* The cache after a forward: each new position attends to all before it.
Extended(cache, start, new) ==
    cache \o [i \in DOMAIN new |->
                /\ Len(cache) = start
                /\ \A j \in DOMAIN cache : cache[j]
                /\ \A j \in 1 .. i : new[j]]

\* The cache handle continues: a fresh one at start 0, one of the length start,
\* or a longer one cropped to it; `there` is FALSE for a cache miss.
Positioned(st, p) ==
    IF p.start = 0 THEN [there |-> TRUE, cache |-> <<>>]
    ELSE IF ~Keeps(st, p.session) THEN [there |-> FALSE, cache |-> <<>>]
    ELSE LET cache == st.cache[p.session]
             length == st.length[p.session]
         IN  IF p.rewind /\ p.start < length
             THEN [there |-> TRUE, cache |-> SubSeq(cache, 1, p.start)]
             ELSE [there |-> length = p.start, cache |-> cache]

\* The stage once handle has cropped the session and not done anything else.
Cropped(st, p) ==
    IF p.start # 0 /\ Keeps(st, p.session)
    THEN [st EXCEPT !.cache[p.session] = Positioned(st, p).cache,
                    !.length[p.session] = p.start]
    ELSE st

\* Mutant: a session stays when its forward fails.
KeptOnFailure(st, p, grown) ==
    IF p.start = 0 THEN st ELSE [Cropped(st, p) EXCEPT !.cache[p.session] = grown]

\* A forward failed after some layers extended the cache: the session goes.
OnFailure(st, p, grown) == Without(st, {p.session})

\* lm_head failed after the forward: a cache that was there has grown.
OnOutputFailure(st, p, grown) ==
    IF p.start = 0 THEN st ELSE [Cropped(st, p) EXCEPT !.cache[p.session] = grown]

\* handle: what a stage may become and answer.
Handled(st, p) ==
    LET at == Positioned(st, p)
        grown == Extended(at.cache, p.start, p.new)
        length == p.start + Len(p.new)
        out == SubSeq(grown, Len(at.cache) + 1, Len(grown))
        outcome(s, a) == [stage |-> s, answer |-> a]
    IN  IF p.close THEN {outcome(Without(st, {p.session}), Closed)}
        ELSE IF ~at.there THEN {outcome(st, Miss)}
        ELSE IF p.new = <<>> THEN {outcome(Cropped(st, p), Error)}
        ELSE {outcome(OnFailure(st, p, grown), Error) : f \in Failures \cap {"forward"}}
             \cup {outcome(OnOutputFailure(st, p, grown), Error) : f \in Failures \cap {"output"}}
             \cup {outcome(s, Hidden(out)) :
                     s \in Evicted(With(st, <<p.session>>, [x \in {p.session} |-> grown],
                                        [x \in {p.session} |-> length]), {p.session})}
-----------------------------------------------------------------------------
(* Batches *)

\* _batchable: a decode step at the end of its session's cache.
Batchable(st, p) ==
    /\ ~p.close
    /\ Keeps(st, p.session)
    /\ p.start # 0
    /\ st.length[p.session] = p.start
    /\ Len(p.new) = 1

\* The requests of a batch that share one forward.
Batch(st, ps) ==
    LET b == {i \in DOMAIN ps :
                /\ Batchable(st, ps[i])
                /\ \A j \in DOMAIN ps : ps[j].session = ps[i].session => j = i}
    IN  IF Cardinality(b) < 2 \/ Cardinality(b) < MinBatch THEN {} ELSE b

\* A session's row of the stacked caches: zeros on the left, entries of no
\* session, up to the longest length of the batch.
Padded(cache, pad) == [i \in 1 .. pad |-> FALSE] \o cache

\* Mutant: the mask is that of the longest session in every row.
MaskOfLongest(longest, pad) == [i \in 1 .. longest + 1 |-> TRUE]

\* The attention mask of a row: one place for each position of the longest
\* session and one for the new token, without the padding.
Mask(longest, pad) == [i \in 1 .. longest + 1 |-> i > pad]

\* The entry that the new token at `position` gets behind a row of session
\* entries `cache`: it has to attend to the entries of its session and to itself
\* and to nothing else.  The layers mask what is beyond the end of the mask.
Decoded(row, cache, mask, position, new) ==
    LET attends(i) == i \in DOMAIN mask /\ mask[i]
    IN  /\ position = Len(cache)
        /\ \A i \in 1 .. Len(row) + 1 : attends(i) <=> i > Len(row) - Len(cache)
        /\ \A i \in DOMAIN row : attends(i) => row[i]
        /\ new

\* Mutant: the length has been counted up before the row is cut.
UnpaddedAfterCount(row, pad) == SubSeq(row, IF pad = 0 THEN Len(row) ELSE pad, Len(row))

\* A row without its padding.
Unpadded(row, pad) == SubSeq(row, pad + 1, Len(row))

\* A session's cache after it was padded, had its forward and was cut back.
DecodedCache(cache, length, longest, new) ==
    LET pad == longest - length
        row == Padded(cache, pad)
    IN  Unpadded(Append(row, Decoded(row, cache, Mask(longest, pad), length, new)), pad)

\* _decode_batch and the except clause around it.  A session that is gone by
\* now, caches that do not stack and a failing layer each fail the whole batch,
\* whose sessions are dropped.
DecodedBatch(st, ps) ==
    LET ids == [i \in DOMAIN ps |-> ps[i].session]
        longest == Max({st.length[s] : s \in ToSet(ids)})
        width(s) == Len(Padded(st.cache[s], longest - st.length[s]))
        ready == /\ \A s \in ToSet(ids) : Keeps(st, s)
                 /\ \A s, t \in ToSet(ids) : width(s) = width(t)
        of(s) == ps[CHOOSE i \in DOMAIN ps : ids[i] = s]
        grown == [s \in ToSet(ids) |->
                    DecodedCache(st.cache[s], st.length[s], longest, of(s).new[1])]
        length == [s \in ToSet(ids) |-> st.length[s] + 1]
        answers == [i \in DOMAIN ps |-> Hidden(<<Last(grown[ids[i]])>>)]
        failed == [stage |-> Without(st, ToSet(ids)),
                   answers |-> [i \in DOMAIN ps |-> Error]]
    IN  IF ~ready THEN {failed}
        ELSE {failed : f \in Failures}
             \cup {[stage |-> s, answers |-> answers] :
                     s \in Evicted(With(st, ids, grown, length), ToSet(ids))}

\* handle_batch: first the requests that cannot share a forward, one by one,
\* then the others in one.  `picked` is decided before any of them runs.
HandledBatch(st, ps) ==
    LET picked == Batch(st, ps)
        n == Len(ps)
        alone[i \in 0 .. n] ==
            IF i = 0 THEN {[stage |-> st, answers |-> <<>>]}
            ELSE IF i \in picked
                 THEN {[r EXCEPT !.answers = Append(@, Error)] : r \in alone[i - 1]}
                 ELSE UNION {{[stage |-> o.stage, answers |-> Append(r.answers, o.answer)] :
                                o \in Handled(r.stage, ps[i])} : r \in alone[i - 1]}
        line == InOrder([i \in 1 .. n |-> i], picked)
        place(i) == CHOOSE k \in DOMAIN line : line[k] = i
        merged(r, d) ==
            [stage |-> d.stage,
             answers |-> [i \in 1 .. n |->
                            IF i \in picked THEN d.answers[place(i)] ELSE r.answers[i]]]
    IN  IF picked = {} THEN alone[n]
        ELSE UNION {{merged(r, d) :
                        d \in DecodedBatch(r.stage, [k \in DOMAIN line |-> ps[line[k]]])} :
                      r \in alone[n]}
=============================================================================
