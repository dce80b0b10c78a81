--------------------------- MODULE PipelineProofs ---------------------------
(***************************************************************************)
(* Theorems about one step on its way through the pipeline, for every      *)
(* number of roles, replicas and losses: what a stage that meets only this *)
(* session keeps and answers.                                              *)
(***************************************************************************)
EXTENDS Pipeline, FiniteSetTheorems, SequenceTheorems, TLAPS

USE StageAssumption, PipelineAssumption

-----------------------------------------------------------------------------
(* Stages that know one session at most *)

\* B are the bits that may be in a cache: {TRUE} if all of it is sound.
Bare(B) == [order : {<<>>}, cache : [{} -> Seq(B)], length : [{} -> Nat]]
Filled(B) == {st \in [order : {<<Session>>}, cache : [{Session} -> Seq(B)],
                       length : [{Session} -> Nat]] :
                st.length[Session] <= Len(st.cache[Session])}

Stage(B) == Bare(B) \cup Filled(B)

\* The bookkeeping of a stage agrees with its caches.
Exact(st) == st.order = <<Session>> => Len(st.cache[Session]) = st.length[Session]

\* Either all bits are allowed or only those of sound values.
Allowed(B) == B = BOOLEAN \/ B = {TRUE}

LEMMA EmptyIsBare == ASSUME NEW B PROVE Empty \in Bare(B)
BY DEF Empty, Bare

LEMMA OrdersOfOne ==
    /\ ToSet(<<>>) = {}
    /\ ToSet(<<Session>>) = {Session}
    /\ InOrder(<<>>, {}) = <<>>
    /\ InOrder(<<Session>>, {}) = <<>>
    /\ InOrder(<<Session>>, {Session}) = <<Session>>
<1>1. ToSet(<<>>) = {} /\ ToSet(<<Session>>) = {Session}
  BY DEF ToSet
<1>2. SetToSeqs({}) = {<<>>}
  <2>1. Cardinality({}) = 0
    BY FS_EmptySet
  <2>2. 1 .. 0 = {}
    OBVIOUS
  <2>3. \A f \in [{} -> {}] : f = <<>>
    OBVIOUS
  <2>4. <<>> \in [{} -> {}]
    OBVIOUS
  <2> QED BY <2>1, <2>2, <2>3, <2>4 DEF SetToSeqs
<1>3. SetToSeqs({Session}) = {<<Session>>}
  <2>1. Cardinality({Session}) = 1
    BY FS_Singleton
  <2>2. 1 .. 1 = {1}
    OBVIOUS
  <2>3. \A f \in [{1} -> {Session}] : f = <<Session>>
    OBVIOUS
  <2>4. <<Session>> \in [{1} -> {Session}]
    OBVIOUS
  <2>5. SetToSeqs({Session}) = {f \in [{1} -> {Session}] :
                                  \A i, j \in {1} : i # j => f[i] # f[j]}
    <3>1. SetToSeqs({Session}) = {f \in [1 .. 1 -> {Session}] :
                                    \A i, j \in 1 .. 1 : i # j => f[i] # f[j]}
      BY <2>1, Zenon DEF SetToSeqs
    <3> QED BY <2>2, <3>1
  <2>6. \A f \in [{1} -> {Session}] : \A i, j \in {1} : i # j => f[i] # f[j]
    OBVIOUS
  <2> DEFINE all == [{1} -> {Session}]
             one == <<Session>>
  <2>7. /\ \A f \in all : f = one
        /\ one \in all
        /\ \A f : f \in SetToSeqs({Session}) <=> f \in all
    BY <2>3, <2>4, <2>5, <2>6, Zenon
  <2> HIDE DEF all, one
  <2>8. SetToSeqs({Session}) = {one}
    BY <2>7
  <2> QED BY <2>8 DEF one
<1>4. \A order : InOrder(order, {}) = <<>>
  BY <1>2 DEF InOrder
<1>5. InOrder(<<Session>>, {Session}) = <<Session>>
  <2> DEFINE Ordered(line) ==
        \A i, j \in DOMAIN line : \A a, b \in DOMAIN <<Session>> :
            i < j /\ line[i] = <<Session>>[a] /\ line[j] = <<Session>>[b] => a < b
  <2>1. Ordered(<<Session>>)
    OBVIOUS
  <2>2. InOrder(<<Session>>, {Session}) = CHOOSE line \in {<<Session>>} : Ordered(line)
    BY <1>3 DEF InOrder
  <2> HIDE DEF Ordered
  <2> QED BY <2>1, <2>2
<1> QED BY <1>1, <1>4, <1>5

\* A session that is taken out is gone; without one to take out the stage
\* stays as it is.
LEMMA WithoutOne ==
    ASSUME NEW B, NEW st \in Stage(B)
    PROVE  /\ Without(st, {Session}) \in Bare(B)
           /\ Without(st, {}) = st
<1>1. CASE st \in Bare(B)
  <2>1. st.order = <<>> /\ ToSet(st.order) = {}
    BY <1>1, OrdersOfOne DEF Bare
  <2>2. \A gone : Without(st, gone) = [order |-> <<>>, cache |-> [s \in {} |-> st.cache[s]],
                                       length |-> [s \in {} |-> st.length[s]]]
    BY <2>1, OrdersOfOne DEF Without
  <2>3. [order |-> <<>>, cache |-> [s \in {} |-> st.cache[s]],
         length |-> [s \in {} |-> st.length[s]]] \in Bare(B)
    BY DEF Bare
  <2>4. st = [order |-> <<>>, cache |-> [s \in {} |-> st.cache[s]],
              length |-> [s \in {} |-> st.length[s]]]
    BY <1>1 DEF Bare
  <2> QED BY <2>2, <2>3, <2>4
<1>2. CASE st \in Filled(B)
  <2>1. st.order = <<Session>> /\ ToSet(st.order) = {Session}
    BY <1>2, OrdersOfOne DEF Filled
  <2>2. Without(st, {Session}) = [order |-> <<>>, cache |-> [s \in {} |-> st.cache[s]],
                                  length |-> [s \in {} |-> st.length[s]]]
    BY <2>1, OrdersOfOne DEF Without
  <2>3. [order |-> <<>>, cache |-> [s \in {} |-> st.cache[s]],
         length |-> [s \in {} |-> st.length[s]]] \in Bare(B)
    BY DEF Bare
  <2>4. Without(st, {}) = [order |-> <<Session>>,
                           cache |-> [s \in {Session} |-> st.cache[s]],
                           length |-> [s \in {Session} |-> st.length[s]]]
    BY <2>1, OrdersOfOne DEF Without
  <2>5. st = [order |-> <<Session>>, cache |-> [s \in {Session} |-> st.cache[s]],
              length |-> [s \in {Session} |-> st.length[s]]]
    BY <1>2 DEF Filled
  <2> QED BY <2>2, <2>3, <2>4, <2>5
<1> QED BY <1>1, <1>2 DEF Stage

\* A stage that keeps the session with this cache and this length.
Keeping(cache, length) ==
    [order |-> <<Session>>, cache |-> [x \in {Session} |-> cache],
     length |-> [x \in {Session} |-> length]]

\* What a stage may be once it has given the session this cache and length.
AfterUse(st, cache, length) ==
    Evicted(With(st, <<Session>>, [x \in {Session} |-> cache],
                 [x \in {Session} |-> length]), {Session})

\* The session that was just used is the only one, and is not evicted.
LEMMA KeptAfterUse ==
    ASSUME NEW B, NEW st \in Stage(B), NEW cache \in Seq(B), NEW length \in Nat,
           length <= Len(cache), NEW after \in AfterUse(st, cache, length)
    PROVE  after = Keeping(cache, length)
<1> USE DEF Keeping
<1> DEFINE used == Keeping(cache, length)
           given == With(st, <<Session>>, [x \in {Session} |-> cache],
                         [x \in {Session} |-> length])
<1>1. ToSet(st.order) \in {{}, {Session}} /\ ToSet(<<Session>>) = {Session}
  BY OrdersOfOne DEF Stage, Bare, Filled
<1>2. InOrder(st.order, ToSet(st.order) \ {Session}) = <<>>
  <2>1. ToSet(st.order) \ {Session} = {}
    BY <1>1
  <2>2. st.order \in {<<>>, <<Session>>}
    BY DEF Stage, Bare, Filled
  <2> QED BY <2>1, <2>2, OrdersOfOne
<1>3. ToSet(st.order) \cup {Session} = {Session}
  BY <1>1
<1>4. <<>> \o <<Session>> = <<Session>>
  OBVIOUS
<1>5. given = used
  BY <1>1, <1>2, <1>3, <1>4 DEF With
<1>6. Len(used.order) = 1 /\ Cardinality({Session}) = 1
  BY FS_Singleton
<1>7. used \in Stage(B)
  BY DEF Stage, Filled
<1> HIDE DEF used, given
<1>8. PICK k \in {0} \cup 0 .. 0 : after = Without(used, {used.order[i] : i \in 1 .. k})
  <2>1. after \in Evicted(used, {Session})
    BY <1>5 DEF given, AfterUse
  <2>2. (IF 1 > MaxSessions THEN 1 - MaxSessions ELSE 0) = 0
    OBVIOUS
  <2>3. Evicted(used, {Session}) =
          {Without(used, {used.order[i] : i \in 1 .. k}) : k \in {0} \cup 0 .. 1 - 1}
    BY <1>6, <2>2 DEF Evicted
  <2>4. 1 - 1 = 0
    OBVIOUS
  <2> QED BY <2>1, <2>3, <2>4
<1>9. {used.order[i] : i \in 1 .. k} = {}
  BY <1>8
<1> QED BY <1>7, <1>8, <1>9, WithoutOne DEF used

\* What handle answers and leaves, by the branch it takes.
LEMMA HandledCases ==
    ASSUME NEW st, NEW p, NEW o \in Handled(st, p)
    PROVE  LET at == Positioned(st, p)
               grown == Extended(at.cache, p.start, p.new)
           IN  \/ p.close /\ o = [stage |-> Without(st, {p.session}), answer |-> Closed]
               \/ ~at.there /\ o = [stage |-> st, answer |-> Miss]
               \/ /\ at.there /\ p.new = <<>>
                  /\ o = [stage |-> Cropped(st, p), answer |-> Error]
               \/ o = [stage |-> Without(st, {p.session}), answer |-> Error]
               \/ /\ "output" \in Failures
                  /\ at.there /\ p.new # <<>>
                  /\ o = [stage |-> OnOutputFailure(st, p, grown), answer |-> Error]
               \/ /\ at.there /\ p.new # <<>>
                  /\ o.stage \in Evicted(With(st, <<p.session>>,
                                         [x \in {p.session} |-> grown],
                                         [x \in {p.session} |-> p.start + Len(p.new)]),
                                         {p.session})
                  /\ o = [stage |-> o.stage,
                          answer |-> Hidden(SubSeq(grown, Len(at.cache) + 1, Len(grown)))]
<1> DEFINE at == Positioned(st, p)
           grown == Extended(at.cache, p.start, p.new)
           out == SubSeq(grown, Len(at.cache) + 1, Len(grown))
           after == Evicted(With(st, <<p.session>>, [x \in {p.session} |-> grown],
                                 [x \in {p.session} |-> p.start + Len(p.new)]), {p.session})
           outcome(s, a) == [stage |-> s, answer |-> a]
<1>1. CASE p.close
  BY <1>1 DEF Handled
<1>2. CASE ~p.close /\ ~at.there
  BY <1>2 DEF Handled
<1>3. CASE ~p.close /\ at.there /\ p.new = <<>>
  BY <1>3 DEF Handled
<1>4. CASE ~p.close /\ at.there /\ p.new # <<>>
  <2>1. o \in {outcome(OnFailure(st, p, grown), Error) : f \in Failures \cap {"forward"}}
             \cup {outcome(OnOutputFailure(st, p, grown), Error) :
                     f \in Failures \cap {"output"}}
             \cup {outcome(s, Hidden(out)) : s \in after}
    BY <1>4 DEF Handled
  <2> HIDE DEF grown, out, after, at
  <2>2. \/ o = outcome(OnFailure(st, p, grown), Error)
        \/ "output" \in Failures /\ o = outcome(OnOutputFailure(st, p, grown), Error)
        \/ \E s \in after : o = outcome(s, Hidden(out))
    BY <2>1
  <2>3. ASSUME NEW s \in after, o = outcome(s, Hidden(out))
        PROVE  o.stage \in after /\ o = outcome(o.stage, Hidden(out))
    BY <2>3
  <2> QED BY <1>4, <2>2, <2>3 DEF grown, out, after, at, OnFailure
<1> QED BY <1>1, <1>2, <1>3, <1>4

\* Where handle continues: at a cache that is there, of the length start, from
\* the bits that were there.
LEMMA PositionedOne ==
    ASSUME NEW B, NEW st \in Stage(B), NEW p \in Payload, p.session = Session
    PROVE  LET at == Positioned(st, p)
           IN  /\ at.cache \in Seq(B)
               /\ at.there \in BOOLEAN
               /\ at.there => p.start <= Len(at.cache)
               /\ at.there /\ Exact(st) => Len(at.cache) = p.start
               /\ at.there /\ p.start # 0 => Keeps(st, Session)
               /\ p.start = 0 \/ (Keeps(st, Session) /\ st.length[Session] = p.start)
                    => at.there
<1> DEFINE at == Positioned(st, p)
<1>1. p.start \in Nat /\ p.rewind \in BOOLEAN
  BY DEF Payload
<1>2. <<>> \in Seq(B) /\ Len(<<>>) = 0
  OBVIOUS
<1>3. CASE p.start = 0
  BY <1>2, <1>3 DEF Positioned
<1>4. CASE p.start # 0 /\ ~Keeps(st, Session)
  BY <1>2, <1>4 DEF Positioned
<1>5. CASE p.start # 0 /\ Keeps(st, Session)
  <2>1. st \in Filled(B)
    BY <1>5, OrdersOfOne DEF Keeps, Stage, Bare
  <2> DEFINE c == st.cache[Session]
             n == st.length[Session]
  <2>2. c \in Seq(B) /\ n \in Nat /\ n <= Len(c) /\ (Exact(st) => Len(c) = n)
    BY <2>1 DEF Filled, Exact
  <2>3. at = IF p.rewind /\ p.start < n
             THEN [there |-> TRUE, cache |-> SubSeq(c, 1, p.start)]
             ELSE [there |-> n = p.start, cache |-> c]
    BY <1>5 DEF Positioned
  <2> HIDE DEF c, n, at
  <2>4. ASSUME p.rewind, p.start < n
        PROVE  SubSeq(c, 1, p.start) \in Seq(B) /\ Len(SubSeq(c, 1, p.start)) = p.start
    BY <1>1, <2>2, <2>4
  <2>5. CASE p.rewind /\ p.start < n
    <3>1. at = [there |-> TRUE, cache |-> SubSeq(c, 1, p.start)]
      BY <2>3, <2>5
    <3>2. at.there /\ at.cache = SubSeq(c, 1, p.start)
      BY <3>1
    <3>3. at.cache \in Seq(B) /\ Len(at.cache) = p.start /\ p.start <= Len(at.cache)
      BY <1>1, <2>4, <2>5, <3>2
    <3>4. at.there \in BOOLEAN
      <4>1. at.there = TRUE
        BY <3>1
      <4> QED BY <4>1
    <3> QED BY <1>5, <3>2, <3>3, <3>4, Zenon DEF at
  <2>6. CASE ~(p.rewind /\ p.start < n)
    <3>1. at = [there |-> n = p.start, cache |-> c]
      BY <2>3, <2>6
    <3>2. at.cache = c
      BY <3>1
    <3>3. at.there \in BOOLEAN /\ (at.there <=> n = p.start)
      <4>1. at.there = (n = p.start)
        BY <3>1, Zenon
      <4> QED BY <4>1, Zenon
    <3>4. p.start # 0
      BY <1>5
    <3>5. /\ at.cache \in Seq(B)
          /\ at.there => p.start <= Len(at.cache)
          /\ at.there /\ Exact(st) => Len(at.cache) = p.start
      BY <1>1, <2>2, <3>2, <3>3
    <3>6. p.start = 0 \/ (Keeps(st, Session) /\ n = p.start) => at.there
      BY <3>3, <3>4
    <3>7. at.there /\ p.start # 0 => Keeps(st, Session)
      BY <1>5
    <3> QED BY <3>3, <3>5, <3>6, <3>7, Zenon DEF at, n
  <2> QED BY <2>5, <2>6
<1> QED BY <1>3, <1>4, <1>5

\* Sound bits are only computed where the cache has the right length.
Continues(B, cache, start) == B = {TRUE} => Len(cache) = start

\* A forward adds one entry for each new position; all are sound if those before
\* are and the cache is of the right length.
LEMMA ExtendedBits ==
    ASSUME NEW B, Allowed(B), NEW cache \in Seq(B), NEW new \in Seq(B), NEW start \in Nat,
           Continues(B, cache, start)
    PROVE  /\ Extended(cache, start, new) \in Seq(B)
           /\ Len(Extended(cache, start, new)) = Len(cache) + Len(new)
<1> DEFINE row == [i \in DOMAIN new |-> /\ Len(cache) = start
                                        /\ \A j \in DOMAIN cache : cache[j]
                                        /\ \A j \in 1 .. i : new[j]]
<1>1. DOMAIN new = 1 .. Len(new) /\ Len(new) \in Nat
  OBVIOUS
<1>2. \A i \in DOMAIN new : row[i] \in B
  <2>1. CASE B = BOOLEAN
    <3>1. \A i \in DOMAIN new : row[i] = TRUE \/ row[i] = FALSE
      OBVIOUS
    <3> QED BY <2>1, <3>1
  <2>2. CASE B = {TRUE}
    <3>5. Len(cache) = start
      BY <2>2, Zenon DEF Continues
    <3>1. \A q \in Seq(B) : \A j \in DOMAIN q : q[j] \in B
      OBVIOUS
    <3>2. \A j \in DOMAIN cache : cache[j]
      BY <2>2, <3>1, Zenon
    <3>3. \A j \in DOMAIN new : new[j]
      BY <2>2, <3>1, Zenon
    <3>4. \A i \in DOMAIN new : \A j \in 1 .. i : j \in DOMAIN new
      BY <1>1
    <3> QED BY <2>2, <3>2, <3>3, <3>4, <3>5, Zenon
  <2> QED BY <2>1, <2>2 DEF Allowed
<1>3. row \in Seq(B) /\ Len(row) = Len(new)
  <2>1. DOMAIN row = 1 .. Len(new)
    BY <1>1
  <2> HIDE DEF row
  <2>2. row \in [1 .. Len(new) -> B]
    <3>1. row = [i \in DOMAIN new |-> row[i]]
      BY DEF row
    <3> QED BY <1>1, <1>2, <3>1
  <2> QED BY <1>1, <2>2
<1>4. Extended(cache, start, new) = cache \o row
  BY DEF Extended
<1> HIDE DEF row
<1>5. \A q \in Seq(B) : cache \o q \in Seq(B) /\ Len(cache \o q) = Len(cache) + Len(q)
  OBVIOUS
<1> QED BY <1>3, <1>4, <1>5
LEMMA KeepingIsFilled ==
    ASSUME NEW B, NEW cache \in Seq(B), NEW length \in Nat, length <= Len(cache)
    PROVE  /\ Keeping(cache, length) \in Filled(B)
           /\ Len(cache) = length => Exact(Keeping(cache, length))
           /\ Keeping(cache, length).length[Session] = length
           /\ Keeps(Keeping(cache, length), Session)
BY OrdersOfOne DEF Keeping, Filled, Exact, Keeps

LEMMA CroppedOne ==
    ASSUME NEW B, NEW st \in Stage(B), NEW p, p.session = Session,
           p.start # 0, Keeps(st, Session), NEW grown
    PROVE  /\ Cropped(st, p) = Keeping(Positioned(st, p).cache, p.start)
           /\ [Cropped(st, p) EXCEPT !.cache[p.session] = grown] = Keeping(grown, p.start)
<1>1. st \in [order : {<<Session>>}, cache : [{Session} -> Seq(B)],
              length : [{Session} -> Nat]]
  BY OrdersOfOne DEF Keeps, Stage, Bare, Filled
<1> DEFINE c == Positioned(st, p).cache
<1>2. Cropped(st, p) = [st EXCEPT !.cache[Session] = c, !.length[Session] = p.start]
  BY DEF Cropped
<1> HIDE DEF c
<1>3. Cropped(st, p) = Keeping(c, p.start)
  <2>1. [st.cache EXCEPT ![Session] = c] = [x \in {Session} |-> c]
    BY <1>1
  <2>2. [st.length EXCEPT ![Session] = p.start] = [x \in {Session} |-> p.start]
    BY <1>1
  <2>3. Cropped(st, p) = [order |-> st.order, cache |-> [st.cache EXCEPT ![Session] = c],
                          length |-> [st.length EXCEPT ![Session] = p.start]]
    BY <1>1, <1>2
  <2> QED BY <1>1, <2>1, <2>2, <2>3 DEF Keeping
<1>4. [Keeping(c, p.start) EXCEPT !.cache[Session] = grown] = Keeping(grown, p.start)
  BY DEF Keeping
<1> QED BY <1>3, <1>4 DEF c

\* A cache of sound bits is only of use if its length is known.
Trusted(B, st) == B = {TRUE} => Exact(st)

Answers(B) == [kind : {"closed", "cache_miss", "error", "hidden_states"}, hidden : Seq(B)]

\* A request of the session leaves the stage as it should be: with sound bits
\* only if it had no others, and exact unless lm_head may fail.  It is a cache
\* miss only when the stage does not hold what comes before start.
LEMMA HandledOne ==
    ASSUME NEW B, Allowed(B), NEW st \in Stage(B), NEW p \in Payload, p.session = Session,
           p.new \in Seq(B), Trusted(B, st), NEW o \in Handled(st, p)
    PROVE  /\ o.stage \in Stage(B)
           /\ o.answer \in Answers(B)
           /\ Exact(st) /\ "output" \notin Failures => Exact(o.stage)
           /\ o.answer.kind = "closed" => p.close
           /\ o.answer.kind = "cache_miss" =>
                 ~(p.start = 0 \/ (Keeps(st, Session) /\ st.length[Session] = p.start))
           /\ o.answer.kind = "hidden_states" =>
                 /\ p.new # <<>>
                 /\ Len(o.answer.hidden) = Len(p.new)
                 /\ Keeps(o.stage, Session)
                 /\ o.stage.length[Session] = p.start + Len(p.new)
<1> DEFINE at == Positioned(st, p)
           grown == Extended(at.cache, p.start, p.new)
           out == SubSeq(grown, Len(at.cache) + 1, Len(grown))
<1>1. p.start \in Nat
  BY DEF Payload
<1>2. /\ at.cache \in Seq(B)
      /\ at.there => p.start <= Len(at.cache)
      /\ at.there /\ Exact(st) => Len(at.cache) = p.start
      /\ at.there /\ p.start # 0 => Keeps(st, Session)
      /\ ~at.there =>
            ~(p.start = 0 \/ (Keeps(st, Session) /\ st.length[Session] = p.start))
  BY PositionedOne
<1>3. at.there => /\ grown \in Seq(B)
                  /\ Len(grown) = Len(at.cache) + Len(p.new)
  <2> HIDE DEF at
  <2>2. ASSUME at.there PROVE Len(Extended(at.cache, p.start, p.new)) = Len(at.cache) + Len(p.new)
                               /\ Extended(at.cache, p.start, p.new) \in Seq(B)
    <3>1. Continues(B, at.cache, p.start)
      BY <1>2, <2>2, Zenon DEF Continues, Trusted
    <3>2. \A cache, new \in Seq(B) : \A start \in Nat : Continues(B, cache, start) =>
            /\ Extended(cache, start, new) \in Seq(B)
            /\ Len(Extended(cache, start, new)) = Len(cache) + Len(new)
      BY ExtendedBits
    <3> QED BY <1>1, <1>2, <3>1, <3>2, Zenon
  <2> QED BY <2>2, Zenon
<1>4. <<>> \in Seq(B)
  OBVIOUS
<1>5. /\ Closed \in Answers(B) /\ Miss \in Answers(B) /\ Error \in Answers(B)
      /\ Closed.kind = "closed" /\ Miss.kind = "cache_miss" /\ Error.kind = "error"
  BY <1>4 DEF Closed, Miss, Error, Answers
<1>6. Without(st, {Session}) \in Bare(B) /\ Exact(Without(st, {Session}))
  <2>1. Without(st, {Session}) \in Bare(B)
    BY WithoutOne
  <2>2. \A s \in Bare(B) : Exact(s)
    <3>1. <<>> # <<Session>>
      BY OrdersOfOne
    <3>2. \A s \in Bare(B) : s.order = <<>>
      BY DEF Bare
    <3> QED BY <3>1, <3>2 DEF Exact
  <2> QED BY <2>1, <2>2
<1>7. Len(p.new) \in Nat
  OBVIOUS
<1>14. Len(at.cache) \in Nat
  BY <1>2
<1>15. p.start # 0 /\ Keeps(st, Session) =>
          /\ Cropped(st, p) = Keeping(at.cache, p.start)
          /\ OnOutputFailure(st, p, grown) = Keeping(grown, p.start)
  <2> HIDE DEF grown
  <2>1. ASSUME p.start # 0, Keeps(st, Session)
        PROVE  /\ Cropped(st, p) = Keeping(at.cache, p.start)
               /\ [Cropped(st, p) EXCEPT !.cache[p.session] = grown] = Keeping(grown, p.start)
    <3>1. st \in Stage(B) /\ p.session = Session
      OBVIOUS
    <3> HIDE DEF at
    <3>2. /\ Cropped(st, p) = Keeping(Positioned(st, p).cache, p.start)
          /\ [Cropped(st, p) EXCEPT !.cache[p.session] = grown] = Keeping(grown, p.start)
      BY ONLY <2>1, <3>1, CroppedOne
    <3> QED BY <3>2, Zenon DEF at
  <2> HIDE DEF at
  <2> QED BY <2>1 DEF OnOutputFailure
<1> HIDE DEF at, grown
<1>8. CASE p.close /\ o = [stage |-> Without(st, {Session}), answer |-> Closed]
  BY <1>5, <1>6, <1>8 DEF Stage
<1>9. CASE ~at.there /\ o = [stage |-> st, answer |-> Miss]
  BY <1>2, <1>5, <1>9
<1>10. CASE at.there /\ p.new = <<>> /\ o = [stage |-> Cropped(st, p), answer |-> Error]
  <2>1. CASE p.start # 0
    <3>1. o.stage = Keeping(at.cache, p.start)
      BY <1>2, <1>10, <1>15, <2>1
    <3> QED BY <1>1, <1>2, <1>5, <1>10, <3>1, KeepingIsFilled DEF Stage
  <2>2. CASE p.start = 0
    BY <1>5, <1>10, <2>2 DEF Cropped
  <2> QED BY <2>1, <2>2
<1>11. CASE o = [stage |-> Without(st, {Session}), answer |-> Error]
  BY <1>5, <1>6, <1>11 DEF Stage
<1>12. CASE /\ "output" \in Failures
            /\ at.there /\ p.new # <<>>
            /\ o = [stage |-> OnOutputFailure(st, p, grown), answer |-> Error]
  <2>1. CASE p.start # 0
    <3>1. o.stage = Keeping(grown, p.start)
      BY <1>2, <1>12, <1>15, <2>1
    <3>2. /\ p.start <= Len(at.cache)
          /\ grown \in Seq(B) /\ Len(grown) = Len(at.cache) + Len(p.new)
      BY <1>2, <1>3, <1>12, Zenon
    <3>3. p.start <= Len(grown)
      <4> DEFINE a == p.start
                 b == Len(at.cache)
                 c == Len(p.new)
                 d == Len(grown)
      <4>1. a \in Nat /\ b \in Nat /\ c \in Nat /\ a <= b /\ d = b + c
        BY <1>1, <1>7, <1>14, <3>2, Zenon
      <4> HIDE DEF a, b, c, d
      <4>2. a <= d
        BY <4>1
      <4> QED BY <4>2 DEF a, d
    <3>4. Keeping(grown, p.start) \in Filled(B)
      BY <1>1, <3>2, <3>3, KeepingIsFilled, Zenon
    <3>5. o.stage \in Stage(B) /\ o.answer = Error
      BY <1>12, <3>1, <3>4 DEF Stage
    <3> QED BY <1>5, <1>12, <3>5
  <2>2. CASE p.start = 0
    BY <1>5, <1>12, <2>2 DEF OnOutputFailure
  <2> QED BY <2>1, <2>2
<1>13. CASE /\ at.there /\ p.new # <<>>
            /\ o.stage \in AfterUse(st, grown, p.start + Len(p.new))
            /\ o = [stage |-> o.stage, answer |-> Hidden(out)]
  <2> DEFINE length == p.start + Len(p.new)
  <2>1. /\ p.start <= Len(at.cache)
        /\ Exact(st) => Len(at.cache) = p.start
        /\ grown \in Seq(B) /\ Len(grown) = Len(at.cache) + Len(p.new)
    BY <1>2, <1>3, <1>13, Zenon
  <2>2. length \in Nat /\ length <= Len(grown) /\ grown \in Seq(B)
        /\ (Exact(st) => Len(grown) = length)
    <3> DEFINE a == p.start
               b == Len(at.cache)
               c == Len(p.new)
               d == Len(grown)
    <3>1. /\ a \in Nat /\ b \in Nat /\ c \in Nat /\ a <= b /\ d = b + c
          /\ (Exact(st) => b = a)
          /\ length = a + c
      BY <1>1, <1>7, <1>14, <2>1, Zenon
    <3> HIDE DEF a, b, c, d, length
    <3>2. length \in Nat /\ length <= d /\ (Exact(st) => d = length)
      BY <3>1
    <3> QED BY <2>1, <3>2, Zenon DEF d
  <2>3. o.stage = Keeping(grown, length)
    <3> HIDE DEF length
    <3>1. o.stage \in AfterUse(st, grown, length)
      BY <1>13 DEF length
    <3>2. \A c \in Seq(B), n \in Nat :
            \A after \in AfterUse(st, c, n) : n <= Len(c) => after = Keeping(c, n)
      BY KeptAfterUse
    <3> QED BY <2>2, <3>1, <3>2, Zenon
  <2>4. out \in Seq(B) /\ Len(out) = Len(p.new)
    <3> DEFINE n == Len(at.cache)
               c == Len(p.new)
    <3>1. n \in Nat /\ c \in Nat /\ Len(grown) = n + c /\ grown \in Seq(B)
      BY <1>7, <1>14, <2>1, Zenon
    <3>2. out = SubSeq(grown, n + 1, Len(grown))
      OBVIOUS
    <3> HIDE DEF n, c, out
    <3>3. \A q \in Seq(B) : Len(q) = n + c =>
            SubSeq(q, n + 1, Len(q)) \in Seq(B) /\ Len(SubSeq(q, n + 1, Len(q))) = c
      BY <3>1
    <3> QED BY <3>1, <3>2, <3>3, Zenon DEF c
  <2>5. o.answer = Hidden(out)
    BY <1>13
  <2> HIDE DEF out, length
  <2>6. o.answer \in Answers(B) /\ o.answer.kind = "hidden_states" /\ o.answer.hidden = out
    BY <2>4, <2>5 DEF Hidden, Answers
  <2>7. /\ Keeping(grown, length) \in Stage(B)
        /\ Exact(st) => Exact(Keeping(grown, length))
        /\ Keeping(grown, length).length[Session] = length
        /\ Keeps(Keeping(grown, length), Session)
    BY <2>2, KeepingIsFilled DEF Stage
  <2> QED BY <1>13, <2>3, <2>4, <2>6, <2>7 DEF length
<1> QED
  <2> HIDE DEF out
  <2>1. \/ p.close /\ o = [stage |-> Without(st, {Session}), answer |-> Closed]
        \/ ~at.there /\ o = [stage |-> st, answer |-> Miss]
        \/ at.there /\ p.new = <<>> /\ o = [stage |-> Cropped(st, p), answer |-> Error]
        \/ o = [stage |-> Without(st, {Session}), answer |-> Error]
        \/ /\ "output" \in Failures
           /\ at.there /\ p.new # <<>>
           /\ o = [stage |-> OnOutputFailure(st, p, grown), answer |-> Error]
        \/ /\ at.there /\ p.new # <<>>
           /\ o.stage \in AfterUse(st, grown, p.start + Len(p.new))
           /\ o = [stage |-> o.stage, answer |-> Hidden(out)]
    BY HandledCases DEF out, at, grown, AfterUse
  <2> QED BY <1>8, <1>9, <1>10, <1>11, <1>12, <1>13, <2>1
-----------------------------------------------------------------------------
(* The step under way *)

\* What the generator asks of a stage.
Requests(B) ==
    [session : {Session}, start : Nat, new : Seq(B), rewind : BOOLEAN, close : {FALSE}]

Steps(B) ==
    [phase : {"idle", "running", "answered", "missed", "failed"},
     start : Nat, new : Seq(B), rewind : BOOLEAN,
     attempt : 1 .. 2, hop : 1 .. Depth, at : Seq(B)]

Copies(B) == [hop : 1 .. Depth, request : Requests(B)]

\* Everything that was computed or is sent consists of bits of B.
Pipe(B) ==
    /\ stages \in [Workers -> Stage(B)]
    /\ \A w \in Workers : Trusted(B, stages[w])
    /\ home \in [1 .. Depth -> Workers]
    /\ \A r \in 1 .. Depth : RoleOf[home[r]] = r
    /\ late \in [Workers -> Requests(B) \cup {Idle}]
    /\ orphans \subseteq Copies(B)
    /\ step \in Steps(B)
    /\ step.phase = "answered" => step.at # <<>>
    /\ losses \in 0 .. MaxLosses
    /\ faulty \in FaultSets

\* Only sound bits are computed while no worker computes something else and
\* lm_head does not fail.
Clean(B) == B = {TRUE} => faulty = {} /\ "output" \notin Failures

LEMMA AnyBits == Allowed(BOOLEAN) /\ Clean(BOOLEAN)
<1>1. BOOLEAN # {TRUE}
  <2>1. FALSE \in BOOLEAN /\ FALSE \notin {TRUE}
    BY Zenon
  <2> QED BY <2>1, Zenon
<1> QED BY <1>1, Zenon DEF Allowed, Clean

LEMMA RequestsArePayloads ==
    ASSUME NEW B, Allowed(B)
    PROVE  Seq(B) \subseteq Bits /\ Requests(B) \subseteq Payload
<1>1. B \subseteq BOOLEAN
  BY Zenon DEF Allowed
<1>2. Seq(B) \subseteq Seq(BOOLEAN)
  BY <1>1
<1> QED BY <1>2 DEF Requests, Payload, Bits

LEMMA PipeIsTyped == Pipe(BOOLEAN) => PipeTypeOK
<1> SUFFICES ASSUME Pipe(BOOLEAN) PROVE PipeTypeOK
  OBVIOUS
<1>1. Requests(BOOLEAN) \subseteq Payload
  BY RequestsArePayloads DEF Allowed
<1>2. step \in Step
  BY DEF Pipe, Steps, Step, Bits
<1>3. ASSUME NEW w \in Workers
      PROVE  /\ stages[w].order \in {<<>>, <<Session>>}
             /\ stages[w].cache \in [ToSet(stages[w].order) -> Bits]
             /\ stages[w].length \in [ToSet(stages[w].order) -> Nat]
  <2>1. stages[w] \in Stage(BOOLEAN)
    BY DEF Pipe
  <2>2. CASE stages[w] \in Bare(BOOLEAN)
    BY <2>2, OrdersOfOne DEF Bare, Bits
  <2>3. CASE stages[w] \in Filled(BOOLEAN)
    BY <2>3, OrdersOfOne DEF Filled, Bits
  <2> QED BY <2>1, <2>2, <2>3 DEF Stage
<1>4. orphans \subseteq Copy
  BY <1>1 DEF Pipe, Copies, Copy
<1> QED BY <1>1, <1>2, <1>3, <1>4 DEF Pipe, PipeTypeOK

\* A new step of sound tokens is sound.
LEMMA BegunStep ==
    ASSUME NEW B, NEW start \in Nat, NEW new \in Seq(B), NEW rewind \in BOOLEAN
    PROVE  Begun(start, new, rewind) \in Steps(B)
BY DEF Begun, Steps

LEMMA NoStepTyped == ASSUME NEW B PROVE NoStep \in Steps(B)
<1>1. <<>> \in Seq(B)
  OBVIOUS
<1> QED BY <1>1 DEF NoStep, Steps

\* A generator may begin a step, or end one.
LEMMA PipeStepChanged ==
    ASSUME NEW B, Pipe(B), step' \in Steps(B), step'.phase # "answered",
           UNCHANGED <<stages, home, late, orphans, losses, faulty>>
    PROVE  Pipe(B)'
<1> HIDE DEF Steps, Stage, Requests, Copies
<1> QED BY DEF Pipe

LEMMA PipeInitial == ASSUME NEW B, PipeInit PROVE Pipe(B)
<1>1. Empty \in Stage(B) /\ Exact(Empty)
  <2>1. <<>> # <<Session>>
    BY OrdersOfOne
  <2> QED BY <2>1, EmptyIsBare DEF Stage, Exact, Empty
<1>2. NoStep \in Steps(B) /\ NoStep.phase = "idle"
  BY NoStepTyped DEF NoStep
<1>3. \A w \in Workers : Trusted(B, stages[w])
  BY <1>1, Zenon DEF PipeInit, Trusted
<1> QED BY <1>1, <1>2, <1>3 DEF PipeInit, Pipe

\* What a stage answers to the step's request.
LEMMA RequestTyped ==
    ASSUME NEW B, Pipe(B)
    PROVE  Request \in Requests(B)
<1>1. step \in Steps(B)
  BY DEF Pipe
<1>2. (step.rewind \/ step.attempt = 2) \in BOOLEAN
  BY Zenon
<1>3. step.start \in Nat /\ step.at \in Seq(B)
  BY <1>1 DEF Steps
<1> QED BY <1>2, <1>3 DEF Request, Requests

\* A replica runs a request of the generator.
LEMMA RequestHandled ==
    ASSUME NEW B, Allowed(B), Pipe(B), Clean(B), NEW w \in Workers,
           NEW p \in Requests(B), NEW o \in Handled(stages[w], p)
    PROVE  /\ [stages EXCEPT ![w] = o.stage] \in [Workers -> Stage(B)]
           /\ \A v \in Workers : Trusted(B, [stages EXCEPT ![w] = o.stage][v])
           /\ o.answer \in Answers(B)
           /\ o.answer.kind # "closed"
           /\ o.answer.kind = "hidden_states" =>
                 p.new # <<>> /\ Len(o.answer.hidden) = Len(p.new)
<1>1. /\ p \in Payload /\ p.session = Session /\ p.new \in Seq(B)
      /\ p.close = FALSE
  BY RequestsArePayloads DEF Requests
<1>2. /\ stages \in [Workers -> Stage(B)] /\ stages[w] \in Stage(B)
      /\ \A v \in Workers : Trusted(B, stages[v])
  BY DEF Pipe
<1>3. /\ o.stage \in Stage(B)
      /\ o.answer \in Answers(B)
      /\ Exact(stages[w]) /\ "output" \notin Failures => Exact(o.stage)
      /\ o.answer.kind = "closed" => p.close
      /\ o.answer.kind = "hidden_states" =>
            p.new # <<>> /\ Len(o.answer.hidden) = Len(p.new)
  BY <1>1, <1>2, HandledOne
<1>4. Trusted(B, o.stage)
  BY <1>2, <1>3, Zenon DEF Trusted, Clean
<1>5. /\ [stages EXCEPT ![w] = o.stage] \in [Workers -> Stage(B)]
      /\ \A v \in Workers : [stages EXCEPT ![w] = o.stage][v] =
                             IF v = w THEN o.stage ELSE stages[v]
  BY <1>2, <1>3
<1>6. \A v \in Workers : Trusted(B, [stages EXCEPT ![w] = o.stage][v])
  BY <1>2, <1>4, <1>5, Zenon
<1> QED BY <1>1, <1>3, <1>5, <1>6, Zenon
\* What a worker answers, faulty or not, is of the same kind and length.
LEMMA ComputedAnswer ==
    ASSUME NEW B, Allowed(B), Clean(B), NEW w \in Workers, NEW answer \in Answers(B)
    PROVE  /\ Computed(w, answer) \in Answers(B)
           /\ Computed(w, answer).kind = answer.kind
           /\ Len(Computed(w, answer).hidden) = Len(answer.hidden)
<1>1. CASE w \notin faulty
  BY <1>1 DEF Computed
<1>2. CASE w \in faulty
  <2>1. B = BOOLEAN
    BY <1>2, Zenon DEF Allowed, Clean
  <2> DEFINE none == [i \in DOMAIN answer.hidden |-> FALSE]
             n == Len(answer.hidden)
  <2>2. answer.hidden \in Seq(B) /\ n \in Nat /\ DOMAIN answer.hidden = 1 .. n
    BY DEF Answers
  <2>3. none \in [1 .. n -> B]
    BY <2>1, <2>2
  <2>4. none \in Seq(B) /\ Len(none) = n
    <3> HIDE DEF none, n
    <3>1. \A q \in [1 .. n -> B] : q \in Seq(B) /\ Len(q) = n
      BY <2>2
    <3> QED BY <2>3, <3>1
  <2>5. Computed(w, answer) = [answer EXCEPT !.hidden = none]
    BY <1>2 DEF Computed
  <2> HIDE DEF none
  <2>6. Computed(w, answer) = [kind |-> answer.kind, hidden |-> none]
    BY <2>5 DEF Answers
  <2>7. answer.kind \in {"closed", "cache_miss", "error", "hidden_states"}
    BY DEF Answers
  <2> QED BY <2>4, <2>6, <2>7 DEF Answers
<1> QED BY <1>1, <1>2

\* The answer of a stage is the next one's input, or ends the step.
LEMMA PassedStep ==
    ASSUME NEW B, Pipe(B), NEW answer \in Answers(B), answer.kind # "closed",
           answer.kind = "hidden_states" => answer.hidden # <<>>
    PROVE  /\ Passed(answer) \in Steps(B)
           /\ Passed(answer).phase = "answered" => Passed(answer).at # <<>>
           /\ Passed(answer).phase # "idle" \/ step.phase = "idle"
<1>1. step \in Steps(B)
  BY DEF Pipe
<1>2. <<>> \in Seq(B)
  OBVIOUS
<1>3. answer.hidden \in Seq(B)
      /\ answer.kind \in {"cache_miss", "error", "hidden_states"}
  BY DEF Answers
<1>4. CASE answer.kind = "cache_miss"
  <2>1. Passed(answer) = [step EXCEPT !.phase = "missed", !.at = <<>>]
    BY <1>4 DEF Passed
  <2> QED BY <1>1, <1>2, <2>1 DEF Steps
<1>5. CASE answer.kind = "error"
  <2>1. Passed(answer) = [step EXCEPT !.phase = "failed", !.at = <<>>]
    BY <1>5 DEF Passed
  <2> QED BY <1>1, <1>2, <2>1 DEF Steps
<1>6. CASE answer.kind = "hidden_states" /\ step.hop < Depth
  <2>1. Passed(answer) = [step EXCEPT !.hop = @ + 1, !.at = answer.hidden]
    BY <1>6 DEF Passed
  <2>2. step.hop + 1 \in 1 .. Depth
    BY <1>1, <1>6 DEF Steps
  <2> QED BY <1>1, <1>3, <1>6, <2>1, <2>2 DEF Steps
<1>7. CASE answer.kind = "hidden_states" /\ ~(step.hop < Depth)
  <2>1. Passed(answer) = [step EXCEPT !.phase = "answered", !.at = answer.hidden]
    BY <1>7 DEF Passed
  <2> QED BY <1>1, <1>3, <1>7, <2>1 DEF Steps
<1> QED BY <1>3, <1>4, <1>5, <1>6, <1>7

\* One more loss is counted, up to the bound.
LEMMA LossCounted ==
    ASSUME losses \in 0 .. MaxLosses, Lost
    PROVE  /\ losses' \in 0 .. MaxLosses
           /\ losses' >= losses
           /\ losses < MaxLosses => losses' = losses + 1
BY DEF Lost

LEMMA PipeRun ==
    ASSUME NEW B, Allowed(B), Pipe(B), Clean(B), NEW w \in Workers, Run(w)
    PROVE  Pipe(B)' /\ (step'.phase # "idle" \/ step.phase = "idle")
<1>1. Request \in Requests(B)
  BY RequestTyped
<1>2. PICK o \in Handled(stages[w], Request) :
        /\ stages' = [stages EXCEPT ![w] = o.stage]
        /\ step' = Passed(Computed(w, o.answer))
  BY DEF Run
<1>3. /\ stages' \in [Workers -> Stage(B)]
      /\ \A v \in Workers : Trusted(B, stages'[v])
      /\ o.answer \in Answers(B)
      /\ o.answer.kind # "closed"
      /\ o.answer.kind = "hidden_states" =>
            Request.new # <<>> /\ Len(o.answer.hidden) = Len(Request.new)
  BY <1>1, <1>2, RequestHandled
<1> DEFINE answer == Computed(w, o.answer)
<1>4. /\ answer \in Answers(B) /\ answer.kind = o.answer.kind
      /\ Len(answer.hidden) = Len(o.answer.hidden)
  BY <1>3, ComputedAnswer
<1>5. answer.kind = "hidden_states" => answer.hidden # <<>>
  <2>1. Request.new \in Seq(B) /\ answer.hidden \in Seq(B)
    BY <1>1, <1>4 DEF Requests, Answers
  <2>2. \A q \in Seq(B) : q = <<>> <=> Len(q) = 0
    OBVIOUS
  <2> HIDE DEF answer
  <2> QED BY <1>3, <1>4, <2>1, <2>2, Zenon
<1> HIDE DEF answer
<1>6. /\ step' \in Steps(B)
      /\ step'.phase = "answered" => step'.at # <<>>
      /\ step'.phase # "idle" \/ step.phase = "idle"
  BY <1>2, <1>3, <1>4, <1>5, PassedStep DEF answer
<1> QED BY <1>3, <1>6 DEF Run, Pipe

\* What the answer of the bound replica makes of the step.
LEMMA RunEffect ==
    ASSUME Pipe(BOOLEAN), NEW w \in Workers, Run(w)
    PROVE  /\ UNCHANGED <<home, late, orphans, losses, faulty>>
           /\ w = home[step.hop] /\ Running
           /\ \A v \in Workers : v # w => stages'[v] = stages[v]
           /\ \/ /\ step' = [step EXCEPT !.phase = "missed", !.at = <<>>]
                 /\ step.start # 0
                 /\ ~(Keeps(stages[w], Session) /\ stages[w].length[Session] = step.start)
              \/ step' = [step EXCEPT !.phase = "failed", !.at = <<>>]
              \/ \E hidden \in Seq(BOOLEAN) :
                    /\ Len(hidden) = Len(step.at)
                    /\ Keeps(stages'[w], Session)
                    /\ stages'[w].length[Session] = step.start + Len(step.at)
                    /\ IF step.hop < Depth
                       THEN step' = [step EXCEPT !.hop = @ + 1, !.at = hidden]
                       ELSE step' = [step EXCEPT !.phase = "answered", !.at = hidden]
<1>1. PICK o \in Handled(stages[w], Request) :
        /\ stages' = [stages EXCEPT ![w] = o.stage]
        /\ step' = Passed(Computed(w, o.answer))
  BY DEF Run
<1>2. UNCHANGED <<home, late, orphans, losses, faulty>> /\ w = home[step.hop] /\ Running
  BY DEF Run
<1>3. Allowed(BOOLEAN) /\ Clean(BOOLEAN)
  BY AnyBits
<1>4. /\ Request \in Payload /\ Request.session = Session /\ Request.new \in Seq(BOOLEAN)
      /\ Request.close = FALSE /\ Request.start = step.start /\ Request.new = step.at
  BY <1>3, RequestTyped, RequestsArePayloads DEF Requests, Request
<1>5. stages[w] \in Stage(BOOLEAN) /\ Trusted(BOOLEAN, stages[w])
  BY DEF Pipe
<1>6. /\ o.answer \in Answers(BOOLEAN)
      /\ o.answer.kind = "closed" => Request.close
      /\ o.answer.kind = "cache_miss" =>
            ~(Request.start = 0 \/ (/\ Keeps(stages[w], Session)
                                    /\ stages[w].length[Session] = Request.start))
      /\ o.answer.kind = "hidden_states" =>
            /\ Request.new # <<>>
            /\ Len(o.answer.hidden) = Len(Request.new)
            /\ Keeps(o.stage, Session)
            /\ o.stage.length[Session] = Request.start + Len(Request.new)
  BY <1>3, <1>4, <1>5, HandledOne
<1> DEFINE answer == Computed(w, o.answer)
<1>7. /\ answer \in Answers(BOOLEAN) /\ answer.kind = o.answer.kind
      /\ Len(answer.hidden) = Len(o.answer.hidden)
  BY <1>3, <1>6, ComputedAnswer
<1>8. step' = Passed(answer)
  BY <1>1
<1> HIDE DEF answer
<1>9. /\ answer.hidden \in Seq(BOOLEAN)
      /\ answer.kind \in {"cache_miss", "error", "hidden_states"}
  BY <1>4, <1>6, <1>7 DEF Answers
<1>10. stages'[w] = o.stage /\ \A v \in Workers : v # w => stages'[v] = stages[v]
  BY <1>1 DEF Pipe
<1>11. CASE answer.kind = "cache_miss"
  <2>1. step' = [step EXCEPT !.phase = "missed", !.at = <<>>]
    BY <1>8, <1>11 DEF Passed
  <2>2. /\ step.start # 0
        /\ ~(Keeps(stages[w], Session) /\ stages[w].length[Session] = step.start)
    BY <1>4, <1>6, <1>7, <1>11, Zenon
  <2> QED BY <1>2, <1>10, <2>1, <2>2
<1>12. CASE answer.kind = "error"
  <2>1. step' = [step EXCEPT !.phase = "failed", !.at = <<>>]
    BY <1>8, <1>12 DEF Passed
  <2> QED BY <1>2, <1>10, <2>1
<1>13. CASE answer.kind = "hidden_states"
  <2>1. /\ Len(answer.hidden) = Len(step.at)
        /\ Keeps(stages'[w], Session)
        /\ stages'[w].length[Session] = step.start + Len(step.at)
    BY <1>4, <1>6, <1>7, <1>10, <1>13, Zenon
  <2>2. IF step.hop < Depth
        THEN step' = [step EXCEPT !.hop = @ + 1, !.at = answer.hidden]
        ELSE step' = [step EXCEPT !.phase = "answered", !.at = answer.hidden]
    BY <1>8, <1>13 DEF Passed
  <2>3. \E hidden \in Seq(BOOLEAN) :
          /\ Len(hidden) = Len(step.at)
          /\ Keeps(stages'[w], Session)
          /\ stages'[w].length[Session] = step.start + Len(step.at)
          /\ IF step.hop < Depth
             THEN step' = [step EXCEPT !.hop = @ + 1, !.at = hidden]
             ELSE step' = [step EXCEPT !.phase = "answered", !.at = hidden]
    BY <1>9, <2>1, <2>2, Zenon
  <2> QED BY <1>2, <1>10, <2>3
<1> QED BY <1>9, <1>11, <1>12, <1>13

LEMMA PipeStall ==
    ASSUME NEW B, Pipe(B), NEW w \in Workers, Stall(w)
    PROVE  Pipe(B)' /\ step' = step
<1>1. Request \in Requests(B)
  BY RequestTyped
<1>2. late' = [late EXCEPT ![w] = Request] /\ Lost
      /\ UNCHANGED <<stages, orphans, step, faulty>>
  BY DEF Stall
<1>3. late' \in [Workers -> Requests(B) \cup {Idle}]
  BY <1>1, <1>2 DEF Pipe
<1>4. losses' \in 0 .. MaxLosses
  BY <1>2, LossCounted DEF Pipe
<1>5. step.hop \in 1 .. Depth
  BY DEF Pipe, Steps
<1>6. /\ home' \in [1 .. Depth -> Workers]
      /\ \A r \in 1 .. Depth : RoleOf[home'[r]] = r
  <2>1. PICK v \in Workers : RoleOf[v] = step.hop /\ home' = [home EXCEPT ![step.hop] = v]
    BY DEF Stall
  <2> QED BY <1>5, <2>1 DEF Pipe
<1> QED BY <1>2, <1>3, <1>4, <1>6 DEF Pipe

LEMMA PipeRunLate ==
    ASSUME NEW B, Allowed(B), Pipe(B), Clean(B), NEW w \in Workers, RunLate(w)
    PROVE  Pipe(B)' /\ step' = step
<1>1. late[w] \in Requests(B)
  BY DEF RunLate, Pipe
<1>2. PICK o \in Handled(stages[w], late[w]) : stages' = [stages EXCEPT ![w] = o.stage]
  BY DEF RunLate
<1>3. /\ stages' \in [Workers -> Stage(B)]
      /\ \A v \in Workers : Trusted(B, stages'[v])
  BY <1>1, <1>2, RequestHandled
<1>4. late' \in [Workers -> Requests(B) \cup {Idle}]
  BY DEF RunLate, Pipe
<1> QED BY <1>3, <1>4 DEF RunLate, Pipe

LEMMA PipeRepeat ==
    ASSUME NEW B, Pipe(B), Repeat
    PROVE  Pipe(B)' /\ step' = step
<1>1. Request \in Requests(B) /\ step.hop \in 1 .. Depth
  BY RequestTyped DEF Pipe, Steps
<1>2. /\ orphans' = orphans \cup {[hop |-> step.hop, request |-> Request]} /\ Lost
      /\ UNCHANGED <<stages, home, late, step, faulty>>
  BY DEF Repeat
<1>3. orphans' \subseteq Copies(B)
  BY <1>1, <1>2 DEF Pipe, Copies
<1>4. losses' \in 0 .. MaxLosses
  BY <1>2, LossCounted DEF Pipe
<1> QED BY <1>2, <1>3, <1>4 DEF Pipe

\* What a copy becomes is again a copy.
LEMMA OnwardCopies ==
    ASSUME NEW B, NEW copy \in Copies(B), NEW answer \in Answers(B),
           NEW onward \in Onward(copy, answer)
    PROVE  onward \subseteq Copies(B)
<1>1. copy.hop \in 1 .. Depth /\ copy.request \in Requests(B) /\ answer.hidden \in Seq(B)
  BY DEF Copies, Answers
<1>2. CASE onward = {}
  BY <1>2
<1>3. CASE /\ copy.hop < Depth
           /\ onward = {[hop |-> copy.hop + 1,
                        request |-> [copy.request EXCEPT !.new = answer.hidden]]}
  <2>1. [copy.request EXCEPT !.new = answer.hidden] \in Requests(B)
    BY <1>1 DEF Requests
  <2>2. copy.hop + 1 \in 1 .. Depth
    BY <1>1, <1>3
  <2> QED BY <1>3, <2>1, <2>2 DEF Copies
<1> QED BY <1>2, <1>3 DEF Onward

LEMMA PipeRunOrphan ==
    ASSUME NEW B, Allowed(B), Pipe(B), Clean(B), NEW w \in Workers, RunOrphan(w)
    PROVE  Pipe(B)' /\ UNCHANGED <<late, step, losses, faulty>>
<1>1. PICK copy \in orphans :
        /\ copy.hop = RoleOf[w]
        /\ home' = [home EXCEPT ![copy.hop] = w]
        /\ \E o \in Handled(stages[w], copy.request) :
             /\ stages' = [stages EXCEPT ![w] = o.stage]
             /\ \E onward \in Onward(copy, Computed(w, o.answer)) :
                  orphans' = (orphans \ {copy}) \cup onward
  BY DEF RunOrphan
<1>2. PICK o \in Handled(stages[w], copy.request) :
        /\ stages' = [stages EXCEPT ![w] = o.stage]
        /\ \E onward \in Onward(copy, Computed(w, o.answer)) :
             orphans' = (orphans \ {copy}) \cup onward
  BY <1>1
<1>3. copy \in Copies(B) /\ orphans \subseteq Copies(B)
  BY <1>1 DEF Pipe
<1>4. copy.request \in Requests(B) /\ copy.hop \in 1 .. Depth
  BY <1>3 DEF Copies
<1>5. /\ stages' \in [Workers -> Stage(B)]
      /\ \A v \in Workers : Trusted(B, stages'[v])
      /\ o.answer \in Answers(B)
  BY <1>2, <1>4, RequestHandled
<1>6. Computed(w, o.answer) \in Answers(B)
  BY <1>5, ComputedAnswer
<1>7. PICK onward \in Onward(copy, Computed(w, o.answer)) :
        orphans' = (orphans \ {copy}) \cup onward
  BY <1>2
<1>8. onward \subseteq Copies(B)
  BY <1>3, <1>6, <1>7, OnwardCopies
<1>9. orphans' \subseteq Copies(B)
  BY <1>3, <1>7, <1>8
<1>10. /\ home' \in [1 .. Depth -> Workers]
       /\ \A r \in 1 .. Depth : RoleOf[home'[r]] = r
  BY <1>1, <1>4 DEF Pipe
<1>11. UNCHANGED <<late, step, losses, faulty>>
  BY DEF RunOrphan
<1> QED BY <1>5, <1>9, <1>10, <1>11 DEF Pipe

LEMMA PipeForget ==
    ASSUME NEW B, Pipe(B), NEW w \in Workers, Forget(w)
    PROVE  Pipe(B)' /\ step' = step
<1>1. Empty \in Stage(B) /\ Exact(Empty)
  <2>1. <<>> # <<Session>>
    BY OrdersOfOne
  <2> QED BY <2>1, EmptyIsBare DEF Stage, Exact, Empty
<1>2. Trusted(B, Empty)
  BY <1>1, Zenon DEF Trusted
<1>3. stages' = [stages EXCEPT ![w] = Empty] /\ Lost
      /\ UNCHANGED <<home, late, orphans, step, faulty>>
  BY DEF Forget
<1>4. /\ stages' \in [Workers -> Stage(B)]
      /\ \A v \in Workers : stages'[v] = IF v = w THEN Empty ELSE stages[v]
  BY <1>1, <1>3 DEF Pipe
<1>5. \A v \in Workers : Trusted(B, stages'[v])
  BY <1>2, <1>4, Zenon DEF Pipe
<1>6. losses' \in 0 .. MaxLosses
  BY <1>3, LossCounted DEF Pipe
<1> QED BY <1>3, <1>4, <1>5, <1>6 DEF Pipe

LEMMA PipeMove ==
    ASSUME NEW B, Pipe(B), NEW w \in Workers, Move(w)
    PROVE  Pipe(B)' /\ step' = step
<1>1. home' = [home EXCEPT ![RoleOf[w]] = w] /\ Lost
      /\ UNCHANGED <<stages, late, orphans, step, faulty>>
  BY DEF Move
<1>2. RoleOf[w] \in 1 .. Depth
  OBVIOUS
<1>3. /\ home' \in [1 .. Depth -> Workers]
      /\ \A r \in 1 .. Depth : RoleOf[home'[r]] = r
  BY <1>1, <1>2 DEF Pipe
<1>4. losses' \in 0 .. MaxLosses
  BY <1>1, LossCounted DEF Pipe
<1> QED BY <1>1, <1>3, <1>4 DEF Pipe

LEMMA PipeLose ==
    ASSUME NEW B, Pipe(B), Lose
    PROVE  Pipe(B)' /\ step'.phase \in {"running", "missed"}
<1>1. step \in Steps(B) /\ step.phase = "running"
  BY DEF Pipe, Lose, Running
<1>2. <<>> \in Seq(B)
  OBVIOUS
<1>3. step' \in Steps(B) /\ step'.phase \in {"running", "missed"}
  <2>1. CASE step.attempt = 1
    <3>1. step' = [step EXCEPT !.attempt = 2, !.hop = 1, !.at = step.new]
      BY <2>1 DEF Lose, Resent
    <3>2. 1 \in 1 .. Depth
      OBVIOUS
    <3>3. step.new \in Seq(B)
      BY <1>1 DEF Steps
    <3>4. step' = [phase |-> "running", start |-> step.start, new |-> step.new,
                   rewind |-> step.rewind, attempt |-> 2, hop |-> 1, at |-> step.new]
      BY <1>1, <3>1 DEF Steps
    <3> QED BY <1>1, <3>2, <3>3, <3>4 DEF Steps
  <2>2. CASE step.attempt # 1
    <3>1. step' = [step EXCEPT !.phase = "missed", !.at = <<>>]
      BY <2>2 DEF Lose
    <3> QED BY <1>1, <1>2, <3>1 DEF Steps
  <2> QED BY <2>1, <2>2
<1>4. losses' \in 0 .. MaxLosses
  BY LossCounted DEF Lose, Pipe
<1> QED BY <1>3, <1>4 DEF Lose, Pipe

\* Whatever the pipeline does, sound bits stay sound, and a step that is under
\* way stays under way or ends with an outcome.
LEMMA PipeStepKept ==
    ASSUME NEW B, Allowed(B), Pipe(B), Clean(B), PipeStep
    PROVE  Pipe(B)' /\ (step'.phase # "idle" \/ step.phase = "idle")
<1>1. ASSUME NEW w \in Workers,
             \/ Run(w) \/ Stall(w) \/ RunLate(w)
             \/ RunOrphan(w) \/ Forget(w) \/ Move(w)
      PROVE  Pipe(B)' /\ (step'.phase # "idle" \/ step.phase = "idle")
  BY <1>1, PipeRun, PipeStall, PipeRunLate, PipeRunOrphan, PipeForget, PipeMove
<1>2. ASSUME Lose \/ Repeat
      PROVE  Pipe(B)' /\ (step'.phase # "idle" \/ step.phase = "idle")
  BY <1>2, PipeLose, PipeRepeat
<1> QED BY <1>1, <1>2 DEF PipeStep

\* Only a running step changes, and nobody becomes faulty.
LEMMA PipeStepFrame ==
    ASSUME PipeStep
    PROVE  faulty' = faulty /\ (step.phase # "running" => step' = step)
BY DEF PipeStep, Run, Stall, RunLate, RunOrphan, Forget, Move, Lose, Repeat, Running

\* A session that is closed where it lives leaves the stages in order.
LEMMA PipeClosing ==
    ASSUME NEW B, Pipe(B), Closing, UNCHANGED <<home, late, orphans, step, losses, faulty>>
    PROVE  Pipe(B)'
<1>1. PICK heard \in SUBSET (1 .. Depth) :
        stages' = [w \in Workers |->
                     IF RoleOf[w] \in heard /\ home[RoleOf[w]] = w
                     THEN Without(stages[w], {Session}) ELSE stages[w]]
  BY DEF Closing
<1>2. ASSUME NEW w \in Workers
      PROVE  stages'[w] \in Stage(B) /\ Trusted(B, stages'[w])
  <2>1. stages[w] \in Stage(B) /\ Trusted(B, stages[w])
    BY DEF Pipe
  <2>2. Without(stages[w], {Session}) \in Bare(B)
    BY <2>1, WithoutOne
  <2>3. \A s \in Bare(B) : Exact(s)
    <3>1. <<>> # <<Session>>
      BY OrdersOfOne
    <3>2. \A s \in Bare(B) : s.order = <<>>
      BY DEF Bare
    <3> QED BY <3>1, <3>2 DEF Exact
  <2>4. Without(stages[w], {Session}) \in Stage(B) /\ Trusted(B, Without(stages[w], {Session}))
    BY <2>2, <2>3, Zenon DEF Stage, Trusted
  <2> QED BY <1>1, <2>1, <2>4
<1>3. stages' \in [Workers -> Stage(B)]
  BY <1>1, <1>2
<1> QED BY <1>2, <1>3 DEF Pipe
=============================================================================
