---------------------------- MODULE StageProofs ----------------------------
(***************************************************************************)
(* Theorems about one pipeline stage, for every number of sessions, every  *)
(* limit and any requests, alone or in batches: what it keeps, that what   *)
(* it answers was computed on the right tokens, and that a batch answers   *)
(* as its requests alone would be answered.                                *)
(***************************************************************************)
EXTENDS PipelineStage, FiniteSetTheorems, SequenceTheorems, TLAPS

USE StageAssumption, PolledAssumption

-----------------------------------------------------------------------------
(* Sequences without repetition *)

\* q has every element of S once, and nothing else.
Enumerates(q, S) == q \in Seq(S) /\ IsInjective(q) /\ ToSet(q) = S

\* The elements of line are in line as they are in order.
Follows(order, line) ==
    \A i, j \in DOMAIN line : \A a, b \in DOMAIN order :
        i < j /\ line[i] = order[a] /\ line[j] = order[b] => a < b

\* A set of natural numbers has a least one.
LEMMA LeastOf ==
    ASSUME NEW M, M # {}, M \subseteq Nat
    PROVE  \E m \in M : \A i \in M : m <= i
<1>1. PICK n \in M : \A i \in M : <<i, n>> \notin OpToRel(<, Nat)
  BY NatLessThanWellFounded, WFMin, Zenon
<1>2. ASSUME NEW i \in M PROVE n <= i
  <2>1. i \in Nat /\ n \in Nat /\ <<i, n>> \notin OpToRel(<, Nat)
    BY <1>1
  <2>2. ~(i < n)
    BY <2>1 DEF OpToRel
  <2>3. i \in Nat /\ n \in Nat
    BY <2>1, Zenon
  <2> QED BY <2>2, <2>3
<1> QED BY <1>2, Zenon

\* A sequence of natural numbers has a greatest element.
LEMMA MaxIs ==
    ASSUME NEW q \in Seq(Nat), q # <<>>, NEW S, S = {q[i] : i \in DOMAIN q}
    PROVE  Max(S) \in Nat /\ \A y \in S : y <= Max(S)
<1> DEFINE n == Len(q)
           Bound(k, u) == \A i \in 1 .. k : q[i] <= u
           Most(k) == \E m \in 1 .. k : Bound(k, q[m])
           M == {k \in 1 .. n : ~Most(k)}
<1>1. n \in Nat \ {0} /\ DOMAIN q = 1 .. n /\ \A i \in 1 .. n : q[i] \in Nat
  OBVIOUS
<1> HIDE DEF n
<1>2. M = {}
  <2>1. SUFFICES ASSUME M # {} PROVE FALSE
    OBVIOUS
  <2>2. PICK k \in M : \A i \in M : k <= i
    <3>1. M \subseteq Nat
      BY <1>1
    <3> HIDE DEF M
    <3> QED BY <2>1, <3>1, LeastOf
  <2>3. k \in 1 .. n /\ k \in Nat \ {0} /\ ~Most(k)
    BY <1>1
  <2>4. k # 1
    <3>1. Bound(1, q[1])
      BY <1>1
    <3>2. 1 \in 1 .. 1
      OBVIOUS
    <3> HIDE DEF Bound
    <3> QED BY <2>3, <3>1, <3>2
  <2>5. k - 1 \in 1 .. n /\ k - 1 \in Nat /\ ~(k <= k - 1)
    BY <1>1, <2>3, <2>4
  <2>6. Most(k - 1)
    BY <2>2, <2>5, Zenon
  <2>7. PICK m \in 1 .. k - 1 : Bound(k - 1, q[m])
    BY <2>6, Zenon
  <2>8. m \in 1 .. n /\ m \in 1 .. k /\ k \in 1 .. k
    BY <1>1, <2>3, <2>5
  <2>9. q[m] \in Nat /\ q[k] \in Nat
    BY <1>1, <2>3, <2>8
  <2>12. \A x, y, z \in Nat : x <= x /\ (x <= y /\ ~(z <= y) => x <= z)
    OBVIOUS
  <2>10. CASE q[k] <= q[m]
    <3>1. Bound(k, q[m])
      <4>1. ASSUME NEW i \in 1 .. k PROVE q[i] <= q[m]
        <5>1. i = k \/ i \in 1 .. k - 1
          BY <2>3
        <5> QED BY <2>7, <2>10, <5>1
      <4> QED BY <4>1
    <3> HIDE DEF Bound
    <3> QED BY <2>3, <2>8, <3>1
  <2>11. CASE ~(q[k] <= q[m])
    <3>1. Bound(k, q[k])
      <4>1. ASSUME NEW i \in 1 .. k PROVE q[i] <= q[k]
        <5>1. i = k \/ i \in 1 .. k - 1
          BY <2>3
        <5>2. CASE i = k
          BY <2>9, <2>12, <5>2, Zenon
        <5>3. CASE i \in 1 .. k - 1
          <6>1. q[i] <= q[m] /\ i \in 1 .. n
            BY <1>1, <2>3, <2>7, <5>3
          <6>2. q[i] \in Nat
            BY <1>1, <6>1
          <6> QED BY <2>9, <2>11, <2>12, <6>1, <6>2, Zenon
        <5> QED BY <5>1, <5>2, <5>3
      <4> QED BY <4>1
    <3> HIDE DEF Bound
    <3> QED BY <2>3, <2>8, <3>1
  <2> QED BY <2>10, <2>11
<1>3. PICK m \in 1 .. n : Bound(n, q[m])
  <2>1. n \in 1 .. n
    BY <1>1
  <2> HIDE DEF Bound
  <2> QED BY <1>2, <2>1
<1>4. q[m] \in S /\ q[m] \in Nat /\ \A y \in S : y \in Nat /\ q[m] >= y
  BY <1>1, <1>3
<1>5. Max(S) \in S /\ \A y \in S : Max(S) >= y
  BY <1>4, Zenon DEF Max
<1>6. \A x, y \in Nat : x >= y => y <= x
  OBVIOUS
<1> QED BY <1>4, <1>5, <1>6, Zenon

\* A sequence without repetition is as long as there are elements in it.
LEMMA LengthOf ==
    ASSUME NEW S, NEW q, Enumerates(q, S)
    PROVE  IsFiniteSet(S) /\ Cardinality(S) = Len(q)
<1>1. q \in [1 .. Len(q) -> S] /\ Len(q) \in Nat /\ DOMAIN q = 1 .. Len(q)
  BY DEF Enumerates
<1>2. q \in Injection(1 .. Len(q), S)
  BY <1>1, Zenon DEF Enumerates, Injection
<1>3. q \in Surjection(1 .. Len(q), S)
  <2>1. \A x \in S : \E i \in 1 .. Len(q) : q[i] = x
    BY <1>1 DEF Enumerates, ToSet
  <2> QED BY <1>1, <2>1 DEF Surjection
<1>4. ExistsBijection(1 .. Len(q), S)
  BY <1>2, <1>3, Zenon DEF Bijection, ExistsBijection
<1>5. IsFiniteSet(1 .. Len(q)) /\ Cardinality(1 .. Len(q)) = Len(q)
  <2>1. 1 \in Int /\ Len(q) \in Int
    BY <1>1
  <2>2. IsFiniteSet(1 .. Len(q)) /\ Cardinality(1 .. Len(q)) = IF 1 > Len(q) THEN 0 ELSE Len(q) - 1 + 1
    BY <2>1, FS_Interval
  <2> QED BY <1>1, <2>2
<1> QED BY <1>4, <1>5, FS_Bijection

\* The sequences SetToSeqs takes are those without repetition.
LEMMA EnumerationsAre ==
    ASSUME NEW S, IsFiniteSet(S), NEW q
    PROVE  q \in SetToSeqs(S) <=> Enumerates(q, S)
<1>1. Cardinality(S) \in Nat
  BY FS_CardinalityType
<1> DEFINE D == 1 .. Cardinality(S)
<1>2. ASSUME Enumerates(q, S) PROVE q \in SetToSeqs(S)
  <2>1. Cardinality(S) = Len(q)
    BY <1>2, LengthOf
  <2>2. q \in [D -> S]
    BY <1>2, <2>1 DEF Enumerates
  <2>3. \A i, j \in D : i # j => q[i] # q[j]
    BY <1>2, <2>2, Zenon DEF Enumerates, IsInjective
  <2> QED BY <2>2, <2>3, Zenon DEF SetToSeqs
<1>3. ASSUME q \in SetToSeqs(S) PROVE Enumerates(q, S)
  <2>1. q \in [D -> S] /\ \A i, j \in D : i # j => q[i] # q[j]
    BY <1>3, Zenon DEF SetToSeqs
  <2>2. IsFiniteSet(D) /\ Cardinality(D) = Cardinality(S)
    <3>1. 1 \in Int /\ Cardinality(S) \in Int
      BY <1>1
    <3>2. IsFiniteSet(D) /\ Cardinality(D) = IF 1 > Cardinality(S) THEN 0 ELSE Cardinality(S) - 1 + 1
      BY <3>1, FS_Interval
    <3> QED BY <1>1, <3>2
  <2>3. IsInjective(q)
    BY <2>1, Zenon DEF IsInjective
  <2>4. q \in Injection(D, S)
    BY <2>1, <2>3, Zenon DEF Injection
  <2>5. q \in Surjection(D, S)
    BY <2>2, <2>4, FS_Injection
  <2>6. \A x \in S : \E i \in D : q[i] = x
    BY <2>5 DEF Surjection
  <2>7. q \in Seq(S) /\ DOMAIN q = D
    BY <1>1, <2>1
  <2>8. ToSet(q) = S
    <3> HIDE DEF D
    <3>1. \A i \in D : q[i] \in S
      BY <2>1
    <3>2. ToSet(q) = {q[i] : i \in D}
      BY <2>7, Zenon DEF ToSet
    <3> QED BY <2>6, <3>1, <3>2
  <2> QED BY <2>3, <2>7, <2>8 DEF Enumerates
<1> QED BY <1>2, <1>3

\* What is appended to a sequence that does not have it.
LEMMA EnumeratesAppend ==
    ASSUME NEW S, NEW q, Enumerates(q, S), NEW x, x \notin S
    PROVE  Enumerates(Append(q, x), S \cup {x})
<1> DEFINE r == Append(q, x)
           n == Len(q)
<1>1. q \in Seq(S) /\ n \in Nat /\ DOMAIN q = 1 .. n /\ q \in Seq(S \cup {x})
  BY DEF Enumerates
<1>2. /\ r \in Seq(S \cup {x}) /\ Len(r) = n + 1
      /\ \A i \in 1 .. n : r[i] = q[i]
      /\ r[n + 1] = x
  BY <1>1
<1>3. DOMAIN r = 1 .. n + 1
  BY <1>2
<1> HIDE DEF r
<1>4. \A i \in 1 .. n : q[i] \in S
  BY <1>1
<1>5. IsInjective(r)
  <2>1. ASSUME NEW i \in 1 .. n + 1, NEW j \in 1 .. n + 1, r[i] = r[j] PROVE i = j
    <3>1. CASE i \in 1 .. n /\ j \in 1 .. n
      BY <1>1, <1>2, <2>1, <3>1, Zenon DEF Enumerates, IsInjective
    <3>2. CASE i = n + 1 /\ j \in 1 .. n
      BY <1>2, <1>4, <2>1, <3>2
    <3>3. CASE i \in 1 .. n /\ j = n + 1
      BY <1>2, <1>4, <2>1, <3>3
    <3>4. i \in 1 .. n \/ i = n + 1
      BY <1>1
    <3>5. j \in 1 .. n \/ j = n + 1
      BY <1>1
    <3> QED BY <3>1, <3>2, <3>3, <3>4, <3>5
  <2> QED BY <1>3, <2>1 DEF IsInjective
<1>6. ToSet(r) = S \cup {x}
  <2>1. \A y \in S : \E i \in 1 .. n : q[i] = y
    BY <1>1 DEF Enumerates, ToSet
  <2>2. 1 .. n \subseteq 1 .. n + 1 /\ n + 1 \in 1 .. n + 1
    BY <1>1
  <2>3. S \cup {x} \subseteq {r[i] : i \in 1 .. n + 1}
    BY <1>2, <2>1, <2>2
  <2>4. \A i \in 1 .. n + 1 : r[i] \in S \cup {x}
    BY <1>2
  <2> QED BY <1>3, <2>3, <2>4 DEF ToSet
<1> QED BY <1>2, <1>5, <1>6 DEF Enumerates, r

\* The elements before position n of an order can be put in line.
LEMMA LineExists ==
    ASSUME NEW S, NEW order \in Seq(S), IsInjective(order), NEW left, left \subseteq ToSet(order)
    PROVE  \E line : Enumerates(line, left) /\ Follows(order, line)
<1> DEFINE n == Len(order)
           upto(k) == {order[a] : a \in 1 .. k} \cap left
           M == {k \in 0 .. n : ~\E line : Enumerates(line, upto(k)) /\ Follows(order, line)}
<1>1. n \in Nat /\ DOMAIN order = 1 .. n
  OBVIOUS
<1>2. upto(n) = left
  BY <1>1 DEF ToSet
<1>3. SUFFICES M = {}
  <2>1. n \in 0 .. n
    BY <1>1
  <2> HIDE DEF n, upto
  <2>2. \E line : Enumerates(line, upto(n)) /\ Follows(order, line)
    BY <1>3, <2>1, Zenon
  <2> QED BY <1>2, <2>2, Zenon
<1>4. SUFFICES ASSUME M # {} PROVE FALSE
  OBVIOUS
<1>5. PICK m \in M : \A i \in M : m <= i
  <2>1. M \subseteq Nat
    BY <1>1
  <2> HIDE DEF M
  <2> QED BY <1>4, <2>1, LeastOf
<1>6. CASE m = 0
  <2>1. upto(0) = {}
    OBVIOUS
  <2>2. Enumerates(<<>>, {})
    BY DEF Enumerates, ToSet, IsInjective
  <2>3. Follows(order, <<>>)
    BY DEF Follows
  <2> HIDE DEF upto
  <2> QED BY <1>5, <1>6, <2>1, <2>2, <2>3, Zenon
<1>7. CASE m # 0
  <2>1. m \in 1 .. n /\ m - 1 \in 0 .. n /\ ~(m <= m - 1)
    BY <1>1, <1>5, <1>7
  <2>2. m - 1 \notin M
    BY <1>5, <2>1, Zenon
  <2> HIDE DEF upto
  <2>3. PICK line : Enumerates(line, upto(m - 1)) /\ Follows(order, line)
    BY <2>1, <2>2, Zenon
  <2> USE DEF upto
  <2>4. 1 .. m = 1 .. m - 1 \cup {m}
    BY <1>1, <2>1
  <2>5. CASE order[m] \notin left
    <3>1. upto(m) = upto(m - 1)
      BY <2>4, <2>5
    <3> HIDE DEF upto
    <3> QED BY <1>5, <2>3, <3>1, Zenon
  <2>6. CASE order[m] \in left
    <3> DEFINE x == order[m]
               r == Append(line, x)
               c == Len(line)
    <3>1. upto(m) = upto(m - 1) \cup {x}
      BY <2>4, <2>6
    <3>2. x \notin upto(m - 1)
      <4>1. \A a \in 1 .. m - 1 : order[a] # order[m]
        BY <1>1, <2>1 DEF IsInjective
      <4> QED BY <4>1
    <3>3. Enumerates(r, upto(m))
      <4> HIDE DEF upto, x
      <4> QED BY <2>3, <3>1, <3>2, EnumeratesAppend
    <3>4. /\ line \in Seq(upto(m - 1)) /\ c \in Nat
          /\ DOMAIN line = 1 .. c /\ DOMAIN r = 1 .. c + 1
          /\ \A i \in 1 .. c : r[i] = line[i]
          /\ r[c + 1] = x
      <4> HIDE DEF upto, x
      <4>1. line \in Seq(upto(m - 1))
        BY <2>3 DEF Enumerates
      <4> QED BY <4>1
    <3>5. ASSUME NEW i \in 1 .. c, NEW a \in 1 .. n, line[i] = order[a] PROVE a < m
      <4>1. line[i] \in upto(m - 1)
        <5> HIDE DEF upto
        <5> QED BY <3>4
      <4>2. PICK b \in 1 .. m - 1 : line[i] = order[b]
        BY <4>1
      <4>3. b \in 1 .. n
        BY <1>1, <2>1
      <4>4. a = b
        BY <1>1, <3>5, <4>2, <4>3, Zenon DEF IsInjective
      <4>5. b < m
        BY <1>1, <2>1, <4>2
      <4> QED BY <4>4, <4>5, Zenon
    <3>6. Follows(order, r)
      <4>1. SUFFICES ASSUME NEW i \in 1 .. c + 1, NEW j \in 1 .. c + 1,
                            NEW a \in 1 .. n, NEW b \in 1 .. n,
                            i < j, r[i] = order[a], r[j] = order[b]
                     PROVE  a < b
        <5> HIDE DEF r, c
        <5> QED BY <1>1, <3>4 DEF Follows
      <4>2. i \in 1 .. c
        BY <3>4, <4>1
      <4>3. CASE j \in 1 .. c
        <5>1. line[i] = order[a] /\ line[j] = order[b]
          BY <3>4, <4>1, <4>2, <4>3
        <5>2. i \in DOMAIN line /\ j \in DOMAIN line /\ a \in DOMAIN order /\ b \in DOMAIN order
          BY <1>1, <3>4, <4>2, <4>3
        <5> HIDE DEF c, r
        <5> QED BY <2>3, <4>1, <5>1, <5>2, Zenon DEF Follows
      <4>4. CASE j = c + 1
        <5>1. order[b] = order[m]
          BY <3>4, <4>1, <4>4
        <5>2. b = m
          BY <1>1, <2>1, <5>1, Zenon DEF IsInjective
        <5>3. line[i] = order[a]
          BY <3>4, <4>1, <4>2
        <5> HIDE DEF c, r, n
        <5> QED BY <3>5, <4>2, <5>2, <5>3, Zenon
      <4>5. j \in 1 .. c \/ j = c + 1
        <5> HIDE DEF c, r
        <5> QED BY <3>4
      <4> QED BY <4>3, <4>4, <4>5, Zenon
    <3> HIDE DEF upto, r
    <3> QED BY <1>5, <3>3, <3>6, Zenon
  <2> QED BY <2>5, <2>6
<1> QED BY <1>6, <1>7

\* What is left of an order.
LEMMA InOrderIs ==
    ASSUME NEW S, NEW order \in Seq(S), IsInjective(order), NEW left, left \subseteq ToSet(order)
    PROVE  /\ Enumerates(InOrder(order, left), left)
           /\ Follows(order, InOrder(order, left))
<1>1. PICK line : Enumerates(line, left) /\ Follows(order, line)
  BY LineExists
<1>2. IsFiniteSet(left)
  BY <1>1, LengthOf
<1>3. \A q : q \in SetToSeqs(left) <=> Enumerates(q, left)
  BY <1>2, EnumerationsAre
<1>4. InOrder(order, left) = CHOOSE q \in SetToSeqs(left) : Follows(order, q)
  BY Zenon DEF InOrder, Follows
<1>5. InOrder(order, left) \in SetToSeqs(left) /\ Follows(order, InOrder(order, left))
  BY <1>1, <1>3, <1>4, Zenon
<1> QED BY <1>3, <1>5

\* One sequence after another that shares nothing with it.
LEMMA EnumeratesConcat ==
    ASSUME NEW S, NEW T, S \cap T = {}, NEW q, Enumerates(q, S), NEW r, Enumerates(r, T)
    PROVE  Enumerates(q \o r, S \cup T)
<1> DEFINE both == q \o r
           m == Len(q)
           n == Len(r)
<1>1. /\ q \in Seq(S) /\ m \in Nat /\ DOMAIN q = 1 .. m
      /\ r \in Seq(T) /\ n \in Nat /\ DOMAIN r = 1 .. n
  BY DEF Enumerates
<1>2. /\ q \in Seq(S \cup T) /\ r \in Seq(S \cup T)
      /\ \A i \in 1 .. m : q[i] \in S
      /\ \A i \in 1 .. n : r[i] \in T
  BY <1>1
<1>3. /\ both \in Seq(S \cup T)
      /\ Len(both) = m + n
      /\ \A i \in 1 .. m : both[i] = q[i]
      /\ \A i \in 1 .. n : both[m + i] = r[i]
  BY <1>1, <1>2
<1>4. DOMAIN both = 1 .. m + n
  BY <1>3
<1> HIDE DEF both, m, n
<1>5. ASSUME NEW i \in 1 .. m + n PROVE i \in 1 .. m \/ \E k \in 1 .. n : i = m + k
  <2>1. i \in 1 .. m \/ (i - m \in 1 .. n /\ i = m + (i - m))
    BY <1>1
  <2> QED BY <2>1
<1>6. IsInjective(both)
  <2>1. ASSUME NEW i \in 1 .. m + n, NEW j \in 1 .. m + n, both[i] = both[j] PROVE i = j
    <3>1. CASE i \in 1 .. m /\ j \in 1 .. m
      BY <1>1, <1>3, <2>1, <3>1, Zenon DEF Enumerates, IsInjective
    <3>2. ASSUME NEW k \in 1 .. n, NEW l \in 1 .. n, i = m + k, j = m + l PROVE i = j
      <4>1. r[k] = r[l]
        BY <1>3, <2>1, <3>2, Zenon
      <4> QED BY <1>1, <3>2, <4>1, Zenon DEF Enumerates, IsInjective
    <3>3. ASSUME i \in 1 .. m, NEW k \in 1 .. n, j = m + k PROVE FALSE
      <4>1. both[i] \in S /\ both[j] \in T
        BY <1>2, <1>3, <3>3, Zenon
      <4> QED BY <2>1, <4>1
    <3>4. ASSUME j \in 1 .. m, NEW k \in 1 .. n, i = m + k PROVE FALSE
      <4>1. both[j] \in S /\ both[i] \in T
        BY <1>2, <1>3, <3>4, Zenon
      <4> QED BY <2>1, <4>1
    <3> QED BY <1>5, <3>1, <3>2, <3>3, <3>4, Zenon
  <2> QED BY <1>4, <2>1, Zenon DEF IsInjective
<1>7. ToSet(both) = S \cup T
  <2>1. ToSet(both) = {both[i] : i \in 1 .. m + n}
    BY <1>4, Zenon DEF ToSet
  <2>2. 1 .. m \subseteq 1 .. m + n /\ \A k \in 1 .. n : m + k \in 1 .. m + n
    BY <1>1
  <2>3. ASSUME NEW x \in S PROVE x \in ToSet(both)
    <3>1. PICK i \in 1 .. m : q[i] = x
      BY <1>1 DEF Enumerates, ToSet
    <3> QED BY <1>3, <2>1, <2>2, <3>1
  <2>4. ASSUME NEW x \in T PROVE x \in ToSet(both)
    <3>1. PICK i \in 1 .. n : r[i] = x
      BY <1>1 DEF Enumerates, ToSet
    <3> QED BY <1>3, <2>1, <2>2, <3>1
  <2>5. \A i \in 1 .. m + n : both[i] \in S \cup T
    BY <1>3
  <2> QED BY <2>1, <2>3, <2>4, <2>5
<1> QED BY <1>3, <1>6, <1>7 DEF Enumerates, both

\* What is left of a sequence without its first k elements.
LEMMA EnumeratesRest ==
    ASSUME NEW S, NEW q, Enumerates(q, S), NEW k \in 0 .. Len(q)
    PROVE  /\ IsFiniteSet(S \ {q[i] : i \in 1 .. k})
           /\ Cardinality(S \ {q[i] : i \in 1 .. k}) = Len(q) - k
<1> DEFINE n == Len(q)
           left == S \ {q[i] : i \in 1 .. k}
           r == [i \in 1 .. n - k |-> q[k + i]]
<1>1. q \in Seq(S) /\ n \in Nat /\ DOMAIN q = 1 .. n /\ k \in Nat /\ k <= n
  BY DEF Enumerates
<1>2. n - k \in Nat /\ DOMAIN r = 1 .. n - k /\ \A i \in 1 .. n - k : k + i \in 1 .. n
  BY <1>1
<1>3. \A i, j \in 1 .. n : q[i] = q[j] => i = j
  BY <1>1 DEF Enumerates, IsInjective
<1>4. ASSUME NEW i \in 1 .. n - k PROVE q[k + i] \in left
  <2>1. q[k + i] \in S
    BY <1>1, <1>2
  <2>2. ASSUME NEW j \in 1 .. k, q[k + i] = q[j] PROVE FALSE
    <3>1. j \in 1 .. n /\ k + i \in 1 .. n /\ k + i # j
      BY <1>1
    <3> QED BY <1>3, <2>2, <3>1
  <2> QED BY <2>1, <2>2
<1>5. r \in Seq(left) /\ Len(r) = n - k
  <2> HIDE DEF left, n
  <2>1. r \in [1 .. n - k -> left]
    BY <1>4
  <2> HIDE DEF r
  <2> QED BY <1>2, <2>1
<1>6. IsInjective(r)
  <2>1. ASSUME NEW i \in 1 .. n - k, NEW j \in 1 .. n - k, r[i] = r[j] PROVE i = j
    <3>1. q[k + i] = q[k + j]
      BY <2>1
    <3>2. k + i = k + j
      <4> HIDE DEF n
      <4> QED BY <1>2, <1>3, <3>1, Zenon
    <3> QED BY <1>1, <3>2
  <2> QED BY <1>2, <2>1, Zenon DEF IsInjective
<1>7. ASSUME NEW x \in left PROVE \E i \in 1 .. n - k : r[i] = x
  <2>1. PICK j \in 1 .. n : q[j] = x
    BY <1>1 DEF Enumerates, ToSet
  <2>2. j \notin 1 .. k
    BY <2>1
  <2>3. j - k \in 1 .. n - k /\ k + (j - k) = j
    BY <1>1, <2>2
  <2> QED BY <2>1, <2>3
<1>8. ToSet(r) = left
  <2>1. ToSet(r) = {r[i] : i \in 1 .. n - k}
    BY <1>2, Zenon DEF ToSet
  <2>2. \A i \in 1 .. n - k : r[i] \in left
    BY <1>4
  <2> HIDE DEF r, left, n
  <2> QED BY <1>7, <2>1, <2>2
<1>9. Enumerates(r, left)
  <2> HIDE DEF r, left
  <2> QED BY <1>5, <1>6, <1>8 DEF Enumerates
<1> HIDE DEF r, left
<1>10. IsFiniteSet(left) /\ Cardinality(left) = Len(r)
  BY <1>9, LengthOf
<1> QED BY <1>5, <1>10 DEF left

-----------------------------------------------------------------------------
(* What a stage keeps *)

\* Either all bits are allowed or only those of sound values.
Allowed(B) == B = BOOLEAN \/ B = {TRUE}

\* A session's length does not exceed its cache: lm_head may fail after the
\* layers have extended it.  A cache of sound bits has exactly the length.
Fits(B, cache, length) == length <= Len(cache) /\ (B = {TRUE} => Len(cache) = length)

\* The stage keeps each session once, with bits of B.
Kept(B, st) ==
    /\ DOMAIN st = {"order", "cache", "length"}
    /\ Enumerates(st.order, ToSet(st.order))
    /\ ToSet(st.order) \subseteq Sessions
    /\ st.cache \in [ToSet(st.order) -> Seq(B)]
    /\ st.length \in [ToSet(st.order) -> Nat \ {0}]
    /\ \A s \in ToSet(st.order) : Fits(B, st.cache[s], st.length[s])

\* And no more of them than it may.
Sound(B, st) == Kept(B, st) /\ Len(st.order) <= MaxSessions

\* The entries of session s in b are those in a, or it has gone.
Untouched(a, b, s) ==
    Keeps(b, s) => /\ Keeps(a, s)
                   /\ b.cache[s] = a.cache[s]
                   /\ b.length[s] = a.length[s]

LEMMA EmptySound == ASSUME NEW B PROVE Sound(B, Empty)
<1>1. ToSet(<<>>) = {}
  BY DEF ToSet
<1>2. Enumerates(<<>>, {})
  BY <1>1 DEF Enumerates, IsInjective
<1>3. \A S : <<>> \in [{} -> S]
  OBVIOUS
<1>4. Len(<<>>) <= MaxSessions
  OBVIOUS
<1>5. DOMAIN Empty = {"order", "cache", "length"} /\ Empty.order = <<>> /\ Empty.cache = <<>> /\ Empty.length = <<>>
  BY DEF Empty
<1> QED BY <1>1, <1>2, <1>3, <1>4, <1>5 DEF Sound, Kept, Empty

LEMMA OrdersOf ==
    ASSUME NEW B, NEW st, Kept(B, st)
    PROVE  /\ st.order \in Seq(ToSet(st.order)) /\ st.order \in Seq(Sessions)
           /\ IsInjective(st.order)
           /\ IsFiniteSet(ToSet(st.order))
           /\ Cardinality(ToSet(st.order)) = Len(st.order)
           /\ Len(st.order) \in Nat
<1>1. st.order \in Seq(ToSet(st.order)) /\ IsInjective(st.order)
  BY Zenon DEF Kept, Enumerates
<1>2. st.order \in Seq(Sessions)
  BY <1>1, SeqMonotonic DEF Kept
<1>3. IsFiniteSet(ToSet(st.order)) /\ Cardinality(ToSet(st.order)) = Len(st.order)
  BY LengthOf, Zenon DEF Kept
<1> QED BY <1>1, <1>2, <1>3

\* Sessions that are taken out leave the others as they were.
LEMMA WithoutKept ==
    ASSUME NEW B, NEW st, Kept(B, st), NEW gone
    PROVE  /\ Kept(B, Without(st, gone))
           /\ ToSet(Without(st, gone).order) = ToSet(st.order) \ gone
           /\ Len(Without(st, gone).order) = Cardinality(ToSet(st.order) \ gone)
           /\ \A s : Untouched(st, Without(st, gone), s)
           /\ \A s \in gone : ~Keeps(Without(st, gone), s)
<1> DEFINE left == ToSet(st.order) \ gone
           order == InOrder(st.order, left)
           after == Without(st, gone)
<1>1. left \subseteq ToSet(st.order)
  OBVIOUS
<1>2. Enumerates(order, left)
  <2> HIDE DEF left
  <2> QED BY <1>1, OrdersOf, InOrderIs
<1>3. after = [order |-> order, cache |-> [s \in left |-> st.cache[s]],
               length |-> [s \in left |-> st.length[s]]]
  BY DEF Without
<1> HIDE DEF order, after
<1>4. ToSet(order) = left /\ Len(order) = Cardinality(left)
  <2>1. ToSet(order) = left
    BY <1>2 DEF Enumerates
  <2> HIDE DEF left
  <2> QED BY <1>2, <2>1, LengthOf
<1> HIDE DEF left
<1>5. /\ after.order = order
      /\ after.cache = [s \in left |-> st.cache[s]]
      /\ after.length = [s \in left |-> st.length[s]]
  BY <1>3
<1>6. \A s \in left : /\ s \in Sessions
                      /\ st.cache[s] \in Seq(B) /\ st.length[s] \in Nat \ {0}
                      /\ Fits(B, st.cache[s], st.length[s])
  BY <1>1 DEF Kept
<1>7. /\ after.cache \in [left -> Seq(B)]
      /\ after.length \in [left -> Nat \ {0}]
      /\ \A s \in left : after.cache[s] = st.cache[s] /\ after.length[s] = st.length[s]
  BY <1>5, <1>6
<1>8. Kept(B, after)
  <2>1. DOMAIN after = {"order", "cache", "length"}
    BY <1>3
  <2>2. \A s \in left : Fits(B, after.cache[s], after.length[s])
    BY <1>6, <1>7, Zenon
  <2>3. left \subseteq Sessions
    BY <1>6
  <2>4. ToSet(after.order) = left /\ Enumerates(after.order, left)
    BY <1>2, <1>4, <1>5
  <2> QED BY <1>7, <2>1, <2>2, <2>3, <2>4, Zenon DEF Kept
<1>9. \A s : Untouched(st, after, s)
  <2>1. ASSUME NEW s, s \in left PROVE Untouched(st, after, s)
    BY <1>1, <1>7, <2>1 DEF Untouched, Keeps
  <2> QED BY <1>4, <1>5, <2>1, Zenon DEF Untouched, Keeps
<1>10. \A s \in gone : ~Keeps(after, s)
  BY <1>4, <1>5 DEF Keeps, left
<1> QED BY <1>4, <1>5, <1>8, <1>9, <1>10 DEF after, left

\* Caches and lengths for the sessions of a sequence.
Fresh(B, fresh, cache, length) ==
    /\ Enumerates(fresh, ToSet(fresh))
    /\ ToSet(fresh) \subseteq Sessions
    /\ cache \in [ToSet(fresh) -> Seq(B)]
    /\ length \in [ToSet(fresh) -> Nat \ {0}]
    /\ \A s \in ToSet(fresh) : Fits(B, cache[s], length[s])

\* Sessions that were used come after the others, which are as they were.
LEMMA WithKept ==
    ASSUME NEW B, NEW st, Kept(B, st),
           NEW fresh, NEW cache, NEW length, Fresh(B, fresh, cache, length),
           NEW new, new = With(st, fresh, cache, length)
    PROVE  /\ Kept(B, new)
           /\ \A s : s \notin ToSet(fresh) => Untouched(st, new, s)
           /\ \A s \in ToSet(fresh) : new.cache[s] = cache[s] /\ new.length[s] = length[s]
<1> USE DEF Fresh
<1> DEFINE F == ToSet(fresh)
           left == ToSet(st.order) \ F
           all == ToSet(st.order) \cup F
           kept == InOrder(st.order, left)
           c == [s \in all |-> IF s \in F THEN cache[s] ELSE st.cache[s]]
           l == [s \in all |-> IF s \in F THEN length[s] ELSE st.length[s]]
<1>1. left \subseteq ToSet(st.order) /\ left \cap F = {} /\ left \cup F = all
  OBVIOUS
<1>2. Enumerates(kept, left)
  <2> HIDE DEF left
  <2> QED BY <1>1, OrdersOf, InOrderIs
<1>3. new = [order |-> kept \o fresh, cache |-> c, length |-> l]
  BY DEF With
<1>4. /\ new.order = kept \o fresh /\ new.cache = c /\ new.length = l
      /\ DOMAIN new = {"order", "cache", "length"}
  <2> HIDE DEF kept, c, l
  <2> QED BY <1>3
<1>5. Enumerates(kept \o fresh, all)
  <2> HIDE DEF left, kept, F, all
  <2>1. Enumerates(fresh, F)
    BY DEF F
  <2>2. Enumerates(kept \o fresh, left \cup F)
    BY <1>1, <1>2, <2>1, EnumeratesConcat
  <2> QED BY <1>1, <2>2
<1>6. ToSet(new.order) = all
  <2> HIDE DEF kept, all
  <2> QED BY <1>4, <1>5, Zenon DEF Enumerates
<1>7. ASSUME NEW s \in all
      PROVE  /\ s \in Sessions
             /\ c[s] \in Seq(B) /\ l[s] \in Nat \ {0} /\ Fits(B, c[s], l[s])
  <2>1. CASE s \in F
    <3>1. c[s] = cache[s] /\ l[s] = length[s]
      BY <2>1
    <3> HIDE DEF c, l
    <3> QED BY <2>1, <3>1
  <2>2. CASE s \notin F
    <3>1. c[s] = st.cache[s] /\ l[s] = st.length[s] /\ s \in ToSet(st.order)
      BY <2>2
    <3> HIDE DEF c, l
    <3> QED BY <2>2, <3>1 DEF Kept
  <2> QED BY <2>1, <2>2
<1>8. c \in [all -> Seq(B)] /\ l \in [all -> Nat \ {0}]
  <2> DEFINE C(s) == IF s \in F THEN cache[s] ELSE st.cache[s]
             L(s) == IF s \in F THEN length[s] ELSE st.length[s]
  <2>1. \A s \in all : C(s) \in Seq(B) /\ L(s) \in Nat \ {0}
    BY <1>7
  <2>2. c = [s \in all |-> C(s)] /\ l = [s \in all |-> L(s)]
    OBVIOUS
  <2> HIDE DEF C, L, c, l, all
  <2> QED BY <2>1, <2>2
<1>9. Kept(B, new)
  <2> HIDE DEF c, l, all, kept, F, left
  <2>1. all \subseteq Sessions /\ \A s \in all : Fits(B, c[s], l[s])
    BY <1>7
  <2> QED BY <1>4, <1>5, <1>6, <1>8, <2>1, Zenon DEF Kept
<1>10. ASSUME NEW s, s \notin F PROVE Untouched(st, new, s)
  <2>1. CASE s \in all
    <3>1. c[s] = st.cache[s] /\ l[s] = st.length[s] /\ s \in ToSet(st.order)
      BY <1>10, <2>1
    <3> HIDE DEF c, l
    <3> QED BY <1>4, <3>1 DEF Untouched, Keeps
  <2>2. CASE s \notin all
    BY <1>6, <2>2, Zenon DEF Untouched, Keeps
  <2> QED BY <2>1, <2>2
<1>11. ASSUME NEW s \in F PROVE new.cache[s] = cache[s] /\ new.length[s] = length[s]
  <2>1. c[s] = cache[s] /\ l[s] = length[s]
    OBVIOUS
  <2> HIDE DEF c, l
  <2> QED BY <1>4, <2>1
<1> QED BY <1>9, <1>10, <1>11

\* Eviction takes sessions out until there are few enough, whichever were used.
LEMMA EvictedSound ==
    ASSUME NEW B, NEW st, Kept(B, st), NEW used, IsFiniteSet(used)
    PROVE  /\ Evicted(st, used) # {}
           /\ \A after \in Evicted(st, used) :
                 /\ Sound(B, after)
                 /\ \A s : Untouched(st, after, s)
<1> DEFINE n == Len(st.order)
           over == IF n > MaxSessions THEN n - MaxSessions ELSE 0
           K == {over} \cup over .. n - Cardinality(used)
           first(k) == {st.order[i] : i \in 1 .. k}
<1>1. n \in Nat /\ Cardinality(used) \in Nat
  BY OrdersOf, FS_CardinalityType
<1>2. over \in K /\ \A k \in K : k \in 0 .. n /\ n - k <= MaxSessions
  <2> DEFINE u == Cardinality(used)
  <2>1. u \in Nat /\ n \in Nat
    BY <1>1
  <2> HIDE DEF u, n
  <2>2. over \in 0 .. n /\ n - over <= MaxSessions
    BY <2>1
  <2>3. ASSUME NEW k \in over .. n - u PROVE k \in 0 .. n /\ n - k <= MaxSessions
    BY <2>1, <2>2
  <2> QED BY <2>2, <2>3 DEF u
<1>3. Evicted(st, used) = {Without(st, first(k)) : k \in K}
  BY Zenon DEF Evicted
<1>4. ASSUME NEW k \in K
      PROVE  /\ Sound(B, Without(st, first(k)))
             /\ \A s : Untouched(st, Without(st, first(k)), s)
  <2> DEFINE gone == first(k)
  <2>1. k \in 0 .. n /\ n - k <= MaxSessions
    BY <1>2
  <2>2. Cardinality(ToSet(st.order) \ gone) = n - k
    <3>1. Enumerates(st.order, ToSet(st.order))
      BY DEF Kept
    <3> QED BY <2>1, <3>1, EnumeratesRest
  <2> HIDE DEF gone, K
  <2>3. /\ Kept(B, Without(st, gone))
        /\ Len(Without(st, gone).order) = n - k
        /\ \A s : Untouched(st, Without(st, gone), s)
    BY <2>2, WithoutKept
  <2>4. Len(Without(st, gone).order) <= MaxSessions
    BY <2>1, <2>3
  <2> QED BY <2>3, <2>4 DEF Sound, gone
<1> HIDE DEF K, first
<1> QED BY <1>2, <1>3, <1>4, Zenon

-----------------------------------------------------------------------------
(* What a request does *)

\* Sound bits are only computed where the cache has the right length.
Continues(B, cache, start) == B = {TRUE} => Len(cache) = start

\* A forward adds one entry for each new position; all are sound if those before
\* are and the cache is of the right length.
LEMMA ExtendedBits ==
    ASSUME NEW B, Allowed(B), NEW cache \in Seq(B), NEW new \in Seq(B), NEW start \in Nat,
           Continues(B, cache, start)
    PROVE  /\ Extended(cache, start, new) \in Seq(B)
           /\ Len(Extended(cache, start, new)) = Len(cache) + Len(new)
<1> DEFINE row == [i \in DOMAIN new |-> /\ Len(cache) = start
                                        /\ \A j \in DOMAIN cache : cache[j]
                                        /\ \A j \in 1 .. i : new[j]]
<1>1. DOMAIN new = 1 .. Len(new) /\ Len(new) \in Nat
  OBVIOUS
<1>2. \A i \in DOMAIN new : row[i] \in B
  <2>1. CASE B = BOOLEAN
    <3>1. \A i \in DOMAIN new : row[i] = TRUE \/ row[i] = FALSE
      OBVIOUS
    <3> QED BY <2>1, <3>1
  <2>2. CASE B = {TRUE}
    <3>5. Len(cache) = start
      BY <2>2, Zenon DEF Continues
    <3>1. \A q \in Seq(B) : \A j \in DOMAIN q : q[j] \in B
      OBVIOUS
    <3>2. \A j \in DOMAIN cache : cache[j]
      BY <2>2, <3>1, Zenon
    <3>3. \A j \in DOMAIN new : new[j]
      BY <2>2, <3>1, Zenon
    <3>4. \A i \in DOMAIN new : \A j \in 1 .. i : j \in DOMAIN new
      BY <1>1
    <3> QED BY <2>2, <3>2, <3>3, <3>4, <3>5, Zenon
  <2> QED BY <2>1, <2>2 DEF Allowed
<1>3. row \in Seq(B) /\ Len(row) = Len(new)
  <2>1. DOMAIN row = 1 .. Len(new)
    BY <1>1
  <2> HIDE DEF row
  <2>2. row \in [1 .. Len(new) -> B]
    <3>1. row = [i \in DOMAIN new |-> row[i]]
      BY DEF row
    <3> QED BY <1>1, <1>2, <3>1
  <2> QED BY <1>1, <2>2
<1>4. Extended(cache, start, new) = cache \o row
  BY DEF Extended
<1> HIDE DEF row
<1>5. \A q \in Seq(B) : cache \o q \in Seq(B) /\ Len(cache \o q) = Len(cache) + Len(q)
  OBVIOUS
<1> QED BY <1>3, <1>4, <1>5

\* Where handle continues: at a cache that is there, of the length start.
LEMMA PositionedOf ==
    ASSUME NEW B, NEW st, Kept(B, st), NEW p \in Payload
    PROVE  LET at == Positioned(st, p)
           IN  /\ at.cache \in Seq(B)
               /\ at.there => Fits(B, at.cache, p.start)
               /\ at.there /\ p.start # 0 => Keeps(st, p.session)
<1> DEFINE at == Positioned(st, p)
           id == p.session
<1>1. p.start \in Nat
  BY DEF Payload
<1>2. <<>> \in Seq(B) /\ Len(<<>>) = 0
  OBVIOUS
<1>3. CASE p.start = 0
  <2>1. Fits(B, <<>>, 0)
    BY <1>2 DEF Fits
  <2> QED BY <1>2, <1>3, <2>1 DEF Positioned
<1>4. CASE p.start # 0 /\ ~Keeps(st, id)
  BY <1>2, <1>4 DEF Positioned
<1>5. CASE p.start # 0 /\ Keeps(st, id)
  <2> DEFINE c == st.cache[id]
             n == st.length[id]
             m == p.start
  <2>2. c \in Seq(B) /\ n \in Nat /\ Fits(B, c, n)
    BY <1>5 DEF Keeps, Kept
  <2>3. at = IF p.rewind /\ m < n
             THEN [there |-> TRUE, cache |-> SubSeq(c, 1, m)]
             ELSE [there |-> n = m, cache |-> c]
    BY <1>5, Zenon DEF Positioned
  <2>4. m \in Nat
    BY <1>1
  <2> HIDE DEF c, n, at, m
  <2>5. CASE p.rewind /\ m < n
    <3>1. at.cache = SubSeq(c, 1, m)
      BY <2>3, <2>5
    <3>2. SubSeq(c, 1, m) \in Seq(B) /\ Len(SubSeq(c, 1, m)) = m
      BY <2>2, <2>4, <2>5 DEF Fits
    <3>3. Fits(B, at.cache, m)
      <4> DEFINE q == SubSeq(c, 1, m)
      <4>1. Len(q) = m /\ at.cache = q
        BY <3>1, <3>2
      <4> HIDE DEF q
      <4>2. Len(at.cache) = m /\ m <= m
        BY <2>4, <4>1
      <4>3. m <= Len(at.cache)
        BY <4>2
      <4> QED BY <4>2, <4>3, Zenon DEF Fits
    <3> QED BY <1>5, <3>1, <3>2, <3>3, Zenon DEF at, m
  <2>6. CASE ~(p.rewind /\ m < n)
    <3>1. at.cache = c /\ at.there = (n = m)
      <4>1. at = [there |-> n = m, cache |-> c]
        BY <2>3, <2>6
      <4> QED BY <4>1, Zenon
    <3>2. at.there => Fits(B, at.cache, m)
      BY <2>2, <3>1, Zenon
    <3>3. at.cache \in Seq(B)
      BY <2>2, <3>1
    <3> QED BY <1>5, <3>2, <3>3, Zenon DEF at, m
  <2> QED BY <2>5, <2>6
<1> QED BY <1>3, <1>4, <1>5, Zenon

\* The stage `new` is st with another cache and length for one session.
Updates(st, new, id, bits, size) ==
    /\ DOMAIN new = DOMAIN st
    /\ new.order = st.order
    /\ new.cache[id] = bits /\ new.length[id] = size
    /\ \A s \in ToSet(st.order) \ {id} :
          new.cache[s] = st.cache[s] /\ new.length[s] = st.length[s]
    /\ new.cache = [s \in DOMAIN st.cache |-> new.cache[s]]
    /\ new.length = [s \in DOMAIN st.length |-> new.length[s]]

LEMMA UpdatedKept ==
    ASSUME NEW B, NEW st, Kept(B, st), NEW id, Keeps(st, id),
           NEW bits \in Seq(B), NEW size \in Nat \ {0}, Fits(B, bits, size),
           NEW new, Updates(st, new, id, bits, size)
    PROVE  /\ Kept(B, new)
           /\ \A s : s # id => Untouched(st, new, s)
<1> DEFINE S == ToSet(st.order)
<1>1. id \in S /\ st.cache \in [S -> Seq(B)] /\ st.length \in [S -> Nat \ {0}]
  BY DEF Keeps, Kept
<1>2. /\ new.order = st.order /\ DOMAIN new = {"order", "cache", "length"}
      /\ new.cache[id] = bits /\ new.length[id] = size
      /\ \A s \in S \ {id} : new.cache[s] = st.cache[s] /\ new.length[s] = st.length[s]
  BY Zenon DEF Updates, Kept
<1>3. /\ new.cache = [s \in S |-> new.cache[s]]
      /\ new.length = [s \in S |-> new.length[s]]
  <2>1. DOMAIN st.cache = S /\ DOMAIN st.length = S
    BY <1>1
  <2> QED BY <2>1, Zenon DEF Updates
<1>4. ASSUME NEW s \in S
      PROVE  /\ new.cache[s] \in Seq(B) /\ new.length[s] \in Nat \ {0}
             /\ Fits(B, new.cache[s], new.length[s])
  <2>1. CASE s = id
    BY <1>2, <2>1
  <2>2. CASE s # id
    <3>1. new.cache[s] = st.cache[s] /\ new.length[s] = st.length[s]
      BY <1>2, <2>2
    <3> QED BY <1>1, <3>1 DEF Kept
  <2> QED BY <2>1, <2>2
<1>5. new.cache \in [S -> Seq(B)] /\ new.length \in [S -> Nat \ {0}]
  BY <1>3, <1>4
<1>6. Kept(B, new)
  BY <1>2, <1>4, <1>5, Zenon DEF Kept
<1>7. ASSUME NEW s, s # id PROVE Untouched(st, new, s)
  BY <1>2, <1>7 DEF Untouched, Keeps
<1> QED BY <1>6, <1>7

\* What handle answers and leaves, by the branch it takes.
LEMMA HandledCases ==
    ASSUME NEW st, NEW p, NEW o \in Handled(st, p)
    PROVE  LET at == Positioned(st, p)
               grown == Extended(at.cache, p.start, p.new)
           IN  \/ p.close /\ o = [stage |-> Without(st, {p.session}), answer |-> Closed]
               \/ ~at.there /\ o = [stage |-> st, answer |-> Miss]
               \/ /\ at.there /\ p.new = <<>>
                  /\ o = [stage |-> Cropped(st, p), answer |-> Error]
               \/ o = [stage |-> Without(st, {p.session}), answer |-> Error]
               \/ /\ "output" \in Failures
                  /\ at.there /\ p.new # <<>>
                  /\ o = [stage |-> OnOutputFailure(st, p, grown), answer |-> Error]
               \/ /\ ~p.close /\ at.there /\ p.new # <<>>
                  /\ o.stage \in Evicted(With(st, <<p.session>>,
                                         [x \in {p.session} |-> grown],
                                         [x \in {p.session} |-> p.start + Len(p.new)]),
                                         {p.session})
                  /\ o = [stage |-> o.stage,
                          answer |-> Hidden(SubSeq(grown, Len(at.cache) + 1, Len(grown)))]
<1> DEFINE at == Positioned(st, p)
           grown == Extended(at.cache, p.start, p.new)
           out == SubSeq(grown, Len(at.cache) + 1, Len(grown))
           after == Evicted(With(st, <<p.session>>, [x \in {p.session} |-> grown],
                                 [x \in {p.session} |-> p.start + Len(p.new)]), {p.session})
           outcome(s, a) == [stage |-> s, answer |-> a]
<1>1. CASE p.close
  BY <1>1 DEF Handled
<1>2. CASE ~p.close /\ ~at.there
  BY <1>2 DEF Handled
<1>3. CASE ~p.close /\ at.there /\ p.new = <<>>
  BY <1>3 DEF Handled
<1>4. CASE ~p.close /\ at.there /\ p.new # <<>>
  <2>1. o \in {outcome(OnFailure(st, p, grown), Error) : f \in Failures \cap {"forward"}}
             \cup {outcome(OnOutputFailure(st, p, grown), Error) :
                     f \in Failures \cap {"output"}}
             \cup {outcome(s, Hidden(out)) : s \in after}
    BY <1>4 DEF Handled
  <2> HIDE DEF grown, out, after, at
  <2>2. \/ o = outcome(OnFailure(st, p, grown), Error)
        \/ "output" \in Failures /\ o = outcome(OnOutputFailure(st, p, grown), Error)
        \/ \E s \in after : o = outcome(s, Hidden(out))
    BY <2>1
  <2>3. ASSUME NEW s \in after, o = outcome(s, Hidden(out))
        PROVE  o.stage \in after /\ o = outcome(o.stage, Hidden(out))
    BY <2>3
  <2> QED BY <1>4, <2>2, <2>3 DEF grown, out, after, at, OnFailure
<1> QED BY <1>1, <1>2, <1>3, <1>4


\* What a stage answers a request that it has the cache for.
Output(st, p) ==
    LET at == Positioned(st, p)
        grown == Extended(at.cache, p.start, p.new)
    IN  SubSeq(grown, Len(at.cache) + 1, Len(grown))

Computed(st, p, answer) ==
    /\ ~p.close
    /\ Positioned(st, p).there
    /\ p.new # <<>>
    /\ answer = Hidden(Output(st, p))

\* Its session, if it is still kept, goes on from the cache it was computed on
\* and the entries that were computed, and from the length they end at.
GoesOn(st, now, p) ==
    Keeps(now, p.session) =>
        /\ now.length[p.session] = p.start + Len(p.new)
        /\ now.cache[p.session] = Extended(Positioned(st, p).cache, p.start, p.new)

Answers(B) == [kind : {"closed", "cache_miss", "error", "hidden_states"}, hidden : Seq(B)]

LEMMA OtherAnswers ==
    ASSUME NEW B
    PROVE  /\ Closed \in Answers(B) /\ Miss \in Answers(B) /\ Error \in Answers(B)
           /\ Closed.kind # "hidden_states" /\ Miss.kind # "hidden_states"
           /\ Error.kind # "hidden_states"
<1>1. <<>> \in Seq(B)
  OBVIOUS
<1> QED BY <1>1 DEF Closed, Miss, Error, Answers

\* A forward at a cache that is there: the entries it adds are the answer.
LEMMA GrownOf ==
    ASSUME NEW B, Allowed(B), NEW st, Kept(B, st), NEW p \in Payload, p.new \in Seq(B),
           Positioned(st, p).there
    PROVE  LET at == Positioned(st, p)
               grown == Extended(at.cache, p.start, p.new)
           IN  /\ grown \in Seq(B)
               /\ Fits(B, grown, p.start + Len(p.new))
               /\ p.start <= Len(grown)
               /\ Output(st, p) \in Seq(B)
               /\ Len(Output(st, p)) = Len(p.new)
<1> DEFINE c == Positioned(st, p).cache
           m == p.start
           q == p.new
           g == Extended(c, m, q)
<1>1. m \in Nat
  BY DEF Payload
<1>2. c \in Seq(B) /\ Fits(B, c, m)
  BY PositionedOf
<1>3. Output(st, p) = SubSeq(g, Len(c) + 1, Len(g))
  BY Zenon DEF Output
<1>4. q \in Seq(B)
  OBVIOUS
<1> HIDE DEF c, m, q
<1>5. g \in Seq(B) /\ Len(g) = Len(c) + Len(q)
  <2>1. Continues(B, c, m)
    BY <1>2 DEF Fits, Continues
  <2> QED BY <1>1, <1>2, <1>4, <2>1, ExtendedBits
<1> HIDE DEF g
<1>6. Len(c) \in Nat /\ Len(q) \in Nat /\ m <= Len(c) /\ (B = {TRUE} => Len(c) = m)
  <2>1. Len(c) \in Nat /\ Len(q) \in Nat
    BY <1>2, <1>4
  <2>2. m <= Len(c) /\ (B = {TRUE} => Len(c) = m)
    BY <1>2, Zenon DEF Fits
  <2> QED BY <2>1, <2>2, Zenon
<1>7. m + Len(q) <= Len(g) /\ m <= Len(g)
  BY <1>1, <1>5, <1>6
<1>8. B = {TRUE} => Len(g) = m + Len(q)
  <2>1. Len(c) = m => Len(g) = m + Len(q)
    BY <1>5
  <2> QED BY <1>6, <2>1, Zenon
<1>9. /\ SubSeq(g, Len(c) + 1, Len(g)) \in Seq(B)
      /\ Len(SubSeq(g, Len(c) + 1, Len(g))) = Len(q)
  BY <1>5, <1>6
<1>10. Fits(B, g, m + Len(q))
  BY <1>7, <1>8, Zenon DEF Fits
<1> QED BY <1>3, <1>5, <1>7, <1>9, <1>10, Zenon DEF g, c, m, q

\* What the stage may be after a forward of one session.
Used(st, id, bits, size) ==
    Evicted(With(st, <<id>>, [x \in {id} |-> bits], [x \in {id} |-> size]), {id})

LEMMA UsedSound ==
    ASSUME NEW B, NEW st, Kept(B, st), NEW id \in Sessions,
           NEW bits \in Seq(B), NEW size \in Nat \ {0}, Fits(B, bits, size)
    PROVE  /\ Used(st, id, bits, size) # {}
           /\ \A after \in Used(st, id, bits, size) :
                 /\ Sound(B, after)
                 /\ \A s : s # id => Untouched(st, after, s)
                 /\ Keeps(after, id) => after.length[id] = size /\ after.cache[id] = bits
<1> DEFINE fresh == <<id>>
           caches == [x \in {id} |-> bits]
           sizes == [x \in {id} |-> size]
           new == With(st, fresh, caches, sizes)
<1>1. ToSet(fresh) = {id} /\ Enumerates(fresh, {id})
  BY DEF ToSet, Enumerates, IsInjective
<1>2. /\ caches \in [{id} -> Seq(B)] /\ sizes \in [{id} -> Nat \ {0}]
      /\ caches[id] = bits /\ sizes[id] = size
  OBVIOUS
<1>3. Used(st, id, bits, size) = Evicted(new, {id})
  BY Zenon DEF Used
<1> HIDE DEF fresh, caches, sizes
<1>4. /\ Kept(B, new)
      /\ \A s : s # id => Untouched(st, new, s)
      /\ new.length[id] = size /\ new.cache[id] = bits
  <2>1. \A s \in ToSet(fresh) : Fits(B, caches[s], sizes[s])
    BY <1>1, <1>2
  <2>2. ToSet(fresh) \subseteq Sessions /\ Enumerates(fresh, ToSet(fresh))
    BY <1>1
  <2>4. caches \in [ToSet(fresh) -> Seq(B)] /\ sizes \in [ToSet(fresh) -> Nat \ {0}]
    BY <1>1, <1>2
  <2>5. new = With(st, fresh, caches, sizes)
    OBVIOUS
  <2>6. Fresh(B, fresh, caches, sizes)
    BY <2>1, <2>2, <2>4, Zenon DEF Fresh
  <2> HIDE DEF new
  <2>3. /\ Kept(B, new)
        /\ \A s : s \notin ToSet(fresh) => Untouched(st, new, s)
        /\ \A s \in ToSet(fresh) : new.length[s] = sizes[s] /\ new.cache[s] = caches[s]
    BY <2>5, <2>6, WithKept
  <2> QED BY <1>1, <1>2, <2>3
<1> HIDE DEF new
<1>5. IsFiniteSet({id})
  BY FS_Singleton
<1>6. /\ Evicted(new, {id}) # {}
      /\ \A after \in Evicted(new, {id}) :
            Sound(B, after) /\ \A s : Untouched(new, after, s)
  BY <1>4, <1>5, EvictedSound
<1>7. ASSUME NEW after \in Evicted(new, {id})
      PROVE  /\ \A s : s # id => Untouched(st, after, s)
             /\ Keeps(after, id) => after.length[id] = size /\ after.cache[id] = bits
  <2>1. \A s : Untouched(new, after, s)
    BY <1>6
  <2> QED BY <1>4, <2>1 DEF Untouched
<1> QED BY <1>3, <1>6, <1>7, Zenon

\* A request leaves the stage as it should be and the other sessions as they
\* were, or evicts them; what it answers from a cache was computed on it.
LEMMA HandledSound ==
    ASSUME NEW B, Allowed(B), B = {TRUE} => "output" \notin Failures,
           NEW st, Sound(B, st), NEW p \in Payload, p.new \in Seq(B),
           NEW o \in Handled(st, p)
    PROVE  /\ Sound(B, o.stage)
           /\ o.answer \in Answers(B)
           /\ \A s : s # p.session => Untouched(st, o.stage, s)
           /\ o.answer.kind = "hidden_states" =>
                 Computed(st, p, o.answer) /\ GoesOn(st, o.stage, p)
<1> DEFINE at == Positioned(st, p)
           id == p.session
           m == p.start
           size == p.start + Len(p.new)
           grown == Extended(at.cache, p.start, p.new)
           gone == Without(st, {id})
           grew == OnOutputFailure(st, p, grown)
           crop == Cropped(st, p)
<1>1. m \in Nat /\ Len(p.new) \in Nat /\ id \in Sessions
  BY DEF Payload
<1>2. Kept(B, st) /\ Len(st.order) \in Nat /\ Len(st.order) <= MaxSessions
  BY OrdersOf DEF Sound
<1>3. \A s : Untouched(st, st, s)
  BY DEF Untouched
<1>4. Sound(B, gone) /\ \A s : Untouched(st, gone, s)
  <2>1. /\ Kept(B, gone)
        /\ Len(gone.order) = Cardinality(ToSet(st.order) \ {id})
        /\ \A s : Untouched(st, gone, s)
    BY <1>2, WithoutKept
  <2>2. /\ Cardinality(ToSet(st.order) \ {id}) <= Cardinality(ToSet(st.order))
        /\ Cardinality(ToSet(st.order) \ {id}) \in Nat
    <3>1. ToSet(st.order) \ {id} \in SUBSET ToSet(st.order) /\ IsFiniteSet(ToSet(st.order))
      BY <1>2, OrdersOf
    <3> QED BY <3>1, FS_Subset, FS_CardinalityType
  <2>3. Cardinality(ToSet(st.order)) = Len(st.order)
    BY <1>2, OrdersOf
  <2> DEFINE a == Cardinality(ToSet(st.order) \ {id})
             b == Len(st.order)
             c == Len(gone.order)
  <2>4. c = a /\ a <= b /\ a \in Nat /\ b \in Nat /\ b <= MaxSessions
    BY <1>2, <2>1, <2>2, <2>3
  <2> HIDE DEF a, b, c
  <2>5. c <= MaxSessions
    BY <2>4
  <2> QED BY <2>1, <2>5, Zenon DEF Sound, c
<1>5. at.there /\ m # 0 => Keeps(st, id) /\ Fits(B, at.cache, m) /\ at.cache \in Seq(B)
  BY <1>2, PositionedOf
<1>6. ASSUME at.there, m # 0, NEW bits \in Seq(B), Fits(B, bits, m), NEW new,
             Updates(st, new, id, bits, m)
      PROVE  Sound(B, new) /\ \A s : s # id => Untouched(st, new, s)
  <2>1. m \in Nat \ {0}
    BY <1>1, <1>6
  <2> HIDE DEF m, id, at
  <2>2. Kept(B, new) /\ \A s : s # id => Untouched(st, new, s)
    BY <1>2, <1>5, <1>6, <2>1, UpdatedKept
  <2>3. new.order = st.order
    BY <1>6 DEF Updates
  <2> QED BY <1>2, <2>2, <2>3, Zenon DEF Sound
<1>7. ASSUME at.there, m # 0
      PROVE  /\ Updates(st, crop, id, at.cache, m)
             /\ Updates(st, grew, id, grown, m)
  <2> DEFINE S == ToSet(st.order)
             x == at.cache
             y == grown
  <2>1. crop = [st EXCEPT !.cache[id] = x, !.length[id] = m]
    BY <1>5, <1>7, Zenon DEF Cropped
  <2>2. grew = [crop EXCEPT !.cache[id] = y]
    BY <1>7, Zenon DEF OnOutputFailure
  <2>3. DOMAIN st = {"order", "cache", "length"} /\ DOMAIN st.cache = S /\ DOMAIN st.length = S
        /\ id \in S
    BY <1>2, <1>5, <1>7 DEF Kept, Keeps
  <2> HIDE DEF x, y, at, m, id, crop, grew, grown, S
  <2>4. /\ DOMAIN crop = {"order", "cache", "length"} /\ crop.order = st.order
        /\ crop.cache = [st.cache EXCEPT ![id] = x]
        /\ crop.length = [st.length EXCEPT ![id] = m]
    BY <2>1, <2>3
  <2>5. /\ DOMAIN grew = {"order", "cache", "length"} /\ grew.order = st.order
        /\ grew.cache = [crop.cache EXCEPT ![id] = y]
        /\ grew.length = crop.length
    BY <2>2, <2>4
  <2>6. Updates(st, crop, id, x, m)
    BY <2>3, <2>4 DEF Updates, S
  <2>7. Updates(st, grew, id, y, m)
    BY <2>3, <2>4, <2>5 DEF Updates, S
  <2> QED BY <2>6, <2>7, Zenon DEF x, y
<1>8. at.there => Sound(B, crop) /\ \A s : s # id => Untouched(st, crop, s)
  <2>1. CASE m # 0 /\ at.there
    <3> HIDE DEF crop, at, m, id, grew
    <3> QED BY <1>5, <1>6, <1>7, <2>1, Zenon
  <2>2. CASE m = 0
    <3>1. crop = st
      BY <2>2 DEF Cropped
    <3> QED BY <1>3, <3>1
  <2> QED BY <2>1, <2>2
<1>9. at.there => /\ grown \in Seq(B) /\ Fits(B, grown, size)
                  /\ m <= Len(grown) /\ Output(st, p) \in Seq(B)
  BY <1>2, GrownOf, Zenon
<1>10. /\ Closed \in Answers(B) /\ Miss \in Answers(B) /\ Error \in Answers(B)
       /\ Closed.kind # "hidden_states" /\ Miss.kind # "hidden_states"
       /\ Error.kind # "hidden_states"
  BY OtherAnswers
<1> HIDE DEF at, grown, crop, grew, gone
<1>11. CASE o = [stage |-> gone, answer |-> Closed]
  BY <1>4, <1>10, <1>11
<1>12. CASE o = [stage |-> st, answer |-> Miss]
  BY <1>3, <1>10, <1>12
<1>13. CASE at.there /\ o = [stage |-> crop, answer |-> Error]
  BY <1>8, <1>10, <1>13
<1>14. CASE o = [stage |-> gone, answer |-> Error]
  BY <1>4, <1>10, <1>14
<1>15. CASE "output" \in Failures /\ at.there /\ o = [stage |-> grew, answer |-> Error]
  <2>1. Sound(B, grew) /\ \A s : s # id => Untouched(st, grew, s)
    <3>1. CASE m # 0
      <4>1. B # {TRUE} /\ grown \in Seq(B) /\ m <= Len(grown)
        BY <1>9, <1>15, Zenon
      <4>2. Fits(B, grown, m)
        BY <4>1, Zenon DEF Fits
      <4> HIDE DEF m, id
      <4> QED BY <1>6, <1>7, <1>15, <3>1, <4>1, <4>2, Zenon
    <3>2. CASE m = 0
      <4>1. grew = st
        BY <3>2 DEF grew, OnOutputFailure
      <4> QED BY <1>3, <4>1
    <3> QED BY <3>1, <3>2
  <2> QED BY <1>10, <1>15, <2>1
<1>16. CASE /\ ~p.close /\ at.there /\ p.new # <<>>
            /\ o.stage \in Used(st, id, grown, size)
            /\ o.answer = Hidden(Output(st, p))
  <2>1. size \in Nat \ {0}
    <3>1. Len(p.new) # 0
      BY <1>16
    <3> QED BY <1>1, <3>1
  <2>2. grown \in Seq(B) /\ Fits(B, grown, size) /\ Output(st, p) \in Seq(B)
    BY <1>9, <1>16, Zenon
  <2>3. Computed(st, p, o.answer)
    BY <1>16 DEF Computed, at
  <2> DEFINE out == Output(st, p)
  <2>4. o.answer \in Answers(B)
    <3>1. out \in Seq(B) /\ o.answer = Hidden(out)
      BY <1>16, <2>2
    <3> HIDE DEF out
    <3> QED BY <3>1 DEF Hidden, Answers
  <2> HIDE DEF size, id
  <2>5. \A after \in Used(st, id, grown, size) :
          /\ Sound(B, after)
          /\ \A s : s # id => Untouched(st, after, s)
          /\ Keeps(after, id) => after.length[id] = size /\ after.cache[id] = grown
    BY <1>1, <1>2, <2>1, <2>2, UsedSound
  <2>6. /\ Sound(B, o.stage)
        /\ \A s : s # id => Untouched(st, o.stage, s)
        /\ Keeps(o.stage, id) => o.stage.length[id] = size /\ o.stage.cache[id] = grown
    BY <1>16, <2>5, Zenon
  <2> QED BY <2>3, <2>4, <2>6, Zenon DEF size, id, grown, at, GoesOn
<1> QED
  <2>1. \/ o = [stage |-> gone, answer |-> Closed]
        \/ o = [stage |-> st, answer |-> Miss]
        \/ at.there /\ o = [stage |-> crop, answer |-> Error]
        \/ o = [stage |-> gone, answer |-> Error]
        \/ "output" \in Failures /\ at.there /\ o = [stage |-> grew, answer |-> Error]
        \/ /\ ~p.close /\ at.there /\ p.new # <<>>
           /\ o.stage \in Used(st, id, grown, size)
           /\ o = [stage |-> o.stage, answer |-> Hidden(Output(st, p))]
    BY HandledCases, Zenon DEF at, grown, gone, crop, grew, Used, Output
  <2>2. ASSUME o = [stage |-> o.stage, answer |-> Hidden(Output(st, p))]
        PROVE  o.answer = Hidden(Output(st, p))
    BY <2>2
  <2> QED BY <1>11, <1>12, <1>13, <1>14, <1>15, <1>16, <2>1, <2>2, Zenon

\* A stage whose entries of the session are older ones that were left alone
\* computes what it would have computed then.
LEMMA ComputedSame ==
    ASSUME NEW st, NEW now, NEW p, Untouched(st, now, p.session),
           NEW answer, Computed(now, p, answer)
    PROVE  Computed(st, p, answer) /\ Positioned(now, p) = Positioned(st, p)
<1>1. Positioned(now, p) = Positioned(st, p)
  <2>1. CASE p.start = 0
    BY <2>1, Zenon DEF Positioned
  <2>2. CASE p.start # 0
    <3>1. Positioned(now, p).there
      BY DEF Computed
    <3>2. Keeps(now, p.session)
      BY <2>2, <3>1 DEF Positioned
    <3>3. /\ Keeps(st, p.session)
          /\ now.cache[p.session] = st.cache[p.session]
          /\ now.length[p.session] = st.length[p.session]
      BY <3>2, Zenon DEF Untouched
    <3> QED BY <2>2, <3>2, <3>3, Zenon DEF Positioned
  <2> QED BY <2>1, <2>2
<1>2. Output(now, p) = Output(st, p)
  BY <1>1, Zenon DEF Output
<1> QED BY <1>1, <1>2, Zenon DEF Computed

\* What was computed is what the request alone is answered.
LEMMA ComputedAlone ==
    ASSUME NEW st, Sound(BOOLEAN, st), NEW p \in Payload, NEW answer, Computed(st, p, answer)
    PROVE  \E o \in Handled(st, p) : o.answer = answer /\ GoesOn(st, o.stage, p)
<1> DEFINE at == Positioned(st, p)
           id == p.session
           size == p.start + Len(p.new)
           grown == Extended(at.cache, p.start, p.new)
           out == SubSeq(grown, Len(at.cache) + 1, Len(grown))
<1>1. p.start \in Nat /\ Len(p.new) \in Nat /\ id \in Sessions /\ p.new \in Seq(BOOLEAN)
  BY DEF Payload, Bits
<1>2. ~p.close /\ at.there /\ p.new # <<>> /\ answer = Hidden(out)
  BY Zenon DEF Computed, Output
<1>3. Allowed(BOOLEAN) /\ Kept(BOOLEAN, st)
  BY Zenon DEF Allowed, Sound
<1>4. grown \in Seq(BOOLEAN) /\ Fits(BOOLEAN, grown, size)
  BY <1>1, <1>2, <1>3, GrownOf, Zenon
<1>5. size \in Nat \ {0}
  <2>1. Len(p.new) # 0
    BY <1>1, <1>2
  <2> QED BY <1>1, <2>1
<1> HIDE DEF at, grown, out, size, id
<1>6. PICK after \in Used(st, id, grown, size) :
            Keeps(after, id) => after.length[id] = size /\ after.cache[id] = grown
  <2>1. /\ Used(st, id, grown, size) # {}
        /\ \A after \in Used(st, id, grown, size) :
              Keeps(after, id) => after.length[id] = size /\ after.cache[id] = grown
    BY <1>1, <1>3, <1>4, <1>5, UsedSound
  <2> QED BY <2>1, Zenon
<1> DEFINE o == [stage |-> after, answer |-> Hidden(out)]
<1>7. o \in Handled(st, p)
  <2> DEFINE outcome(x, a) == [stage |-> x, answer |-> a]
             S == Used(st, id, grown, size)
             X == {outcome(OnFailure(st, p, grown), Error) : f \in Failures \cap {"forward"}}
             Y == {outcome(OnOutputFailure(st, p, grown), Error) :
                     f \in Failures \cap {"output"}}
  <2>1. Handled(st, p) = X \cup Y \cup {outcome(x, Hidden(out)) : x \in S}
    BY <1>2, Zenon DEF Handled, at, grown, out, id, size, Used
  <2> HIDE DEF X, Y, S
  <2>2. o \in {outcome(x, Hidden(out)) : x \in S}
    BY DEF S
  <2> QED BY <2>1, <2>2
<1>8. o.answer = answer /\ o.stage = after
  BY <1>2
<1> HIDE DEF o
<1> QED BY <1>6, <1>7, <1>8, Zenon DEF size, id, grown, at, GoesOn
-----------------------------------------------------------------------------
(* What a batch does *)

\* The requests one by one, as HandledBatch runs those that are not picked.
First(st) == {[stage |-> st, answers |-> <<>>]}

Go(ps, picked, runs, i) ==
    IF i \in picked
    THEN {[r EXCEPT !.answers = Append(@, Error)] : r \in runs}
    ELSE UNION {{[stage |-> o.stage, answers |-> Append(r.answers, o.answer)] :
                    o \in Handled(r.stage, ps[i])} : r \in runs}

RanTo(st, ps, picked, f, m) ==
    f = [i \in 0 .. m |-> IF i = 0 THEN First(st) ELSE Go(ps, picked, f[i - 1], i)]

Runs(st, ps, picked) == CHOOSE f : RanTo(st, ps, picked, f, Len(ps))

Line(ps, picked) == InOrder([i \in 1 .. Len(ps) |-> i], picked)

InLine(ps, picked) ==
    [k \in DOMAIN Line(ps, picked) |-> ps[Line(ps, picked)[k]]]

Merged(ps, picked, r, d) ==
    [stage |-> d.stage,
     answers |-> [i \in 1 .. Len(ps) |->
                    IF i \in picked
                    THEN d.answers[CHOOSE k \in DOMAIN Line(ps, picked) :
                                      Line(ps, picked)[k] = i]
                    ELSE r.answers[i]]]

LEMMA HandledBatchCases ==
    ASSUME NEW st, NEW ps, NEW o \in HandledBatch(st, ps)
    PROVE  LET picked == Batch(st, ps)
               alone == Runs(st, ps, picked)[Len(ps)]
           IN  \/ picked = {} /\ o \in alone
               \/ \E r \in alone : \E d \in DecodedBatch(r.stage, InLine(ps, picked)) :
                     o = Merged(ps, picked, r, d)
<1> DEFINE picked == Batch(st, ps)
           alone == Runs(st, ps, picked)[Len(ps)]
<1>1. HandledBatch(st, ps) =
        IF picked = {} THEN alone
        ELSE UNION {{Merged(ps, picked, r, d) :
                        d \in DecodedBatch(r.stage, InLine(ps, picked))} : r \in alone}
  BY DEF HandledBatch, Runs, RanTo, First, Go, Merged, InLine, Line
<1> HIDE DEF picked, alone
<1>2. CASE picked = {}
  BY <1>1, <1>2 DEF picked, alone
<1>3. CASE picked # {}
  <2>1. PICK r \in alone : o \in {Merged(ps, picked, r, d) :
                                    d \in DecodedBatch(r.stage, InLine(ps, picked))}
    BY <1>1, <1>3
  <2>2. \E d \in DecodedBatch(r.stage, InLine(ps, picked)) : o = Merged(ps, picked, r, d)
    BY <2>1
  <2> QED BY <2>2, Zenon DEF picked, alone
<1> QED BY <1>2, <1>3

\* The runs are what they are defined to be: were there a first step without,
\* the runs before it would give them.
LEMMA RunsExist ==
    ASSUME NEW st, NEW ps, Len(ps) \in Nat, NEW picked
    PROVE  RanTo(st, ps, picked, Runs(st, ps, picked), Len(ps))
<1> DEFINE n == Len(ps)
           M == {m \in 0 .. n : ~\E f : RanTo(st, ps, picked, f, m)}
<1>1. SUFFICES M = {}
  <2>1. n \in 0 .. n
    OBVIOUS
  <2> HIDE DEF n
  <2>2. \E f : RanTo(st, ps, picked, f, n)
    BY <1>1, <2>1, Zenon
  <2> QED BY <2>2, Zenon DEF Runs, n
<1>2. SUFFICES ASSUME M # {} PROVE FALSE
  OBVIOUS
<1>3. PICK m \in M : \A i \in M : m <= i
  <2>1. M \subseteq Nat
    OBVIOUS
  <2> HIDE DEF M
  <2> QED BY <1>2, <2>1, LeastOf
<1>4. CASE m = 0
  <2> DEFINE f == [i \in 0 .. 0 |-> First(st)]
  <2>1. \A i \in 0 .. 0 : i = 0
    OBVIOUS
  <2>2. f = [i \in 0 .. 0 |-> IF i = 0 THEN First(st) ELSE Go(ps, picked, f[i - 1], i)]
    BY <2>1, Zenon
  <2>3. RanTo(st, ps, picked, f, 0)
    BY <2>2, Zenon DEF RanTo
  <2> QED BY <1>3, <1>4, <2>3, Zenon
<1>5. CASE m # 0
  <2>1. m \in Nat /\ m - 1 \in 0 .. n /\ ~(m <= m - 1)
    BY <1>3, <1>5
  <2>2. PICK g : RanTo(st, ps, picked, g, m - 1)
    BY <1>3, <2>1, Zenon
  <2> DEFINE f == [i \in 0 .. m |-> IF i = m THEN Go(ps, picked, g[m - 1], m) ELSE g[i]]
  <2>3. ASSUME NEW i \in 0 .. m
        PROVE  f[i] = IF i = 0 THEN First(st) ELSE Go(ps, picked, f[i - 1], i)
    <3>1. CASE i = m
      <4>1. m - 1 \in 0 .. m /\ m - 1 # m /\ i # 0
        BY <1>5, <2>1, <3>1
      <4>2. f[m - 1] = g[m - 1]
        BY <4>1
      <4> QED BY <3>1, <4>1, <4>2
    <3>2. CASE i # m
      <4>1. i \in 0 .. m - 1
        BY <2>1, <3>2
      <4>2. f[i] = g[i]
        BY <3>2
      <4>3. g[i] = IF i = 0 THEN First(st) ELSE Go(ps, picked, g[i - 1], i)
        BY <2>2, <4>1, Zenon DEF RanTo
      <4>4. i # 0 => i - 1 \in 0 .. m /\ i - 1 # m
        BY <2>1, <4>1
      <4>5. i # 0 => f[i - 1] = g[i - 1]
        BY <4>4
      <4> HIDE DEF f
      <4> QED BY <4>2, <4>3, <4>5, Zenon
    <3> QED BY <3>1, <3>2
  <2>4. f = [i \in 0 .. m |-> f[i]]
    OBVIOUS
  <2> HIDE DEF f
  <2>5. RanTo(st, ps, picked, f, m)
    BY <2>3, <2>4, Zenon DEF RanTo
  <2> QED BY <1>3, <2>5, Zenon
<1> QED BY <1>4, <1>5

\* The requests whose session has no other request in the batch.
Lone(ps) ==
    {i \in DOMAIN ps : \A j \in DOMAIN ps : ps[j].session = ps[i].session => j = i}

\* The request was answered, if with hidden states, as st alone would have, and
\* its session goes on from what they end at.
AnsweredAs(st, now, p, answer) ==
    answer.kind = "hidden_states" =>
        Computed(st, p, answer) /\ GoesOn(st, now, p)

\* After request i: the lone ones that ran were answered as st would have, and
\* the sessions of those to come are as they were in st, or gone.
Ran(B, st, ps, picked, r, i) ==
    /\ DOMAIN r = {"stage", "answers"}
    /\ Sound(B, r.stage)
    /\ r.answers \in Seq(Answers(B)) /\ Len(r.answers) = i
    /\ \A j \in Lone(ps) :
          IF j \in (1 .. i) \ picked
          THEN AnsweredAs(st, r.stage, ps[j], r.answers[j])
          ELSE Untouched(st, r.stage, ps[j].session)

\* What a worker may be asked, with bits of B.
Asked(B, p) == p \in Payload /\ p.new \in Seq(B)

LEMMA UntouchedTwice ==
    ASSUME NEW a, NEW b, NEW c, NEW s, Untouched(a, b, s), Untouched(b, c, s)
    PROVE  Untouched(a, c, s)
BY Zenon DEF Untouched

LEMMA StillAnswered ==
    ASSUME NEW st, NEW a, NEW b, NEW p, NEW answer,
           AnsweredAs(st, a, p, answer), Untouched(a, b, p.session)
    PROVE  AnsweredAs(st, b, p, answer)
BY Zenon DEF AnsweredAs, GoesOn, Untouched

\* A request that is picked is put off ...
LEMMA RanPicked ==
    ASSUME NEW B, NEW st, NEW ps, NEW picked, NEW i \in Nat \ {0}, i \in picked,
           NEW r, Ran(B, st, ps, picked, r, i - 1)
    PROVE  Ran(B, st, ps, picked, [r EXCEPT !.answers = Append(@, Error)], i)
<1> DEFINE after == [r EXCEPT !.answers = Append(@, Error)]
           q == r.answers
           A == Answers(B)
<1>1. /\ DOMAIN r = {"stage", "answers"} /\ Sound(B, r.stage)
      /\ q \in Seq(A) /\ Len(q) = i - 1
  BY Zenon DEF Ran
<1>2. DOMAIN after = {"stage", "answers"} /\ after.stage = r.stage
      /\ after.answers = Append(q, Error)
  <2> HIDE DEF q
  <2>1. after = [r EXCEPT !.answers = Append(q, Error)]
    BY Zenon DEF q
  <2> QED BY <1>1, <2>1
<1>3. Error \in A
  BY OtherAnswers
<1> HIDE DEF after, q, A
<1>4. /\ after.answers \in Seq(A) /\ Len(after.answers) = i
      /\ \A j \in 1 .. i - 1 : after.answers[j] = q[j]
  BY <1>1, <1>2, <1>3
<1>5. (1 .. i) \ picked = (1 .. i - 1) \ picked
  BY <1>1
<1>6. \A j \in Lone(ps) :
          IF j \in (1 .. i) \ picked
          THEN AnsweredAs(st, after.stage, ps[j], after.answers[j])
          ELSE Untouched(st, after.stage, ps[j].session)
  <2>1. ASSUME NEW j \in Lone(ps), j \in (1 .. i) \ picked
        PROVE  AnsweredAs(st, after.stage, ps[j], after.answers[j])
    <3>1. j \in (1 .. i - 1) \ picked
      BY <1>5, <2>1
    <3>2. AnsweredAs(st, r.stage, ps[j], q[j])
      BY <2>1, <3>1, Zenon DEF Ran, q
    <3>3. after.answers[j] = q[j]
      BY <1>4, <3>1
    <3> QED BY <1>2, <3>2, <3>3, Zenon
  <2>2. ASSUME NEW j \in Lone(ps), j \notin (1 .. i) \ picked
        PROVE  Untouched(st, after.stage, ps[j].session)
    <3>1. j \notin (1 .. i - 1) \ picked
      BY <1>5, <2>2
    <3> QED BY <1>2, <2>2, <3>1, Zenon DEF Ran
  <2> QED BY <2>1, <2>2, Zenon
<1> QED BY <1>1, <1>2, <1>4, <1>6, Zenon DEF Ran, after, A

\* ... and one that is not is handled.
LEMMA RanAlone ==
    ASSUME NEW B, Allowed(B), B = {TRUE} => "output" \notin Failures,
           NEW st, NEW ps, NEW picked, NEW i \in DOMAIN ps, i \in Nat \ {0}, i \notin picked,
           Asked(B, ps[i]),
           NEW r, Ran(B, st, ps, picked, r, i - 1),
           NEW o \in Handled(r.stage, ps[i])
    PROVE  Ran(B, st, ps, picked,
               [stage |-> o.stage, answers |-> Append(r.answers, o.answer)], i)
<1> DEFINE after == [stage |-> o.stage, answers |-> Append(r.answers, o.answer)]
           q == r.answers
           A == Answers(B)
           p == ps[i]
<1>1. Sound(B, r.stage) /\ q \in Seq(A) /\ Len(q) = i - 1
  BY Zenon DEF Ran
<1>2. DOMAIN after = {"stage", "answers"} /\ after.stage = o.stage
      /\ after.answers = Append(q, o.answer)
  OBVIOUS
<1>3. /\ Sound(B, o.stage) /\ o.answer \in A
      /\ \A s : s # p.session => Untouched(r.stage, o.stage, s)
      /\ AnsweredAs(r.stage, o.stage, p, o.answer)
  <2>1. p \in Payload /\ p.new \in Seq(B)
    BY Zenon DEF Asked
  <2> HIDE DEF p
  <2>2. o \in Handled(r.stage, p)
    BY DEF p
  <2> DEFINE st0 == r.stage
  <2>3. Sound(B, st0) /\ o \in Handled(st0, p)
    BY <1>1, <2>2
  <2> HIDE DEF st0, A
  <2>4. /\ Sound(B, o.stage) /\ o.answer \in Answers(B)
        /\ \A s : s # p.session => Untouched(st0, o.stage, s)
        /\ o.answer.kind = "hidden_states" =>
              Computed(st0, p, o.answer) /\ GoesOn(st0, o.stage, p)
    BY <2>1, <2>3, HandledSound
  <2> QED BY <2>4, Zenon DEF AnsweredAs, st0, A
<1> HIDE DEF after, q, A, p
<1>4. /\ after.answers \in Seq(A) /\ Len(after.answers) = i
      /\ \A j \in 1 .. i - 1 : after.answers[j] = q[j]
      /\ after.answers[i] = o.answer
  BY <1>1, <1>2, <1>3
<1>5. ASSUME NEW j \in Lone(ps), j # i PROVE Untouched(r.stage, o.stage, ps[j].session)
  <2>1. ps[j].session # p.session
    BY <1>5, Zenon DEF Lone, p
  <2> QED BY <1>3, <2>1, Zenon
<1>6. \A j \in Lone(ps) :
          IF j \in (1 .. i) \ picked
          THEN AnsweredAs(st, after.stage, ps[j], after.answers[j])
          ELSE Untouched(st, after.stage, ps[j].session)
  <2>1. ASSUME NEW j \in Lone(ps), j \in (1 .. i) \ picked, j # i
        PROVE  AnsweredAs(st, after.stage, ps[j], after.answers[j])
    <3>1. j \in (1 .. i - 1) \ picked
      BY <2>1
    <3>2. AnsweredAs(st, r.stage, ps[j], q[j])
      BY <2>1, <3>1, Zenon DEF Ran, q
    <3>3. after.answers[j] = q[j]
      BY <1>4, <3>1
    <3>4. AnsweredAs(st, o.stage, ps[j], q[j])
      BY <1>5, <2>1, <3>2, StillAnswered, Zenon
    <3> QED BY <1>2, <3>3, <3>4, Zenon
  <2>2. ASSUME i \in Lone(ps)
        PROVE  AnsweredAs(st, after.stage, ps[i], after.answers[i])
    <3>1. i \notin (1 .. i - 1) \ picked
      OBVIOUS
    <3>2. Untouched(st, r.stage, p.session)
      BY <2>2, <3>1, Zenon DEF Ran, p
    <3>3. o.answer.kind = "hidden_states" =>
              Computed(st, p, o.answer) /\ Positioned(r.stage, p) = Positioned(st, p)
      BY <1>3, <3>2, ComputedSame, Zenon DEF AnsweredAs
    <3>4. AnsweredAs(st, o.stage, p, o.answer)
      BY <1>3, <3>3, Zenon DEF AnsweredAs, GoesOn
    <3> QED BY <1>2, <1>4, <3>4, Zenon DEF p
  <2>3. ASSUME NEW j \in Lone(ps), j \notin (1 .. i) \ picked
        PROVE  Untouched(st, after.stage, ps[j].session)
    <3>1. j \notin (1 .. i - 1) \ picked /\ j # i
      BY <2>3
    <3>2. Untouched(st, r.stage, ps[j].session)
      BY <2>3, <3>1, Zenon DEF Ran
    <3> QED BY <1>2, <1>5, <2>3, <3>1, <3>2, UntouchedTwice, Zenon
  <2> QED BY <2>1, <2>2, <2>3, Zenon
<1> QED BY <1>2, <1>3, <1>4, <1>6, Zenon DEF Ran, after, A

\* So it is for all the runs.
LEMMA RunsAre ==
    ASSUME NEW B, Allowed(B), B = {TRUE} => "output" \notin Failures,
           NEW st, Sound(B, st), NEW ps \in Seq(Payload), \A i \in DOMAIN ps : Asked(B, ps[i]),
           NEW picked, NEW r \in Runs(st, ps, picked)[Len(ps)]
    PROVE  Ran(B, st, ps, picked, r, Len(ps))
<1> DEFINE n == Len(ps)
           f == Runs(st, ps, picked)
           M == {i \in 0 .. n : ~\A x \in f[i] : Ran(B, st, ps, picked, x, i)}
<1>1. n \in Nat /\ DOMAIN ps = 1 .. n /\ n \in 0 .. n
  OBVIOUS
<1>2. RanTo(st, ps, picked, f, n)
  BY <1>1, RunsExist
<1> HIDE DEF n, f
<1>3. ASSUME NEW i \in 0 .. n
      PROVE  f[i] = IF i = 0 THEN First(st) ELSE Go(ps, picked, f[i - 1], i)
  BY <1>2, Zenon DEF RanTo
<1>4. SUFFICES ASSUME M # {} PROVE FALSE
  BY <1>1, Zenon DEF n, f
<1>5. PICK m \in M : \A i \in M : m <= i
  <2>1. M \subseteq Nat
    BY <1>1
  <2> HIDE DEF M
  <2> QED BY <1>4, <2>1, LeastOf
<1>6. CASE m = 0
  <2>1. ASSUME NEW x \in First(st) PROVE Ran(B, st, ps, picked, x, 0)
    <3>1. x = [stage |-> st, answers |-> <<>>]
      BY <2>1 DEF First
    <3>2. DOMAIN x = {"stage", "answers"} /\ x.stage = st /\ x.answers = <<>>
      BY <3>1
    <3>3. <<>> \in Seq(Answers(B)) /\ Len(<<>>) = 0
      OBVIOUS
    <3>4. \A j : j \notin (1 .. 0) \ picked
      OBVIOUS
    <3>5. \A s : Untouched(st, st, s)
      BY Zenon DEF Untouched
    <3> QED BY <3>2, <3>3, <3>4, <3>5, Zenon DEF Ran
  <2> QED BY <1>3, <1>5, <1>6, <2>1, Zenon
<1>7. CASE m # 0
  <2>1. m \in Nat \ {0} /\ m \in 1 .. n /\ m - 1 \in 0 .. n /\ ~(m <= m - 1)
    BY <1>1, <1>5, <1>7
  <2>2. \A x \in f[m - 1] : Ran(B, st, ps, picked, x, m - 1)
    BY <1>5, <2>1, Zenon
  <2>3. f[m] = Go(ps, picked, f[m - 1], m)
    BY <1>3, <1>5, <1>7
  <2>4. CASE m \in picked
    <3>1. f[m] = {[x EXCEPT !.answers = Append(@, Error)] : x \in f[m - 1]}
      BY <2>3, <2>4, Zenon DEF Go
    <3>2. \A x \in f[m - 1] :
             Ran(B, st, ps, picked, [x EXCEPT !.answers = Append(@, Error)], m)
      BY <2>1, <2>2, <2>4, RanPicked, Zenon
    <3>3. \A y \in f[m] : Ran(B, st, ps, picked, y, m)
      BY <3>1, <3>2, Zenon
    <3> QED BY <1>5, <3>3, Zenon
  <2>5. CASE m \notin picked
    <3>1. f[m] = UNION {{[stage |-> o.stage, answers |-> Append(x.answers, o.answer)] :
                            o \in Handled(x.stage, ps[m])} : x \in f[m - 1]}
      BY <2>3, <2>5, Zenon DEF Go
    <3>2. ASSUME NEW x \in f[m - 1], NEW o \in Handled(x.stage, ps[m])
          PROVE  Ran(B, st, ps, picked,
                     [stage |-> o.stage, answers |-> Append(x.answers, o.answer)], m)
      <4>1. Asked(B, ps[m]) /\ m \in DOMAIN ps
        BY <1>1, <2>1
      <4> QED BY <2>1, <2>2, <2>5, <4>1, RanAlone
    <3>3. ASSUME NEW y \in f[m] PROVE Ran(B, st, ps, picked, y, m)
      <4>1. PICK x \in f[m - 1] :
               y \in {[stage |-> o.stage, answers |-> Append(x.answers, o.answer)] :
                         o \in Handled(x.stage, ps[m])}
        BY <3>1, Zenon
      <4>2. PICK o \in Handled(x.stage, ps[m]) :
               y = [stage |-> o.stage, answers |-> Append(x.answers, o.answer)]
        BY <4>1
      <4> QED BY <3>2, <4>2, Zenon
    <3> QED BY <1>5, <3>3, Zenon
  <2> QED BY <2>4, <2>5
<1> QED BY <1>6, <1>7

\* A decode step: one token at the end of the cache.
DecodeBits(st, p) ==
    Extended(st.cache[p.session], st.length[p.session], p.new)

\* The answer of a shared forward, and what its session goes on from.
AnsweredTogether(st, now, p, answer) ==
    answer.kind = "hidden_states" =>
        /\ Keeps(st, p.session)
        /\ answer = Hidden(<<Last(DecodeBits(st, p))>>)
        /\ Keeps(now, p.session) =>
              /\ now.length[p.session] = st.length[p.session] + 1
              /\ now.cache[p.session] = DecodeBits(st, p)

LEMMA DecodeBitsAre ==
    ASSUME NEW B, Allowed(B), NEW st, Kept(B, st), NEW p, Asked(B, p), Len(p.new) = 1,
           Keeps(st, p.session)
    PROVE  /\ DecodeBits(st, p) \in Seq(B)
           /\ Len(DecodeBits(st, p)) = Len(st.cache[p.session]) + 1
           /\ Len(st.cache[p.session]) \in Nat
           /\ Fits(B, DecodeBits(st, p), st.length[p.session] + 1)
           /\ st.length[p.session] + 1 \in Nat \ {0}
           /\ <<Last(DecodeBits(st, p))>> \in Seq(B)
<1> DEFINE c == st.cache[p.session]
           n == st.length[p.session]
           q == p.new
           g == Extended(c, n, q)
<1>1. c \in Seq(B) /\ n \in Nat \ {0} /\ Fits(B, c, n)
  BY DEF Keeps, Kept
<1>2. q \in Seq(B) /\ Len(q) = 1
  BY DEF Asked
<1> HIDE DEF c, n, q
<1>3. g \in Seq(B) /\ Len(g) = Len(c) + Len(q)
  <2>1. Continues(B, c, n)
    BY <1>1, Zenon DEF Fits, Continues
  <2>2. c \in Seq(B) /\ q \in Seq(B) /\ n \in Nat
    BY <1>1, <1>2
  <2> QED BY <2>1, <2>2, ExtendedBits
<1> HIDE DEF g
<1>4. Len(g) = Len(c) + 1 /\ Len(c) \in Nat
  BY <1>1, <1>2, <1>3
<1>5. Fits(B, g, n + 1)
  <2>1. n <= Len(c) /\ (B = {TRUE} => Len(c) = n)
    BY <1>1, Zenon DEF Fits
  <2>2. n + 1 <= Len(g)
    BY <1>1, <1>4, <2>1
  <2>3. Len(c) = n => Len(g) = n + 1
    BY <1>4
  <2> QED BY <2>1, <2>2, <2>3, Zenon DEF Fits
<1>6. <<Last(g)>> \in Seq(B)
  <2>1. Last(g) \in B
    BY <1>3, <1>4 DEF Last
  <2> QED BY <2>1
<1>7. n + 1 \in Nat \ {0}
  BY <1>1
<1> QED BY <1>3, <1>4, <1>5, <1>6, <1>7, Zenon DEF DecodeBits, g, c, n, q

\* The elements of two sequences one behind the other.
LEMMA ConcatIs ==
    ASSUME NEW T, NEW a \in Seq(T), NEW b \in Seq(T)
    PROVE  /\ a \o b \in Seq(T) /\ Len(a \o b) = Len(a) + Len(b)
           /\ \A i \in 1 .. Len(a) : (a \o b)[i] = a[i]
           /\ \A i \in 1 .. Len(b) : (a \o b)[Len(a) + i] = b[i]
OBVIOUS

\* A cache that is padded to the longest of a batch, whose new token attends to
\* what the mask lets it see, and that is cut back, is the cache the request
\* would have extended alone.
LEMMA PaddedIsAlone ==
    ASSUME NEW cache \in Bits, NEW new \in Bits, Len(new) = 1,
           NEW length \in Nat, NEW longest \in Nat, length <= longest
    PROVE  DecodedCache(cache, length, longest, new[1]) = Extended(cache, length, new)
<1> DEFINE T == BOOLEAN
           pad == longest - length
           row == Padded(cache, pad)
           mask == Mask(longest, pad)
           bit == Decoded(row, cache, mask, length, new[1])
           full == Append(row, bit)
           e == /\ Len(cache) = length
                /\ \A j \in DOMAIN cache : cache[j]
                /\ new[1]
           x == <<e>>
           c == Len(cache)
<1>1. /\ cache \in Seq(T) /\ new \in Seq(T) /\ c \in Nat /\ DOMAIN cache = 1 .. c
      /\ DOMAIN new = 1 .. 1 /\ pad \in Nat
  <2>1. cache \in Seq(T) /\ new \in Seq(T)
    BY Zenon DEF Bits
  <2> HIDE DEF T
  <2> QED BY <2>1
<1> HIDE DEF T, pad, c
<1>2. bit \in T /\ e \in T
  BY Zenon DEF T, Decoded
<1>3. /\ row \in Seq(T) /\ Len(row) = pad + c
      /\ \A i \in 1 .. pad : row[i] = FALSE
      /\ \A i \in 1 .. c : row[pad + i] = cache[i]
  <2> DEFINE z == FALSE
             zeros == [i \in 1 .. pad |-> z]
  <2>1. row = zeros \o cache /\ z \in T
    BY Zenon DEF Padded, T
  <2> HIDE DEF z, row
  <2>2. zeros \in Seq(T) /\ Len(zeros) = pad /\ \A i \in 1 .. pad : zeros[i] = z
    BY <1>1, <2>1
  <2> HIDE DEF zeros
  <2>3. /\ row \in Seq(T) /\ Len(row) = Len(zeros) + Len(cache)
        /\ \A i \in 1 .. Len(zeros) : row[i] = zeros[i]
        /\ \A i \in 1 .. Len(cache) : row[Len(zeros) + i] = cache[i]
    <3>1. zeros \in Seq(T) /\ cache \in Seq(T)
      BY <1>1, <2>2, Zenon
    <3> QED BY ONLY <2>1, <3>1, ConcatIs
  <2> QED BY <2>2, <2>3, Zenon DEF z, c
<1> HIDE DEF row
<1>4. bit <=> e
  <2> DEFINE sees(i) == i \in DOMAIN mask /\ mask[i]
             own == \A i \in 1 .. Len(row) + 1 : sees(i) <=> i > Len(row) - Len(cache)
             seen == \A i \in DOMAIN row : sees(i) => row[i]
  <2>1. bit <=> length = Len(cache) /\ own /\ seen /\ new[1]
    BY Zenon DEF Decoded
  <2>2. DOMAIN row = 1 .. pad + c
    BY <1>1, <1>3
  <2>3. CASE length # Len(cache)
    BY <2>1, <2>3, Zenon
  <2>4. CASE length = Len(cache)
    <3>1. Len(row) = longest /\ Len(row) - Len(cache) = pad
      BY <1>1, <1>3, <2>4 DEF pad, c
    <3>2. \A i \in 1 .. longest + 1 : i \in DOMAIN mask /\ (mask[i] <=> i > pad)
      BY DEF Mask
    <3> HIDE DEF mask
    <3>3. own
      BY <3>1, <3>2
    <3>4. \A i \in DOMAIN row : sees(i) <=> i > pad
      <4>1. \A i \in DOMAIN row : i \in 1 .. longest + 1
        BY <1>1, <1>3, <2>2, <3>1
      <4> QED BY <3>2, <4>1, Zenon
    <3>5. seen <=> \A j \in DOMAIN cache : cache[j]
      <4>1. ASSUME seen, NEW j \in DOMAIN cache PROVE cache[j]
        <5>1. pad + j \in DOMAIN row /\ pad + j > pad /\ j \in 1 .. c
          BY <1>1, <2>2
        <5> HIDE DEF sees
        <5>2. row[pad + j] = cache[j] /\ row[pad + j]
          BY <1>3, <3>4, <4>1, <5>1, Zenon
        <5> QED BY <5>2, Zenon
      <4>2. ASSUME \A j \in DOMAIN cache : cache[j], NEW i \in DOMAIN row, sees(i) PROVE row[i]
        <5>1. i > pad
          BY <3>4, <4>2, Zenon
        <5>2. i - pad \in 1 .. c /\ pad + (i - pad) = i
          BY <1>1, <2>2, <5>1
        <5>3. row[i] = cache[i - pad] /\ cache[i - pad]
          BY <1>1, <1>3, <4>2, <5>2, Zenon
        <5> QED BY <5>3, Zenon
      <4> QED BY <4>1, <4>2, Zenon
    <3> HIDE DEF own, seen, sees
    <3> QED BY <2>1, <2>4, <3>3, <3>5, Zenon
  <2> QED BY <2>3, <2>4
<1>5. bit = e
  BY <1>2, <1>4, Zenon DEF T
<1>6. DecodedCache(cache, length, longest, new[1]) = SubSeq(full, pad + 1, Len(full))
  BY Zenon DEF DecodedCache, Unpadded, pad, row
<1>7. Extended(cache, length, new) = cache \o x
  <2> DEFINE f == [i \in DOMAIN new |->
                     /\ Len(cache) = length
                     /\ \A j \in DOMAIN cache : cache[j]
                     /\ \A j \in 1 .. i : new[j]]
  <2>1. Extended(cache, length, new) = cache \o f
    BY Zenon DEF Extended
  <2>2. f[1] = e
    <3>1. \A j \in 1 .. 1 : j = 1
      OBVIOUS
    <3>2. 1 \in DOMAIN new /\ 1 \in 1 .. 1
      BY <1>1
    <3> QED BY <3>1, <3>2, Zenon
  <2>3. f = [i \in 1 .. Len(new) |-> f[i]]
    BY <1>1
  <2> HIDE DEF e, f
  <2>4. f = x
    <3>1. \A i \in 1 .. 1 : i = 1
      OBVIOUS
    <3>2. x \in Seq(T) /\ Len(x) = 1 /\ x[1] = e
      BY <1>2
    <3>3. f[1] \in T
      BY <1>2, <2>2, Zenon
    <3>4. f \in Seq(T) /\ Len(f) = 1
      <4> DEFINE n == Len(new)
      <4>1. n \in Nat /\ n = 1
        OBVIOUS
      <4>2. \A i \in 1 .. n : f[i] \in T
        BY <3>1, <3>3, <4>1
      <4>3. f = [i \in 1 .. n |-> f[i]]
        BY <2>3, Zenon
      <4> HIDE DEF T, x, n
      <4>4. f \in [1 .. n -> T]
        BY <4>2, <4>3
      <4>5. f \in Seq(T) /\ Len(f) = n
        <5>1. n \in Nat
          BY <4>1, Zenon
        <5> QED BY ONLY <5>1, <4>4
      <4> QED BY <4>1, <4>5, Zenon
    <3>5. \A i \in 1 .. 1 : f[i] = x[i]
      BY <2>2, <3>1, <3>2, Zenon
    <3> HIDE DEF x
    <3> QED BY <3>2, <3>4, <3>5, SeqEqual, Zenon
  <2> QED BY <2>1, <2>4
<1> HIDE DEF e, bit
<1> DEFINE left == SubSeq(full, pad + 1, Len(full))
           right == cache \o x
<1>8. /\ full \in Seq(T) /\ Len(full) = pad + c + 1
      /\ \A i \in 1 .. c : full[pad + i] = cache[i]
      /\ full[pad + c + 1] = bit
  BY <1>1, <1>2, <1>3
<1> HIDE DEF full
<1>9. /\ left \in Seq(T) /\ Len(left) = c + 1
      /\ \A i \in 1 .. c + 1 : left[i] = full[pad + i]
  BY <1>1, <1>8
<1>10. x \in Seq(T) /\ Len(x) = 1 /\ x[1] = e
  BY <1>2
<1> HIDE DEF x, left
<1>11. /\ right \in Seq(T) /\ Len(right) = c + 1
       /\ \A i \in 1 .. c : right[i] = cache[i]
       /\ right[c + 1] = e
  <2>1. /\ right \in Seq(T) /\ Len(right) = Len(cache) + Len(x)
        /\ \A i \in 1 .. Len(cache) : right[i] = cache[i]
        /\ \A i \in 1 .. Len(x) : right[Len(cache) + i] = x[i]
    <3>1. x \in Seq(T) /\ cache \in Seq(T)
      BY <1>1, <1>10, Zenon
    <3> QED BY ONLY <3>1, ConcatIs DEF right
  <2>2. 1 \in 1 .. 1
    OBVIOUS
  <2> QED BY <1>10, <2>1, <2>2, Zenon DEF c
<1> HIDE DEF right
<1>12. \A i \in 1 .. c + 1 : left[i] = right[i]
  <2>1. ASSUME NEW i \in 1 .. c PROVE left[i] = right[i]
    <3>1. i \in 1 .. c + 1
      BY <1>1
    <3> QED BY <1>8, <1>9, <1>11, <3>1, Zenon
  <2>2. left[c + 1] = right[c + 1]
    BY <1>1, <1>5, <1>8, <1>9, <1>11
  <2>3. \A i \in 1 .. c + 1 : i \in 1 .. c \/ i = c + 1
    BY <1>1
  <2> QED BY <2>1, <2>2, <2>3, Zenon
<1>13. left = right
  BY <1>9, <1>11, <1>12, SeqEqual, Zenon
<1> QED BY <1>6, <1>7, <1>13 DEF left, right

\* The sessions of a shared forward, their caches and their lengths after it.
Ids(qs) == [k \in DOMAIN qs |-> qs[k].session]

Of(qs, s) == qs[CHOOSE k \in DOMAIN qs : Ids(qs)[k] = s]

Grown(st, qs) ==
    [s \in ToSet(Ids(qs)) |-> Extended(st.cache[s], st.length[s], Of(qs, s).new)]

Sizes(st, qs) == [s \in ToSet(Ids(qs)) |-> st.length[s] + 1]

Told(st, qs) == [k \in DOMAIN qs |-> Hidden(<<Last(Grown(st, qs)[Ids(qs)[k]])>>)]

\* All of a batch's caches, padded to the longest of them and cut back.
LEMMA GrownPadded ==
    ASSUME NEW B, Allowed(B), NEW st, Kept(B, st), NEW qs \in Seq(Payload),
           \A k \in DOMAIN qs : Len(qs[k].new) = 1,
           \A s \in ToSet(Ids(qs)) : Keeps(st, s)
    PROVE  [s \in ToSet(Ids(qs)) |->
               DecodedCache(st.cache[s], st.length[s],
                            Max({st.length[x] : x \in ToSet(Ids(qs))}), Of(qs, s).new[1])]
             = Grown(st, qs)
<1> DEFINE ids == Ids(qs)
           S == ToSet(ids)
           L == {st.length[x] : x \in S}
           longest == Max(L)
<1>1. /\ DOMAIN ids = DOMAIN qs /\ DOMAIN qs = 1 .. Len(qs) /\ Len(qs) \in Nat
      /\ \A k \in DOMAIN qs : qs[k] \in Payload
  BY DEF Ids
<1>2. S = {ids[k] : k \in DOMAIN qs}
  BY <1>1, Zenon DEF ToSet
<1>3. \A s \in S : s \in ToSet(st.order)
  BY Zenon DEF Keeps
<1>4. /\ st.cache \in [ToSet(st.order) -> Seq(B)]
      /\ st.length \in [ToSet(st.order) -> Nat \ {0}]
  BY Zenon DEF Kept
<1> HIDE DEF ids, S
<1>5. \A s \in S : st.cache[s] \in Seq(B) /\ st.length[s] \in Nat
  BY <1>3, <1>4
<1>6. Seq(B) \subseteq Bits
  <2>1. B \subseteq BOOLEAN
    BY Zenon DEF Allowed
  <2> QED BY <2>1, SeqMonotonic, Zenon DEF Bits
<1>7. \A s \in S : \E k \in DOMAIN qs : Of(qs, s) = qs[k]
  <2>1. ASSUME NEW s \in S PROVE \E k \in DOMAIN qs : Of(qs, s) = qs[k]
    <3>1. \E k \in DOMAIN qs : ids[k] = s
      BY <1>2
    <3> QED BY <3>1, Zenon DEF Of, ids
  <2> QED BY <2>1, Zenon
<1>8. ASSUME S # {} PROVE longest \in Nat /\ \A s \in S : st.length[s] <= longest
  <2> DEFINE q == [k \in DOMAIN qs |-> st.length[ids[k]]]
  <2>1. \A k \in DOMAIN qs : st.length[ids[k]] \in Nat
    BY <1>2, <1>5, Zenon
  <2>2. q \in Seq(Nat) /\ DOMAIN q = DOMAIN qs
    BY <1>1, <2>1
  <2>3. q # <<>>
    BY <1>2, <1>8, <2>2
  <2>4. L = {q[k] : k \in DOMAIN q}
    <3>1. L = {st.length[ids[k]] : k \in DOMAIN qs}
      BY <1>2
    <3> QED BY <2>2, <3>1
  <2> HIDE DEF q, L
  <2>5. longest \in Nat /\ \A y \in L : y <= longest
    BY <2>2, <2>3, <2>4, MaxIs
  <2> QED BY <2>5 DEF L
<1> HIDE DEF L, longest
<1>9. ASSUME NEW s \in S
      PROVE  DecodedCache(st.cache[s], st.length[s], longest, Of(qs, s).new[1])
                = Extended(st.cache[s], st.length[s], Of(qs, s).new)
  <2>1. PICK k \in DOMAIN qs : Of(qs, s) = qs[k]
    BY <1>7
  <2> DEFINE new == qs[k].new
             cache == st.cache[s]
             length == st.length[s]
  <2>2. new \in Bits /\ Len(new) = 1
    BY <1>1, <2>1 DEF Payload
  <2>3. cache \in Bits /\ length \in Nat /\ longest \in Nat /\ length <= longest
    BY <1>5, <1>6, <1>8
  <2> HIDE DEF new, cache, length
  <2>4. DecodedCache(cache, length, longest, new[1]) = Extended(cache, length, new)
    BY ONLY <2>2, <2>3, PaddedIsAlone
  <2> QED BY <2>1, <2>4, Zenon DEF new, cache, length
<1> QED BY <1>9, Zenon DEF Grown, ids, S, L, longest

\* The batch that shares a forward: it fails, and its sessions go, or each of
\* them grows by its own token.
LEMMA DecodedCases ==
    ASSUME NEW B, Allowed(B), NEW st, Kept(B, st), NEW qs \in Seq(Payload),
           \A k \in DOMAIN qs : Len(qs[k].new) = 1,
           NEW d \in DecodedBatch(st, qs)
    PROVE  \/ d = [stage |-> Without(st, ToSet(Ids(qs))),
                   answers |-> [k \in DOMAIN qs |-> Error]]
           \/ /\ \A s \in ToSet(Ids(qs)) : Keeps(st, s)
              /\ d.stage \in Evicted(With(st, Ids(qs), Grown(st, qs), Sizes(st, qs)),
                                     ToSet(Ids(qs)))
              /\ d.answers = Told(st, qs)
<1> DEFINE ids == Ids(qs)
           longest == Max({st.length[s] : s \in ToSet(ids)})
           width(s) == Len(Padded(st.cache[s], longest - st.length[s]))
           ready == /\ \A s \in ToSet(ids) : Keeps(st, s)
                    /\ \A s, t \in ToSet(ids) : width(s) = width(t)
           failed == [stage |-> Without(st, ToSet(ids)),
                      answers |-> [k \in DOMAIN qs |-> Error]]
           grown == [s \in ToSet(ids) |->
                       DecodedCache(st.cache[s], st.length[s], longest, Of(qs, s).new[1])]
           answered == [k \in DOMAIN qs |-> Hidden(<<Last(grown[ids[k]])>>)]
           told == Told(st, qs)
           left == Evicted(With(st, ids, Grown(st, qs), Sizes(st, qs)), ToSet(ids))
           after == Evicted(With(st, ids, grown, Sizes(st, qs)), ToSet(ids))
<1>1. DecodedBatch(st, qs) =
        IF ~ready THEN {failed}
        ELSE {failed : f \in Failures} \cup {[stage |-> x, answers |-> answered] : x \in after}
  BY Zenon DEF DecodedBatch, Ids, Of, Sizes
<1>2. ready => \A s \in ToSet(ids) : Keeps(st, s)
  OBVIOUS
<1>5. ready => answered = told /\ after = left
  <2>1. ready => grown = Grown(st, qs)
    BY <1>2, GrownPadded, Zenon
  <2> HIDE DEF ready, grown
  <2> QED BY <2>1, Zenon DEF Told
<1> HIDE DEF ready, failed, told, left, grown, answered, after
<1>3. CASE ~ready
  <2>1. d = failed
    BY <1>1, <1>3
  <2> QED BY <2>1 DEF failed
<1>4. CASE ready
  <2>1. d = failed \/ \E x \in left : d = [stage |-> x, answers |-> told]
    BY <1>1, <1>4, <1>5
  <2>2. ASSUME NEW x \in left, d = [stage |-> x, answers |-> told]
        PROVE  d.stage \in left /\ d.answers = told
    BY <2>2
  <2> QED BY <1>2, <1>4, <2>1, <2>2, Zenon DEF failed, left, told
<1> QED BY <1>3, <1>4

LEMMA DecodedSound ==
    ASSUME NEW B, Allowed(B), NEW st, Sound(B, st), NEW qs \in Seq(Payload),
           \A k \in DOMAIN qs : Asked(B, qs[k]) /\ Len(qs[k].new) = 1,
           \A j, k \in DOMAIN qs : qs[j].session = qs[k].session => j = k,
           NEW d \in DecodedBatch(st, qs)
    PROVE  /\ Sound(B, d.stage)
           /\ \A s : (\A k \in DOMAIN qs : qs[k].session # s) => Untouched(st, d.stage, s)
           /\ \A k \in DOMAIN qs :
                 /\ d.answers[k] \in Answers(B)
                 /\ AnsweredTogether(st, d.stage, qs[k], d.answers[k])
<1> DEFINE ids == Ids(qs)
           S == ToSet(ids)
           grown == Grown(st, qs)
           sizes == Sizes(st, qs)
<1>1. Len(qs) \in Nat /\ DOMAIN qs = 1 .. Len(qs)
  OBVIOUS
<1>2. DOMAIN ids = DOMAIN qs /\ \A k \in DOMAIN qs : ids[k] = qs[k].session /\ ids[k] \in S
  BY DEF ToSet, Ids
<1>3. \A k \in DOMAIN qs : qs[k].session \in Sessions
  <2>1. \A p \in Payload : p.session \in Sessions
    BY DEF Payload
  <2> QED BY <2>1, Zenon DEF Asked
<1>12. \/ d = [stage |-> Without(st, S), answers |-> [k \in DOMAIN qs |-> Error]]
       \/ /\ \A s \in S : Keeps(st, s)
          /\ d.stage \in Evicted(With(st, ids, grown, sizes), S)
          /\ d.answers = Told(st, qs)
  <2>1. Kept(B, st) /\ \A k \in DOMAIN qs : Len(qs[k].new) = 1
    BY Zenon DEF Sound
  <2> QED BY <2>1, DecodedCases, Zenon
<1>4. \A s \in S : \E k \in DOMAIN qs : s = ids[k]
  BY DEF ToSet, Ids
<1>5. \A k \in DOMAIN qs : Of(qs, ids[k]) = qs[k]
  <2>1. ASSUME NEW k \in DOMAIN qs PROVE Of(qs, ids[k]) = qs[k]
    <3> DEFINE i == CHOOSE j \in DOMAIN qs : ids[j] = ids[k]
    <3>1. i \in DOMAIN qs /\ ids[i] = ids[k]
      BY Zenon
    <3> HIDE DEF i
    <3>2. i = k
      BY <1>2, <3>1
    <3> QED BY <3>2 DEF i, Of
  <2> QED BY <2>1
<1> HIDE DEF ids
<1>6. Enumerates(ids, S) /\ S \subseteq Sessions
  <2>1. S \subseteq Sessions
    BY <1>2, <1>3, <1>4
  <2>2. ids \in Seq(S)
    <3>1. ids = [k \in 1 .. Len(qs) |-> ids[k]]
      BY <1>1 DEF ids, Ids
    <3> HIDE DEF S
    <3> QED BY <1>1, <1>2, <3>1
  <2>3. IsInjective(ids)
    BY <1>2, Zenon DEF IsInjective
  <2> QED BY <2>1, <2>2, <2>3, Zenon DEF Enumerates
<1>7. IsFiniteSet(S)
  BY <1>6, LengthOf, Zenon
<1>8. Kept(B, st) /\ Len(st.order) \in Nat /\ Len(st.order) <= MaxSessions
  BY OrdersOf DEF Sound
<1>9. \A s : (\A k \in DOMAIN qs : qs[k].session # s) => s \notin S
  BY <1>2, <1>4
<1> HIDE DEF S
<1>10. CASE d = [stage |-> Without(st, S), answers |-> [k \in DOMAIN qs |-> Error]]
  <2>1. d.stage = Without(st, S) /\ \A k \in DOMAIN qs : d.answers[k] = Error
    BY <1>10
  <2>2. Sound(B, d.stage) /\ \A s : Untouched(st, d.stage, s)
    <3>1. /\ Kept(B, Without(st, S))
          /\ Len(Without(st, S).order) = Cardinality(ToSet(st.order) \ S)
          /\ \A s : Untouched(st, Without(st, S), s)
      BY <1>8, WithoutKept
    <3>2. Cardinality(ToSet(st.order) \ S) \in Nat
          /\ Cardinality(ToSet(st.order) \ S) <= Cardinality(ToSet(st.order))
      <4>1. ToSet(st.order) \ S \in SUBSET ToSet(st.order) /\ IsFiniteSet(ToSet(st.order))
        BY <1>8, OrdersOf
      <4> QED BY <4>1, FS_Subset, FS_CardinalityType
    <3> DEFINE x == Cardinality(ToSet(st.order) \ S)
               y == Len(st.order)
               z == Len(d.stage.order)
    <3>3. z = x /\ x <= y /\ x \in Nat /\ y \in Nat /\ y <= MaxSessions
      BY <1>8, <2>1, <3>1, <3>2, OrdersOf
    <3> HIDE DEF x, y, z
    <3>4. z <= MaxSessions
      BY <3>3
    <3> QED BY <2>1, <3>1, <3>4, Zenon DEF Sound, z
  <2>3. Error \in Answers(B) /\ Error.kind # "hidden_states"
    BY OtherAnswers
  <2> QED BY <2>1, <2>2, <2>3, Zenon DEF AnsweredTogether
<1>11. CASE /\ \A s \in S : Keeps(st, s)
            /\ d.stage \in Evicted(With(st, ids, grown, sizes), S)
            /\ d.answers = Told(st, qs)
  <2>1. ASSUME NEW k \in DOMAIN qs
        PROVE  /\ grown[ids[k]] = DecodeBits(st, qs[k])
               /\ sizes[ids[k]] = st.length[qs[k].session] + 1
               /\ Keeps(st, qs[k].session)
    <3>1. ids[k] = qs[k].session /\ ids[k] \in S /\ Of(qs, ids[k]) = qs[k]
      BY <1>2, <1>5
    <3>2. grown[ids[k]] = Extended(st.cache[ids[k]], st.length[ids[k]], Of(qs, ids[k]).new)
      BY <3>1 DEF Grown, S, ids
    <3>3. sizes[ids[k]] = st.length[ids[k]] + 1
      BY <3>1 DEF Sizes, S, ids
    <3> HIDE DEF grown, sizes
    <3> QED BY <1>11, <3>1, <3>2, <3>3 DEF DecodeBits
  <2>2. ASSUME NEW k \in DOMAIN qs
        PROVE  /\ DecodeBits(st, qs[k]) \in Seq(B)
               /\ Fits(B, DecodeBits(st, qs[k]), st.length[qs[k].session] + 1)
               /\ st.length[qs[k].session] + 1 \in Nat \ {0}
               /\ <<Last(DecodeBits(st, qs[k]))>> \in Seq(B)
    BY <1>8, <2>1, DecodeBitsAre
  <2>3. ASSUME NEW s \in S
        PROVE  grown[s] \in Seq(B) /\ sizes[s] \in Nat \ {0} /\ Fits(B, grown[s], sizes[s])
    <3>1. PICK k \in DOMAIN qs : s = ids[k]
      BY <1>4
    <3> HIDE DEF grown, sizes
    <3> QED BY <2>1, <2>2, <3>1, Zenon
  <2>4. grown = [s \in S |-> grown[s]] /\ sizes = [s \in S |-> sizes[s]]
    BY DEF Grown, Sizes, S, ids
  <2> DEFINE new == With(st, ids, grown, sizes)
  <2> HIDE DEF grown, sizes
  <2>5. Fresh(B, ids, grown, sizes)
    <3>1. grown \in [S -> Seq(B)] /\ sizes \in [S -> Nat \ {0}]
      BY <2>3, <2>4
    <3> QED BY <1>6, <2>3, <3>1, Zenon DEF Fresh, S
  <2>6. new = With(st, ids, grown, sizes)
    OBVIOUS
  <2> HIDE DEF new
  <2>7. /\ Kept(B, new)
        /\ \A s : s \notin S => Untouched(st, new, s)
        /\ \A s \in S : new.length[s] = sizes[s] /\ new.cache[s] = grown[s]
    BY <1>8, <2>5, <2>6, WithKept DEF S
  <2>8. Sound(B, d.stage) /\ \A s : Untouched(new, d.stage, s)
    <3>1. d.stage \in Evicted(new, S)
      BY <1>11 DEF new
    <3> QED BY <1>7, <2>7, <3>1, EvictedSound
  <2>9. \A s : s \notin S => Untouched(st, d.stage, s)
    BY <2>7, <2>8, UntouchedTwice, Zenon
  <2>10. ASSUME NEW k \in DOMAIN qs
         PROVE  /\ d.answers[k] \in Answers(B)
                /\ AnsweredTogether(st, d.stage, qs[k], d.answers[k])
    <3> DEFINE x == <<Last(DecodeBits(st, qs[k]))>>
    <3>1. d.answers[k] = Hidden(x)
      <4>1. d.answers[k] = Hidden(<<Last(grown[ids[k]])>>)
        BY <1>11 DEF Told, grown, ids
      <4> QED BY <2>1, <4>1
    <3>2. x \in Seq(B)
      BY <2>2
    <3>3. d.answers[k] \in Answers(B)
      <4> HIDE DEF x
      <4> QED BY <3>1, <3>2 DEF Answers, Hidden
    <3>4. Keeps(d.stage, qs[k].session) =>
              /\ d.stage.length[qs[k].session] = st.length[qs[k].session] + 1
              /\ d.stage.cache[qs[k].session] = DecodeBits(st, qs[k])
      <4>1. ids[k] \in S /\ ids[k] = qs[k].session
        BY <1>2
      <4>2. /\ new.length[ids[k]] = st.length[qs[k].session] + 1
            /\ new.cache[ids[k]] = DecodeBits(st, qs[k])
        BY <2>1, <2>7, <4>1, Zenon
      <4>3. Untouched(new, d.stage, ids[k])
        BY <2>8, Zenon
      <4> QED BY <4>1, <4>2, <4>3 DEF Untouched
    <3> QED BY <2>1, <3>1, <3>3, <3>4, Zenon DEF AnsweredTogether
  <2> QED BY <1>9, <2>8, <2>9, <2>10, Zenon
<1> QED BY <1>10, <1>11, <1>12

\* A decode step that shared a forward was answered as it would be alone.
LEMMA TogetherIsAlone ==
    ASSUME NEW B, Allowed(B), NEW st, Kept(B, st), NEW p, Asked(B, p), Batchable(st, p),
           NEW now, Untouched(st, now, p.session),
           NEW after, NEW answer, AnsweredTogether(now, after, p, answer)
    PROVE  AnsweredAs(st, after, p, answer)
<1> DEFINE id == p.session
           c == st.cache[id]
           g == DecodeBits(st, p)
<1>1. SUFFICES ASSUME answer.kind = "hidden_states"
               PROVE  Computed(st, p, answer) /\ GoesOn(st, after, p)
  BY Zenon DEF AnsweredAs
<1>2. /\ Keeps(now, id) /\ now.cache[id] = c /\ now.length[id] = st.length[id]
      /\ answer = Hidden(<<Last(DecodeBits(now, p))>>)
      /\ Keeps(after, id) => /\ after.length[id] = now.length[id] + 1
                            /\ after.cache[id] = DecodeBits(now, p)
  BY <1>1, Zenon DEF AnsweredTogether, Untouched
<1>3. DecodeBits(now, p) = g
  BY <1>2, Zenon DEF DecodeBits
<1>4. /\ ~p.close /\ Keeps(st, id) /\ p.start # 0
      /\ st.length[id] = p.start /\ Len(p.new) = 1
  BY Zenon DEF Batchable
<1>5. p.start \in Nat /\ p.new # <<>>
  <2>1. p.start \in Nat
    BY DEF Asked, Payload
  <2>2. Len(<<>>) # 1
    OBVIOUS
  <2>3. p.new # <<>>
    BY <1>4, <2>2, Zenon
  <2> QED BY <2>1, <2>3, Zenon
<1>6. g \in Seq(B) /\ Len(g) = Len(c) + 1 /\ Len(c) \in Nat
  BY <1>4, DecodeBitsAre
<1>7. Positioned(st, p).there /\ Positioned(st, p).cache = c
  <2>1. ~(p.start < st.length[id])
    BY <1>4, <1>5
  <2>2. Positioned(st, p) = [there |-> st.length[id] = p.start, cache |-> c]
    BY <1>4, <2>1, Zenon DEF Positioned
  <2> DEFINE there == st.length[id] = p.start
  <2>3. Positioned(st, p) = [there |-> there, cache |-> c]
    BY <2>2, Zenon
  <2>4. there
    BY <1>4, Zenon
  <2> DEFINE at == Positioned(st, p)
  <2> HIDE DEF there, c, at
  <2>5. at.there = there /\ at.cache = c
    <3>1. at = [there |-> there, cache |-> c]
      BY <2>3, Zenon DEF at
    <3>2. at.cache = c
      BY <3>1, Zenon
    <3>3. at.there = there
      BY <3>1, Zenon
    <3> QED BY <3>2, <3>3, Zenon
  <2> QED BY <2>4, <2>5, Zenon DEF at
<1>8. Output(st, p) = SubSeq(g, Len(c) + 1, Len(g))
  BY <1>4, <1>7, Zenon DEF Output, DecodeBits
<1> HIDE DEF c, g
<1>9. SubSeq(g, Len(c) + 1, Len(g)) = <<Last(g)>>
  <2> DEFINE n == Len(c)
             rest == SubSeq(g, n + 1, n + 1)
  <2> HIDE DEF n
  <2>1. n \in Nat /\ g \in Seq(B) /\ Len(g) = n + 1
    BY <1>6 DEF n
  <2>2. rest \in Seq(B) /\ Len(rest) = 1 /\ rest[1] = g[n + 1]
    BY <2>1
  <2> DEFINE x == g[n + 1]
             alone == <<x>>
  <2>3. rest = alone
    <3>1. x \in B
      BY <2>1
    <3> HIDE DEF x
    <3>2. alone \in Seq(B) /\ Len(alone) = 1 /\ alone[1] = x
      BY <3>1
    <3>3. rest[1] = x
      BY <2>2, Zenon DEF x
    <3> HIDE DEF rest, alone
    <3>4. \A i \in 1 .. Len(rest) : rest[i] = alone[i]
      <4>1. \A i \in 1 .. 1 : i = 1
        OBVIOUS
      <4> QED BY <2>2, <3>2, <3>3, <4>1, Zenon
    <3> QED BY <2>2, <3>2, <3>4, SeqEqual, Zenon
  <2> HIDE DEF rest
  <2>4. Last(g) = g[n + 1]
    BY <2>1 DEF Last
  <2>5. SubSeq(g, n + 1, Len(g)) = rest
    BY <2>1 DEF rest
  <2> QED BY <2>3, <2>4, <2>5 DEF n
<1>10. Computed(st, p, answer)
  BY <1>2, <1>3, <1>4, <1>5, <1>7, <1>8, <1>9, Zenon DEF Computed
<1>11. now.length[id] + 1 = p.start + Len(p.new)
  BY <1>2, <1>4
<1>12. g = Extended(Positioned(st, p).cache, p.start, p.new)
  BY <1>4, <1>7, Zenon DEF g, DecodeBits, c
<1> QED BY <1>2, <1>3, <1>10, <1>11, <1>12, Zenon DEF GoesOn

\* The line of the picked requests has each of them once.
LEMMA LineIs ==
    ASSUME NEW ps, Len(ps) \in Nat, NEW picked, picked \subseteq 1 .. Len(ps)
    PROVE  Enumerates(Line(ps, picked), picked)
<1> DEFINE n == Len(ps)
           order == [i \in 1 .. n |-> i]
<1>1. order \in Seq(Nat) /\ IsInjective(order) /\ ToSet(order) = 1 .. n
  BY DEF IsInjective, ToSet
<1> HIDE DEF order
<1>2. Enumerates(InOrder(order, picked), picked)
  BY <1>1, InOrderIs
<1> QED BY <1>2 DEF Line, order

\* A batch leaves the stage as it should be, and answers each request, that
\* is the only one of its session, as it would be answered alone.
LEMMA BatchSound ==
    ASSUME NEW B, Allowed(B), B = {TRUE} => "output" \notin Failures,
           NEW st, Sound(B, st), NEW ps \in Seq(Payload), \A i \in DOMAIN ps : Asked(B, ps[i]),
           NEW o \in HandledBatch(st, ps)
    PROVE  /\ Sound(B, o.stage)
           /\ o.answers \in Seq(Answers(B))
           /\ Len(o.answers) = Len(ps)
           /\ \A j \in Lone(ps) : AnsweredAs(st, o.stage, ps[j], o.answers[j])
<1> DEFINE n == Len(ps)
           picked == Batch(st, ps)
           alone == Runs(st, ps, picked)[Len(ps)]
           line == Line(ps, picked)
           qs == InLine(ps, picked)
<1>1. n \in Nat /\ DOMAIN ps = 1 .. n
  OBVIOUS
<1>2. picked \subseteq Lone(ps) /\ \A i \in picked : Batchable(st, ps[i])
  BY DEF Batch, Lone
<1>3. picked \subseteq 1 .. n
  BY <1>1, <1>2 DEF Lone
<1>4. \A r \in alone : Ran(B, st, ps, picked, r, n)
  BY RunsAre
<1> HIDE DEF picked, n
<1>5. CASE picked = {} /\ o \in alone
  <2>1. Ran(B, st, ps, picked, o, n)
    BY <1>4, <1>5
  <2>2. \A j \in Lone(ps) : j \in (1 .. n) \ picked
    BY <1>1, <1>5 DEF Lone
  <2> QED BY <2>1, <2>2, Zenon DEF Ran, n
<1>6. ASSUME NEW r \in alone, NEW d \in DecodedBatch(r.stage, qs), o = Merged(ps, picked, r, d)
      PROVE  /\ Sound(B, o.stage)
             /\ o.answers \in Seq(Answers(B))
             /\ Len(o.answers) = n
             /\ \A j \in Lone(ps) : AnsweredAs(st, o.stage, ps[j], o.answers[j])
  <2> HIDE DEF alone
  <2>1. Ran(B, st, ps, picked, r, n)
    BY <1>4, <1>6
  <2>2. /\ line \in Seq(picked) /\ IsInjective(line) /\ ToSet(line) = picked
        /\ DOMAIN line = 1 .. Len(line) /\ Len(line) \in Nat
    <3>1. Enumerates(line, picked)
      BY <1>1, <1>3, LineIs DEF n
    <3> HIDE DEF line
    <3>2. line \in Seq(picked) /\ IsInjective(line) /\ ToSet(line) = picked
      BY <3>1, Zenon DEF Enumerates
    <3> QED BY <3>2
  <2> HIDE DEF line
  <2>3. /\ DOMAIN qs = DOMAIN line
        /\ \A k \in DOMAIN qs : qs[k] = ps[line[k]] /\ line[k] \in picked
    <3>1. \A k \in DOMAIN line : line[k] \in picked
      BY <2>2
    <3>2. qs = [k \in DOMAIN line |-> ps[line[k]]]
      BY Zenon DEF InLine, line
    <3> HIDE DEF qs
    <3> QED BY <3>1, <3>2
  <2>4. qs \in Seq(Payload)
    <3>0. \A i \in 1 .. n : ps[i] \in Payload
      BY <1>1, Zenon DEF Asked
    <3>1. \A k \in DOMAIN line : ps[line[k]] \in Payload
      BY <1>3, <2>3, <3>0, Zenon
    <3>2. qs = [k \in 1 .. Len(line) |-> ps[line[k]]]
      BY <2>2, Zenon DEF InLine, line
    <3> HIDE DEF qs
    <3> QED BY <2>2, <3>1, <3>2
  <2> HIDE DEF qs
  <2>5. \A k \in DOMAIN qs : Asked(B, qs[k]) /\ Len(qs[k].new) = 1
    <3>1. \A i \in picked : Asked(B, ps[i]) /\ Len(ps[i].new) = 1
      BY <1>1, <1>2, <1>3, Zenon DEF Batchable
    <3> QED BY <2>3, <3>1, Zenon
  <2>6. ASSUME NEW j \in DOMAIN qs, NEW k \in DOMAIN qs, qs[j].session = qs[k].session
        PROVE  j = k
    <3>1. /\ ps[line[j]].session = ps[line[k]].session
          /\ line[j] \in DOMAIN ps /\ line[k] \in Lone(ps)
      BY <1>1, <1>2, <1>3, <2>3, <2>6, Zenon
    <3>2. line[j] = line[k]
      BY <3>1, Zenon DEF Lone
    <3> QED BY <2>2, <2>3, <3>2, Zenon DEF IsInjective
  <2>7. Sound(B, r.stage)
    BY <2>1, Zenon DEF Ran
  <2>8. /\ Sound(B, d.stage)
        /\ \A s : (\A k \in DOMAIN qs : qs[k].session # s) => Untouched(r.stage, d.stage, s)
        /\ \A k \in DOMAIN qs :
              /\ d.answers[k] \in Answers(B)
              /\ AnsweredTogether(r.stage, d.stage, qs[k], d.answers[k])
    <3> DEFINE now == r.stage
    <3>1. Sound(B, now) /\ d \in DecodedBatch(now, qs)
      BY <1>6, <2>7
    <3> HIDE DEF now
    <3>2. /\ Sound(B, d.stage)
          /\ \A s : (\A k \in DOMAIN qs : qs[k].session # s) => Untouched(now, d.stage, s)
          /\ \A k \in DOMAIN qs :
                /\ d.answers[k] \in Answers(B)
                /\ AnsweredTogether(now, d.stage, qs[k], d.answers[k])
      BY <2>4, <2>5, <2>6, <3>1, DecodedSound
    <3> QED BY <3>2 DEF now
  <2> DEFINE place(i) == CHOOSE k \in DOMAIN line : line[k] = i
             told == [i \in 1 .. n |-> IF i \in picked THEN d.answers[place(i)] ELSE r.answers[i]]
  <2>9. o.stage = d.stage /\ o.answers = told
    <3>1. o = [stage |-> d.stage, answers |-> told]
      BY <1>6, Zenon DEF Merged, line, n
    <3> HIDE DEF told
    <3> QED BY <3>1
  <2>10. ASSUME NEW i \in picked
         PROVE  place(i) \in DOMAIN qs /\ qs[place(i)] = ps[i]
    <3>1. \E k \in DOMAIN line : line[k] = i
      BY <2>2 DEF ToSet
    <3>2. place(i) \in DOMAIN line /\ line[place(i)] = i
      BY <3>1, Zenon
    <3> HIDE DEF place
    <3> QED BY <2>3, <3>2
  <2>11. /\ r.answers \in Seq(Answers(B)) /\ Len(r.answers) = n
    BY <2>1, Zenon DEF Ran
  <2>12. \A i \in 1 .. n : told[i] = IF i \in picked THEN d.answers[place(i)] ELSE r.answers[i]
    BY Zenon
  <2> HIDE DEF place
  <2>13. \A i \in 1 .. n : told[i] \in Answers(B)
    <3> DEFINE A == Answers(B)
    <3> HIDE DEF A
    <3>1. \A i \in 1 .. n : r.answers[i] \in A
      BY <2>11 DEF A
    <3> QED BY <2>8, <2>10, <2>12, <3>1, Zenon DEF A
  <2>14. told \in Seq(Answers(B)) /\ Len(told) = n
    <3>1. told = [i \in 1 .. n |-> told[i]]
      OBVIOUS
    <3> HIDE DEF told
    <3> QED BY <1>1, <2>13, <3>1
  <2> HIDE DEF told
  <2>15. ASSUME NEW j \in Lone(ps) PROVE AnsweredAs(st, o.stage, ps[j], o.answers[j])
    <3>1. j \in 1 .. n
      BY <1>1 DEF Lone
    <3>2. CASE j \in picked
      <4>1. Untouched(st, r.stage, ps[j].session)
        <5>1. j \notin (1 .. n) \ picked
          BY <3>2
        <5> QED BY <2>1, <5>1, Zenon DEF Ran
      <4>2. AnsweredTogether(r.stage, d.stage, ps[j], told[j])
        BY <2>8, <2>10, <2>12, <3>1, <3>2, Zenon
      <4>3. Asked(B, ps[j]) /\ Batchable(st, ps[j]) /\ Kept(B, st)
        BY <1>1, <1>2, <3>1, <3>2, Zenon DEF Sound
      <4>4. AnsweredAs(st, d.stage, ps[j], told[j])
        BY <4>1, <4>2, <4>3, TogetherIsAlone
      <4> QED BY <2>9, <4>4, Zenon
    <3>3. CASE j \notin picked
      <4>1. AnsweredAs(st, r.stage, ps[j], r.answers[j])
        <5>1. j \in (1 .. n) \ picked
          BY <3>1, <3>3
        <5> QED BY <2>1, <5>1, Zenon DEF Ran
      <4>2. \A k \in DOMAIN qs : qs[k].session # ps[j].session
        <5>1. SUFFICES ASSUME NEW k \in DOMAIN qs, ps[line[k]].session = ps[j].session
                       PROVE  FALSE
          BY <2>3, Zenon
        <5>2. line[k] \in picked /\ line[k] \in DOMAIN ps
          BY <1>1, <1>3, <2>3, Zenon
        <5>3. line[k] = j
          BY <5>1, <5>2, Zenon DEF Lone
        <5> QED BY <3>3, <5>2, <5>3, Zenon
      <4>3. Untouched(r.stage, d.stage, ps[j].session)
        BY <2>8, <4>2, Zenon
      <4>4. told[j] = r.answers[j]
        BY <2>12, <3>1, <3>3
      <4> QED BY <2>9, <4>1, <4>3, <4>4, StillAnswered, Zenon
    <3> QED BY <3>2, <3>3
  <2> QED BY <2>8, <2>9, <2>14, <2>15, Zenon
<1> QED
  <2>1. \/ picked = {} /\ o \in alone
        \/ \E r \in alone : \E d \in DecodedBatch(r.stage, qs) : o = Merged(ps, picked, r, d)
    BY HandledBatchCases, Zenon DEF picked
  <2> QED BY <1>5, <1>6, <2>1, Zenon DEF n
-----------------------------------------------------------------------------
(* The stage and its clients *)

\* A careful client's requests hold sound tokens, and so do the batches of
\* them that are looked at.
LEMMA PayloadAsked ==
    ASSUME NEW p \in SoundPayload
    PROVE  Asked({TRUE}, p)
<1>1. p \in [session : Sessions, start : 0 .. MaxLength, rewind : BOOLEAN, close : BOOLEAN,
             new : {[i \in 1 .. n |-> TRUE] : n \in 0 .. MaxNew}]
  BY Zenon DEF SoundPayload
<1>2. \A n \in 0 .. MaxNew : [i \in 1 .. n |-> TRUE] \in Seq({TRUE})
  <2>1. \A n \in 0 .. MaxNew : n \in Nat
    OBVIOUS
  <2>2. ASSUME NEW n \in Nat PROVE [i \in 1 .. n |-> TRUE] \in Seq({TRUE})
    <3>1. ASSUME NEW T, NEW t \in T PROVE [i \in 1 .. n |-> t] \in Seq(T)
      OBVIOUS
    <3>2. TRUE \in {TRUE}
      OBVIOUS
    <3> QED BY <3>1, <3>2, Zenon
  <2> QED BY <2>1, <2>2, Zenon
<1> DEFINE news == {[i \in 1 .. n |-> TRUE] : n \in 0 .. MaxNew}
<1>3. news \subseteq Seq({TRUE})
  BY <1>2, Zenon
<1>4. 0 .. MaxLength \subseteq Nat /\ Seq({TRUE}) \subseteq Bits
  <2>1. {TRUE} \subseteq BOOLEAN
    OBVIOUS
  <2>2. ASSUME NEW S, NEW T, S \subseteq T PROVE Seq(S) \subseteq Seq(T)
    BY <2>2
  <2>3. Seq({TRUE}) \subseteq Bits
    BY <2>1, <2>2, Zenon DEF Bits
  <2>4. 0 .. MaxLength \subseteq Nat
    OBVIOUS
  <2> QED BY <2>3, <2>4
<1> HIDE DEF news
<1>5. p \in [session : Sessions, start : 0 .. MaxLength, rewind : BOOLEAN, close : BOOLEAN,
             new : news]
  BY <1>1 DEF news
<1>6. p.new \in Seq({TRUE})
  BY <1>3, <1>5
<1>7. p \in Payload
  BY <1>3, <1>4, <1>5 DEF Payload
<1> QED BY <1>6, <1>7 DEF Asked

LEMMA PolledAsked ==
    ASSUME NEW ps \in Polled
    PROVE  ps \in Seq(Payload) /\ \A i \in DOMAIN ps : Asked({TRUE}, ps[i])
<1> DEFINE decode == {p \in SoundPayload : Batchable(stage, p)}
           pairs == {<<p, q>> : p, q \in decode}
           threes == {InsertAt(d, i, p) : d \in pairs, i \in 1 .. 3, p \in SoundPayload}
<1>1. ps \in pairs \cup threes
  <2> DEFINE all == pairs \cup threes
  <2>1. Polled = {qs \in all : Len(qs) <= MaxPolled /\ Batch(stage, qs) # {}}
    BY SMT DEF Polled
  <2> HIDE DEF all
  <2>2. ps \in all
    BY <2>1
  <2> QED BY <2>2 DEF all
<1>2. ASSUME NEW d \in pairs PROVE d \in Seq(SoundPayload) /\ Len(d) = 2
  <2>1. PICK p \in decode, q \in decode : d = <<p, q>>
    OBVIOUS
  <2>2. p \in SoundPayload /\ q \in SoundPayload
    OBVIOUS
  <2>3. \A S : p \in S /\ q \in S => <<p, q>> \in Seq(S) /\ Len(<<p, q>>) = 2
    OBVIOUS
  <2> QED BY <2>1, <2>2, <2>3
<1> HIDE DEF pairs
<1>3. ASSUME NEW d \in pairs, NEW i \in 1 .. 3, NEW p \in SoundPayload
      PROVE  InsertAt(d, i, p) \in Seq(SoundPayload)
  <2>1. d \in Seq(SoundPayload) /\ Len(d) = 2
    BY <1>2
  <2> DEFINE S == SoundPayload
  <2> HIDE DEF S
  <2>2. d \in Seq(S) /\ Len(d) = 2 /\ p \in S
    BY <2>1 DEF S
  <2>3. SubSeq(d, 1, i - 1) \in Seq(S) /\ SubSeq(d, i, Len(d)) \in Seq(S)
    <3>1. i \in Int /\ i - 1 \in Int /\ 1 \in Int /\ Len(d) \in Int
      BY <2>2
    <3>2. (\A k \in 1 .. i - 1 : d[k] \in S) /\ (\A k \in i .. Len(d) : d[k] \in S)
      <4>1. (\A k \in 1 .. i - 1 : k \in 1 .. 2) /\ (\A k \in i .. Len(d) : k \in 1 .. 2)
        BY <2>2
      <4>2. \A k \in 1 .. 2 : d[k] \in S
        <5>1. ASSUME NEW T, NEW q \in Seq(T), Len(q) = 2, NEW k \in 1 .. 2 PROVE q[k] \in T
          BY <5>1
        <5> QED BY <2>2, <5>1, Zenon
      <4> QED BY <4>1, <4>2, Zenon
    <3>3. SubSeq(d, 1, i - 1) \in Seq(S)
      BY <3>1, <3>2, SubSeqProperties, Zenon
    <3>4. SubSeq(d, i, Len(d)) \in Seq(S)
      BY <3>1, <3>2, SubSeqProperties, Zenon
    <3> QED BY <3>3, <3>4
  <2> QED BY <2>2, <2>3 DEF InsertAt, S
<1>4. ps \in Seq(SoundPayload)
  <2>1. CASE ps \in threes
    <3>1. PICK d \in pairs, i \in 1 .. 3, p \in SoundPayload : ps = InsertAt(d, i, p)
      BY <2>1
    <3> QED BY <1>3, <3>1, Zenon
  <2> HIDE DEF threes
  <2>2. ps \in pairs \/ ps \in threes
    BY <1>1
  <2> QED BY <1>2, <2>1, <2>2, Zenon
<1>5. \A p \in SoundPayload : p \in Payload /\ Asked({TRUE}, p)
  BY PayloadAsked, Zenon DEF Asked
<1> DEFINE S == SoundPayload
           A == Payload
<1> HIDE DEF S, A
<1>6. ps \in Seq(S) /\ S \subseteq A
  BY <1>4, <1>5, Zenon DEF S, A
<1>7. ps \in Seq(A) /\ \A i \in DOMAIN ps : ps[i] \in S
  BY <1>6
<1> QED BY <1>5, <1>7, Zenon DEF S, A

LEMMA AskedWith ==
    ASSUME NEW B, Allowed(B), NEW p, Asked({TRUE}, p)
    PROVE  Asked(B, p)
<1>1. CASE B = BOOLEAN
  <2>1. p \in Payload /\ p.new \in Seq(BOOLEAN)
    BY DEF Asked, Payload, Bits
  <2> QED BY <1>1, <2>1, Zenon DEF Asked
<1>2. CASE B = {TRUE}
  BY <1>2, Zenon
<1> QED BY <1>1, <1>2, Zenon DEF Allowed

\* The stage and what it last answered, with bits of B.
Good(B, st, req, ans) ==
    /\ Sound(B, st)
    /\ req \in Seq(Payload)
    /\ ans \in Seq(Answers(B))
    /\ Len(ans) = Len(req)

LEMMA NothingYet ==
    ASSUME NEW B
    PROVE  Good(B, Empty, <<>>, <<>>)
<1> DEFINE A == Answers(B)
<1>1. Sound(B, Empty)
  BY EmptySound, Zenon
<1> HIDE DEF A
<1>2. <<>> \in Seq(A) /\ <<>> \in Seq(Payload)
  OBVIOUS
<1> QED BY <1>1, <1>2, Zenon DEF Good, A

LEMMA GoodSteps ==
    ASSUME NEW B, Allowed(B), B = {TRUE} => "output" \notin Failures,
           Sound(B, stage), Next
    PROVE  Good(B, stage', asked', answers')
<1>1. ASSUME NEW p \in SoundPayload, Handle(p) PROVE Good(B, stage', asked', answers')
  <2>1. p \in Payload /\ p.new \in Seq(B)
    BY AskedWith, PayloadAsked, Zenon DEF Asked
  <2>2. PICK o \in Handled(stage, p) : stage' = o.stage /\ answers' = <<o.answer>>
    BY <1>1, Zenon DEF Handle
  <2>3. Sound(B, o.stage) /\ o.answer \in Answers(B)
    BY <2>1, HandledSound, Zenon
  <2>4. asked' = <<p>>
    BY <1>1, Zenon DEF Handle
  <2> DEFINE A == Answers(B)
             a == o.answer
  <2> HIDE DEF A, a
  <2>5. <<a>> \in Seq(A) /\ Len(<<a>>) = 1
    BY <2>3 DEF A, a
  <2>6. <<p>> \in Seq(Payload) /\ Len(<<p>>) = 1
    BY <2>1
  <2> QED BY <2>2, <2>3, <2>4, <2>5, <2>6, Zenon DEF Good, A, a
<1>2. ASSUME NEW ps \in Polled, HandleBatch(ps) PROVE Good(B, stage', asked', answers')
  <2>1. ps \in Seq(Payload) /\ \A i \in DOMAIN ps : Asked(B, ps[i])
    BY AskedWith, PolledAsked, Zenon
  <2>2. PICK o \in HandledBatch(stage, ps) : stage' = o.stage /\ answers' = o.answers
    BY <1>2, Zenon DEF HandleBatch
  <2>3. Sound(B, o.stage) /\ o.answers \in Seq(Answers(B)) /\ Len(o.answers) = Len(ps)
    <3>1. ASSUME NEW st, Sound(B, st), NEW q \in HandledBatch(st, ps)
          PROVE  /\ Sound(B, q.stage)
                 /\ q.answers \in Seq(Answers(B))
                 /\ Len(q.answers) = Len(ps)
                 /\ \A j \in Lone(ps) : AnsweredAs(st, q.stage, ps[j], q.answers[j])
      <4>1. Allowed(B) /\ (B = {TRUE} => "output" \notin Failures)
        OBVIOUS
      <4> QED BY ONLY <2>1, <3>1, <4>1, BatchSound, Zenon
    <3> QED BY <3>1, Zenon
  <2>4. asked' = ps
    BY <1>2, Zenon DEF HandleBatch
  <2> QED BY <2>1, <2>2, <2>3, <2>4, Zenon DEF Good
<1>3. ASSUME DropSessions PROVE Good(B, stage', asked', answers')
  BY <1>3, NothingYet, Zenon DEF DropSessions
<1> QED BY <1>1, <1>2, <1>3, Zenon DEF Next

\* What is kept is of its type, as are the answers.
LEMMA GoodTypes ==
    ASSUME Good(BOOLEAN, stage, asked, answers)
    PROVE  TypeOK
<1>1. /\ stage.order \in Seq(ToSet(stage.order)) /\ ToSet(stage.order) \subseteq Sessions
      /\ IsInjective(stage.order)
      /\ stage.cache \in [ToSet(stage.order) -> Bits]
      /\ stage.length \in [ToSet(stage.order) -> Nat \ {0}]
      /\ Len(stage.order) <= MaxSessions
  BY Zenon DEF Good, Sound, Kept, Enumerates, Bits
<1>2. stage.order \in Seq(Sessions)
  <2> DEFINE S == ToSet(stage.order)
             q == stage.order
  <2> HIDE DEF S, q
  <2>1. q \in Seq(S) /\ S \subseteq Sessions
    BY <1>1 DEF S, q
  <2>2. q \in Seq(Sessions)
    BY <2>1
  <2> QED BY <2>2 DEF q
<1>3. Answer = Answers(BOOLEAN)
  BY Zenon DEF Answer, Answers, Bits
<1> QED BY <1>1, <1>2, <1>3, Zenon DEF Good, TypeOK

\* The invariant of the stage, whatever fails.
Typed == Good(BOOLEAN, stage, asked, answers)

\* The stage keeps each session once, no more of them than it may, and gives
\* each request an answer: whatever fails, is repeated, rewound or batched.
THEOREM TypeCorrect == Spec => []TypeOK
<1>1. Init => Typed
  BY NothingYet, Zenon DEF Init, Typed
<1>2. ASSUME Typed, [Next]_vars PROVE Typed'
  <2>1. CASE Next
    <3>1. Good(BOOLEAN, stage', asked', answers')
      BY <1>2, <2>1, GoodSteps, Zenon DEF Typed, Good, Allowed
    <3> QED BY <3>1, Zenon DEF Typed
  <2>2. CASE UNCHANGED vars
    BY <1>2, <2>2, Zenon DEF Typed, vars
  <2> QED BY <1>2, <2>1, <2>2
<1>3. Typed => TypeOK
  BY GoodTypes, Zenon DEF Typed
<1> QED BY <1>1, <1>2, <1>3, PTL DEF Spec

\* The invariant of a stage whose lm_head does not fail: every entry it keeps
\* is sound, and its caches are as long as it notes.
Right == Good({TRUE}, stage, asked, answers)

\* A stage whose lm_head does not fail only answers what it computed on exactly
\* the tokens before it.
THEOREM AnswersAreSound ==
    ASSUME "output" \notin Failures
    PROVE  Spec => []SoundAnswers
<1>1. Init => Right
  BY NothingYet, Zenon DEF Init, Right
<1>2. ASSUME Right, [Next]_vars PROVE Right'
  <2>1. CASE Next
    <3>1. Good({TRUE}, stage', asked', answers')
      BY <1>2, <2>1, GoodSteps, Zenon DEF Right, Good, Allowed
    <3> QED BY <3>1, Zenon DEF Right
  <2>2. CASE UNCHANGED vars
    BY <1>2, <2>2, Zenon DEF Right, vars
  <2> QED BY <1>2, <2>1, <2>2
<1>3. Right => SoundAnswers
  <2>1. SUFFICES ASSUME answers \in Seq(Answers({TRUE})),
                        NEW i \in DOMAIN answers, NEW j \in DOMAIN answers[i].hidden
                 PROVE  answers[i].hidden[j]
    BY Zenon DEF Right, Good, SoundAnswers
  <2> DEFINE A == Answers({TRUE})
             T == {TRUE}
             h == answers[i].hidden
  <2>2. answers[i] \in A
    <3> HIDE DEF A
    <3> QED BY <2>1 DEF A
  <2>3. h \in Seq({TRUE})
    BY <2>2 DEF Answers
  <2> HIDE DEF h, T
  <2>4. h \in Seq(T) /\ j \in DOMAIN h
    BY <2>1, <2>3, Zenon DEF h, T
  <2>5. h[j] \in T
    BY <2>4
  <2> QED BY <2>5, Zenon DEF h, T
<1> QED BY <1>1, <1>2, <1>3, PTL DEF Spec

\* What was computed on the stage held is the answer the request gets alone.
LEMMA ComputedIsAlone ==
    ASSUME Sound(BOOLEAN, held), NEW p \in Payload, NEW answer,
           answer.kind = "hidden_states", AnsweredAs(held, stage, p, answer)
    PROVE  \E o \in Handled(held, p) :
             /\ o.answer = answer
             /\ Keeps(stage, p.session) /\ Keeps(o.stage, p.session) =>
                    /\ stage.length[p.session] = o.stage.length[p.session]
                    /\ stage.cache[p.session] = o.stage.cache[p.session]
<1>1. Computed(held, p, answer) /\ GoesOn(held, stage, p)
  BY Zenon DEF AnsweredAs
<1>2. PICK o \in Handled(held, p) : o.answer = answer /\ GoesOn(held, o.stage, p)
  BY <1>1, ComputedAlone
<1> QED BY <1>1, <1>2, Zenon DEF GoesOn

\* A batch of any requests, of any length, answers each that is the only one of
\* its session as the stage would have answered it alone: the others are run
\* before it or share its forward, fail, are evicted or close their sessions.
THEOREM BatchAnswersAlone ==
    ASSUME NEW st, Sound(BOOLEAN, st), NEW ps \in Seq(Payload),
           NEW o \in HandledBatch(st, ps), NEW i \in Lone(ps),
           o.answers[i].kind = "hidden_states"
    PROVE  \E alone \in Handled(st, ps[i]) :
             /\ alone.answer = o.answers[i]
             /\ Keeps(o.stage, ps[i].session) /\ Keeps(alone.stage, ps[i].session) =>
                    /\ o.stage.length[ps[i].session] = alone.stage.length[ps[i].session]
                    /\ o.stage.cache[ps[i].session] = alone.stage.cache[ps[i].session]
<1>1. Allowed(BOOLEAN) /\ BOOLEAN # {TRUE}
  <2>1. FALSE \in BOOLEAN /\ FALSE \notin {TRUE}
    OBVIOUS
  <2> QED BY <2>1, Zenon DEF Allowed
<1>2. \A p \in Payload : Asked(BOOLEAN, p)
  BY DEF Asked, Payload, Bits
<1>3. \A j \in DOMAIN ps : ps[j] \in Payload
  OBVIOUS
<1>4. i \in DOMAIN ps
  BY Zenon DEF Lone
<1>5. \A j \in DOMAIN ps : Asked(BOOLEAN, ps[j])
  BY <1>2, <1>3, Zenon
<1>6. Sound(BOOLEAN, st) /\ ps \in Seq(Payload) /\ o \in HandledBatch(st, ps) /\ i \in Lone(ps)
  OBVIOUS
<1>7. AnsweredAs(st, o.stage, ps[i], o.answers[i])
  BY ONLY <1>1, <1>5, <1>6, BatchSound, Zenon
<1>8. Computed(st, ps[i], o.answers[i]) /\ GoesOn(st, o.stage, ps[i])
  BY <1>7, Zenon DEF AnsweredAs
<1>9. ps[i] \in Payload
  BY <1>3, <1>4
<1>10. PICK alone \in Handled(st, ps[i]) :
         alone.answer = o.answers[i] /\ GoesOn(st, alone.stage, ps[i])
  <2> DEFINE p == ps[i]
             answer == o.answers[i]
  <2>1. Sound(BOOLEAN, st) /\ p \in Payload /\ Computed(st, p, answer)
    BY <1>6, <1>8, <1>9, Zenon
  <2> HIDE DEF p, answer
  <2>2. \E alone \in Handled(st, p) :
          alone.answer = answer /\ GoesOn(st, alone.stage, p)
    BY ONLY <2>1, ComputedAlone
  <2> QED BY <2>2, Zenon DEF p, answer
<1> QED BY <1>8, <1>10, Zenon DEF GoesOn

\* Every request of the last step that was the only one of its session was
\* answered as the stage before that step would have.
Alone ==
    /\ Sound(BOOLEAN, stage) /\ Sound(BOOLEAN, held)
    /\ asked \in Seq(Payload)
    /\ \A i \in Lone(asked) : AnsweredAs(held, stage, asked[i], answers[i])

\* A request that shares a step with others gets the answer it would get alone,
\* and its session goes on from the same cache: padding the caches of a batch to
\* the longest, masking and cutting them back leave nothing of the others in it.
THEOREM SharedAsAlone == Spec => []AnsweredAlone
<1> DEFINE Lonely(req, was, now, ans) ==
        \A i \in Lone(req) : AnsweredAs(was, now, req[i], ans[i])
<1>0. Allowed(BOOLEAN) /\ BOOLEAN # {TRUE}
  <2>1. FALSE \in BOOLEAN /\ FALSE \notin {TRUE}
    OBVIOUS
  <2> QED BY <2>1, Zenon DEF Allowed
<1>1. Sound(BOOLEAN, Empty) /\ \A was, now, ans : Lonely(<<>>, was, now, ans)
  <2>1. DOMAIN <<>> = {}
    OBVIOUS
  <2> QED BY <2>1, EmptySound, Zenon DEF Lone
<1>2. <<>> \in Seq(Payload)
  OBVIOUS
<1> HIDE DEF Lonely
<1>3. Init => Alone
  BY <1>1, <1>2, Zenon DEF Init, Alone, Lonely
<1>4. ASSUME Alone, [Next]_vars PROVE Alone'
  <2>1. SUFFICES /\ Sound(BOOLEAN, stage') /\ Sound(BOOLEAN, held')
                 /\ asked' \in Seq(Payload)
                 /\ Lonely(asked', held', stage', answers')
    BY Zenon DEF Alone, Lonely
  <2>2. Sound(BOOLEAN, stage)
    BY <1>4, Zenon DEF Alone
  <2>3. CASE UNCHANGED vars
    BY <1>4, <2>3, Zenon DEF Alone, Lonely, vars
  <2>4. ASSUME Next
        PROVE  Sound(BOOLEAN, stage') /\ asked' \in Seq(Payload)
    BY <1>0, <2>2, <2>4, GoodSteps, Zenon DEF Good
  <2>5. ASSUME NEW p \in SoundPayload, Handle(p)
        PROVE  Sound(BOOLEAN, held') /\ Lonely(asked', held', stage', answers')
    <3>1. p \in Payload /\ p.new \in Seq(BOOLEAN)
      BY <1>0, AskedWith, PayloadAsked, Zenon DEF Asked
    <3>2. PICK o \in Handled(stage, p) : stage' = o.stage /\ answers' = <<o.answer>>
      BY <2>5, Zenon DEF Handle
    <3>3. asked' = <<p>> /\ held' = stage
      BY <2>5, Zenon DEF Handle
    <3>4. AnsweredAs(stage, o.stage, p, o.answer)
      <4>1. o.answer.kind = "hidden_states" =>
              Computed(stage, p, o.answer) /\ GoesOn(stage, o.stage, p)
        BY ONLY <1>0, <2>2, <3>1, <3>2, HandledSound, Zenon
      <4> QED BY <4>1, Zenon DEF AnsweredAs
    <3>5. \A i \in DOMAIN <<p>> : i = 1 /\ <<p>>[i] = p
      OBVIOUS
    <3> DEFINE a == o.answer
    <3>6. <<a>>[1] = a
      OBVIOUS
    <3>7. \A i \in Lone(asked') : asked'[i] = p /\ answers'[i] = o.answer
      BY <3>2, <3>3, <3>5, <3>6, Zenon DEF Lone
    <3> QED BY <2>2, <3>2, <3>3, <3>4, <3>7, Zenon DEF Lonely
  <2>6. ASSUME NEW ps \in Polled, HandleBatch(ps)
        PROVE  Sound(BOOLEAN, held') /\ Lonely(asked', held', stage', answers')
    <3>1. ps \in Seq(Payload) /\ \A i \in DOMAIN ps : Asked(BOOLEAN, ps[i])
      BY <1>0, AskedWith, PolledAsked, Zenon
    <3>2. PICK o \in HandledBatch(stage, ps) : stage' = o.stage /\ answers' = o.answers
      BY <2>6, Zenon DEF HandleBatch
    <3>3. asked' = ps /\ held' = stage
      BY <2>6, Zenon DEF HandleBatch
    <3>4. \A j \in Lone(ps) : AnsweredAs(stage, o.stage, ps[j], o.answers[j])
      BY <1>0, <2>2, <3>1, BatchSound, Zenon
    <3> QED BY <2>2, <3>2, <3>3, <3>4, Zenon DEF Lonely
  <2>7. ASSUME DropSessions
        PROVE  Sound(BOOLEAN, held') /\ Lonely(asked', held', stage', answers')
    BY <1>1, <2>2, <2>7, Zenon DEF DropSessions
  <2> QED BY <1>4, <2>3, <2>4, <2>5, <2>6, <2>7, Zenon DEF Next
<1>5. Alone => AnsweredAlone
  <2>1. SUFFICES ASSUME Alone, NEW i \in DOMAIN asked,
                        answers[i].kind = "hidden_states",
                        \A j \in DOMAIN asked : asked[j].session = asked[i].session => j = i
                 PROVE  \E o \in Handled(held, asked[i]) :
                          /\ o.answer = answers[i]
                          /\ Keeps(stage, asked[i].session) /\ Keeps(o.stage, asked[i].session) =>
                                 /\ stage.length[asked[i].session] = o.stage.length[asked[i].session]
                                 /\ stage.cache[asked[i].session] = o.stage.cache[asked[i].session]
    BY Zenon DEF AnsweredAlone
  <2>2. asked[i] \in Payload
    BY <2>1 DEF Alone
  <2>3. Sound(BOOLEAN, held) /\ AnsweredAs(held, stage, asked[i], answers[i])
    BY <2>1, Zenon DEF Alone, Lone
  <2> QED BY <2>1, <2>2, <2>3, ComputedIsAlone
<1> QED BY <1>3, <1>4, <1>5, PTL DEF Spec
=============================================================================
