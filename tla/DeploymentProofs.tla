-------------------------- MODULE DeploymentProofs --------------------------
(***************************************************************************)
(* Theorems about a deployment, for every pipeline that is asked for,      *)
(* model repository and token file: that the planner hands out the layers, *)
(* and fairly; that the stages that run are the whole model and of one     *)
(* commit; which tokens the relay goes by, and that a rotation refuses no  *)
(* worker.                                                                 *)
(***************************************************************************)
EXTENDS Deployment, FiniteSetTheorems, TLAPS

-----------------------------------------------------------------------------
(* Sums over finite sets *)

One(s) == CHOOSE x \in s : TRUE

\* g is the sum of f over every subset of S, taken as the community modules take it.
Sums(f, g, S) ==
    g = [s \in SUBSET S |-> IF s = {} THEN 0 ELSE f[One(s)] + g[s \ {One(s)}]]

SumsOf(f, S) == CHOOSE g : Sums(f, g, S)

\* The sum over S is what its recursion gives for S.
LEMMA TotalIs == ASSUME NEW f, NEW S PROVE Total(f, S) = SumsOf(f, S)[S]
BY DEF Total, MapThenSumSet, MapThenFoldSet, SumsOf, Sums, One

\* A family of subsets of a finite set has a smallest one.
LEMMA SmallestSet ==
    ASSUME NEW S, IsFiniteSet(S), NEW F, F \subseteq SUBSET S, F # {}
    PROVE  \E s \in F : \A t \in F : t \subseteq s => t = s
<1>1. F \subseteq FiniteSubsetsOf(S)
  BY FS_FiniteSubsetsOfFinite
<1>2. PICK s \in F : \A t \in F : <<t, s>> \notin StrictSubsetOrdering(S)
  BY <1>1, FS_StrictSubsetOrderingWellFounded, WFMin, Zenon
<1>3. ASSUME NEW t \in F, t \subseteq s, t # s PROVE FALSE
  BY <1>2, <1>3 DEF StrictSubsetOrdering
<1>4. \A t \in F : t \subseteq s => t = s
  BY <1>3, Zenon
<1> QED BY <1>2, <1>4, Zenon

\* An element is chosen from a set that has one.
LEMMA OneIn == ASSUME NEW s, s # {} PROVE One(s) \in s
BY DEF One

\* There is only one such g: a smallest subset where two differ has none.
LEMMA SumsUnique ==
    ASSUME NEW f, NEW S, IsFiniteSet(S), NEW g, NEW h, Sums(f, g, S), Sums(f, h, S)
    PROVE  g = h
<1> DEFINE F == {s \in SUBSET S : g[s] # h[s]}
<1>1. SUFFICES ASSUME F # {} PROVE FALSE
  BY Zenon DEF Sums
<1>2. PICK s \in F : \A t \in F : t \subseteq s => t = s
  <2>1. F \subseteq SUBSET S
    OBVIOUS
  <2> HIDE DEF F
  <2> QED BY <1>1, <2>1, SmallestSet
<1>3. /\ g[s] = IF s = {} THEN 0 ELSE f[One(s)] + g[s \ {One(s)}]
      /\ h[s] = IF s = {} THEN 0 ELSE f[One(s)] + h[s \ {One(s)}]
  BY Zenon DEF Sums
<1>4. CASE s = {}
  BY <1>2, <1>3, <1>4
<1>5. CASE s # {}
  <2>1. One(s) \in s
    BY <1>5, OneIn
  <2>2. s \ {One(s)} \notin F
    BY <1>2, <2>1
  <2>3. g[s \ {One(s)}] = h[s \ {One(s)}]
    BY <2>2
  <2> QED BY <1>2, <1>3, <2>3
<1> QED BY <1>4, <1>5

\* The sums over the subsets of a set are those over the subsets of a larger one.
LEMMA SumsWithin ==
    ASSUME NEW f, NEW S, IsFiniteSet(S), NEW g, Sums(f, g, S), NEW T, T \subseteq S
    PROVE  /\ Sums(f, SumsOf(f, T), T)
           /\ SumsOf(f, T)[T] = g[T]
<1> DEFINE h == [s \in SUBSET T |-> g[s]]
<1>1. Sums(f, h, T)
  <2>1. ASSUME NEW s \in SUBSET T
        PROVE  g[s] = IF s = {} THEN 0 ELSE f[One(s)] + h[s \ {One(s)}]
    <3>1. g[s] = IF s = {} THEN 0 ELSE f[One(s)] + g[s \ {One(s)}]
      BY Zenon DEF Sums
    <3>2. h[s \ {One(s)}] = g[s \ {One(s)}]
      OBVIOUS
    <3> QED BY <3>1, <3>2
  <2>2. h = [s \in SUBSET T |-> IF s = {} THEN 0 ELSE f[One(s)] + h[s \ {One(s)}]]
    BY <2>1, Zenon
  <2> QED BY <2>2 DEF Sums
<1>2. Sums(f, SumsOf(f, T), T)
  BY <1>1, Zenon DEF SumsOf
<1>3. IsFiniteSet(T)
  BY FS_Subset
<1>4. SumsOf(f, T) = h
  BY <1>1, <1>2, <1>3, SumsUnique
<1> QED BY <1>2, <1>4

\* There is one for every finite set: a smallest set without it would have one.
LEMMA SumsExist ==
    ASSUME NEW f, NEW S, IsFiniteSet(S)
    PROVE  Sums(f, SumsOf(f, S), S)
<1> DEFINE F == {s \in SUBSET S : ~Sums(f, SumsOf(f, s), s)}
<1>1. SUFFICES ASSUME F # {} PROVE FALSE
  BY Zenon
<1>2. PICK s \in F : \A t \in F : t \subseteq s => t = s
  <2>1. F \subseteq SUBSET S
    OBVIOUS
  <2> HIDE DEF F
  <2> QED BY <1>1, <2>1, SmallestSet
<1> DEFINE g == [t \in SUBSET s |->
                    IF t = {} THEN 0 ELSE f[One(t)] + SumsOf(f, t \ {One(t)})[t \ {One(t)}]]
<1>3. ASSUME NEW t \in SUBSET s, t # {} PROVE g[t \ {One(t)}] = SumsOf(f, t \ {One(t)})[t \ {One(t)}]
  <2> DEFINE u == t \ {One(t)}
  <2>1. u \subseteq s /\ u # s /\ IsFiniteSet(u)
    BY <1>3, OneIn, FS_Subset
  <2>2. u \notin F
    BY <1>2, <2>1
  <2>3. Sums(f, SumsOf(f, u), u)
    BY <2>1, <2>2
  <2>4. SumsOf(f, u)[u] = IF u = {} THEN 0 ELSE f[One(u)] + SumsOf(f, u)[u \ {One(u)}]
    BY <2>3, Zenon DEF Sums
  <2>5. SumsOf(f, u \ {One(u)})[u \ {One(u)}] = SumsOf(f, u)[u \ {One(u)}]
    BY <2>1, <2>3, SumsWithin
  <2>6. g[u] = IF u = {} THEN 0 ELSE f[One(u)] + SumsOf(f, u \ {One(u)})[u \ {One(u)}]
    BY <2>1
  <2> QED BY <2>4, <2>5, <2>6
<1>4. g = [t \in SUBSET s |-> IF t = {} THEN 0 ELSE f[One(t)] + g[t \ {One(t)}]]
  BY <1>3, Zenon
<1>5. Sums(f, g, s)
  BY <1>4 DEF Sums
<1>6. Sums(f, SumsOf(f, s), s)
  BY <1>5, Zenon DEF SumsOf
<1> QED BY <1>2, <1>6

\* A sum, element by element.
LEMMA TotalStep ==
    ASSUME NEW f, NEW S, IsFiniteSet(S)
    PROVE  Total(f, S) = IF S = {} THEN 0 ELSE f[One(S)] + Total(f, S \ {One(S)})
<1> DEFINE g == SumsOf(f, S)
<1>1. Sums(f, g, S)
  BY SumsExist
<1>2. g[S] = IF S = {} THEN 0 ELSE f[One(S)] + g[S \ {One(S)}]
  BY <1>1, Zenon DEF Sums
<1>3. SumsOf(f, S \ {One(S)})[S \ {One(S)}] = g[S \ {One(S)}]
  BY <1>1, SumsWithin
<1> QED BY <1>2, <1>3, TotalIs

\* What sums are: of nothing, of integers and of natural numbers.
LEMMA TotalEmpty == \A f : Total(f, {}) = 0
BY TotalStep, FS_EmptySet

LEMMA TotalInt ==
    ASSUME NEW f, NEW S, IsFiniteSet(S), \A x \in S : f[x] \in Int
    PROVE  Total(f, S) \in Int
<1> DEFINE F == {s \in SUBSET S : Total(f, s) \notin Int}
<1>1. SUFFICES ASSUME F # {} PROVE FALSE
  OBVIOUS
<1>2. PICK s \in F : \A t \in F : t \subseteq s => t = s
  <2>1. F \subseteq SUBSET S
    OBVIOUS
  <2> HIDE DEF F
  <2> QED BY <1>1, <2>1, SmallestSet
<1>3. s # {}
  <2>1. Total(f, {}) = 0
    BY TotalEmpty
  <2>2. {} \notin F
    BY <2>1
  <2> QED BY <1>2, <2>2
<1>4. One(s) \in s /\ f[One(s)] \in Int
  BY <1>3, OneIn
<1>5. Total(f, s \ {One(s)}) \in Int
  BY <1>2, <1>4
<1>6. Total(f, s) = f[One(s)] + Total(f, s \ {One(s)})
  BY <1>3, FS_Subset, TotalStep
<1> QED BY <1>2, <1>4, <1>5, <1>6

\* Any element may be taken out first.
LEMMA TotalRemove ==
    ASSUME NEW f, NEW S, IsFiniteSet(S), \A x \in S : f[x] \in Int, NEW y \in S
    PROVE  Total(f, S) = f[y] + Total(f, S \ {y})
<1> DEFINE F == {s \in SUBSET S : \E z \in s : Total(f, s) # f[z] + Total(f, s \ {z})}
<1>1. SUFFICES ASSUME F # {} PROVE FALSE
  OBVIOUS
<1>2. PICK s \in F : \A t \in F : t \subseteq s => t = s
  <2>1. F \subseteq SUBSET S
    OBVIOUS
  <2> HIDE DEF F
  <2> QED BY <1>1, <2>1, SmallestSet
<1>3. PICK z \in s : Total(f, s) # f[z] + Total(f, s \ {z})
  BY <1>2
<1>4. \A t \in SUBSET S : IsFiniteSet(t) /\ Total(f, t) \in Int
  BY FS_Subset, TotalInt
<1> DEFINE x == One(s)
<1>5. x \in s
  BY OneIn
<1>6. Total(f, s) = f[x] + Total(f, s \ {x})
  BY <1>4, TotalStep
<1>7. x # z
  BY <1>3, <1>6
<1>8. s \ {x} \notin F /\ s \ {z} \notin F
  BY <1>2, <1>5
<1>9. Total(f, s \ {x}) = f[z] + Total(f, (s \ {x}) \ {z})
  BY <1>7, <1>8
<1>10. Total(f, s \ {z}) = f[x] + Total(f, (s \ {z}) \ {x})
  BY <1>5, <1>7, <1>8
<1>11. (s \ {x}) \ {z} = (s \ {z}) \ {x}
  OBVIOUS
<1> DEFINE others == Total(f, (s \ {z}) \ {x})
<1>12. f[x] \in Int /\ f[z] \in Int /\ others \in Int
  BY <1>4, <1>5
<1>13. /\ Total(f, s) = f[x] + (f[z] + others)
       /\ Total(f, s \ {z}) = f[x] + others
  BY <1>6, <1>9, <1>10, <1>11
<1> HIDE DEF x, others, F
<1>14. Total(f, s) = f[z] + Total(f, s \ {z})
  BY <1>12, <1>13
<1> QED BY <1>3, <1>14

LEMMA TotalNat ==
    ASSUME NEW f, NEW S, IsFiniteSet(S), \A x \in S : f[x] \in Nat
    PROVE  Total(f, S) \in Nat
<1> DEFINE F == {s \in SUBSET S : Total(f, s) \notin Nat}
<1>1. SUFFICES ASSUME F # {} PROVE FALSE
  OBVIOUS
<1>2. PICK s \in F : \A t \in F : t \subseteq s => t = s
  <2>1. F \subseteq SUBSET S
    OBVIOUS
  <2> HIDE DEF F
  <2> QED BY <1>1, <2>1, SmallestSet
<1>3. s # {}
  <2>1. Total(f, {}) = 0
    BY TotalEmpty
  <2>2. {} \notin F
    BY <2>1
  <2> QED BY <1>2, <2>2
<1>4. One(s) \in s /\ f[One(s)] \in Nat
  BY <1>3, OneIn
<1>5. Total(f, s \ {One(s)}) \in Nat
  BY <1>2, <1>4
<1>6. Total(f, s) = f[One(s)] + Total(f, s \ {One(s)})
  BY <1>3, FS_Subset, TotalStep
<1> QED BY <1>2, <1>4, <1>5, <1>6

\* One element is no more than the sum.
LEMMA TotalAtLeast ==
    ASSUME NEW f, NEW S, IsFiniteSet(S), \A x \in S : f[x] \in Nat, NEW y \in S
    PROVE  f[y] <= Total(f, S)
<1>1. Total(f, S) = f[y] + Total(f, S \ {y})
  BY TotalRemove
<1>2. Total(f, S \ {y}) \in Nat
  BY FS_Subset, TotalNat
<1> QED BY <1>1, <1>2

\* The sum of g, which is one more than f in T.
LEMMA TotalRaised ==
    ASSUME NEW f, NEW g, NEW S, IsFiniteSet(S), NEW T,
           \A x \in S : f[x] \in Int /\ g[x] = f[x] + (IF x \in T THEN 1 ELSE 0)
    PROVE  Total(g, S) = Total(f, S) + Cardinality(S \cap T)
<1> DEFINE F == {s \in SUBSET S : Total(g, s) # Total(f, s) + Cardinality(s \cap T)}
<1>1. SUFFICES ASSUME F # {} PROVE FALSE
  OBVIOUS
<1>2. PICK s \in F : \A t \in F : t \subseteq s => t = s
  <2>1. F \subseteq SUBSET S
    OBVIOUS
  <2> HIDE DEF F
  <2> QED BY <1>1, <2>1, SmallestSet
<1>3. s # {}
  <2>1. Total(g, {}) = 0 /\ Total(f, {}) = 0 /\ Cardinality({} \cap T) = 0
    <3>1. {} \cap T = {}
      OBVIOUS
    <3> QED BY <3>1, TotalEmpty, FS_EmptySet
  <2>2. {} \notin F
    BY <2>1
  <2> QED BY <1>2, <2>2
<1> DEFINE x == One(s)
           u == s \ {x}
<1>4. x \in s /\ f[x] \in Int /\ g[x] = f[x] + (IF x \in T THEN 1 ELSE 0)
  BY <1>3, OneIn
<1>5. IsFiniteSet(s) /\ IsFiniteSet(u) /\ u \subseteq S
  BY FS_Subset
<1>6. Total(g, u) = Total(f, u) + Cardinality(u \cap T)
  BY <1>2, <1>4, <1>5
<1>7. Total(g, s) = g[x] + Total(g, u) /\ Total(f, s) = f[x] + Total(f, u)
  BY <1>3, <1>5, TotalStep
<1>8. Total(f, u) \in Int
  BY <1>5, TotalInt
<1>9. Cardinality(s \cap T) = Cardinality(u \cap T) + (IF x \in T THEN 1 ELSE 0)
  <2>1. IsFiniteSet(u \cap T) /\ x \notin u \cap T
    BY <1>5, FS_Intersection
  <2>2. CASE x \in T
    <3>1. s \cap T = (u \cap T) \cup {x}
      BY <1>4, <2>2
    <3> QED BY <2>1, <2>2, <3>1, FS_AddElement
  <2>3. CASE x \notin T
    <3>1. s \cap T = u \cap T
      BY <1>4, <2>3
    <3>2. Cardinality(u \cap T) \in Nat
      BY <2>1, FS_CardinalityType
    <3>3. Cardinality(s \cap T) = Cardinality(u \cap T)
      BY <3>1, Zenon
    <3>4. (IF x \in T THEN 1 ELSE 0) = 0
      BY <2>3, Zenon
    <3>5. \A n \in Nat : n = n + 0
      OBVIOUS
    <3> QED BY <3>2, <3>3, <3>4, <3>5, Zenon
  <2> QED BY <2>2, <2>3
<1>10. Cardinality(u \cap T) \in Nat
  BY <1>5, FS_Intersection, FS_CardinalityType
<1> HIDE DEF u, x
<1>11. Total(g, s) = Total(f, s) + Cardinality(s \cap T)
  BY <1>4, <1>6, <1>7, <1>8, <1>9, <1>10
<1> QED BY <1>2, <1>11

\* A sum over a part is no more than the sum over the whole.
LEMMA TotalPart ==
    ASSUME NEW f, NEW S, IsFiniteSet(S), \A x \in S : f[x] \in Nat, NEW T, T \subseteq S
    PROVE  Total(f, T) <= Total(f, S)
<1> DEFINE F == {s \in SUBSET S : T \subseteq s /\ ~(Total(f, T) <= Total(f, s))}
<1>1. SUFFICES ASSUME F # {} PROVE FALSE
  OBVIOUS
<1>2. PICK s \in F : \A t \in F : t \subseteq s => t = s
  <2>1. F \subseteq SUBSET S
    OBVIOUS
  <2> HIDE DEF F
  <2> QED BY <1>1, <2>1, SmallestSet
<1>3. \A t \in SUBSET S : IsFiniteSet(t) /\ Total(f, t) \in Nat
  <2> SUFFICES ASSUME NEW t \in SUBSET S PROVE IsFiniteSet(t) /\ Total(f, t) \in Nat
    OBVIOUS
  <2>1. IsFiniteSet(t) /\ \A x \in t : f[x] \in Nat
    BY FS_Subset
  <2> QED BY <2>1, TotalNat
<1>4. T # s
  <2>1. Total(f, T) <= Total(f, T)
    BY <1>3
  <2> QED BY <1>2, <2>1
<1>5. PICK y \in s : y \notin T
  BY <1>2, <1>4
<1>6. s \ {y} \notin F
  BY <1>2, <1>5
<1>7. Total(f, T) <= Total(f, s \ {y})
  BY <1>2, <1>5, <1>6
<1>8. Total(f, s) = f[y] + Total(f, s \ {y})
  <2>1. IsFiniteSet(s) /\ (\A x \in s : f[x] \in Int) /\ y \in s
    BY <1>3, <1>5
  <2> QED BY <2>1, TotalRemove
<1>9. /\ f[y] \in Nat /\ Total(f, T) \in Nat /\ Total(f, s \ {y}) \in Nat
      /\ ~(Total(f, T) <= Total(f, s))
  BY <1>2, <1>3, <1>5
<1> HIDE DEF F
<1> QED BY <1>7, <1>8, <1>9

\* A set of natural numbers has a least one.
LEMMA LeastOf ==
    ASSUME NEW M, M # {}, M \subseteq Nat
    PROVE  \E m \in M : \A i \in M : m <= i
<1>1. PICK n \in M : \A i \in M : <<i, n>> \notin OpToRel(<, Nat)
  BY NatLessThanWellFounded, WFMin, Zenon
<1>2. ASSUME NEW i \in M PROVE n <= i
  <2>1. i \in Nat /\ n \in Nat /\ <<i, n>> \notin OpToRel(<, Nat)
    BY <1>1
  <2>2. ~(i < n)
    BY <2>1 DEF OpToRel
  <2>3. i \in Nat /\ n \in Nat
    OBVIOUS
  <2> QED BY <2>2, <2>3
<1> QED BY <1>1, <1>2, Zenon

-----------------------------------------------------------------------------
(* The stage with the largest quotient *)

\* Products are ordered as their factors, ...
LEMMA TimesOrder ==
    ASSUME NEW a \in Int, NEW b \in Int, NEW c \in Nat, a <= b
    PROVE  a * c <= b * c
OBVIOUS

\* ... and the other way round.
LEMMA TimesCancel ==
    ASSUME NEW a \in Int, NEW b \in Int, NEW c \in Nat \ {0}, a * c <= b * c
    PROVE  a <= b
<1>1. SUFFICES ASSUME b + 1 <= a PROVE FALSE
  OBVIOUS
<1>2. (b + 1) * c <= a * c
  BY <1>1, TimesOrder
<1>3. (b + 1) * c = b * c + c
  OBVIOUS
<1>4. a * c \in Int /\ b * c \in Int
  OBVIOUS
<1> DEFINE x == a * c
           y == b * c
<1>5. y + c <= x /\ x <= y /\ x \in Int /\ y \in Int
  BY <1>2, <1>3, <1>4
<1> HIDE DEF x, y
<1> QED BY <1>5

\* a / b >= c / d and e / f >= a / b
LEMMA QuotientsOrder ==
    ASSUME NEW a \in Nat, NEW b \in Nat \ {0}, NEW c \in Nat, NEW d \in Nat \ {0},
           NEW e \in Nat, NEW f \in Nat \ {0}, c * b <= a * d, a * f <= e * b
    PROVE  c * f <= e * d
<1>1. (c * b) * f <= (a * d) * f
  <2>1. c * b \in Int /\ a * d \in Int
    OBVIOUS
  <2> QED BY <2>1, TimesOrder
<1>2. (a * f) * d <= (e * b) * d
  <2>1. a * f \in Int /\ e * b \in Int
    OBVIOUS
  <2> QED BY <2>1, TimesOrder
<1>3. /\ (c * b) * f = (c * f) * b
      /\ (a * d) * f = (a * f) * d
      /\ (e * b) * d = (e * d) * b
  OBVIOUS
<1> DEFINE x == c * f
           y == e * d
           z == (a * f) * d
<1>4. x \in Int /\ y \in Int /\ z \in Int
  OBVIOUS
<1>5. x * b <= z /\ z <= y * b
  BY <1>1, <1>2, <1>3
<1> HIDE DEF x, y, z
<1>6. x * b <= y * b
  BY <1>4, <1>5
<1>7. x <= y
  BY <1>4, <1>6, TimesCancel
<1> QED BY <1>7 DEF x, y

\* No quotient of S is larger than that of i.
Largest(i, S, high, low) == \A j \in S : high[j] * low[i] <= high[i] * low[j]

\* Some stage has the largest quotient: quotients are ordered.
LEMMA LargestExists ==
    ASSUME NEW S, IsFiniteSet(S), S # {}, NEW high, NEW low,
           \A i \in S : high[i] \in Nat /\ low[i] \in Nat \ {0}
    PROVE  \E i \in S : Largest(i, S, high, low)
<1> DEFINE F == {s \in SUBSET S : s # {} /\ ~\E i \in s : Largest(i, s, high, low)}
<1>1. SUFFICES ASSUME F # {} PROVE FALSE
  OBVIOUS
<1>2. PICK s \in F : \A t \in F : t \subseteq s => t = s
  <2>1. F \subseteq SUBSET S
    OBVIOUS
  <2> HIDE DEF F
  <2> QED BY <1>1, <2>1, SmallestSet
<1>3. PICK x \in s : TRUE
  BY <1>2
<1> DEFINE u == s \ {x}
<1>4. CASE u = {}
  <2>1. s = {x}
    BY <1>4
  <2>2. Largest(x, s, high, low)
    BY <2>1 DEF Largest
  <2> QED BY <1>2, <2>2
<1>5. CASE u # {}
  <2>1. u \notin F
    BY <1>2, <1>3
  <2>2. PICK b \in u : Largest(b, u, high, low)
    BY <1>5, <2>1
  <2>3. /\ high[x] \in Nat /\ low[x] \in Nat \ {0}
        /\ high[b] \in Nat /\ low[b] \in Nat \ {0}
    OBVIOUS
  <2>4. CASE high[x] * low[b] <= high[b] * low[x]
    <3>1. Largest(b, s, high, low)
      BY <2>2, <2>4 DEF Largest
    <3> QED BY <1>2, <3>1
  <2>5. CASE high[b] * low[x] <= high[x] * low[b]
    <3>1. ASSUME NEW j \in s PROVE high[j] * low[x] <= high[x] * low[j]
      <4>1. CASE j = x
        BY <2>3, <4>1
      <4>2. CASE j # x
        <5>1. high[j] * low[b] <= high[b] * low[j]
          BY <2>2, <4>2 DEF Largest
        <5>2. high[j] \in Nat /\ low[j] \in Nat \ {0}
          OBVIOUS
        <5> QED BY <2>3, <2>5, <5>1, <5>2, QuotientsOrder
      <4> QED BY <4>1, <4>2
    <3>2. Largest(x, s, high, low)
      BY <3>1 DEF Largest
    <3> QED BY <1>2, <3>2
  <2>6. high[x] * low[b] \in Int /\ high[b] * low[x] \in Int
    BY <2>3
  <2> QED BY <2>4, <2>5, <2>6
<1> QED BY <1>4, <1>5

\* max() finds a stage, and none has a larger quotient.
LEMMA FirstLargestIs ==
    ASSUME NEW S, IsFiniteSet(S), S # {}, S \subseteq Nat, NEW high, NEW low,
           \A i \in S : high[i] \in Nat /\ low[i] \in Nat \ {0}
    PROVE  /\ FirstLargest(S, high, low) \in S
           /\ Largest(FirstLargest(S, high, low), S, high, low)
<1> DEFINE M == {i \in S : Largest(i, S, high, low)}
<1>1. M # {} /\ M \subseteq Nat
  BY LargestExists
<1>2. PICK m \in M : \A i \in M : m <= i
  <2> HIDE DEF M
  <2> QED BY <1>1, LeastOf
<1> DEFINE Wins(i) == \A j \in S :
                \/ high[i] * low[j] > high[j] * low[i]
                \/ high[i] * low[j] = high[j] * low[i] /\ i <= j
<1>3. Wins(m)
  <2> SUFFICES ASSUME NEW j \in S
               PROVE  \/ high[m] * low[j] > high[j] * low[m]
                      \/ high[m] * low[j] = high[j] * low[m] /\ m <= j
    OBVIOUS
  <2>1. /\ high[m] \in Nat /\ low[m] \in Nat \ {0}
        /\ high[j] \in Nat /\ low[j] \in Nat \ {0}
        /\ high[j] * low[m] <= high[m] * low[j]
    BY DEF Largest
  <2>2. high[m] * low[j] \in Int /\ high[j] * low[m] \in Int
    BY <2>1
  <2>3. ASSUME high[m] * low[j] = high[j] * low[m] PROVE j \in M
    <3>1. ASSUME NEW k \in S PROVE high[k] * low[j] <= high[j] * low[k]
      <4>1. high[k] * low[m] <= high[m] * low[k]
        BY DEF Largest
      <4>2. high[k] \in Nat /\ low[k] \in Nat \ {0} /\ high[m] * low[j] <= high[j] * low[m]
        BY <2>2, <2>3
      <4> QED BY <2>1, <4>1, <4>2, QuotientsOrder
    <3> QED BY <3>1 DEF Largest
  <2>4. CASE high[m] * low[j] = high[j] * low[m]
    BY <1>2, <2>3, <2>4
  <2>5. CASE high[m] * low[j] # high[j] * low[m]
    BY <2>1, <2>2, <2>5
  <2> QED BY <2>4, <2>5
<1>4. FirstLargest(S, high, low) = CHOOSE i \in S : Wins(i)
  BY DEF FirstLargest
<1> DEFINE best == FirstLargest(S, high, low)
<1>5. best \in S /\ Wins(best)
  <2> HIDE DEF Wins
  <2> QED BY <1>3, <1>4
<1>6. ASSUME NEW j \in S PROVE high[j] * low[best] <= high[best] * low[j]
  <2>1. /\ high[best] \in Nat /\ low[best] \in Nat \ {0}
        /\ high[j] \in Nat /\ low[j] \in Nat \ {0}
    BY <1>5
  <2>2. high[best] * low[j] \in Int /\ high[j] * low[best] \in Int
    BY <2>1
  <2> HIDE DEF best
  <2> QED BY <1>5, <2>2
<1> QED BY <1>5, <1>6 DEF Largest

-----------------------------------------------------------------------------
(* The planner *)

\* The numbers of layers that were asked for.
AskedFor == [i \in Stages |-> nodes[i].layers]

\* What holds once the first distribution is made.
Distributed ==
    /\ \A i \in Flexible : counts[i] >= 1
    /\ Total(AskedFor, Stages) + Cardinality(Flexible) <= NLayers
    /\ \A i, j \in Flexible : i # j /\ counts[i] > 1 =>
            Weight(j) * counts[i] <= Weight(i) * (counts[j] + 1)

PlanInv ==
    /\ PlanTypeOK
    /\ \A i \in Stages \ Flexible : counts[i] = nodes[i].layers
    /\ planning = "weigh" => counts = AskedFor
    /\ planning \in {"adjust", "planned"} => Distributed
    /\ planning = "planned" => Planned = NLayers

\* The stages are numbered, and each was asked for with a machine and a number.
LEMMA StagesFinite ==
    ASSUME nodes \in Pipelines
    PROVE  /\ Stages = 1 .. Len(nodes) /\ Len(nodes) \in Nat
           /\ IsFiniteSet(Stages)
           /\ \A i \in Stages : nodes[i].machine \in DOMAIN Capacity /\ nodes[i].layers \in Nat
           /\ Flexible \subseteq Stages /\ IsFiniteSet(Flexible) /\ Flexible \subseteq Nat
<1>1. nodes \in Seq([machine : DOMAIN Capacity, layers : Nat])
  BY PlanAssumption
<1>2. Stages = 1 .. Len(nodes) /\ Len(nodes) \in Nat
  BY <1>1 DEF Stages
<1>3. IsFiniteSet(Stages)
  BY <1>2, FS_Interval
<1>4. \A i \in Stages : nodes[i] \in [machine : DOMAIN Capacity, layers : Nat]
  <2> DEFINE R == [machine : DOMAIN Capacity, layers : Nat]
  <2>1. nodes \in Seq(R)
    BY <1>1
  <2> HIDE DEF R
  <2>2. ASSUME NEW i \in 1 .. Len(nodes) PROVE nodes[i] \in R
    BY <2>1
  <2> QED BY <1>2, <2>2, Zenon DEF R
<1>5. Flexible \subseteq Stages
  BY DEF Flexible
<1>6. IsFiniteSet(Flexible)
  BY <1>3, <1>5, FS_Subset
<1>7. 1 .. Len(nodes) \subseteq Nat
  BY <1>2
<1>8. Flexible \subseteq Nat
  BY <1>2, <1>5, <1>7, Zenon
<1> QED BY <1>2, <1>3, <1>4, <1>5, <1>6, <1>8

\* What \div gives.
LEMMA QuotientNat ==
    ASSUME NEW n \in Nat, NEW d \in Nat \ {0}
    PROVE  n \div d \in Nat /\ (n \div d) * d <= n /\ n < (n \div d) * d + d
OBVIOUS

\* Weights are natural numbers, also if a machine has less than nothing left.
LEMMA WeightNat ==
    ASSUME nodes \in Pipelines
    PROVE  \A i \in Flexible : Weight(i) \in Nat
<1> SUFFICES ASSUME NEW i \in Flexible PROVE Weight(i) \in Nat
  OBVIOUS
<1>0. i \in Stages
  BY StagesFinite
<1> DEFINE m == nodes[i].machine
           K == On(m)
           average == Total(LayerCost, Layers) + NLayers * CacheCost
           f == [j \in K |-> NLayers * FixedCost(j) + nodes[j].layers * average]
<1>1. NLayers \in Nat /\ CacheCost \in Nat /\ EmbedCost \in Nat /\ HeadCost \in Nat
  BY ModelAssumption, PlanAssumption
<1>2. average \in Nat
  <2>1. IsFiniteSet(Layers)
    BY <1>1, FS_Interval DEF Layers
  <2>2. \A k \in Layers : LayerCost[k] \in Nat
    BY PlanAssumption
  <2>3. Total(LayerCost, Layers) \in Nat
    BY <2>1, <2>2, TotalNat
  <2> QED BY <1>1, <2>3
<1>3. K \subseteq Stages /\ IsFiniteSet(K) /\ i \in K
  <2>1. K \subseteq Stages /\ i \in K
    BY <1>0 DEF On
  <2> HIDE DEF K
  <2> QED BY <2>1, StagesFinite, FS_Subset
<1>4. ASSUME NEW j \in K PROVE f[j] \in Nat
  <2>1. nodes[j].layers \in Nat
    BY <1>3, StagesFinite
  <2>2. FixedCost(j) \in Nat
    BY <1>1 DEF FixedCost
  <2>3. f[j] = NLayers * FixedCost(j) + nodes[j].layers * average
    BY DEF f
  <2> HIDE DEF f, average
  <2> QED BY <1>1, <1>2, <2>1, <2>2, <2>3
<1>5. Total(f, K) \in Nat
  <2> HIDE DEF f, K
  <2> QED BY <1>3, <1>4, TotalNat
<1>6. Left(m) \in Int
  <2>1. Left(m) = NLayers * Capacity[m] - Total(f, K)
    BY DEF Left
  <2>2. Capacity[m] \in Nat
    BY <1>0, StagesFinite, PlanAssumption
  <2> HIDE DEF f, K, m
  <2> QED BY <1>1, <1>5, <2>1, <2>2
<1> DEFINE c == Cardinality(K \cap Flexible)
           share == Parts \div c
<1>7. c \in Nat \ {0}
  <2>1. IsFiniteSet(K \cap Flexible) /\ K \cap Flexible # {}
    BY <1>3, FS_Intersection
  <2> HIDE DEF K
  <2> QED BY <2>1, FS_EmptySet, FS_CardinalityType
<1>8. share \in Nat
  <2>1. Parts \in Nat
    BY PlanAssumption
  <2> HIDE DEF c
  <2> QED BY <1>7, <2>1, QuotientNat
<1>9. Weight(i) = IF Left(m) > 0 THEN Left(m) * share ELSE 0
  BY DEF Weight
<1> HIDE DEF share, m
<1> DEFINE left == Left(m)
<1>10. left \in Int /\ Weight(i) = IF left > 0 THEN left * share ELSE 0
  BY <1>6, <1>9
<1> HIDE DEF left
<1>11. CASE left > 0
  <2>1. left \in Nat
    BY <1>10, <1>11
  <2> QED BY <1>8, <1>10, <1>11, <2>1
<1>12. CASE ~(left > 0)
  BY <1>10, <1>12
<1> QED BY <1>11, <1>12

\* When the planner begins the counts are what was asked for.
LEMMA PlanStart == PlanInit => PlanInv
<1> SUFFICES ASSUME PlanInit PROVE PlanInv
  OBVIOUS
<1>1. nodes \in Pipelines /\ counts = AskedFor /\ planning = "weigh"
  BY DEF PlanInit, AskedFor, Stages
<1>2. \A i \in Stages : AskedFor[i] = nodes[i].layers
  BY DEF AskedFor
<1>3. counts \in [Stages -> Nat]
  BY <1>1, StagesFinite DEF AskedFor
<1>4. \A i \in Flexible : counts[i] = 0
  BY <1>1, <1>2 DEF Flexible
<1> QED BY <1>1, <1>2, <1>3, <1>4, ModelAssumption DEF PlanInv, PlanTypeOK

\* The stages that were asked for, and their weights, stay.
LEMMA NodesKept ==
    ASSUME nodes' = nodes
    PROVE  /\ Stages' = Stages /\ Flexible' = Flexible /\ AskedFor' = AskedFor
           /\ \A i \in Flexible : Weight(i)' = Weight(i)
BY DEF Weight, Left, On, Flexible, Stages, FixedCost, AskedFor

\* A larger factor on one side, or a smaller one on the other, keeps an order.
LEMMA OneMore ==
    ASSUME NEW a \in Nat, NEW x \in Nat, NEW b \in Nat, b <= a * x
    PROVE  b <= a * (x + 1)
<1>1. a * (x + 1) = a * x + a /\ a * x \in Nat
  OBVIOUS
<1> QED BY <1>1

LEMMA OneLess ==
    ASSUME NEW a \in Nat, NEW x \in Nat, NEW b \in Nat, a * x <= b
    PROVE  a * (x - 1) <= b
<1>1. a * (x - 1) = a * x - a /\ a * x \in Nat
  OBVIOUS
<1> QED BY <1>1

\* A layer that is handed out goes to a stage that has most to itself then.
LEMMA GrowStep ==
    ASSUME PlanInv, Grow
    PROVE  PlanInv'
<1>1. /\ nodes \in Pipelines
      /\ counts \in [Stages -> Nat]
      /\ \A i \in Flexible : counts[i] <= NLayers
      /\ \A i \in Stages \ Flexible : counts[i] = nodes[i].layers
      /\ planning = "adjust" /\ Distributed
      /\ Planned < NLayers /\ nodes' = nodes
  BY DEF PlanInv, PlanTypeOK, Grow
<1>2. /\ Stages' = Stages /\ Flexible' = Flexible /\ AskedFor' = AskedFor
      /\ \A i \in Flexible : Weight(i)' = Weight(i)
  BY <1>1, NodesKept
<1>3. CASE Flexible = {}
  <2>1. planning' = "crashed" /\ counts' = counts
    BY <1>3 DEF Grow
  <2> QED BY <1>1, <1>2, <2>1 DEF PlanInv, PlanTypeOK
<1>4. CASE Flexible # {}
  <2> DEFINE low == [i \in Flexible |-> counts[i] + 1]
             b == FirstLargest(Flexible, Weights, low)
  <2>1. counts' = [counts EXCEPT ![b] = @ + 1] /\ planning' = "adjust"
    BY <1>1, <1>4 DEF Grow
  <2>2. /\ \A i \in Flexible : Weight(i) \in Nat /\ counts[i] \in Nat
        /\ Flexible \subseteq Stages /\ Flexible \subseteq Nat /\ IsFiniteSet(Flexible)
        /\ IsFiniteSet(Stages)
    BY <1>1, StagesFinite, WeightNat
  <2>3. \A i \in Flexible : Weights[i] = Weight(i) /\ low[i] = counts[i] + 1
    BY DEF Weights
  <2>4. \A i \in Flexible : Weights[i] \in Nat /\ low[i] \in Nat \ {0}
    <3> HIDE DEF low
    <3> QED BY <2>2, <2>3
  <2>5. b \in Flexible /\ Largest(b, Flexible, Weights, low)
    <3> HIDE DEF low
    <3> QED BY <1>4, <2>2, <2>4, FirstLargestIs
  <2>6. \A j \in Flexible : Weight(j) * (counts[b] + 1) <= Weight(b) * (counts[j] + 1)
    <3> HIDE DEF low, b
    <3> QED BY <2>3, <2>5 DEF Largest
  <2> HIDE DEF b, low
  <2>7. /\ b \in Stages /\ counts[b] \in Nat /\ counts'[b] = counts[b] + 1
        /\ \A i \in Stages : i # b => counts'[i] = counts[i]
        /\ counts' \in [Stages -> Nat]
    BY <1>1, <2>1, <2>2, <2>5
  <2>8. counts'[b] <= NLayers
    <3>1. counts[b] <= Total(counts, Stages)
      BY <1>1, <2>2, <2>7, TotalAtLeast
    <3>2. Total(counts, Stages) \in Nat
      BY <1>1, <2>2, TotalNat
    <3> QED BY <1>1, <2>7, <3>1, <3>2, ModelAssumption DEF Planned
  <2>9. ASSUME NEW i \in Flexible, NEW j \in Flexible, i # j, counts'[i] > 1
        PROVE  Weight(j) * counts'[i] <= Weight(i) * (counts'[j] + 1)
    <3>1. /\ Weight(i) \in Nat /\ Weight(j) \in Nat /\ counts[i] \in Nat /\ counts[j] \in Nat
          /\ i \in Stages /\ j \in Stages
      BY <2>2
    <3>2. CASE i = b
      BY <2>6, <2>7, <2>9, <3>1, <3>2
    <3>3. CASE i # b
      <4>1. counts'[i] = counts[i]
        BY <2>7, <3>1, <3>3
      <4>2. Weight(j) * counts[i] <= Weight(i) * (counts[j] + 1)
        BY <1>1, <2>9, <4>1 DEF Distributed
      <4>3. CASE j = b
        <5>1. Weight(j) * counts[i] \in Nat /\ counts[j] + 1 \in Nat
          BY <3>1
        <5>2. Weight(j) * counts[i] <= Weight(i) * ((counts[j] + 1) + 1)
          BY <3>1, <4>2, <5>1, OneMore
        <5> QED BY <2>7, <4>1, <4>3, <5>2
      <4>4. CASE j # b
        <5>1. counts'[j] = counts[j]
          BY <2>7, <3>1, <4>4
        <5> QED BY <4>1, <4>2, <5>1
      <4> QED BY <4>3, <4>4
    <3> QED BY <3>2, <3>3
  <2>10. \A i \in Flexible : counts'[i] >= 1 /\ counts'[i] <= NLayers
    BY <1>1, <2>2, <2>7, <2>8 DEF Distributed
  <2>11. Distributed'
    <3>1. \A i, j \in Flexible : i # j /\ counts'[i] > 1 =>
            Weight(j)' * counts'[i] <= Weight(i)' * (counts'[j] + 1)
      BY <1>2, <2>9
    <3> QED BY <1>1, <1>2, <2>10, <3>1 DEF Distributed
  <2>12. \A i \in Stages \ Flexible : counts'[i] = nodes[i].layers
    BY <1>1, <2>5, <2>7
  <2> QED BY <1>1, <1>2, <2>1, <2>7, <2>10, <2>11, <2>12 DEF PlanInv, PlanTypeOK
<1> QED BY <1>3, <1>4

\* A layer is taken from the stage with least to itself, never its only one.
LEMMA ShrinkStep ==
    ASSUME PlanInv, Shrink
    PROVE  PlanInv'
<1>1. /\ nodes \in Pipelines
      /\ counts \in [Stages -> Nat]
      /\ \A i \in Flexible : counts[i] <= NLayers
      /\ \A i \in Stages \ Flexible : counts[i] = nodes[i].layers
      /\ planning = "adjust" /\ Distributed
      /\ Planned > NLayers /\ nodes' = nodes /\ planning' = planning
  BY DEF PlanInv, PlanTypeOK, Shrink
<1>2. /\ Stages' = Stages /\ Flexible' = Flexible /\ AskedFor' = AskedFor
      /\ \A i \in Flexible : Weight(i)' = Weight(i)
  BY <1>1, NodesKept
<1>3. /\ \A i \in Flexible : Weight(i) \in Nat /\ counts[i] \in Nat /\ counts[i] >= 1
      /\ \A i \in Stages : nodes[i].layers \in Nat
      /\ Flexible \subseteq Stages /\ Flexible \subseteq Nat /\ IsFiniteSet(Flexible)
      /\ IsFiniteSet(Stages)
  BY <1>1, StagesFinite, WeightNat DEF Distributed
\* One layer each is not too much: some stage has several.
<1>4. MayShrink # {}
  <2>1. SUFFICES ASSUME MayShrink = {} PROVE FALSE
    OBVIOUS
  <2>2. \A i \in Flexible : counts[i] = 1
    BY <1>3, <2>1 DEF MayShrink
  <2>3. \A i \in Stages : /\ AskedFor[i] = nodes[i].layers /\ AskedFor[i] \in Int
                          /\ i \in Flexible => AskedFor[i] = 0
    BY <1>3 DEF AskedFor, Flexible
  <2>4. \A i \in Stages : AskedFor[i] \in Int /\ counts[i] = AskedFor[i] + (IF i \in Flexible THEN 1 ELSE 0)
    BY <1>1, <2>2, <2>3
  <2>5. Total(counts, Stages) = Total(AskedFor, Stages) + Cardinality(Stages \cap Flexible)
    <3> DEFINE f == AskedFor
               g == counts
               S == Stages
               T == Flexible
    <3>1. IsFiniteSet(S)
      BY <1>3
    <3>2. \A i \in S : f[i] \in Int /\ g[i] = f[i] + (IF i \in T THEN 1 ELSE 0)
      BY <2>4
    <3> HIDE DEF f, g, S, T
    <3>3. Total(g, S) = Total(f, S) + Cardinality(S \cap T)
      BY <3>1, <3>2, TotalRaised
    <3> QED BY <3>3 DEF f, g, S, T
  <2>6. Stages \cap Flexible = Flexible
    BY <1>3
  <2>7. Total(counts, Stages) = Total(AskedFor, Stages) + Cardinality(Flexible)
    BY <2>5, <2>6, Zenon
  <2>8. Total(counts, Stages) <= NLayers /\ Total(counts, Stages) > NLayers
    BY <1>1, <2>7 DEF Distributed, Planned
  <2>9. Total(counts, Stages) \in Nat
    BY <1>1, <1>3, TotalNat
  <2> QED BY <2>8, <2>9, ModelAssumption
<1> DEFINE low == [i \in MayShrink |-> IF Weight(i) = 0 THEN 1 ELSE Weight(i)]
           r == FirstLargest(MayShrink, counts, low)
<1>5. counts' = [counts EXCEPT ![r] = @ - 1]
  BY DEF Shrink
<1>6. \A i \in MayShrink : /\ i \in Flexible /\ counts[i] \in Nat /\ counts[i] > 1
                           /\ low[i] = IF Weight(i) = 0 THEN 1 ELSE Weight(i)
                           /\ low[i] \in Nat \ {0}
  BY <1>3 DEF MayShrink
<1>7. r \in MayShrink /\ Largest(r, MayShrink, counts, low)
  <2>1. IsFiniteSet(MayShrink) /\ MayShrink \subseteq Nat
    <3>1. MayShrink \subseteq Flexible
      BY DEF MayShrink
    <3> QED BY <1>3, <3>1, FS_Subset
  <2> HIDE DEF low
  <2> QED BY <1>4, <1>6, <2>1, FirstLargestIs
<1>8. \A j \in MayShrink : counts[j] * low[r] <= counts[r] * low[j]
  <2> HIDE DEF low, r
  <2> QED BY <1>7 DEF Largest
<1> HIDE DEF low, r
<1>20. r \in Stages /\ r \in Flexible /\ counts[r] \in Nat /\ counts[r] > 1 /\ counts[r] - 1 \in Nat
  <2>1. r \in Flexible /\ counts[r] \in Nat /\ counts[r] > 1
    BY <1>6, <1>7
  <2>2. counts[r] - 1 \in Nat
    BY <2>1
  <2> QED BY <1>3, <2>1, <2>2
<1>9. /\ r \in Stages /\ r \in Flexible /\ counts[r] \in Nat /\ counts[r] > 1
      /\ counts'[r] = counts[r] - 1
      /\ \A i \in Stages : i # r => counts'[i] = counts[i]
      /\ counts' \in [Stages -> Nat]
  BY <1>1, <1>5, <1>20
<1>10. ASSUME NEW i \in Flexible, NEW j \in Flexible, i # j, counts'[i] > 1
       PROVE  Weight(j) * counts'[i] <= Weight(i) * (counts'[j] + 1)
  <2>1. /\ Weight(i) \in Nat /\ Weight(j) \in Nat /\ counts[i] \in Nat /\ counts[j] \in Nat
        /\ i \in Stages /\ j \in Stages
    BY <1>3
  <2>2. counts[i] > 1
    BY <1>9, <1>10, <2>1
  <2>3. Weight(j) * counts[i] <= Weight(i) * (counts[j] + 1)
    BY <1>1, <1>10, <2>2 DEF Distributed
  <2>4. CASE i = r
    <3>1. Weight(i) * (counts[j] + 1) \in Nat
      BY <2>1
    <3>2. Weight(j) * (counts[i] - 1) <= Weight(i) * (counts[j] + 1)
      BY <2>1, <2>3, <3>1, OneLess
    <3>3. counts'[j] = counts[j] /\ counts'[i] = counts[i] - 1
      BY <1>9, <1>10, <2>1, <2>4
    <3> QED BY <3>2, <3>3
  <2>5. CASE i # r /\ j # r
    <3>1. counts'[j] = counts[j] /\ counts'[i] = counts[i]
      BY <1>9, <2>1, <2>5
    <3> QED BY <2>3, <3>1
  <2>6. CASE j = r
    <3>1. counts'[i] = counts[i] /\ counts'[j] + 1 = counts[j]
      BY <1>9, <1>10, <2>1, <2>6
    <3>2. Weight(j) * counts[i] <= Weight(i) * counts[j]
      <4>1. CASE Weight(i) = 0
        BY <2>1, <2>3, <4>1
      <4>2. CASE Weight(i) # 0
        <5>1. i \in MayShrink /\ low[i] = Weight(i)
          BY <1>6, <2>2, <4>2 DEF MayShrink
        <5>2. counts[i] * low[j] <= counts[j] * Weight(i)
          BY <1>8, <2>6, <5>1
        <5>3. low[j] \in Nat /\ Weight(j) <= low[j]
          BY <1>6, <1>7, <2>1, <2>6
        <5>4. Weight(j) * counts[i] <= low[j] * counts[i]
          BY <2>1, <5>3, TimesOrder
        <5> DEFINE x == Weight(j) * counts[i]
                   y == low[j] * counts[i]
                   z == Weight(i) * counts[j]
        <5>5. /\ x \in Int /\ y \in Int /\ z \in Int
              /\ x <= y /\ y <= z
          BY <2>1, <5>2, <5>3, <5>4
        <5> HIDE DEF x, y, z
        <5>6. x <= z
          BY <5>5
        <5> QED BY <5>6 DEF x, z
      <4> QED BY <4>1, <4>2
    <3> QED BY <3>1, <3>2
  <2> QED BY <2>4, <2>5, <2>6
<1>11. \A i \in Flexible : counts'[i] >= 1 /\ counts'[i] <= NLayers
  BY <1>1, <1>3, <1>9, ModelAssumption
<1>12. Distributed'
  <2>1. \A i, j \in Flexible : i # j /\ counts'[i] > 1 =>
            Weight(j)' * counts'[i] <= Weight(i)' * (counts'[j] + 1)
    BY <1>2, <1>10
  <2> QED BY <1>1, <1>2, <1>11, <2>1 DEF Distributed
<1>13. \A i \in Stages \ Flexible : counts'[i] = nodes[i].layers
  BY <1>1, <1>9
<1> QED BY <1>1, <1>2, <1>9, <1>11, <1>12, <1>13 DEF PlanInv, PlanTypeOK

\* The check of the machines' memory changes no count.
LEMMA CheckStep ==
    ASSUME PlanInv, Check
    PROVE  PlanInv'
<1>1. /\ planning = "adjust" /\ planning' \in {"planned", "refused"}
      /\ nodes' = nodes /\ counts' = counts
      /\ Planned = NLayers
  BY DEF Check
<1>2. /\ Stages' = Stages /\ Flexible' = Flexible /\ AskedFor' = AskedFor
      /\ \A i \in Flexible : Weight(i)' = Weight(i)
  BY <1>1, NodesKept
<1>3. PlanTypeOK' /\ Planned' = Planned
  BY <1>1, <1>2 DEF PlanInv, PlanTypeOK, Planned
<1>4. Distributed => Distributed'
  BY <1>1, <1>2 DEF Distributed
<1> QED BY <1>1, <1>2, <1>3, <1>4 DEF PlanInv

\* The proportional shares, rounded down and raised to one, are balanced.
LEMMA SharesBalanced ==
    ASSUME NEW free \in Nat, NEW total \in Nat \ {0}, NEW v \in Nat, NEW w \in Nat,
           NEW c \in Nat, NEW n \in Nat, NEW d \in Nat,
           c * total <= free * v,               \* c is rounded down,
           free * w < n * total + total,        \* and so is n, but not by one:
           n <= d                               \* d may have been raised
    PROVE  w * c <= v * (d + 1)
<1>1. (c * total) * w <= (free * v) * w
  <2>1. c * total \in Int /\ free * v \in Int
    OBVIOUS
  <2> QED BY <2>1, TimesOrder
<1>2. (free * w) * v <= ((n + 1) * total) * v
  <2>1. free * w \in Int /\ (n + 1) * total \in Int /\ (n + 1) * total = n * total + total
    OBVIOUS
  <2> QED BY <2>1, TimesOrder
<1>3. ((n + 1) * (total * v)) <= (d + 1) * (total * v)
  <2>1. total * v \in Nat /\ n + 1 \in Int /\ d + 1 \in Int /\ n + 1 <= d + 1
    OBVIOUS
  <2> QED BY <2>1, TimesOrder
<1>4. /\ (c * total) * w = (w * c) * total
      /\ (free * v) * w = (free * w) * v
      /\ ((n + 1) * total) * v = (n + 1) * (total * v)
      /\ (d + 1) * (total * v) = (v * (d + 1)) * total
  OBVIOUS
<1> DEFINE x == w * c
           y == v * (d + 1)
           p == (free * w) * v
           q == (n + 1) * (total * v)
<1>5. x \in Int /\ y \in Int /\ p \in Int /\ q \in Int /\ x * total \in Int /\ y * total \in Int
  OBVIOUS
<1>6. x * total <= p /\ p <= q /\ q <= y * total
  BY <1>1, <1>2, <1>3, <1>4
<1> HIDE DEF x, y, p, q
<1>7. x * total <= y * total
  BY <1>5, <1>6
<1>8. x <= y
  BY <1>5, <1>7, TimesCancel
<1> QED BY <1>8 DEF x, y

\* The first distribution is balanced, and one layer each is not too much.
LEMMA WeighStep ==
    ASSUME PlanInv, Weigh
    PROVE  PlanInv'
<1> DEFINE free == NLayers - Planned
           total == Total(Weights, Flexible)
           T == IF total = 0 THEN 1 ELSE total
<1>1. /\ nodes \in Pipelines
      /\ counts \in [Stages -> Nat]
      /\ \A i \in Flexible : counts[i] <= NLayers
      /\ \A i \in Stages \ Flexible : counts[i] = nodes[i].layers
      /\ planning = "weigh" /\ counts = AskedFor
      /\ nodes' = nodes
  BY DEF PlanInv, PlanTypeOK, Weigh
<1>2. /\ Stages' = Stages /\ Flexible' = Flexible /\ AskedFor' = AskedFor
      /\ \A i \in Flexible : Weight(i)' = Weight(i)
  BY <1>1, NodesKept
<1>3. /\ \A i \in Flexible : Weight(i) \in Nat
      /\ Flexible \subseteq Stages /\ IsFiniteSet(Flexible) /\ IsFiniteSet(Stages)
  BY <1>1, StagesFinite, WeightNat
<1>4. CASE free < Cardinality(Flexible)
  <2>1. planning' = "refused" /\ counts' = counts
    BY <1>4 DEF Weigh
  <2> QED BY <1>1, <1>2, <2>1 DEF PlanInv, PlanTypeOK
<1>5. CASE ~(free < Cardinality(Flexible))
  <2>1. /\ planning' = "adjust"
        /\ counts' = [i \in Stages |-> IF i \notin Flexible THEN counts[i] ELSE Proportional(i, free, T)]
    BY <1>5 DEF Weigh
  <2>2. /\ Total(AskedFor, Stages) + Cardinality(Flexible) <= NLayers
        /\ free \in Nat /\ free <= NLayers
    <3>1. Total(counts, Stages) \in Nat
      BY <1>1, <1>3, TotalNat
    <3>2. Cardinality(Flexible) \in Nat
      BY <1>3, FS_CardinalityType
    <3>3. free = NLayers - Total(AskedFor, Stages) /\ Total(AskedFor, Stages) \in Nat
      BY <1>1, <3>1 DEF Planned
    <3> HIDE DEF free
    <3> QED BY <1>5, <3>2, <3>3, ModelAssumption
  <2>3. \A i \in Flexible : Weights[i] = Weight(i) /\ Weights[i] \in Nat
    BY <1>3 DEF Weights
  <2>4. T \in Nat \ {0} /\ \A i \in Flexible : Weight(i) <= T
    <3>1. total \in Nat
      BY <1>3, <2>3, TotalNat
    <3>2. \A i \in Flexible : Weight(i) <= total
      <4>1. \A i \in Flexible : Weights[i] <= total
        BY <1>3, <2>3, TotalAtLeast
      <4> QED BY <2>3, <4>1
    <3> HIDE DEF total
    <3> QED BY <1>3, <3>1, <3>2
  <2> HIDE DEF free, T
  <2> DEFINE n(i) == (free * Weight(i)) \div T
  <2>5. ASSUME NEW i \in Flexible
        PROVE  /\ n(i) \in Nat
               /\ n(i) * T <= free * Weight(i)
               /\ free * Weight(i) < n(i) * T + T
               /\ n(i) <= free
               /\ counts'[i] = IF n(i) = 0 THEN 1 ELSE n(i)
    <3>1. free * Weight(i) \in Nat
      BY <1>3, <2>2
    <3>2. n(i) \in Nat /\ n(i) * T <= free * Weight(i) /\ free * Weight(i) < n(i) * T + T
      BY <2>4, <3>1, QuotientNat
    <3>3. counts'[i] = IF n(i) = 0 THEN 1 ELSE n(i)
      BY <1>3, <2>1 DEF Proportional
    <3> DEFINE q == n(i)
    <3>4. Weight(i) * free <= T * free /\ Weight(i) * free = free * Weight(i) /\ T * free = free * T
      BY <1>3, <2>2, <2>4, TimesOrder
    <3>5. q \in Int /\ q * T <= free * Weight(i) /\ free * Weight(i) <= free * T
      BY <3>2, <3>4
    <3> HIDE DEF q
    <3>6. q <= free
      <4> DEFINE x == q * T
                 y == free * T
                 z == free * Weight(i)
      <4>1. x \in Int /\ y \in Int /\ z \in Int /\ x <= z /\ z <= y
        BY <2>2, <2>4, <3>1, <3>5
      <4> HIDE DEF x, y, z
      <4>2. x <= y
        BY <4>1
      <4>3. q * T <= free * T
        BY <4>2 DEF x, y
      <4> QED BY <2>2, <2>4, <3>5, <4>3, TimesCancel
    <3> QED BY <3>2, <3>3, <3>6 DEF q
  <2> HIDE DEF n
  <2>6. \A i \in Flexible : counts'[i] \in Nat /\ counts'[i] >= 1 /\ counts'[i] <= NLayers
    BY <2>2, <2>5, ModelAssumption
  <2>7. \A i \in Stages \ Flexible : counts'[i] = nodes[i].layers /\ counts'[i] \in Nat
    BY <1>1, <2>1
  <2>8. counts' \in [Stages -> Nat]
    <3>1. \A i \in Stages : counts'[i] \in Nat
      BY <2>6, <2>7
    <3>2. counts' = [i \in Stages |-> counts'[i]]
      BY <2>1
    <3> QED BY <3>1, <3>2
  <2>9. ASSUME NEW i \in Flexible, NEW j \in Flexible, counts'[i] > 1
        PROVE  Weight(j) * counts'[i] <= Weight(i) * (counts'[j] + 1)
    <3>1. counts'[i] = n(i) /\ n(i) * T <= free * Weight(i) /\ n(i) \in Nat
      BY <2>5, <2>9
    <3>2. counts'[j] \in Nat /\ n(j) <= counts'[j] /\ n(j) \in Nat /\ free * Weight(j) < n(j) * T + T
      BY <2>5
    <3>3. Weight(i) \in Nat /\ Weight(j) \in Nat
      BY <1>3
    <3> QED BY <2>2, <2>4, <3>1, <3>2, <3>3, SharesBalanced
  <2>10. Distributed'
    <3>1. \A i, j \in Flexible : i # j /\ counts'[i] > 1 =>
            Weight(j)' * counts'[i] <= Weight(i)' * (counts'[j] + 1)
      BY <1>2, <2>9
    <3> QED BY <1>2, <2>2, <2>6, <3>1 DEF Distributed
  <2> QED BY <1>1, <1>2, <2>1, <2>6, <2>7, <2>8, <2>10 DEF PlanInv, PlanTypeOK
<1> QED BY <1>4, <1>5

LEMMA PlanKept == PlanInv /\ UNCHANGED planVars => PlanInv'
<1> SUFFICES ASSUME PlanInv, nodes' = nodes, counts' = counts, planning' = planning
             PROVE  PlanInv'
  BY DEF planVars
<1>1. /\ Stages' = Stages /\ Flexible' = Flexible /\ AskedFor' = AskedFor
      /\ \A i \in Flexible : Weight(i)' = Weight(i)
  BY NodesKept
<1>2. PlanTypeOK' /\ Planned' = Planned
  BY <1>1 DEF PlanInv, PlanTypeOK, Planned
<1>3. Distributed => Distributed'
  BY <1>1 DEF Distributed
<1> QED BY <1>1, <1>2, <1>3 DEF PlanInv

LEMMA PlanStep == PlanInv /\ [Plan]_planVars => PlanInv'
BY WeighStep, GrowStep, ShrinkStep, CheckStep, PlanKept DEF Plan

\* The invariant is what the two properties ask for.
LEMMA PlanIsBalanced == PlanInv => PlanCovers /\ Balanced
<1> SUFFICES ASSUME PlanInv, planning = "planned"
             PROVE  PlanCovers /\ Balanced
  BY DEF PlanCovers, Balanced
<1>1. nodes \in Pipelines /\ counts \in [Stages -> Nat] /\ Distributed /\ Planned = NLayers
  BY DEF PlanInv, PlanTypeOK
<1>2. \A i \in Stages \ Flexible : counts[i] = nodes[i].layers /\ counts[i] >= 1
  <2>1. \A i \in Stages \ Flexible : counts[i] = nodes[i].layers /\ nodes[i].layers # 0
    BY DEF PlanInv, Flexible
  <2>2. \A i \in Stages : nodes[i].layers \in Nat
    BY <1>1, StagesFinite
  <2> QED BY <2>1, <2>2
<1>3. PlanCovers
  BY <1>1, <1>2 DEF PlanCovers, Distributed
<1>4. ASSUME NEW i \in Flexible, NEW j \in Flexible, i # j, counts[i] > 1
      PROVE  Weight(i) * (counts[j] + 1) >= Weight(j) * counts[i]
  <2>1. Weight(j) * counts[i] <= Weight(i) * (counts[j] + 1)
    BY <1>1, <1>4 DEF Distributed
  <2>2. Weight(i) \in Nat /\ Weight(j) \in Nat /\ counts[i] \in Nat /\ counts[j] \in Nat
    BY <1>1, StagesFinite, WeightNat
  <2>3. Weight(j) * counts[i] \in Int /\ Weight(i) * (counts[j] + 1) \in Int
    BY <2>2
  <2> QED BY <2>1, <2>3
<1> QED BY <1>3, <1>4 DEF Balanced

\* What the actions of the other parts keep.
LEMMA PlanningStep == PlanInv /\ [Next]_vars => PlanInv'
<1> SUFFICES ASSUME PlanInv, [Next]_vars PROVE PlanInv'
  OBVIOUS
<1>1. ASSUME Planner PROVE PlanInv'
  BY <1>1, PlanStep DEF Planner
<1>2. ASSUME UNCHANGED planVars PROVE PlanInv'
  BY <1>2, PlanKept
<1>3. ASSUME NEW s \in Slots, Start(s) \/ Loading(s) \/ Move(s) \/ Request(s)
      PROVE  PlanInv'
  BY <1>2, <1>3 DEF Start, Loading, Move, Request
<1>4. ASSUME Publishing \/ Rotate \/ File PROVE PlanInv'
  BY <1>2, <1>4 DEF Publishing, Rotate, File
<1>5. ASSUME UNCHANGED vars PROVE PlanInv'
  BY <1>2, <1>5 DEF vars
<1> QED BY <1>1, <1>3, <1>4, <1>5 DEF Next

\* Every layer is handed out once and every stage has one, whatever rounding made
\* of the shares (plan_split.py plan).
THEOREM PlanCoversTheModel == Spec => []PlanCovers
<1>1. Init => PlanInv
  BY PlanStart DEF Init
<1> QED BY <1>1, PlanningStep, PlanIsBalanced, PTL DEF Spec

\* No layer of a planned stage would have more memory to itself in another one,
\* though shares are rounded and then corrected (plan_split.py plan).
THEOREM PlanIsFair == Spec => []Balanced
<1>1. Init => PlanInv
  BY PlanStart DEF Init
<1> QED BY <1>1, PlanningStep, PlanIsBalanced, PTL DEF Spec

USE RepoAssumption, TokenAssumption, RotationAssumption

-----------------------------------------------------------------------------
(* The commit and the tensors of the stages *)

\* A stage of the pipeline has the fields that load_stage gives it.
Shaped(l) ==
    l \in [phase : {l.phase}, first : {l.first}, last : {l.last}, revision : {l.revision},
           format : {l.format}, files : {l.files}, read : {l.read}]

\* What a stage that is up has read.  The embeddings may be left out by the last
\* stage that has an lm_head, and the lm_head by one that has the embeddings.
Complete(l) ==
    /\ Read(l) \subseteq Wanted(l)
    /\ Wanted(l) \ Read(l) \subseteq {Embed, LmHead}
    /\ l.first = 0 => Embed \in Read(l)
    /\ l.last = NLayers - 1 => LmHead \in Read(l) \/ Embed \in Read(l)

\* A stage that is being loaded or is up has the layers of the plan, from the
\* commit of the plan, and so has what it has read so far.
Pinned(s, l) ==
    l.phase \in {"index", "files", "up"} =>
        /\ planning = "planned"
        /\ l.first = First(s) /\ l.last = LastLayer(s)
        /\ l.revision = pin
        /\ l.format \in DOMAIN Repo[pin]
        /\ l.read \subseteq [tensor : Tensors, commit : {pin}]
        /\ l.phase = "up" => Complete(l)

Phases == {"off", "index", "files", "up", "failed", "rejected"}

LoadInv ==
    /\ newest \in Commits
    /\ pin \in Commits
    /\ load = [s \in Slots |-> load[s]]
    /\ \A s \in Slots :
          /\ Shaped(load[s])
          /\ load[s].phase \in Phases
          /\ Pinned(s, load[s])
          /\ load[s].phase \notin {"index", "files", "up"} => load[s].read = {}
          /\ load[s].phase # "off" => s \in Stages

\* The layers of a stage are those of the plan as long as it stays.
LEMMA PinnedKept ==
    ASSUME planVars' = planVars, pin' = pin, NEW s, NEW l, Pinned(s, l)
    PROVE  Pinned(s, l)'
<1>1. First(s)' = First(s) /\ LastLayer(s)' = LastLayer(s) /\ planning' = planning
  BY DEF planVars, First, LastLayer
<1> QED BY <1>1 DEF Pinned

\* One stage changes: the others keep what they have.
LEMMA OneStage ==
    ASSUME LoadInv, NEW s \in Slots, NEW l,
           load' = [load EXCEPT ![s] = l],
           Shaped(l), l.phase \in Phases, l.phase # "off" => s \in Stages,
           Pinned(s, l),
           l.phase \notin {"index", "files", "up"} => l.read = {},
           pin' = pin, planVars' = planVars, newest' = newest
    PROVE  LoadInv'
<1>1. load'[s] = l /\ \A r \in Slots : r # s => load'[r] = load[r]
  BY DEF LoadInv
<1>2. load' = [r \in Slots |-> load'[r]]
  BY DEF LoadInv
<1>3. Stages' = Stages
  BY DEF Stages, planVars
<1>4. ASSUME NEW r \in Slots PROVE Pinned(r, load[r])'
  <2>1. CASE r = s
    <3>1. Pinned(s, l)'
      BY PinnedKept
    <3> QED BY <1>1, <2>1, <3>1 DEF Pinned
  <2>2. CASE r # s
    <3>1. Pinned(r, load[r])
      BY DEF LoadInv
    <3> DEFINE m == load[r]
    <3>2. load'[r] = m
      BY <1>1, <2>2
    <3>3. First(r)' = First(r) /\ LastLayer(r)' = LastLayer(r) /\ planning' = planning
      BY DEF planVars, First, LastLayer
    <3> QED BY <3>1, <3>2, <3>3 DEF Pinned
  <2> QED BY <2>1, <2>2
<1>5. ASSUME NEW r \in Slots
      PROVE  /\ Shaped(load'[r]) /\ load'[r].phase \in Phases
             /\ load'[r].phase \notin {"index", "files", "up"} => load'[r].read = {}
             /\ load'[r].phase # "off" => r \in Stages
  <2>1. CASE r = s
    BY <1>1, <2>1
  <2>2. CASE r # s
    BY <1>1, <2>2 DEF LoadInv
  <2> QED BY <2>1, <2>2
<1> QED BY <1>2, <1>3, <1>4, <1>5 DEF LoadInv

\* The first format exists, and after each but the last one the next.
LEMMA FormatsAreThere == pin \in Commits => 1 \in DOMAIN Repo[pin]
                                            /\ \A n \in Nat : n < Len(Repo[pin]) => n + 1 \in DOMAIN Repo[pin]
<1> SUFFICES ASSUME pin \in Commits
             PROVE  1 \in DOMAIN Repo[pin] /\ \A n \in Nat : n < Len(Repo[pin]) => n + 1 \in DOMAIN Repo[pin]
  OBVIOUS
<1> DEFINE q == Repo[pin]
           R == Range(q)
<1>1. q \in Seq(R) /\ q # <<>>
  OBVIOUS
<1> HIDE DEF q, R
<1>2. Len(q) \in Nat /\ DOMAIN q = 1 .. Len(q) /\ Len(q) # 0
  BY <1>1
<1> QED BY <1>2 DEF q

\* A load begins with the layers and the commit of the plan, ...
LEMMA BeginLoad ==
    ASSUME LoadInv, NEW s \in Slots, s \in Stages, planning = "planned",
           Begin(s, First(s), LastLayer(s), pin), pin' = pin, planVars' = planVars
    PROVE  LoadInv'
<1> DEFINE first == First(s)
           last == LastLayer(s)
           phase == IF 0 <= first /\ first <= last /\ last < NLayers THEN "index" ELSE "rejected"
           l == [Off EXCEPT !.phase = phase, !.first = first, !.last = last, !.revision = pin]
<1>1. load' = [load EXCEPT ![s] = l] /\ newest' = newest
  BY DEF Begin
<1>2. phase \in {"index", "rejected"}
  OBVIOUS
<1>3. /\ Shaped(l) /\ l.revision = pin /\ l.read = {} /\ l.format = 1
      /\ l.first = first /\ l.last = last /\ l.phase = phase
  <2> HIDE DEF phase, first, last
  <2> QED BY DEF Shaped, Off
<1> HIDE DEF l, phase
<1>4. l.phase \in Phases /\ l.phase # "up"
  BY <1>2, <1>3 DEF Phases
<1>5. Pinned(s, l)
  BY <1>3, <1>4, FormatsAreThere DEF Pinned, LoadInv
<1> QED BY <1>1, <1>3, <1>4, <1>5, OneStage

\* ... and one that fails leaves nothing.
LEMMA FailLoad ==
    ASSUME LoadInv, NEW s \in Slots, s \in Stages, Fails(s), pin' = pin, planVars' = planVars
    PROVE  LoadInv'
<1> DEFINE l == [Off EXCEPT !.phase = "failed"]
<1>1. load' = [load EXCEPT ![s] = l] /\ newest' = newest
  BY DEF Fails
<1>2. Shaped(l) /\ l.phase = "failed" /\ l.read = {}
  BY DEF Shaped, Off
<1> HIDE DEF l
<1>3. l.phase \in Phases /\ Pinned(s, l)
  BY <1>2 DEF Phases, Pinned
<1> QED BY <1>1, <1>2, <1>3, OneStage

\* What Assemble keeps is complete: nothing was missing.
LEMMA KeptIsComplete ==
    ASSUME NEW l, NEW kept, kept = Kept(l),
           NEW m, m.first = l.first, m.last = l.last, m.read = kept,
           {x \in Wanted(l) \ Read(l) : ~(x = LmHead /\ Tied /\ Embed \in Read(l))} = {}
    PROVE  Complete(m)
<1>1. Wanted(m) = Wanted(l)
  BY DEF Wanted
<1>2. \A x : x \in Read(m) <=> /\ x \in Read(l) /\ x \in Wanted(l)
                               /\ x = Embed => l.first = 0 \/ LmHead \notin Read(l)
  BY DEF Read, Kept
<1>3. Embed # LmHead /\ Embed # Norm
  BY DEF Embed, LmHead, Norm
<1>4. \A x : x \in Wanted(l) /\ x # LmHead => x \in Read(l)
  OBVIOUS
<1>5. LmHead \in Wanted(l) => LmHead \in Read(l) \/ (Tied /\ Embed \in Read(l))
  OBVIOUS
<1>6. /\ l.first = 0 => Embed \in Wanted(l)
      /\ Tied /\ l.last = NLayers - 1 => Embed \in Wanted(l)
      /\ l.last = NLayers - 1 => LmHead \in Wanted(l)
  BY DEF Wanted
<1>7. Read(m) \subseteq Wanted(m)
  BY <1>1, <1>2
<1>8. Wanted(m) \ Read(m) \subseteq {Embed, LmHead}
  BY <1>1, <1>2, <1>4
<1>9. l.first = 0 => Embed \in Read(m)
  BY <1>2, <1>3, <1>4, <1>6
<1>10. l.last = NLayers - 1 => LmHead \in Read(m) \/ Embed \in Read(m)
  BY <1>2, <1>3, <1>5, <1>6
<1> QED BY <1>7, <1>8, <1>9, <1>10 DEF Complete

\* Whatever file arrives or is missing, it is one of the pinned commit.
LEMMA LoadLoad ==
    ASSUME LoadInv, NEW s \in Slots, Load(s), pin' = pin, planVars' = planVars
    PROVE  LoadInv'
<1> DEFINE l == load[s]
<1>1. /\ Shaped(l) /\ Pinned(s, l)
      /\ l.phase # "off" => s \in Stages
      /\ pin \in Commits
  BY DEF LoadInv
<1>2. ASSUME FindFiles(s) PROVE LoadInv'
  <2>1. PICK files :
          /\ l.phase = "index"
          /\ load' = [load EXCEPT ![s].phase = "files", ![s].files = files]
          /\ newest' = newest
    BY <1>2 DEF FindFiles
  <2> DEFINE m == [l EXCEPT !.phase = "files", !.files = files]
  <2>2. load' = [load EXCEPT ![s] = m]
    BY <2>1 DEF LoadInv
  <2>3. /\ Shaped(m) /\ m.phase = "files" /\ m.revision = l.revision /\ m.read = l.read
        /\ m.first = l.first /\ m.last = l.last /\ m.format = l.format
    BY <1>1 DEF Shaped
  <2> HIDE DEF m, l
  <2>4. m.phase \in Phases /\ Pinned(s, m)
    BY <1>1, <2>1, <2>3 DEF Phases, Pinned
  <2> QED BY <1>1, <2>1, <2>2, <2>3, <2>4, OneStage
<1>3. ASSUME NextFormat(s) PROVE LoadInv'
  <2>1. l.phase = "index"
    BY <1>3 DEF NextFormat
  <2>2. CASE Fails(s)
    BY <1>1, <2>1, <2>2, FailLoad
  <2>3. CASE /\ l.format < Len(Repo[At(l.revision)])
             /\ load' = [load EXCEPT ![s].format = @ + 1] /\ UNCHANGED newest
    <3> DEFINE m == [l EXCEPT !.format = @ + 1]
    <3>1. load' = [load EXCEPT ![s] = m] /\ newest' = newest
      BY <2>3 DEF LoadInv
    <3>2. /\ Shaped(m) /\ m.phase = l.phase /\ m.revision = l.revision /\ m.read = l.read
          /\ m.first = l.first /\ m.last = l.last /\ m.format = l.format + 1
      BY <1>1 DEF Shaped
    <3>3. l.format \in Nat
      <4> DEFINE q == Repo[pin]
                 R == Range(q)
      <4>1. q \in Seq(R)
        BY <1>1
      <4>2. l.format \in DOMAIN q
        BY <1>1, <2>1 DEF Pinned
      <4> HIDE DEF q, R, l
      <4> QED BY <4>1, <4>2
    <3>4. l.format + 1 \in DOMAIN Repo[pin]
      <4>1. At(l.revision) = pin
        BY <1>1, <2>1 DEF Pinned, At
      <4>2. l.format < Len(Repo[pin])
        BY <2>3, <4>1
      <4> HIDE DEF l
      <4> QED BY <1>1, <3>3, <4>2, FormatsAreThere
    <3> HIDE DEF m, l
    <3>5. m.phase \in Phases /\ Pinned(s, m)
      BY <1>1, <2>1, <3>2, <3>4 DEF Phases, Pinned
    <3> QED BY <1>1, <2>1, <3>1, <3>2, <3>5, OneStage
  <2> QED BY <1>3, <2>2, <2>3 DEF NextFormat
<1>4. ASSUME FetchFile(s) PROVE LoadInv'
  <2>0. Source(l) = pin /\ l.phase = "files" /\ l.format \in DOMAIN Repo[pin]
    BY <1>1, <1>4 DEF FetchFile, Source, At, Pinned
  <2>1. PICK f \in l.files :
          load' = [load EXCEPT
                ![s].files = @ \ {f},
                ![s].read = @ \cup {[tensor |-> x, commit |-> Source(l)] :
                    x \in {y \in DOMAIN Repo[Source(l)][l.format].file :
                              Repo[Source(l)][l.format].file[y] = f}}]
    BY <1>4 DEF FetchFile
  <2>2. newest' = newest
    BY <1>4 DEF FetchFile
  <2> DEFINE got == {y \in DOMAIN Repo[Source(l)][l.format].file :
                              Repo[Source(l)][l.format].file[y] = f}
             read == l.read \cup {[tensor |-> x, commit |-> Source(l)] : x \in got}
             m == [l EXCEPT !.files = l.files \ {f}, !.read = read]
  <2>3. load' = [load EXCEPT ![s] = m]
    BY <2>1 DEF LoadInv
  <2>4. got \subseteq Tensors
    BY <1>1, <2>0
  <2> HIDE DEF got
  <2>5. read \subseteq [tensor : Tensors, commit : {pin}]
    BY <1>1, <2>0, <2>4 DEF Pinned
  <2> HIDE DEF read
  <2>6. /\ Shaped(m) /\ m.phase = "files" /\ m.revision = l.revision /\ m.read = read
        /\ m.first = l.first /\ m.last = l.last /\ m.format = l.format
    BY <1>1, <2>0 DEF Shaped
  <2> HIDE DEF m, l
  <2>7. m.phase \in Phases /\ Pinned(s, m)
    BY <1>1, <2>0, <2>5, <2>6 DEF Phases, Pinned
  <2> QED BY <1>1, <2>0, <2>2, <2>3, <2>6, <2>7, OneStage
<1>5. ASSUME FileMissing(s) PROVE LoadInv'
  BY <1>1, <1>5, FailLoad DEF FileMissing
<1>6. ASSUME Assemble(s) PROVE LoadInv'
  <2>1. l.phase = "files"
    BY <1>6 DEF Assemble
  <2>2. CASE Fails(s)
    BY <1>1, <2>1, <2>2, FailLoad
  <2>3. CASE /\ {x \in Wanted(l) \ Read(l) : ~(x = LmHead /\ Tied /\ Embed \in Read(l))} = {}
             /\ load' = [load EXCEPT ![s].phase = "up", ![s].read = Kept(l)] /\ UNCHANGED newest
    <3> DEFINE kept == Kept(l)
               m == [l EXCEPT !.phase = "up", !.read = kept]
    <3>1. load' = [load EXCEPT ![s] = m] /\ newest' = newest
      BY <2>3 DEF LoadInv
    <3>2. kept \subseteq [tensor : Tensors, commit : {pin}]
      BY <1>1, <2>1 DEF Pinned, Kept
    <3> HIDE DEF kept
    <3>3. /\ Shaped(m) /\ m.phase = "up" /\ m.revision = l.revision /\ m.read = kept
          /\ m.first = l.first /\ m.last = l.last /\ m.format = l.format
      BY <1>1 DEF Shaped
    <3> HIDE DEF m, l
    <3>4. Complete(m)
      BY <2>3, <3>3, KeptIsComplete DEF kept
    <3>5. m.phase \in Phases /\ Pinned(s, m)
      BY <1>1, <2>1, <3>2, <3>3, <3>4 DEF Phases, Pinned
    <3> QED BY <1>1, <2>1, <3>1, <3>3, <3>5, OneStage
  <2> QED BY <1>6, <2>2, <2>3 DEF Assemble
<1> QED BY <1>2, <1>3, <1>4, <1>5, <1>6 DEF Load

LEMMA LoadStep == LoadInv /\ [Next]_vars => LoadInv'
<1> SUFFICES ASSUME LoadInv, [Next]_vars PROVE LoadInv'
  OBVIOUS
<1>1. ASSUME load' = load, pin' = pin, planVars' = planVars, newest' \in Commits
      PROVE  LoadInv'
  <2>1. ASSUME NEW s \in Slots PROVE Pinned(s, load[s])'
    <3>1. First(s)' = First(s) /\ LastLayer(s)' = LastLayer(s) /\ planning' = planning
      BY <1>1 DEF planVars, First, LastLayer
    <3> QED BY <1>1, <3>1 DEF LoadInv, Pinned
  <2>2. Stages' = Stages
    BY <1>1 DEF planVars, Stages
  <2> QED BY <1>1, <2>1, <2>2 DEF LoadInv
\* While the planner is at work nothing is loaded.
<1>2. ASSUME Planner PROVE LoadInv'
  <2>1. planning # "planned" /\ nodes' = nodes
        /\ load' = load /\ newest' = newest /\ pin' = pin
    BY <1>2 DEF Planner, Plan, Weigh, Grow, Shrink, Check, loadVars
  <2>2. \A s \in Slots : load[s].phase \notin {"index", "files", "up"}
    BY <2>1 DEF LoadInv, Pinned
  <2>3. \A s \in Slots : Pinned(s, load[s])'
    BY <2>1, <2>2 DEF Pinned
  <2>4. Stages' = Stages
    BY <2>1 DEF Stages
  <2> QED BY <2>1, <2>3, <2>4 DEF LoadInv
<1>3. ASSUME NEW s \in Slots, Start(s) \/ Move(s) PROVE LoadInv'
  BY <1>3, BeginLoad DEF Start, Move, Revision, AllUp
<1>4. ASSUME NEW s \in Slots, Loading(s) PROVE LoadInv'
  BY <1>4, LoadLoad DEF Loading
<1>5. ASSUME NEW s \in Slots, Request(s) PROVE LoadInv'
  BY <1>1, <1>5 DEF Request, loadVars, LoadInv
<1>6. ASSUME Publishing PROVE LoadInv'
  BY <1>1, <1>6 DEF Publishing, Publish
<1>7. ASSUME Rotate \/ File PROVE LoadInv'
  BY <1>1, <1>7 DEF Rotate, File, loadVars, LoadInv
<1>8. ASSUME UNCHANGED vars PROVE LoadInv'
  BY <1>1, <1>8 DEF vars, loadVars, LoadInv
<1> QED BY <1>2, <1>3, <1>4, <1>5, <1>6, <1>7, <1>8 DEF Next

LEMMA LoadStart == Init => LoadInv
BY DEF Init, LoadInit, LoadInv, Off, Shaped, Pinned, Phases

\* All running stages are slices of the commit that was planned for, whenever the
\* branch moves and whichever worker is started again (worker_hf.py --revision,
\* hf.py load_stage).
THEOREM StagesAreOfOneModel == Spec => []OneModel
<1>1. LoadInv => OneModel
  BY DEF LoadInv, Pinned, OneModel
<1> QED BY <1>1, LoadStart, LoadStep, PTL DEF Spec

-----------------------------------------------------------------------------
(* The stages as a whole *)

\* The layers of the stages follow each other, from the first to the last one.
LEMMA StagesInOrder ==
    ASSUME PlanInv, planning = "planned"
    PROVE  /\ \A i \in Stages : First(i) \in Nat /\ counts[i] \in Nat /\ counts[i] >= 1
           /\ First(1) = 0 /\ 1 \in Stages
           /\ LastLayer(Len(nodes)) = NLayers - 1 /\ Len(nodes) \in Stages
           /\ \A r, s \in Stages : r < s => LastLayer(r) < First(s)
           /\ \A s \in Stages : s > 1 => s - 1 \in Stages /\ First(s) = LastLayer(s - 1) + 1
<1> DEFINE n == Len(nodes)
<1>1. /\ nodes \in Pipelines /\ counts \in [Stages -> Nat]
      /\ Planned = NLayers /\ PlanCovers
  BY PlanIsBalanced DEF PlanInv, PlanTypeOK
<1>2. Stages = 1 .. n /\ n \in Nat /\ IsFiniteSet(Stages)
  BY <1>1, StagesFinite
<1>3. n # 0
  <2>1. nodes \in Seq([machine : DOMAIN Capacity, layers : Nat]) /\ nodes # <<>>
    BY <1>1, PlanAssumption
  <2> QED BY <2>1
<1>4. \A i \in Nat : i <= n => 1 .. i \subseteq Stages /\ IsFiniteSet(1 .. i)
                               /\ (\A j \in 1 .. i : counts[j] \in Nat)
                               /\ Total(counts, 1 .. i) \in Nat
  <2> SUFFICES ASSUME NEW i \in Nat, i <= n
               PROVE  /\ 1 .. i \subseteq Stages /\ IsFiniteSet(1 .. i)
                      /\ \A j \in 1 .. i : counts[j] \in Nat
                      /\ Total(counts, 1 .. i) \in Nat
    OBVIOUS
  <2>1. 1 .. i \subseteq Stages
    BY <1>2
  <2>2. IsFiniteSet(1 .. i)
    BY FS_Interval
  <2>3. \A j \in 1 .. i : counts[j] \in Nat
    BY <1>1, <2>1
  <2> QED BY <2>1, <2>2, <2>3, TotalNat
<1>5. \A i \in Stages : /\ i \in Nat /\ i - 1 \in Nat /\ i <= n /\ i - 1 <= n /\ i >= 1
  BY <1>2
<1>6. ASSUME NEW i \in Stages
      PROVE  /\ First(i) \in Nat /\ counts[i] \in Nat
             /\ Total(counts, 1 .. i) = counts[i] + First(i)
  <2>1. First(i) \in Nat /\ counts[i] \in Nat
    BY <1>1, <1>4, <1>5 DEF First
  <2>2. i \in 1 .. i /\ (1 .. i) \ {i} = 1 .. i - 1
    BY <1>5
  <2>3. IsFiniteSet(1 .. i) /\ \A j \in 1 .. i : counts[j] \in Int
    BY <1>4, <1>5
  <2>4. Total(counts, 1 .. i) = counts[i] + Total(counts, (1 .. i) \ {i})
    <3> DEFINE S == 1 .. i
               c == counts
    <3> HIDE DEF S, c
    <3>1. IsFiniteSet(S) /\ i \in S /\ \A j \in S : c[j] \in Int
      BY <2>2, <2>3 DEF S, c
    <3>2. Total(c, S) = c[i] + Total(c, S \ {i})
      BY ONLY <3>1, TotalRemove
    <3> QED BY <3>2, Zenon DEF S, c
  <2> QED BY <2>1, <2>2, <2>4 DEF First
<1>7. First(1) = 0
  <2>1. 1 .. 1 - 1 = {}
    OBVIOUS
  <2> QED BY <2>1, TotalEmpty DEF First
<1>8. 1 \in Stages /\ n \in Stages
  BY <1>2, <1>3
<1>9. LastLayer(n) = NLayers - 1
  <2>1. Total(counts, 1 .. n) = NLayers
    BY <1>1, <1>2 DEF Planned
  <2> HIDE DEF n
  <2> QED BY <1>6, <1>8, <2>1 DEF LastLayer
<1>10. ASSUME NEW r \in Stages, NEW s \in Stages, r < s PROVE LastLayer(r) < First(s)
  <2>1. 1 .. r \subseteq 1 .. s - 1
    BY <1>5, <1>10
  <2>2. IsFiniteSet(1 .. s - 1) /\ \A j \in 1 .. s - 1 : counts[j] \in Nat
    BY <1>4, <1>5
  <2>3. Total(counts, 1 .. r) <= First(s)
    BY <2>1, <2>2, TotalPart DEF First
  <2> QED BY <1>6, <2>3 DEF LastLayer
<1>11. ASSUME NEW s \in Stages, s > 1 PROVE s - 1 \in Stages /\ First(s) = LastLayer(s - 1) + 1
  <2>1. s - 1 \in Stages
    BY <1>2, <1>11
  <2>2. First(s) = counts[s - 1] + First(s - 1)
    BY <1>6, <2>1 DEF First
  <2> QED BY <1>6, <2>1, <2>2 DEF LastLayer
<1>12. \A i \in Stages : counts[i] >= 1
  BY <1>1 DEF PlanCovers
<1> QED BY <1>6, <1>7, <1>8, <1>9, <1>10, <1>11, <1>12

\* Every layer is one of some stage.
LEMMA LayerOfAStage ==
    ASSUME PlanInv, planning = "planned", NEW k \in Layers
    PROVE  \E s \in Stages : First(s) <= k /\ k <= LastLayer(s)
<1> DEFINE M == {s \in Stages : k <= LastLayer(s)}
<1>1. k \in Nat /\ k <= NLayers - 1
  BY ModelAssumption DEF Layers
<1>2. Len(nodes) \in M
  BY <1>1, StagesInOrder
<1>3. Stages \subseteq Nat
  <2>1. Stages = 1 .. Len(nodes) /\ Len(nodes) \in Nat
    BY StagesFinite DEF PlanInv, PlanTypeOK
  <2>2. 1 .. Len(nodes) \subseteq Nat
    BY <2>1
  <2> QED BY <2>1, <2>2, Zenon
<1>4. PICK s \in M : \A i \in M : s <= i
  <2>1. M # {} /\ M \subseteq Nat
    BY <1>2, <1>3
  <2> HIDE DEF M
  <2> QED BY <2>1, LeastOf
<1>5. First(s) <= k
  <2>1. CASE s = 1
    BY <1>1, <2>1, StagesInOrder
  <2>2. CASE s # 1
    <3>1. s > 1
      <4>1. Stages = 1 .. Len(nodes) /\ Len(nodes) \in Nat
        BY StagesFinite DEF PlanInv, PlanTypeOK
      <4> QED BY <2>2, <4>1
    <3>2. s - 1 \in Stages /\ First(s) = LastLayer(s - 1) + 1 /\ s \in Nat
      BY <1>3, <3>1, StagesInOrder
    <3>3. s - 1 \notin M
      BY <1>4, <3>2
    <3>4. ~(k <= LastLayer(s - 1))
      BY <3>2, <3>3
    <3>5. LastLayer(s - 1) \in Int
      BY <3>2, StagesInOrder DEF LastLayer
    <3> HIDE DEF M
    <3> QED BY <1>1, <3>2, <3>4, <3>5
  <2> QED BY <2>1, <2>2
<1> QED BY <1>4, <1>5

\* A stage that is up has exactly the layers that were planned for it.
LEMMA LayersOfAStage ==
    ASSUME PlanInv, LoadInv, AllUp, NEW s \in Stages
    PROVE  /\ s \in Slots /\ Complete(load[s])
           /\ load[s].first = First(s) /\ load[s].last = LastLayer(s)
           /\ \A k \in Layers : HasTensor(s, Layer(k)) <=> First(s) <= k /\ k <= LastLayer(s)
<1> DEFINE l == load[s]
<1>1. s \in Slots
  <2>1. nodes \in Pipelines
    BY DEF PlanInv, PlanTypeOK
  <2> QED BY <2>1, SlotsAssumption DEF Stages
<1>2. Complete(l) /\ l.first = First(s) /\ l.last = LastLayer(s)
  BY <1>1 DEF LoadInv, AllUp, Pinned
<1>3. First(s) \in Int /\ LastLayer(s) \in Int
  BY StagesInOrder DEF AllUp, LastLayer
<1>4. ASSUME NEW k \in Layers
      PROVE  HasTensor(s, Layer(k)) <=> First(s) <= k /\ k <= LastLayer(s)
  <2>1. k \in Int
    BY ModelAssumption DEF Layers
  <2>2. \A j : Layer(j) = Layer(k) => j = k
    BY DEF Layer
  <2>3. Layer(k) \notin {Embed, Norm, LmHead}
    BY DEF Layer, Embed, Norm, LmHead
  <2> DEFINE a == First(s)
             b == LastLayer(s)
  <2>4. Layer(k) \in Wanted(l) <=> Layer(k) \in {Layer(j + a) : j \in 0 .. b - a}
    BY <1>2, <2>3 DEF Wanted
  <2>5. Layer(k) \in {Layer(j + a) : j \in 0 .. b - a} <=> a <= k /\ k <= b
    <3>1. a \in Int /\ b \in Int
      BY <1>3
    <3> HIDE DEF a, b
    <3>2. ASSUME a <= k, k <= b PROVE Layer(k) \in {Layer(j + a) : j \in 0 .. b - a}
      <4>1. k - a \in 0 .. b - a /\ (k - a) + a = k
        BY <2>1, <3>1, <3>2
      <4> QED BY <4>1
    <3>3. ASSUME NEW j \in 0 .. b - a, Layer(k) = Layer(j + a) PROVE a <= k /\ k <= b
      <4>1. j + a = k
        BY <2>2, <3>3
      <4> QED BY <3>1, <4>1
    <3> QED BY <3>2, <3>3
  <2>6. Layer(k) \in Read(l) <=> Layer(k) \in Wanted(l)
    BY <1>2, <2>3 DEF Complete
  <2> QED BY <2>4, <2>5, <2>6 DEF HasTensor
<1> QED BY <1>1, <1>2, <1>4

\* When every stage is up they are the whole model, in order, whatever the
\* checkpoint files contain (plan_split.py plan, hf.py load_stage).
THEOREM StagesAreTheWholeModel == Spec => []WholeModel
<1>1. PlanInv /\ LoadInv => WholeModel
  <2> SUFFICES ASSUME PlanInv, LoadInv, AllUp
               PROVE  /\ \A k \in Layers : \E s \in Stages :
                            /\ HasTensor(s, Layer(k))
                            /\ \A r \in Stages \ {s} : ~HasTensor(r, Layer(k))
                            /\ \A r \in Stages, j \in Layers : HasTensor(r, Layer(j)) /\ r < s => j < k
                      /\ HasTensor(1, Embed)
                      /\ HasTensor(Len(nodes), Norm)
                      /\ HasTensor(Len(nodes), LmHead) \/ HasTensor(Len(nodes), Embed)
    BY DEF WholeModel
  <2>1. /\ planning = "planned" /\ Stages \subseteq Int /\ Layers \subseteq Int
        /\ \A i \in Stages : First(i) \in Int /\ LastLayer(i) \in Int
    <3>1. planning = "planned"
      BY DEF AllUp
    <3>2. Stages = 1 .. Len(nodes) /\ Len(nodes) \in Nat
      BY StagesFinite DEF PlanInv, PlanTypeOK
    <3>3. 1 .. Len(nodes) \subseteq Int
      BY <3>2
    <3>4. Layers \subseteq Int
      BY ModelAssumption DEF Layers
    <3>5. \A i \in Stages : First(i) \in Int /\ LastLayer(i) \in Int
      BY <3>1, StagesInOrder DEF LastLayer
    <3> QED BY <3>1, <3>2, <3>3, <3>4, <3>5, Zenon
  <2>2. \A r \in Stages, k \in Layers :
            HasTensor(r, Layer(k)) <=> First(r) <= k /\ k <= LastLayer(r)
    BY LayersOfAStage
  <2>3. \A r, s \in Stages : r < s => LastLayer(r) < First(s)
    BY <2>1, StagesInOrder
  <2>4. ASSUME NEW k \in Layers
        PROVE  \E s \in Stages :
                  /\ HasTensor(s, Layer(k))
                  /\ \A r \in Stages \ {s} : ~HasTensor(r, Layer(k))
                  /\ \A r \in Stages, j \in Layers : HasTensor(r, Layer(j)) /\ r < s => j < k
    <3>1. PICK s \in Stages : First(s) <= k /\ k <= LastLayer(s)
      BY <2>1, LayerOfAStage
    <3>2. HasTensor(s, Layer(k))
      BY <2>2, <3>1
    <3>3. ASSUME NEW r \in Stages, r # s PROVE ~HasTensor(r, Layer(k))
      <4>1. r < s \/ s < r
        BY <2>1, <3>3
      <4>2. LastLayer(r) < First(s) \/ LastLayer(s) < First(r)
        BY <2>3, <4>1
      <4>3. ~(First(r) <= k /\ k <= LastLayer(r))
        BY <2>1, <3>1, <4>2
      <4> QED BY <2>2, <4>3
    <3>4. ASSUME NEW r \in Stages, NEW j \in Layers, HasTensor(r, Layer(j)), r < s PROVE j < k
      <4>1. j <= LastLayer(r) /\ LastLayer(r) < First(s)
        BY <2>2, <2>3, <3>4
      <4> QED BY <2>1, <3>1, <4>1
    <3> QED BY <3>2, <3>3, <3>4
  <2>5. HasTensor(1, Embed)
    <3>1. 1 \in Stages /\ First(1) = 0
      BY <2>1, StagesInOrder
    <3>2. Complete(load[1]) /\ load[1].first = 0
      BY <3>1, LayersOfAStage
    <3> QED BY <3>2 DEF Complete, HasTensor
  <2>6. /\ HasTensor(Len(nodes), Norm)
        /\ HasTensor(Len(nodes), LmHead) \/ HasTensor(Len(nodes), Embed)
    <3> DEFINE n == Len(nodes)
               l == load[n]
    <3>1. n \in Stages /\ LastLayer(n) = NLayers - 1
      BY <2>1, StagesInOrder
    <3>2. Complete(l) /\ l.last = NLayers - 1
      BY <3>1, LayersOfAStage
    <3>3. Norm \in Wanted(l) /\ Norm \notin {Embed, LmHead}
      BY <3>2 DEF Wanted, Norm, Embed, LmHead
    <3> QED BY <3>2, <3>3 DEF Complete, HasTensor
  <2> QED BY <2>4, <2>5, <2>6
<1>2. Init => PlanInv /\ LoadInv
  BY PlanStart, LoadStart DEF Init
<1> QED BY <1>1, <1>2, PlanningStep, LoadStep, PTL DEF Spec

-----------------------------------------------------------------------------
(* The token file *)

\* A reload that is under way was begun after the last one that was completed,
\* and no modification time is ahead of the file's.
TokenInv ==
    /\ mtime \in Nat /\ seen \in Nat
    /\ seen <= mtime
    /\ \A time \in reading : time \in Nat /\ time <= mtime
    /\ CacheCoherent

LEMMA EditToken ==
    ASSUME TokenInv, NEW tokens, Edit(tokens)
    PROVE  TokenInv'
<1>1. mtime' = mtime + 1 /\ UNCHANGED relayTokens
  BY DEF Edit, Edited
<1> QED BY <1>1 DEF TokenInv, relayTokens, CacheCoherent

LEMMA TokenStep == TokenInv /\ [Next]_vars => TokenInv'
<1> SUFFICES ASSUME TokenInv, [Next]_vars PROVE TokenInv'
  OBVIOUS
<1>1. ASSUME UNCHANGED tokenVars PROVE TokenInv'
  BY <1>1 DEF tokenVars, TokenInv, CacheCoherent
<1>2. ASSUME Rotate PROVE TokenInv'
  BY <1>2, EditToken DEF Rotate
<1>3. ASSUME EndEdit PROVE TokenInv'
  <2>1. mtime' = mtime + 1 /\ UNCHANGED relayTokens
    BY <1>3 DEF EndEdit, Edited
  <2> QED BY <2>1 DEF TokenInv, relayTokens, CacheCoherent
<1>4. ASSUME Glitch PROVE TokenInv'
  BY <1>4 DEF Glitch, relayTokens, TokenInv, CacheCoherent
<1>5. ASSUME Interval PROVE TokenInv'
  BY <1>5 DEF Interval, TokenInv, CacheCoherent
<1>6. ASSUME Stat PROVE TokenInv'
  BY <1>6 DEF Stat, TokenInv, CacheCoherent
<1>7. ASSUME Reread PROVE TokenInv'
  BY <1>7 DEF Reread, Stamped, TokenInv, CacheCoherent
<1>8. ASSUME File PROVE TokenInv'
  BY <1>3, <1>4, <1>5, <1>6, <1>7, <1>8 DEF File, Editor, Reload
<1>9. ASSUME NEW s \in Slots, Start(s) \/ Loading(s) \/ Move(s) \/ Request(s)
      PROVE  TokenInv'
  BY <1>1, <1>9 DEF Start, Loading, Move, Request
<1>10. ASSUME Planner \/ Publishing PROVE TokenInv'
  BY <1>1, <1>10 DEF Planner, Publishing
<1>11. ASSUME UNCHANGED vars PROVE TokenInv'
  BY <1>1, <1>11 DEF vars
<1> QED BY <1>2, <1>8, <1>9, <1>10, <1>11 DEF Next

LEMMA TokenStart == Init => TokenInv
BY DEF Init, TokenInit, TokenInv, CacheCoherent

\* No edit of the token file is missed for good, however it falls between the
\* stat and the read of a reload (auth.py TokenSet._reload).
THEOREM TokensAreCoherent == Spec => []CacheCoherent
<1>1. TokenInv => CacheCoherent
  BY DEF TokenInv
<1> QED BY <1>1, TokenStart, TokenStep, PTL DEF Spec

-----------------------------------------------------------------------------
(* Token rotation *)

\* What the file is to contain once nobody writes to it.
Target == IF rest = Whole THEN file ELSE rest

\* A worker's token is in the file that is wanted, and the relay accepts it
\* unless it read a file that was being written.
RotationInv ==
    /\ TokenInv
    /\ LoadInv
    /\ token \in [Slots -> {Old, New}]
    /\ \A s \in Slots \cap Stages :
          /\ token[s] \in ToSet(Target)
          /\ torn \/ token[s] \in accepted

LEMMA AddingTokens == ToSet(Adding) = {Old, New}
BY DEF ToSet, Adding

LEMMA EditTarget ==
    ASSUME NEW tokens \in Seq(Tokens), Edit(tokens)
    PROVE  Target' = tokens /\ accepted' = accepted /\ torn' = torn
<1>1. tokens # Whole
  OBVIOUS
<1> QED BY <1>1 DEF Edit, Edited, Target, relayTokens

LEMMA RotationStep == RotationInv /\ [Next]_vars => RotationInv'
<1> SUFFICES ASSUME RotationInv, [Next]_vars PROVE RotationInv'
  OBVIOUS
<1>1. TokenInv /\ TokenInv' /\ LoadInv /\ LoadInv'
  BY TokenStep, LoadStep DEF RotationInv
<1>2. ASSUME token' = token, Stages' = Stages, Target' = Target,
             accepted' = accepted, torn' = torn
      PROVE  RotationInv'
  BY <1>1, <1>2 DEF RotationInv
<1>3. ASSUME nodes' = nodes PROVE Stages' = Stages
  BY <1>3 DEF Stages
<1>4. ASSUME UNCHANGED tokenVars PROVE Target' = Target /\ accepted' = accepted /\ torn' = torn
  BY <1>4 DEF tokenVars, Target
<1>5. ASSUME Planner PROVE RotationInv'
  <2>1. nodes' = nodes
    BY <1>5 DEF Planner, Plan, Weigh, Grow, Shrink, Check
  <2> QED BY <1>2, <1>3, <1>4, <1>5, <2>1 DEF Planner
<1>6. ASSUME NEW s \in Slots, Start(s) \/ Loading(s) \/ Request(s) PROVE RotationInv'
  BY <1>2, <1>3, <1>4, <1>6 DEF Start, Loading, Request, planVars
<1>7. ASSUME NEW s \in Slots, Move(s) PROVE RotationInv'
  <2>1. /\ file = Adding /\ rest = Whole /\ seen = mtime
        /\ token' = [token EXCEPT ![s] = New]
        /\ nodes' = nodes /\ UNCHANGED tokenVars
    BY <1>7 DEF Move, Added, planVars
  <2>2. accepted = {Old, New} /\ ToSet(Target) = {Old, New}
    BY <1>1, <2>1, AddingTokens DEF TokenInv, CacheCoherent, Target
  <2>3. /\ ToSet(Target)' = {Old, New} /\ accepted' = {Old, New}
        /\ Stages' = Stages
    BY <1>3, <1>4, <2>1, <2>2
  <2>4. token' \in [Slots -> {Old, New}]
    BY <2>1 DEF RotationInv
  <2> QED BY <1>1, <2>3, <2>4 DEF RotationInv
<1>8. ASSUME Publishing PROVE RotationInv'
  BY <1>2, <1>3, <1>4, <1>8 DEF Publishing, planVars
<1>9. ASSUME Rotate PROVE RotationInv'
  <2>1. nodes' = nodes /\ token' = token
    BY <1>9 DEF Rotate, planVars
  <2>2. CASE Edit(Adding)
    <3>1. Adding \in Seq(Tokens)
      BY DEF Adding
    <3>2. Target' = Adding /\ accepted' = accepted /\ torn' = torn
      BY <2>2, <3>1, EditTarget
    <3> QED BY <1>1, <1>3, <2>1, <3>2, AddingTokens DEF RotationInv
  <2>3. CASE (\A s \in Stages : token[s] = New) /\ Edit(<<New>>)
    <3>1. <<New>> \in Seq(Tokens) /\ New \in ToSet(<<New>>)
      BY DEF ToSet
    <3>2. Target' = <<New>> /\ accepted' = accepted /\ torn' = torn
      BY <2>3, <3>1, EditTarget
    <3> QED BY <1>1, <1>3, <2>1, <2>3, <3>1, <3>2 DEF RotationInv
  <2> QED BY <1>9, <2>2, <2>3 DEF Rotate
<1>10. ASSUME File PROVE RotationInv'
  <2>1. nodes' = nodes /\ token' = token
    BY <1>10 DEF File, planVars
  <2>2. CASE EndEdit
    BY <1>2, <1>3, <2>1, <2>2 DEF EndEdit, Edited, Target, relayTokens
  <2>3. CASE Glitch \/ Interval \/ Stat
    BY <1>2, <1>3, <2>1, <2>3 DEF Glitch, Interval, Stat, Target, relayTokens
  <2>4. CASE Reread
    <3>1. /\ Target' = Target
          /\ accepted' = IF readable THEN ToSet(file) ELSE accepted
          /\ torn' = IF readable THEN rest # Whole ELSE torn
      BY <2>4 DEF Reread, Target
    <3> QED BY <1>1, <1>3, <2>1, <3>1 DEF RotationInv, Target
  <2> QED BY <1>10, <2>2, <2>3, <2>4 DEF File, Editor, Reload
<1>11. ASSUME UNCHANGED vars PROVE RotationInv'
  BY <1>2, <1>3, <1>4, <1>11 DEF vars, planVars
<1> QED BY <1>5, <1>6, <1>7, <1>8, <1>9, <1>10, <1>11 DEF Next

LEMMA RotationStart == Init => RotationInv
BY TokenStart, LoadStart DEF Init, TokenInit, RotationInv, Target

\* No worker is refused during a rotation, unless the relay read a token file that
\* was being rewritten in place (docs/architecture.md; auth.py TokenSet).
THEOREM RotationHasNoDowntime == Spec => NoDowntime
<1>1. RotationInv /\ [Next]_vars => [refused' \subseteq refused \/ torn]_vars
  <2> SUFFICES ASSUME RotationInv, Next PROVE refused' \subseteq refused \/ torn
    OBVIOUS
  <2>1. ASSUME NEW s \in Slots, Request(s) PROVE torn
    <3>1. load[s].phase = "up" /\ token[s] \notin accepted
      BY <2>1 DEF Request, Accepts
    <3> QED BY <3>1 DEF RotationInv, LoadInv
  <2>2. ASSUME NEW s \in Slots, Start(s) \/ Loading(s) \/ Move(s)
        PROVE  refused' \subseteq refused
    BY <2>2 DEF Start, Loading, Move
  <2>3. ASSUME Planner \/ Publishing \/ Rotate \/ File PROVE refused' \subseteq refused
    BY <2>3 DEF Planner, Publishing, Rotate, File
  <2> QED BY <2>1, <2>2, <2>3 DEF Next
<1> QED BY <1>1, RotationStart, RotationStep, PTL DEF Spec, NoDowntime

-----------------------------------------------------------------------------
(* Types *)

\* What is in the token file, or is still to be written, are tokens.
FileInv ==
    /\ file \in Seq(Tokens)
    /\ rest = Whole \/ rest \in Seq(Tokens)
    /\ accepted \subseteq Tokens
    /\ token \in [Slots -> Tokens]
    /\ refused \subseteq Slots

\* An edit leaves tokens in the file, also if a part of them is still to come.
LEMMA EditedFile ==
    ASSUME FileInv, NEW tokens \in Seq(Tokens), Edit(tokens)
    PROVE  /\ file' \in Seq(Tokens)
           /\ rest' = Whole \/ rest' \in Seq(Tokens)
           /\ accepted' = accepted
<1>1. CASE Edited(tokens) /\ rest' = Whole /\ UNCHANGED relayTokens
  BY <1>1 DEF Edited, relayTokens
<1>2. CASE /\ \E part \in Prefixes(tokens) \ {tokens} : Edited(part)
           /\ rest' = tokens /\ UNCHANGED relayTokens
  <2>1. PICK part \in Prefixes(tokens) : Edited(part)
    BY <1>2
  <2>2. PICK n \in 0 .. Len(tokens) : part = SubSeq(tokens, 1, n)
    BY <2>1 DEF Prefixes
  <2>3. part \in Seq(Tokens)
    BY <2>2
  <2> QED BY <1>2, <2>1, <2>3 DEF Edited, relayTokens
<1> QED BY <1>1, <1>2 DEF Edit

LEMMA FileStep == FileInv /\ [Next]_vars => FileInv'
<1> SUFFICES ASSUME FileInv, [Next]_vars PROVE FileInv'
  OBVIOUS
<1>1. ASSUME UNCHANGED tokenVars, token' = token, refused' \subseteq Slots PROVE FileInv'
  BY <1>1 DEF FileInv, tokenVars
<1>2. ASSUME Rotate PROVE FileInv'
  <2>1. <<New>> \in Seq(Tokens) /\ Adding \in Seq(Tokens)
    BY DEF Adding
  <2>2. token' = token /\ refused' = refused
    BY <1>2 DEF Rotate
  <2>3. Edit(Adding) \/ Edit(<<New>>)
    BY <1>2 DEF Rotate
  <2> QED BY <2>1, <2>2, <2>3, EditedFile DEF FileInv
<1>3. ASSUME File PROVE FileInv'
  <2>1. token' = token /\ refused' = refused
    BY <1>3 DEF File
  <2>2. CASE EndEdit
    BY <2>1, <2>2 DEF EndEdit, Edited, FileInv, relayTokens
  <2>3. CASE Glitch \/ Interval \/ Stat
    BY <2>1, <2>3 DEF Glitch, Interval, Stat, FileInv, relayTokens
  <2>4. CASE Reread
    <3>1. ToSet(file) \subseteq Tokens
      BY DEF ToSet, FileInv
    <3> QED BY <2>1, <2>4, <3>1 DEF Reread, FileInv
  <2> QED BY <1>3, <2>2, <2>3, <2>4 DEF File, Editor, Reload
<1>4. ASSUME NEW s \in Slots, Start(s) \/ Loading(s) \/ Request(s) PROVE FileInv'
  BY <1>1, <1>4 DEF Start, Loading, Request, FileInv
<1>5. ASSUME NEW s \in Slots, Move(s) PROVE FileInv'
  <2>1. UNCHANGED tokenVars /\ refused' \subseteq Slots
    BY <1>5 DEF Move, FileInv
  <2>2. token' \in [Slots -> Tokens]
    BY <1>5 DEF Move, FileInv
  <2> QED BY <2>1, <2>2 DEF FileInv, tokenVars
<1>6. ASSUME Planner \/ Publishing PROVE FileInv'
  BY <1>1, <1>6 DEF Planner, Publishing, FileInv
<1>7. ASSUME UNCHANGED vars PROVE FileInv'
  BY <1>1, <1>7 DEF vars, FileInv
<1> QED BY <1>2, <1>3, <1>4, <1>5, <1>6, <1>7 DEF Next

LEMMA FileStart == Init => FileInv
BY DEF Init, TokenInit, FileInv, ToSet

\* The counts, stages, files and tokens have the values their types say; in
\* particular no flexible stage gets more layers than the model has.
THEOREM TypeCorrect == Spec => []TypeOK
<1>1. PlanInv /\ LoadInv /\ FileInv => TypeOK
  <2> SUFFICES ASSUME PlanInv, LoadInv, FileInv PROVE TypeOK
    OBVIOUS
  <2>1. ASSUME NEW s \in Slots
        PROVE  /\ load[s].phase \in {"off", "index", "files", "up", "failed", "rejected"}
               /\ load[s].read \subseteq [tensor : Tensors, commit : Commits]
    <3>1. load[s].read \subseteq [tensor : Tensors, commit : {pin}] \/ load[s].read = {}
      BY DEF LoadInv, Pinned
    <3>2. pin \in Commits /\ load[s].phase \in Phases
      BY DEF LoadInv
    <3> QED BY <3>1, <3>2 DEF Phases
  <2>2. newest \in Commits /\ pin \in Commits
    BY DEF LoadInv
  <2> QED BY <2>1, <2>2 DEF TypeOK, LoadTypeOK, PlanInv, FileInv
<1>2. Init => PlanInv /\ LoadInv /\ FileInv
  BY PlanStart, LoadStart, FileStart DEF Init
<1> QED BY <1>1, <1>2, PlanningStep, LoadStep, FileStep, PTL DEF Spec
=============================================================================
