----------------------------- MODULE PlanSplit -----------------------------
(***************************************************************************)
(* The planner (examples/plan_split.py): which layers each machine holds.  *)
(* Stages with a fixed number of layers keep it; the others share the rest *)
(* in proportion to the memory their machines have left, and what rounding *)
(* leaves over is handed out, or taken back, one layer at a time.          *)
(*                                                                         *)
(* Memory is counted in whole units, and weights are multiplied by Parts   *)
(* and NLayers so that the quotients of the code are whole numbers.        *)
(***************************************************************************)
EXTENDS ModelShape, Sequences, FiniteSets, FiniteSetsExt

CONSTANTS
    LayerCost,      \* LayerCost[k]: memory of the weights of layer k
    CacheCost,      \* memory of the KV cache of one layer
    EmbedCost,      \* memory of the embeddings
    HeadCost,       \* memory of the final norm and lm_head
    Capacity,       \* Capacity[m]: memory of machine m, less the headroom
    Pipelines,      \* what --nodes may say: the stages, each with its machine
                    \* and a number of layers, 0 if that is left to the planner
    Parts           \* a common multiple of the numbers of stages a machine may have

ASSUME PlanAssumption ==
    /\ LayerCost \in [Layers -> Nat]
    /\ {CacheCost, EmbedCost, HeadCost} \subseteq Nat
    /\ \A m \in DOMAIN Capacity : Capacity[m] \in Nat
    /\ Pipelines \subseteq Seq([machine : DOMAIN Capacity, layers : Nat]) \ {<<>>}
    /\ Parts \in Nat \ {0}
    /\ \A p \in Pipelines : \A n \in DOMAIN p : Parts % n = 0

VARIABLES
    nodes,      \* the stages that were asked for
    counts,     \* counts[i]: the number of layers of stage i
    planning    \* how far the planner is

planVars == <<nodes, counts, planning>>

Stages == DOMAIN nodes
Flexible == {i \in Stages : nodes[i].layers = 0}
On(m) == {i \in Stages : nodes[i].machine = m}
Total(f, S) == MapThenSumSet(LAMBDA i : f[i], S)
Planned == Total(counts, Stages)

\* Memory of a stage besides its layers; the last one has its own copy of a tied
\* matrix.
FixedCost(i) ==
      (IF i = 1 THEN EmbedCost ELSE 0)
    + (IF i = Len(nodes) THEN HeadCost + (IF Tied THEN EmbedCost ELSE 0) ELSE 0)

\* NLayers times the memory machine m has left after the fixed costs.
Left(m) ==
    LET average == Total(LayerCost, Layers) + NLayers * CacheCost
    IN  NLayers * Capacity[m]
        - Total([i \in On(m) |-> NLayers * FixedCost(i) + nodes[i].layers * average],
                On(m))

\* The weight of a flexible stage: its share of what its machine has left.
Weight(i) ==
    LET m == nodes[i].machine
        share == Parts \div Cardinality(On(m) \cap Flexible)
    IN  IF Left(m) > 0 THEN Left(m) * share ELSE 0

Weights == [i \in Flexible |-> Weight(i)]

PlanInit ==
    /\ nodes \in Pipelines
    /\ counts = [i \in DOMAIN nodes |-> nodes[i].layers]
    /\ planning = "weigh"

\* Mutant: a stage that gets no layer by its weight gets none.
ProportionalOnly(i, free, total) == (free * Weight(i)) \div total

\* Mutant: the weights are not divided by their sum.
NotNormalized(i, free, total) == IF Weight(i) = 0 THEN 1 ELSE free * Weight(i)

\* A flexible stage gets layers in proportion to its weight, and at least one.
Proportional(i, free, total) ==
    LET n == (free * Weight(i)) \div total
    IN  IF n = 0 THEN 1 ELSE n

\* The first distribution, or a refusal: the fixed counts leave too few layers.
Weigh ==
    LET free == NLayers - Planned
        total == Total(Weights, Flexible)
    IN  /\ planning = "weigh"
        /\ IF free < Cardinality(Flexible)
           THEN planning' = "refused" /\ UNCHANGED counts
           ELSE /\ planning' = "adjust"
                /\ counts' = [i \in Stages |->
                      IF i \notin Flexible THEN counts[i]
                      ELSE Proportional(i, free, IF total = 0 THEN 1 ELSE total)]
        /\ UNCHANGED nodes

\* Mutant: the first stage, whatever its quotient.
FirstOfAll(S, high, low) == CHOOSE i \in S : \A j \in S : i <= j

\* The first stage of S with the largest quotient high[i] / low[i].
FirstLargest(S, high, low) ==
    CHOOSE i \in S : \A j \in S :
        \/ high[i] * low[j] > high[j] * low[i]
        \/ high[i] * low[j] = high[j] * low[i] /\ i <= j

\* A layer goes to the stage with the most spare memory per layer.  If every
\* count is fixed there is none, and max() of nothing raises.
Grow ==
    /\ planning = "adjust"
    /\ Planned < NLayers
    /\ IF Flexible = {}
       THEN planning' = "crashed" /\ UNCHANGED counts
       ELSE LET best == FirstLargest(Flexible, Weights,
                                     [i \in Flexible |-> counts[i] + 1])
            IN  counts' = [counts EXCEPT ![best] = @ + 1] /\ UNCHANGED planning
    /\ UNCHANGED nodes

\* Mutant: the only layer of a stage may be taken.
MayShrinkAny == Flexible

MayShrink == {i \in Flexible : counts[i] > 1}

\* A layer is taken from the stage that has the least memory per layer.
Shrink ==
    /\ planning = "adjust"
    /\ Planned > NLayers
    /\ LET worst == FirstLargest(MayShrink, counts,
                        [i \in MayShrink |-> IF Weight(i) = 0 THEN 1 ELSE Weight(i)])
       IN  counts' = [counts EXCEPT ![worst] = @ - 1]
    /\ UNCHANGED <<nodes, planning>>

First(i) == Total(counts, 1 .. i - 1)
LastLayer(i) == First(i) + counts[i] - 1

\* The estimated memory of stage i.
Used(i) ==
    FixedCost(i) + Total(LayerCost, First(i) .. LastLayer(i)) + counts[i] * CacheCost

\* All the stages of a machine share its memory.
Fits(m) == Total([i \in On(m) |-> Used(i)], On(m)) <= Capacity[m]

Check ==
    /\ planning = "adjust"
    /\ Planned = NLayers
    /\ planning' = IF \A i \in Stages : Fits(nodes[i].machine) THEN "planned" ELSE "refused"
    /\ UNCHANGED <<nodes, counts>>

Plan == Weigh \/ Grow \/ Shrink \/ Check
-----------------------------------------------------------------------------
PlanTypeOK ==
    /\ nodes \in Pipelines
    /\ counts \in [Stages -> Nat]
    /\ \A i \in Flexible : counts[i] <= NLayers
    /\ planning \in {"weigh", "adjust", "planned", "refused", "crashed"}

\* The planner's loops end with every layer handed out once and none twice, no
\* stage without a layer, and the fixed counts as they were asked for: whatever
\* rounding and the minimum of one layer made of the proportional shares.
PlanCovers ==
    planning = "planned" =>
        /\ Planned = NLayers
        /\ \A i \in Stages : counts[i] >= 1
        /\ \A i \in Stages \ Flexible : counts[i] = nodes[i].layers

\* The shares are balanced: no layer of a stage that has several would have more
\* memory to itself in another stage, though the first distribution rounds down,
\* is raised to one layer and is corrected layer by layer.
Balanced ==
    planning = "planned" =>
        \A i, j \in Flexible : i # j /\ counts[i] > 1 =>
            Weight(i) * (counts[j] + 1) >= Weight(j) * counts[i]
=============================================================================
