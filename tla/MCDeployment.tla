---------------------------- MODULE MCDeployment ---------------------------
(* A small instance of Deployment for TLC. *)
EXTENDS Deployment, TLC

CONSTANTS ann, bob, old, new

\* Four layers; ann has more memory than bob.
Costs == [k \in 0 .. 3 |-> IF k = 0 THEN 30 ELSE 20]
Memory == (ann :> 220) @@ (bob :> 90)

OldOnly == <<old>>

Stage(m, n) == [machine |-> m, layers |-> n]

\* One, two or three stages, on one machine or two, fixed and flexible.
Requested ==
    {<<Stage(m, n)>> : m \in {ann, bob}, n \in {0, 4}}
    \cup {<<Stage(m, i), Stage(n, j)>> : m, n \in {ann, bob}, i, j \in 0 .. 2}
    \cup {<<Stage(bob, i), Stage(ann, 0), Stage(bob, j)>> : i, j \in 0 .. 1}
    \cup {<<Stage(ann, i), Stage(bob, 0), Stage(ann, i)>> : i \in 0 .. 1}
    \cup {<<Stage(ann, 4), Stage(bob, 0)>>}

\* Commit 1 is in two files, or in a .bin; commit 2 is split elsewhere and has
\* the tied head once more, and its .bin is of another kind of model.
Split(tensors, k) ==
    [x \in tensors |-> IF x.part = "embed" \/ (x.part = "layer" /\ x.index < k) THEN "one" ELSE "two"]
Single(tensors) == [x \in tensors |-> "bin"]

Repository ==
    <<<<[indexed |-> TRUE, file |-> Split(Tensors \ {LmHead}, 2)],
        [indexed |-> FALSE, file |-> Single(Tensors \ {LmHead})]>>,
      <<[indexed |-> TRUE, file |-> Split(Tensors, 1)],
        [indexed |-> FALSE, file |-> Single({Embed, LmHead})]>>>>
=============================================================================
