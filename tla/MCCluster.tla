----------------------------- MODULE MCCluster -----------------------------
(* A small instance of Cluster for TLC. *)
EXTENDS Cluster, TLC

CONSTANTS w1, w2, s1, a, c1, c2, c3, c4

AllOneRole == [w \in Workers |-> {a}]

\* c1 and c2 are of a session, and c2 passes twice through the role; c1 and c3,
\* and c3 and c4, can be one batch.
Routes == [c \in Calls |-> [path |-> IF c = c2 THEN <<a, a>> ELSE <<a>>,
                            session |-> IF c \in {c1, c2} THEN s1 ELSE NoSession]]

AloneOrBatch == {[calls |-> {c1}, faults |-> 2], [calls |-> {c2}, faults |-> 1],
                 [calls |-> {c1, c3}, faults |-> 1],
                 [calls |-> {c3, c4}, faults |-> 1]}

Batch == {2}
=============================================================================
