---------------------------- MODULE MCGeneration ----------------------------
(* Small instances of Generation for TLC. *)
EXTENDS Generation

CONSTANTS w1, w2, w3, g

\* One role with two replicas, and a second role with one worker.
OneRole == [w \in {w1, w2} |-> 1]
TwoRoles == [w \in {w1, w2, w3} |-> IF w = w3 THEN 2 ELSE 1]

\* One of the replicas may be faulty.
None == {{}}
OneOrNone == {{}, {w2}}

Replicas == Permutations({w1, w2})
=============================================================================
