--------------------------- MODULE MCSpeculative ---------------------------
(* Small instances of Speculative for TLC. *)
EXTENDS Speculative

CONSTANTS w1, w2, g

\* One worker for each of two roles, or one role.
TwoRoles == [w \in {w1, w2} |-> IF w = w1 THEN 1 ELSE 2]
OneRole == [w \in {w1} |-> 1]

\* No worker is faulty.
None == {{}}
=============================================================================
