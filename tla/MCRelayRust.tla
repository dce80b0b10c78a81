---------------------------- MODULE MCRelayRust ----------------------------
(* Small instances of RelayRust for TLC. *)
EXTENDS RelayRust, TLC

CONSTANTS w1, w2, s1, a, b

\* Replicas of the role a; nobody serves b.
AllOneRole == [w \in Workers |-> {a}]
Chain == {[path |-> <<a, b>>, session |-> s1]}
One == {1}

Replicas == Permutations({w1, w2})

\* States that differ only in objects nobody refers to, and in reports on finished
\* tasks, are one state to TLC.
Open(t) == tasks[t] # NoTask /\ tasks[t].status \in R!Unfinished
LiveHeld == [w \in Workers |-> {t \in held[w] : t \in known /\ Open(t)}]
Live == <<nodes, [t \in TaskId |-> IF t \in known THEN tasks[t] ELSE NoTask], known,
          queues, affinity, silent, LiveHeld, issued, submits, permit, listeners, polls>>
=============================================================================
