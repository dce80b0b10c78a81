------------------------------ MODULE MCRelay ------------------------------
(***************************************************************************)
(* Small instances of Relay for TLC.                                       *)
(***************************************************************************)
EXTENDS Relay, TLC

CONSTANTS w1, w2, w3, s1, a, b

VARIABLE fleet      \* the workers of a behaviour, and what its clients submit

\* All workers serve the role a; w3 serves b and the others a.
AllOneRole == [w \in Workers |-> {a}]
OneRoleEach == [w \in Workers |-> IF w = w3 THEN {b} ELSE {a}]

Of(paths, sessions) == {[path |-> p, session |-> s] : p \in paths, s \in sessions}

NoChain == Of({<<a>>}, {NoSession})
SessionOrChain == Of({<<a>>}, {s1}) \cup Of({<<a, b, a>>}, {NoSession})

\* Two replicas with tasks of one session, or a chain over two roles.
Fleets ==
    {f \in [workers : {{w1, w2}, {w1, w3}, {w2, w3}}, path : {<<a>>, <<a, b, a>>}] :
        f.workers \subseteq Workers /\ (w3 \in f.workers <=> f.path = <<a, b, a>>)}

\* The workers that serve the same role are interchangeable.
Replicas == Permutations({w1, w2})

FleetNext ==
    /\ \/ \E w \in fleet.workers :
            \/ WorkerStep(w)
            \/ Silence(w)
            \/ \E t \in TaskId : Abandon(w, t)
            \/ \E r \in Roles, o \in Owners : PollCancelled(w, r, o)
       \/ \E q \in Requests : q.path = fleet.path /\ Submit(q)
       \/ Janitor
       \/ Restart
    /\ UNCHANGED fleet

FleetInit == Init /\ fleet \in Fleets

FleetSpec == FleetInit /\ [][FleetNext]_<<vars, fleet>>

One == {1}
Two == {2}

\* Two states that differ only in what no handler can act on any more are one
\* state to TLC: objects nobody refers to, and reports on finished tasks.
Open(t) == tasks[t] # NoTask /\ tasks[t].status \in Unfinished
Pending(f) == \E t \in {f[1], tasks[f[1]].root} : ~tasks[t].done
LiveHeld == [w \in Workers |-> {t \in held[w] : Open(t)}]
LiveFailing == {f \in failing : Pending(f)}
Referred(t) == \/ t \in known
               \/ \E w \in Workers : t \in LiveHeld[w] \/ <<t, w>> \in LiveFailing
Live == <<nodes, [t \in TaskId |-> IF Referred(t) THEN tasks[t] ELSE NoTask],
          known, queues, affinity, silent, LiveFailing, LiveHeld, issued, submits, fleet>>
=============================================================================
