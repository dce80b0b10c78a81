----------------------------- MODULE Deployment ----------------------------
(***************************************************************************)
(* From plan to service: the layers are planned for one commit of the      *)
(* model (plan_split.py), each machine loads its stage at that commit      *)
(* (worker_hf.py, hf.py), the workers show a token to the relay (auth.py), *)
(* and later the token is rotated: the new one is added, the workers are   *)
(* restarted with it, which loads their stages again, and the old one is   *)
(* removed (docs/architecture.md, Security).                               *)
(***************************************************************************)
EXTENDS PlanSplit, StageLoad, TokenFile

CONSTANTS
    Old, New,       \* the token that is replaced, and its replacement
    MaxLoading      \* bound: so many stages are loaded at a time

\* The workers run with a token that the relay accepts.
ASSUME RotationAssumption ==
    /\ {Old, New} \subseteq Tokens
    /\ Old \in ToSet(FirstFile)

\* Every stage that may be planned may be loaded.
ASSUME SlotsAssumption == \A p \in Pipelines : DOMAIN p \subseteq Slots

VARIABLES
    pin,            \* the commit the plan was made for
    token,          \* token[s]: the token the worker of stage s was started with
    refused         \* the workers that ended because their token was refused

vars == <<planVars, loadVars, tokenVars, pin, token, refused>>

TypeOK ==
    /\ PlanTypeOK
    /\ LoadTypeOK
    /\ file \in Seq(Tokens)
    /\ accepted \subseteq Tokens
    /\ pin \in Commits
    /\ token \in [Slots -> Tokens]
    /\ refused \subseteq Slots

\* resolve_revision: the plan is for the commit the branch points to now.
Init ==
    /\ PlanInit
    /\ LoadInit
    /\ TokenInit
    /\ pin = newest
    /\ token = [s \in Slots |-> Old]
    /\ refused = {}

AllUp == planning = "planned" /\ \A s \in Stages : load[s].phase = "up"

Adding == <<New, Old>>

\* The new token is in the file, and the relay has had the time to read it.
Added == file = Adding /\ rest = Whole /\ seen = mtime

Busy == {s \in Slots : load[s].phase \in {"index", "files"}}

Planner == Plan /\ UNCHANGED <<loadVars, tokenVars, pin, token, refused>>

\* Mutant: the stages are started without --revision.
Unpinned(c) == Branch

\* The commands that the planner prints name the commit it planned for.
Revision(c) == c

\* A machine runs worker_hf.py for its stage, perhaps again after a failure.
Start(s) ==
    /\ planning = "planned"
    /\ s \in Stages
    /\ load[s].phase \in {"off", "failed"} \/ s \in refused
    /\ Cardinality(Busy) < MaxLoading
    /\ Begin(s, First(s), LastLayer(s), Revision(pin))
    /\ refused' = refused \ {s}
    /\ UNCHANGED <<planVars, tokenVars, pin, token>>

Loading(s) == Load(s) /\ UNCHANGED <<planVars, tokenVars, pin, token, refused>>

Publishing == planning = "planned" /\ Publish /\ UNCHANGED <<planVars, tokenVars, pin, token, refused>>

\* The operator's edits: the new token is added, and the old one removed once
\* every worker runs with the new one.
Rotate ==
    /\ AllUp
    /\ \/ file = <<Old>> /\ Edit(Adding)
       \/ Added /\ (\A s \in Stages : token[s] = New) /\ Edit(<<New>>)
    /\ UNCHANGED <<planVars, loadVars, pin, token, refused>>

\* A worker is stopped and started with the new token.
Move(s) ==
    /\ AllUp
    /\ Added
    /\ s \in Stages
    /\ token[s] = Old
    /\ Begin(s, First(s), LastLayer(s), Revision(pin))
    /\ token' = [token EXCEPT ![s] = New]
    /\ refused' = refused \ {s}
    /\ UNCHANGED <<planVars, tokenVars, pin>>

\* A poll or an upload of worker s: a 401 ends the worker (one to a heartbeat is
\* ignored, and the next poll gets it too).
Request(s) ==
    /\ load[s].phase = "up"
    /\ s \notin refused
    /\ Asked
    /\ ~Accepts(token[s])
    /\ refused' = refused \cup {s}
    /\ UNCHANGED <<planVars, loadVars, tokenVars, pin, token>>

File == (Editor \/ Reload) /\ UNCHANGED <<planVars, loadVars, pin, token, refused>>

Next ==
    \/ Planner
    \/ \E s \in Slots : Start(s) \/ Loading(s) \/ Move(s) \/ Request(s)
    \/ Publishing
    \/ Rotate
    \/ File

Spec == Init /\ [][Next]_vars
-----------------------------------------------------------------------------
(* Safety *)

\* The stages that run are slices of one model: the tensors of all of them come
\* from the commit that was planned for, though the repository moves on and
\* stages are loaded again when their workers are restarted.
OneModel ==
    \A s \in Slots : load[s].phase = "up" =>
        \A x \in load[s].read : x.commit = pin

HasTensor(s, x) == x \in Read(load[s])

\* Together they are the whole model: each layer is in one stage, in the order of
\* the pipeline, the embeddings are in the first and the head in the last one.
WholeModel ==
    AllUp =>
        /\ \A k \in Layers : \E s \in Stages :
              /\ HasTensor(s, Layer(k))
              /\ \A r \in Stages \ {s} : ~HasTensor(r, Layer(k))
              /\ \A r \in Stages, j \in Layers : HasTensor(r, Layer(j)) /\ r < s => j < k
        /\ HasTensor(1, Embed)
        /\ HasTensor(Len(nodes), Norm)
        /\ HasTensor(Len(nodes), LmHead) \/ HasTensor(Len(nodes), Embed)

-----------------------------------------------------------------------------
(* Action properties *)

\* Rotation without downtime: no worker is refused while the token is rotated,
\* unless the relay read a file that was being rewritten in place.
NoDowntime == [][refused' \subseteq refused \/ torn]_vars
=============================================================================
