----------------------------- MODULE StageLoad -----------------------------
(***************************************************************************)
(* A stage is loaded (src/distllm/hf.py: load_stage, _weight_files,        *)
(* _CheckpointReader) from a repository that may change meanwhile: the     *)
(* tensors of its layers and, at the ends of the model, the embeddings or  *)
(* the head, out of those checkpoint files that contain them.  A layer is  *)
(* one tensor here, and a file that cannot be reached is as one that does  *)
(* not exist (fetch returns None for both).                                *)
(***************************************************************************)
EXTENDS ModelShape, Sequences, FiniteSets, Functions

CONSTANTS
    Slots,          \* the stages that may be loaded
    Commits,        \* the commits of the model repository: numbers
    Repo,           \* Repo[c]: the checkpoints of commit c, by preference
    Branch          \* the revision that names the newest commit

Layer(k) == [part |-> "layer", index |-> k]
Embed == [part |-> "embed", index |-> 0]
Norm == [part |-> "norm", index |-> 0]
LmHead == [part |-> "lm_head", index |-> 0]
Tensors == {Layer(k) : k \in Layers} \cup {Embed, Norm, LmHead}

\* A branch is not named like a commit.  A checkpoint maps the tensors it contains
\* to files; one without an index is a single file.  At least one format is tried.
ASSUME RepoAssumption ==
    /\ Branch \notin Commits
    /\ \A c \in Commits : Repo[c] \in Seq(Range(Repo[c])) \ {<<>>}
    /\ \A c \in Commits : \A f \in DOMAIN Repo[c] :
        /\ DOMAIN Repo[c][f].file \subseteq Tensors
        /\ ~Repo[c][f].indexed => Cardinality(Range(Repo[c][f].file)) = 1

VARIABLES
    newest,     \* the newest commit of the repository
    load        \* load[s]: stage s, as far as it is loaded

loadVars == <<newest, load>>

Off == [phase |-> "off", first |-> 0, last |-> 0, revision |-> Branch,
        format |-> 1, files |-> {}, read |-> {}]

LoadInit ==
    /\ newest \in Commits
    /\ load = [s \in Slots |-> Off]

At(revision) == IF revision = Branch THEN newest ELSE revision

\* Mutant: layers are looked up by their place in the stage.
WantedFromZero(l) ==
    {Layer(k) : k \in 0 .. l.last - l.first}
    \cup {x \in {Embed} : l.first = 0 \/ (Tied /\ l.last = NLayers - 1)}
    \cup {x \in {Norm, LmHead} : l.last = NLayers - 1}

\* The checkpoint tensors a stage needs: its layers, whose place in the stage is
\* shifted by the first one; the embeddings also for a tied head.
Wanted(l) ==
    {Layer(k + l.first) : k \in 0 .. l.last - l.first}
    \cup {x \in {Embed} : l.first = 0 \/ (Tied /\ l.last = NLayers - 1)}
    \cup {x \in {Norm, LmHead} : l.last = NLayers - 1}

\* load_stage is called; it rejects a range that is not one of the model's.  (A
\* config that cannot be loaded fails as a checkpoint that cannot be found.)
Begin(s, first, last, revision) ==
    /\ load' = [load EXCEPT ![s] =
            [Off EXCEPT !.phase = IF 0 <= first /\ first <= last /\ last < NLayers
                                  THEN "index" ELSE "rejected",
                        !.first = first, !.last = last, !.revision = revision]]
    /\ UNCHANGED newest

\* An exception ends the process: nothing of the stage is left.
Fails(s) == load' = [load EXCEPT ![s] = [Off EXCEPT !.phase = "failed"]] /\ UNCHANGED newest

\* Mutant: the revision is not passed on to the downloads.
FromNewest(l) == newest

\* The commit that the files of stage l are taken from.
Source(l) == At(l.revision)

\* The index, or a single file, of the next format is there.
FindFiles(s) ==
    LET l == load[s]
        c == Repo[At(l.revision)][l.format]
    IN  /\ l.phase = "index"
        /\ load' = [load EXCEPT
                ![s].phase = "files",
                ![s].files = IF c.indexed THEN {c.file[x] : x \in Wanted(l) \cap DOMAIN c.file}
                             ELSE Range(c.file)]
        /\ UNCHANGED newest

\* There is none, or it cannot be reached: the next format is tried.
NextFormat(s) ==
    /\ load[s].phase = "index"
    /\ IF load[s].format < Len(Repo[At(load[s].revision)])
       THEN load' = [load EXCEPT ![s].format = @ + 1] /\ UNCHANGED newest
       ELSE Fails(s)

\* One of the files arrives, with all its tensors, ...
FetchFile(s) ==
    LET l == load[s]
        c == Repo[Source(l)][l.format]
        got(f) == {x \in DOMAIN c.file : c.file[x] = f}
    IN  /\ l.phase = "files"
        /\ \E f \in l.files \cap Range(c.file) :
              load' = [load EXCEPT
                ![s].files = @ \ {f},
                ![s].read = @ \cup {[tensor |-> x, commit |-> Source(l)] : x \in got(f)}]
        /\ UNCHANGED newest

\* ... or is missing.
FileMissing(s) ==
    /\ load[s].phase = "files"
    /\ load[s].files # {}
    /\ Fails(s)

Read(l) == {x.tensor : x \in l.read}

\* Mutant: the other tensors of the files stay.
KeepsAll(l) == l.read

\* What the stage keeps of what was read: the embeddings only to embed, or as
\* the tied head.
Kept(l) ==
    {x \in l.read :
        /\ x.tensor \in Wanted(l)
        /\ x.tensor = Embed => l.first = 0 \/ LmHead \notin Read(l)}

\* The tensors are put into the layers; lm_head is the embedding matrix if it is
\* tied and the checkpoint has none.
Assemble(s) ==
    LET l == load[s]
        missing == {x \in Wanted(l) \ Read(l) :
                        ~(x = LmHead /\ Tied /\ Embed \in Read(l))}
    IN  /\ l.phase = "files"
        /\ l.files = {}
        /\ IF missing # {}
           THEN Fails(s)
           ELSE /\ load' = [load EXCEPT ![s].phase = "up", ![s].read = Kept(l)]
                /\ UNCHANGED newest

Load(s) == FindFiles(s) \/ NextFormat(s) \/ FetchFile(s) \/ FileMissing(s) \/ Assemble(s)

\* The branch moves to the next commit.
Publish ==
    /\ newest + 1 \in Commits
    /\ newest' = newest + 1
    /\ UNCHANGED load

LoadTypeOK ==
    /\ newest \in Commits
    /\ \A s \in Slots :
          /\ load[s].phase \in {"off", "index", "files", "up", "failed", "rejected"}
          /\ load[s].read \subseteq [tensor : Tensors, commit : Commits]
=============================================================================
