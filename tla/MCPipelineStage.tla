-------------------------- MODULE MCPipelineStage --------------------------
(* Small instances of PipelineStage for TLC. *)
EXTENDS PipelineStage

CONSTANTS s1, s2, s3

SessionSymmetry == Permutations(Sessions)
=============================================================================
