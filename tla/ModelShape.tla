----------------------------- MODULE ModelShape ----------------------------
(* What plan_split.py and load_stage read of a model's config.json. *)
EXTENDS Integers

CONSTANTS
    NLayers,        \* number of transformer layers
    Tied            \* lm_head is the embedding matrix

ASSUME ModelAssumption ==
    /\ NLayers \in Nat \ {0}
    /\ Tied \in BOOLEAN

Layers == 0 .. NLayers - 1
=============================================================================
