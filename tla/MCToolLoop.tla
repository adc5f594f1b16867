----------------------------- MODULE MCToolLoop -----------------------------
(* Instances of ToolLoop for TLC. *)
EXTENDS ToolLoop, TLC

Symmetry ==
    Permutations(Turn) \cup Permutations(Input) \cup Permutations(Request)
=============================================================================
