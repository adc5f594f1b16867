---------------------------- MODULE MCRuntimeCall ----------------------------
(* Instances of RuntimeCall for TLC. *)
EXTENDS RuntimeCall, TLC

Symmetry == Permutations(Stream)
=============================================================================
