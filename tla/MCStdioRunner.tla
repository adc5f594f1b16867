---------------------------- MODULE MCStdioRunner ----------------------------
(* Instances of StdioRunner for TLC. *)
EXTENDS StdioRunner

=============================================================================
