------------------------- MODULE MCRuntimeSessions -------------------------
(* Instances of RuntimeSessions for TLC. *)
EXTENDS RuntimeSessions, TLC
CONSTANTS h1, h2, h3
MCImplements == {"start", "message", "controls", "interrupt", "stop"}
MCSymmetry == Permutations(Handler)
============================================================================
