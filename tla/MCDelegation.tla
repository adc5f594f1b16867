----------------------------- MODULE MCDelegation -----------------------------
(* Instances of Delegation for TLC: streams whose return() settles at once,   *)
(* as that of the session client, and streams of async generators.            *)
EXTENDS Delegation
=============================================================================
