-------------------------- MODULE MCChildTransport --------------------------
(* Instances of ChildTransport for TLC. *)
EXTENDS ChildTransport
=============================================================================
