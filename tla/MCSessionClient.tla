--------------------------- MODULE MCSessionClient ---------------------------
(* Instances of SessionClient for TLC. *)
EXTENDS SessionClient, TLC

Symmetry == Permutations(Stream) \cup Permutations(Waiter) \cup Permutations(Id)
              \cup Permutations(TurnId)
=============================================================================
