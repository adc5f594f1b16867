--------------------------- MODULE MCOperationCall ---------------------------
(* Instances of OperationCall for TLC. *)
EXTENDS OperationCall
=============================================================================
