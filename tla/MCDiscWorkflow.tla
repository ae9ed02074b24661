--------------------------- MODULE MCDiscWorkflow ---------------------------
(* Instances of DiscWorkflow for TLC. *)
EXTENDS DiscWorkflow
=============================================================================
