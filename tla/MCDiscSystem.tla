----------------------------- MODULE MCDiscSystem -----------------------------
(* Instances of DiscSystem for TLC. *)
EXTENDS DiscSystem
=============================================================================
