---------------------------- MODULE MCDiscServer ----------------------------
(* Instances of DiscServer for TLC. *)
EXTENDS DiscServer
=============================================================================
