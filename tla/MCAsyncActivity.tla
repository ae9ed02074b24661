--------------------------- MODULE MCAsyncActivity ---------------------------
(* Instances of AsyncActivity for TLC. *)
EXTENDS AsyncActivity
=============================================================================
