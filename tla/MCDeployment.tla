----------------------------- MODULE MCDeployment -----------------------------
(* Instances of Deployment for TLC. *)
EXTENDS Deployment, TLC

CONSTANTS c1, c2

\* An environment that is complete, one that lacks a path, and one with a port that is
\* no number.
Complete ==
  [key \in ServerKeys \cup WorkerKeys |-> IF key \in IntKeys THEN "mixed" ELSE "word"]

Some == {Complete,
         [Complete EXCEPT !["VW_LIBRARY_PATH"] = "unset"],
         [Complete EXCEPT !["VW_TEMPORAL_PORT"] = "word"]}

Root(op, arg) == [op |-> op, arg |-> arg, base |-> "root"]

\* A video service, and somebody who creates discs; somebody who looks after discs, in the
\* wrong place at times.
AllAsks ==
  (c1 :> {Root("CompleteTranscodeActivity", "valid")} \cup
         {Root("CreateDisc", a) : a \in Paths \cup {"invalid"}}) @@
  (c2 :> {Root("GetDisc", "valid"), Root("GetInbox", "none"),
          [op |-> "GetDisc", arg |-> "valid", base |-> "other"]})
=============================================================================
