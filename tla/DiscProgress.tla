----------------------------- MODULE DiscProgress -----------------------------
(***************************************************************************)
(* What the disc workflow promises of a disc, whatever happens to the      *)
(* workers that execute it: the disc goes through the phases of            *)
(* internal/workflows/vwdisc/disc.go one by one, each activity counts      *)
(* once, and it ends with all of its diagnostics, unless moving it fails   *)
(* or somebody cancels the run.                                            *)
(*                                                                         *)
(* There is no replay here, and no copy that can be lost: DiscWorkflow     *)
(* implements this specification.                                          *)
(***************************************************************************)
CONSTANT Files  \* the video files that the disc's directory may hold

VARIABLES
  phase,     \* what the run does, see Phases
  files,     \* the video files that were found
  missing,   \* the activities, by kind and file, whose results are still to come
  cancelled  \* the run was asked to stop

vars == <<phase, files, missing, cancelled>>

Final  == {"done", "failed"}
Phases == {"moving", "listing", "preparing", "diagnosing"} \cup Final
Kinds  == {"info", "preview"}

Init ==
  /\ phase = "moving"
  /\ files = {}
  /\ missing = {}
  /\ cancelled = FALSE

\* RenameFile was done.
Move ==
  /\ phase = "moving"
  /\ phase' = "listing"
  /\ UNCHANGED <<files, missing, cancelled>>

\* RenameFile failed for good, or the run was cancelled before the loop.
Fail ==
  /\ phase = "moving" \/ (cancelled /\ phase \in {"listing", "preparing"})
  /\ phase' = "failed"
  /\ UNCHANGED <<files, missing, cancelled>>

List ==
  /\ phase = "listing"
  /\ phase' = "preparing"
  /\ files' \in SUBSET Files
  /\ UNCHANGED <<missing, cancelled>>

\* The previews' directory is there.  A disc without a video is done.
Prepare ==
  /\ phase = "preparing"
  /\ phase' = IF files = {} THEN "done" ELSE "diagnosing"
  /\ missing' = Kinds \X files
  /\ UNCHANGED <<files, cancelled>>

\* The activity that was scheduled for this file has a result.  (The entry of State that it
\* goes to depends on the order in which the copy loops, see DiscWorkflow.)
Diagnose(d) ==
  /\ phase = "diagnosing" /\ d \in missing
  /\ missing' = missing \ {d}
  /\ UNCHANGED <<phase, files, cancelled>>

\* Once the loop has started, cancelling only cuts the wait short.
Finish ==
  /\ phase = "diagnosing"
  /\ missing = {} \/ cancelled
  /\ phase' = "done"
  /\ UNCHANGED <<files, missing, cancelled>>

Cancel ==
  /\ phase \notin Final /\ ~cancelled
  /\ cancelled' = TRUE
  /\ UNCHANGED <<phase, files, missing>>

Next == Move \/ Fail \/ List \/ Prepare \/ Finish \/ Cancel \/ \E d \in missing : Diagnose(d)

Spec == Init /\ [][Next]_vars

-----------------------------------------------------------------------------
TypeOK ==
  /\ phase \in Phases
  /\ files \in SUBSET Files
  /\ missing \in SUBSET (Kinds \X files)
  /\ cancelled \in BOOLEAN
=============================================================================
