------------------------------- MODULE DiscSystem -------------------------------
(***************************************************************************)
(* A run together with the activities it starts: the run, as DiscProgress  *)
(* promises it, starts a GetVideoInfo and a Transcode for each file of the *)
(* disc (disc.go:119-176), each activity goes its way as in AsyncActivity, *)
(* and what completes is reported to the run.                              *)
(*                                                                         *)
(* A run may end before its activities: when it is cancelled in the loop.  *)
(* The services know nothing of that, and go on with their jobs.           *)
(*                                                                         *)
(* An activity is known by its kind and by the file it was scheduled for,  *)
(* in the history of the run.  Which entry of State its result is written  *)
(* to is a matter of the copy of the workflow that takes it: after a       *)
(* replay it may be that of another file (InfoIsOfItsFile of DiscWorkflow, *)
(* which is violated).                                                     *)
(***************************************************************************)
CONSTANT Files  \* the video files that the disc's directory may hold

VARIABLES
  phase, files, missing, cancelled,          \* the run, see DiscProgress
  task, call, sent, job, token, reply, beat  \* its activities, see AsyncActivity

runVars == <<phase, files, missing, cancelled>>
activityVars == <<task, call, sent, job, token, reply, beat>>
vars == <<runVars, activityVars>>

Run == INSTANCE DiscProgress

\* The activities of a run, by their kind and file.
Activity == INSTANCE AsyncActivity WITH
  GetVideoInfos <- {"info"} \X Files, Transcodes <- {"preview"} \X Files

Activities == {"info", "preview"} \X Files

TypeOK == Run!TypeOK /\ Activity!TypeOK

Init == Run!Init /\ Activity!Init

-----------------------------------------------------------------------------
RunGoesOn ==
  /\ Run!Move \/ Run!Fail \/ Run!List \/ Run!Prepare \/ Run!Cancel
  /\ UNCHANGED activityVars

ReportsSlip(a) ==  \* Slip: a Select counts what has not completed.
  /\ Run!Diagnose(a)
  /\ UNCHANGED activityVars

\* The result of an activity is in the history of the run, and one more Select has
\* found a future with one.
Reports(a) ==
  /\ task[a] = "completed"
  /\ Run!Diagnose(a)
  /\ UNCHANGED activityVars

\* Temporal starts no attempt but for a run that has asked for the activity and goes on.
Starts(a) ==
  /\ phase = "diagnosing" /\ a \in Run!Kinds \X files
  /\ Activity!StartAttempt(a)
  /\ UNCHANGED runVars

\* Handlers, services and webhooks do not know whether the run goes on.
ActivityGoesOn(a) ==
  /\ \/ Activity!HandlerReturns(a) \/ Activity!WorkerCrashes(a) \/ Activity!CallBreaks(a)
     \/ Activity!TimesOut(a) \/ Activity!Service(a) \/ Activity!Server(a)
  /\ UNCHANGED runVars

EndsSlip ==  \* Slip: what the run has started goes on after it.
  /\ Run!Finish
  /\ UNCHANGED activityVars

\* The run ends, and with it all its attempts: nobody takes their tokens any more.
Ends ==
  /\ Run!Finish
  /\ LET over == {a \in Activities : task[a] = "started"}
         Over(f, a, x) == IF a \in over THEN x ELSE f[a]
     IN  /\ task' = [a \in Activities |-> Over(task, a, "scheduled")]
         /\ call' = [a \in Activities |-> Over(call, a, "none")]
         /\ sent' = [a \in Activities |-> Over(sent, a, {Activity!Aged(t) : t \in sent[a]})]
         /\ token' = [a \in Activities |-> Over(token, a, Activity!Aged(token[a]))]
  /\ UNCHANGED <<job, reply, beat>>

Next ==
  \/ RunGoesOn \/ Ends
  \/ \E a \in Activities : Reports(a) \/ Starts(a) \/ ActivityGoesOn(a)

Spec == Init /\ [][Next]_vars

\* The fairness of AsyncActivity, and Temporal keeps dispatching the run.
RunProceeds ==
  /\ Run!Move \/ Run!Fail \/ Run!List \/ Run!Prepare
  /\ UNCHANGED activityVars

Fairness ==
  /\ WF_vars(RunProceeds) /\ WF_vars(Ends)
  /\ \A a \in Activities :
       /\ WF_vars(Reports(a)) /\ WF_vars(Starts(a))
       /\ WF_vars(Activity!HandlerReturns(a) /\ UNCHANGED runVars)
       /\ WF_vars(Activity!TimesOut(a) /\ UNCHANGED runVars)
       /\ WF_vars(Activity!JobEnds(a) /\ UNCHANGED runVars)
       /\ SF_vars(Activity!Accepts(a, "current") /\ UNCHANGED runVars)
       /\ SF_vars(Activity!Webhook(a, "answered") /\ UNCHANGED runVars)

FairSpec == Spec /\ Fairness

-----------------------------------------------------------------------------
(* Properties *)

\* A result that a run has been given (disc.go:134, 168), by whichever attempt, webhook or
\* retry, is that of a job that succeeded and had been asked for by the attempt it completed;
\* a run that is done and was not cancelled (disc.go:178-181) has been given those of all its
\* activities.  A run that was cancelled keeps those that it had.
ResultsAreOfJobs ==
  phase \in {"diagnosing", "done"} =>
    /\ \A a \in (Run!Kinds \X files) \ missing : job[a] = "ok" /\ token[a] = "current"
    /\ phase = "done" /\ ~cancelled => missing = {}

\* After the end of a run, whatever was on its way, no activity of it starts or completes,
\* and the server tells no service again that its result was taken (server.go:93, 121, 150).
LateIsRefused ==
  [][(phase \in Run!Final) =>
       /\ task' = task
       /\ \A a \in Activities : reply'[a] # reply[a] => reply'[a] # "200"]_vars

\* Of each activity of a run, as of one alone: it has one job, and gets its result from that
\* or never.  The end of a run, which ends all attempts at once (disc.go:178-190), forfeits
\* the jobs that are still going on, and saves none.
ImplementsFates == Activity!Outcome!Spec

\* A disc gets done, although workers, requests and webhooks fail: unless it cannot be
\* moved, is cancelled, or a job fails or outlives the attempt that asked for it.
GetsDone ==
  [](/\ ~cancelled /\ phase # "failed"
     /\ \A a \in Activities : token[a] # "stale" /\ job[a] \notin {"error", "blank"})
  => <>(phase = "done")

-----------------------------------------------------------------------------
(* The inductive invariant *)

\* Activities are those of a run that diagnoses its files, and what it does not miss
\* has completed.  A run that is over has left none of them started.
Linked ==
  /\ \A a \in Activities :
       task[a] # "scheduled" => phase \in {"diagnosing", "done"} /\ a \in Run!Kinds \X files
  /\ phase \in {"moving", "listing", "preparing"} => missing = {}
  /\ phase \in {"diagnosing", "done"} =>
       \A a \in (Run!Kinds \X files) \ missing : task[a] = "completed"
  /\ phase \in Run!Final => \A a \in Activities : task[a] # "started"
  /\ phase = "done" /\ ~cancelled => missing = {}

IInv == Run!TypeOK /\ Activity!IInv /\ Linked
=============================================================================
