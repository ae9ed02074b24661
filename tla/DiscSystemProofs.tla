--------------------------- MODULE DiscSystemProofs ---------------------------
(***************************************************************************)
(* Theorems about DiscSystem, for any set of files.  What the steps of     *)
(* activities preserve is known from AsyncActivityProofs.                  *)
(***************************************************************************)
EXTENDS DiscSystem, TLAPS

Facts == INSTANCE AsyncActivityProofs WITH
  GetVideoInfos <- {"info"} \X Files, Transcodes <- {"preview"} \X Files

\* The assumption of AsyncActivity.
LEMMA ActivitiesAreDistinct == ({"info"} \X Files) \cap ({"preview"} \X Files) = {}
  OBVIOUS

LEMMA SameActivities == Activity!Activities = Activities
  BY DEF Activity!Activities, Activities

\* Both instances of AsyncActivity say the same.
LEMMA SameInvariant == Facts!IInv <=> Activity!IInv
  BY DEF
     Activity!IInv, Facts!IInv, Activity!TypeOK, Facts!TypeOK, Activity!Owner, Facts!Owner, 
     Activity!Attempt, Facts!Attempt, Activity!PendingOwnsJob, Facts!PendingOwnsJob, 
     Activity!AcknowledgedIsRecorded, Facts!AcknowledgedIsRecorded, Activity!Activities, 
     Facts!Activities, Activity!Tokens, Facts!Tokens, Activity!Calling, Facts!Calling, 
     Activity!Calls, Facts!Calls, Activity!Ended, Facts!Ended

LEMMA SameInvariantNext == Facts!IInv' <=> Activity!IInv'
  BY SameInvariant, PTL

LEMMA SameNext == Facts!Next <=> Activity!Next
  BY DEF
     Activity!Next, Facts!Next, Activity!Worker, Facts!Worker, Activity!StartAttempt, 
     Facts!StartAttempt, Activity!HandlerReturns, Facts!HandlerReturns, Activity!WorkerCrashes, 
     Facts!WorkerCrashes, Activity!CallBreaks, Facts!CallBreaks, Activity!TimesOut, Facts!TimesOut, 
     Activity!Service, Facts!Service, Activity!Server, Facts!Server, Activity!Retry, Facts!Retry, 
     Activity!Aged, Facts!Aged, Activity!LeavesOpen, Facts!LeavesOpen, Activity!Arrives, 
     Facts!Arrives, Activity!Answers, Facts!Answers, Activity!RequestLost, Facts!RequestLost, 
     Activity!Accepts, Facts!Accepts, Activity!Conflicts, Facts!Conflicts, Activity!Refuses, 
     Facts!Refuses, Activity!JobEnds, Facts!JobEnds, Activity!Takes, Facts!Takes, Activity!Outcomes, 
     Facts!Outcomes, Activity!CompleteActivity, Facts!CompleteActivity, 
     Activity!CompleteGetVideoInfoActivity, Facts!CompleteGetVideoInfoActivity, 
     Activity!CompleteTranscodeActivity, Facts!CompleteTranscodeActivity, Activity!Webhook, 
     Facts!Webhook, Activity!Routes, Facts!Routes, Activity!WebhookProgressURI, 
     Facts!WebhookProgressURI, Activity!TranscodeActivityHeartbeat, Facts!TranscodeActivityHeartbeat, 
     Activity!Activities, Facts!Activities, Activity!Tokens, Facts!Tokens, Activity!Calling, 
     Facts!Calling, Activity!Calls, Facts!Calls, Activity!Ended, Facts!Ended

-----------------------------------------------------------------------------
(* The activities *)

LEMMA ActivityNextHolds ==
  ASSUME Activity!IInv, Activity!Next
  PROVE  Activity!IInv'
<1>1. Facts!IInv /\ [Facts!Next]_(Facts!vars)
  BY SameInvariant, SameNext
<1>2. Facts!IInv'
  BY <1>1, ActivitiesAreDistinct, Facts!NextHolds
<1> QED
  BY <1>2, SameInvariantNext

LEMMA ActivityStepHolds ==
  ASSUME Activity!IInv, NEW a \in Activities, Starts(a) \/ ActivityGoesOn(a)
  PROVE  Activity!IInv'
<1>1. Activity!Next
  BY SameActivities DEF Activity!Next, Activity!Worker, Starts, ActivityGoesOn
<1> QED
  BY <1>1, ActivityNextHolds

TaskTypes == task \in [Activities -> {"scheduled", "started", "completed"}]
ReplyTypes == reply \in [Activities -> {"none", "200", "400", "500"}]

LEMMA TypesOfActivities == Activity!IInv => TaskTypes /\ ReplyTypes
  BY SameActivities DEF Activity!IInv, Activity!TypeOK, TaskTypes, ReplyTypes

\* What can become of the record of an activity, but by the start of an attempt.
Settles ==
  \/ UNCHANGED task
  \/ \E a \in Activities, s \in {"scheduled", "completed"} :
       task[a] = "started" /\ task' = [task EXCEPT ![a] = s]

LEMMA WebhookSettles ==
  ASSUME Activity!IInv, NEW a \in Activities, NEW failure, NEW o,
         Activity!CompleteActivity(a, failure, o)
  PROVE  /\ Settles
         /\ \A b \in Activities : reply'[b] # reply[b] /\ reply'[b] = "200" => task[b] = "started"
<1>1. ReplyTypes
  BY TypesOfActivities
<1>2. reply' = [reply EXCEPT ![a] = IF o = "answered" /\ Activity!Takes(a) THEN "200" ELSE "500"]
  BY DEF Activity!CompleteActivity
<1>3. Activity!Takes(a) => task[a] = "started"
  BY DEF Activity!Takes
<1>4. Settles
  BY <1>3 DEF Activity!CompleteActivity, Activity!Retry, Settles
<1> QED
  BY <1>1, <1>2, <1>3, <1>4 DEF ReplyTypes

LEMMA ActivitySettles ==
  ASSUME Activity!IInv, NEW a \in Activities, ActivityGoesOn(a)
  PROVE  /\ Settles
         /\ \A b \in Activities : reply'[b] # reply[b] /\ reply'[b] = "200" => task[b] = "started"
<1>1. ReplyTypes
  BY TypesOfActivities
<1>2. CASE Activity!HandlerReturns(a)
  BY <1>2 DEF Activity!HandlerReturns, Activity!Retry, Settles
<1>3. CASE Activity!WorkerCrashes(a) \/ Activity!CallBreaks(a)
  BY <1>3 DEF Activity!WorkerCrashes, Activity!CallBreaks, Settles
<1>4. CASE Activity!TimesOut(a)
  BY <1>4 DEF Activity!TimesOut, Activity!Retry, Settles
<1>5. CASE Activity!Service(a)
  BY <1>5 DEF Activity!Service, Activity!JobEnds, Activity!RequestLost, Activity!Accepts,
              Activity!Conflicts, Activity!Refuses, Settles
<1>6. CASE Activity!Server(a)
  <2>1. PICK o \in Activity!Outcomes : Activity!Webhook(a, o) \/ Activity!TranscodeActivityHeartbeat(a, o)
    BY <1>6 DEF Activity!Server
  <2>2. CASE Activity!TranscodeActivityHeartbeat(a, o)
    BY <2>2 DEF Activity!TranscodeActivityHeartbeat, Settles
  <2>3. CASE \E failure : Activity!CompleteActivity(a, failure, o)
    BY <2>3, WebhookSettles
  <2>4. CASE reply' = [reply EXCEPT ![a] = "400"] /\ UNCHANGED task
    BY <1>1, <2>4 DEF ReplyTypes, Settles
  <2> QED
    BY <2>1, <2>2, <2>3, <2>4 DEF Activity!Webhook, Activity!CompleteGetVideoInfoActivity,
                                  Activity!CompleteTranscodeActivity
<1> QED
  BY <1>2, <1>3, <1>4, <1>5, <1>6 DEF ActivityGoesOn

\* The end of all attempts at once is no step of AsyncActivity.
LEMMA EndsHolds ==
  ASSUME Activity!IInv, Ends
  PROVE  /\ Activity!IInv'
         /\ TaskTypes'
         /\ \A a \in Activities : task'[a] = IF task[a] = "started" THEN "scheduled" ELSE task[a]
<1> USE SameActivities DEF Activity!Tokens
<1>1. /\ task \in [Activities -> {"scheduled", "started", "completed"}]
      /\ call \in [Activities -> Activity!Calls] /\ sent \in [Activities -> SUBSET Activity!Tokens]
      /\ token \in [Activities -> Activity!Tokens \cup {"none"}]
  BY DEF Activity!IInv, Activity!TypeOK
<1>2. /\ task' = [a \in Activities |-> IF task[a] = "started" THEN "scheduled" ELSE task[a]]
      /\ call' = [a \in Activities |-> IF task[a] = "started" THEN "none" ELSE call[a]]
      /\ sent' = [a \in Activities |->
                    IF task[a] = "started" THEN {Activity!Aged(t) : t \in sent[a]} ELSE sent[a]]
      /\ token' = [a \in Activities |-> IF task[a] = "started" THEN Activity!Aged(token[a]) ELSE token[a]]
      /\ UNCHANGED <<job, reply, beat>>
  BY DEF Ends
<1>3. \A a \in Activities :
        /\ Activity!Aged(token[a]) \in {"stale", "none"}
        /\ Activity!Aged(token[a]) = "none" <=> token[a] = "none"
        /\ {Activity!Aged(t) : t \in sent[a]} \in SUBSET Activity!Tokens
        /\ "current" \notin {Activity!Aged(t) : t \in sent[a]}
  BY <1>1 DEF Activity!Aged
<1>4. TaskTypes'
  BY <1>1, <1>2 DEF TaskTypes
<1>5. Activity!TypeOK'
  <2>1. call' \in [Activities -> Activity!Calls]
    BY <1>1, <1>2 DEF Activity!Calls
  <2>2. sent' \in [Activities -> SUBSET Activity!Tokens]
    BY <1>1, <1>2, <1>3
  <2>3. token' \in [Activities -> Activity!Tokens \cup {"none"}]
    BY <1>1, <1>2, <1>3
  <2> QED
    BY <1>2, <1>4, <2>1, <2>2, <2>3 DEF Activity!IInv, Activity!TypeOK, TaskTypes
<1>6. ASSUME NEW a \in Activities
      PROVE  /\ Activity!Owner(a)' /\ Activity!Attempt(a)'
             /\ task'[a] = "started" /\ call'[a] = "pending" /\ a \in {"info"} \X Files => token'[a] = "current"
             /\ reply'[a] = "200" => task'[a] = "completed" \/ (job'[a] = "error" /\ token'[a] = "stale")
  <2>1. /\ Activity!Owner(a) /\ Activity!Attempt(a)
        /\ task[a] = "started" /\ call[a] = "pending" /\ a \in {"info"} \X Files => token[a] = "current"
        /\ reply[a] = "200" => task[a] = "completed" \/ (job[a] = "error" /\ token[a] = "stale")
    BY DEF Activity!IInv, Activity!PendingOwnsJob, Activity!AcknowledgedIsRecorded
  <2>2. CASE task[a] # "started"
    <3>1. /\ task'[a] = task[a] /\ call'[a] = call[a] /\ sent'[a] = sent[a] /\ token'[a] = token[a]
          /\ job'[a] = job[a] /\ reply'[a] = reply[a]
      BY <1>2, <2>2
    <3> QED
      BY <2>1, <3>1 DEF Activity!Owner, Activity!Attempt
  <2>3. CASE task[a] = "started"
    <3>1. /\ task'[a] = "scheduled" /\ call'[a] = "none" /\ "current" \notin sent'[a]
          /\ token'[a] = Activity!Aged(token[a]) /\ job'[a] = job[a] /\ reply'[a] = reply[a]
      BY <1>2, <1>3, <2>3
    <3>2. token'[a] \in {"stale", "none"} /\ (token'[a] = "none" <=> token[a] = "none")
          /\ (token[a] = "stale" => token'[a] = "stale")
      BY <1>3, <3>1
    <3> QED
      BY <2>1, <2>3, <3>1, <3>2 DEF Activity!Owner, Activity!Attempt
  <2> QED
    BY <2>2, <2>3
<1>7. Activity!IInv'
  BY <1>5, <1>6 DEF Activity!IInv, Activity!PendingOwnsJob, Activity!AcknowledgedIsRecorded, Activities
<1> QED
  BY <1>2, <1>4, <1>7

-----------------------------------------------------------------------------
(* The run and its activities *)

\* A completed activity stays so, and none starts but by a new attempt.
LEMMA SettledTasks ==
  ASSUME TaskTypes, Settles
  PROVE  \A a \in Activities :
           /\ task[a] = "completed" => task'[a] = "completed"
           /\ task'[a] # "scheduled" => task[a] # "scheduled"
           /\ task'[a] = "started" => task[a] = "started"
  BY DEF TaskTypes, Settles

LEMMA StartsStep ==
  ASSUME TaskTypes, NEW a \in Activities, Starts(a)
  PROVE  /\ phase = "diagnosing" /\ a \in Run!Kinds \X files /\ UNCHANGED <<runVars, reply>>
         /\ task'[a] = "started" /\ task[a] = "scheduled"
         /\ \A b \in Activities \ {a} : task'[b] = task[b]
  BY DEF TaskTypes, Starts, Activity!StartAttempt

LEMMA RunTypes ==
  ASSUME Run!TypeOK, phase = "listing" => missing = {},
         \/ Run!Move \/ Run!Fail \/ Run!List \/ Run!Prepare \/ Run!Cancel \/ Run!Finish
         \/ \E d \in Activities : Run!Diagnose(d)
  PROVE  Run!TypeOK'
<1>1. CASE Run!List
  BY <1>1 DEF Run!TypeOK, Run!List, Run!Phases
<1>2. CASE \/ Run!Move \/ Run!Fail \/ Run!Prepare \/ Run!Cancel \/ Run!Finish
           \/ \E d \in Activities : Run!Diagnose(d)
  BY <1>2 DEF Run!TypeOK, Run!Move, Run!Fail, Run!Prepare, Run!Cancel, Run!Finish, Run!Diagnose,
              Run!Phases, Run!Final
<1> QED
  BY <1>1, <1>2

\* A step of the run, which changes no activity but at its end.
LEMMA RunHolds ==
  ASSUME IInv, RunGoesOn \/ Ends \/ \E a \in Activities : Reports(a)
  PROVE  IInv'
<1>1. Run!TypeOK /\ Activity!IInv /\ Linked /\ TaskTypes
  BY TypesOfActivities DEF IInv
<1>2. Run!TypeOK'
  BY <1>1, RunTypes DEF Linked, Ends, RunGoesOn, Reports
<1>3. CASE Ends
  <2>1. /\ phase = "diagnosing" /\ phase' = "done" /\ UNCHANGED <<files, missing, cancelled>>
        /\ missing = {} \/ cancelled
    BY <1>3 DEF Ends, Run!Finish
  <2>2. Activity!IInv' /\ \A a \in Activities : task'[a] = IF task[a] = "started" THEN "scheduled" ELSE task[a]
    BY <1>1, <1>3, EndsHolds
  <2>3. Run!Kinds \X files \subseteq Activities
    BY <1>1 DEF Run!TypeOK, Run!Kinds, Activities
  <2>4. Linked'
    BY <1>1, <2>1, <2>2, <2>3 DEF Linked
  <2> QED
    BY <1>2, <2>2, <2>4 DEF IInv
<1>4. CASE ~Ends
  <2>1. UNCHANGED activityVars
    BY <1>4 DEF RunGoesOn, Reports
  <2>2. Activity!IInv'
    BY <1>1, <2>1
       DEF activityVars, Activity!IInv, Activity!TypeOK, Activity!Owner, Activity!Attempt,
           Activity!PendingOwnsJob, Activity!AcknowledgedIsRecorded
  <2>3. UNCHANGED task
    BY <2>1 DEF activityVars
  <2>4. Linked'
    <3>1. CASE Run!Move \/ Run!Fail \/ Run!List
      <4>1. phase \notin {"diagnosing", "done"} /\ phase' \notin {"diagnosing", "done"}
        BY <3>1 DEF Run!Move, Run!Fail, Run!List
      <4>2. missing' = {} /\ \A a \in Activities : task[a] = "scheduled"
        BY <1>1, <3>1, <4>1 DEF Linked, Run!TypeOK, Run!Phases, Run!Move, Run!Fail, Run!List
      <4> QED
        BY <2>3, <4>1, <4>2 DEF Linked
    <3>2. CASE Run!Prepare
      <4>1. /\ phase = "preparing" /\ phase' \in {"diagnosing", "done"}
            /\ missing' = Run!Kinds \X files' /\ (phase' = "done" => files' = {})
        BY <3>2 DEF Run!Prepare
      <4>2. \A a \in Activities : task[a] = "scheduled"
        BY <1>1, <4>1 DEF Linked
      <4>3. (Run!Kinds \X files') \ missing' = {} /\ (phase' = "done" => missing' = {})
        BY <4>1
      <4> QED
        BY <2>3, <4>1, <4>2, <4>3 DEF Linked
    <3>3. CASE Run!Cancel
      BY <1>1, <2>3, <3>3 DEF Linked, Run!Cancel
    <3>4. ASSUME NEW a \in Activities, Reports(a)
          PROVE  Linked'
      <4>1. /\ task[a] = "completed" /\ phase = "diagnosing" /\ missing' = missing \ {a}
            /\ UNCHANGED <<phase, files, cancelled>>
        BY <3>4 DEF Reports, Run!Diagnose
      <4> QED
        BY <1>1, <2>3, <4>1 DEF Linked, Run!Final
    <3> QED
      BY <1>4, <3>1, <3>2, <3>3, <3>4 DEF RunGoesOn
  <2> QED
    BY <1>2, <2>2, <2>4 DEF IInv
<1> QED
  BY <1>3, <1>4

LEMMA ActivitiesHold ==
  ASSUME IInv, NEW a \in Activities, Starts(a) \/ ActivityGoesOn(a)
  PROVE  IInv'
<1>1. Run!TypeOK /\ Activity!IInv /\ Linked /\ TaskTypes
  BY TypesOfActivities DEF IInv
<1>2. UNCHANGED <<phase, files, missing, cancelled>>
  BY DEF Starts, ActivityGoesOn, runVars
<1>3. Run!TypeOK'
  BY <1>1, <1>2 DEF Run!TypeOK
<1>4. Run!Kinds \X files \subseteq Activities
  BY <1>1 DEF Run!TypeOK, Run!Kinds, Activities
<1>5. CASE Starts(a)
  BY <1>1, <1>2, <1>3, <1>4, <1>5, StartsStep, ActivityStepHolds DEF IInv, Linked, Run!Final
<1>6. CASE ActivityGoesOn(a)
  <2>1. \A b \in Activities :
           /\ task[b] = "completed" => task'[b] = "completed"
           /\ task'[b] # "scheduled" => task[b] # "scheduled"
           /\ task'[b] = "started" => task[b] = "started"
    BY <1>1, <1>6, ActivitySettles, SettledTasks
  <2>2. Linked'
    BY <1>1, <1>2, <1>4, <2>1 DEF Linked
  <2> QED
    BY <1>1, <1>3, <1>6, <2>2, ActivityStepHolds DEF IInv
<1> QED
  BY <1>5, <1>6

LEMMA InitHolds == Init => IInv
<1> SUFFICES ASSUME Init PROVE IInv
  OBVIOUS
<1>1. Run!TypeOK
  BY DEF Init, Run!Init, Run!TypeOK, Run!Phases
<1>2. Activity!IInv
  BY DEF Init, Activity!Init, Activity!IInv, Activity!TypeOK, Activity!Tokens, Activity!Calling,
         Activity!Calls, Activity!Ended, Activity!Owner, Activity!Attempt, Activity!PendingOwnsJob,
         Activity!AcknowledgedIsRecorded, Activity!Activities
<1>3. Linked
  BY SameActivities DEF Init, Run!Init, Activity!Init, Linked, Run!Final
<1> QED
  BY <1>1, <1>2, <1>3 DEF IInv

LEMMA NextHolds ==
  ASSUME IInv, [Next]_vars
  PROVE  IInv'
<1>1. CASE Next
  BY <1>1, RunHolds, ActivitiesHold DEF Next
<1>2. CASE UNCHANGED vars
  BY <1>2 DEF vars, runVars, activityVars, IInv, Run!TypeOK, Linked, Activity!IInv, Activity!TypeOK,
              Activity!Owner, Activity!Attempt, Activity!PendingOwnsJob, Activity!AcknowledgedIsRecorded
<1> QED
  BY <1>1, <1>2

-----------------------------------------------------------------------------
(* Theorems *)

\* The inductive invariant: what a run does not miss has completed, and what is over is over.
THEOREM SystemInvariant == Spec => []IInv
<1>1. Init => IInv
  BY InitHolds
<1>2. IInv /\ [Next]_vars => IInv'
  BY NextHolds
<1> QED
  BY <1>1, <1>2, PTL DEF Spec

\* A run and its activities keep to their states.
THEOREM TypeCorrect == Spec => []TypeOK
<1>1. IInv => TypeOK
  BY DEF IInv, TypeOK, Activity!IInv
<1> QED
  BY <1>1, SystemInvariant, PTL

\* For any files: whatever webhooks, timeouts and cancellations there are, the results that a
\* run is given (disc.go:134, 168) are those of successful jobs of these very activities.
THEOREM ResultsAreGenuine == Spec => []ResultsAreOfJobs
<1>1. IInv => ResultsAreOfJobs
  <2> SUFFICES ASSUME IInv, phase \in {"diagnosing", "done"}
               PROVE  /\ \A a \in (Run!Kinds \X files) \ missing : job[a] = "ok" /\ token[a] = "current"
                      /\ phase = "done" /\ ~cancelled => missing = {}
    BY DEF ResultsAreOfJobs
  <2>1. ASSUME NEW a \in (Run!Kinds \X files) \ missing
        PROVE  job[a] = "ok" /\ token[a] = "current"
    <3>1. a \in Activities /\ task[a] = "completed"
      BY DEF IInv, Linked, Run!TypeOK, Run!Kinds, Activities
    <3> QED
      BY <3>1, SameActivities DEF IInv, Activity!IInv, Activity!Attempt
  <2> QED
    BY <2>1 DEF IInv, Linked
<1> QED
  BY <1>1, SystemInvariant, PTL

\* What comes after the end of a run starts nothing, completes nothing, and is never
\* answered 200 (server.go:93, 121, 150).
THEOREM LateWebhooksAreRefused == Spec => LateIsRefused
<1> DEFINE Late == phase \in Run!Final =>
                     /\ task' = task
                     /\ \A a \in Activities : reply'[a] # reply[a] => reply'[a] # "200"
<1>1. ASSUME IInv, Next
      PROVE  Late
  <2> SUFFICES ASSUME phase \in Run!Final
               PROVE  task' = task /\ \A a \in Activities : reply'[a] # reply[a] => reply'[a] # "200"
    OBVIOUS
  <2>1. TaskTypes /\ Activity!IInv /\ \A a \in Activities : task[a] # "started"
    BY <1>1, TypesOfActivities DEF IInv, Linked
  <2>2. CASE RunGoesOn \/ \E a \in Activities : Reports(a)
    BY <2>2 DEF RunGoesOn, Reports, activityVars
  <2>3. ~Ends /\ \A a \in Activities : ~Starts(a)
    BY DEF Run!Final, Ends, Run!Finish, Starts
  <2>4. ASSUME NEW a \in Activities, ActivityGoesOn(a)
        PROVE  task' = task /\ \A b \in Activities : reply'[b] # reply[b] => reply'[b] # "200"
    BY <2>1, <2>4, ActivitySettles DEF Settles
  <2> QED
    BY <1>1, <2>2, <2>3, <2>4 DEF Next
<1>2. IInv /\ [Next]_vars => [Late]_vars
  BY <1>1
<1> QED
  BY <1>2, SystemInvariant, PTL DEF Spec, LateIsRefused

-----------------------------------------------------------------------------
(* The activities of a run implement ActivityFates *)

LEMMA SameFates == Facts!fateBar = Activity!fateBar /\ Facts!fateBar' = Activity!fateBar'
  BY DEF Facts!fateBar, Activity!fateBar, Facts!FateOf, Activity!FateOf, Facts!Doomed, Activity!Doomed,
         Facts!Activities, Activity!Activities

LEMMA SameOutcome == Facts!Outcome!Next <=> Activity!Outcome!Next
  BY SameFates, SameActivities
     DEF Facts!Outcome!Next, Activity!Outcome!Next, Facts!Outcome!Work, Activity!Outcome!Work,
         Facts!Outcome!Complete, Activity!Outcome!Complete, Facts!Outcome!Forfeit,
         Activity!Outcome!Forfeit, Facts!Activities, Activity!Activities

LEMMA ActivityFatesStep ==
  ASSUME Activity!IInv, Activity!Next
  PROVE  [Activity!Outcome!Next]_(Activity!fateBar)
<1>1. Facts!IInv /\ [Facts!Next]_(Facts!vars)
  BY SameInvariant, SameNext
<1>2. [Facts!Outcome!Next]_(Facts!fateBar)
  BY <1>1, ActivitiesAreDistinct, Facts!FatesStep
<1> QED
  BY <1>2, SameFates, SameOutcome

\* The jobs that are still going on when the run ends are forfeited, all at once.
LEMMA EndsForfeits ==
  ASSUME Activity!IInv, Ends
  PROVE  [Activity!Outcome!Next]_(Activity!fateBar)
<1> USE SameActivities
<1>1. TaskTypes /\ token \in [Activities -> Activity!Tokens \cup {"none"}]
  BY TypesOfActivities DEF Activity!IInv, Activity!TypeOK
<1>2. \A a \in Activities : token[a] = "none" <=> job[a] = "none"
  BY DEF Activity!IInv, Activity!Owner
<1>3. \A a \in Activities :
        /\ task'[a] = IF task[a] = "started" THEN "scheduled" ELSE task[a]
        /\ token'[a] = IF task[a] = "started" THEN Activity!Aged(token[a]) ELSE token[a]
        /\ job'[a] = job[a]
  BY DEF Ends
<1> DEFINE S == {a \in Activities : task[a] = "started" /\ Activity!FateOf(a) = "working"}
           now(a) == Activity!FateOf(a)
           then(a) == Activity!FateOf(a)'
<1>4. \A a \in Activities : then(a) = IF a \in S THEN "never" ELSE now(a)
  <2> SUFFICES ASSUME NEW a \in Activities
               PROVE  then(a) = IF a \in S THEN "never" ELSE now(a)
    OBVIOUS
  <2>1. CASE task[a] # "started"
    BY <1>3, <2>1 DEF Activity!FateOf, Activity!Doomed
  <2>2. CASE task[a] = "started"
    BY <1>1, <1>2, <1>3, <2>2 DEF Activity!FateOf, Activity!Doomed, Activity!Aged, Activity!Tokens
  <2> QED
    BY <2>1, <2>2
<1>5. /\ Activity!fateBar = [a \in Activities |-> now(a)]
      /\ Activity!fateBar' = [a \in Activities |-> then(a)]
  BY DEF Activity!fateBar
<1>6. S \subseteq Activities /\ \A a \in S : now(a) = "working"
  OBVIOUS
<1> HIDE DEF S, now, then
<1>7. Activity!Outcome!Forfeit(S)
  BY <1>4, <1>5, <1>6 DEF Activity!Outcome!Forfeit
<1> QED
  BY <1>6, <1>7 DEF Activity!Outcome!Next

\* For any files: of a whole run, too, an activity gets one job, and its result from that or
\* never, also when the run ends before it (disc.go:178-190).
THEOREM SystemImplementsFates == Spec => ImplementsFates
<1>1. Init => Activity!Outcome!Init
  BY DEF Init, Activity!Init, Activity!Outcome!Init, Activity!fateBar, Activity!FateOf, Activity!Doomed
<1>2. ASSUME IInv, [Next]_vars
      PROVE  [Activity!Outcome!Next]_(Activity!fateBar)
  <2>1. CASE UNCHANGED activityVars
    BY <2>1 DEF activityVars, Activity!fateBar, Activity!FateOf, Activity!Doomed
  <2>2. CASE Ends
    BY <1>2, <2>2, EndsForfeits DEF IInv
  <2>3. ASSUME NEW a \in Activities, Starts(a) \/ ActivityGoesOn(a)
        PROVE  [Activity!Outcome!Next]_(Activity!fateBar)
    <3>1. Activity!Next
      BY <2>3, SameActivities DEF Activity!Next, Activity!Worker, Starts, ActivityGoesOn
    <3> QED
      BY <1>2, <3>1, ActivityFatesStep DEF IInv
  <2> QED
    BY <1>2, <2>1, <2>2, <2>3 DEF Next, RunGoesOn, Reports, vars
<1> QED
  BY <1>1, <1>2, SystemInvariant, PTL DEF Spec, ImplementsFates, Activity!Outcome!Spec
=============================================================================
