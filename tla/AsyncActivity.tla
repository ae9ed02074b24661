---------------------------- MODULE AsyncActivity ----------------------------
(***************************************************************************)
(* The asynchronous activities of a disc: GetVideoInfo and Transcode       *)
(* (internal/vwactivity) ask a video service to do a job and leave the     *)
(* activity open; when the job ends, the service calls a webhook of        *)
(* server/server.go, which completes the activity.                         *)
(*                                                                         *)
(* Temporal makes attempt after attempt until the activity is completed.   *)
(* Each attempt has a task token of its own, and Temporal refuses the      *)
(* token of any attempt but the one that is started now.  Only whether a   *)
(* token is that one matters, so attempts are not numbered: a token is     *)
(* "current", or "stale", once its attempt is over.                        *)
(*                                                                         *)
(* The UUID of a job is drawn once for each activity (disc.go:120, 145),   *)
(* so every attempt asks for the same job, and the service, which knows    *)
(* jobs by their UUID, answers 409 to all requests but the first.  The job *)
(* keeps the token that came with the first one.                           *)
(***************************************************************************)
CONSTANTS
  GetVideoInfos,  \* the GetVideoInfo activities of the disc
  Transcodes      \* the Transcode activities of the disc

ASSUME ActivitiesAssumption == GetVideoInfos \cap Transcodes = {}

Activities == GetVideoInfos \cup Transcodes

VARIABLES
  task,   \* Temporal's record of an activity
  call,   \* the handler of the current attempt, see Calls
  sent,   \* tokens of the requests on their way to the service
  job,    \* the service's record of the activity's job
  token,  \* the token that the job will call the webhook with
  reply,  \* what the server last replied to the webhook
  beat    \* what the server last replied to a heartbeat

vars == <<task, call, sent, job, token, reply, beat>>

-----------------------------------------------------------------------------
Tokens == {"current", "stale"}

\* "posting" waits for an answer; "201", "409" and "refused" (any other status)
\* got one; "lost" got a transport error.  "pending" returned ErrResultPending.
\* A handler that "crashed" will not report anything.
Calling == {"posting", "201", "409", "refused", "lost"}
Calls   == Calling \cup {"none", "pending", "crashed"}

\* "blank" is a GetVideoInfo job that ended with neither a result nor an error.
Ended == {"ok", "error", "blank"}

TypeOK ==
  /\ task \in [Activities -> {"scheduled", "started", "completed"}]
  /\ call \in [Activities -> Calls]
  /\ sent \in [Activities -> SUBSET Tokens]
  /\ job \in [Activities -> {"none", "running"} \cup Ended]
  /\ token \in [Activities -> Tokens \cup {"none"}]
  /\ reply \in [Activities -> {"none", "200", "400", "500"}]
  /\ beat \in [Activities -> {"none", "200", "404", "500"}]

Init ==
  /\ task = [a \in Activities |-> "scheduled"]
  /\ call = [a \in Activities |-> "none"]
  /\ sent = [a \in Activities |-> {}]
  /\ job = [a \in Activities |-> "none"]
  /\ token = [a \in Activities |-> "none"]
  /\ reply = [a \in Activities |-> "none"]
  /\ beat = [a \in Activities |-> "none"]

-----------------------------------------------------------------------------
(* Attempts *)

\* A worker runs the handler, which posts the request with the token.
StartAttempt(a) ==
  /\ task[a] = "scheduled"
  /\ task' = [task EXCEPT ![a] = "started"]
  /\ call' = [call EXCEPT ![a] = "posting"]
  /\ sent' = [sent EXCEPT ![a] = @ \cup {"current"}]
  /\ UNCHANGED <<job, token, reply, beat>>

Aged(t) == IF t = "current" THEN "stale" ELSE t

\* The attempt is over without a result; the next one waits for its turn.
Retry(a) ==
  /\ task' = [task EXCEPT ![a] = "scheduled"]
  /\ call' = [call EXCEPT ![a] = "none"]
  /\ sent' = [sent EXCEPT ![a] = {Aged(t) : t \in @}]
  /\ token' = [token EXCEPT ![a] = Aged(@)]

LeavesOpenSlip(a) ==  \* Slip: 409 is taken for a job of one's own.
  IF a \in GetVideoInfos THEN call[a] \in {"201", "409"} ELSE call[a] # "lost"

\* GetVideoInfo leaves the activity open if the job was created and reports all
\* other answers.  Transcode does not look at the answer.
LeavesOpen(a) ==
  IF a \in GetVideoInfos THEN call[a] = "201" ELSE call[a] # "lost"

\* Temporal has no use for an error that is reported once the activity completed.
HandlerReturns(a) ==
  /\ call[a] \in Calling \ {"posting"}
  /\ IF LeavesOpen(a)
     THEN call' = [call EXCEPT ![a] = "pending"] /\ UNCHANGED <<task, sent, token>>
     ELSE IF task[a] = "started"
          THEN Retry(a)
          ELSE call' = [call EXCEPT ![a] = "none"] /\ UNCHANGED <<task, sent, token>>
  /\ UNCHANGED <<job, reply, beat>>

\* The worker dies, or cannot reach the service: the request it has sent may
\* still arrive.
WorkerCrashes(a) ==
  /\ call[a] \in Calling
  /\ call' = [call EXCEPT ![a] = "crashed"]
  /\ UNCHANGED <<task, sent, job, token, reply, beat>>

CallBreaks(a) ==
  /\ call[a] \in Calling \ {"lost"}
  /\ call' = [call EXCEPT ![a] = "lost"]
  /\ UNCHANGED <<task, sent, job, token, reply, beat>>

TimesOutSlip(a) ==  \* Slip: the options of the previews set no timeout.
  /\ a \in GetVideoInfos /\ task[a] = "started"
  /\ Retry(a)
  /\ UNCHANGED <<job, reply, beat>>

\* StartToCloseTimeout: of the whole attempt, the job included.
TimesOut(a) ==
  /\ task[a] = "started"
  /\ Retry(a)
  /\ UNCHANGED <<job, reply, beat>>

-----------------------------------------------------------------------------
(* The video service *)

\* A request leaves the network.  There may be several with a stale token.
Arrives(a, t) ==
  /\ t \in sent[a]
  /\ \/ sent' = [sent EXCEPT ![a] = @ \ {t}]
     \/ t = "stale" /\ UNCHANGED sent

\* The answer goes to the handler that waits for it.
Answers(a, t, answer) ==
  call' = IF t = "current" /\ call[a] = "posting"
          THEN [call EXCEPT ![a] = answer]
          ELSE call

RequestLost(a, t) ==
  /\ Arrives(a, t)
  /\ UNCHANGED <<task, call, job, token, reply, beat>>

Accepts(a, t) ==
  /\ Arrives(a, t)
  /\ job[a] = "none"
  /\ job' = [job EXCEPT ![a] = "running"]
  /\ token' = [token EXCEPT ![a] = t]
  /\ Answers(a, t, "201")
  /\ UNCHANGED <<task, reply, beat>>

Conflicts(a, t) ==
  /\ Arrives(a, t)
  /\ job[a] # "none"
  /\ Answers(a, t, "409")
  /\ UNCHANGED <<task, job, token, reply, beat>>

Refuses(a, t) ==
  /\ Arrives(a, t)
  /\ Answers(a, t, "refused")
  /\ UNCHANGED <<task, job, token, reply, beat>>

JobEnds(a) ==
  /\ job[a] = "running"
  /\ \E e \in Ended : /\ e = "blank" => a \in GetVideoInfos
                      /\ job' = [job EXCEPT ![a] = e]
  /\ UNCHANGED <<task, call, sent, token, reply, beat>>

-----------------------------------------------------------------------------
(* The webhooks of the server *)

\* Temporal takes the token of the attempt that is started now.
Takes(a) == task[a] = "started" /\ token[a] = "current"

\* temporalClient.CompleteActivity: with an error, it fails the attempt.  The call
\* may not reach Temporal, or reach it and return an error all the same.
Outcomes == {"answered", "unavailable", "unheard"}

\* Slips: the error of the call is dropped; it is answered with 404.
CompleteActivityDeaf(a, failure, outcome) ==
  /\ reply' = [reply EXCEPT ![a] = "200"]
  /\ IF outcome # "unavailable" /\ Takes(a)
     THEN IF failure
          THEN Retry(a)
          ELSE task' = [task EXCEPT ![a] = "completed"] /\ UNCHANGED <<call, sent, token>>
     ELSE UNCHANGED <<task, call, sent, token>>

CompleteActivityNotFound(a, failure, outcome) ==
  /\ ~Takes(a)
  /\ reply' = [reply EXCEPT ![a] = "404"]
  /\ UNCHANGED <<task, call, sent, token>>

CompleteActivity(a, failure, outcome) ==
  /\ reply' = [reply EXCEPT ![a] = IF outcome = "answered" /\ Takes(a) THEN "200" ELSE "500"]
  /\ IF outcome # "unavailable" /\ Takes(a)
     THEN IF failure
          THEN Retry(a)
          ELSE task' = [task EXCEPT ![a] = "completed"] /\ UNCHANGED <<call, sent, token>>
     ELSE UNCHANGED <<task, call, sent, token>>

\* The service calls a webhook again whenever it likes.
CompleteGetVideoInfoActivity(a, outcome) ==
  /\ a \in GetVideoInfos /\ job[a] \in Ended
  /\ IF job[a] = "blank"
     THEN reply' = [reply EXCEPT ![a] = "400"] /\ UNCHANGED <<task, call, sent, token>>
     ELSE CompleteActivity(a, job[a] = "error", outcome)
  /\ UNCHANGED <<job, beat>>

CompleteTranscodeActivitySlip(a, outcome) ==  \* Slip: the branch of server.go:131 is gone.
  /\ a \in Transcodes /\ job[a] \in Ended
  /\ CompleteActivity(a, FALSE, outcome)
  /\ UNCHANGED <<job, beat>>

CompleteTranscodeActivity(a, outcome) ==
  /\ a \in Transcodes /\ job[a] \in Ended
  /\ CompleteActivity(a, job[a] = "error", outcome)
  /\ UNCHANGED <<job, beat>>

Webhook(a, outcome) ==
  CompleteGetVideoInfoActivity(a, outcome) \/ CompleteTranscodeActivity(a, outcome)

\* What the server routes, and where disc.go tells the transcoder to report.
Routes == {"get_video_info/complete", "transcode/complete", "transcode/heartbeat"}
WebhookProgressURI == "transcode/progress"

\* A heartbeat changes nothing: the activity has no HeartbeatTimeout.
TranscodeActivityHeartbeat(a, outcome) ==
  /\ a \in Transcodes /\ job[a] = "running"
  /\ beat' = [beat EXCEPT ![a] =
                IF WebhookProgressURI \notin Routes THEN "404"
                ELSE IF outcome = "answered" /\ Takes(a) THEN "200" ELSE "500"]
  /\ UNCHANGED <<task, call, sent, job, token, reply>>

-----------------------------------------------------------------------------
(* Specification *)

Worker(a) == StartAttempt(a) \/ HandlerReturns(a)

Service(a) ==
  \/ JobEnds(a)
  \/ \E t \in Tokens : RequestLost(a, t) \/ Accepts(a, t) \/ Conflicts(a, t) \/ Refuses(a, t)

Server(a) == \E o \in Outcomes : Webhook(a, o) \/ TranscodeActivityHeartbeat(a, o)

Next ==
  \E a \in Activities :
    \/ Worker(a) \/ WorkerCrashes(a) \/ CallBreaks(a) \/ TimesOut(a)
    \/ Service(a) \/ Server(a)

Spec == Init /\ [][Next]_vars

\* Temporal dispatches every attempt and its clock runs, a worker that lives
\* returns, a job ends, and the service calls the webhook until it is answered.
\* A service that is asked for a job over and over accepts it at last.
Fairness ==
  \A a \in Activities :
    /\ WF_vars(StartAttempt(a)) /\ WF_vars(HandlerReturns(a)) /\ WF_vars(TimesOut(a))
    /\ WF_vars(JobEnds(a))
    /\ SF_vars(Accepts(a, "current"))
    /\ SF_vars(Webhook(a, "answered"))

FairSpec == Spec /\ Fairness

-----------------------------------------------------------------------------
(* Properties *)

\* An activity completes only with the outcome of its own job, delivered with the
\* token of the attempt that created the job: not by a late webhook of an attempt
\* that timed out, nor by two of them (server.go:86, 113, 132, 142).
CompletedByItsJob ==
  \A a \in Activities : task[a] = "completed" => job[a] = "ok" /\ token[a] = "current"

\* While a GetVideoInfo waits to be completed asynchronously (get_video_info.go:45-47),
\* there is a job that can complete it: an attempt that met the job of an earlier
\* attempt does not wait, whatever requests were delayed, doubled or lost.
PendingOwnsJob ==
  \A a \in GetVideoInfos : task[a] = "started" /\ call[a] = "pending" => token[a] = "current"

\* A service that was answered 200 may forget the job (server.go:93, 121, 139, 150):
\* the activity has the result, or its error was used up.
AcknowledgedIsRecorded ==
  \A a \in Activities : reply[a] = "200" =>
    \/ task[a] = "completed"
    \/ job[a] = "error" /\ token[a] = "stale"

\* Refusals, lost requests, lost answers and crashed workers are made good by the
\* next attempt: an activity completes, unless its job fails or the attempt that
\* created the job is over before the job reports.
CompletesUnlessStale ==
  \A a \in Activities :
    [](token[a] # "stale" /\ job[a] \notin {"error", "blank"}) => <>(task[a] = "completed")

\* The job of an activity is lost to it when it has failed, or when the attempt that
\* created it is over: later attempts ask for a UUID that is taken.
Doomed(a) == token[a] = "stale" \/ job[a] \in {"error", "blank"}

FateOf(a) ==
  IF task[a] = "completed" THEN "result"
  ELSE IF Doomed(a) THEN "never"
  ELSE IF job[a] = "none" THEN "asked" ELSE "working"
fateBar == [a \in Activities |-> FateOf(a)]

Outcome == INSTANCE ActivityFates WITH fate <- fateBar

\* An activity gets one job, and its result from that job or not at all: since its UUID is
\* drawn once (disc.go:120, 145), no attempt, request or webhook that comes later repairs
\* a job that failed or outlived its attempt.  (CompletesUnlessStale is the other half.)
ImplementsFates == Outcome!Spec

\* The comment of get_video_info.go:46 on an activity that was left open: "Will be
\* completed asynchronously", if its job succeeds.
AcceptedIsCompleted ==
  \A a \in GetVideoInfos :
    (call[a] = "pending" /\ job[a] = "running")
      ~> (task[a] = "completed" \/ job[a] \in {"error", "blank"})

-----------------------------------------------------------------------------
(* The inductive invariant *)

\* A job has the token of one request, the only one of its attempt.
Owner(a) ==
  /\ job[a] = "blank" => a \in GetVideoInfos
  /\ token[a] = "none" <=> job[a] = "none"
  /\ call[a] = "posting" \/ "current" \in sent[a] => token[a] # "current"
  /\ call[a] = "201" => token[a] = "current"

\* An attempt is over when its activity is not started.
Attempt(a) ==
  /\ task[a] = "scheduled" => token[a] # "current" /\ "current" \notin sent[a] /\ call[a] = "none"
  /\ task[a] = "completed" => token[a] = "current" /\ job[a] = "ok"

IInv ==
  /\ TypeOK
  /\ \A a \in Activities : Owner(a) /\ Attempt(a)
  /\ PendingOwnsJob /\ AcknowledgedIsRecorded
=============================================================================
