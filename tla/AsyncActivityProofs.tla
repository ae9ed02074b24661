------------------------- MODULE AsyncActivityProofs -------------------------
(***************************************************************************)
(* Theorems about AsyncActivity, for every set of activities.              *)
(***************************************************************************)
EXTENDS AsyncActivity, TLAPS

USE DEF Tokens, Calling, Calls, Ended

\* What the last attempt leaves behind is never current.
LEMMA AgedIsStale ==
  /\ \A t \in Tokens \cup {"none"} : Aged(t) \in {"stale", "none"} /\ (Aged(t) = "none" <=> t = "none")
  /\ \A S \in SUBSET Tokens : {Aged(t) : t \in S} \in SUBSET Tokens /\ "current" \notin {Aged(t) : t \in S}
  BY DEF Aged

\* The invariant of one activity.
InvOf(a) ==
  /\ Owner(a) /\ Attempt(a)
  /\ a \in GetVideoInfos /\ task[a] = "started" /\ call[a] = "pending" => token[a] = "current"
  /\ reply[a] = "200" => task[a] = "completed" \/ (job[a] = "error" /\ token[a] = "stale")

LEMMA IInvSplit == IInv <=> TypeOK /\ \A a \in Activities : InvOf(a)
  BY DEF IInv, InvOf, PendingOwnsJob, AcknowledgedIsRecorded, Activities

LEMMA InitHolds == Init => IInv
  BY DEF Init, IInv, TypeOK, Owner, Attempt, PendingOwnsJob, AcknowledgedIsRecorded, Activities

\* A step of one activity leaves the others alone.
Frame(b) ==
  \A a \in Activities \ {b} :
    /\ task'[a] = task[a] /\ call'[a] = call[a] /\ sent'[a] = sent[a]
    /\ job'[a] = job[a] /\ token'[a] = token[a] /\ reply'[a] = reply[a]

LEMMA FrameHolds ==
  ASSUME IInv, TypeOK', NEW b \in Activities, Frame(b), InvOf(b)'
  PROVE  IInv'
<1>1. ASSUME NEW a \in Activities \ {b}
      PROVE  InvOf(a)'
  <2>1. InvOf(a)
    BY IInvSplit
  <2> QED
    BY <2>1 DEF Frame, InvOf, Owner, Attempt
<1>2. \A a \in Activities : InvOf(a)'
  BY <1>1
<1> QED
  BY <1>2, IInvSplit DEF IInv, InvOf, PendingOwnsJob, AcknowledgedIsRecorded, Activities

\* The end of an attempt without a result.
LEMMA RetryStep ==
  ASSUME TypeOK, NEW b \in Activities, Retry(b)
  PROVE  /\ task' \in [Activities -> {"scheduled", "started", "completed"}]
         /\ call' \in [Activities -> Calls]
         /\ sent' \in [Activities -> SUBSET Tokens]
         /\ token' \in [Activities -> Tokens \cup {"none"}]
         /\ task'[b] = "scheduled" /\ call'[b] = "none" /\ "current" \notin sent'[b]
         /\ token'[b] = Aged(token[b])
         /\ \A a \in Activities \ {b} : /\ task'[a] = task[a] /\ call'[a] = call[a]
                                        /\ sent'[a] = sent[a] /\ token'[a] = token[a]
  BY AgedIsStale DEF TypeOK, Retry

LEMMA StartAttemptHolds ==
  ASSUME IInv, NEW b \in Activities, StartAttempt(b)
  PROVE  IInv'
<1>1. TypeOK' /\ Frame(b)
  BY DEF IInv, TypeOK, StartAttempt, Frame
<1>2. InvOf(b)
  BY IInvSplit
<1>3. InvOf(b)'
  BY <1>2 DEF IInv, TypeOK, StartAttempt, InvOf, Owner, Attempt
<1> QED
  BY <1>1, <1>3, FrameHolds

LEMMA HandlerReturnsHolds ==
  ASSUME IInv, NEW b \in Activities, HandlerReturns(b)
  PROVE  IInv'
<1>1. TypeOK /\ InvOf(b)
  BY IInvSplit
<1>2. CASE LeavesOpen(b)
  <2>1. TypeOK' /\ Frame(b)
    BY <1>1, <1>2 DEF TypeOK, HandlerReturns, Frame
  <2>2. InvOf(b)'
    BY <1>1, <1>2 DEF TypeOK, HandlerReturns, LeavesOpen, InvOf, Owner, Attempt, Activities
  <2> QED
    BY <2>1, <2>2, FrameHolds
<1>3. CASE ~LeavesOpen(b) /\ task[b] = "started"
  <2>1. Retry(b) /\ UNCHANGED <<job, reply, beat>>
    BY <1>3 DEF HandlerReturns
  <2>2. TypeOK' /\ Frame(b)
    BY <1>1, <2>1, RetryStep DEF TypeOK, Frame
  <2>3. InvOf(b)'
    BY <1>1, <1>3, <2>1, RetryStep, AgedIsStale DEF TypeOK, InvOf, Owner, Attempt
  <2> QED
    BY <2>2, <2>3, FrameHolds
<1>4. CASE ~LeavesOpen(b) /\ task[b] # "started"
  <2>1. TypeOK' /\ Frame(b)
    BY <1>1, <1>4 DEF TypeOK, HandlerReturns, Frame
  <2>2. InvOf(b)'
    BY <1>1, <1>4 DEF TypeOK, HandlerReturns, InvOf, Owner, Attempt
  <2> QED
    BY <2>1, <2>2, FrameHolds
<1> QED
  BY <1>2, <1>3, <1>4

LEMMA FaultsHold ==
  ASSUME IInv, NEW b \in Activities, WorkerCrashes(b) \/ CallBreaks(b)
  PROVE  IInv'
<1>1. TypeOK /\ InvOf(b)
  BY IInvSplit
<1>2. TypeOK' /\ Frame(b)
  BY <1>1 DEF TypeOK, WorkerCrashes, CallBreaks, Frame
<1>3. InvOf(b)'
  BY <1>1 DEF TypeOK, WorkerCrashes, CallBreaks, InvOf, Owner, Attempt
<1> QED
  BY <1>2, <1>3, FrameHolds

LEMMA TimesOutHolds ==
  ASSUME IInv, NEW b \in Activities, TimesOut(b)
  PROVE  IInv'
<1>1. TypeOK /\ InvOf(b) /\ Retry(b) /\ task[b] = "started" /\ UNCHANGED <<job, reply, beat>>
  BY IInvSplit DEF TimesOut
<1>2. TypeOK' /\ Frame(b)
  BY <1>1, RetryStep DEF TypeOK, Frame
<1>3. InvOf(b)'
  BY <1>1, RetryStep, AgedIsStale DEF TypeOK, InvOf, Owner, Attempt
<1> QED
  BY <1>2, <1>3, FrameHolds

-----------------------------------------------------------------------------
(* The video service *)

LEMMA ArrivesStep ==
  ASSUME TypeOK, NEW b \in Activities, NEW t \in Tokens, Arrives(b, t)
  PROVE  /\ sent' \in [Activities -> SUBSET Tokens]
         /\ "current" \in sent'[b] => "current" \in sent[b]
         /\ t = "current" => t \in sent[b] /\ "current" \notin sent'[b]
         /\ \A a \in Activities \ {b} : sent'[a] = sent[a]
  BY DEF TypeOK, Arrives

LEMMA AnswersStep ==
  ASSUME TypeOK, NEW b \in Activities, NEW t \in Tokens, NEW answer \in {"201", "409", "refused"},
         Answers(b, t, answer)
  PROVE  /\ call' \in [Activities -> Calls]
         /\ \/ call'[b] = call[b]
            \/ t = "current" /\ call[b] = "posting" /\ call'[b] = answer
         /\ t = "current" => call'[b] # "posting"
         /\ \A a \in Activities \ {b} : call'[a] = call[a]
  BY DEF TypeOK, Answers

\* The first request decides which token the job keeps: the attempt that sent it is
\* the only one that may ever be told 201.
LEMMA AcceptsHolds ==
  ASSUME IInv, NEW b \in Activities, NEW t \in Tokens, Accepts(b, t)
  PROVE  IInv'
<1>1. TypeOK /\ InvOf(b)
  BY IInvSplit
<1>2. Arrives(b, t) /\ Answers(b, t, "201")
  BY DEF Accepts
<1>3. TypeOK' /\ Frame(b)
  BY <1>1, <1>2, ArrivesStep, AnswersStep DEF TypeOK, Accepts, Frame
<1>4. token[b] = "none" /\ token'[b] = t /\ job'[b] = "running" /\ job[b] = "none"
  BY <1>1 DEF TypeOK, Accepts, InvOf, Owner
<1>5. task[b] # "completed" /\ (task[b] = "scheduled" => t = "stale") /\ call[b] # "201"
  BY <1>1, <1>2, <1>4, ArrivesStep DEF InvOf, Owner, Attempt, Tokens
<1>6. UNCHANGED <<task, reply, beat>>
  BY DEF Accepts
<1>7. Owner(b)'
  BY <1>1, <1>2, <1>4, <1>5, ArrivesStep, AnswersStep DEF InvOf, Owner
<1>8. Attempt(b)'
  BY <1>1, <1>2, <1>4, <1>5, <1>6, ArrivesStep, AnswersStep DEF InvOf, Attempt
<1>9. b \in GetVideoInfos /\ task'[b] = "started" /\ call'[b] = "pending" => token'[b] = "current"
  BY <1>1, <1>2, <1>4, <1>6, AnswersStep DEF InvOf
<1>10. reply'[b] = "200" => task'[b] = "completed" \/ (job'[b] = "error" /\ token'[b] = "stale")
  BY <1>1, <1>4, <1>6 DEF InvOf
<1>11. InvOf(b)'
  BY <1>7, <1>8, <1>9, <1>10 DEF InvOf
<1> QED
  BY <1>3, <1>11, FrameHolds

LEMMA AnsweredHolds ==
  ASSUME IInv, NEW b \in Activities, NEW t \in Tokens,
         RequestLost(b, t) \/ Conflicts(b, t) \/ Refuses(b, t)
  PROVE  IInv'
<1>1. TypeOK /\ InvOf(b)
  BY IInvSplit
<1>2. Arrives(b, t) /\ UNCHANGED <<task, job, token, reply, beat>>
  BY DEF RequestLost, Conflicts, Refuses
<1>3. UNCHANGED call \/ \E answer \in {"409", "refused"} : Answers(b, t, answer)
  BY DEF RequestLost, Conflicts, Refuses
<1>4. /\ call' \in [Activities -> Calls]
      /\ call'[b] \in {call[b], "409", "refused"}
      /\ call'[b] # call[b] => call[b] = "posting"
      /\ \A a \in Activities \ {b} : call'[a] = call[a]
  BY <1>1, <1>3, AnswersStep DEF TypeOK
<1>5. TypeOK' /\ Frame(b)
  BY <1>1, <1>2, <1>4, ArrivesStep DEF TypeOK, Frame
<1>6. InvOf(b)'
  BY <1>1, <1>2, <1>4, ArrivesStep DEF InvOf, Owner, Attempt
<1> QED
  BY <1>5, <1>6, FrameHolds

LEMMA JobEndsHolds ==
  ASSUME IInv, NEW b \in Activities, JobEnds(b)
  PROVE  IInv'
<1>1. TypeOK /\ InvOf(b)
  BY IInvSplit
<1>2. TypeOK' /\ Frame(b)
  BY <1>1 DEF TypeOK, JobEnds, Frame
<1>3. InvOf(b)'
  BY <1>1 DEF TypeOK, JobEnds, InvOf, Owner, Attempt, Activities
<1> QED
  BY <1>2, <1>3, FrameHolds

-----------------------------------------------------------------------------
(* The webhooks *)

\* Only a job that ended well, and the token of the attempt that is started, complete.
LEMMA CompleteActivityHolds ==
  ASSUME IInv, NEW b \in Activities, NEW o \in Outcomes, job[b] \in {"ok", "error"},
         CompleteActivity(b, job[b] = "error", o), UNCHANGED <<job, beat>>
  PROVE  IInv'
<1> DEFINE Reached == o # "unavailable" /\ Takes(b)
<1>1. TypeOK /\ InvOf(b)
  BY IInvSplit
<1>2. reply' \in [Activities -> {"none", "200", "400", "500"}]
  BY <1>1 DEF TypeOK, CompleteActivity
<1>3. \A a \in Activities \ {b} : reply'[a] = reply[a]
  BY <1>1 DEF TypeOK, CompleteActivity
<1>4. reply'[b] = "200" => Reached
  BY <1>1 DEF TypeOK, CompleteActivity, Outcomes
<1>5. CASE Reached /\ job[b] = "error"
  <2>1. Retry(b) /\ token[b] = "current"
    BY <1>5 DEF CompleteActivity, Takes
  <2>2. TypeOK' /\ Frame(b)
    BY <1>1, <1>2, <1>3, <2>1, RetryStep DEF TypeOK, Frame
  <2>3. token'[b] = "stale"
    BY <1>1, <2>1, RetryStep DEF Aged
  <2>4. InvOf(b)'
    BY <1>1, <1>5, <2>1, <2>3, RetryStep DEF InvOf, Owner, Attempt
  <2> QED
    BY <2>2, <2>4, FrameHolds
<1>6. CASE Reached /\ job[b] = "ok"
  <2>1. task' = [task EXCEPT ![b] = "completed"] /\ UNCHANGED <<call, sent, token>> /\ token[b] = "current"
    BY <1>6 DEF CompleteActivity, Takes
  <2>2. TypeOK' /\ Frame(b)
    BY <1>1, <1>2, <1>3, <2>1 DEF TypeOK, Frame
  <2>3. InvOf(b)'
    BY <1>1, <1>6, <2>1 DEF TypeOK, InvOf, Owner, Attempt
  <2> QED
    BY <2>2, <2>3, FrameHolds
<1>7. CASE ~Reached
  <2>1. UNCHANGED <<task, call, sent, token>>
    BY <1>7 DEF CompleteActivity
  <2>2. TypeOK' /\ Frame(b)
    BY <1>1, <1>2, <1>3, <2>1 DEF TypeOK, Frame
  <2>3. InvOf(b)'
    BY <1>1, <1>4, <1>7, <2>1 DEF InvOf, Owner, Attempt
  <2> QED
    BY <2>2, <2>3, FrameHolds
<1> QED
  BY <1>5, <1>6, <1>7

LEMMA WebhookHolds ==
  ASSUME IInv, NEW b \in Activities, NEW o \in Outcomes, Webhook(b, o)
  PROVE  IInv'
<1>1. TypeOK /\ InvOf(b)
  BY IInvSplit
<1>2. CASE CompleteGetVideoInfoActivity(b, o) /\ job[b] = "blank"
  <2>1. /\ reply' = [reply EXCEPT ![b] = "400"]
        /\ UNCHANGED <<task, call, sent, token, job, beat>>
    BY <1>2 DEF CompleteGetVideoInfoActivity
  <2>2. TypeOK' /\ Frame(b)
    BY <1>1, <2>1 DEF TypeOK, Frame
  <2>3. InvOf(b)'
    BY <1>1, <2>1 DEF TypeOK, InvOf, Owner, Attempt
  <2> QED
    BY <2>2, <2>3, FrameHolds
<1>3. CASE CompleteGetVideoInfoActivity(b, o) /\ job[b] # "blank"
  <2>1. /\ job[b] \in {"ok", "error"} /\ CompleteActivity(b, job[b] = "error", o)
        /\ UNCHANGED <<job, beat>>
    BY <1>3 DEF CompleteGetVideoInfoActivity
  <2> QED
    BY <2>1, CompleteActivityHolds
<1>4. CASE CompleteTranscodeActivity(b, o) /\ job[b] # "blank"
  <2>1. /\ job[b] \in {"ok", "error"} /\ CompleteActivity(b, job[b] = "error", o)
        /\ UNCHANGED <<job, beat>>
    BY <1>4 DEF CompleteTranscodeActivity
  <2> QED
    BY <2>1, CompleteActivityHolds
<1>5. CompleteTranscodeActivity(b, o) => job[b] # "blank"
  BY <1>1, ActivitiesAssumption DEF CompleteTranscodeActivity, InvOf, Owner
<1> QED
  BY <1>2, <1>3, <1>4, <1>5 DEF Webhook

\* No step takes more than the activity it is about out of the invariant.
LEMMA NextHolds ==
  ASSUME IInv, [Next]_vars
  PROVE  IInv'
<1>1. CASE UNCHANGED vars
  BY <1>1 DEF vars, IInv, TypeOK, Owner, Attempt, PendingOwnsJob, AcknowledgedIsRecorded
<1>2. ASSUME NEW b \in Activities, Worker(b) \/ WorkerCrashes(b) \/ CallBreaks(b) \/ TimesOut(b)
      PROVE  IInv'
  BY <1>2, StartAttemptHolds, HandlerReturnsHolds, FaultsHold, TimesOutHolds DEF Worker
<1>3. ASSUME NEW b \in Activities, Service(b)
      PROVE  IInv'
  BY <1>3, JobEndsHolds, AcceptsHolds, AnsweredHolds DEF Service
<1>4. ASSUME NEW b \in Activities, Server(b)
      PROVE  IInv'
  <2>1. PICK o \in Outcomes : Webhook(b, o) \/ TranscodeActivityHeartbeat(b, o)
    BY <1>4 DEF Server
  <2>2. CASE Webhook(b, o)
    BY <2>2, WebhookHolds
  <2>3. CASE TranscodeActivityHeartbeat(b, o)
    <3>1. UNCHANGED <<task, call, sent, job, token, reply>>
      BY <2>3 DEF TranscodeActivityHeartbeat
    <3>2. beat' \in [Activities -> {"none", "200", "404", "500"}]
      BY <2>3 DEF TranscodeActivityHeartbeat, IInv, TypeOK
    <3> QED
      BY <3>1, <3>2 DEF IInv, TypeOK, Owner, Attempt, PendingOwnsJob, AcknowledgedIsRecorded
  <2> QED
    BY <2>1, <2>2, <2>3
<1> QED
  BY <1>1, <1>2, <1>3, <1>4 DEF Next

-----------------------------------------------------------------------------
(* Theorems *)

\* The inductive invariant: a job belongs to one attempt, and what is left of the
\* attempts that are over cannot speak for the one that is started.
THEOREM IInvInvariant == Spec => []IInv
<1>1. Init => IInv
  BY InitHolds
<1>2. IInv /\ [Next]_vars => IInv'
  BY NextHolds
<1> QED
  BY <1>1, <1>2, PTL DEF Spec

\* The handlers, the service, Temporal and the webhooks keep to their states.
THEOREM TypeCorrect == Spec => []TypeOK
<1>1. IInv => TypeOK
  BY DEF IInv
<1> QED
  BY <1>1, IInvInvariant, PTL

\* An activity that completes does so with the outcome of its own job (server.go:86,
\* 113, 132, 142), whatever late or repeated webhooks and requests there are.
THEOREM CompletionIsGenuine == Spec => []CompletedByItsJob
<1>1. IInv => CompletedByItsJob
  BY DEF IInv, Attempt, CompletedByItsJob
<1> QED
  BY <1>1, IInvInvariant, PTL

\* A GetVideoInfo that waits owns the job it waits for (get_video_info.go:45-47).
THEOREM WaitingIsOwning == Spec => []PendingOwnsJob
<1>1. IInv => PendingOwnsJob
  BY DEF IInv
<1> QED
  BY <1>1, IInvInvariant, PTL

\* The result of a webhook that was answered 200 is not lost (server.go:93, 121, 139, 150).
THEOREM AcknowledgementIsKept == Spec => []AcknowledgedIsRecorded
<1>1. IInv => AcknowledgedIsRecorded
  BY DEF IInv
<1> QED
  BY <1>1, IInvInvariant, PTL

-----------------------------------------------------------------------------
(* AsyncActivity implements ActivityFates *)

\* What a step may do to the fate of one activity.
FateMoves(b) ==
  \/ FateOf(b)' = FateOf(b)
  \/ FateOf(b) = "asked" /\ FateOf(b)' = "working"
  \/ FateOf(b) = "working" /\ FateOf(b)' = "result"
  \/ FateOf(b) \in {"asked", "working"} /\ FateOf(b)' = "never"

\* The fates of the others depend on this alone.
KeepsOthers(b) ==
  \A a \in Activities \ {b} : task'[a] = task[a] /\ token'[a] = token[a] /\ job'[a] = job[a]

LEMMA FatesOfOne ==
  ASSUME NEW b \in Activities, KeepsOthers(b), FateMoves(b)
  PROVE  [Outcome!Next]_fateBar
<1>1. \A a \in Activities \ {b} : FateOf(a)' = FateOf(a)
  BY DEF KeepsOthers, FateOf, Doomed
<1> DEFINE now(a) == FateOf(a)  then(a) == FateOf(a)'
<1>2. /\ fateBar = [a \in Activities |-> now(a)] /\ fateBar' = [a \in Activities |-> then(a)]
      /\ \A a \in Activities \ {b} : then(a) = now(a)
  BY <1>1 DEF fateBar
<1>3. \/ then(b) = now(b)
      \/ now(b) = "asked" /\ then(b) = "working"
      \/ now(b) = "working" /\ then(b) = "result"
      \/ now(b) \in {"asked", "working"} /\ then(b) = "never"
  BY DEF FateMoves
<1> HIDE DEF now, then
<1>4. CASE then(b) = now(b)
  BY <1>2, <1>4
<1>5. CASE now(b) = "asked" /\ then(b) = "working"
  <2>1. Outcome!Work(b)
    BY <1>2, <1>5 DEF Outcome!Work
  <2> QED
    BY <2>1 DEF Outcome!Next
<1>6. CASE now(b) = "working" /\ then(b) = "result"
  <2>1. Outcome!Complete(b)
    BY <1>2, <1>6 DEF Outcome!Complete
  <2> QED
    BY <2>1 DEF Outcome!Next
<1>7. CASE now(b) \in {"asked", "working"} /\ then(b) = "never"
  <2>1. Outcome!Forfeit({b})
    BY <1>2, <1>7 DEF Outcome!Forfeit
  <2> QED
    BY <2>1 DEF Outcome!Next
<1> QED
  BY <1>3, <1>4, <1>5, <1>6, <1>7

\* A job of an attempt that ends is lost to its activity.
LEMMA RetryForfeits ==
  ASSUME IInv, NEW b \in Activities, task[b] = "started", Retry(b), UNCHANGED job
  PROVE  FateMoves(b)
<1>1. TypeOK /\ InvOf(b)
  BY IInvSplit
<1>2. task'[b] = "scheduled" /\ token'[b] = Aged(token[b]) /\ job'[b] = job[b]
  BY <1>1, RetryStep
<1>3. token[b] \in Tokens \cup {"none"} /\ (token[b] = "none" <=> job[b] = "none")
  BY <1>1 DEF TypeOK, InvOf, Owner
<1> QED
  BY <1>2, <1>3 DEF Aged, FateMoves, FateOf, Doomed

\* A step that leaves records, tokens and jobs alone, or starts an attempt.
LEMMA FateStays ==
  ASSUME NEW b \in Activities, task'[b] = "completed" <=> task[b] = "completed",
         token'[b] = token[b], job'[b] = job[b]
  PROVE  FateMoves(b)
BY DEF FateMoves, FateOf, Doomed

LEMMA WorkerFates ==
  ASSUME IInv, NEW b \in Activities, Worker(b) \/ WorkerCrashes(b) \/ CallBreaks(b) \/ TimesOut(b)
  PROVE  KeepsOthers(b) /\ FateMoves(b)
<1>1. TypeOK
  BY DEF IInv
<1>2. CASE StartAttempt(b)
  <2>1. /\ UNCHANGED <<token, job>> /\ task[b] = "scheduled" /\ task'[b] = "started"
        /\ \A a \in Activities \ {b} : task'[a] = task[a]
    BY <1>1, <1>2 DEF TypeOK, StartAttempt
  <2> QED
    BY <2>1, FateStays DEF KeepsOthers
<1>3. CASE task[b] = "started" /\ Retry(b) /\ UNCHANGED job
  BY <1>1, <1>3, RetryStep, RetryForfeits DEF KeepsOthers
<1>4. CASE UNCHANGED <<task, token, job>>
  BY <1>4, FateStays DEF KeepsOthers
<1> QED
  BY <1>2, <1>3, <1>4 DEF Worker, HandlerReturns, WorkerCrashes, CallBreaks, TimesOut

LEMMA ServiceFates ==
  ASSUME IInv, NEW b \in Activities, Service(b)
  PROVE  KeepsOthers(b) /\ FateMoves(b)
<1>1. TypeOK /\ InvOf(b)
  BY IInvSplit
<1>2. CASE JobEnds(b)
  <2>1. /\ UNCHANGED <<task, token>> /\ job[b] = "running" /\ job'[b] \in Ended
        /\ \A a \in Activities \ {b} : job'[a] = job[a]
    BY <1>1, <1>2 DEF TypeOK, JobEnds
  <2>2. task[b] # "completed"
    BY <1>1, <2>1 DEF InvOf, Attempt
  <2>3. FateMoves(b)
    BY <2>1, <2>2 DEF FateMoves, FateOf, Doomed
  <2> QED
    BY <2>1, <2>3 DEF KeepsOthers
<1>3. ASSUME NEW t \in Tokens, Accepts(b, t)
      PROVE  KeepsOthers(b) /\ FateMoves(b)
  <2>1. /\ UNCHANGED task /\ job[b] = "none" /\ job'[b] = "running" /\ token'[b] = t
        /\ \A a \in Activities \ {b} : job'[a] = job[a] /\ token'[a] = token[a]
    BY <1>1, <1>3 DEF TypeOK, Accepts
  <2>2. task[b] # "completed" /\ token[b] = "none"
    BY <1>1, <2>1 DEF InvOf, Owner, Attempt
  <2>3. FateMoves(b)
    BY <2>1, <2>2 DEF FateMoves, FateOf, Doomed
  <2> QED
    BY <2>1, <2>3 DEF KeepsOthers
<1>4. CASE UNCHANGED <<task, token, job>>
  BY <1>4, FateStays DEF KeepsOthers
<1> QED
  BY <1>2, <1>3, <1>4 DEF Service, RequestLost, Conflicts, Refuses

\* A webhook settles the fate of an activity only by the result of its own job.
LEMMA ServerFates ==
  ASSUME IInv, NEW b \in Activities, Server(b)
  PROVE  KeepsOthers(b) /\ FateMoves(b)
<1>1. TypeOK /\ InvOf(b)
  BY IInvSplit
<1>2. UNCHANGED job
  BY DEF Server, Webhook, CompleteGetVideoInfoActivity, CompleteTranscodeActivity,
         TranscodeActivityHeartbeat
<1>3. CASE UNCHANGED <<task, token>>
  BY <1>2, <1>3, FateStays DEF KeepsOthers
<1>4. ASSUME NEW o \in Outcomes, job[b] \in {"ok", "error"}, CompleteActivity(b, job[b] = "error", o),
             ~UNCHANGED <<task, token>>
      PROVE  KeepsOthers(b) /\ FateMoves(b)
  <2>1. task[b] = "started" /\ token[b] = "current"
    BY <1>4 DEF CompleteActivity, Takes
  <2>2. CASE job[b] = "error"
    <3>1. Retry(b)
      BY <1>4, <2>2 DEF CompleteActivity
    <3> QED
      BY <1>1, <1>2, <2>1, <3>1, RetryStep, RetryForfeits DEF KeepsOthers
  <2>3. CASE job[b] = "ok"
    <3>1. task' = [task EXCEPT ![b] = "completed"] /\ UNCHANGED token
      BY <1>4, <2>3 DEF CompleteActivity
    <3>2. task'[b] = "completed" /\ \A a \in Activities \ {b} : task'[a] = task[a]
      BY <1>1, <3>1 DEF TypeOK
    <3>3. FateMoves(b)
      BY <2>1, <2>3, <3>2 DEF FateMoves, FateOf, Doomed
    <3> QED
      BY <1>2, <3>1, <3>2, <3>3 DEF KeepsOthers
  <2> QED
    BY <1>4, <2>2, <2>3
<1>5. job[b] = "blank" => b \notin Transcodes
  BY <1>1, ActivitiesAssumption DEF InvOf, Owner
<1> QED
  BY <1>3, <1>4, <1>5 DEF Server, Webhook, CompleteGetVideoInfoActivity, CompleteTranscodeActivity,
                          TranscodeActivityHeartbeat

LEMMA FatesStep ==
  ASSUME IInv, [Next]_vars
  PROVE  [Outcome!Next]_fateBar
<1>1. CASE UNCHANGED vars
  BY <1>1 DEF vars, fateBar, FateOf, Doomed
<1>2. ASSUME NEW b \in Activities,
             \/ Worker(b) \/ WorkerCrashes(b) \/ CallBreaks(b) \/ TimesOut(b)
             \/ Service(b) \/ Server(b)
      PROVE  [Outcome!Next]_fateBar
  <2>1. KeepsOthers(b) /\ FateMoves(b)
    BY <1>2, WorkerFates, ServiceFates, ServerFates
  <2> QED
    BY <2>1, FatesOfOne
<1> QED
  BY <1>1, <1>2 DEF Next

\* For any activities: one job each, and a result from that or never, whatever is retried,
\* late or repeated (disc.go:120, 145; server.go:86, 113, 132, 142).
THEOREM ImplementsActivityFates == Spec => ImplementsFates
<1>1. Init => Outcome!Init
  BY DEF Init, Outcome!Init, fateBar, FateOf, Doomed
<1>2. IInv /\ [Next]_vars => [Outcome!Next]_fateBar
  BY FatesStep
<1> QED
  BY <1>1, <1>2, IInvInvariant, PTL DEF Spec, ImplementsFates, Outcome!Spec
=============================================================================
