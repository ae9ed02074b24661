----------------------------- MODULE DiscServer -----------------------------
(***************************************************************************)
(* GetDisc (server/server.go) behind its HTTP layer (vwrest/api.gen.go),   *)
(* for one UUID: many requests at a time, and many runs of the workflow,   *)
(* one after the other, since CreateDisc may start another run once the    *)
(* last one has closed.                                                    *)
(*                                                                         *)
(* One GetDisc makes two calls to Temporal.  The first describes the       *)
(* latest run.  The second is made to that run, by its ID: it waits for    *)
(* the error of a run that failed, and queries any other for its State.    *)
(* Between the two the run may go on, close or be deleted, and others may  *)
(* be started.  Module DiscWorkflow says where the State comes from.       *)
(***************************************************************************)
EXTENDS Naturals

CONSTANTS
  Requests,  \* requests for GetDisc that may be served at a time
  MaxRuns    \* bound: runs of the UUID

ASSUME MaxRunsAssumption == MaxRuns \in Nat

VARIABLES
  count,    \* number of runs that were started
  run,      \* each of them: its status, and the status that GetDisc makes of its State
  request,  \* each request: what its handler waits for, the run it has described, its answer
  seen      \* auxiliary: what Latest was, at any time since the request was made

vars == <<count, run, request, seen>>

-----------------------------------------------------------------------------
Number == 1..MaxRuns

States == {"running", "directory_moved", "files_listed", "got_file_diagnostics"}

\* "failed": Workflow returned an error, or the run was cancelled or terminated.
Run == [status : {"none", "running", "completed", "failed", "deleted"}, state : States]

\* "panic": the handler died, and the client has no answer.
Answers == States \cup {"failed", "400", "404", "500", "panic"}

Request == [at : {"received", "getting", "querying", "done"}, run : 0..MaxRuns,
            answer : Answers \cup {"none"}]

Pending(r) == request[r].at # "done"

TypeOK ==
  /\ count \in 0..MaxRuns
  /\ run \in [Number -> Run]
  /\ request \in [Requests -> Request]
  /\ seen \in [Requests -> SUBSET Answers]
  /\ \A r \in Requests : request[r].at \in {"getting", "querying"} => request[r].run # 0

\* What an answer of the latest run would be, at once.
Latest ==
  IF count = 0 THEN "404"
  ELSE IF run[count].status = "deleted" THEN "404"
  ELSE IF run[count].status = "failed" THEN "failed"
  ELSE run[count].state

\* Every action on runs is watched by the requests that are served.
Watched == seen' = [r \in Requests |-> IF Pending(r) THEN seen[r] \cup {Latest'} ELSE seen[r]]

-----------------------------------------------------------------------------
(* Runs *)

\* CreateDisc starts a run, unless one is going on.
CreateDisc ==
  /\ count < MaxRuns
  /\ count # 0 => run[count].status # "running"
  /\ count' = count + 1
  /\ run' = [run EXCEPT ![count + 1] = [status |-> "running", state |-> "running"]]
  /\ UNCHANGED request
  /\ Watched

Following(s) ==
  CASE s = "running" -> "directory_moved"
    [] s = "directory_moved" -> "files_listed"
    [] OTHER -> "got_file_diagnostics"

\* Workflow sets GotFileDiagnostics and returns.
Advances(i) ==
  /\ run[i].status = "running"
  /\ run' = [run EXCEPT ![i].state = Following(@),
                        ![i].status = IF run[i].state = "files_listed" THEN "completed" ELSE @]
  /\ UNCHANGED <<count, request>>
  /\ Watched

Fails(i) ==
  /\ run[i].status = "running"
  /\ run' = [run EXCEPT ![i].status = "failed"]
  /\ UNCHANGED <<count, request>>
  /\ Watched

\* The retention period of a run that has closed is over.
Expires(i) ==
  /\ run[i].status \in {"completed", "failed"}
  /\ run' = [run EXCEPT ![i].status = "deleted"]
  /\ UNCHANGED <<count, request>>
  /\ Watched

-----------------------------------------------------------------------------
(* GetDisc *)

Answer(r, answer) ==
  /\ request' = [request EXCEPT ![r].at = "done", ![r].answer = answer]
  /\ UNCHANGED <<count, run, seen>>

\* A request with a UUID that is none does not come to GetDisc.  (A client of the
\* model makes another request when it has an answer.)
Receive(r) ==
  /\ ~Pending(r)
  /\ \/ Answer(r, "400")
     \/ /\ request' = [request EXCEPT ![r] = [at |-> "received", run |-> 0, answer |-> "none"]]
        /\ seen' = [seen EXCEPT ![r] = {Latest}]
        /\ UNCHANGED <<count, run>>

SecondCallOfCompleted(status) ==  \* Slip: COMPLETED is forgotten (server.go:193).
  IF status = "running" THEN "querying" ELSE "getting"

SecondCallUnchecked(status) == "querying"  \* Slip: the State of a run that failed is shown.

\* A run that is neither RUNNING nor COMPLETED is asked for its error.
SecondCall(status) == IF status = "failed" THEN "getting" ELSE "querying"

\* The latest run is known from now on, by its ID.
Described(r) ==
  /\ request' = [request EXCEPT ![r].at = SecondCall(run[count].status), ![r].run = count]
  /\ UNCHANGED <<count, run, seen>>

DescribeSlip(r) ==  \* Slip: no return from the branch of NotFound.
  /\ request[r].at = "received"
  /\ \/ Answer(r, "500")
     \/ Latest # "404" /\ Described(r)
     \/ /\ Latest = "404"
        /\ request' = [request EXCEPT ![r].at = "querying"]
        /\ UNCHANGED <<count, run, seen>>

\* DescribeWorkflowExecution may fail in any case.
Describe(r) ==
  /\ request[r].at = "received"
  /\ \/ Answer(r, "500")
     \/ Latest = "404" /\ Answer(r, "404")
     \/ Latest # "404" /\ Described(r)

\* GetFirstRunId: a run that CreateDisc started is the first of its chain.
FirstRunIdSlip(r) == count  \* Slip: an empty run ID, for the latest run.

FirstRunId(r) == request[r].run

\* workflow.Get waits until the run is closed, and returns its error, nil if it has
\* none; server.go:197 calls Error on it.  A run that is gone is an error, too.
Get(r) ==
  /\ request[r].at = "getting"
  /\ LET s == run[FirstRunId(r)].status
     IN  /\ s # "running"
         /\ Answer(r, IF s = "completed" THEN "panic" ELSE "failed")

Query(r) ==
  /\ request[r].at = "querying"
  /\ LET i == FirstRunId(r)
     IN  \/ Answer(r, "500")
         \/ Answer(r, IF run[i].status = "deleted" THEN "404" ELSE run[i].state)

GetDisc(r) == Describe(r) \/ Get(r) \/ Query(r)

-----------------------------------------------------------------------------
(* Specification *)

Init ==
  /\ count = 0
  /\ run = [i \in Number |-> [status |-> "none", state |-> "running"]]
  /\ request = [r \in Requests |-> [at |-> "done", run |-> 0, answer |-> "none"]]
  /\ seen = [r \in Requests |-> {}]

Next ==
  \/ CreateDisc
  \/ \E i \in Number : Advances(i) \/ Fails(i) \/ Expires(i)
  \/ \E r \in Requests : Receive(r) \/ GetDisc(r)

Spec == Init /\ [][Next]_vars

\* Temporal answers the calls of a handler, if it can.
FairSpec == Spec /\ \A r \in Requests : WF_vars(GetDisc(r))

-----------------------------------------------------------------------------
(* Properties *)

\* The two calls of a GetDisc (server.go:176, 195, 214) come to an answer that one call
\* would have got, at some time while the request was served: no state of one run with
\* the outcome of another.  (A run that is deleted between the calls is not found.)
AnswersAreTrue ==
  \A r \in Requests : ~Pending(r) =>
    \/ request[r].answer \in seen[r] \cup {"none", "400", "500", "panic"}
    \/ request[r].answer = "404" /\ request[r].run # 0 /\ run[request[r].run].status = "deleted"

\* The handler never calls Error on nil (server.go:197).
NeverPanics == \A r \in Requests : request[r].answer # "panic"

\* Get returns at once, and an error (server.go:196-197), whatever runs have been started or
\* deleted since the run was described: it finds that run failed, or gone, and never one
\* that goes on, for which it would wait, or one that completed, on whose nil Error panics.
GetsAnError ==
  \A r \in Requests :
    request[r].at = "getting" => run[FirstRunId(r)].status \in {"failed", "deleted"}

\* GetDisc waits only for runs that have closed (server.go:196): every request is
\* answered, although the latest run may go on for ever.
RequestsAreAnswered == \A r \in Requests : Pending(r) ~> ~Pending(r)

-----------------------------------------------------------------------------
(* The inductive invariant *)

\* Runs are started one after the other, and only the latest may be going on.
Runs ==
  \A i \in Number :
    /\ i <= count => run[i].status # "none"
    /\ run[i].status = "running" => i = count

\* What a request will be answered has been true since it was made.
Truthful ==
  \A r \in Requests :
    LET i == request[r].run
    IN  /\ Pending(r) => Latest \in seen[r]
        /\ i <= count
        /\ request[r].at = "getting" =>
             run[i].status \in {"failed", "deleted"} /\ "failed" \in seen[r]
        /\ request[r].at = "querying" =>
             run[i].status = "deleted" \/ run[i].state \in seen[r]

IInv == TypeOK /\ Runs /\ Truthful /\ AnswersAreTrue /\ NeverPanics
=============================================================================
