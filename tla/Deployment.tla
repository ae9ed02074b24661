------------------------------- MODULE Deployment -------------------------------
(***************************************************************************)
(* The server as its callers see it: the two processes that come and go    *)
(* (Processes), the HTTP layer (HttpLayer), and behind it CreateDisc,      *)
(* GetDisc and GetInbox (server/server.go) with what they work on, the     *)
(* inbox and the runs of one disc.                                         *)
(*                                                                         *)
(* The runs are Temporal's and live on when a process dies.  How a run     *)
(* gets on is said in DiscWorkflow and DiscLibrary, what the webhooks do   *)
(* in AsyncActivity, what GetDisc makes of the runs in DiscServer.          *)
(***************************************************************************)
EXTENDS HttpLayer, Processes

CONSTANT Asks  \* bound: the requests that each caller makes

ASSUME AsksAssumption == Asks \in [Callers -> SUBSET Requests]

VARIABLES
  inbox,     \* what is in the inbox at each path
  scan,      \* ReadDir for a GetInbox: the paths it has not come to, and what it will list
  run,       \* the latest run of the disc: its status, and Params that matter here
  found,     \* the run that a GetDisc has been described, until it is asked for more
  told,      \* auxiliary: some caller has been told 201, and no run was deleted since
  promised,  \* auxiliary: callers of GetDisc who called since
  ever,      \* auxiliary: paths that were directories at some time since the call was made
  always     \* auxiliary: paths that have been directories ever since

watching == <<ever, always>>
vars == <<httpVars, processVars, inbox, scan, run, found, told, promised, watching>>

-----------------------------------------------------------------------------
Kinds == {"none", "directory", "file"}
Going == {"running", "directory_moved"}
Params == [path : Paths, library : Values]

TypeOK ==
  /\ HttpTypeOK /\ ProcessTypeOK
  /\ inbox \in [Paths -> Kinds]
  /\ scan \in [Callers -> [left : SUBSET Paths, listed : SUBSET Paths]]
  /\ run \in [status : {"none"}] \cup [status : Going \cup {"closed", "deleted"}, params : Params]
  /\ found \in [Callers -> {"none", "latest", "earlier", "deleted"}]
  /\ told \in BOOLEAN /\ promised \in SUBSET Callers
  /\ ever \in [Callers -> SUBSET Paths] /\ always \in [Callers -> SUBSET Paths]

-----------------------------------------------------------------------------
(* Processes *)

ServerStarts(e) ==
  /\ StartServer(e)
  /\ UNCHANGED <<httpVars, inbox, scan, run, found, told, promised, watching>>

WorkerStarts(e) ==
  /\ StartWorker(e)
  /\ UNCHANGED <<httpVars, inbox, scan, run, found, told, promised, watching>>

ServerDies ==
  /\ StopServer /\ ServerStops
  /\ found' = [c \in Callers |-> "none"]
  /\ UNCHANGED <<inbox, scan, run, told, promised, watching>>

WorkerDies ==
  /\ StopWorker
  /\ UNCHANGED <<httpVars, inbox, scan, run, found, told, promised, watching>>

-----------------------------------------------------------------------------
(* The callers, and the server up to its handlers *)

Directories == {p \in Paths : inbox[p] = "directory"}

Lists(q) == q.op = "GetInbox"

Calls(c, q) ==
  /\ Call(c, q)
  /\ scan' = [scan EXCEPT ![c] = [left |-> IF Lists(q) THEN Paths ELSE {}, listed |-> {}]]
  /\ found' = [found EXCEPT ![c] = "none"]
  /\ promised' = IF told /\ q.op = "GetDisc" THEN promised \cup {c} ELSE promised \ {c}
  /\ ever' = [ever EXCEPT ![c] = IF Lists(q) THEN Directories ELSE {}]
  /\ always' = [always EXCEPT ![c] = IF Lists(q) THEN Directories ELSE {}]
  /\ UNCHANGED <<processVars, inbox, run, told>>

\* The server begins anew with what is sent again.
Resends(c) ==
  /\ Resend(c)
  /\ scan' = [scan EXCEPT ![c] = [left |-> IF Lists(call[c].request) THEN Paths ELSE {}, listed |-> {}]]
  /\ found' = [found EXCEPT ![c] = "none"]
  /\ UNCHANGED <<processVars, inbox, run, told, promised, watching>>

Disturbs(c) ==
  /\ Breaks(c) \/ RequestLost(c)
  /\ UNCHANGED <<processVars, inbox, scan, run, found, told, promised, watching>>

Receives(c) ==
  /\ Receive(c)
  /\ told' = (told \/ ( /\ call[c].request.op = "CreateDisc" /\ call'[c].field = "201"
                       /\ run.status # "deleted"))
  /\ UNCHANGED <<processVars, inbox, scan, run, found, promised, watching>>

Serves(c) ==
  /\ server.at = "up"
  /\ Serve(c)
  /\ UNCHANGED <<processVars, inbox, scan, run, found, told, promised, watching>>

-----------------------------------------------------------------------------
(* The handlers *)

Handles(c, op) == exchange[c].at = "handling" /\ exchange[c].op = op

Webhook(c) ==
  /\ \E op \in Webhooks : Handles(c, op) /\ \E status \in Verdicts[op] : Returns(c, status)
  /\ UNCHANGED <<processVars, inbox, scan, run, found, told, promised, watching>>

\* The call to Temporal may fail, before Temporal has taken it or after.
Outcomes == {"answered", "unavailable", "unheard"}

\* ExecuteWorkflow starts a run, unless one is going on, with the configuration of the
\* process that has the request.
Executes(c) ==
  IF run.status \in Going
  THEN UNCHANGED <<run, found>>
  ELSE /\ run' = [status |-> "running",
                 params |-> [path |-> call[c].request.arg, library |-> server.config["VW_LIBRARY_PATH"]]]
       /\ found' = [b \in Callers |-> IF found[b] = "latest" THEN "earlier" ELSE found[b]]

CreateDiscSlip(c, outcome) ==  \* Slip: 500 is only for what Temporal refuses.
  /\ Handles(c, "CreateDisc")
  /\ IF outcome = "unavailable" THEN UNCHANGED <<run, found>> ELSE Executes(c)
  /\ Returns(c, "201")
  /\ UNCHANGED <<processVars, inbox, scan, told, promised, watching>>

CreateDisc(c, outcome) ==
  /\ Handles(c, "CreateDisc")
  /\ IF outcome = "unavailable" THEN UNCHANGED <<run, found>> ELSE Executes(c)
  /\ Returns(c, IF outcome = "answered" THEN "201" ELSE "500")
  /\ UNCHANGED <<processVars, inbox, scan, told, promised, watching>>

Kept == run.status \notin {"none", "deleted"}

\* The first call of a GetDisc, for the latest run (server.go:176-187).
Describes(c) ==
  /\ Handles(c, "GetDisc") /\ found[c] = "none"
  /\ \/ (Returns(c, "500") \/ (~Kept /\ Returns(c, "404"))) /\ UNCHANGED found
     \/ Kept /\ found' = [found EXCEPT ![c] = "latest"] /\ UNCHANGED httpVars
  /\ UNCHANGED <<processVars, inbox, scan, run, told, promised, watching>>

\* The second call, for the error or the State of the run that was found, which is that of
\* DiscServer.  One that has been deleted is not found (server.go:217-221), unless it had
\* failed: then that is its error.
Answers(c) ==
  /\ Handles(c, "GetDisc") /\ found[c] # "none"
  /\ \E status \in {"200", "404", "500"} :
       (status = "404" => found[c] = "deleted") /\ Returns(c, status)
  /\ found' = [found EXCEPT ![c] = "none"]
  /\ UNCHANGED <<processVars, inbox, scan, run, told, promised, watching>>

GetDiscSlip(c) ==  \* Slip: a run that goes on is asked for its error, too.
  Describes(c) \/ (Answers(c) /\ ~(found[c] = "latest" /\ run.status \in Going))

GetDisc(c) == Describes(c) \/ Answers(c)

IsDir(p) == inbox[p] = "directory"

\* ReadDir comes to the entries one by one, while they come and go.
ReadDir(c, p) ==
  /\ Handles(c, "GetInbox") /\ p \in scan[c].left
  /\ scan' = [scan EXCEPT ![c].left = @ \ {p},
                          ![c].listed = IF IsDir(p) THEN @ \cup {p} ELSE @]
  /\ UNCHANGED <<httpVars, processVars, inbox, run, found, told, promised, watching>>

GetInboxSlip(c) ==  \* Slip: the error of ReadDir is ignored.
  /\ Handles(c, "GetInbox")
  /\ Returns(c, "200")
  /\ UNCHANGED <<processVars, inbox, scan, run, found, told, promised, watching>>

\* ReadDir may fail, having read some of the entries.
GetInbox(c) ==
  /\ Handles(c, "GetInbox")
  /\ Returns(c, "500") \/ (scan[c].left = {} /\ Returns(c, "200"))
  /\ UNCHANGED <<processVars, inbox, scan, run, found, told, promised, watching>>

-----------------------------------------------------------------------------
(* The inbox and the run *)

Watches(c) == call[c].at = "waiting" /\ Lists(call[c].request)

\* Every change of the inbox is watched by the calls of GetInbox that wait.
InboxBecomes(p, kind) ==
  /\ inbox' = [inbox EXCEPT ![p] = kind]
  /\ ever' = [c \in Callers |-> IF Watches(c) THEN ever[c] \cup Directories' ELSE ever[c]]
  /\ always' = [c \in Callers |-> IF Watches(c) THEN always[c] \cap Directories' ELSE always[c]]

Arrives(p, kind) ==
  /\ inbox[p] = "none"
  /\ InboxBecomes(p, kind)
  /\ UNCHANGED <<httpVars, processVars, scan, run, found, told, promised>>

\* RenameFile moves what is there to the library of the run's Params.
Moves ==
  /\ worker.at = "up" /\ run.status = "running" /\ inbox[run.params.path] # "none"
  /\ InboxBecomes(run.params.path, "none")
  /\ run' = [run EXCEPT !.status = "directory_moved"]
  /\ UNCHANGED <<httpVars, processVars, scan, found, told, promised>>

\* It is done, moving fails, or it is cancelled or terminated.
Closes ==
  /\ run.status \in Going
  /\ run' = [run EXCEPT !.status = "closed"]
  /\ UNCHANGED <<httpVars, processVars, inbox, scan, found, told, promised, watching>>

\* The retention period of the latest run is over.
Expires ==
  /\ run.status = "closed"
  /\ run' = [run EXCEPT !.status = "deleted"]
  /\ found' = [c \in Callers |-> IF found[c] = "latest" THEN "deleted" ELSE found[c]]
  /\ told' = FALSE /\ promised' = {}
  /\ UNCHANGED <<httpVars, processVars, inbox, scan, watching>>

\* That of an earlier one, which some calls have found.
EarlierExpires(calls) ==
  /\ \A c \in calls : found[c] = "earlier"
  /\ found' = [c \in Callers |-> IF c \in calls THEN "deleted" ELSE found[c]]
  /\ promised' = promised \ calls
  /\ UNCHANGED <<httpVars, processVars, inbox, scan, run, told, watching>>

-----------------------------------------------------------------------------
(* Specification *)

Init ==
  /\ HttpInit /\ ProcessInit
  /\ inbox = [p \in Paths |-> "none"]
  /\ scan = [c \in Callers |-> [left |-> {}, listed |-> {}]]
  /\ run = [status |-> "none"] /\ found = [c \in Callers |-> "none"]
  /\ told = FALSE /\ promised = {}
  /\ ever = [c \in Callers |-> {}] /\ always = [c \in Callers |-> {}]

Handler(c) ==
  \/ Webhook(c) \/ GetDisc(c) \/ GetInbox(c)
  \/ \E p \in Paths : ReadDir(c, p)
  \/ \E outcome \in Outcomes : CreateDisc(c, outcome)

Next ==
  \/ \E e \in Environments : ServerStarts(e) \/ WorkerStarts(e)
  \/ ServerDies \/ WorkerDies
  \/ \E c \in Callers :
       \/ \E q \in Asks[c] : Calls(c, q)
       \/ Resends(c) \/ Disturbs(c) \/ Receives(c) \/ Serves(c) \/ Handler(c)
  \/ \E p \in Paths, kind \in Kinds \ {"none"} : Arrives(p, kind)
  \/ Moves \/ Closes \/ Expires
  \/ \E calls \in SUBSET Callers : EarlierExpires(calls)

Spec == Init /\ [][Next]_vars

\* Temporal and the disk answer a handler, and what is written is read.  The connection to
\* a server that is down, or has lost the request, is refused or closed.
Goes(c) ==
  \/ Receives(c) \/ Serves(c) \/ Handler(c)
  \/ /\ exchange[c].at = "none" \/ (exchange[c].at = "request" /\ server.at # "up")
     /\ Disturbs(c)

Fairness == \A c \in Callers : WF_vars(Goes(c))

FairSpec == Spec /\ Fairness

-----------------------------------------------------------------------------
(* Properties *)

\* GetInbox (server.go:273-299) reads while discs come and go.  It lists no path that
\* was not a directory at some time during the call, and every one that was it all the time.
InboxIsRegular ==
  \A c \in Callers :
    Lists(call[c].request) /\ call[c].at = "answered" /\ call[c].field = "200" =>
      always[c] \subseteq scan[c].listed /\ scan[c].listed \subseteq ever[c]

\* Who asks for a disc after anybody was told that it was created (server.go:72) is not
\* told that there is none, whichever processes have died since, and whichever runs have
\* closed or been started between the two calls of the GetDisc; but a run that has been
\* deleted is not found (server.go:178-183, 217-221).
CreatedIsKnown ==
  \A c \in promised :
    call[c].request.op = "GetDisc" /\ call[c].at = "answered" => call[c].field # "404"

\* A run has its paths from an environment in which they were all set (config.go:46,
\* server.go:44-50), although the server is started again and again in any other.
RunsAreConfigured ==
  run.status # "none" =>
    \E e \in Environments :
      /\ \A key \in ServerKeys : e[key] # "unset"
      /\ run.params.library = e["VW_LIBRARY_PATH"]

\* Every call ends, although the client of api.gen.go:180 sets no time: a server that
\* lives answers, and one that has died closes the connection.
CallsEnd == \A c \in Callers : call[c].at = "waiting" ~> call[c].at # "waiting"

-----------------------------------------------------------------------------
(* The inductive invariant *)

\* A process that serves, which it does if it has a request, has read its environment.
ServesConfigured ==
  /\ server.at = "up" =>
       \E e \in Environments : ConfigFromEnv(e, ServerKeys) /\ server.config = Config(e, ServerKeys)
  /\ \A c \in Callers : exchange[c].at = "handling" => server.at = "up"

\* If a caller was told of a run, or asks since, there is one until one is deleted, and a
\* GetDisc that was described a run has not been overtaken by its deletion.
Tells ==
  /\ (\E c \in Callers : verdict[c] = "201") => run.status # "none"
  /\ told \/ promised # {} => Kept
  /\ \A c \in promised : call[c].request.op = "GetDisc" => verdict[c] # "404" /\ found[c] # "deleted"

\* A ReadDir has listed, of what it has come to, what was there all the time, and nothing
\* that was never there.
Scans(c) ==
  /\ Watches(c) => always[c] \subseteq Directories /\ Directories \subseteq ever[c]
  /\ Lists(call[c].request) /\ call[c].at \in {"waiting", "answered"} =>
       /\ always[c] \ scan[c].left \subseteq scan[c].listed
       /\ scan[c].listed \subseteq ever[c]
       /\ verdict[c] = "200" => scan[c].left = {}

IInv ==
  /\ TypeOK /\ HttpIInv /\ UpIsConfigured
  /\ ServesConfigured /\ RunsAreConfigured /\ Tells
  /\ \A c \in Callers : Scans(c)
=============================================================================
