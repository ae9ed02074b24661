--------------------------- MODULE DeploymentProofs ---------------------------
(***************************************************************************)
(* Theorems about Deployment, for any callers, paths and environments.     *)
(***************************************************************************)
EXTENDS Deployment, HttpLayerProofs

-----------------------------------------------------------------------------
(* The deployment implements the HTTP layer *)

LEMMA InitImpliesHttp == Init => HttpInit
  BY DEF Init

\* Every handler returns one of its operation's statuses.
LEMMA HandlersReturn ==
  ASSUME NEW c \in Callers, Handler(c)
  PROVE  UNCHANGED httpVars \/ \E status \in Verdicts[exchange[c].op] : Returns(c, status)
<1>1. CASE Webhook(c)
  BY <1>1 DEF Webhook, Handles
<1>2. CASE GetDisc(c)
  BY <1>2 DEF GetDisc, Describes, Answers, Handles, Verdicts
<1>3. CASE GetInbox(c)
  BY <1>3 DEF GetInbox, Handles, Verdicts
<1>4. CASE \E p \in Paths : ReadDir(c, p)
  BY <1>4 DEF ReadDir
<1>5. CASE \E outcome \in Outcomes : CreateDisc(c, outcome)
  BY <1>5 DEF CreateDisc, Handles, Verdicts
<1> QED
  BY <1>1, <1>2, <1>3, <1>4, <1>5 DEF Handler

LEMMA NextImpliesHttp ==
  ASSUME [Next]_vars
  PROVE  [HttpNext]_httpVars
<1>1. CASE UNCHANGED vars
  BY <1>1 DEF vars
<1>2. CASE \E e \in Environments : ServerStarts(e) \/ WorkerStarts(e)
  BY <1>2 DEF ServerStarts, WorkerStarts
<1>3. CASE ServerDies \/ WorkerDies
  BY <1>3 DEF ServerDies, WorkerDies, HttpNext
<1>4. ASSUME NEW c \in Callers, NEW q \in Asks[c], Calls(c, q)
      PROVE  HttpNext
  BY <1>4, AsksAssumption DEF Calls, HttpNext
<1>5. ASSUME NEW c \in Callers, Resends(c) \/ Disturbs(c) \/ Receives(c) \/ Serves(c)
      PROVE  HttpNext
  BY <1>5 DEF Resends, Disturbs, Receives, Serves, HttpNext
<1>6. ASSUME NEW c \in Callers, Handler(c)
      PROVE  [HttpNext]_httpVars
  BY <1>6, HandlersReturn DEF HttpNext
<1>7. CASE \E p \in Paths, kind \in Kinds \ {"none"} : Arrives(p, kind)
  BY <1>7 DEF Arrives
<1>8. CASE Moves \/ Closes \/ Expires \/ \E calls \in SUBSET Callers : EarlierExpires(calls)
  BY <1>8 DEF Moves, Closes, Expires, EarlierExpires
<1> QED
  BY <1>1, <1>2, <1>3, <1>4, <1>5, <1>6, <1>7, <1>8 DEF Next

-----------------------------------------------------------------------------
(* What the steps of the HTTP layer do *)

LEMMA CallStep ==
  ASSUME HttpTypeOK, NEW b \in Callers, NEW q \in Requests, Call(b, q)
  PROVE  /\ call'[b].at = "waiting" /\ call'[b].request = q /\ verdict'[b] = "none"
         /\ exchange'[b].at = "request"
         /\ \A c \in Callers \ {b} :
              call'[c] = call[c] /\ verdict'[c] = verdict[c] /\ exchange'[c] = exchange[c]
  BY DEF HttpTypeOK, Call, Sends, Begins

\* The steps on the way of a request and of its response.
LEMMA WayStep ==
  ASSUME HttpTypeOK, NEW b \in Callers, Breaks(b) \/ RequestLost(b) \/ Receive(b) \/ Serve(b)
  PROVE  /\ UNCHANGED verdict
         /\ \A c \in Callers :
              /\ call'[c].request = call[c].request
              /\ \/ call'[c].at = call[c].at
                 \/ call[c].at = "waiting" /\ call'[c].at \in {"error", "answered"}
         /\ ~Serve(b) => \A c \in Callers : exchange'[c].at = "handling" => exchange[c].at = "handling"
<1>1. call \in [Callers -> CallRecords] /\ exchange \in [Callers -> ExchangeRecords]
  BY TypesOf
<1>2. CASE Breaks(b)
  BY <1>1, <1>2, GoneStep, ZenonT(30) DEF Breaks, CallRecords
<1>3. CASE RequestLost(b)
  BY <1>3, GoneStep DEF RequestLost
<1>4. CASE Receive(b)
  BY <1>1, <1>4, GoneStep DEF Receive, Answered, CallRecords
<1>5. CASE Serve(b)
  BY <1>5 DEF Serve
<1> QED
  BY <1>2, <1>3, <1>4, <1>5

LEMMA ReturnsStep ==
  ASSUME HttpTypeOK, NEW b \in Callers, NEW s \in Verdicts[exchange[b].op], Returns(b, s)
  PROVE  /\ UNCHANGED call /\ verdict'[b] = s /\ exchange[b].at = "handling"
         /\ \A c \in Callers \ {b} : verdict'[c] = verdict[c]
         /\ \A c \in Callers : exchange'[c].at = "handling" => exchange[c].at = "handling"
<1>1. exchange[b].op \in Operations /\ verdict \in [Callers -> Statuses \cup {"none"}]
  BY DEF HttpTypeOK
<1>2. Respond(b, Visited(exchange[b].op, s)) /\ Visited(exchange[b].op, s) \in Responses
  BY <1>1, VerdictTypes DEF Returns
<1> QED
  BY <1>1, <1>2, RespondStep DEF Returns

-----------------------------------------------------------------------------
(* The processes *)

ProcInv == ProcessTypeOK /\ UpIsConfigured /\ ServesConfigured

\* Only a process that serves has requests in its handlers.
NoneNew == \A c \in Callers : exchange'[c].at = "handling" => exchange[c].at = "handling"

LEMMA NotServedIsNotNew ==
  ASSUME HttpIInv, [Next]_vars, \A c \in Callers : ~Serves(c)
  PROVE  NoneNew
<1>1. HttpTypeOK
  BY DEF HttpIInv
<1>2. CASE UNCHANGED exchange
  BY <1>2 DEF NoneNew
<1>3. CASE ServerDies
  BY <1>1, <1>3, GoneStep DEF ServerDies, ServerStops, NoneNew
<1>4. ASSUME NEW c \in Callers, NEW q \in Asks[c], Calls(c, q)
      PROVE  NoneNew
  BY <1>1, <1>4, CallStep, AsksAssumption DEF Calls, NoneNew
<1>5. ASSUME NEW c \in Callers, Resends(c) \/ Disturbs(c) \/ Receives(c)
      PROVE  NoneNew
  <2>1. Resend(c) \/ Breaks(c) \/ RequestLost(c) \/ Receive(c)
    BY <1>5 DEF Resends, Disturbs, Receives
  <2>2. CASE Resend(c)
    BY <1>1, <2>2, ResendStep DEF NoneNew
  <2> QED
    BY <1>1, <2>1, <2>2, GoneStep DEF Breaks, RequestLost, Receive, NoneNew
<1>6. ASSUME NEW c \in Callers, Handler(c)
      PROVE  NoneNew
  BY <1>1, <1>2, <1>6, HandlersReturn, ReturnsStep DEF NoneNew, httpVars
<1> QED
  BY <1>2, <1>3, <1>4, <1>5, <1>6
     DEF Next, vars, httpVars, ServerStarts, WorkerStarts, WorkerDies, Arrives, Moves, Closes,
         Expires, EarlierExpires

LEMMA StartedIsConfigured ==
  ASSUME NEW e \in Environments, NEW keys \in {ServerKeys, WorkerKeys}, NEW p \in Started(e, keys)
  PROVE  /\ p \in [at : {"down", "up"}, config : Configs(keys) \cup {Down}]
         /\ p.at = "up" => /\ ConfigFromEnv(e, keys) /\ p.config = Config(e, keys)
                           /\ DOMAIN p.config = keys /\ \A key \in keys : p.config[key] # "unset"
<1>1. e \in [ServerKeys \cup WorkerKeys -> Values]
  BY EnvironmentsAssumption
<1>2. CASE p = [at |-> "down", config |-> Down]
  BY <1>2
<1>3. CASE ConfigFromEnv(e, keys) /\ p = [at |-> "up", config |-> Config(e, keys)]
  <2>1. Config(e, keys) \in [keys -> Values]
    BY <1>1 DEF Config, Values
  <2>2. \A key \in keys : Config(e, keys)[key] # "unset"
    BY <1>3 DEF Config, ConfigFromEnv, mustGetenv
  <2> QED
    BY <1>3, <2>1, <2>2 DEF Configs
<1> QED
  BY <1>2, <1>3 DEF Started

LEMMA ProcInvHolds ==
  ASSUME IInv, [Next]_vars
  PROVE  ProcInv'
<1>1. ProcInv /\ HttpIInv
  BY DEF IInv, TypeOK, ProcInv
<1>2. ASSUME NEW e \in Environments, ServerStarts(e)
      PROVE  ProcInv'
  <2>1. server' \in Started(e, ServerKeys) /\ server.at # "up" /\ UNCHANGED <<worker, exchange>>
    BY <1>2 DEF ServerStarts, StartServer, httpVars
  <2> QED
    BY <1>1, <2>1, StartedIsConfigured DEF ProcInv, ProcessTypeOK, UpIsConfigured, ServesConfigured
<1>3. ASSUME NEW e \in Environments, WorkerStarts(e)
      PROVE  ProcInv'
  <2>1. worker' \in Started(e, WorkerKeys) /\ UNCHANGED <<server, exchange>>
    BY <1>3 DEF WorkerStarts, StartWorker, httpVars
  <2> QED
    BY <1>1, <2>1, StartedIsConfigured DEF ProcInv, ProcessTypeOK, UpIsConfigured, ServesConfigured
<1>4. CASE ServerDies
  <2>1. server' = [at |-> "down", config |-> Down] /\ UNCHANGED worker
    BY <1>4 DEF ServerDies, StopServer
  <2>2. \A c \in Callers : exchange'[c].at # "handling"
    BY <1>1, <1>4, GoneStep DEF ServerDies, ServerStops, HttpIInv
  <2> QED
    BY <1>1, <2>1, <2>2 DEF ProcInv, ProcessTypeOK, UpIsConfigured, ServesConfigured
<1>5. CASE WorkerDies
  <2>1. worker' = [at |-> "down", config |-> Down] /\ UNCHANGED <<server, exchange>>
    BY <1>5 DEF WorkerDies, StopWorker, httpVars
  <2> QED
    BY <1>1, <2>1 DEF ProcInv, ProcessTypeOK, UpIsConfigured, ServesConfigured
<1>6. CASE UNCHANGED processVars /\ (NoneNew \/ server.at = "up")
  BY <1>1, <1>6 DEF processVars, NoneNew, ProcInv, ProcessTypeOK, UpIsConfigured, ServesConfigured
<1>7. (\A c \in Callers : ~Serves(c)) => NoneNew
  BY <1>1, NotServedIsNotNew
<1>8. (\E c \in Callers : Serves(c)) => server.at = "up" /\ UNCHANGED processVars
  BY DEF Serves
<1>9. \/ \E e \in Environments : ServerStarts(e) \/ WorkerStarts(e)
      \/ ServerDies \/ WorkerDies \/ UNCHANGED processVars
  BY DEF Next, vars, Calls, Resends, Disturbs, Receives, Serves, Handler, Webhook, CreateDisc, GetDisc, Describes,
         Answers, GetInbox, ReadDir, Arrives, Moves, Closes, Expires, EarlierExpires
<1> QED
  BY <1>2, <1>3, <1>4, <1>5, <1>6, <1>7, <1>8, <1>9

-----------------------------------------------------------------------------
(* The run *)

Runs == [status : {"none"}] \cup [status : Going \cup {"closed", "deleted"}, params : Params]
RunInv == run \in Runs /\ RunsAreConfigured

\* What has been started stays, with its Params, and is kept unless it expires.
LEMMA RunsStay ==
  ASSUME IInv, [Next]_vars, \A c \in Callers, o \in Outcomes : ~CreateDisc(c, o)
  PROVE  /\ run' \in Runs /\ (run'.status = "none" <=> run.status = "none")
         /\ run.status # "none" => run'.params = run.params
         /\ Kept => Kept' \/ Expires
<1>1. run \in Runs
  BY DEF IInv, TypeOK, Runs
<1>2. CASE UNCHANGED run
  BY <1>1, <1>2 DEF Kept
<1>3. ASSUME NEW status \in {"directory_moved", "closed", "deleted"},
             run.status \in Going \cup {"closed"}, run' = [run EXCEPT !.status = status]
      PROVE  /\ run' \in Runs /\ run'.status = status /\ run.status # "none"
             /\ run'.params = run.params
  <2>1. run \in [status : Going \cup {"closed", "deleted"}, params : Params]
    BY <1>1, <1>3 DEF Runs, Going
  <2> QED
    BY <1>3, <2>1 DEF Runs, Going
<1>4. CASE Moves
  BY <1>3, <1>4 DEF Moves, Going, Kept
<1>5. CASE Closes
  BY <1>3, <1>5 DEF Closes, Kept
<1>6. CASE Expires
  BY <1>3, <1>6 DEF Expires
<1> QED
  BY <1>2, <1>4, <1>5, <1>6
     DEF Next, vars, ServerStarts, WorkerStarts, ServerDies, WorkerDies, Calls, Resends, Disturbs, Receives,
         Serves, Handler, Webhook, GetDisc, Describes, Answers, GetInbox, ReadDir, Arrives, EarlierExpires

\* The run of a CreateDisc, and what it is given.
LEMMA CreateDiscStep ==
  ASSUME IInv, NEW c \in Callers, NEW o \in Outcomes, CreateDisc(c, o)
  PROVE  /\ RunInv' /\ (run.status # "none" \/ o # "unavailable" => run'.status # "none")
         /\ Kept => Kept'
<1>1. RunInv /\ HttpIInv /\ server.at = "up"
  BY DEF IInv, TypeOK, RunInv, Runs, ServesConfigured, CreateDisc, Handles
<1>2. call[c].request.op = "CreateDisc" /\ call[c].request.arg # "invalid" /\ call[c].request \in Requests
  BY <1>1, TypesOf DEF HttpIInv, Exchanges, CreateDisc, Handles, CallRecords
<1>3. call[c].request.arg \in Paths
  BY <1>2, RequestTypes DEF Arguments, Operations, Webhooks
<1>4. PICK e \in Environments : ConfigFromEnv(e, ServerKeys) /\ server.config = Config(e, ServerKeys)
  BY <1>1 DEF IInv, ServesConfigured
<1>5. /\ e \in [ServerKeys \cup WorkerKeys -> Values]
      /\ \A key \in ServerKeys : e[key] # "unset"
  BY <1>4, EnvironmentsAssumption DEF ConfigFromEnv, mustGetenvInt, mustGetenv
<1>6. server.config["VW_LIBRARY_PATH"] = e["VW_LIBRARY_PATH"] /\ e["VW_LIBRARY_PATH"] \in Values
  BY <1>4, <1>5 DEF Config, ServerKeys, IntKeys
<1>7. CASE o # "unavailable" /\ run.status \notin Going
  <2>1. run' = [status |-> "running", params |-> [path |-> call[c].request.arg,
                                                 library |-> server.config["VW_LIBRARY_PATH"]]]
    BY <1>7 DEF CreateDisc, Executes
  <2> QED
    BY <1>3, <1>5, <1>6, <2>1 DEF RunInv, Runs, Params, Going, RunsAreConfigured, Kept
<1>8. CASE ~(o # "unavailable" /\ run.status \notin Going)
  <2>1. run' = run
    BY <1>8 DEF CreateDisc, Executes
  <2> QED
    BY <1>1, <1>8, <2>1 DEF RunInv, RunsAreConfigured, Going, Kept
<1> QED
  BY <1>7, <1>8

LEMMA RunInvHolds ==
  ASSUME IInv, [Next]_vars
  PROVE  RunInv' /\ (run.status # "none" => run'.status # "none") /\ (Kept => Kept' \/ Expires)
<1>1. RunInv
  BY DEF IInv, TypeOK, RunInv, Runs
<1>2. CASE \A c \in Callers, o \in Outcomes : ~CreateDisc(c, o)
  BY <1>1, <1>2, RunsStay DEF RunInv, RunsAreConfigured
<1> QED
  BY <1>2, CreateDiscStep

-----------------------------------------------------------------------------
(* What has been told *)

TellTypes ==
  /\ told \in BOOLEAN /\ promised \in SUBSET Callers
  /\ found \in [Callers -> {"none", "latest", "earlier", "deleted"}]

TellsOf(c) ==
  /\ verdict[c] = "201" => run.status # "none"
  /\ c \in promised /\ call[c].request.op = "GetDisc" => verdict[c] # "404" /\ found[c] # "deleted"

\* What a handler finds is no run that has been deleted.
Finds(c) ==
  /\ found' \in [Callers -> {"none", "latest", "earlier", "deleted"}]
  /\ \A b \in Callers : found'[b] = "deleted" => found[b] = "deleted"

LEMMA HandlerFinds ==
  ASSUME IInv, NEW c \in Callers, Handler(c)
  PROVE  Finds(c)
<1>1. found \in [Callers -> {"none", "latest", "earlier", "deleted"}]
  BY DEF IInv, TypeOK
<1>2. CASE UNCHANGED found
  BY <1>1, <1>2 DEF Finds
<1>3. CASE GetDisc(c)
  BY <1>1, <1>3 DEF GetDisc, Describes, Answers, Finds
<1>4. ASSUME NEW o \in Outcomes, CreateDisc(c, o)
      PROVE  Finds(c)
  BY <1>1, <1>2, <1>4 DEF CreateDisc, Executes, Finds
<1> QED
  BY <1>2, <1>3, <1>4 DEF Handler, Webhook, GetInbox, ReadDir

\* The status that a handler returns for c keeps the promises.
LEMMA HandlerTells ==
  ASSUME IInv, NEW c \in Callers, Handler(c)
  PROVE  \A b \in Callers : TellsOf(b)'
<1> USE DEF TellsOf
<1>1. Tells /\ HttpTypeOK /\ \A b \in Callers : TellsOf(b)
  BY DEF IInv, HttpIInv, Tells
<1>2. [Next]_vars /\ (run.status # "none" => run'.status # "none")
  BY RunInvHolds DEF Next
<1>3. UNCHANGED promised /\ Finds(c)
  BY HandlerFinds DEF Handler, Webhook, CreateDisc, GetDisc, Describes, Answers, GetInbox, ReadDir
<1>4. CASE UNCHANGED httpVars
  BY <1>1, <1>2, <1>3, <1>4 DEF httpVars, Finds
<1>5. ASSUME NEW s \in Verdicts[exchange[c].op], Returns(c, s),
             s = "201" => run'.status # "none",
             s = "404" /\ c \in promised => call[c].request.op # "GetDisc"
      PROVE  \A b \in Callers : TellsOf(b)'
  BY <1>1, <1>2, <1>3, <1>5, ReturnsStep DEF Finds
<1>6. CASE Webhook(c)
  <2>1. PICK s \in UNION {Verdicts[op] : op \in Webhooks} :
          exchange[c].op \in Webhooks /\ s \in Verdicts[exchange[c].op] /\ Returns(c, s)
    BY <1>6 DEF Webhook, Handles
  <2>2. s \notin {"201", "404"}
    BY <2>1 DEF Webhooks, Verdicts
  <2> QED
    BY <1>5, <2>1, <2>2
<1>7. ASSUME NEW o \in Outcomes, CreateDisc(c, o)
      PROVE  \A b \in Callers : TellsOf(b)'
  <2>1. Returns(c, IF o = "answered" THEN "201" ELSE "500") /\ exchange[c].op = "CreateDisc"
    BY <1>7 DEF CreateDisc, Handles
  <2>2. o = "answered" => run'.status # "none"
    BY <1>7, CreateDiscStep
  <2>3. "201" \in Verdicts["CreateDisc"] /\ "500" \in Verdicts["CreateDisc"]
    BY DEF Verdicts
  <2> QED
    BY <1>5, <2>1, <2>2, <2>3
<1>8. CASE GetDisc(c)
  <2>1. exchange[c].op = "GetDisc" /\ {"200", "404", "500"} \subseteq Verdicts["GetDisc"]
    BY <1>8 DEF GetDisc, Describes, Answers, Handles, Verdicts
  <2>2. CASE ~UNCHANGED httpVars
    <3>1. \E s \in {"200", "404", "500"} : Returns(c, s) /\ (s = "404" => ~Kept \/ found[c] = "deleted")
      BY <1>8, <2>2 DEF GetDisc, Describes, Answers
    <3>2. c \in promised /\ call[c].request.op = "GetDisc" => Kept /\ found[c] # "deleted"
      BY <1>1 DEF Tells
    <3> QED
      BY <1>5, <2>1, <3>1, <3>2
  <2> QED
    BY <1>4, <2>2
<1>9. CASE GetInbox(c)
  <2>1. exchange[c].op = "GetInbox" /\ \E s \in {"200", "500"} : Returns(c, s)
    BY <1>9 DEF GetInbox, Handles
  <2>2. {"200", "500"} \subseteq Verdicts["GetInbox"]
    BY DEF Verdicts
  <2> QED
    BY <1>5, <2>1, <2>2
<1>10. CASE \E p \in Paths : ReadDir(c, p)
  BY <1>4, <1>10 DEF ReadDir
<1> QED
  BY <1>6, <1>7, <1>8, <1>9, <1>10 DEF Handler

LEMMA TellsHolds ==
  ASSUME IInv, [Next]_vars
  PROVE  Tells' /\ TellTypes'
<1>1. Tells /\ TellTypes /\ HttpIInv /\ HttpTypeOK /\ \A c \in Callers : TellsOf(c)
  BY DEF IInv, TypeOK, Tells, TellTypes, HttpIInv, TellsOf
<1>2. (run.status # "none" => run'.status # "none") /\ (Kept => Kept' \/ Expires)
  BY RunInvHolds
<1>3. HttpIInv'
  BY <1>1, NextImpliesHttp, HttpNextHolds
<1>4. ASSUME TellTypes', told' \/ promised' # {} => Kept', \A c \in Callers : TellsOf(c)'
      PROVE  Tells' /\ TellTypes'
  BY <1>4 DEF Tells, TellTypes, TellsOf
<1>5. ASSUME NEW c \in Callers, Handler(c)
      PROVE  Tells' /\ TellTypes'
  <2>1. UNCHANGED <<told, promised>>
    BY <1>5 DEF Handler, Webhook, CreateDisc, GetDisc, Describes, Answers, GetInbox, ReadDir
  <2>2. (\A b \in Callers : TellsOf(b)') /\ Finds(c)
    BY <1>1, <1>5, HandlerTells, HandlerFinds
  <2>3. Kept => Kept'
    <3>1. CASE UNCHANGED run
      BY <3>1 DEF Kept
    <3>2. CASE \E o \in Outcomes : CreateDisc(c, o)
      BY <3>2, CreateDiscStep
    <3> QED
      BY <1>5, <3>1, <3>2 DEF Handler, Webhook, GetDisc, Describes, Answers, GetInbox, ReadDir
  <2> QED
    BY <1>1, <1>4, <2>1, <2>2, <2>3 DEF Tells, TellTypes, Finds
<1>6. ASSUME NEW c \in Callers, NEW q \in Asks[c], Calls(c, q)
      PROVE  Tells' /\ TellTypes'
  <2>1. /\ Call(c, q) /\ q \in Requests /\ UNCHANGED <<told, run>>
        /\ found' = [found EXCEPT ![c] = "none"]
        /\ promised' = IF told /\ q.op = "GetDisc" THEN promised \cup {c} ELSE promised \ {c}
    BY <1>6, AsksAssumption DEF Calls
  <2>2. TellsOf(c)' /\ TellTypes'
    BY <1>1, <2>1, CallStep DEF TellsOf, TellTypes
  <2>3. ASSUME NEW b \in Callers \ {c}
        PROVE  TellsOf(b)'
    <3>1. call'[b] = call[b] /\ verdict'[b] = verdict[b] /\ found'[b] = found[b]
      BY <1>1, <2>1, CallStep DEF TellTypes
    <3> QED
      BY <1>1, <2>1, <3>1 DEF TellsOf
  <2> QED
    BY <1>1, <1>4, <2>1, <2>2, <2>3 DEF Tells, Kept
<1>7. ASSUME NEW c \in Callers, Receives(c)
      PROVE  Tells' /\ TellTypes'
  <2>1. /\ Receive(c) /\ UNCHANGED <<run, promised, found>>
        /\ told' = (told \/ (call[c].request.op = "CreateDisc" /\ call'[c].field = "201"
                             /\ run.status # "deleted"))
    BY <1>7 DEF Receives
  <2>2. /\ UNCHANGED verdict /\ \A b \in Callers : call'[b].request = call[b].request
    BY <1>1, <2>1, WayStep
  <2>3. call'[c].at = "answered"
    BY <1>1, <2>1, TypesOf DEF Receive, Answered
  <2>4. call'[c].field = "201" => verdict'[c] = "201"
    <3> SUFFICES ASSUME call'[c].field = "201" PROVE verdict'[c] = "201"
      OBVIOUS
    <3>1. Understood(c)' /\ call'[c].status = "201"
      BY <1>3 DEF HttpIInv, Exchanges, Understood
    <3> QED
      BY <1>3, <2>3, <3>1 DEF HttpIInv, AnswersTell
  <2>5. told' => Kept'
    BY <1>1, <2>1, <2>2, <2>4 DEF Tells, Kept
  <2>6. \A b \in Callers : TellsOf(b)'
    BY <1>1, <2>1, <2>2 DEF TellsOf
  <2> QED
    BY <1>1, <1>4, <2>1, <2>5, <2>6 DEF Tells, TellTypes, Kept
<1>8. ASSUME NEW c \in Callers, Disturbs(c) \/ Serves(c)
      PROVE  Tells' /\ TellTypes'
  <2>1. UNCHANGED <<told, promised, found, run>>
    BY <1>8 DEF Disturbs, Serves
  <2>2. UNCHANGED verdict /\ \A b \in Callers : call'[b].request = call[b].request
    BY <1>1, <1>8, WayStep DEF Disturbs, Serves
  <2>3. \A b \in Callers : TellsOf(b)'
    BY <1>1, <2>1, <2>2 DEF TellsOf
  <2> QED
    BY <1>1, <1>4, <2>1, <2>3 DEF Tells, TellTypes, Kept
<1>9. ASSUME NEW c \in Callers, Resends(c)
       PROVE  Tells' /\ TellTypes'
  <2>1. /\ Resend(c) /\ UNCHANGED <<told, promised, run>>
        /\ found' = [found EXCEPT ![c] = "none"]
    BY <1>9 DEF Resends
  <2>2. TellsOf(c)' /\ TellTypes'
    BY <1>1, <2>1, ResendStep DEF TellsOf, TellTypes
  <2>3. ASSUME NEW b \in Callers \ {c}
        PROVE  TellsOf(b)'
    <3>1. call'[b] = call[b] /\ verdict'[b] = verdict[b] /\ found'[b] = found[b]
      BY <1>1, <2>1, ResendStep DEF TellTypes
    <3> QED
      BY <1>1, <2>1, <3>1 DEF TellsOf
  <2> QED
    BY <1>1, <1>4, <2>1, <2>2, <2>3 DEF Tells, Kept
<1>10. CASE ServerDies
  <2>1. /\ UNCHANGED <<call, verdict, told, promised, run>> /\ found' = [c \in Callers |-> "none"]
    BY <1>10 DEF ServerDies, ServerStops
  <2>2. TellTypes' /\ \A c \in Callers : TellsOf(c)'
    BY <1>1, <2>1 DEF TellTypes, TellsOf
  <2> QED
    BY <1>1, <1>4, <2>1, <2>2 DEF Tells, Kept
<1>11. CASE Expires
  <2>1. /\ UNCHANGED <<call, verdict>> /\ ~told' /\ told' \in BOOLEAN /\ promised' = {}
        /\ found' = [c \in Callers |-> IF found[c] = "latest" THEN "deleted" ELSE found[c]]
    BY <1>11 DEF Expires, httpVars
  <2>2. found' \in [Callers -> {"none", "latest", "earlier", "deleted"}]
    BY <1>1, <2>1 DEF TellTypes
  <2> QED
    BY <1>1, <1>2, <1>4, <2>1, <2>2 DEF TellTypes, TellsOf
<1>12. ASSUME NEW calls \in SUBSET Callers, EarlierExpires(calls)
       PROVE  Tells' /\ TellTypes'
  <2>1. /\ UNCHANGED <<call, verdict, told, run>> /\ promised' = promised \ calls
        /\ found' = [c \in Callers |-> IF c \in calls THEN "deleted" ELSE found[c]]
    BY <1>12 DEF EarlierExpires, httpVars
  <2>2. TellTypes' /\ \A c \in Callers : TellsOf(c)'
    BY <1>1, <2>1 DEF TellTypes, TellsOf
  <2> QED
    BY <1>1, <1>4, <2>1, <2>2 DEF Tells, Kept
<1>13. CASE UNCHANGED vars \/ WorkerDies \/ Moves \/ Closes
  <2>1. UNCHANGED <<call, verdict, told, promised, found>>
    BY <1>13 DEF vars, httpVars, WorkerDies, Moves, Closes
  <2>2. Kept => Kept'
    <3>1. CASE Moves \/ Closes
      BY <1>2, <3>1 DEF Moves, Closes, Expires, Going
    <3> QED
      BY <1>13, <3>1 DEF vars, WorkerDies, Kept
  <2>3. \A c \in Callers : TellsOf(c)'
    BY <1>1, <1>2, <2>1 DEF TellsOf
  <2> QED
    BY <1>1, <1>4, <2>1, <2>2, <2>3 DEF Tells, TellTypes
<1>14. ASSUME NEW e \in Environments, ServerStarts(e) \/ WorkerStarts(e)
       PROVE  Tells' /\ TellTypes'
  BY <1>1, <1>4, <1>14 DEF httpVars, ServerStarts, WorkerStarts, Tells, TellTypes, TellsOf, Kept
<1>15. ASSUME NEW p \in Paths, NEW kind \in Kinds, Arrives(p, kind)
       PROVE  Tells' /\ TellTypes'
  BY <1>1, <1>4, <1>15 DEF httpVars, Arrives, Tells, TellTypes, TellsOf, Kept
<1> QED
  BY <1>5, <1>6, <1>7, <1>8, <1>9, <1>10, <1>11, <1>12, <1>13, <1>14, <1>15 DEF Next

-----------------------------------------------------------------------------
(* What is listed *)

InboxTypes ==
  /\ inbox \in [Paths -> Kinds]
  /\ scan \in [Callers -> [left : SUBSET Paths, listed : SUBSET Paths]]
  /\ ever \in [Callers -> SUBSET Paths] /\ always \in [Callers -> SUBSET Paths]

\* What Scans says of a caller whose call does not begin anew.
LEMMA ScansStay ==
  ASSUME NEW c \in Callers, Scans(c), UNCHANGED <<inbox, scan, ever, always>>,
         call'[c].request = call[c].request,
         call'[c].at = call[c].at \/ (call[c].at = "waiting" /\ call'[c].at \in {"error", "answered"}),
         Lists(call[c].request) /\ verdict'[c] = "200" => verdict[c] = "200" \/ scan[c].left = {}
  PROVE  Scans(c)'
  BY DEF Scans, Watches, Lists, Directories

LEMMA HandlerScans ==
  ASSUME IInv, NEW c \in Callers, Handler(c)
  PROVE  InboxTypes' /\ \A b \in Callers : Scans(b)'
<1>1. InboxTypes /\ HttpTypeOK /\ \A b \in Callers : Scans(b)
  BY DEF IInv, TypeOK, InboxTypes, HttpIInv
<1>2. exchange[c].op = call[c].request.op
  BY DEF IInv, HttpIInv, Exchanges
<1>3. CASE \E p \in Paths : ReadDir(c, p)
  <2>1. PICK p \in Paths : ReadDir(c, p)
    BY <1>3
  <2>2. /\ scan' = [scan EXCEPT ![c].left = @ \ {p}, ![c].listed = IF IsDir(p) THEN @ \cup {p} ELSE @]
        /\ UNCHANGED <<httpVars, inbox, ever, always>>
    BY <2>1 DEF ReadDir, watching
  <2>3. /\ scan' \in [Callers -> [left : SUBSET Paths, listed : SUBSET Paths]]
        /\ scan'[c].left = scan[c].left \ {p}
        /\ scan'[c].listed = scan[c].listed \cup (IF IsDir(p) THEN {p} ELSE {})
        /\ \A b \in Callers \ {c} : scan'[b] = scan[b]
    BY <1>1, <2>2, ZenonT(30) DEF InboxTypes
  <2>4. p \in Directories <=> IsDir(p)
    BY DEF Directories, IsDir
  <2>5. UNCHANGED <<call, verdict, inbox, ever, always>>
    BY <2>2 DEF httpVars
  <2>6. call[c].at # "answered"
    BY <2>1 DEF IInv, HttpIInv, Exchanges, ReadDir, Handles
  <2>7. Scans(c)'
    BY <1>1, <2>3, <2>4, <2>5, <2>6 DEF Scans, Watches, Directories
  <2>8. \A b \in Callers \ {c} : Scans(b)'
    BY <1>1, <2>3, <2>5 DEF Scans, Watches, Directories
  <2> QED
    BY <1>1, <2>3, <2>5, <2>7, <2>8 DEF InboxTypes
<1>4. CASE ~\E p \in Paths : ReadDir(c, p)
  <2>1. UNCHANGED <<inbox, scan, ever, always>>
    BY <1>4 DEF Handler, Webhook, CreateDisc, GetDisc, Describes, Answers, GetInbox, watching
  <2> SUFFICES ASSUME ~UNCHANGED httpVars PROVE InboxTypes' /\ \A b \in Callers : Scans(b)'
    BY <1>1, <2>1, ScansStay DEF httpVars, InboxTypes
  <2>2. PICK s \in Verdicts[exchange[c].op] : Returns(c, s) /\ (Lists(call[c].request) /\ s = "200" => scan[c].left = {})
    <3>1. CASE GetInbox(c)
      BY <3>1 DEF GetInbox, Handles, Verdicts
    <3>2. CASE ~GetInbox(c)
      <4>1. exchange[c].op # "GetInbox"
        BY <1>4, <3>2 DEF Handler, Webhook, CreateDisc, GetDisc, Describes, Answers, Handles, Webhooks
      <4>2. \E s \in Verdicts[exchange[c].op] : Returns(c, s)
        BY HandlersReturn
      <4> QED
        BY <1>2, <4>1, <4>2 DEF Lists
    <3> QED
      BY <3>1, <3>2
  <2>3. /\ UNCHANGED call /\ verdict'[c] = s
        /\ \A b \in Callers \ {c} : verdict'[b] = verdict[b]
    BY <1>1, <2>2, ReturnsStep
  <2>4. \A b \in Callers : Scans(b)'
    BY <1>1, <2>1, <2>2, <2>3, ScansStay
  <2> QED
    BY <1>1, <2>1, <2>4 DEF InboxTypes
<1> QED
  BY <1>3, <1>4

\* Whoever watches sees the change.
LEMMA InboxBecomesScans ==
  ASSUME IInv, NEW p \in Paths, NEW kind \in Kinds, InboxBecomes(p, kind), UNCHANGED <<httpVars, scan>>
  PROVE  InboxTypes' /\ \A c \in Callers : Scans(c)'
<1>1. InboxTypes /\ \A c \in Callers : Scans(c)
  BY DEF IInv, TypeOK, InboxTypes
<1>2. inbox' \in [Paths -> Kinds] /\ Directories' \subseteq Paths
  BY <1>1 DEF InboxTypes, InboxBecomes, Directories
<1>3. /\ ever' = [c \in Callers |-> IF Watches(c) THEN ever[c] \cup Directories' ELSE ever[c]]
      /\ always' = [c \in Callers |-> IF Watches(c) THEN always[c] \cap Directories' ELSE always[c]]
      /\ UNCHANGED <<call, verdict, scan>>
  BY DEF InboxBecomes, httpVars
<1>4. InboxTypes'
  BY <1>1, <1>2, <1>3 DEF InboxTypes
<1>5. ASSUME NEW c \in Callers
      PROVE  Scans(c)'
  <2>1. Watches(c)' <=> Watches(c)
    BY <1>3 DEF Watches
  <2>2. CASE Watches(c)
    <3>1. ever'[c] = ever[c] \cup Directories' /\ always'[c] = always[c] \cap Directories'
      BY <1>3, <2>2
    <3> QED
      BY <1>1, <1>3, <2>1, <3>1 DEF Scans
  <2>3. CASE ~Watches(c)
    <3>1. ever'[c] = ever[c] /\ always'[c] = always[c]
      BY <1>3, <2>3
    <3> QED
      BY <1>1, <1>3, <2>1, <2>3, <3>1 DEF Scans
  <2> QED
    BY <2>2, <2>3
<1> QED
  BY <1>4, <1>5

LEMMA ScansHold ==
  ASSUME IInv, [Next]_vars
  PROVE  InboxTypes' /\ \A c \in Callers : Scans(c)'
<1>1. InboxTypes /\ HttpTypeOK /\ \A c \in Callers : Scans(c)
  BY DEF IInv, TypeOK, InboxTypes, HttpIInv
<1>2. CASE UNCHANGED <<call, verdict, inbox, scan, ever, always>>
  BY <1>1, <1>2, ScansStay DEF InboxTypes
<1>3. ASSUME NEW c \in Callers, NEW q \in Asks[c], Calls(c, q)
      PROVE  InboxTypes' /\ \A b \in Callers : Scans(b)'
  <2>1. /\ Call(c, q) /\ q \in Requests /\ UNCHANGED inbox
        /\ scan' = [scan EXCEPT ![c] = [left |-> IF Lists(q) THEN Paths ELSE {}, listed |-> {}]]
        /\ ever' = [ever EXCEPT ![c] = IF Lists(q) THEN Directories ELSE {}]
        /\ always' = [always EXCEPT ![c] = IF Lists(q) THEN Directories ELSE {}]
    BY <1>3, AsksAssumption DEF Calls
  <2>2. Directories \subseteq Paths /\ Directories' = Directories
    BY <2>1 DEF Directories
  <2>3. InboxTypes'
    BY <1>1, <2>1, <2>2 DEF InboxTypes
  <2>4. call'[c].request = q /\ verdict'[c] = "none"
    BY <1>1, <2>1, CallStep
  <2>5. Scans(c)'
    <3>1. Watches(c)' => always'[c] = Directories /\ ever'[c] = Directories
      BY <1>1, <2>1, <2>4 DEF Watches, InboxTypes
    <3>2. Lists(q) => /\ scan'[c].left = Paths /\ scan'[c].listed = {} /\ always'[c] = Directories
      BY <1>1, <2>1 DEF InboxTypes
    <3> QED
      BY <2>2, <2>4, <3>1, <3>2 DEF Scans
  <2>6. ASSUME NEW b \in Callers \ {c}
        PROVE  Scans(b)'
    <3>1. /\ call'[b] = call[b] /\ verdict'[b] = verdict[b] /\ scan'[b] = scan[b]
          /\ ever'[b] = ever[b] /\ always'[b] = always[b]
      BY <1>1, <2>1, CallStep DEF InboxTypes
    <3> QED
      BY <1>1, <2>2, <3>1 DEF Scans, Watches
  <2> QED
    BY <2>3, <2>5, <2>6
<1>4. ASSUME NEW c \in Callers, Disturbs(c) \/ Receives(c) \/ Serves(c)
      PROVE  InboxTypes' /\ \A b \in Callers : Scans(b)'
  <2>1. UNCHANGED <<inbox, scan, ever, always>>
    BY <1>4 DEF Disturbs, Receives, Serves, watching
  <2>2. /\ UNCHANGED verdict
        /\ \A b \in Callers :
             /\ call'[b].request = call[b].request
             /\ \/ call'[b].at = call[b].at
                \/ call[b].at = "waiting" /\ call'[b].at \in {"error", "answered"}
    BY <1>1, <1>4, WayStep DEF Disturbs, Receives, Serves
  <2> QED
    BY <1>1, <2>1, <2>2, ScansStay DEF InboxTypes
<1>5. ASSUME NEW c \in Callers, Handler(c)
      PROVE  InboxTypes' /\ \A b \in Callers : Scans(b)'
  BY <1>5, HandlerScans
<1>6. ASSUME NEW p \in Paths, NEW kind \in Kinds \ {"none"}, Arrives(p, kind)
      PROVE  InboxTypes' /\ \A b \in Callers : Scans(b)'
  BY <1>6, InboxBecomesScans DEF Arrives
<1>7. CASE Moves
  <2>1. run.status # "none" /\ run \in Runs
    BY <1>7 DEF Moves, IInv, TypeOK, Runs
  <2>2. run.params.path \in Paths
    BY <2>1 DEF Runs, Params
  <2> QED
    BY <1>7, <2>2, InboxBecomesScans DEF Moves, Kinds
<1>8. ASSUME NEW c \in Callers, Resends(c)
      PROVE  InboxTypes' /\ \A b \in Callers : Scans(b)'
  <2>1. /\ Resend(c) /\ UNCHANGED <<inbox, ever, always>>
        /\ scan' = [scan EXCEPT ![c] = [left |-> IF Lists(call[c].request) THEN Paths ELSE {}, listed |-> {}]]
    BY <1>8 DEF Resends, watching
  <2>2. /\ InboxTypes' /\ scan'[c].listed = {}
        /\ Lists(call[c].request) => scan'[c].left = Paths
        /\ \A b \in Callers \ {c} : scan'[b] = scan[b]
    BY <1>1, <2>1 DEF InboxTypes
  <2>3. /\ call[c].at = "waiting" /\ call'[c].at = "waiting" /\ verdict'[c] = "none"
        /\ call'[c].request = call[c].request
        /\ \A b \in Callers \ {c} : call'[b] = call[b] /\ verdict'[b] = verdict[b]
    BY <1>1, <2>1, ResendStep
  <2>4. Scans(c)'
    <3>1. always[c] \subseteq Paths
      BY <1>1 DEF InboxTypes
    <3>2. Lists(call[c].request) => always[c] \ scan'[c].left \subseteq scan'[c].listed
      BY <2>2, <3>1
    <3> QED
      BY <1>1, <2>1, <2>2, <2>3, <3>2 DEF Scans, Watches, Directories
  <2>5. \A b \in Callers \ {c} : Scans(b)'
    BY <1>1, <2>1, <2>2, <2>3 DEF Scans, Watches, Directories
  <2> QED
    BY <2>2, <2>4, <2>5
<1> QED
  BY <1>2, <1>3, <1>4, <1>5, <1>6, <1>7, <1>8
     DEF Next, vars, httpVars, watching, ServerStarts, WorkerStarts, ServerDies, ServerStops, WorkerDies, Closes,
         Expires, EarlierExpires

-----------------------------------------------------------------------------
(* Theorems *)

\* The steps of the deployment are made of steps of the HTTP layer, which gives it the
\* properties of HttpLayerProofs.
LEMMA ImplementsHttp == Spec => HttpSpec
<1>1. Init => HttpInit
  BY InitImpliesHttp
<1>2. [Next]_vars => [HttpNext]_httpVars
  BY NextImpliesHttp
<1> QED
  BY <1>1, <1>2, PTL DEF Spec, HttpSpec

LEMMA InitHolds == Init => IInv
<1> SUFFICES ASSUME Init PROVE IInv
  OBVIOUS
<1>1. HttpIInv
  BY InitImpliesHttp, HttpInitHolds
<1>2. /\ \A c \in Callers : call[c].at = "new" /\ exchange[c].at = "none" /\ verdict[c] = "none"
  BY DEF Init, HttpInit
<1>3. ProcInv
  BY <1>2 DEF Init, ProcessInit, ProcInv, ProcessTypeOK, UpIsConfigured, ServesConfigured
<1>4. RunInv /\ Tells /\ TellTypes
  BY <1>2 DEF Init, RunInv, Runs, RunsAreConfigured, Tells, TellTypes
<1>5. InboxTypes /\ \A c \in Callers : Scans(c)
  BY <1>2 DEF Init, InboxTypes, Kinds, Scans, Watches
<1> QED
  BY <1>1, <1>3, <1>4, <1>5 DEF IInv, TypeOK, HttpIInv, ProcInv, RunInv, Runs, TellTypes, InboxTypes

LEMMA NextHolds ==
  ASSUME IInv, [Next]_vars
  PROVE  IInv'
<1>1. HttpIInv'
  BY NextImpliesHttp, HttpNextHolds DEF IInv
<1>2. ProcInv' /\ RunInv' /\ Tells' /\ TellTypes' /\ InboxTypes' /\ \A c \in Callers : Scans(c)'
  BY ProcInvHolds, RunInvHolds, TellsHolds, ScansHold
<1> QED
  BY <1>1, <1>2 DEF IInv, TypeOK, HttpIInv, ProcInv, RunInv, Runs, TellTypes, InboxTypes

\* The inductive invariant: of requests, processes, runs, promises and directories.
THEOREM DeploymentInvariant == Spec => []IInv
<1>1. Init => IInv
  BY InitHolds
<1>2. IInv /\ [Next]_vars => IInv'
  BY NextHolds
<1> QED
  BY <1>1, <1>2, PTL DEF Spec

\* Callers, processes, inbox and run keep to their types.
THEOREM TypeCorrect == Spec => []TypeOK
<1>1. IInv => TypeOK
  BY DEF IInv
<1> QED
  BY <1>1, DeploymentInvariant, PTL

\* An answer tells what the handler did, although servers die and come back.
THEOREM AnswersAreKept == Spec => []AnswersTell
  BY ImplementsHttp, AnswersAreVerdicts, PTL

\* No webhook and no CreateDisc is handled twice, although servers die and come back.
THEOREM NothingIsHandledTwice == Spec => HandledOnce
  BY ImplementsHttp, NothingIsRepeated, PTL

\* GetInbox (server.go:273-299) lists what was there all the time, and nothing that never was.
THEOREM ListingIsRegular == Spec => []InboxIsRegular
<1>1. IInv => InboxIsRegular
  <2> SUFFICES ASSUME IInv, NEW c \in Callers, Lists(call[c].request), call[c].at = "answered",
                      call[c].field = "200"
               PROVE  always[c] \subseteq scan[c].listed /\ scan[c].listed \subseteq ever[c]
    BY DEF InboxIsRegular
  <2>1. Understood(c) /\ call[c].status = "200"
    BY DEF IInv, HttpIInv, Exchanges, Understood
  <2>2. verdict[c] = "200"
    BY <2>1 DEF IInv, HttpIInv, AnswersTell
  <2> QED
    BY <2>2 DEF IInv, Scans
<1> QED
  BY <1>1, DeploymentInvariant, PTL

\* After a 201 (server.go:72) no later GetDisc is told 404, whoever dies and whichever runs
\* close or are started, until a run is deleted (server.go:178-183, 217-221).
THEOREM CreationIsKnown == Spec => []CreatedIsKnown
<1>1. IInv => CreatedIsKnown
  <2> SUFFICES ASSUME IInv, NEW c \in promised, call[c].request.op = "GetDisc", call[c].at = "answered",
                      call[c].field = "404"
               PROVE  FALSE
    BY DEF CreatedIsKnown
  <2>1. c \in Callers
    BY DEF IInv, TypeOK
  <2>2. Understood(c) /\ call[c].status = "404"
    BY <2>1 DEF IInv, HttpIInv, Exchanges, Understood
  <2>3. verdict[c] = "404"
    BY <2>1, <2>2 DEF IInv, HttpIInv, AnswersTell
  <2> QED
    BY <2>3 DEF IInv, Tells
<1> QED
  BY <1>1, DeploymentInvariant, PTL

\* A run has the paths of an environment in which they were all set (config.go:48, 73-80).
THEOREM ConfigurationIsWhole == Spec => []RunsAreConfigured
<1>1. IInv => RunsAreConfigured
  BY DEF IInv
<1> QED
  BY <1>1, DeploymentInvariant, PTL
=============================================================================
