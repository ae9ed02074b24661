------------------------------- MODULE HttpLayer -------------------------------
(***************************************************************************)
(* The generated layer between the callers of the server and its handlers  *)
(* (vwrest/api.gen.go): the client makes a request of each call, the       *)
(* server routes it, decodes it and calls the handler of server/server.go, *)
(* writes what the handler returns, and the client reads it.               *)
(*                                                                         *)
(* Requests and responses can be lost, the server can die, and a caller    *)
(* can give up while the server goes on with what it was asked.  The       *)
(* client of net/http, which NewClient takes, sends a GET once more when   *)
(* its connection ends without an answer.  What the handlers do is not     *)
(* said here: module Deployment does.                                      *)
(***************************************************************************)
CONSTANTS
  Callers,  \* connections to the server; who repeats a call has two of them
  Paths     \* paths that CreateDisc is asked for

VARIABLES
  call,      \* the latest call on each connection and its outcome
  exchange,  \* how far the request or the response has come
  verdict    \* auxiliary: the status that the handler returned for the call

httpVars == <<call, exchange, verdict>>

-----------------------------------------------------------------------------
(* Operations *)

Webhooks == {"CompleteGetVideoInfoActivity", "CompleteTranscodeActivity", "TranscodeActivityHeartbeat"}
Operations == Webhooks \cup {"CreateDisc", "GetDisc", "GetInbox"}

\* A body that cannot be decoded, or a UUID that is none, is "invalid".
Arguments(op) ==
  CASE op = "GetInbox" -> {"none"}
    [] op = "CreateDisc" -> Paths \cup {"invalid"}
    [] OTHER -> {"valid", "invalid"}

\* The URL of a client may have a path that the server does not.
Bases == {"root", "other"}
Requests == UNION {[op : {op}, arg : Arguments(op), base : Bases] : op \in Operations}

\* What the client asks for, below its URL.
Target ==
  [CompleteGetVideoInfoActivity |-> <<"POST", "activity/get_video_info/complete">>,
   CompleteTranscodeActivity    |-> <<"POST", "activity/transcode/complete">>,
   TranscodeActivityHeartbeat   |-> <<"POST", "activity/transcode/heartbeat">>,
   CreateDisc                   |-> <<"POST", "disc">>,
   GetDisc                      |-> <<"GET", "disc/:uuid">>,
   GetInbox                     |-> <<"GET", "inbox">>]

\* What the server registers each wrapper for.
Pattern ==
  [CompleteGetVideoInfoActivity |-> <<"POST", "activity/get_video_info/complete">>,
   CompleteTranscodeActivity    |-> <<"POST", "activity/transcode/complete">>,
   TranscodeActivityHeartbeat   |-> <<"POST", "activity/transcode/heartbeat">>,
   CreateDisc                   |-> <<"POST", "disc">>,
   GetDisc                      |-> <<"GET", "disc/:uuid">>,
   GetInbox                     |-> <<"GET", "inbox">>]

\* The wrappers that a request comes to.
Routed(q) == {op \in Operations : q.base = "root" /\ Pattern[op] = Target[q.op]}

\* The statuses that the handlers return.
Verdicts ==
  [CompleteGetVideoInfoActivity |-> {"200", "400", "500"},
   CompleteTranscodeActivity    |-> {"200", "500"},
   TranscodeActivityHeartbeat   |-> {"200", "500"},
   CreateDisc                   |-> {"201", "409", "500"},
   GetDisc                      |-> {"200", "404", "500"},
   GetInbox                     |-> {"200", "500"}]

\* The fields that the client has for what it reads, one for each status.
Fields ==
  [CompleteGetVideoInfoActivity |-> {"400", "500"},
   CompleteTranscodeActivity    |-> {"400", "500"},
   TranscodeActivityHeartbeat   |-> {"400", "500"},
   CreateDisc                   |-> {"201", "400", "409", "500"},
   GetDisc                      |-> {"200", "404", "500"},
   GetInbox                     |-> {"200", "500"}]

Statuses  == {"200", "201", "400", "404", "409", "500"}
Responses == [status : Statuses \cup {"none"}, json : BOOLEAN]
Nothing   == [status |-> "none", json |-> FALSE]

HttpTypeOK ==
  /\ call \in [Callers -> [request : Requests, at : {"new", "waiting", "error", "answered"},
                           status : Statuses \cup {"none"}, field : Statuses \cup {"none"},
                           again : BOOLEAN]]
  /\ exchange \in [Callers -> [at : {"none", "request", "handling", "response"},
                               op : Operations, response : Responses]]
  /\ verdict \in [Callers -> Statuses \cup {"none"}]

-----------------------------------------------------------------------------
(* The client *)

Repeatable(q) == Target[q.op][1] = "GET"

\* again: it may be sent once more (which is a bound: once for each connection it has).
Begins(q) ==
  [request |-> q, at |-> "waiting", status |-> "none", field |-> "none", again |-> Repeatable(q)]

Sends(c, q) == exchange' = [exchange EXCEPT ![c] = [at |-> "request", op |-> q.op, response |-> Nothing]]

\* The next call on a connection.  (One that the server still works for is not used.)
Call(c, q) ==
  /\ call[c].at # "waiting" /\ exchange[c].at = "none"
  /\ call' = [call EXCEPT ![c] = Begins(q)]
  /\ Sends(c, q)
  /\ verdict' = [verdict EXCEPT ![c] = "none"]

\* The connection has ended without an answer.  If a handler still works for the first
\* request, it is forgotten: it only reads, and nobody reads its response.
Resend(c) ==
  /\ call[c].at = "waiting" /\ call[c].again /\ exchange[c].at # "request"
  /\ call' = [call EXCEPT ![c].again = FALSE]
  /\ Sends(c, call[c].request)
  /\ verdict' = [verdict EXCEPT ![c] = "none"]

Gone(c) == [exchange EXCEPT ![c].at = "none", ![c].response = Nothing]

BreaksSlip(c) ==  \* Slip: a client that repeats whatever was not answered.
  /\ call[c].at = "waiting" /\ exchange[c].at = "response"
  /\ exchange' = [exchange EXCEPT ![c].at = "request", ![c].response = Nothing]
  /\ UNCHANGED <<call, verdict>>

\* The caller gets an error: the connection is refused or breaks, or the time it has
\* set is over.  The server may have the request all the same.
Breaks(c) ==
  /\ call[c].at = "waiting"
  /\ call' = [call EXCEPT ![c].at = "error", ![c].again = FALSE]
  /\ exchange' = IF exchange[c].at = "response" THEN Gone(c) ELSE exchange
  /\ UNCHANGED verdict

RequestLost(c) ==
  /\ exchange[c].at = "request"
  /\ exchange' = Gone(c)
  /\ UNCHANGED <<call, verdict>>

\* The field that is set: only for a JSON response with a status of this operation.
Parsed(op, r) == IF r.json /\ r.status \in Fields[op] THEN r.status ELSE "none"

Answered(q, r) ==
  [request |-> q, at |-> "answered", status |-> r.status, field |-> Parsed(q.op, r), again |-> FALSE]

Receive(c) ==
  /\ call[c].at = "waiting" /\ exchange[c].at = "response"
  /\ call' = [call EXCEPT ![c] = Answered(@.request, exchange[c].response)]
  /\ exchange' = Gone(c)
  /\ UNCHANGED verdict

-----------------------------------------------------------------------------
(* The server *)

\* Nobody reads the response to a call that has been given up.
Respond(c, r) ==
  IF call[c].at = "waiting"
  THEN exchange' = [exchange EXCEPT ![c].at = "response", ![c].response = r]
  ELSE exchange' = Gone(c)

\* http.Error and the mux answer in plain text.
Refuse(c, status) == Respond(c, [status |-> status, json |-> FALSE])

ServeSlip(c) ==  \* Slip: no return after the error of decoding.
  /\ exchange[c].at = "request"
  /\ LET q == call[c].request
     IN  \/ /\ Routed(q) = {}
            /\ Refuse(c, "404")
         \/ \E op \in Routed(q) :
              exchange' = [exchange EXCEPT ![c].at = "handling", ![c].op = op]
  /\ UNCHANGED <<call, verdict>>

\* Routing, wrapper and decoding; the handler is called if all went well.
Serve(c) ==
  /\ exchange[c].at = "request"
  /\ LET q == call[c].request
     IN  \/ /\ Routed(q) = {}
            /\ Refuse(c, "404")
         \/ /\ Routed(q) # {} /\ q.arg = "invalid"
            /\ Refuse(c, "400")
         \/ \E op \in Routed(q) :
              /\ q.arg # "invalid"
              /\ exchange' = [exchange EXCEPT ![c].at = "handling", ![c].op = op]
  /\ UNCHANGED <<call, verdict>>

\* Each status of an operation is written as JSON, but for the 200 of a webhook,
\* which has no body.
Visited(op, status) == [status |-> status, json |-> ~(op \in Webhooks /\ status = "200")]

ReturnsSlip(c, status) ==  \* Slip: a handler returns an error instead of its 500.
  /\ exchange[c].at = "handling"
  /\ verdict' = [verdict EXCEPT ![c] = status]
  /\ IF status = "500" THEN Refuse(c, "500") ELSE Respond(c, Visited(exchange[c].op, status))
  /\ UNCHANGED call

\* The handler returns a response, never an error.
Returns(c, status) ==
  /\ exchange[c].at = "handling"
  /\ verdict' = [verdict EXCEPT ![c] = status]
  /\ Respond(c, Visited(exchange[c].op, status))
  /\ UNCHANGED call

\* The server dies with the requests that it has, or that are on their way to it.
ServerStops ==
  /\ exchange' = [c \in Callers |->
                    IF exchange[c].at \in {"request", "handling"} THEN Gone(c)[c] ELSE exchange[c]]
  /\ UNCHANGED <<call, verdict>>

-----------------------------------------------------------------------------
(* Specification *)

HttpInit ==
  \E q \in Requests :
    /\ q.op = "GetInbox" /\ q.base = "root"
    /\ call = [c \in Callers |-> [request |-> q, at |-> "new", status |-> "none", field |-> "none",
                                 again |-> FALSE]]
    /\ exchange = [c \in Callers |-> [at |-> "none", op |-> q.op, response |-> Nothing]]
    /\ verdict = [c \in Callers |-> "none"]

HttpNext ==
  \/ ServerStops
  \/ \E c \in Callers :
       \/ \E q \in Requests : Call(c, q)
       \/ Resend(c) \/ Breaks(c) \/ RequestLost(c) \/ Receive(c) \/ Serve(c)
       \/ \E status \in Verdicts[exchange[c].op] : Returns(c, status)

HttpSpec == HttpInit /\ [][HttpNext]_httpVars

-----------------------------------------------------------------------------
(* Properties *)

\* The client made sense of the answer: a field is set, or it is the 200 of a webhook.
Understood(c) ==
  LET k == call[c]
  IN  k.field # "none" \/ (k.request.op \in Webhooks /\ k.status = "200")

\* From an answer, the caller knows what the server did (api.gen.go:869-1083, 1625-1797):
\* if it is understood, the handler of this very operation has given that verdict on
\* this call; if it is not, such as the 400 and 404 in plain text, no handler was called.
AnswersTell ==
  \A c \in Callers : call[c].at = "answered" =>
    IF Understood(c)
    THEN verdict[c] = call[c].status /\ exchange[c].op = call[c].request.op
    ELSE verdict[c] = "none"

\* Once a webhook or CreateDisc was answered, or its handler has returned, no handler works
\* for it again, although a GET may be sent twice: no such request is served twice, and no
\* answer overtakes its effect.
HandledOnce ==
  [][\A c \in Callers :
       (verdict[c] # "none" \/ call[c].at = "answered") /\ ~Repeatable(call[c].request) =>
         \/ verdict'[c] = verdict[c] /\ exchange'[c].at # "handling"
         \/ call[c].at # "waiting" /\ call'[c].at = "waiting"]_httpVars

-----------------------------------------------------------------------------
(* The inductive invariant *)

\* What is on its way back is the verdict of the handler, or was never given one.
Carries(c) ==
  LET x == exchange[c]
  IN  \/ verdict[c] \in Verdicts[x.op] /\ x.response = Visited(x.op, verdict[c])
      \/ verdict[c] = "none" /\ x.response \in [status : {"400", "404"}, json : {FALSE}]

\* The exchange is about the latest call, and ends before a verdict is followed by another.
Exchanges(c) ==
  /\ exchange[c].op = call[c].request.op
  /\ exchange[c].at \in {"request", "handling"} => verdict[c] = "none"
  /\ exchange[c].at = "handling" => call[c].request.arg # "invalid"
  /\ exchange[c].at # "none" => call[c].at \in {"waiting", "error"}
  /\ exchange[c].at = "response" => call[c].at = "waiting" /\ Carries(c)
  /\ call[c].field \in {"none", call[c].status}
  /\ call[c].again => Repeatable(call[c].request)

HttpIInv == HttpTypeOK /\ AnswersTell /\ \A c \in Callers : Exchanges(c)
=============================================================================
