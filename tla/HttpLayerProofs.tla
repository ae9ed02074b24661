---------------------------- MODULE HttpLayerProofs ----------------------------
(***************************************************************************)
(* Theorems about HttpLayer, for any connections and paths.                *)
(***************************************************************************)
EXTENDS HttpLayer, TLAPS

CallRecords == [request : Requests, at : {"new", "waiting", "error", "answered"},
                status : Statuses \cup {"none"}, field : Statuses \cup {"none"}, again : BOOLEAN]
ExchangeRecords == [at : {"none", "request", "handling", "response"},
                    op : Operations, response : Responses]

LEMMA RequestTypes ==
  ASSUME NEW q \in Requests
  PROVE  q.op \in Operations /\ q.arg \in Arguments(q.op) /\ q.base \in Bases
  BY DEF Requests

\* No two operations share a method and a path.
LEMMA RoutedToItself ==
  ASSUME NEW q \in Requests, NEW op \in Routed(q)
  PROVE  op = q.op
<1>1. op \in Operations /\ q.op \in Operations /\ Pattern[op] = Target[q.op]
  BY RequestTypes DEF Routed
<1>2. Target[op] = Target[q.op]
  BY <1>1 DEF Pattern, Target
<1>3. \A x, y \in Operations : Target[x] = Target[y] => x = y
  BY DEF Operations, Webhooks, Target
<1> QED
  BY <1>1, <1>2, <1>3

LEMMA VerdictTypes ==
  ASSUME NEW op \in Operations, NEW s \in Verdicts[op]
  PROVE  s \in Statuses /\ s # "none" /\ Visited(op, s) \in Responses
  BY DEF Verdicts, Statuses, Operations, Webhooks, Visited, Responses

\* The client has a field for every verdict, but for the 200 of a webhook.
LEMMA VerdictsAreParsed ==
  ASSUME NEW op \in Operations, NEW s \in Verdicts[op]
  PROVE  /\ Visited(op, s).status = s
         /\ Parsed(op, Visited(op, s)) = s \/ (Parsed(op, Visited(op, s)) = "none" /\ op \in Webhooks /\ s = "200")
<1>1. Visited(op, s).status = s /\ Visited(op, s).json = ~(op \in Webhooks /\ s = "200")
  BY DEF Visited
<1>2. s \in Fields[op] \/ (op \in Webhooks /\ s = "200")
  BY DEF Verdicts, Fields, Operations, Webhooks
<1>3. Parsed(op, Visited(op, s)) = IF op \in Webhooks /\ s = "200" THEN "none" ELSE s
  BY <1>1, <1>2 DEF Parsed
<1> QED
  BY <1>1, <1>3

\* What is to be shown of one connection.
Told(c) ==
  call[c].at = "answered" =>
    IF Understood(c)
    THEN verdict[c] = call[c].status /\ exchange[c].op = call[c].request.op
    ELSE verdict[c] = "none"

LEMMA HttpIInvSplit ==
  HttpIInv <=> HttpTypeOK /\ \A c \in Callers : Told(c) /\ Exchanges(c)
  BY DEF HttpIInv, AnswersTell, Told

LEMMA TypesOf ==
  HttpTypeOK <=> /\ call \in [Callers -> CallRecords] /\ exchange \in [Callers -> ExchangeRecords]
                 /\ verdict \in [Callers -> Statuses \cup {"none"}]
  BY DEF HttpTypeOK, CallRecords, ExchangeRecords

LEMMA NothingTypes == Nothing \in Responses /\ "none" \notin Statuses
  BY DEF Nothing, Responses, Statuses

Frame(b) ==
  \A c \in Callers \ {b} :
    call'[c] = call[c] /\ exchange'[c] = exchange[c] /\ verdict'[c] = verdict[c]

LEMMA FrameHolds ==
  ASSUME HttpIInv, HttpTypeOK', NEW b \in Callers, Frame(b), Told(b)', Exchanges(b)'
  PROVE  HttpIInv'
<1>1. ASSUME NEW c \in Callers \ {b}
      PROVE  Told(c)' /\ Exchanges(c)'
  <2>1. Told(c) /\ Exchanges(c)
    BY HttpIInvSplit
  <2>2. call'[c] = call[c] /\ exchange'[c] = exchange[c] /\ verdict'[c] = verdict[c]
    BY DEF Frame
  <2>3. Told(c)'
    BY <2>1, <2>2 DEF Told, Understood
  <2>4. Exchanges(c)'
    BY <2>1, <2>2 DEF Exchanges, Carries
  <2> QED
    BY <2>3, <2>4
<1>2. \A c \in Callers : Told(c)' /\ Exchanges(c)'
  BY <1>1
<1> QED
  BY <1>2 DEF HttpIInv, AnswersTell, Told

LEMMA GoneStep ==
  ASSUME HttpTypeOK, NEW b \in Callers
  PROVE  /\ Gone(b) \in [Callers -> ExchangeRecords]
         /\ Gone(b)[b].at = "none" /\ Gone(b)[b].op = exchange[b].op
         /\ \A c \in Callers \ {b} : Gone(b)[c] = exchange[c]
<1>1. exchange \in [Callers -> ExchangeRecords]
  BY TypesOf
<1> QED
  BY <1>1, NothingTypes DEF Gone, ExchangeRecords

LEMMA RespondStep ==
  ASSUME HttpTypeOK, NEW b \in Callers, NEW r \in Responses, Respond(b, r)
  PROVE  /\ exchange' \in [Callers -> ExchangeRecords]
         /\ exchange'[b].op = exchange[b].op
         /\ \/ call[b].at = "waiting" /\ exchange'[b].at = "response" /\ exchange'[b].response = r
            \/ call[b].at # "waiting" /\ exchange'[b].at = "none"
         /\ \A c \in Callers \ {b} : exchange'[c] = exchange[c]
<1>1. exchange \in [Callers -> ExchangeRecords]
  BY TypesOf
<1>2. CASE call[b].at = "waiting"
  BY <1>1, <1>2 DEF Respond, ExchangeRecords
<1>3. CASE call[b].at # "waiting"
  BY <1>3, GoneStep DEF Respond
<1> QED
  BY <1>2, <1>3

-----------------------------------------------------------------------------
(* The steps *)

LEMMA HttpInitHolds == HttpInit => HttpIInv
<1> SUFFICES ASSUME HttpInit PROVE HttpIInv
  OBVIOUS
<1>1. PICK q \in Requests :
        /\ q.op = "GetInbox"
        /\ call = [c \in Callers |-> [request |-> q, at |-> "new", status |-> "none", field |-> "none",
                                     again |-> FALSE]]
        /\ exchange = [c \in Callers |-> [at |-> "none", op |-> q.op, response |-> Nothing]]
        /\ verdict = [c \in Callers |-> "none"]
  BY DEF HttpInit
<1>2. HttpTypeOK
  BY <1>1, TypesOf, RequestTypes, NothingTypes DEF CallRecords, ExchangeRecords
<1>3. \A c \in Callers : Told(c) /\ Exchanges(c)
  BY <1>1 DEF Told, Exchanges
<1> QED
  BY <1>2, <1>3, HttpIInvSplit

LEMMA CallHolds ==
  ASSUME HttpIInv, NEW b \in Callers, NEW q \in Requests, Call(b, q)
  PROVE  HttpIInv'
<1>1. /\ call \in [Callers -> CallRecords] /\ exchange \in [Callers -> ExchangeRecords]
      /\ verdict \in [Callers -> Statuses \cup {"none"}]
  BY HttpIInvSplit, TypesOf
<1>2. /\ call' = [call EXCEPT ![b] = Begins(q)]
      /\ exchange' = [exchange EXCEPT ![b] = [at |-> "request", op |-> q.op, response |-> Nothing]]
      /\ verdict' = [verdict EXCEPT ![b] = "none"]
  BY DEF Call, Sends
<1>3. Begins(q) \in CallRecords /\ [at |-> "request", op |-> q.op, response |-> Nothing] \in ExchangeRecords
  BY RequestTypes, NothingTypes DEF Begins, Repeatable, CallRecords, ExchangeRecords
<1>4. HttpTypeOK' /\ Frame(b)
  BY <1>1, <1>2, <1>3 DEF HttpTypeOK, CallRecords, ExchangeRecords, Frame
<1>5. Told(b)' /\ Exchanges(b)'
  BY <1>1, <1>2 DEF Told, Exchanges, Begins
<1> QED
  BY <1>4, <1>5, FrameHolds

LEMMA ResendStep ==
  ASSUME HttpTypeOK, NEW b \in Callers, Resend(b)
  PROVE  /\ HttpTypeOK' /\ call[b].at = "waiting" /\ call'[b].at = "waiting"
         /\ call'[b].request = call[b].request /\ call'[b].field = call[b].field
         /\ call'[b].status = call[b].status /\ call'[b].again = FALSE
         /\ exchange'[b].at = "request" /\ exchange'[b].op = call[b].request.op /\ verdict'[b] = "none"
         /\ \A c \in Callers \ {b} :
              call'[c] = call[c] /\ verdict'[c] = verdict[c] /\ exchange'[c] = exchange[c]
<1>1. /\ call \in [Callers -> CallRecords] /\ exchange \in [Callers -> ExchangeRecords]
      /\ verdict \in [Callers -> Statuses \cup {"none"}]
  BY TypesOf
<1>2. [at |-> "request", op |-> call[b].request.op, response |-> Nothing] \in ExchangeRecords
  BY <1>1, RequestTypes, NothingTypes DEF CallRecords, ExchangeRecords
<1>3. /\ exchange' \in [Callers -> ExchangeRecords] /\ verdict' \in [Callers -> Statuses \cup {"none"}]
      /\ exchange'[b].at = "request" /\ exchange'[b].op = call[b].request.op /\ verdict'[b] = "none"
      /\ \A c \in Callers \ {b} : verdict'[c] = verdict[c] /\ exchange'[c] = exchange[c]
  BY <1>1, <1>2 DEF Resend, Sends
<1>4. /\ call' \in [Callers -> CallRecords]
      /\ call[b].at = "waiting" /\ call'[b].at = call[b].at
      /\ call'[b].request = call[b].request /\ call'[b].field = call[b].field
      /\ call'[b].status = call[b].status /\ call'[b].again = FALSE
      /\ \A c \in Callers \ {b} : call'[c] = call[c]
  BY <1>1 DEF Resend, CallRecords
<1>5. HttpTypeOK'
  BY <1>3, <1>4 DEF HttpTypeOK, CallRecords, ExchangeRecords
<1> QED
  BY <1>3, <1>4, <1>5

LEMMA ResendHolds ==
  ASSUME HttpIInv, NEW b \in Callers, Resend(b)
  PROVE  HttpIInv'
<1>1. HttpTypeOK /\ Exchanges(b)
  BY HttpIInvSplit
<1>2. HttpTypeOK' /\ Frame(b)
  BY <1>1, ResendStep DEF Frame
<1>3. Told(b)'
  BY <1>1, ResendStep DEF Told
<1>4. Exchanges(b)'
  BY <1>1, ResendStep, ZenonT(30) DEF Exchanges
<1> QED
  BY <1>2, <1>3, <1>4, FrameHolds

LEMMA BreaksHolds ==
  ASSUME HttpIInv, NEW b \in Callers, Breaks(b)
  PROVE  HttpIInv'
<1>1. HttpTypeOK /\ Told(b) /\ Exchanges(b)
  BY HttpIInvSplit
<1>2. /\ call \in [Callers -> CallRecords] /\ exchange \in [Callers -> ExchangeRecords]
      /\ verdict \in [Callers -> Statuses \cup {"none"}]
  BY <1>1, TypesOf
<1>3. /\ call' \in [Callers -> CallRecords] /\ UNCHANGED verdict
      /\ call'[b].at = "error" /\ call'[b].request = call[b].request
      /\ call'[b].status = call[b].status /\ call'[b].field = call[b].field /\ ~call'[b].again
      /\ \A c \in Callers \ {b} : call'[c] = call[c]
  BY <1>2 DEF Breaks, CallRecords
<1>4. /\ exchange' \in [Callers -> ExchangeRecords] /\ exchange'[b].op = exchange[b].op
      /\ exchange'[b].at # "response"
      /\ exchange'[b].at # "none" => exchange'[b].at = exchange[b].at
      /\ \A c \in Callers \ {b} : exchange'[c] = exchange[c]
  BY <1>1, <1>2, GoneStep DEF Breaks
<1>5. HttpTypeOK' /\ Frame(b)
  BY <1>2, <1>3, <1>4 DEF HttpTypeOK, CallRecords, ExchangeRecords, Frame
<1>6. Told(b)' /\ Exchanges(b)'
  BY <1>1, <1>3, <1>4 DEF Told, Exchanges
<1> QED
  BY <1>5, <1>6, FrameHolds

LEMMA RequestLostHolds ==
  ASSUME HttpIInv, NEW b \in Callers, RequestLost(b)
  PROVE  HttpIInv'
<1>1. HttpTypeOK /\ Told(b) /\ Exchanges(b)
  BY HttpIInvSplit
<1>2. exchange' = Gone(b) /\ UNCHANGED <<call, verdict>>
  BY DEF RequestLost
<1>3. HttpTypeOK' /\ Frame(b)
  BY <1>1, <1>2, GoneStep DEF HttpTypeOK, ExchangeRecords, Frame
<1>4. Told(b)' /\ Exchanges(b)'
  BY <1>1, <1>2, GoneStep DEF Told, Exchanges, Understood
<1> QED
  BY <1>3, <1>4, FrameHolds

\* What the client reads is the verdict, or was never given one.
LEMMA ReceiveHolds ==
  ASSUME HttpIInv, NEW b \in Callers, Receive(b)
  PROVE  HttpIInv'
<1> DEFINE r == exchange[b].response
           op == call[b].request.op
<1>1. HttpTypeOK /\ Told(b) /\ Exchanges(b)
  BY HttpIInvSplit
<1>2. /\ call \in [Callers -> CallRecords] /\ exchange \in [Callers -> ExchangeRecords]
      /\ verdict \in [Callers -> Statuses \cup {"none"}]
  BY <1>1, TypesOf
<1>3. /\ exchange' = Gone(b) /\ UNCHANGED verdict
      /\ call' = [call EXCEPT ![b] = Answered(@.request, r)]
  BY DEF Receive
<1>4. exchange[b].op = op /\ op \in Operations /\ Carries(b)
  BY <1>1, <1>2, RequestTypes DEF Receive, Exchanges, CallRecords
<1>5. r.status \in Statuses \cup {"none"} /\ Parsed(op, r) \in {"none", r.status}
  BY <1>2 DEF ExchangeRecords, Responses, Parsed
<1>6. /\ call' \in [Callers -> CallRecords] /\ call'[b].at = "answered"
      /\ call'[b].request = call[b].request
      /\ call'[b].status = r.status /\ call'[b].field = Parsed(op, r) /\ ~call'[b].again
      /\ \A c \in Callers \ {b} : call'[c] = call[c]
  BY <1>2, <1>3, <1>5 DEF CallRecords, Answered
<1>7. HttpTypeOK' /\ Frame(b)
  BY <1>1, <1>2, <1>3, <1>6, GoneStep DEF HttpTypeOK, CallRecords, ExchangeRecords, Frame
<1>8. Told(b)'
  <2>1. CASE verdict[b] \in Verdicts[op] /\ r = Visited(op, verdict[b])
    <3>1. verdict[b] # "none" /\ r.status = verdict[b]
      BY <1>4, <2>1, VerdictTypes, VerdictsAreParsed
    <3>2. Parsed(op, r) # "none" \/ (op \in Webhooks /\ r.status = "200")
      BY <1>4, <2>1, <3>1, VerdictsAreParsed
    <3>3. Understood(b)'
      BY <1>6, <3>2 DEF Understood
    <3> QED
      BY <1>1, <1>3, <1>4, <1>6, <3>1, <3>3, GoneStep DEF Told
  <2>2. CASE verdict[b] = "none" /\ r \in [status : {"400", "404"}, json : {FALSE}]
    <3>1. Parsed(op, r) = "none" /\ r.status # "200"
      BY <2>2 DEF Parsed
    <3>2. ~Understood(b)'
      BY <1>6, <3>1 DEF Understood
    <3> QED
      BY <1>3, <2>2, <3>2 DEF Told
  <2> QED
    BY <1>4, <2>1, <2>2 DEF Carries
<1>9. Exchanges(b)'
  BY <1>1, <1>3, <1>5, <1>6, GoneStep DEF Exchanges
<1> QED
  BY <1>7, <1>8, <1>9, FrameHolds

LEMMA RespondHolds ==
  ASSUME HttpIInv, NEW b \in Callers, NEW r \in Responses, Respond(b, r), UNCHANGED call,
         exchange[b].at \in {"request", "handling"},
         verdict' \in [Callers -> Statuses \cup {"none"}],
         \A c \in Callers \ {b} : verdict'[c] = verdict[c],
         \/ verdict'[b] \in Verdicts[exchange[b].op] /\ r = Visited(exchange[b].op, verdict'[b])
         \/ verdict'[b] = "none" /\ r \in [status : {"400", "404"}, json : {FALSE}]
  PROVE  HttpIInv'
<1>1. HttpTypeOK /\ Told(b) /\ Exchanges(b)
  BY HttpIInvSplit
<1>2. HttpTypeOK' /\ Frame(b)
  BY <1>1, RespondStep DEF HttpTypeOK, ExchangeRecords, Frame
<1>3. Told(b)' /\ Exchanges(b)'
  BY <1>1, RespondStep DEF Told, Exchanges, Carries
<1> QED
  BY <1>2, <1>3, FrameHolds

LEMMA ServeHolds ==
  ASSUME HttpIInv, NEW b \in Callers, Serve(b)
  PROVE  HttpIInv'
<1>1. HttpTypeOK /\ Told(b) /\ Exchanges(b)
  BY HttpIInvSplit
<1>2. /\ call \in [Callers -> CallRecords] /\ exchange \in [Callers -> ExchangeRecords]
      /\ verdict \in [Callers -> Statuses \cup {"none"}]
  BY <1>1, TypesOf
<1>3. exchange[b].at = "request" /\ verdict[b] = "none" /\ UNCHANGED <<call, verdict>>
  BY <1>1 DEF Serve, Exchanges
<1>4. CASE \E status \in {"400", "404"} : Refuse(b, status)
  <2>1. PICK r \in [status : {"400", "404"}, json : {FALSE}] : Respond(b, r)
    BY <1>4 DEF Refuse
  <2>2. r \in Responses
    BY <2>1 DEF Responses, Statuses
  <2> QED
    BY <1>2, <1>3, <2>1, <2>2, RespondHolds
<1>5. CASE \E op \in Routed(call[b].request) :
             /\ call[b].request.arg # "invalid"
             /\ exchange' = [exchange EXCEPT ![b].at = "handling", ![b].op = op]
  <2>1. /\ call[b].request.arg # "invalid"
        /\ exchange' = [exchange EXCEPT ![b].at = "handling", ![b].op = call[b].request.op]
    BY <1>2, <1>5, RoutedToItself DEF CallRecords
  <2>2. call[b].request.op \in Operations
    BY <1>2, RequestTypes DEF CallRecords
  <2>3. /\ exchange' \in [Callers -> ExchangeRecords] /\ exchange'[b].at = "handling"
        /\ exchange'[b].op = call[b].request.op
        /\ \A c \in Callers \ {b} : exchange'[c] = exchange[c]
    BY <1>2, <2>1, <2>2 DEF ExchangeRecords
  <2>4. HttpTypeOK' /\ Frame(b)
    BY <1>1, <1>3, <2>3 DEF HttpTypeOK, ExchangeRecords, Frame
  <2>5. Told(b)' /\ Exchanges(b)'
    BY <1>1, <1>3, <2>1, <2>3 DEF Told, Exchanges, Understood
  <2> QED
    BY <2>4, <2>5, FrameHolds
<1> QED
  BY <1>4, <1>5 DEF Serve

LEMMA ReturnsHolds ==
  ASSUME HttpIInv, NEW b \in Callers, NEW status \in Verdicts[exchange[b].op], Returns(b, status)
  PROVE  HttpIInv'
<1>1. exchange[b].op \in Operations /\ verdict \in [Callers -> Statuses \cup {"none"}]
  BY DEF HttpIInv, HttpTypeOK
<1>2. status \in Statuses /\ Visited(exchange[b].op, status) \in Responses
  BY <1>1, VerdictTypes
<1>3. /\ verdict' = [verdict EXCEPT ![b] = status]
      /\ Respond(b, Visited(exchange[b].op, status)) /\ UNCHANGED call
      /\ exchange[b].at = "handling"
  BY DEF Returns
<1> QED
  BY <1>1, <1>2, <1>3, RespondHolds

LEMMA ServerStopsHolds ==
  ASSUME HttpIInv, ServerStops
  PROVE  HttpIInv'
<1>1. HttpTypeOK /\ \A c \in Callers : Told(c) /\ Exchanges(c)
  BY HttpIInvSplit
<1>2. /\ UNCHANGED <<call, verdict>>
      /\ exchange' = [c \in Callers |->
           IF exchange[c].at \in {"request", "handling"} THEN Gone(c)[c] ELSE exchange[c]]
  BY DEF ServerStops
<1>3. \A c \in Callers : Gone(c)[c] \in ExchangeRecords /\ exchange[c] \in ExchangeRecords
  BY <1>1, TypesOf, GoneStep
<1>4. exchange' \in [Callers -> ExchangeRecords]
  BY <1>2, <1>3
<1>5. HttpTypeOK'
  BY <1>1, <1>2, <1>4 DEF HttpTypeOK, ExchangeRecords
<1>6. ASSUME NEW c \in Callers
      PROVE  Told(c)' /\ Exchanges(c)'
  <2>1. exchange'[c].op = exchange[c].op /\ (exchange'[c] = exchange[c] \/ exchange'[c].at = "none")
    BY <1>1, <1>2, GoneStep
  <2>2. Told(c) /\ Exchanges(c)
    BY <1>1
  <2> QED
    BY <1>2, <2>1, <2>2 DEF Told, Exchanges, Carries, Understood
<1> QED
  BY <1>5, <1>6 DEF HttpIInv, AnswersTell, Told

LEMMA HttpNextHolds ==
  ASSUME HttpIInv, [HttpNext]_httpVars
  PROVE  HttpIInv'
<1>1. CASE UNCHANGED httpVars
  <2>1. HttpTypeOK'
    BY <1>1 DEF httpVars, HttpIInv, HttpTypeOK
  <2>2. AnswersTell'
    BY <1>1 DEF httpVars, HttpIInv, AnswersTell, Understood
  <2>3. \A c \in Callers : Exchanges(c)'
    BY <1>1 DEF httpVars, HttpIInv, Exchanges, Carries, Understood
  <2> QED
    BY <2>1, <2>2, <2>3 DEF HttpIInv
<1>2. CASE HttpNext
  BY <1>2, ServerStopsHolds, CallHolds, ResendHolds, BreaksHolds, RequestLostHolds, ReceiveHolds, ServeHolds,
     ReturnsHolds DEF HttpNext
<1> QED
  BY <1>1, <1>2

-----------------------------------------------------------------------------
(* Theorems *)

\* The inductive invariant: an exchange is about the latest call, and carries its verdict.
THEOREM HttpIInvInvariant == HttpSpec => []HttpIInv
<1>1. HttpInit => HttpIInv
  BY HttpInitHolds
<1>2. HttpIInv /\ [HttpNext]_httpVars => HttpIInv'
  BY HttpNextHolds
<1> QED
  BY <1>1, <1>2, PTL DEF HttpSpec

\* From an answer a caller knows whether, and how, the handler has done what the call asked
\* (api.gen.go:869-1083, 1625-1797).
THEOREM AnswersAreVerdicts == HttpSpec => []AnswersTell
<1>1. HttpIInv => AnswersTell
  BY DEF HttpIInv
<1> QED
  BY <1>1, HttpIInvInvariant, PTL

\* No webhook and no CreateDisc is handled twice, nor after its answer, whatever is lost and
\* whoever dies.
THEOREM NothingIsRepeated == HttpSpec => HandledOnce
<1> DEFINE Once(c) == (verdict[c] # "none" \/ call[c].at = "answered") /\ ~Repeatable(call[c].request) =>
                        \/ verdict'[c] = verdict[c] /\ exchange'[c].at # "handling"
                        \/ call[c].at # "waiting" /\ call'[c].at = "waiting"
<1>1. ASSUME HttpIInv, HttpNext, NEW c \in Callers
      PROVE  Once(c)
  <2> SUFFICES ASSUME verdict[c] # "none" \/ call[c].at = "answered", ~Repeatable(call[c].request)
               PROVE  \/ verdict'[c] = verdict[c] /\ exchange'[c].at # "handling"
                      \/ call[c].at # "waiting" /\ call'[c].at = "waiting"
    OBVIOUS
  <2>1. exchange[c].at \notin {"request", "handling"} /\ HttpTypeOK /\ ~call[c].again
    BY <1>1, HttpIInvSplit DEF Exchanges
  <2>2. CASE ServerStops
    BY <2>1, <2>2, GoneStep DEF ServerStops
  <2>3. ASSUME NEW b \in Callers \ {c}, Frame(b)
        PROVE  verdict'[c] = verdict[c] /\ exchange'[c].at # "handling"
    BY <2>1, <2>3 DEF Frame
  <2>4. ASSUME NEW q \in Requests, Call(c, q)
        PROVE  call[c].at # "waiting" /\ call'[c].at = "waiting"
    BY <2>1, <2>4 DEF HttpTypeOK, Call, Begins
  <2>5. CASE Breaks(c) \/ RequestLost(c) \/ Receive(c)
    BY <2>1, <2>5, GoneStep DEF Breaks, RequestLost, Receive
  <2>6. ~Resend(c) /\ ~Serve(c) /\ \A status : ~Returns(c, status)
    BY <2>1 DEF Resend, Serve, Returns
  <2>7. ASSUME NEW b \in Callers \ {c},
               \/ \E q \in Requests : Call(b, q)
               \/ Resend(b) \/ Breaks(b) \/ RequestLost(b) \/ Receive(b) \/ Serve(b)
               \/ \E status \in Verdicts[exchange[b].op] : Returns(b, status)
        PROVE  verdict'[c] = verdict[c] /\ exchange'[c] = exchange[c]
    BY <2>1, <2>7, GoneStep
       DEF HttpTypeOK, Call, Sends, Resend, Breaks, RequestLost, Receive, Serve, Returns, Refuse, Respond
  <2> QED
    BY <1>1, <2>1, <2>2, <2>4, <2>5, <2>6, <2>7 DEF HttpNext
<1>2. HttpIInv /\ HttpIInv' /\ [HttpNext]_httpVars => [\A c \in Callers : Once(c)]_httpVars
  BY <1>1
<1> QED
  BY <1>2, HttpIInvInvariant, PTL DEF HttpSpec, HandledOnce
=============================================================================
