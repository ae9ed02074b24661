-------------------------- MODULE DiscServerProofs --------------------------
(* Proofs of the safety properties of DiscServer. *)
EXTENDS DiscServer, TLAPS

-----------------------------------------------------------------------------
(* Steps of runs, which all requests watch. *)

\* If a run keeps what requests know of it, no request is told something false.
LEMMA WatchedKeeps ==
  ASSUME IInv, TypeOK', Runs', UNCHANGED request, Watched, count <= count',
         \A i \in Number : i <= count =>
           /\ run[i].status \in {"failed", "deleted"} => run'[i].status \in {"failed", "deleted"}
           /\ run[i].status = "deleted" => run'[i].status = "deleted"
           /\ run'[i].status = "deleted" \/ run'[i].state = run[i].state \/ run'[i].state = Latest'
  PROVE  IInv'
<1> USE DEF IInv
<1>1. ASSUME NEW r \in Requests
      PROVE  /\ request'[r] = request[r] /\ Pending(r)' = Pending(r)
             /\ seen[r] \subseteq seen'[r]
             /\ Pending(r) => Latest' \in seen'[r]
  BY DEF Watched, Pending, TypeOK
<1>2. ASSUME NEW r \in Requests
      PROVE  request[r].run \in 0..count /\ 0..count \subseteq 0..MaxRuns
  BY MaxRunsAssumption DEF Truthful, TypeOK, Request
<1>3. Truthful'
  <2> SUFFICES ASSUME NEW r \in Requests
               PROVE  /\ Pending(r)' => Latest' \in seen'[r]
                      /\ request'[r].run <= count'
                      /\ request'[r].at = "getting" =>
                           /\ run'[request'[r].run].status \in {"failed", "deleted"}
                           /\ "failed" \in seen'[r]
                      /\ request'[r].at = "querying" =>
                           \/ run'[request'[r].run].status = "deleted"
                           \/ run'[request'[r].run].state \in seen'[r]
    BY DEF Truthful
  <2> DEFINE i == request[r].run
  <2>1. Pending(r)' => Latest' \in seen'[r]
    BY <1>1
  <2>2. request'[r].run <= count'
    BY <1>1, <1>2 DEF TypeOK
  <2>3. request[r].at \in {"getting", "querying"} => i \in Number /\ i <= count /\ Pending(r)
    BY <1>2 DEF TypeOK, Number, Pending
  <2>4. ASSUME request[r].at = "getting"
        PROVE  run'[i].status \in {"failed", "deleted"} /\ "failed" \in seen'[r]
    BY <1>1, <2>3, <2>4 DEF Truthful
  <2>5. ASSUME request[r].at = "querying"
        PROVE  run'[i].status = "deleted" \/ run'[i].state \in seen'[r]
    <3>1. run[i].status = "deleted" \/ run[i].state \in seen[r]
      BY <2>5 DEF Truthful
    <3> QED BY <3>1, <1>1, <2>3, <2>5
  <2> QED BY <1>1, <2>1, <2>2, <2>4, <2>5
<1>4. AnswersAreTrue'
  <2> SUFFICES ASSUME NEW r \in Requests, ~Pending(r)
               PROVE  \/ request[r].answer \in seen'[r] \cup {"none", "400", "500", "panic"}
                      \/ /\ request[r].answer = "404" /\ request[r].run # 0
                         /\ run'[request[r].run].status = "deleted"
    BY <1>1 DEF AnswersAreTrue
  <2>1. request[r].run # 0 => request[r].run \in Number /\ request[r].run <= count
    BY <1>2 DEF Number, TypeOK
  <2> QED BY <1>1, <2>1 DEF AnswersAreTrue
<1>5. NeverPanics'
  BY DEF NeverPanics
<1> QED BY <1>3, <1>4, <1>5

LEMMA CreateDiscKeeps == IInv /\ CreateDisc => IInv'
<1> SUFFICES ASSUME IInv, CreateDisc PROVE IInv'
  OBVIOUS
<1> DEFINE new == [status |-> "running", state |-> "running"]
<1>1. count \in 0..MaxRuns /\ count + 1 \in Number /\ count' = count + 1
  BY MaxRunsAssumption DEF IInv, TypeOK, CreateDisc, Number
<1>2. run' = [run EXCEPT ![count + 1] = new] /\ run \in [Number -> Run] /\ new \in Run
  BY DEF IInv, TypeOK, CreateDisc, Run, States
<1>3. run'[count'] = new /\ \A i \in Number : i <= count => run'[i] = run[i]
  BY <1>1, <1>2
<1>4. Latest' \in Answers
  BY <1>1, <1>3 DEF Latest, Answers, States
<1>5. TypeOK'
  <2>1. count' \in 0..MaxRuns
    BY <1>1, MaxRunsAssumption DEF Number
  <2>2. run' \in [Number -> Run]
    BY <1>2
  <2>3. seen' \in [Requests -> SUBSET Answers]
    BY <1>4 DEF IInv, TypeOK, CreateDisc, Watched
  <2> QED BY <2>1, <2>2, <2>3 DEF IInv, TypeOK, CreateDisc
<1>6. Runs'
  <2>1. count # 0 => count \in Number /\ run[count].status # "running"
    BY <1>1, MaxRunsAssumption DEF IInv, TypeOK, CreateDisc, Number
  <2>2. \A i \in Number : i # count + 1 => run'[i] = run[i]
    BY <1>2
  <2>3. ASSUME NEW i \in Number
        PROVE  /\ i <= count + 1 => run'[i].status # "none"
               /\ run'[i].status = "running" => i = count + 1
    <3>1. CASE i = count + 1
      BY <1>1, <1>3, <3>1
    <3>2. CASE i # count + 1
      BY <1>1, <2>1, <2>2, <3>2 DEF IInv, Runs, Number
    <3> QED BY <3>1, <3>2
  <2> QED BY <1>1, <2>3 DEF Runs
<1> QED BY <1>1, <1>3, <1>5, <1>6, WatchedKeeps DEF CreateDisc

\* The latest run goes on, and is what GetDisc would show.
LEMMA AdvancesKeeps == ASSUME NEW i \in Number PROVE IInv /\ Advances(i) => IInv'
<1> SUFFICES ASSUME IInv, Advances(i) PROVE IInv'
  OBVIOUS
<1>1. i = count /\ count # 0 /\ count' = count /\ run[i].status = "running"
  BY MaxRunsAssumption DEF IInv, TypeOK, Runs, Advances, Number
<1>2. run \in [Number -> Run] /\ Following(run[i].state) \in States
  BY DEF IInv, TypeOK, Following, States
<1>3. /\ run'[i].state = Following(run[i].state)
      /\ run'[i].status \in {"running", "completed"}
      /\ run' \in [Number -> Run]
      /\ \A j \in Number : j # i => run'[j] = run[j]
  BY <1>1, <1>2 DEF Advances, Run
<1>4. Latest' = run'[i].state
  BY <1>1, <1>3 DEF Latest
<1>5. TypeOK'
  <2>1. Latest' \in Answers
    BY <1>2, <1>3, <1>4 DEF Answers
  <2>2. seen' \in [Requests -> SUBSET Answers]
    BY <2>1 DEF IInv, TypeOK, Advances, Watched
  <2> QED BY <1>1, <1>3, <2>2 DEF IInv, TypeOK, Advances
<1>6. Runs'
  BY <1>1, <1>3 DEF IInv, Runs
<1>7. \A j \in Number : j <= count =>
        /\ run[j].status \in {"failed", "deleted"} => run'[j].status \in {"failed", "deleted"}
        /\ run[j].status = "deleted" => run'[j].status = "deleted"
        /\ run'[j].status = "deleted" \/ run'[j].state = run[j].state \/ run'[j].state = Latest'
  BY <1>1, <1>3, <1>4
<1>8. UNCHANGED request /\ Watched /\ count <= count'
  BY <1>1 DEF Advances, IInv, TypeOK
<1> QED BY <1>5, <1>6, <1>7, <1>8, WatchedKeeps

\* A run closes or is deleted: its State stays what it was.
LEMMA ClosingKeeps ==
  ASSUME NEW i \in Number, NEW s \in {"failed", "deleted"}, IInv,
         run[i].status # "deleted", s = "failed" => run[i].status = "running",
         run' = [run EXCEPT ![i].status = s], UNCHANGED <<count, request>>, Watched
  PROVE  IInv'
<1>1. run \in [Number -> Run]
  BY DEF IInv, TypeOK
<1>2. /\ run'[i].status = s /\ run'[i].state = run[i].state
      /\ run' \in [Number -> Run]
      /\ \A j \in Number : j # i => run'[j] = run[j]
  BY <1>1 DEF Run
<1>3. Latest' \in Answers
  <2>1. count = 0 \/ count \in Number
    BY MaxRunsAssumption DEF IInv, TypeOK, Number
  <2>2. count \in Number => run'[count] \in Run
    BY <1>2
  <2> QED BY <2>1, <2>2 DEF Latest, Answers, Run, States
<1>4. TypeOK'
  <2>1. seen' \in [Requests -> SUBSET Answers]
    BY <1>3 DEF IInv, TypeOK, Watched
  <2> QED BY <1>2, <2>1 DEF IInv, TypeOK
<1>5. Runs'
  BY <1>2 DEF IInv, Runs
<1>6. \A j \in Number : j <= count =>
        /\ run[j].status \in {"failed", "deleted"} => run'[j].status \in {"failed", "deleted"}
        /\ run[j].status = "deleted" => run'[j].status = "deleted"
        /\ run'[j].status = "deleted" \/ run'[j].state = run[j].state \/ run'[j].state = Latest'
  BY <1>2
<1>7. count <= count'
  BY DEF IInv, TypeOK
<1> QED BY <1>4, <1>5, <1>6, <1>7, WatchedKeeps

-----------------------------------------------------------------------------
(* Steps of one request. *)

\* The handler of a request answers, with what was true.
LEMMA AnswerKeeps ==
  ASSUME NEW r \in Requests, NEW a \in Answers, IInv, Answer(r, a), a # "panic",
         \/ a \in seen[r] \cup {"400", "500"}
         \/ a = "404" /\ request[r].run # 0 /\ run[request[r].run].status = "deleted"
  PROVE  IInv'
<1>1. /\ request \in [Requests -> Request]
      /\ request' = [request EXCEPT ![r].at = "done", ![r].answer = a]
      /\ UNCHANGED <<count, run, seen>>
  BY DEF IInv, TypeOK, Answer
<1>2. /\ request'[r].at = "done" /\ request'[r].answer = a /\ request'[r].run = request[r].run
      /\ request' \in [Requests -> Request]
      /\ \A q \in Requests : q # r => request'[q] = request[q]
  BY <1>1 DEF Request
<1>3. Latest' = Latest
  BY <1>1 DEF Latest
<1>4. TypeOK'
  BY <1>1, <1>2 DEF IInv, TypeOK
<1>5. Truthful'
  BY <1>1, <1>2, <1>3 DEF IInv, Truthful, Pending
<1>6. AnswersAreTrue'
  BY <1>1, <1>2 DEF IInv, AnswersAreTrue, Pending
<1>7. NeverPanics'
  BY <1>2 DEF IInv, NeverPanics
<1>8. Runs'
  BY <1>1 DEF IInv, Runs
<1> QED BY <1>4, <1>5, <1>6, <1>7, <1>8 DEF IInv

LEMMA LatestIsAnAnswer == TypeOK => Latest \in Answers
<1> SUFFICES ASSUME TypeOK PROVE Latest \in Answers
  OBVIOUS
<1>1. count = 0 \/ count \in Number
  BY MaxRunsAssumption DEF TypeOK, Number
<1>2. count \in Number => run[count] \in Run
  BY DEF TypeOK
<1> QED BY <1>1, <1>2 DEF Latest, Answers, Run, States

LEMMA ReceiveKeeps == ASSUME NEW r \in Requests PROVE IInv /\ Receive(r) => IInv'
<1> SUFFICES ASSUME IInv, Receive(r) PROVE IInv'
  OBVIOUS
<1>1. CASE Answer(r, "400")
  BY <1>1, AnswerKeeps DEF Answers
<1>2. CASE /\ request' = [request EXCEPT ![r] = [at |-> "received", run |-> 0, answer |-> "none"]]
           /\ seen' = [seen EXCEPT ![r] = {Latest}]
           /\ UNCHANGED <<count, run>>
  <2>1. /\ request'[r] = [at |-> "received", run |-> 0, answer |-> "none"]
        /\ seen'[r] = {Latest}
        /\ \A q \in Requests : q # r => request'[q] = request[q] /\ seen'[q] = seen[q]
    BY <1>2 DEF IInv, TypeOK
  <2>2. Latest' = Latest
    BY <1>2 DEF Latest
  <2>3. TypeOK'
    <3>1. seen' \in [Requests -> SUBSET Answers]
      BY <1>2, LatestIsAnAnswer DEF IInv, TypeOK
    <3>2. [at |-> "received", run |-> 0, answer |-> "none"] \in Request
      BY MaxRunsAssumption DEF Request
    <3>3. request' \in [Requests -> Request]
      BY <1>2, <3>2 DEF IInv, TypeOK
    <3> QED BY <1>2, <2>1, <3>1, <3>3 DEF IInv, TypeOK
  <2>4. Truthful'
    <3>1. 0 <= count
      BY DEF IInv, TypeOK
    <3> QED BY <1>2, <2>1, <2>2, <3>1 DEF IInv, Truthful, Pending
  <2>5. AnswersAreTrue'
    BY <1>2, <2>1 DEF IInv, AnswersAreTrue, Pending
  <2>6. NeverPanics' /\ Runs'
    BY <1>2, <2>1 DEF IInv, NeverPanics, Runs
  <2> QED BY <2>3, <2>4, <2>5, <2>6 DEF IInv
<1> QED BY <1>1, <1>2 DEF Receive

LEMMA DescribeKeeps == ASSUME NEW r \in Requests PROVE IInv /\ Describe(r) => IInv'
<1> SUFFICES ASSUME IInv, Describe(r) PROVE IInv'
  OBVIOUS
<1>1. Pending(r) /\ Latest \in seen[r]
  BY DEF Describe, Pending, IInv, Truthful
<1>2. CASE Answer(r, "500")
  BY <1>2, AnswerKeeps DEF Answers
<1>3. CASE Latest = "404" /\ Answer(r, "404")
  BY <1>1, <1>3, AnswerKeeps DEF Answers
<1>4. CASE Latest # "404" /\ Described(r)
  <2>1. count \in Number /\ run[count] \in Run /\ count # 0 /\ run[count].status # "deleted"
    BY <1>4, MaxRunsAssumption DEF IInv, TypeOK, Latest, Number
  <2>2. /\ request'[r].at = SecondCall(run[count].status) /\ request'[r].run = count
        /\ request'[r].answer = request[r].answer
        /\ request' \in [Requests -> Request]
        /\ \A q \in Requests : q # r => request'[q] = request[q]
    BY <1>4, <2>1 DEF IInv, TypeOK, Described, SecondCall, Request, Number
  <2>3. UNCHANGED <<count, run, seen>> /\ Latest' = Latest
    BY <1>4 DEF Described, Latest
  <2>4. TypeOK'
    BY <2>1, <2>2, <2>3 DEF IInv, TypeOK
  <2>5. request'[r].at = "getting" => run[count].status = "failed" /\ Latest = "failed"
    BY <2>1, <2>2 DEF SecondCall, Latest
  <2>6. request'[r].at = "querying" => Latest = run[count].state
    BY <2>1, <2>2 DEF SecondCall, Latest
  <2>7. request'[r].at \in {"getting", "querying"}
    BY <2>2 DEF SecondCall
  <2>8. Truthful'
    BY <1>1, <2>1, <2>2, <2>3, <2>5, <2>6 DEF IInv, TypeOK, Truthful, Pending
  <2>9. AnswersAreTrue'
    BY <2>2, <2>3, <2>7 DEF IInv, AnswersAreTrue, Pending
  <2>10. NeverPanics' /\ Runs'
    BY <2>2, <2>3 DEF IInv, NeverPanics, Runs
  <2> QED BY <2>4, <2>8, <2>9, <2>10 DEF IInv
<1> QED BY <1>2, <1>3, <1>4 DEF Describe

\* A run that failed is still known to have failed, if it is known.
LEMMA GetKeeps == ASSUME NEW r \in Requests PROVE IInv /\ Get(r) => IInv'
<1> SUFFICES ASSUME IInv, Get(r) PROVE IInv'
  OBVIOUS
<1>1. run[request[r].run].status \in {"failed", "deleted"} /\ "failed" \in seen[r]
  BY DEF Get, IInv, Truthful
<1>2. Answer(r, "failed")
  BY <1>1 DEF Get, FirstRunId
<1> QED BY <1>1, <1>2, AnswerKeeps DEF Answers

LEMMA QueryKeeps == ASSUME NEW r \in Requests PROVE IInv /\ Query(r) => IInv'
<1> SUFFICES ASSUME IInv, Query(r) PROVE IInv'
  OBVIOUS
<1> DEFINE i == request[r].run
<1>1. i \in Number /\ i # 0 /\ run[i] \in Run
  BY MaxRunsAssumption DEF Query, IInv, TypeOK, Request, Number
<1>2. run[i].status = "deleted" \/ run[i].state \in seen[r]
  BY DEF Query, IInv, Truthful
<1>3. CASE Answer(r, "500")
  BY <1>3, AnswerKeeps DEF Answers
<1>4. CASE Answer(r, IF run[i].status = "deleted" THEN "404" ELSE run[i].state)
  <2>1. CASE run[i].status = "deleted"
    BY <1>1, <1>4, <2>1, AnswerKeeps DEF Answers
  <2>2. CASE run[i].status # "deleted"
    <3>1. run[i].state \in Answers /\ run[i].state # "panic"
      BY <1>1 DEF Run, States, Answers
    <3> QED BY <1>2, <1>4, <2>2, <3>1, AnswerKeeps
  <2> QED BY <2>1, <2>2
<1> QED BY <1>3, <1>4 DEF Query, FirstRunId

-----------------------------------------------------------------------------
(* The invariant and what follows from it. *)

LEMMA InitIInv == Init => IInv
<1> SUFFICES ASSUME Init PROVE IInv
  OBVIOUS
<1>1. TypeOK
  BY MaxRunsAssumption DEF Init, TypeOK, Run, States, Request, Answers
<1>2. Runs /\ Truthful
  BY DEF Init, Runs, Truthful, Pending, Number
<1>3. AnswersAreTrue /\ NeverPanics
  BY DEF Init, AnswersAreTrue, NeverPanics
<1> QED BY <1>1, <1>2, <1>3 DEF IInv

LEMMA NextIInv == IInv /\ [Next]_vars => IInv'
<1> SUFFICES ASSUME IInv, [Next]_vars PROVE IInv'
  OBVIOUS
<1>1. CASE CreateDisc
  BY <1>1, CreateDiscKeeps
<1>2. ASSUME NEW i \in Number, Advances(i)
      PROVE  IInv'
  BY <1>2, AdvancesKeeps
<1>3. ASSUME NEW i \in Number, Fails(i)
      PROVE  IInv'
  BY <1>3, ClosingKeeps DEF Fails
<1>4. ASSUME NEW i \in Number, Expires(i)
      PROVE  IInv'
  BY <1>4, ClosingKeeps DEF Expires
<1>5. ASSUME NEW r \in Requests, Receive(r) \/ GetDisc(r)
      PROVE  IInv'
  BY <1>5, ReceiveKeeps, DescribeKeeps, GetKeeps, QueryKeeps DEF GetDisc
<1>6. CASE UNCHANGED vars
  BY <1>6 DEF vars, IInv, TypeOK, Runs, Truthful, AnswersAreTrue, NeverPanics, Pending, Latest
<1> QED BY <1>1, <1>2, <1>3, <1>4, <1>5, <1>6 DEF Next

\* The inductive invariant: the runs that handlers know are closed for good, or
\* have the state they had when they were described, or a later one.
THEOREM IInvInvariant == Spec => []IInv
BY InitIInv, NextIInv, PTL DEF Spec

\* The variables of GetDisc keep to their types (server.go:172-270), and a handler
\* that makes its second call knows a run.
THEOREM TypeCorrect == Spec => []TypeOK
<1>1. IInv => TypeOK
  BY DEF IInv
<1> QED BY <1>1, IInvInvariant, PTL

\* GetDisc is atomic for its clients, although it makes two calls (server.go:176, 214).
THEOREM AnswersOfOneCall == Spec => []AnswersAreTrue
<1>1. IInv => AnswersAreTrue
  BY DEF IInv
<1> QED BY <1>1, IInvInvariant, PTL

\* The handler never calls Error on nil (server.go:196-197).
THEOREM ErrorsAreThere == Spec => []NeverPanics
<1>1. IInv => NeverPanics
  BY DEF IInv
<1> QED BY <1>1, IInvInvariant, PTL

\* The call for the outcome of a run neither waits for a run that goes on nor comes back with
\* no error (server.go:196-197), for any number of runs and requests.
THEOREM GetsAreOfFailedRuns == Spec => []GetsAnError
<1>1. IInv => GetsAnError
  BY DEF IInv, Truthful, GetsAnError, FirstRunId
<1> QED BY <1>1, IInvInvariant, PTL
=============================================================================
