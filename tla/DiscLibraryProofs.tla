-------------------------- MODULE DiscLibraryProofs --------------------------
(***************************************************************************)
(* Theorems about DiscLibrary, for any UUIDs, paths and discs, and any     *)
(* bounds on runs and handlers.                                            *)
(***************************************************************************)
EXTENDS DiscLibrary, FiniteSetTheorems, TLAPS

USE DEF Moving, Running, MaximumAttempts

LEMMA InitHolds == Init => IInv
<1> SUFFICES ASSUME Init PROVE IInv
  OBVIOUS
<1>1. TypeOK
  BY LibraryAssumption DEF Init, TypeOK, NoRun, Run
<1>2. OnePlace /\ Runs /\ HandlersOfRuns /\ HandlersOfAttempts /\ Movers /\ MovedByThisRun
  BY LibraryAssumption DEF Init, NoRun, OnePlace, Runs, HandlersOfRuns, HandlersOfAttempts, Movers, MovedByThisRun
<1> QED
  BY <1>1, <1>2 DEF IInv

-----------------------------------------------------------------------------
(* Steps that move nothing *)

\* What a step that leaves the directories alone must say of the runs.
Continues(v) ==
  /\ \A u \in UUIDs \ {v} : run'[u] = run[u]
  /\ run'[v].number >= run[v].number
  /\ run'[v].number = run[v].number =>
       /\ run'[v].path = run[v].path
       /\ run'[v].attempt >= run[v].attempt
       /\ run'[v].status = "scheduled" => run'[v].attempt > run[v].attempt
  /\ run'[v].path # None /\ run'[v].number # 0 /\ run'[v].attempt # 0
  /\ run'[v].status = "moved" => library[v] # None /\ mover[v] = run'[v].number

LEMMA ContinuesHolds ==
  ASSUME IInv, NEW v \in UUIDs, Continues(v), TypeOK', handlers' \subseteq handlers,
         UNCHANGED <<inbox, library, mover>>
  PROVE  IInv'
<1>1. \A u \in UUIDs : /\ run[u].number \in Nat /\ run'[u].number \in Nat /\ mover[u] \in Nat
                       /\ run[u].attempt \in Nat /\ run'[u].attempt \in Nat
  BY LibraryAssumption DEF IInv, TypeOK, Run
<1>2. \A h \in handlers : h.uuid \in UUIDs /\ h.number \in Nat /\ h.attempt \in Nat
  BY LibraryAssumption DEF IInv, TypeOK, Handler
<1>3. OnePlace'
  BY DEF IInv, OnePlace
<1>4. Runs'
  BY DEF IInv, Runs, Continues
<1>5. HandlersOfRuns'
  <2> SUFFICES ASSUME NEW h \in handlers
               PROVE  /\ h.number <= run'[h.uuid].number
                      /\ h.number = run'[h.uuid].number => h.path = run'[h.uuid].path
    BY DEF HandlersOfRuns
  <2>1. /\ h.number <= run[h.uuid].number
        /\ h.number = run[h.uuid].number => h.path = run[h.uuid].path
    BY DEF IInv, HandlersOfRuns
  <2> QED
    BY <1>1, <1>2, <2>1 DEF Continues
<1>8. HandlersOfAttempts'
  <2>1. ASSUME NEW h \in handlers, h.number = run'[h.uuid].number
        PROVE  /\ h.attempt <= run'[h.uuid].attempt
               /\ run'[h.uuid].status = "scheduled" => h.attempt < run'[h.uuid].attempt
    <3>1. /\ h.number <= run[h.uuid].number
          /\ h.number = run[h.uuid].number =>
               /\ h.attempt <= run[h.uuid].attempt
               /\ run[h.uuid].status = "scheduled" => h.attempt < run[h.uuid].attempt
      BY DEF IInv, HandlersOfRuns, HandlersOfAttempts
    <3>2. CASE h.uuid # v
      BY <1>2, <2>1, <3>1, <3>2 DEF Continues
    <3>3. CASE h.uuid = v
      <4>1. h.number = run[v].number
        BY <1>1, <1>2, <2>1, <3>1, <3>3 DEF Continues
      <4> QED
        BY <1>1, <1>2, <2>1, <3>1, <3>3, <4>1 DEF Continues
    <3> QED
      BY <3>2, <3>3
  <2>2. \A g, h \in handlers' :
          g.uuid = h.uuid /\ g.number = h.number /\ g.attempt = h.attempt => g = h
    BY DEF IInv, HandlersOfAttempts
  <2> QED
    BY <2>1, <2>2 DEF HandlersOfAttempts
<1>6. Movers'
  <2>1. \A u \in UUIDs : mover[u] <= run'[u].number
    BY <1>1 DEF IInv, Movers, Continues
  <2> QED
    BY <2>1 DEF IInv, Movers
<1>7. MovedByThisRun'
  BY DEF IInv, MovedByThisRun, Continues
<1> QED
  BY <1>3, <1>4, <1>5, <1>6, <1>7, <1>8 DEF IInv

LEMMA ArrivesHolds ==
  ASSUME IInv, NEW d \in Discs, NEW p \in Paths, Arrives(d, p)
  PROVE  IInv'
<1>1. TypeOK'
  BY DEF IInv, TypeOK, Arrives
<1>2. OnePlace'
  BY LibraryAssumption DEF IInv, TypeOK, Arrives, Arrived, OnePlace
<1>3. Runs' /\ HandlersOfRuns' /\ HandlersOfAttempts' /\ Movers' /\ MovedByThisRun'
  BY DEF IInv, Arrives, Runs, HandlersOfRuns, HandlersOfAttempts, Movers, MovedByThisRun
<1> QED
  BY <1>1, <1>2, <1>3 DEF IInv

LEMMA CreateDiscHolds ==
  ASSUME IInv, NEW u \in UUIDs, NEW p \in Paths, NEW o \in Outcomes, CreateDisc(u, p, o)
  PROVE  IInv'
<1>1. CASE UNCHANGED run
  <2>1. TypeOK'
    BY <1>1 DEF IInv, TypeOK, CreateDisc
  <2>2. OnePlace' /\ Runs' /\ HandlersOfRuns' /\ HandlersOfAttempts' /\ Movers' /\ MovedByThisRun'
    BY <1>1 DEF CreateDisc, IInv, OnePlace, Runs, HandlersOfRuns, HandlersOfAttempts, Movers, MovedByThisRun
  <2> QED
    BY <2>1, <2>2 DEF IInv
<1>2. CASE ~UNCHANGED run
  <2>1. /\ run[u].number < MaxRuns
        /\ run' = [run EXCEPT ![u] = [number |-> run[u].number + 1, path |-> p,
                                      status |-> "scheduled", attempt |-> 1]]
    BY <1>2 DEF CreateDisc, ExecuteWorkflow
  <2>2. run[u] \in Run /\ run \in [UUIDs -> Run]
    BY DEF IInv, TypeOK
  <2>3. run[u].number + 1 \in 0..MaxRuns
    BY <2>1, <2>2, LibraryAssumption DEF Run
  <2>4. [number |-> run[u].number + 1, path |-> p, status |-> "scheduled", attempt |-> 1] \in Run
    BY <2>3 DEF Run
  <2>5. TypeOK'
    BY <2>1, <2>2, <2>4 DEF IInv, TypeOK, CreateDisc
  <2>6. run'[u] = [number |-> run[u].number + 1, path |-> p, status |-> "scheduled", attempt |-> 1]
    BY <2>1, <2>2
  <2>7. Continues(u)
    BY <2>1, <2>2, <2>6, LibraryAssumption DEF Run, Continues
  <2> QED
    BY <2>5, <2>7, ContinuesHolds DEF CreateDisc
<1> QED
  BY <1>1, <1>2

LEMMA AttemptFailsStep ==
  ASSUME IInv, NEW u \in UUIDs, run[u].status = "started", AttemptFails(u)
  PROVE  run' \in [UUIDs -> Run] /\ Continues(u)
<1>1. run \in [UUIDs -> Run] /\ run[u] \in Run
  BY DEF IInv, TypeOK
<1>2. run[u].path # None /\ run[u].number # 0 /\ run[u].attempt # 0
  BY DEF IInv, Runs
<1>3. run' = [run EXCEPT ![u] = run'[u]]
  BY <1>1 DEF AttemptFails
<1>4. /\ run'[u].number = run[u].number /\ run'[u].path = run[u].path
      /\ run'[u].status # "moved" /\ run'[u].attempt # 0 /\ run'[u] \in Run
      /\ run'[u].attempt >= run[u].attempt
      /\ run'[u].status = "scheduled" => run'[u].attempt > run[u].attempt
  BY <1>1, <1>2 DEF AttemptFails, Run
<1> QED
  BY <1>1, <1>2, <1>3, <1>4 DEF Continues, Run

LEMMA TimesOutHolds ==
  ASSUME IInv, NEW u \in UUIDs, TimesOut(u)
  PROVE  IInv'
<1>1. run' \in [UUIDs -> Run] /\ Continues(u)
  BY AttemptFailsStep DEF TimesOut
<1>2. TypeOK'
  BY <1>1 DEF IInv, TypeOK, TimesOut
<1> QED
  BY <1>1, <1>2, ContinuesHolds DEF TimesOut

LEMMA ClosesHolds ==
  ASSUME IInv, NEW u \in UUIDs, Closes(u)
  PROVE  IInv'
<1>1. run \in [UUIDs -> Run] /\ run[u] \in Run
  BY DEF IInv, TypeOK
<1>2. run'[u] = [run[u] EXCEPT !.status = "closed"] /\ \A v \in UUIDs \ {u} : run'[v] = run[v]
  BY <1>1 DEF Closes
<1>3. TypeOK'
  BY <1>1 DEF IInv, TypeOK, Closes, Run
<1>4. Continues(u)
  BY <1>1, <1>2 DEF IInv, Runs, Closes, Continues, Run
<1> QED
  BY <1>3, <1>4, ContinuesHolds DEF Closes

LEMMA CrashesHolds ==
  ASSUME IInv, NEW h \in handlers, Crashes(h)
  PROVE  IInv'
<1>1. TypeOK'
  BY DEF IInv, TypeOK, Crashes
<1>2. OnePlace' /\ Runs' /\ HandlersOfRuns' /\ HandlersOfAttempts' /\ Movers' /\ MovedByThisRun'
  BY DEF Crashes, IInv, OnePlace, Runs, HandlersOfRuns, HandlersOfAttempts, Movers, MovedByThisRun
<1> QED
  BY <1>1, <1>2 DEF IInv

\* Only the result of the attempt that is started now counts: a run is "moved" by
\* its own handler.
LEMMA ReportsHolds ==
  ASSUME IInv, NEW h \in handlers, Reports(h)
  PROVE  IInv'
<1>1. run \in [UUIDs -> Run] /\ h \in Handler /\ h.uuid \in UUIDs /\ run[h.uuid] \in Run
  BY DEF IInv, TypeOK, Handler
<1>2. handlers' \subseteq handlers /\ UNCHANGED <<inbox, library, mover, created>>
  BY DEF Reports
<1>3. CASE ~Current(h)
  <2>1. UNCHANGED run
    BY <1>3 DEF Reports
  <2>2. TypeOK'
    BY <1>2, <2>1 DEF IInv, TypeOK
  <2>3. OnePlace' /\ Runs' /\ HandlersOfRuns' /\ HandlersOfAttempts' /\ Movers' /\ MovedByThisRun'
    BY <1>2, <2>1 DEF IInv, OnePlace, Runs, HandlersOfRuns, HandlersOfAttempts, Movers, MovedByThisRun
  <2> QED
    BY <2>2, <2>3 DEF IInv
<1>4. CASE Current(h) /\ h.outcome = "renamed"
  <2>1. run' = [run EXCEPT ![h.uuid].status = "moved"]
    BY <1>4 DEF Reports
  <2>2. run'[h.uuid] = [run[h.uuid] EXCEPT !.status = "moved"]
        /\ \A v \in UUIDs \ {h.uuid} : run'[v] = run[v]
    BY <1>1, <2>1
  <2>3. TypeOK'
    BY <1>1, <1>2, <2>1 DEF IInv, TypeOK, Run
  <2>4. mover[h.uuid] = run[h.uuid].number /\ h.number # 0
    BY <1>1, <1>4, LibraryAssumption DEF IInv, Movers, Current, Handler
  <2>5. library[h.uuid] # None
    BY <1>1, <1>4, <2>4 DEF IInv, Movers
  <2>6. Continues(h.uuid)
    BY <1>1, <1>4, <2>2, <2>4, <2>5 DEF IInv, Runs, Continues, Run, Current
  <2> QED
    BY <1>1, <1>2, <2>3, <2>6, ContinuesHolds
<1>5. CASE Current(h) /\ h.outcome # "renamed"
  <2>1. AttemptFails(h.uuid) /\ run[h.uuid].status = "started"
    BY <1>5 DEF Reports, Current
  <2>2. run' \in [UUIDs -> Run] /\ Continues(h.uuid)
    BY <1>1, <2>1, AttemptFailsStep
  <2>3. TypeOK'
    BY <1>2, <2>2 DEF IInv, TypeOK
  <2> QED
    BY <1>1, <1>2, <2>2, <2>3, ContinuesHolds
<1> QED
  BY <1>3, <1>4, <1>5

-----------------------------------------------------------------------------
(* RenameFile *)

LEMMA StartAttemptHolds ==
  ASSUME IInv, NEW u \in UUIDs, StartAttempt(u)
  PROVE  IInv'
<1> DEFINE new == [uuid |-> u, number |-> run[u].number, attempt |-> run[u].attempt,
                   path |-> run[u].path, outcome |-> "called"]
<1>1. run \in [UUIDs -> Run] /\ run[u] \in Run /\ run[u].status = "scheduled"
  BY DEF IInv, TypeOK, StartAttempt
<1>2. run[u].path # None /\ run[u].number # 0 /\ run[u].attempt # 0
  BY <1>1 DEF IInv, Runs
<1>3. new \in Handler
  BY <1>1, <1>2, LibraryAssumption DEF Handler, Run
<1>4. /\ run' = [run EXCEPT ![u].status = "started"] /\ handlers' = handlers \cup {new}
      /\ UNCHANGED <<inbox, library, mover, created>>
  BY DEF StartAttempt
<1>5. TypeOK'
  BY <1>1, <1>3, <1>4 DEF IInv, TypeOK, Run
<1>6. \A v \in UUIDs : /\ run'[v].number = run[v].number /\ run'[v].path = run[v].path
                       /\ run'[v].attempt = run[v].attempt
                       /\ run'[v].status = IF v = u THEN "started" ELSE run[v].status
  BY <1>1, <1>4 DEF Run
<1>7. OnePlace'
  BY <1>4 DEF IInv, OnePlace
<1>8. Runs'
  BY <1>1, <1>6 DEF IInv, Runs
<1>9. HandlersOfRuns'
  <2>1. \A h \in handlers : h.uuid \in UUIDs
    BY DEF IInv, TypeOK, Handler
  <2>2. run[u].number <= run[u].number
    BY <1>1, LibraryAssumption DEF Run
  <2>3. new.uuid = u /\ new.number = run[u].number /\ new.path = run[u].path
    OBVIOUS
  <2> HIDE DEF new
  <2> QED
    BY <1>4, <1>6, <2>1, <2>2, <2>3 DEF IInv, HandlersOfRuns
<1>10. Movers'
  <2>1. new.outcome # "renamed"
    OBVIOUS
  <2> HIDE DEF new
  <2> QED
    BY <1>4, <1>6, <2>1 DEF IInv, Movers
<1>11. MovedByThisRun'
  BY <1>4, <1>6 DEF IInv, MovedByThisRun
<1>12. HandlersOfAttempts'
  <2>1. \A h \in handlers : h.uuid \in UUIDs /\ h.attempt \in Nat
    BY DEF IInv, TypeOK, Handler
  <2>2. new.uuid = u /\ new.number = run[u].number /\ new.attempt = run[u].attempt
    OBVIOUS
  <2>3. run[u].attempt \in Nat
    BY <1>1 DEF Run
  <2>4. \A h \in handlers : h.uuid = u /\ h.number = run[u].number => h.attempt < run[u].attempt
    BY <1>1 DEF IInv, HandlersOfAttempts
  <2> HIDE DEF new
  <2>5. ASSUME NEW h \in handlers', h.number = run'[h.uuid].number
        PROVE  /\ h.attempt <= run'[h.uuid].attempt
               /\ run'[h.uuid].status = "scheduled" => h.attempt < run'[h.uuid].attempt
    <3>1. CASE h \in handlers
      BY <1>6, <2>1, <2>5, <3>1 DEF IInv, HandlersOfAttempts
    <3>2. CASE h = new
      BY <1>6, <2>2, <2>3, <3>2
    <3> QED
      BY <1>4, <3>1, <3>2
  <2>6. ASSUME NEW g \in handlers', NEW h \in handlers',
               g.uuid = h.uuid, g.number = h.number, g.attempt = h.attempt
        PROVE  g = h
    <3>1. CASE g \in handlers /\ h \in handlers
      BY <2>6, <3>1 DEF IInv, HandlersOfAttempts
    <3>2. CASE g = new /\ h = new
      BY <3>2
    <3>3. CASE g = new /\ h \in handlers
      BY <2>1, <2>2, <2>3, <2>4, <2>6, <3>3
    <3>4. CASE g \in handlers /\ h = new
      BY <2>1, <2>2, <2>3, <2>4, <2>6, <3>4
    <3> QED
      BY <1>4, <3>1, <3>2, <3>3, <3>4
  <2> QED
    BY <2>5, <2>6 DEF HandlersOfAttempts
<1> QED
  BY <1>5, <1>7, <1>8, <1>9, <1>10, <1>11, <1>12 DEF IInv

\* What a handler becomes when its call returns.
LEMMA BecomesStep ==
  ASSUME IInv, NEW h \in handlers, NEW outcome \in {"renamed", "refused"}, Becomes(h, outcome)
  PROVE  /\ handlers' \in SUBSET Handler
         /\ \A g \in handlers' :
              \/ g \in handlers
              \/ g.uuid = h.uuid /\ g.number = h.number /\ g.path = h.path /\ g.outcome = outcome
<1>1. h \in Handler /\ handlers \subseteq Handler
  BY DEF IInv, TypeOK
<1> DEFINE g == [h EXCEPT !.outcome = outcome]
<1>2. g \in Handler /\ g.uuid = h.uuid /\ g.number = h.number /\ g.path = h.path /\ g.outcome = outcome
  BY <1>1 DEF Handler
<1> QED
  BY <1>1, <1>2 DEF Becomes

\* It stays the only handler of its attempt.
LEMMA BecomesOne ==
  ASSUME IInv, UNCHANGED run,
         NEW h \in handlers, NEW outcome \in {"renamed", "refused"}, Becomes(h, outcome)
  PROVE  HandlersOfAttempts'
<1> DEFINE new == [h EXCEPT !.outcome = outcome]
<1>1. new.uuid = h.uuid /\ new.number = h.number /\ new.attempt = h.attempt
  BY DEF IInv, TypeOK, Handler
<1>2. handlers' = (handlers \ {h}) \cup {new}
  BY DEF Becomes
<1> HIDE DEF new
<1>3. ASSUME NEW g \in handlers', g.number = run'[g.uuid].number
      PROVE  /\ g.attempt <= run'[g.uuid].attempt
             /\ run'[g.uuid].status = "scheduled" => g.attempt < run'[g.uuid].attempt
  BY <1>1, <1>2, <1>3 DEF IInv, HandlersOfAttempts
<1>4. ASSUME NEW f \in handlers', NEW g \in handlers',
             f.uuid = g.uuid, f.number = g.number, f.attempt = g.attempt
      PROVE  f = g
  BY <1>1, <1>2, <1>4 DEF IInv, HandlersOfAttempts
<1> QED
  BY <1>3, <1>4 DEF HandlersOfAttempts

\* A directory is moved only to where there is none, so that no other handler's
\* success is undone.
LEMMA RenameFileHolds ==
  ASSUME IInv, NEW h \in handlers, RenameFile(h)
  PROVE  IInv'
<1>1. /\ h \in Handler /\ h.uuid \in UUIDs /\ h.path \in Paths /\ h.number \in 1..MaxRuns
      /\ handlers \subseteq Handler
  BY DEF IInv, TypeOK, Handler
<1>2. UNCHANGED <<run, created>>
  BY DEF RenameFile
<1>3. h.number <= run[h.uuid].number
  BY DEF IInv, HandlersOfRuns
<1>4. ASSUME NEW outcome \in {"renamed", "refused"}, Becomes(h, outcome)
      PROVE  HandlersOfRuns' /\ HandlersOfAttempts'
  <2>1. \A g \in handlers' : \/ g \in handlers
                             \/ g.uuid = h.uuid /\ g.number = h.number /\ g.path = h.path
    BY <1>4, BecomesStep
  <2>2. HandlersOfRuns'
    BY <1>2, <2>1 DEF IInv, HandlersOfRuns
  <2>3. HandlersOfAttempts'
    BY <1>2, <1>4, BecomesOne
  <2> QED
    BY <2>2, <2>3
<1>5. CASE Becomes(h, "refused") /\ UNCHANGED <<inbox, library, mover>>
  <2>1. /\ handlers' \in SUBSET Handler
        /\ \A g \in handlers' : g \in handlers \/ g.outcome = "refused"
    BY <1>5, BecomesStep
  <2>2. TypeOK'
    BY <1>2, <1>5, <2>1 DEF IInv, TypeOK
  <2>3. OnePlace' /\ Runs' /\ MovedByThisRun'
    BY <1>2, <1>5 DEF IInv, OnePlace, Runs, MovedByThisRun
  <2>4. Movers'
    BY <1>2, <1>5, <2>1 DEF IInv, Movers
  <2> QED
    BY <1>4, <1>5, <2>2, <2>3, <2>4 DEF IInv
<1>6. CASE /\ Possible(h)
           /\ library' = [library EXCEPT ![h.uuid] = inbox[h.path]]
           /\ mover' = [mover EXCEPT ![h.uuid] = h.number]
           /\ inbox' = [inbox EXCEPT ![h.path] = None]
           /\ Becomes(h, "renamed")
  <2>1. /\ handlers' \in SUBSET Handler
        /\ \A g \in handlers' : g \in handlers \/ (g.uuid = h.uuid /\ g.number = h.number)
    BY <1>6, BecomesStep
  <2>2. inbox[h.path] \in Discs /\ inbox[h.path] # None /\ library[h.uuid] = None
    BY <1>1, <1>6 DEF IInv, TypeOK, Possible
  <2>3. mover[h.uuid] = 0 /\ h.number # 0
    BY <1>1, <2>2, LibraryAssumption DEF IInv, Movers
  <2>4. TypeOK'
    BY <1>1, <1>2, <1>6, <2>1, <2>2, LibraryAssumption DEF IInv, TypeOK
  <2>5. OnePlace'
    BY <1>1, <1>6, <2>2 DEF IInv, TypeOK, OnePlace
  <2>6. Runs'
    BY <1>2 DEF IInv, Runs
  <2>7. Movers'
    <3>1. \A u \in UUIDs : /\ mover'[u] = IF u = h.uuid THEN h.number ELSE mover[u]
                           /\ library'[u] = IF u = h.uuid THEN inbox[h.path] ELSE library[u]
      BY <1>1, <1>6 DEF IInv, TypeOK
    <3>2. \A u \in UUIDs : (mover'[u] = 0 <=> library'[u] = None) /\ mover'[u] <= run[u].number
      BY <1>3, <2>2, <2>3, <3>1 DEF IInv, Movers
    <3>3. ASSUME NEW g \in handlers', g.outcome = "renamed"
          PROVE  mover'[g.uuid] = g.number
      <4>1. CASE g.uuid = h.uuid /\ g.number = h.number
        BY <1>1, <3>1, <4>1
      <4>2. CASE g \in handlers
        <5>1. mover[g.uuid] = g.number /\ g.number # 0 /\ g.uuid \in UUIDs
          BY <1>1, <3>3, <4>2, LibraryAssumption DEF IInv, Movers, Handler
        <5>2. g.uuid # h.uuid
          BY <2>3, <5>1
        <5> QED
          BY <3>1, <5>1, <5>2
      <4> QED
        BY <2>1, <4>1, <4>2
    <3> QED
      BY <1>2, <3>2, <3>3 DEF Movers
  <2>8. MovedByThisRun'
    <3>1. \A u \in UUIDs : run[u].status = "moved" => u # h.uuid
      BY <2>2 DEF IInv, MovedByThisRun
    <3> QED
      BY <1>1, <1>2, <1>6, <3>1 DEF IInv, TypeOK, MovedByThisRun
  <2> QED
    BY <1>4, <1>6, <2>4, <2>5, <2>6, <2>7, <2>8 DEF IInv
<1> QED
  BY <1>5, <1>6 DEF RenameFile

LEMMA NextHolds ==
  ASSUME IInv, [Next]_vars
  PROVE  IInv'
<1>1. CASE UNCHANGED vars
  <2>1. TypeOK' /\ OnePlace' /\ Runs'
    BY <1>1 DEF vars, IInv, TypeOK, OnePlace, Runs
  <2>2. HandlersOfRuns' /\ HandlersOfAttempts' /\ Movers' /\ MovedByThisRun'
    BY <1>1 DEF vars, IInv, HandlersOfRuns, HandlersOfAttempts, Movers, MovedByThisRun
  <2> QED
    BY <2>1, <2>2 DEF IInv
<1>2. ASSUME NEW d \in Discs, NEW p \in Paths, Arrives(d, p)
      PROVE  IInv'
  BY <1>2, ArrivesHolds
<1>3. ASSUME NEW u \in UUIDs, NEW p \in Paths, NEW o \in Outcomes, CreateDisc(u, p, o)
      PROVE  IInv'
  BY <1>3, CreateDiscHolds
<1>4. ASSUME NEW u \in UUIDs, StartAttempt(u) \/ TimesOut(u) \/ Closes(u)
      PROVE  IInv'
  BY <1>4, StartAttemptHolds, TimesOutHolds, ClosesHolds
<1>5. ASSUME NEW h \in handlers, RenameFile(h) \/ Reports(h) \/ Crashes(h)
      PROVE  IInv'
  BY <1>5, RenameFileHolds, ReportsHolds, CrashesHolds
<1> QED
  BY <1>1, <1>2, <1>3, <1>4, <1>5 DEF Next

-----------------------------------------------------------------------------
(* Theorems *)

\* The inductive invariant: what is in the library was moved there by one run, and
\* only the handler that did it says so.
THEOREM IInvInvariant == Spec => []IInv
<1>1. Init => IInv
  BY InitHolds
<1>2. IInv /\ [Next]_vars => IInv'
  BY NextHolds
<1> QED
  BY <1>1, <1>2, PTL DEF Spec

\* The inbox, the library, the runs and the handlers keep to their states.
THEOREM TypeCorrect == Spec => []TypeOK
<1>1. IInv => TypeOK
  BY DEF IInv
<1> QED
  BY <1>1, IInvInvariant, PTL

\* A run that goes on after RenameFile moved the directory itself (disc.go:72-75).
THEOREM MovesItsOwn == Spec => []MovedByThisRun
<1>1. IInv => MovedByThisRun
  BY DEF IInv
<1> QED
  BY <1>1, IInvInvariant, PTL

LEMMA StepClobbersNothing ==
  ASSUME IInv, [Next]_vars
  PROVE  /\ Arrived \subseteq Arrived'
         /\ \A u \in UUIDs : library[u] # None => library'[u] = library[u]
<1>1. CASE UNCHANGED <<inbox, library>>
  BY <1>1 DEF Arrived
<1>2. ASSUME NEW d \in Discs, NEW p \in Paths, Arrives(d, p)
      PROVE  Arrived \subseteq Arrived' /\ UNCHANGED library
  BY <1>2, LibraryAssumption DEF IInv, TypeOK, Arrives, Arrived
<1>3. ASSUME NEW h \in handlers, RenameFile(h), ~UNCHANGED <<inbox, library>>
      PROVE  /\ Arrived \subseteq Arrived'
             /\ \A u \in UUIDs : library[u] # None => library'[u] = library[u]
  <2>1. h.uuid \in UUIDs /\ h.path \in Paths
    BY DEF IInv, TypeOK, Handler
  <2>2. /\ Possible(h)
        /\ library' = [library EXCEPT ![h.uuid] = inbox[h.path]]
        /\ inbox' = [inbox EXCEPT ![h.path] = None]
    BY <1>3 DEF RenameFile
  <2>3. \A u \in UUIDs : library[u] # None => library'[u] = library[u]
    BY <2>1, <2>2 DEF IInv, TypeOK, Possible
  <2>4. library'[h.uuid] = inbox[h.path] /\ \A p \in Paths : p # h.path => inbox'[p] = inbox[p]
    BY <2>1, <2>2 DEF IInv, TypeOK
  <2>5. ASSUME NEW d \in Arrived
        PROVE  d \in Arrived'
    <3>1. d \in Discs /\ d # None
      BY LibraryAssumption DEF Arrived
    <3>2. CASE \E u \in UUIDs : library[u] = d
      BY <2>3, <3>1, <3>2 DEF Arrived
    <3>3. CASE \E p \in Paths : inbox[p] = d
      BY <2>1, <2>4, <3>1, <3>3 DEF Arrived
    <3> QED
      BY <3>2, <3>3 DEF Arrived
  <2> QED
    BY <2>3, <2>5
<1> QED
  BY <1>1, <1>2, <1>3 DEF Next, vars, CreateDisc, StartAttempt, TimesOut, Closes, Reports, Crashes

\* No directory is lost or replaced by an attempt, however late, of any run
\* (rename_file.go:22).
THEOREM NothingIsClobbered == Spec => NeverClobbers
<1>1. IInv /\ [Next]_vars =>
        [/\ Arrived \subseteq Arrived'
         /\ \A u \in UUIDs : library[u] # None => library'[u] = library[u]]_vars
  BY StepClobbersNothing
<1> QED
  BY <1>1, IInvInvariant, PTL DEF Spec, NeverClobbers

-----------------------------------------------------------------------------
(* Runs and their attempts *)

\* The attempts number the handlers of a run.
LEMMA FewHandlers ==
  ASSUME IInv
  PROVE  ThreeHandlersEach
<1> SUFFICES ASSUME NEW u \in UUIDs, NEW n \in 1..MaxRuns
             PROVE  Cardinality({h \in handlers : h.uuid = u /\ h.number = n}) <= MaximumAttempts
  BY DEF ThreeHandlersEach
<1> DEFINE S == {h \in handlers : h.uuid = u /\ h.number = n}
           f == [h \in S |-> h.attempt]
<1>1. IsFiniteSet(1..3) /\ Cardinality(1..3) = 3
  <2>1. 1 \in Int /\ 3 \in Int /\ 3 - 1 + 1 = 3 /\ ~(1 > 3)
    OBVIOUS
  <2>2. /\ IsFiniteSet(1..3)
        /\ Cardinality(1..3) = IF 1 > 3 THEN 0 ELSE 3 - 1 + 1
    BY <2>1, FS_Interval, Zenon
  <2> QED
    BY <2>1, <2>2
<1>2. f \in Injection(S, 1..3)
  <2>1. f \in [S -> 1..3]
    BY DEF IInv, TypeOK, Handler
  <2>2. \A g, h \in S : f[g] = f[h] => g = h
    BY DEF IInv, HandlersOfAttempts
  <2> QED
    BY <2>1, <2>2 DEF Injection, IsInjective
<1> HIDE DEF S, f
<1>3. Cardinality(S) <= Cardinality(1..3)
  BY <1>1, <1>2, FS_Injection DEF ExistsInjection
<1> QED
  BY <1>1, <1>3 DEF S

\* MaximumAttempts (disc.go:64) is a bound on the handlers of a run, too, for they are not
\* stopped.
THEOREM HandlersAreFew == Spec => []ThreeHandlersEach
<1>1. IInv => ThreeHandlersEach
  BY FewHandlers
<1> QED
  BY <1>1, IInvInvariant, PTL

-----------------------------------------------------------------------------
(* DiscLibrary implements DiscMoves *)

\* A step that keeps the directories and adds no request is a Forget, or a stutter.
LEMMA FewerWanted ==
  ASSUME UNCHANGED <<inbox, library>>, wantedBar' \subseteq wantedBar
  PROVE  [Moves!Next]_(Moves!vars)
<1> DEFINE S == wantedBar \ wantedBar'
<1>1. S \in SUBSET wantedBar /\ wantedBar' = wantedBar \ S
  OBVIOUS
<1>2. Moves!Forget(S)
  BY <1>1 DEF Moves!Forget
<1> QED
  BY <1>1, <1>2 DEF Moves!Next

\* Requests come with runs and handlers, and go with them.
LEMMA WantedOf ==
  ASSUME handlers' \subseteq handlers,
         \A u \in UUIDs : run'[u].status \in Moving =>
           run[u].status \in Moving /\ run'[u].path = run[u].path
  PROVE  wantedBar' \subseteq wantedBar
  BY DEF wantedBar

LEMMA MovesCreateDisc ==
  ASSUME IInv, NEW u \in UUIDs, NEW p \in Paths, NEW o \in Outcomes, CreateDisc(u, p, o)
  PROVE  [Moves!Next]_(Moves!vars)
<1>1. UNCHANGED <<inbox, library, handlers>> /\ run \in [UUIDs -> Run]
  BY DEF CreateDisc, IInv, TypeOK
<1>2. CASE UNCHANGED run
  BY <1>1, <1>2, FewerWanted DEF wantedBar
<1>3. CASE ~UNCHANGED run
  <2>1. /\ run[u].status \notin Moving
        /\ run' = [run EXCEPT ![u] = [number |-> run[u].number + 1, path |-> p,
                                      status |-> "scheduled", attempt |-> 1]]
    BY <1>3 DEF CreateDisc, ExecuteWorkflow
  <2>2. run'[u].status \in Moving /\ run'[u].path = p /\ \A v \in UUIDs \ {u} : run'[v] = run[v]
    BY <1>1, <2>1
  <2>3. wantedBar' = wantedBar \cup {<<u, p>>}
    BY <1>1, <2>1, <2>2 DEF wantedBar
  <2>4. Moves!Want(u, p)
    BY <1>1, <2>3 DEF Moves!Want
  <2> QED
    BY <2>4 DEF Moves!Next
<1> QED
  BY <1>2, <1>3

LEMMA MovesStartAttempt ==
  ASSUME IInv, NEW u \in UUIDs, StartAttempt(u)
  PROVE  [Moves!Next]_(Moves!vars)
<1>1. /\ run \in [UUIDs -> Run] /\ run[u].status \in Moving
      /\ run' = [run EXCEPT ![u].status = "started"] /\ UNCHANGED <<inbox, library>>
  BY DEF StartAttempt, IInv, TypeOK
<1>2. \A v \in UUIDs : run'[v].path = run[v].path
                       /\ (run'[v].status \in Moving <=> run[v].status \in Moving)
  BY <1>1 DEF Run
<1>3. \A h \in handlers' : h \in handlers \/ (h.uuid = u /\ h.path = run[u].path)
  BY DEF StartAttempt
<1>4. wantedBar' \subseteq wantedBar
  BY <1>1, <1>2, <1>3 DEF wantedBar
<1> QED
  BY <1>1, <1>4, FewerWanted

\* The run of a failed attempt still wants its path, or nothing.
LEMMA AttemptFailsWants ==
  ASSUME IInv, NEW u \in UUIDs, run[u].status = "started", AttemptFails(u)
  PROVE  \A v \in UUIDs : run'[v].status \in Moving =>
           run[v].status \in Moving /\ run'[v].path = run[v].path
<1>1. run \in [UUIDs -> Run]
  BY DEF IInv, TypeOK
<1> QED
  BY <1>1 DEF AttemptFails, Run

LEMMA MovesEnd ==
  ASSUME IInv, NEW u \in UUIDs, TimesOut(u) \/ Closes(u)
  PROVE  [Moves!Next]_(Moves!vars)
<1>1. UNCHANGED <<inbox, library, handlers>> /\ run \in [UUIDs -> Run]
  BY DEF TimesOut, Closes, IInv, TypeOK
<1>2. \A v \in UUIDs : run'[v].status \in Moving =>
        run[v].status \in Moving /\ run'[v].path = run[v].path
  <2>1. CASE TimesOut(u)
    BY <2>1, AttemptFailsWants DEF TimesOut
  <2>2. CASE Closes(u)
    BY <1>1, <2>2 DEF Closes, Run
  <2> QED
    BY <2>1, <2>2
<1> QED
  BY <1>1, <1>2, WantedOf, FewerWanted

LEMMA MovesHandlerEnds ==
  ASSUME IInv, NEW h \in handlers, Reports(h) \/ Crashes(h)
  PROVE  [Moves!Next]_(Moves!vars)
<1>1. /\ UNCHANGED <<inbox, library>> /\ handlers' \subseteq handlers
      /\ run \in [UUIDs -> Run] /\ h.uuid \in UUIDs
  BY DEF Reports, Crashes, IInv, TypeOK, Handler
<1>2. \A v \in UUIDs : run'[v].status \in Moving =>
        run[v].status \in Moving /\ run'[v].path = run[v].path
  <2>1. CASE UNCHANGED run
    BY <2>1
  <2>2. CASE run' = [run EXCEPT ![h.uuid].status = "moved"]
    BY <1>1, <2>2 DEF Run
  <2>3. CASE Current(h) /\ AttemptFails(h.uuid)
    BY <1>1, <2>3, AttemptFailsWants DEF Current
  <2> QED
    BY <2>1, <2>2, <2>3 DEF Reports, Crashes
<1> QED
  BY <1>1, <1>2, WantedOf, FewerWanted

LEMMA MovesRenameFile ==
  ASSUME IInv, NEW h \in handlers, RenameFile(h)
  PROVE  [Moves!Next]_(Moves!vars)
<1>1. UNCHANGED run /\ h \in Handler /\ \E outcome \in {"renamed", "refused"} : Becomes(h, outcome)
  BY DEF RenameFile, IInv, TypeOK
<1>2. wantedBar' = wantedBar
  <2>1. PICK outcome \in {"renamed", "refused"} : Becomes(h, outcome)
    BY <1>1
  <2> DEFINE g == [h EXCEPT !.outcome = outcome]
  <2>2. g.uuid = h.uuid /\ g.path = h.path
    BY <1>1 DEF Handler
  <2>3. handlers' = (handlers \ {h}) \cup {g}
    BY <2>1 DEF Becomes
  <2> HIDE DEF g
  <2>4. {<<f.uuid, f.path>> : f \in handlers'} = {<<f.uuid, f.path>> : f \in handlers}
    BY <2>2, <2>3
  <2> QED
    BY <1>1, <2>4 DEF wantedBar
<1>3. CASE UNCHANGED <<inbox, library>>
  BY <1>2, <1>3 DEF Moves!vars
<1>4. CASE /\ Possible(h)
           /\ library' = [library EXCEPT ![h.uuid] = inbox[h.path]]
           /\ inbox' = [inbox EXCEPT ![h.path] = None]
  <2> DEFINE w == <<h.uuid, h.path>>
  <2>1. w \in wantedBar
    BY DEF wantedBar
  <2>2. Moves!Move(w[1], w[2])
    BY <1>2, <1>4, <2>1 DEF Moves!Move, Possible
  <2> QED
    BY <2>1, <2>2 DEF Moves!Next
<1> QED
  BY <1>3, <1>4 DEF RenameFile

LEMMA MovesStep ==
  ASSUME IInv, [Next]_vars
  PROVE  [Moves!Next]_(Moves!vars)
<1>1. CASE UNCHANGED vars
  BY <1>1, FewerWanted DEF vars, wantedBar
<1>2. ASSUME NEW d \in Discs, NEW p \in Paths, Arrives(d, p)
      PROVE  [Moves!Next]_(Moves!vars)
  <2>1. wantedBar' = wantedBar
    BY <1>2 DEF Arrives, wantedBar
  <2>2. Moves!Arrive(d, p)
    BY <1>2, <2>1 DEF Arrives, Arrived, Moves!Arrive
  <2> QED
    BY <2>2 DEF Moves!Next
<1>3. ASSUME NEW u \in UUIDs, NEW p \in Paths, NEW o \in Outcomes, CreateDisc(u, p, o)
      PROVE  [Moves!Next]_(Moves!vars)
  BY <1>3, MovesCreateDisc
<1>4. ASSUME NEW u \in UUIDs, StartAttempt(u) \/ TimesOut(u) \/ Closes(u)
      PROVE  [Moves!Next]_(Moves!vars)
  BY <1>4, MovesStartAttempt, MovesEnd
<1>5. ASSUME NEW h \in handlers, RenameFile(h) \/ Reports(h) \/ Crashes(h)
      PROVE  [Moves!Next]_(Moves!vars)
  BY <1>5, MovesRenameFile, MovesHandlerEnds
<1> QED
  BY <1>1, <1>2, <1>3, <1>4, <1>5 DEF Next

\* Whatever runs, attempts and workers do (disc.go:61-74, rename_file.go:22), a disc moves
\* once, and only to a UUID for which its path was asked.
THEOREM ImplementsDiscMoves == Spec => ImplementsMoves
<1>1. Init => Moves!Init
  BY DEF Init, NoRun, wantedBar, Moves!Init
<1>2. IInv /\ [Next]_vars => [Moves!Next]_(Moves!vars)
  BY MovesStep
<1> QED
  BY <1>1, <1>2, IInvInvariant, PTL DEF Spec, ImplementsMoves, Moves!Spec
=============================================================================
