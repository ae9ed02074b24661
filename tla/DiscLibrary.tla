----------------------------- MODULE DiscLibrary -----------------------------
(***************************************************************************)
(* The way of discs from the inbox into the library: CreateDisc            *)
(* (server/server.go) starts a run of the disc workflow, whose first       *)
(* activity, RenameFile (internal/vwactivity/rename_file.go), moves the    *)
(* directory at the path of the request to the library, under the UUID of  *)
(* the request.                                                            *)
(*                                                                         *)
(* There are many clients, many runs of a UUID, one after the other, and   *)
(* up to three attempts of a run's RenameFile.  Nobody stops the handler   *)
(* of an attempt that timed out, or whose run was closed: it may rename    *)
(* the directory much later.                                               *)
(***************************************************************************)
EXTENDS Naturals, FiniteSets

CONSTANTS
  UUIDs,    \* UUIDs that clients ask for
  Paths,    \* paths in the inbox
  Discs,    \* directories, which are not empty
  None,     \* no directory
  MaxRuns,      \* bound: runs of a UUID
  MaxHandlers   \* bound: handlers of RenameFile at a time, on all workers

ASSUME LibraryAssumption ==
  /\ None \notin Discs \cup Paths
  /\ MaxRuns \in Nat /\ MaxHandlers \in Nat

VARIABLES
  inbox,     \* the directory at each path
  library,   \* the directory of each UUID
  mover,     \* auxiliary: number of the run that moved it there, 0 if there is none
  run,       \* the latest run of each UUID, see Run
  handlers,  \* the handlers of RenameFile that run somewhere
  created    \* last reply to CreateDisc

vars == <<inbox, library, mover, run, handlers, created>>

-----------------------------------------------------------------------------
MaximumAttempts == 3

\* An attempt is "scheduled", then "started".  A run that is "closed" was
\* completed, cancelled or terminated.
Moving  == {"scheduled", "started"}
Running == Moving \cup {"moved"}

Run == [number : 0..MaxRuns, path : Paths \cup {None},
        status : Running \cup {"none", "moveFailed", "closed"}, attempt : 0..MaximumAttempts]

Handler == [uuid : UUIDs, number : 1..MaxRuns, attempt : 1..MaximumAttempts, path : Paths,
            outcome : {"called", "renamed", "refused"}]

TypeOK ==
  /\ inbox \in [Paths -> Discs \cup {None}]
  /\ library \in [UUIDs -> Discs \cup {None}]
  /\ mover \in [UUIDs -> 0..MaxRuns]
  /\ run \in [UUIDs -> Run]
  /\ handlers \in SUBSET Handler
  /\ created \in {"none", "201", "500"}

Arrived == {d \in Discs : (\E p \in Paths : inbox[p] = d) \/ (\E u \in UUIDs : library[u] = d)}

-----------------------------------------------------------------------------
(* The inbox and the server *)

\* Somebody puts a disc into the inbox.
Arrives(d, p) ==
  /\ d \notin Arrived /\ inbox[p] = None
  /\ inbox' = [inbox EXCEPT ![p] = d]
  /\ UNCHANGED <<library, mover, run, handlers, created>>

\* Temporal starts a run, unless one of this ID is running: then it returns that
\* one, and no error.  The first command of a run is RenameFile.
ExecuteWorkflow(u, p) ==
  IF run[u].status \in Running
  THEN UNCHANGED run
  ELSE /\ run[u].number < MaxRuns
       /\ run' = [run EXCEPT ![u] = [number |-> @.number + 1, path |-> p,
                                     status |-> "scheduled", attempt |-> 1]]

\* The call may not reach Temporal, or start the run and return an error.
CreateDisc(u, p, outcome) ==
  /\ IF outcome = "unavailable" THEN UNCHANGED run ELSE ExecuteWorkflow(u, p)
  /\ created' = IF outcome = "answered" THEN "201" ELSE "500"
  /\ UNCHANGED <<inbox, library, mover, handlers>>

-----------------------------------------------------------------------------
(* RenameFile and its attempts *)

StartAttempt(u) ==
  /\ run[u].status = "scheduled"
  /\ Cardinality(handlers) < MaxHandlers
  /\ run' = [run EXCEPT ![u].status = "started"]
  /\ handlers' = handlers \cup {[uuid |-> u, number |-> run[u].number, attempt |-> run[u].attempt,
                                 path |-> run[u].path, outcome |-> "called"]}
  /\ UNCHANGED <<inbox, library, mover, created>>

Becomes(h, outcome) == handlers' = (handlers \ {h}) \cup {[h EXCEPT !.outcome = outcome]}

\* os.Rename needs a source, and does not replace a directory.
Possible(h) == inbox[h.path] # None /\ library[h.uuid] = None

RenameFileSlip(h) ==  \* Slip: a directory in the way is removed first.
  /\ h.outcome = "called"
  /\ \/ /\ inbox[h.path] # None
        /\ library' = [library EXCEPT ![h.uuid] = inbox[h.path]]
        /\ mover' = [mover EXCEPT ![h.uuid] = h.number]
        /\ inbox' = [inbox EXCEPT ![h.path] = None]
        /\ Becomes(h, "renamed")
     \/ /\ Becomes(h, "refused")
        /\ UNCHANGED <<inbox, library, mover>>
  /\ UNCHANGED <<run, created>>

RenameFileIdempotent(h) ==  \* Slip: a target that is there already is a success.
  /\ h.outcome = "called"
  /\ IF library[h.uuid] # None
     THEN Becomes(h, "renamed") /\ UNCHANGED <<inbox, library, mover>>
     ELSE \/ /\ Possible(h)
             /\ library' = [library EXCEPT ![h.uuid] = inbox[h.path]]
             /\ mover' = [mover EXCEPT ![h.uuid] = h.number]
             /\ inbox' = [inbox EXCEPT ![h.path] = None]
             /\ Becomes(h, "renamed")
          \/ Becomes(h, "refused") /\ UNCHANGED <<inbox, library, mover>>
  /\ UNCHANGED <<run, created>>

RenameFileLate(h) ==  \* Slip: the path is read from the run, when the handler gets to it.
  /\ h.outcome = "called"
  /\ LET p == run[h.uuid].path
     IN  \/ /\ inbox[p] # None /\ library[h.uuid] = None
            /\ library' = [library EXCEPT ![h.uuid] = inbox[p]]
            /\ mover' = [mover EXCEPT ![h.uuid] = h.number]
            /\ inbox' = [inbox EXCEPT ![p] = None]
            /\ Becomes(h, "renamed")
         \/ Becomes(h, "refused") /\ UNCHANGED <<inbox, library, mover>>
  /\ UNCHANGED <<run, created>>

\* It may fail for any other reason, too.
RenameFile(h) ==
  /\ h.outcome = "called"
  /\ \/ /\ Possible(h)
        /\ library' = [library EXCEPT ![h.uuid] = inbox[h.path]]
        /\ mover' = [mover EXCEPT ![h.uuid] = h.number]
        /\ inbox' = [inbox EXCEPT ![h.path] = None]
        /\ Becomes(h, "renamed")
     \/ /\ Becomes(h, "refused")
        /\ UNCHANGED <<inbox, library, mover>>
  /\ UNCHANGED <<run, created>>

\* Slip: no MaximumAttempts in the RetryPolicy.  (The counter is capped.)
AttemptFailsSlip(u) ==
  run' = [run EXCEPT ![u].status = "scheduled",
                     ![u].attempt = IF @ < MaximumAttempts THEN @ + 1 ELSE @]

AttemptFailsExtra(u) ==  \* Slip: counts the retries instead of the attempts.
  run' = IF run[u].attempt <= MaximumAttempts
         THEN [run EXCEPT ![u].status = "scheduled", ![u].attempt = @ + 1]
         ELSE [run EXCEPT ![u].status = "moveFailed"]

AttemptFails(u) ==
  run' = IF run[u].attempt < MaximumAttempts
         THEN [run EXCEPT ![u].status = "scheduled", ![u].attempt = @ + 1]
         ELSE [run EXCEPT ![u].status = "moveFailed"]

\* Temporal takes the result of the attempt that is started now, and of no other.
Current(h) ==
  LET r == run[h.uuid]
  IN  r.status = "started" /\ r.number = h.number /\ r.attempt = h.attempt

Reports(h) ==
  /\ h.outcome # "called"
  /\ handlers' = handlers \ {h}
  /\ IF ~Current(h) THEN UNCHANGED run
     ELSE IF h.outcome = "renamed"
          THEN run' = [run EXCEPT ![h.uuid].status = "moved"]
          ELSE AttemptFails(h.uuid)
  /\ UNCHANGED <<inbox, library, mover, created>>

\* The worker dies before, or after, it has renamed the directory.
Crashes(h) ==
  /\ handlers' = handlers \ {h}
  /\ UNCHANGED <<inbox, library, mover, run, created>>

\* StartToCloseTimeout: 10 seconds.
TimesOut(u) ==
  /\ run[u].status = "started"
  /\ AttemptFails(u)
  /\ UNCHANGED <<inbox, library, mover, handlers, created>>

\* The run goes on to its end, or is cancelled or terminated at any time.
Closes(u) ==
  /\ run[u].status \in Running
  /\ run' = [run EXCEPT ![u].status = "closed"]
  /\ UNCHANGED <<inbox, library, mover, handlers, created>>

-----------------------------------------------------------------------------
(* Specification *)

NoRun == [number |-> 0, path |-> None, status |-> "none", attempt |-> 0]

Init ==
  /\ inbox = [p \in Paths |-> None]
  /\ library = [u \in UUIDs |-> None]
  /\ mover = [u \in UUIDs |-> 0]
  /\ run = [u \in UUIDs |-> NoRun]
  /\ handlers = {}
  /\ created = "none"

Outcomes == {"answered", "unavailable", "unheard"}

Next ==
  \/ \E d \in Discs, p \in Paths : Arrives(d, p)
  \/ \E u \in UUIDs, p \in Paths, o \in Outcomes : CreateDisc(u, p, o)
  \/ \E u \in UUIDs : StartAttempt(u) \/ TimesOut(u) \/ Closes(u)
  \/ \E h \in handlers : RenameFile(h) \/ Reports(h) \/ Crashes(h)

Spec == Init /\ [][Next]_vars

\* Temporal starts every attempt, and its clock runs.
FairSpec == Spec /\ \A u \in UUIDs : WF_vars(StartAttempt(u)) /\ WF_vars(TimesOut(u))

-----------------------------------------------------------------------------
(* Properties *)

\* No disc is in two places, whatever attempts, runs and clients meet at a path
\* (rename_file.go:22).
OnePlace ==
  /\ \A p, q \in Paths : inbox[p] = inbox[q] => p = q \/ inbox[p] = None
  /\ \A u, v \in UUIDs : library[u] = library[v] => u = v \/ library[u] = None
  /\ \A p \in Paths, u \in UUIDs : inbox[p] = library[u] => inbox[p] = None

\* No disc is ever lost or replaced: neither a late attempt nor another run of the
\* same UUID touches what is in the library (rename_file.go:22).
NeverClobbers ==
  [][/\ Arrived \subseteq Arrived'
     /\ \A u \in UUIDs : library[u] # None => library'[u] = library[u]]_vars

\* A run that goes on after RenameFile (disc.go:75) works on the directory that it
\* moved itself, and not on what an earlier run of the UUID left in the library.
MovedByThisRun ==
  \A u \in UUIDs : run[u].status = "moved" => library[u] # None /\ mover[u] = run[u].number

\* However many attempts time out and leave their handlers behind, at most three handlers
\* are about the directory of a run (disc.go:64).
ThreeHandlersEach ==
  \A u \in UUIDs, n \in 1..MaxRuns :
    Cardinality({h \in handlers : h.uuid = u /\ h.number = n}) <= MaximumAttempts

\* The requests that DiscMoves sees: those of handlers, late ones too, and of runs that
\* are still to move their directory.
wantedBar ==
  {<<h.uuid, h.path>> : h \in handlers}
    \cup {<<u, run[u].path>> : u \in {v \in UUIDs : run[v].status \in Moving}}

Moves == INSTANCE DiscMoves WITH wanted <- wantedBar

\* Attempts, timeouts, crashes and later runs of a UUID (disc.go:61-74) are invisible: a
\* disc moves once, from the path of a request for the UUID where it goes, and not for
\* a request that nobody works for any more.
ImplementsMoves == Moves!Spec

\* No run tries for ever to move its directory (disc.go:63-65), although handlers
\* disappear without a word.
MoveSettles == \A u \in UUIDs : run[u].status \in Moving ~> run[u].status \notin Moving

\* What the error of disc.go:73 says of a run, "failed to move directory".
FailedIsNotMoved ==
  \A u \in UUIDs : run[u].status = "moveFailed" => mover[u] # run[u].number

\* What openapi.yml:122-123 says of a UUID that is in use: the reply
\* is 409.  (A run of it is going on.)
ConflictIsReported ==
  [][\A u \in UUIDs, p \in Paths :
       run[u].status \in Running /\ CreateDisc(u, p, "answered") => created' = "409"]_vars

-----------------------------------------------------------------------------
(* The inductive invariant *)

\* A run has a path, and its attempts are counted from 1.
Runs ==
  \A u \in UUIDs : run[u].status # "none" =>
    run[u].path # None /\ run[u].number # 0 /\ run[u].attempt # 0

\* A handler is one of the latest run of its UUID, whose path it has, or of an earlier run.
HandlersOfRuns ==
  \A h \in handlers :
    /\ h.number <= run[h.uuid].number
    /\ h.number = run[h.uuid].number => h.path = run[h.uuid].path

\* An attempt has one handler; those of the latest run are of attempts that it has started.
HandlersOfAttempts ==
  /\ \A h \in handlers : LET r == run[h.uuid] IN
       h.number = r.number => /\ h.attempt <= r.attempt
                              /\ r.status = "scheduled" => h.attempt < r.attempt
  /\ \A g, h \in handlers :
       g.uuid = h.uuid /\ g.number = h.number /\ g.attempt = h.attempt => g = h

\* What is in the library was moved there by a run, whose handler alone says so.
Movers ==
  /\ \A u \in UUIDs : (mover[u] = 0 <=> library[u] = None) /\ mover[u] <= run[u].number
  /\ \A h \in handlers : h.outcome = "renamed" => mover[h.uuid] = h.number

IInv ==
  /\ TypeOK /\ OnePlace
  /\ Runs /\ HandlersOfRuns /\ HandlersOfAttempts /\ Movers
  /\ MovedByThisRun
=============================================================================
