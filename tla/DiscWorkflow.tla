---------------------------- MODULE DiscWorkflow ----------------------------
(***************************************************************************)
(* One run of the disc workflow (internal/workflows/vwdisc/disc.go) as     *)
(* Temporal executes it, and the status that GetDisc derives from it.      *)
(*                                                                         *)
(* Temporal keeps a durable history of a run: the commands that Workflow   *)
(* issued, and the events (activity results, a cancellation request) that  *)
(* were delivered to it.  The State of Workflow lives only in the memory   *)
(* of a worker.  When that copy is lost, the next workflow task or query   *)
(* runs Workflow again from its first line: the events are applied again,  *)
(* in order, and each command issued is matched with the recorded one      *)
(* instead of being scheduled a second time.                               *)
(*                                                                         *)
(* The loop of disc.go:119 ranges over a Go map, so every execution of     *)
(* Workflow picks an order of its own.  Temporal identifies an activity by *)
(* its place in the sequence of commands and compares its type, not its    *)
(* input, so a "slot" below is a place in that loop: slot s stands for the *)
(* s-th GetVideoInfo and the s-th Transcode activity.                      *)
(***************************************************************************)
EXTENDS Naturals, Sequences, SequencesExt, FiniteSets

CONSTANTS
  Files,  \* the video files that the disc's directory may hold
  None    \* a nil pointer in FileState

ASSUME FilesAssumption == IsFiniteSet(Files) /\ None \notin Files

VARIABLES
  commands,  \* durable: commands of the run, in the order they were issued
  events,    \* durable: events delivered to the run, in order
  pc,        \* where the worker's copy of Workflow waits, see Waits
  consumed,  \* number of events that this copy has applied
  emitted,   \* number of commands that this copy has issued
  order,     \* order in which this copy's loop ranged over state.Files
  selected,  \* number of Select calls of this copy that returned
  state,     \* the State of this copy
  asking,    \* a GetDisc has described the run and not yet queried it
  shown      \* status of the last answer of GetDisc

durable == <<commands, events>>
memory  == <<pc, consumed, emitted, order, selected, state>>
client  == <<asking, shown>>
vars    == <<commands, events, pc, consumed, emitted, order, selected, state, asking, shown>>

-----------------------------------------------------------------------------
(* Types *)

CommandTypes == {"rename", "list", "mkdir", "diagnose", "complete", "fail"}
Command == [type : CommandTypes, order : Seq(Files)]

EventTypes == {"renamed", "renameFailed", "listed", "madeDir", "info", "preview", "cancel"}
Event == [type : EventTypes, files : SUBSET Files, slot : Nat, file : Files \cup {None}]

\* "evicted": no worker holds the run; "blocked": the commands of a replay did
\* not match the history; "returned": Workflow has returned.
Waits == {"evicted", "rename", "list", "mkdir", "diagnose", "returned", "blocked"}

\* info is the file whose duration and chapters are stored, preview tells
\* whether PreviewPath is set.  (The path itself is a function of the file.)
FileState == [info : Files \cup {None}, preview : BOOLEAN]
NewFileState == [info |-> None, preview |-> FALSE]

State == [DirectoryMoved : BOOLEAN, FilesListed : BOOLEAN, GotFileDiagnostics : BOOLEAN,
          Files : UNION {[S -> FileState] : S \in SUBSET Files}]
NewState == [DirectoryMoved |-> FALSE, FilesListed |-> FALSE, GotFileDiagnostics |-> FALSE,
             Files |-> [f \in {} |-> NewFileState]]

Statuses == <<"running", "directory_moved", "files_listed", "got_file_diagnostics", "failed">>

TypeOK ==
  /\ commands \in Seq(Command)
  /\ events \in Seq(Event)
  /\ pc \in Waits
  /\ consumed \in 0..Len(events)
  /\ emitted \in 0..Len(commands)
  /\ order \in Seq(Files)
  /\ selected \in Nat
  /\ state \in State
  /\ asking \in BOOLEAN
  /\ shown \in {Statuses[i] : i \in 1..5}

-----------------------------------------------------------------------------
(* The history *)

Plain(type) == [type |-> type, order |-> <<>>]
Diagnose(o) == [type |-> "diagnose", order |-> o]

Recorded(type) == \E i \in 1..Len(commands) : commands[i].type = type
Completed == Recorded("complete")
Failed    == Recorded("fail")
Closed    == Completed \/ Failed

\* The inputs with which the activities of the loop were really scheduled: the
\* loop follows RenameFile, ListVideoFiles and MkDir.
Scheduled == IF Len(commands) >= 4 THEN commands[4].order ELSE <<>>

Delivered(type, s) == \E i \in 1..Len(events) : events[i].type = type /\ events[i].slot = s
Happened(type) == \E i \in 1..Len(events) : events[i].type = type

Deliver(type, files, s, file) ==
  /\ ~Closed
  /\ events' = Append(events, [type |-> type, files |-> files, slot |-> s, file |-> file])
  /\ UNCHANGED <<commands, memory, client>>

-----------------------------------------------------------------------------
(* What Temporal delivers to the run.  An activity without a RetryPolicy is *)
(* retried without end, so that only RenameFile (MaximumAttempts: 3) ever    *)
(* delivers a failure.                                                       *)

RenameFileCloses ==
  /\ Recorded("rename") /\ ~Happened("renamed") /\ ~Happened("renameFailed")
  /\ \E t \in {"renamed", "renameFailed"} : Deliver(t, {}, 0, None)

ListVideoFilesCloses ==
  /\ Recorded("list") /\ ~Happened("listed")
  /\ \E S \in SUBSET Files : Deliver("listed", S, 0, None)

MkDirCloses ==
  /\ Recorded("mkdir") /\ ~Happened("madeDir")
  /\ Deliver("madeDir", {}, 0, None)

\* The result of an activity is the one of the input it was scheduled with.
GetVideoInfoCloses ==
  \E s \in 1..Len(Scheduled) :
    /\ ~Delivered("info", s)
    /\ Deliver("info", {}, s, Scheduled[s])

TranscodeCloses ==
  \E s \in 1..Len(Scheduled) :
    /\ ~Delivered("preview", s)
    /\ Deliver("preview", {}, s, Scheduled[s])

\* An operator asks Temporal to cancel the run (server.go:194 provides for it).
RequestCancel ==
  /\ ~Happened("cancel")
  /\ Deliver("cancel", {}, 0, None)

-----------------------------------------------------------------------------
(* The worker's copy of Workflow *)

\* Workflow issues cmd and goes on to wait at next: in a replay the command is
\* matched with the recorded one, by type and number of activities, not input.
Matches(c, d) == c.type = d.type /\ Len(c.order) = Len(d.order)

Emit(cmd, next) ==
  /\ emitted' = emitted + 1
  /\ IF emitted < Len(commands)
     THEN /\ pc' = IF Matches(cmd, commands[emitted + 1]) THEN next ELSE "blocked"
          /\ UNCHANGED commands
     ELSE /\ pc' = next
          /\ commands' = Append(commands, cmd)

\* The event that this copy applies next.
Ev == events[consumed + 1]

Consume(types) ==
  /\ consumed < Len(events)
  /\ Ev.type \in types
  /\ consumed' = consumed + 1
  /\ UNCHANGED <<events, client>>

\* A worker starts Workflow, up to the wait for RenameFile.
Begin ==
  /\ pc = "evicted"
  /\ Emit(Plain("rename"), "rename")
  /\ UNCHANGED <<events, consumed, order, selected, state, client>>

OnRenamed ==
  /\ pc = "rename"
  /\ Consume({"renamed"})
  /\ state' = [state EXCEPT !.DirectoryMoved = TRUE]
  /\ Emit(Plain("list"), "list")
  /\ UNCHANGED <<order, selected>>

OnRenameFailed ==
  /\ pc = "rename"
  /\ Consume({"renameFailed"})
  /\ Emit(Plain("fail"), "returned")
  /\ UNCHANGED <<state, order, selected>>

OnListed ==
  /\ pc = "list"
  /\ Consume({"listed"})
  /\ state' = [state EXCEPT !.Files = [f \in Ev.files |-> NewFileState], !.FilesListed = TRUE]
  /\ Emit(Plain("mkdir"), "mkdir")
  /\ UNCHANGED <<order, selected>>

\* Slip: the loop ranges over a directory read again in each execution.
LoopOrdersSlip == UNION {SetToSeqs(S) : S \in SUBSET Files}

\* for videoPath := range state.Files: any order of the listed files.
LoopOrders == SetToSeqs(DOMAIN state.Files)

\* Slip: a disc without videos returns before GotFileDiagnostics is set.
OnMadeDirSlip ==
  /\ pc = "mkdir"
  /\ Consume({"madeDir"})
  /\ \E o \in LoopOrders :
       /\ order' = o
       /\ IF o = <<>> THEN Emit(Plain("complete"), "returned") ELSE Emit(Diagnose(o), "diagnose")
  /\ UNCHANGED <<state, selected>>

\* The whole loop runs without waiting: one batch of 2 * Len(o) activities.
\* With no file, the code falls through to its end.
OnMadeDir ==
  /\ pc = "mkdir"
  /\ Consume({"madeDir"})
  /\ \E o \in LoopOrders :
       /\ order' = o
       /\ IF o = <<>>
          THEN /\ state' = [state EXCEPT !.GotFileDiagnostics = TRUE]
               /\ Emit(Plain("complete"), "returned")
          ELSE /\ UNCHANGED state
               /\ Emit(Diagnose(o), "diagnose")
  /\ UNCHANGED selected

\* Slips: only one of the two diagCount++; one too many.
diagCountSlip == Len(order)
diagCountExtra == 2 * Len(order) + 1

diagCount == 2 * Len(order)

\* n of the diagCount Select calls have returned, with s the State so far.
Selected(n, s) ==
  /\ selected' = n
  /\ IF n = diagCount
     THEN /\ state' = [s EXCEPT !.GotFileDiagnostics = TRUE]
          /\ Emit(Plain("complete"), "returned")
     ELSE /\ state' = s
          /\ UNCHANGED <<commands, emitted, pc>>

\* The callbacks of diagSelect: videoPath is the file of the slot in this
\* copy's loop, the result is the recorded one of the slot.
OnVideoInfo ==
  /\ pc = "diagnose"
  /\ Consume({"info"})
  /\ Selected(selected + 1, [state EXCEPT !.Files[order[Ev.slot]].info = Ev.file])
  /\ UNCHANGED order

\* Slip: the entry is the one captured when the activity was scheduled.
OnPreviewSlip ==
  /\ pc = "diagnose"
  /\ Consume({"preview"})
  /\ Selected(selected + 1,
              [state EXCEPT !.Files[order[Ev.slot]] = [NewFileState EXCEPT !.preview = TRUE]])
  /\ UNCHANGED order

OnPreview ==
  /\ pc = "diagnose"
  /\ Consume({"preview"})
  /\ Selected(selected + 1, [state EXCEPT !.Files[order[Ev.slot]].preview = TRUE])
  /\ UNCHANGED order

\* Slip: the errors of the sequential calls are ignored when cancelled.
OnCancelSlip ==
  /\ Consume({"cancel"})
  /\ \/ /\ pc \in {"rename", "list", "mkdir"}
        /\ Emit(Plain("complete"), "returned")
        /\ UNCHANGED <<selected, state>>
     \/ /\ pc = "diagnose"
        /\ Selected(diagCount, state)
  /\ UNCHANGED order

\* Cancelling ctx resolves every pending future with an error: the three
\* sequential calls return it, the callbacks log it and return.
OnCancel ==
  /\ Consume({"cancel"})
  /\ \/ /\ pc \in {"rename", "list", "mkdir"}
        /\ Emit(Plain("fail"), "returned")
        /\ UNCHANGED <<selected, state>>
     \/ /\ pc = "diagnose"
        /\ Selected(diagCount, state)
  /\ UNCHANGED order

\* The worker crashes, or drops the run from its cache (which it always does
\* once the run has closed).
Evict ==
  /\ pc \notin {"evicted"}
  /\ pc' = "evicted"
  /\ consumed' = 0
  /\ emitted' = 0
  /\ order' = <<>>
  /\ selected' = 0
  /\ state' = NewState
  /\ UNCHANGED <<durable, client>>

-----------------------------------------------------------------------------
(* GetDisc *)

\* The copy has applied all it will ever apply of the history: a query of the
\* run is answered from such a copy only.
CaughtUp == pc = "returned" \/ (pc \notin {"evicted", "blocked"} /\ consumed = Len(events))

StatusOf(s) ==
  CASE s.GotFileDiagnostics -> "got_file_diagnostics"
    [] ~s.GotFileDiagnostics /\ s.FilesListed -> "files_listed"
    [] ~s.GotFileDiagnostics /\ ~s.FilesListed /\ s.DirectoryMoved -> "directory_moved"
    [] OTHER -> "running"

\* Slip: a run that completed is taken for one that failed (server.go:193).
DescribeSlip ==
  /\ ~asking
  /\ IF Closed
     THEN shown' = "failed" /\ UNCHANGED asking
     ELSE asking' = TRUE /\ UNCHANGED shown
  /\ UNCHANGED <<durable, memory>>

\* A run that ended with an error is answered at once and not queried; any
\* other may still go on, or end, before the query is answered.
Describe ==
  /\ ~asking
  /\ IF Failed
     THEN shown' = "failed" /\ UNCHANGED asking
     ELSE asking' = TRUE /\ UNCHANGED shown
  /\ UNCHANGED <<durable, memory>>

Query ==
  /\ asking /\ CaughtUp
  /\ asking' = FALSE
  /\ shown' = StatusOf(state)
  /\ UNCHANGED <<durable, memory>>

\* No worker answers in time: a 500, which tells nothing of the status.
QueryFails ==
  /\ asking
  /\ asking' = FALSE
  /\ UNCHANGED <<durable, memory, shown>>

GetDisc == Describe \/ Query \/ QueryFails

-----------------------------------------------------------------------------
(* Specification *)

Init ==
  /\ commands = <<>>
  /\ events = <<>>
  /\ pc = "evicted"
  /\ consumed = 0
  /\ emitted = 0
  /\ order = <<>>
  /\ selected = 0
  /\ state = NewState
  /\ asking = FALSE
  /\ shown = "running"

Worker == Begin \/ OnRenamed \/ OnRenameFailed \/ OnListed \/ OnMadeDir
            \/ OnVideoInfo \/ OnPreview \/ OnCancel

Activities == RenameFileCloses \/ ListVideoFilesCloses \/ MkDirCloses
                \/ GetVideoInfoCloses \/ TranscodeCloses

Next == Worker \/ Activities \/ RequestCancel \/ Evict \/ GetDisc

Spec == Init /\ [][Next]_vars

\* Temporal keeps dispatching the tasks of a run to a worker and retries every
\* activity, so Worker and each kind of activity are scheduled again and again.
\* That an asynchronous activity really closes is an assumption about the video
\* services here; module AsyncActivity says what it takes.
FairSpec == Spec /\ WF_vars(Worker) /\ WF_vars(Activities)

-----------------------------------------------------------------------------
(* Properties *)

\* A replay issues the commands that the history recorded, whatever the order
\* in which it ranges over state.Files (disc.go:119): the run never gets stuck
\* on a nondeterminism error.
NeverDiverges == pc # "blocked"

\* The results of this copy: callback of slot s has run for result "type".
Applied(type, s) ==
  \E i \in 1..consumed : events[i].type = type /\ events[i].slot = s

\* No result is lost, applied to two entries, or overwritten by another one
\* (disc.go:132-143, 167-176), after any number of replays and in any order of
\* arrival: each entry of state.Files holds the result of its own slot, which
\* is there exactly when this copy has applied the event.
ResultsFollowSlots ==
  order # <<>> =>
    /\ DOMAIN state.Files = {order[s] : s \in 1..Len(order)}
    /\ \A s \in 1..Len(order) :
         /\ state.Files[order[s]].info = (IF Applied("info", s) THEN Scheduled[s] ELSE None)
         /\ state.Files[order[s]].preview = Applied("preview", s)

\* Select is called once for each activity of the loop (disc.go:178-180): a run
\* that was not cancelled completes only with every result in its State.
CompletesDiagnosed ==
  Completed /\ ~Happened("cancel") =>
    /\ \A s \in 1..Len(Scheduled) : Delivered("info", s) /\ Delivered("preview", s)
    /\ pc = "returned" =>
         \A f \in DOMAIN state.Files : state.Files[f].info # None /\ state.Files[f].preview

Rank(status) == CHOOSE i \in 1..5 : Statuses[i] = status

\* Whoever polls GetDisc (the wait loop of e2e_test.go does) never sees the
\* status of a disc go back, although the State behind it is lost and built
\* again from the start any number of times, and the run may fail between the
\* two calls of one GetDisc.  A final status stays.
StatusNeverRegresses ==
  [][Rank(shown') >= Rank(shown) /\ shown # "got_file_diagnostics"]_shown

\* The status that was answered is backed by the history: it does not announce a
\* step (server.go:237-247) whose activity has not closed.
StatusIsEarned ==
  /\ shown \in {"directory_moved", "files_listed", "got_file_diagnostics"} => Happened("renamed")
  /\ shown \in {"files_listed", "got_file_diagnostics"} => Happened("listed")
  /\ shown = "got_file_diagnostics" => Completed
  /\ shown = "failed" => Failed

\* The status of a disc, as far as the history goes.
HistoryStatus ==
  CASE Completed -> "got_file_diagnostics"
    [] Recorded("mkdir") /\ ~Completed -> "files_listed"
    [] Recorded("list") /\ ~Recorded("mkdir") -> "directory_moved"
    [] OTHER -> "running"

\* Nor does an answer lag behind: whichever copy is queried (disc.go:47-51,
\* server.go:214-247), rebuilt or not, of a run that goes on, was completed or has
\* failed since it was described, the status is that of all that the history records.
AnswersAreCurrent == [][Query => shown' = HistoryStatus]_client

\* The event that a place in Workflow goes on with, but for a cancellation.
Awaited ==
  [rename |-> {"renamed", "renameFailed"}, list |-> {"listed"}, mkdir |-> {"madeDir"},
   diagnose |-> {"info", "preview"}]

\* An activity that the place waits for has started and not closed.
StillOpen ==
  \/ pc = "rename" /\ Recorded("rename") /\ ~Happened("renamed") /\ ~Happened("renameFailed")
  \/ pc = "list" /\ Recorded("list") /\ ~Happened("listed")
  \/ pc = "mkdir" /\ Recorded("mkdir") /\ ~Happened("madeDir")
  \/ pc = "diagnose" /\ \E s \in 1..Len(Scheduled) : ~Delivered("info", s) \/ ~Delivered("preview", s)

\* No copy hangs (disc.go:75, 91, 111, 178-180), at first or in a replay: either the next
\* event of the history is one that its place goes on with, for a slot of its loop, or
\* it has applied all of them, the run goes on, and an activity that it waits for is open.
NeverHangs ==
  pc \in DOMAIN Awaited =>
    IF consumed < Len(events)
    THEN /\ Ev.type \in Awaited[pc] \cup {"cancel"}
         /\ Ev.type \in {"info", "preview"} => Ev.slot \in 1..Len(order)
    ELSE ~Closed /\ StillOpen

\* If its copies are not lost for ever, every disc reaches an end: neither the
\* loop of Selects nor a replay waits for an event that has been applied.
DiscSettles == []<><<Evict>>_vars \/ <>Closed

\* The run as DiscProgress sees it: its history, without the copies.
phaseBar ==
  CASE Failed -> "failed"
    [] Completed -> "done"
    [] ~Closed /\ Recorded("diagnose") -> "diagnosing"
    [] ~Closed /\ Recorded("mkdir") /\ ~Recorded("diagnose") -> "preparing"
    [] ~Closed /\ Recorded("list") /\ ~Recorded("mkdir") -> "listing"
    [] OTHER -> "moving"

filesBar ==
  IF Recorded("mkdir")
  THEN UNION {events[i].files : i \in 1..Len(events)}
  ELSE {}

missingBar ==
  {<<k, Scheduled[s]>> : k \in {"info", "preview"}, s \in 1..Len(Scheduled)}
    \ {<<events[i].type, events[i].file>> : i \in 1..Len(events)}

Progress == INSTANCE DiscProgress WITH
  phase <- phaseBar, files <- filesBar, missing <- missingBar, cancelled <- Happened("cancel")

\* Losing a copy and replaying the history is invisible: the run goes through the
\* phases of disc.go once, in order, and ends when DiscProgress says it may.
ImplementsProgress == Progress!Spec

\* What openapi.yml:339 says of a file of a disc, "Duration of the video file in
\* seconds.": the information stored for a file is that of the file.
InfoIsOfItsFile ==
  \A f \in DOMAIN state.Files : state.Files[f].info \in {None, f}

-----------------------------------------------------------------------------
(* The inductive invariant *)

\* The n-th command is the one that Workflow issues after the (n-1)-th event.
History ==
  /\ Len(commands) <= 5
  /\ Len(commands) >= 1 => commands[1] = Plain("rename")
  /\ Len(commands) >= 2 =>
       /\ Len(events) >= 1
       /\ \/ events[1].type = "renamed" /\ commands[2] = Plain("list")
          \/ /\ events[1].type \in {"renameFailed", "cancel"}
             /\ commands[2] = Plain("fail") /\ Len(commands) = 2
  /\ Len(commands) >= 3 =>
       /\ Len(events) >= 2
       /\ \/ events[2].type = "listed" /\ commands[3] = Plain("mkdir")
          \/ events[2].type = "cancel" /\ commands[3] = Plain("fail") /\ Len(commands) = 3
  /\ Len(commands) >= 4 =>
       /\ Len(events) >= 3
       /\ \/ /\ events[3].type = "madeDir"
             /\ IF events[2].files = {}
                THEN commands[4] = Plain("complete") /\ Len(commands) = 4
                ELSE /\ commands[4].type = "diagnose"
                     /\ commands[4].order \in SetToSeqs(events[2].files)
          \/ events[3].type = "cancel" /\ commands[4] = Plain("fail") /\ Len(commands) = 4
  /\ Len(commands) = 5 => commands[5] = Plain("complete")

\* Each result is that of a scheduled activity, with the input of its slot.
Results ==
  \A i \in 1..Len(events) : events[i].type \in {"info", "preview"} =>
    /\ events[i].slot \in 1..Len(Scheduled)
    /\ events[i].file = Scheduled[events[i].slot]

\* The first events that a copy has applied, once it waits past MkDir.
Prepared == /\ consumed >= 3
            /\ events[1].type = "renamed"
            /\ events[2].type = "listed"
            /\ events[3].type = "madeDir"

\* A copy that waits has issued and applied as much as its place says.
Copy ==
  /\ pc = "evicted" => emitted = 0 /\ consumed = 0
  /\ pc = "rename" => emitted = 1 /\ consumed = 0
  /\ pc = "list" => emitted = 2 /\ consumed = 1 /\ events[1].type = "renamed"
  /\ pc = "mkdir" => /\ emitted = 3 /\ consumed = 2
                     /\ events[1].type = "renamed" /\ events[2].type = "listed"
                     /\ state.Files = [f \in events[2].files |-> NewFileState]
  /\ pc = "diagnose" => emitted = 4 /\ order # <<>>
  /\ pc = "returned" => Closed
  /\ order # <<>> => /\ pc \in {"diagnose", "returned"}
                      /\ Len(commands) >= 4 /\ Prepared
                      /\ order \in SetToSeqs(events[2].files)

\* Each result is delivered once.
Once ==
  \A i, j \in 1..Len(events) :
    events[i].type \in {"info", "preview"}
      /\ events[j].type = events[i].type /\ events[j].slot = events[i].slot => i = j

\* So are the files that were listed.
ListedOnce ==
  \A i \in 1..Len(events) :
    /\ events[i].type # "listed" => events[i].files = {}
    /\ \A j \in 1..Len(events) : events[i].type = "listed" /\ events[j].type = "listed" => i = j

\* The activities before the loop start one after the other, and so they close.
FirstEvents ==
  /\ Len(events) >= 1 => events[1].type \in {"renamed", "renameFailed", "cancel"}
  /\ Len(events) >= 2 /\ events[1].type = "renamed" => events[2].type \in {"listed", "cancel"}
  /\ Len(events) >= 3 /\ events[1].type = "renamed" /\ events[2].type = "listed" =>
       events[3].type \in {"madeDir", "cancel"}

\* Nothing but results and a cancellation follows the three activities before the loop.
LoopEvents ==
  Len(events) >= 3 /\ events[1].type = "renamed" /\ events[2].type = "listed"
    /\ events[3].type = "madeDir" =>
      \A i \in 4..Len(events) : events[i].type \in {"info", "preview", "cancel"}

\* A copy in the loop has returned from one Select for each event since MkDir.
Counted ==
  /\ pc \in {"evicted", "rename", "list", "mkdir"} => selected = 0
  /\ pc = "diagnose" => selected + 3 = consumed

\* A run that had files to diagnose has completed after a cancellation or all results;
\* a copy in the loop has not come that far.
Ended ==
  Len(commands) = 5 =>
    (\E i \in 4..Len(events) : events[i].type = "cancel") \/ Len(events) >= 2 * Len(Scheduled) + 3
Looping ==
  pc = "diagnose" => selected < diagCount /\ \A i \in 4..consumed : events[i].type # "cancel"

\* The history has gone past RenameFile, or past ListVideoFiles.
PastRename == Len(commands) >= 2 /\ commands[2].type = "list"
PastList   == Len(commands) >= 3 /\ commands[3].type = "mkdir"

\* The State of a copy announces nothing that the history does not have.
Truthful ==
  /\ state.DirectoryMoved => Happened("renamed")
  /\ state.FilesListed => Happened("renamed") /\ Happened("listed")
  /\ state.GotFileDiagnostics => Happened("renamed") /\ Happened("listed") /\ Completed

\* It announces a step only with the next command, and all that the copy has come to.
UpToDate ==
  /\ state.DirectoryMoved => PastRename
  /\ state.FilesListed => PastList
  /\ pc \in {"list", "mkdir", "diagnose"} => state.DirectoryMoved
  /\ pc \in {"mkdir", "diagnose"} => state.FilesListed
  /\ pc = "returned" => /\ PastRename => state.DirectoryMoved
                        /\ PastList => state.FilesListed
                        /\ Completed => state.GotFileDiagnostics

\* The last answer is as far as the history at most; a run that failed is not queried.
Announced ==
  /\ shown \in {"directory_moved", "files_listed", "got_file_diagnostics"} => PastRename
  /\ shown \in {"files_listed", "got_file_diagnostics"} => PastList
  /\ shown = "failed" => ~asking

\* Replays reproduce the history (NeverDiverges), and the count of Selects is that
\* of the results (CompletesDiagnosed, NeverHangs), and answers neither go back nor lag
\* (AnswersAreCurrent), because of all of these.
IInv ==
  /\ TypeOK /\ NeverDiverges
  /\ History /\ Results /\ Copy /\ ResultsFollowSlots
  /\ Once /\ ListedOnce /\ FirstEvents /\ LoopEvents /\ Counted /\ CompletesDiagnosed
  /\ Ended /\ Looping /\ UpToDate
  /\ Truthful /\ Announced /\ StatusIsEarned
=============================================================================
