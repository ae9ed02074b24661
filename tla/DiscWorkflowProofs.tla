------------------------- MODULE DiscWorkflowProofs -------------------------
(***************************************************************************)
(* Theorems about DiscWorkflow, for every finite set of files.             *)
(***************************************************************************)
EXTENDS DiscWorkflow, FiniteSetTheorems, TLAPS

\* An order of the loop of disc.go:119 names each listed file once.
LEMMA LoopOrderLemma ==
  ASSUME NEW S, IsFiniteSet(S), NEW o \in SetToSeqs(S)
  PROVE  /\ o \in Seq(S)
         /\ Len(o) = Cardinality(S)
         /\ \A s, t \in 1..Len(o) : o[s] = o[t] => s = t
         /\ S = {o[s] : s \in 1..Len(o)}
<1> DEFINE D == 1..Cardinality(S)
<1>1. Cardinality(S) \in Nat
  BY FS_CardinalityType
<1>2. o \in [D -> S] /\ \A i, j \in D : i # j => o[i] # o[j]
  BY DEF SetToSeqs
<1>3. o \in Seq(S) /\ Len(o) = Cardinality(S)
  BY <1>1, <1>2
<1>4. o \in Injection(D, S)
  BY <1>2 DEF Injection, IsInjective
<1>5. IsFiniteSet(D) /\ Cardinality(D) = Cardinality(S)
  BY <1>1, FS_Interval
<1>6. o \in Surjection(D, S)
  BY <1>4, <1>5, FS_Injection
<1>7. S = {o[s] : s \in D}
  BY <1>2, <1>6 DEF Surjection
<1> QED
  BY <1>2, <1>3, <1>7

LEMMA NewStateType == NewFileState \in FileState /\ NewState \in State
  BY DEF NewFileState, FileState, NewState, State

-----------------------------------------------------------------------------
(* Type correctness *)

\* Emit keeps the history a sequence of commands, and the copy within it.
LEMMA EmitType ==
  ASSUME commands \in Seq(Command), emitted \in 0..Len(commands),
         NEW cmd \in Command, NEW next \in Waits, Emit(cmd, next)
  PROVE  commands' \in Seq(Command) /\ emitted' \in 0..Len(commands') /\ pc' \in Waits
  BY DEF Emit, Waits

LEMMA ConsumeType ==
  ASSUME TypeOK, NEW types, Consume(types)
  PROVE  /\ Ev \in Event /\ Ev.type \in types
         /\ events' = events /\ asking' = asking /\ shown' = shown
         /\ consumed' = consumed + 1 /\ consumed' \in 0..Len(events)
  BY DEF TypeOK, Consume, Ev, client

LEMMA PlainType ==
  \A t \in CommandTypes : Plain(t) \in Command
  BY DEF Plain, Command

LEMMA SelectedType ==
  ASSUME TypeOK, NEW n \in Nat, NEW s \in State, Selected(n, s)
  PROVE  /\ commands' \in Seq(Command) /\ emitted' \in 0..Len(commands') /\ pc' \in Waits
         /\ selected' \in Nat /\ state' \in State
<1>1. Plain("complete") \in Command /\ "returned" \in Waits
  BY PlainType DEF CommandTypes, Waits
<1>2. [s EXCEPT !.GotFileDiagnostics = TRUE] \in State
  BY DEF State
<1>3. CASE n = diagCount
  BY <1>1, <1>2, <1>3, EmitType DEF Selected, TypeOK
<1>4. CASE n # diagCount
  BY <1>4 DEF Selected, TypeOK
<1> QED
  BY <1>3, <1>4

LEMMA ScheduledType ==
  ASSUME TypeOK
  PROVE  Scheduled \in Seq(Files)
<1>1. CASE Len(commands) >= 4
  <2>1. commands \in Seq(Command)
    BY DEF TypeOK
  <2>2. commands[4] \in Command
    BY <1>1, <2>1
  <2> QED
    BY <1>1, <2>2 DEF Scheduled, Command
<1>2. CASE ~(Len(commands) >= 4)
  BY <1>2 DEF Scheduled
<1> QED
  BY <1>1, <1>2

\* Writing one entry of state.Files.
LEMMA StateUpdateType ==
  ASSUME NEW s \in State, NEW f, NEW v \in Files \cup {None}
  PROVE  /\ [s EXCEPT !.Files[f].info = v] \in State
         /\ [s EXCEPT !.Files[f].preview = TRUE] \in State
<1>1. PICK S \in SUBSET Files : s.Files \in [S -> FileState]
  BY DEF State
<1>2. [s.Files EXCEPT ![f].info = v] \in [S -> FileState]
  BY <1>1 DEF FileState
<1>3. [s.Files EXCEPT ![f].preview = TRUE] \in [S -> FileState]
  BY <1>1 DEF FileState
<1>4. \A F \in [S -> FileState] : [s EXCEPT !.Files = F] \in State
  BY DEF State
<1> QED
  BY <1>2, <1>3, <1>4
\* A delivery adds one event to the history and changes nothing else.
LEMMA DeliverType ==
  ASSUME TypeOK, NEW t \in EventTypes, NEW S \in SUBSET Files, NEW s \in Nat,
         NEW f \in Files \cup {None}, Deliver(t, S, s, f)
  PROVE  TypeOK'
<1>1. [type |-> t, files |-> S, slot |-> s, file |-> f] \in Event
  BY DEF Event
<1>2. events' \in Seq(Event) /\ Len(events') = Len(events) + 1
  BY <1>1 DEF Deliver, TypeOK
<1> QED
  BY <1>2 DEF Deliver, TypeOK, memory, client

LEMMA StatusValues ==
  {Statuses[i] : i \in 1..5}
    = {"running", "directory_moved", "files_listed", "got_file_diagnostics", "failed"}
<1>1. 1..5 = {1, 2, 3, 4, 5}
  OBVIOUS
<1> QED
  BY <1>1 DEF Statuses

LEMMA TypeInit == Init => TypeOK
<1> SUFFICES ASSUME Init PROVE TypeOK
  OBVIOUS
<1>1. commands \in Seq(Command) /\ events \in Seq(Event) /\ order \in Seq(Files)
  BY DEF Init
<1>2. consumed \in 0..Len(events) /\ emitted \in 0..Len(commands) /\ selected \in Nat
  BY DEF Init
<1>3. pc \in Waits /\ state \in State /\ asking \in BOOLEAN
  BY NewStateType DEF Init, Waits
<1>4. shown \in {Statuses[i] : i \in 1..5}
  BY StatusValues DEF Init
<1> QED
  BY <1>1, <1>2, <1>3, <1>4 DEF TypeOK

LEMMA TypeNext == TypeOK /\ [Next]_vars => TypeOK'
<1> SUFFICES ASSUME TypeOK, [Next]_vars PROVE TypeOK'
  OBVIOUS
<1> USE DEF TypeOK
<1>1. CASE Begin
  <2>1. commands' \in Seq(Command) /\ emitted' \in 0..Len(commands') /\ pc' \in Waits
    BY <1>1, PlainType, EmitType DEF Begin, CommandTypes, Waits
  <2> QED
    BY <1>1, <2>1 DEF Begin, client
<1>2. CASE OnRenamed
  <2>1. commands' \in Seq(Command) /\ emitted' \in 0..Len(commands') /\ pc' \in Waits
    BY <1>2, PlainType, EmitType DEF OnRenamed, CommandTypes, Waits
  <2>2. state' \in State
    BY <1>2 DEF OnRenamed, State
  <2> QED
    BY <1>2, <2>1, <2>2, ConsumeType DEF OnRenamed
<1>3. CASE OnRenameFailed
  <2>1. commands' \in Seq(Command) /\ emitted' \in 0..Len(commands') /\ pc' \in Waits
    BY <1>3, PlainType, EmitType DEF OnRenameFailed, CommandTypes, Waits
  <2> QED
    BY <1>3, <2>1, ConsumeType DEF OnRenameFailed
<1>4. CASE OnListed
  <2>1. commands' \in Seq(Command) /\ emitted' \in 0..Len(commands') /\ pc' \in Waits
    BY <1>4, PlainType, EmitType DEF OnListed, CommandTypes, Waits
  <2>2. Ev \in Event
    BY <1>4, ConsumeType DEF OnListed
  <2>3. Ev.files \in SUBSET Files
    BY <2>2 DEF Event
  <2>4. [f \in Ev.files |-> NewFileState] \in [Ev.files -> FileState]
    BY NewStateType
  <2>5. state' \in State
    BY <1>4, <2>3, <2>4 DEF OnListed, State
  <2> QED
    BY <1>4, <2>1, <2>5, ConsumeType DEF OnListed
<1>5. CASE OnMadeDir
  <2>1. PICK o \in LoopOrders :
           /\ order' = o
           /\ IF o = <<>>
              THEN /\ state' = [state EXCEPT !.GotFileDiagnostics = TRUE]
                   /\ Emit(Plain("complete"), "returned")
              ELSE /\ UNCHANGED state
                   /\ Emit(Diagnose(o), "diagnose")
    BY <1>5 DEF OnMadeDir
  <2>2. PICK S \in SUBSET Files : state.Files \in [S -> FileState]
    BY DEF State
  <2>3. IsFiniteSet(DOMAIN state.Files) /\ DOMAIN state.Files \subseteq Files
    BY <2>2, FS_Subset, FilesAssumption
  <2>4. o \in Seq(DOMAIN state.Files)
    BY <2>3, LoopOrderLemma DEF LoopOrders
  <2>5. o \in Seq(Files)
    BY <2>3, <2>4
  <2>6. Diagnose(o) \in Command
    BY <2>5 DEF Diagnose, Command, CommandTypes
  <2>7. commands' \in Seq(Command) /\ emitted' \in 0..Len(commands') /\ pc' \in Waits
    BY <2>1, <2>6, PlainType, EmitType DEF CommandTypes, Waits
  <2>8. state' \in State
    BY <2>1 DEF State
  <2> QED
    BY <1>5, <2>1, <2>5, <2>7, <2>8, ConsumeType DEF OnMadeDir
<1>6. CASE OnVideoInfo
  <2>1. Ev \in Event /\ selected + 1 \in Nat
    BY <1>6, ConsumeType DEF OnVideoInfo
  <2>2. [state EXCEPT !.Files[order[Ev.slot]].info = Ev.file] \in State
    BY <2>1, StateUpdateType DEF Event
  <2> QED
    BY <1>6, <2>1, <2>2, ConsumeType, SelectedType DEF OnVideoInfo
<1>7. CASE OnPreview
  <2>1. Ev \in Event /\ selected + 1 \in Nat
    BY <1>7, ConsumeType DEF OnPreview
  <2>2. [state EXCEPT !.Files[order[Ev.slot]].preview = TRUE] \in State
    BY <2>1, StateUpdateType
  <2> QED
    BY <1>7, <2>1, <2>2, ConsumeType, SelectedType DEF OnPreview
<1>8. CASE OnCancel
  <2>1. CASE pc \in {"rename", "list", "mkdir"} /\ Emit(Plain("fail"), "returned")
             /\ UNCHANGED <<selected, state>>
    <3>1. commands' \in Seq(Command) /\ emitted' \in 0..Len(commands') /\ pc' \in Waits
      BY <2>1, PlainType, EmitType DEF CommandTypes, Waits
    <3> QED
      BY <1>8, <2>1, <3>1, ConsumeType DEF OnCancel
  <2>2. CASE Selected(diagCount, state)
    <3>1. diagCount \in Nat
      BY DEF diagCount
    <3> QED
      BY <1>8, <2>2, <3>1, ConsumeType, SelectedType DEF OnCancel
  <2> QED
    BY <1>8, <2>1, <2>2 DEF OnCancel
<1>9. CASE RenameFileCloses
  BY <1>9, DeliverType DEF RenameFileCloses, EventTypes
<1>10. CASE ListVideoFilesCloses
  BY <1>10, DeliverType DEF ListVideoFilesCloses, EventTypes
<1>11. CASE MkDirCloses
  BY <1>11, DeliverType DEF MkDirCloses, EventTypes
<1>12. CASE GetVideoInfoCloses
  BY <1>12, DeliverType, ScheduledType DEF GetVideoInfoCloses, EventTypes
<1>13. CASE TranscodeCloses
  BY <1>13, DeliverType, ScheduledType DEF TranscodeCloses, EventTypes
<1>14. CASE RequestCancel
  BY <1>14, DeliverType DEF RequestCancel, EventTypes
<1>15. CASE Evict
  BY <1>15, NewStateType DEF Evict, durable, client, Waits
<1>16. CASE GetDisc
  <2>1. \A s : StatusOf(s) \in {Statuses[i] : i \in 1..5}
    BY StatusValues DEF StatusOf
  <2>2. "failed" \in {Statuses[i] : i \in 1..5}
    BY StatusValues
  <2>3. UNCHANGED <<commands, events, pc, consumed, emitted, order, selected, state>>
    BY <1>16 DEF GetDisc, Describe, Query, QueryFails, durable, memory
  <2>4. asking' \in BOOLEAN
    BY <1>16 DEF GetDisc, Describe, Query, QueryFails
  <2>5. shown' \in {Statuses[i] : i \in 1..5}
    BY <1>16, <2>1, <2>2 DEF GetDisc, Describe, Query, QueryFails
  <2> QED
    BY <2>3, <2>4, <2>5
<1>17. CASE UNCHANGED vars
  BY <1>17 DEF vars
<1> QED
  BY <1>1, <1>2, <1>3, <1>4, <1>5, <1>6, <1>7, <1>8, <1>9, <1>10, <1>11, <1>12, <1>13,
     <1>14, <1>15, <1>16, <1>17 DEF Next, Worker, Activities

\* Every variable keeps its type in every run, for any finite set of files.
THEOREM TypeCorrect == Spec => []TypeOK
  BY TypeInit, TypeNext, PTL DEF Spec

-----------------------------------------------------------------------------
(* A replay reproduces the history *)

Core == TypeOK /\ NeverDiverges /\ History /\ Copy

\* A command that agrees with the recorded one, if there is one, is harmless.
LEMMA EmitMatching ==
  ASSUME commands \in Seq(Command), emitted \in 0..Len(commands),
         NEW cmd, NEW next, Emit(cmd, next),
         emitted < Len(commands) => Matches(cmd, commands[emitted + 1])
  PROVE  /\ pc' = next /\ emitted' = emitted + 1
         /\ \/ emitted < Len(commands) /\ commands' = commands
            \/ /\ emitted = Len(commands)
               /\ Len(commands') = emitted + 1
               /\ \A i \in 1..emitted : commands'[i] = commands[i]
               /\ commands'[emitted + 1] = cmd
<1>1. CASE emitted < Len(commands)
  BY <1>1 DEF Emit
<1>2. CASE emitted = Len(commands)
  <2>1. \A i \in 1..Len(commands) : Append(commands, cmd)[i] = commands[i]
    OBVIOUS
  <2>2. Append(commands, cmd)[Len(commands) + 1] = cmd /\ Len(Append(commands, cmd)) = Len(commands) + 1
    OBVIOUS
  <2> QED
    BY <1>2, <2>1, <2>2 DEF Emit
<1> QED
  BY <1>1, <1>2

LEMMA PlainMatches == \A t : Matches(Plain(t), Plain(t))
  BY DEF Matches, Plain

\* What a delivery does to the history.
LEMMA DeliverStep ==
  ASSUME TypeOK, NEW t, NEW S, NEW s, NEW f, Deliver(t, S, s, f)
  PROVE  /\ Len(events') = Len(events) + 1
         /\ \A i \in 1..Len(events) : events'[i] = events[i]
         /\ events'[Len(events) + 1] = [type |-> t, files |-> S, slot |-> s, file |-> f]
         /\ UNCHANGED <<commands, pc, consumed, emitted, order, selected, state, asking, shown>>
         /\ ~Closed
  BY DEF Deliver, TypeOK, memory, client

\* A delivery never disturbs what was applied, nor the commands.
LEMMA CoreDeliver ==
  ASSUME TypeOK', NeverDiverges, History, Copy, TypeOK,
         NEW t, NEW S, NEW s, NEW f, Deliver(t, S, s, f)
  PROVE  NeverDiverges' /\ History' /\ Copy'
<1>1. UNCHANGED <<commands, pc, consumed, emitted, order, state>>
  BY DeliverStep
<1>2. Len(events) \in Nat /\ Len(events') \in Nat /\ consumed \in 0..Len(events)
  BY DEF TypeOK
<1>3. /\ Len(events') >= Len(events)
      /\ Len(events) >= 1 => events'[1] = events[1]
      /\ Len(events) >= 2 => events'[2] = events[2]
      /\ Len(events) >= 3 => events'[3] = events[3]
  <2>1. Len(events') = Len(events) + 1 /\ \A i \in 1..Len(events) : events'[i] = events[i]
    BY DeliverStep
  <2> QED
    BY <1>2, <2>1
<1>4. NeverDiverges'
  BY <1>1 DEF NeverDiverges
<1>5. History'
  BY <1>1, <1>2, <1>3 DEF History
<1>6. Closed' <=> Closed
  BY <1>1 DEF Closed, Completed, Failed, Recorded
<1>7. Copy'
  BY <1>1, <1>2, <1>3, <1>6 DEF Copy, Prepared
<1> QED
  BY <1>4, <1>5, <1>7

\* Losing or polling a copy leaves the history as it is.
LEMMA CoreSame ==
  ASSUME History, UNCHANGED <<commands, events>>
  PROVE  History' /\ (Closed' <=> Closed)
<1>1. History'
  BY DEF History
<1> QED
  BY <1>1 DEF Closed, Completed, Failed, Recorded

LEMMA CoreBegin == Core /\ TypeOK' /\ Begin => Core'
<1> SUFFICES ASSUME Core, TypeOK', Begin PROVE Core'
  OBVIOUS
<1> USE DEF Core
<1>1. emitted = 0 /\ consumed = 0 /\ order = <<>> /\ pc = "evicted"
  BY DEF Begin, Copy
<1>2. Emit(Plain("rename"), "rename") /\ UNCHANGED <<events, consumed, order, state>>
  BY DEF Begin
<1>3. commands \in Seq(Command) /\ emitted \in 0..Len(commands)
  BY DEF TypeOK
<1>match. emitted < Len(commands) => Matches(Plain("rename"), commands[emitted + 1])
  BY <1>1, <1>3, PlainMatches DEF History
<1>4. /\ pc' = "rename" /\ emitted' = 1
      /\ \/ commands' = commands
         \/ Len(commands') = 1 /\ commands'[1] = Plain("rename")
  BY <1>1, <1>2, <1>3, <1>match, EmitMatching
<1>5. History'
  <2>1. CASE commands' = commands
    BY <1>2, <2>1, CoreSame
  <2>2. CASE Len(commands') = 1 /\ commands'[1] = Plain("rename")
    BY <2>2 DEF History
  <2> QED
    BY <1>4, <2>1, <2>2
<1>6. order' = <<>> /\ consumed' = 0
  BY <1>1, <1>2
<1>7. Copy'
  BY <1>4, <1>6 DEF Copy
<1> QED
  BY <1>4, <1>5, <1>7 DEF NeverDiverges

LEMMA CoreOnRenamed == Core /\ TypeOK' /\ OnRenamed => Core'
<1> SUFFICES ASSUME Core, TypeOK', OnRenamed PROVE Core'
  OBVIOUS
<1> USE DEF Core
<1>1. emitted = 1 /\ consumed = 0 /\ order = <<>> /\ pc = "rename"
  BY DEF OnRenamed, Copy
<1>2. /\ events[1].type = "renamed" /\ 0 < Len(events)
      /\ UNCHANGED <<events, order>> /\ consumed' = 1
  BY <1>1 DEF OnRenamed, Consume, Ev
<1>3. commands \in Seq(Command) /\ emitted \in 0..Len(commands) /\ Len(events) \in Nat
  BY DEF TypeOK
<1>4. emitted < Len(commands) => Matches(Plain("list"), commands[emitted + 1])
  BY <1>1, <1>2, <1>3, PlainMatches DEF History
<1>5. /\ pc' = "list" /\ emitted' = 2
      /\ \/ commands' = commands
         \/ /\ Len(commands) = 1 /\ Len(commands') = 2
            /\ commands'[1] = commands[1] /\ commands'[2] = Plain("list")
  BY <1>1, <1>3, <1>4, EmitMatching DEF OnRenamed
<1>6. History'
  <2>1. CASE commands' = commands
    BY <1>2, <2>1, CoreSame
  <2>2. CASE /\ Len(commands) = 1 /\ Len(commands') = 2
             /\ commands'[1] = commands[1] /\ commands'[2] = Plain("list")
    BY <1>2, <1>3, <2>2 DEF History
  <2> QED
    BY <1>5, <2>1, <2>2
<1>7. Copy'
  BY <1>1, <1>2, <1>5 DEF Copy
<1> QED
  BY <1>5, <1>6, <1>7 DEF NeverDiverges

LEMMA CoreOnListed == Core /\ TypeOK' /\ OnListed => Core'
<1> SUFFICES ASSUME Core, TypeOK', OnListed PROVE Core'
  OBVIOUS
<1> USE DEF Core
<1>1. emitted = 2 /\ consumed = 1 /\ order = <<>> /\ pc = "list" /\ events[1].type = "renamed"
  BY DEF OnListed, Copy
<1>2. /\ events[2].type = "listed" /\ 1 < Len(events)
      /\ UNCHANGED <<events, order>> /\ consumed' = 2
      /\ state'.Files = [f \in events[2].files |-> NewFileState]
  BY <1>1 DEF OnListed, Consume, Ev, TypeOK, State
<1>3. commands \in Seq(Command) /\ emitted \in 0..Len(commands) /\ Len(events) \in Nat
  BY DEF TypeOK
<1>4. emitted < Len(commands) => Matches(Plain("mkdir"), commands[emitted + 1])
  BY <1>1, <1>2, <1>3, PlainMatches DEF History
<1>5. /\ pc' = "mkdir" /\ emitted' = 3
      /\ \/ commands' = commands
         \/ /\ Len(commands) = 2 /\ Len(commands') = 3
            /\ commands'[1] = commands[1] /\ commands'[2] = commands[2]
            /\ commands'[3] = Plain("mkdir")
  BY <1>1, <1>3, <1>4, EmitMatching DEF OnListed
<1>6. History'
  <2>1. CASE commands' = commands
    BY <1>2, <2>1, CoreSame
  <2>2. CASE /\ Len(commands) = 2 /\ Len(commands') = 3
             /\ commands'[1] = commands[1] /\ commands'[2] = commands[2]
             /\ commands'[3] = Plain("mkdir")
    BY <1>1, <1>2, <1>3, <2>2 DEF History
  <2> QED
    BY <1>5, <2>1, <2>2
<1>7. Copy'
  BY <1>1, <1>2, <1>5 DEF Copy
<1> QED
  BY <1>5, <1>6, <1>7 DEF NeverDiverges

\* Returning an error, after the n-th event and nothing else.
LEMMA CoreFail ==
  ASSUME Core, TypeOK', NEW n \in 1..3, pc = <<"rename", "list", "mkdir">>[n],
         consumed < Len(events), Ev.type \in {"renameFailed", "cancel"},
         Ev.type = "renameFailed" => n = 1,
         Emit(Plain("fail"), "returned"), UNCHANGED <<events, order>>
  PROVE  Core'
<1> USE DEF Core
<1>1. pc \in {"rename", "list", "mkdir"} /\ order = <<>> /\ emitted = n /\ consumed = n - 1
  BY DEF Copy
<1>2. commands \in Seq(Command) /\ emitted \in 0..Len(commands) /\ Len(events) \in Nat
  BY DEF TypeOK
<1>3. /\ n <= Len(events) /\ events[n].type \in {"renameFailed", "cancel"}
      /\ events[n].type = "renameFailed" => n = 1
  BY <1>1, <1>2 DEF Ev
<1>4. /\ n >= 2 => events[1].type = "renamed"
      /\ n >= 3 => events[2].type = "listed"
  BY DEF Copy
<1>5. emitted < Len(commands) => commands[n + 1] = Plain("fail")
  BY <1>1, <1>2, <1>3, <1>4 DEF History
<1>6. /\ pc' = "returned" /\ emitted' = n + 1
      /\ \/ commands' = commands /\ n < Len(commands)
         \/ /\ Len(commands) = n /\ Len(commands') = n + 1
            /\ \A i \in 1..n : commands'[i] = commands[i]
            /\ commands'[n + 1] = Plain("fail")
  BY <1>1, <1>2, <1>5, PlainMatches, EmitMatching
<1>7. History'
  <2>1. CASE commands' = commands
    BY <2>1, CoreSame
  <2>2. CASE /\ Len(commands) = n /\ Len(commands') = n + 1
             /\ \A i \in 1..n : commands'[i] = commands[i]
             /\ commands'[n + 1] = Plain("fail")
    BY <1>2, <1>3, <1>4, <2>2 DEF History
  <2> QED
    BY <1>6, <2>1, <2>2
<1>8. Closed'
  <2>1. n + 1 \in 1..Len(commands') /\ commands'[n + 1].type = "fail"
    BY <1>1, <1>2, <1>5, <1>6 DEF Plain
  <2> QED
    BY <2>1 DEF Closed, Failed, Recorded
<1>9. Copy'
  BY <1>1, <1>6, <1>8 DEF Copy
<1> QED
  BY <1>6, <1>7, <1>9 DEF NeverDiverges

LEMMA ListedFinite ==
  ASSUME TypeOK, NEW i \in 1..Len(events)
  PROVE  events[i].files \in SUBSET Files /\ IsFiniteSet(events[i].files)
<1>1. events[i] \in Event
  BY DEF TypeOK
<1> QED
  BY <1>1, FS_Subset, FilesAssumption DEF Event

LEMMA CoreOnMadeDir == Core /\ TypeOK' /\ OnMadeDir => Core'
<1> SUFFICES ASSUME Core, TypeOK', OnMadeDir PROVE Core'
  OBVIOUS
<1> USE DEF Core
<1>1. /\ emitted = 3 /\ consumed = 2 /\ order = <<>> /\ pc = "mkdir"
      /\ events[1].type = "renamed" /\ events[2].type = "listed"
      /\ DOMAIN state.Files = events[2].files
  BY DEF OnMadeDir, Copy
<1>2. /\ events[3].type = "madeDir" /\ 2 < Len(events)
      /\ UNCHANGED events /\ consumed' = 3
  BY <1>1 DEF OnMadeDir, Consume, Ev
<1>3. commands \in Seq(Command) /\ emitted \in 0..Len(commands) /\ Len(events) \in Nat
  BY DEF TypeOK
<1>4. PICK o \in SetToSeqs(events[2].files) :
         /\ order' = o
         /\ IF o = <<>> THEN Emit(Plain("complete"), "returned")
                        ELSE Emit(Diagnose(o), "diagnose")
  BY <1>1 DEF OnMadeDir, LoopOrders
<1>5. IsFiniteSet(events[2].files)
  BY <1>2, <1>3, ListedFinite
<1>6. o = <<>> <=> events[2].files = {}
  BY <1>4, <1>5, LoopOrderLemma
<1>head. Len(commands) = 3 => /\ commands[1] = Plain("rename") /\ commands[2] = Plain("list")
                           /\ commands[3] = Plain("mkdir")
  BY <1>1, <1>2, <1>3 DEF History
<1>7. CASE o = <<>>
  <2>1. emitted < Len(commands) => Len(commands) = 4 /\ commands[4] = Plain("complete")
    BY <1>1, <1>2, <1>3, <1>6, <1>7 DEF History
  <2>2. /\ pc' = "returned" /\ emitted' = 4
        /\ \/ commands' = commands /\ Len(commands) = 4
           \/ /\ Len(commands) = 3 /\ Len(commands') = 4
              /\ commands'[1] = commands[1] /\ commands'[2] = commands[2]
              /\ commands'[3] = commands[3] /\ commands'[4] = Plain("complete")
    BY <1>1, <1>3, <1>4, <1>7, <2>1, PlainMatches, EmitMatching
  <2>3. History'
    <3>1. CASE commands' = commands
      BY <1>2, <3>1, CoreSame
    <3>2. CASE Len(commands) = 3
      <4>1. /\ Len(commands') = 4
            /\ commands'[1] = Plain("rename") /\ commands'[2] = Plain("list")
            /\ commands'[3] = Plain("mkdir") /\ commands'[4] = Plain("complete")
        BY <1>head, <2>2, <3>2
      <4>2. /\ Len(events') >= 3 /\ events'[1].type = "renamed" /\ events'[2].type = "listed"
            /\ events'[3].type = "madeDir" /\ events'[2].files = {}
        BY <1>1, <1>2, <1>3, <1>6, <1>7
      <4> QED
        BY <4>1, <4>2 DEF History
    <3> QED
      BY <2>2, <3>1, <3>2
  <2>4. Closed'
    <3>1. 4 \in 1..Len(commands') /\ commands'[4].type = "complete"
      BY <1>1, <1>3, <2>1, <2>2 DEF Plain
    <3> QED
      BY <3>1 DEF Closed, Completed, Recorded
  <2>5. Copy'
    BY <1>4, <1>7, <2>2, <2>4 DEF Copy
  <2> QED
    BY <2>2, <2>3, <2>5 DEF NeverDiverges
<1>8. CASE o # <<>>
  <2>1. emitted < Len(commands) => Matches(Diagnose(o), commands[4])
    <3>1. ASSUME emitted < Len(commands)
          PROVE  commands[4].type = "diagnose" /\ commands[4].order \in SetToSeqs(events[2].files)
      BY <1>1, <1>2, <1>3, <1>6, <1>8, <3>1 DEF History
    <3>2. \A q \in SetToSeqs(events[2].files) : Len(q) = Cardinality(events[2].files)
      BY <1>5, LoopOrderLemma
    <3> QED
      BY <1>4, <3>1, <3>2 DEF Matches, Diagnose
  <2>2. /\ pc' = "diagnose" /\ emitted' = 4
        /\ \/ commands' = commands /\ 4 <= Len(commands)
           \/ /\ Len(commands) = 3 /\ Len(commands') = 4
              /\ commands'[1] = commands[1] /\ commands'[2] = commands[2]
              /\ commands'[3] = commands[3] /\ commands'[4] = Diagnose(o)
    BY <1>1, <1>3, <1>4, <1>8, <2>1, EmitMatching
  <2>3. History'
    <3>1. CASE commands' = commands
      BY <1>2, <3>1, CoreSame
    <3>2. CASE Len(commands) = 3
      <4>1. commands'[4].type = "diagnose" /\ commands'[4].order \in SetToSeqs(events[2].files)
        BY <1>3, <1>4, <2>2, <3>2 DEF Diagnose
      <4>2. /\ Len(commands') = 4
            /\ commands'[1] = Plain("rename") /\ commands'[2] = Plain("list")
            /\ commands'[3] = Plain("mkdir")
        BY <1>head, <1>3, <2>2, <3>2
      <4>3. /\ Len(events') >= 3 /\ events'[1].type = "renamed" /\ events'[2].type = "listed"
            /\ events'[3].type = "madeDir" /\ events'[2].files # {} /\ events'[2] = events[2]
        BY <1>1, <1>2, <1>3, <1>6, <1>8
      <4> QED
        BY <4>1, <4>2, <4>3 DEF History
    <3> QED
      BY <2>2, <3>1, <3>2
  <2>4. Prepared'
    BY <1>1, <1>2 DEF Prepared
  <2>5. Copy'
    BY <1>2, <1>4, <1>8, <2>2, <2>4 DEF Copy
  <2> QED
    BY <2>2, <2>3, <2>5 DEF NeverDiverges
<1> QED
  BY <1>7, <1>8

\* What a copy in the loop knows of the history.
LEMMA Diagnosing ==
  ASSUME Core, order # <<>>
  PROVE  /\ 3 <= Len(events) /\ 4 <= Len(commands)
         /\ events[1].type = "renamed" /\ events[2].type = "listed" /\ events[3].type = "madeDir"
         /\ order \in SetToSeqs(events[2].files) /\ IsFiniteSet(events[2].files)
         /\ commands[4].type = "diagnose" /\ Scheduled = commands[4].order
         /\ Scheduled \in SetToSeqs(events[2].files) /\ events[2].files # {}
<1> USE DEF Core
<1>1. commands \in Seq(Command) /\ Len(events) \in Nat /\ consumed \in 0..Len(events)
  BY DEF TypeOK
<1>2. /\ 4 <= Len(commands) /\ consumed >= 3
      /\ events[1].type = "renamed" /\ events[2].type = "listed" /\ events[3].type = "madeDir"
      /\ order \in SetToSeqs(events[2].files)
  BY DEF Copy, Prepared
<1>3. IsFiniteSet(events[2].files)
  BY <1>1, <1>2, ListedFinite
<1>4. events[2].files # {}
  BY <1>2, <1>3, LoopOrderLemma
<1>5. commands[4].type = "diagnose" /\ commands[4].order \in SetToSeqs(events[2].files)
  BY <1>1, <1>2, <1>4 DEF History
<1> QED
  BY <1>1, <1>2, <1>3, <1>4, <1>5 DEF Scheduled

\* The end of a callback, or of the wait.
LEMMA CoreSelected ==
  ASSUME Core, TypeOK', pc = "diagnose", NEW n, NEW s, Selected(n, s),
         UNCHANGED <<events, order>>, consumed' = consumed + 1
  PROVE  Core'
<1> USE DEF Core
<1>1. emitted = 4 /\ order # <<>>
  BY DEF Copy
<1>2. commands \in Seq(Command) /\ emitted \in 0..Len(commands) /\ consumed \in Nat
  BY DEF TypeOK
<1>3. Prepared'
  BY <1>1, <1>2 DEF Copy, Prepared
<1>4. CASE n = diagCount
  <2>1. Emit(Plain("complete"), "returned")
    BY <1>4 DEF Selected
  <2>2. emitted < Len(commands) => Len(commands) = 5 /\ commands[5] = Plain("complete")
    <3>1. Len(commands) \in Nat /\ Len(commands) <= 5
      BY <1>2 DEF History
    <3>2. Len(commands) = 5 => commands[5] = Plain("complete")
      BY DEF History
    <3>3. \A k \in Nat : k <= 5 /\ 4 < k => k = 5
      OBVIOUS
    <3> QED
      BY <1>1, <3>1, <3>2, <3>3
  <2>3. /\ pc' = "returned" /\ emitted' = 5
        /\ \/ commands' = commands /\ Len(commands) = 5
           \/ /\ Len(commands) = 4 /\ Len(commands') = 5
              /\ \A i \in 1..4 : commands'[i] = commands[i]
              /\ commands'[5] = Plain("complete")
    BY <1>1, <1>2, <2>1, <2>2, PlainMatches, EmitMatching
  <2>4. History'
    <3>1. CASE commands' = commands
      BY <3>1, CoreSame
    <3>2. CASE Len(commands) = 4 /\ Len(commands') = 5
      <4>1. /\ Len(events) >= 3 /\ commands[4].type = "diagnose"
            /\ events[1].type = "renamed" /\ events[2].type = "listed"
            /\ events[3].type = "madeDir" /\ events[2].files # {}
            /\ commands[4].order \in SetToSeqs(events[2].files)
        BY <1>1, Diagnosing
      <4>2. /\ commands[1] = Plain("rename") /\ commands[2] = Plain("list")
            /\ commands[3] = Plain("mkdir")
        BY <3>2, <4>1 DEF History
      <4>3. /\ commands'[1] = Plain("rename") /\ commands'[2] = Plain("list")
            /\ commands'[3] = Plain("mkdir") /\ commands'[4] = commands[4]
            /\ commands'[5] = Plain("complete")
        BY <1>2, <2>3, <3>2, <4>2
      <4> QED
        BY <3>2, <4>1, <4>3 DEF History
    <3> QED
      BY <2>3, <3>1, <3>2
  <2>5. Closed'
    <3>1. 5 \in 1..Len(commands') /\ commands'[5].type = "complete"
      BY <1>1, <1>2, <2>2, <2>3 DEF Plain
    <3> QED
      BY <3>1 DEF Closed, Completed, Recorded
  <2>6. Copy'
    BY <1>1, <1>3, <2>3, <2>5 DEF Copy
  <2> QED
    BY <2>3, <2>4, <2>6 DEF NeverDiverges
<1>5. CASE n # diagCount
  <2>1. UNCHANGED <<commands, emitted, pc>>
    BY <1>5 DEF Selected
  <2>2. History'
    BY <2>1, CoreSame
  <2>3. Copy'
    BY <1>1, <1>3, <2>1 DEF Copy
  <2> QED
    BY <2>1, <2>2, <2>3 DEF NeverDiverges
<1> QED
  BY <1>4, <1>5

LEMMA CoreInit == Init => Core
  BY TypeInit DEF Init, Core, NeverDiverges, History, Copy

LEMMA CoreNext == Core /\ [Next]_vars => Core'
<1> SUFFICES ASSUME Core, [Next]_vars PROVE Core'
  OBVIOUS
<1>1. TypeOK /\ TypeOK'
  BY TypeNext DEF Core
<1>2. CASE Begin
  BY <1>1, <1>2, CoreBegin
<1>3. CASE OnRenamed
  BY <1>1, <1>3, CoreOnRenamed
<1>4. CASE OnRenameFailed
  <2>1. pc = <<"rename", "list", "mkdir">>[1]
    BY <1>4 DEF OnRenameFailed
  <2> QED
    BY <1>1, <1>4, <2>1, CoreFail DEF OnRenameFailed, Consume
<1>5. CASE OnListed
  BY <1>1, <1>5, CoreOnListed
<1>6. CASE OnMadeDir
  BY <1>1, <1>6, CoreOnMadeDir
<1>7. CASE OnVideoInfo
  BY <1>1, <1>7, CoreSelected DEF OnVideoInfo, Consume
<1>8. CASE OnPreview
  BY <1>1, <1>8, CoreSelected DEF OnPreview, Consume
<1>9. CASE OnCancel
  <2>1. CASE /\ pc \in {"rename", "list", "mkdir"}
             /\ Emit(Plain("fail"), "returned")
    <3>1. PICK n \in 1..3 : pc = <<"rename", "list", "mkdir">>[n]
      BY <2>1
    <3> QED
      BY <1>1, <1>9, <2>1, <3>1, CoreFail DEF OnCancel, Consume
  <2>2. CASE pc = "diagnose" /\ Selected(diagCount, state)
    BY <1>1, <1>9, <2>2, CoreSelected DEF OnCancel, Consume
  <2> QED
    BY <1>9, <2>1, <2>2 DEF OnCancel
<1>10. CASE Activities
  BY <1>1, <1>10, CoreDeliver DEF Core, Activities, RenameFileCloses, ListVideoFilesCloses,
     MkDirCloses, GetVideoInfoCloses, TranscodeCloses
<1>11. CASE RequestCancel
  BY <1>1, <1>11, CoreDeliver DEF Core, RequestCancel
<1>12. CASE Evict
  <2>1. /\ UNCHANGED <<commands, events>> /\ pc' = "evicted"
        /\ emitted' = 0 /\ consumed' = 0 /\ order' = <<>>
    BY <1>12 DEF Evict, durable
  <2>2. History'
    BY <2>1, CoreSame DEF Core
  <2> QED
    BY <1>1, <2>1, <2>2 DEF Core, NeverDiverges, Copy
<1>13. CASE GetDisc \/ UNCHANGED vars
  <2>1. UNCHANGED <<commands, events, pc, consumed, emitted, order, selected, state>>
    BY <1>13 DEF GetDisc, Describe, Query, QueryFails, durable, memory, vars
  <2>2. History' /\ (Closed' <=> Closed)
    BY <2>1, CoreSame DEF Core
  <2>3. Copy'
    BY <2>1, <2>2 DEF Core, Copy, Prepared
  <2> QED
    BY <1>1, <2>1, <2>2, <2>3 DEF Core, NeverDiverges
<1> QED
  BY <1>2, <1>3, <1>4, <1>5, <1>6, <1>7, <1>8, <1>9, <1>10, <1>11, <1>12, <1>13 DEF Next, Worker

LEMMA CoreInvariant == Spec => []Core
  BY CoreInit, CoreNext, PTL DEF Spec

\* However often a copy is lost, and in whatever order its loop ranges over the
\* map of disc.go:119, a replay issues the commands of the history.
THEOREM ReplaysMatch == Spec => []NeverDiverges
<1>1. Core => NeverDiverges
  BY DEF Core
<1> QED
  BY <1>1, CoreInvariant, PTL

-----------------------------------------------------------------------------
(* Results go to their slots *)

LEMMA EmitGrows ==
  ASSUME commands \in Seq(Command), emitted \in 0..Len(commands),
         NEW cmd, NEW next, Emit(cmd, next)
  PROVE  /\ Len(commands') >= Len(commands)
         /\ \A i \in 1..Len(commands) : commands'[i] = commands[i]
  BY DEF Emit

\* The history only ever grows.
LEMMA Grows ==
  ASSUME TypeOK, [Next]_vars
  PROVE  /\ Len(events') >= Len(events) /\ Len(commands') >= Len(commands)
         /\ \A i \in 1..Len(events) : events'[i] = events[i]
         /\ \A i \in 1..Len(commands) : commands'[i] = commands[i]
<1>1. /\ commands \in Seq(Command) /\ emitted \in 0..Len(commands)
      /\ events \in Seq(Event) /\ Len(events) \in Nat /\ Len(commands) \in Nat
  BY DEF TypeOK
<1>2. CASE Begin \/ OnRenamed \/ OnRenameFailed \/ OnListed
  BY <1>1, <1>2, EmitGrows DEF Begin, OnRenamed, OnRenameFailed, OnListed, Consume
<1>3. CASE OnMadeDir
  BY <1>1, <1>3, EmitGrows DEF OnMadeDir, Consume
<1>4. CASE OnVideoInfo \/ OnPreview \/ OnCancel
  <2>1. ASSUME NEW n, NEW s, Selected(n, s)
        PROVE  /\ Len(commands') >= Len(commands)
               /\ \A i \in 1..Len(commands) : commands'[i] = commands[i]
    BY <1>1, <2>1, EmitGrows DEF Selected
  <2> QED
    BY <1>1, <1>4, <2>1, EmitGrows DEF OnVideoInfo, OnPreview, OnCancel, Consume
<1>5. CASE Activities \/ RequestCancel
  <2>1. ASSUME NEW t, NEW S, NEW s, NEW f, Deliver(t, S, s, f)
        PROVE  /\ Len(events') >= Len(events) /\ commands' = commands
               /\ \A i \in 1..Len(events) : events'[i] = events[i]
    <3>1. /\ Len(events') = Len(events) + 1 /\ commands' = commands
          /\ \A i \in 1..Len(events) : events'[i] = events[i]
      BY <2>1, DeliverStep
    <3> QED
      BY <1>1, <3>1
  <2> QED
    BY <1>1, <1>5, <2>1 DEF Activities, RenameFileCloses, ListVideoFilesCloses,
       MkDirCloses, GetVideoInfoCloses, TranscodeCloses, RequestCancel
<1>6. CASE Evict \/ GetDisc \/ UNCHANGED vars
  <2>1. UNCHANGED <<commands, events>>
    BY <1>6 DEF Evict, GetDisc, Describe, Query, QueryFails, durable, vars
  <2> QED
    BY <1>1, <2>1
<1> QED
  BY <1>2, <1>3, <1>4, <1>5, <1>6 DEF Next, Worker

LEMMA HappenedStays ==
  ASSUME TypeOK, [Next]_vars
  PROVE  /\ \A t : Happened(t) => Happened(t)'
         /\ Completed => Completed'
         /\ Failed => Failed'
<1>1. Len(events) \in Nat /\ Len(commands) \in Nat /\ Len(events') \in Nat /\ Len(commands') \in Nat
  BY TypeNext DEF TypeOK
<1>2. /\ \A i \in 1..Len(events) : i \in 1..Len(events') /\ events'[i] = events[i]
      /\ \A i \in 1..Len(commands) : i \in 1..Len(commands') /\ commands'[i] = commands[i]
  BY <1>1, Grows
<1>3. \A t : Happened(t) => Happened(t)'
  BY <1>2 DEF Happened
<1>4. (Completed => Completed') /\ (Failed => Failed')
  BY <1>2 DEF Completed, Failed, Recorded
<1> QED
  BY <1>3, <1>4

\* The slots are set once.
LEMMA ScheduledStays ==
  ASSUME TypeOK, [Next]_vars
  PROVE  Scheduled' = Scheduled \/ Scheduled = <<>>
<1>1. Len(commands) \in Nat /\ Len(commands') \in Nat
  BY TypeNext DEF TypeOK
<1> QED
  BY <1>1, Grows DEF Scheduled

LEMMA ResultsNext ==
  ASSUME TypeOK, Results, [Next]_vars
  PROVE  Results'
<1>1. Len(events) \in Nat /\ Scheduled \in Seq(Files) /\ Len(Scheduled) \in Nat
  BY ScheduledType DEF TypeOK
<1>2. CASE events' = events
  <2>1. CASE Scheduled' = Scheduled
    BY <1>2, <2>1 DEF Results
  <2>2. CASE Scheduled = <<>>
    <3>1. \A i \in 1..Len(events) : events[i].type \notin {"info", "preview"}
      BY <2>2 DEF Results
    <3> QED
      BY <1>2, <3>1 DEF Results
  <2> QED
    BY <2>1, <2>2, ScheduledStays
<1>3. ASSUME NEW t, NEW S, NEW s, NEW f, Deliver(t, S, s, f),
             t \in {"info", "preview"} => s \in 1..Len(Scheduled) /\ f = Scheduled[s]
      PROVE  Results'
  <2>1. /\ Len(events') = Len(events) + 1
        /\ \A i \in 1..Len(events) : events'[i] = events[i]
        /\ events'[Len(events) + 1] = [type |-> t, files |-> S, slot |-> s, file |-> f]
        /\ commands' = commands
    BY <1>3, DeliverStep
  <2>2. Scheduled' = Scheduled
    BY <2>1 DEF Scheduled
  <2>3. ASSUME NEW i \in 1..Len(events'), events'[i].type \in {"info", "preview"}
        PROVE  events'[i].slot \in 1..Len(Scheduled) /\ events'[i].file = Scheduled[events'[i].slot]
    <3>1. CASE i \in 1..Len(events)
      BY <2>1, <2>3, <3>1 DEF Results
    <3>2. CASE i = Len(events) + 1
      BY <1>3, <2>1, <2>3, <3>2
    <3> QED
      BY <1>1, <2>1, <3>1, <3>2
  <2> QED
    BY <2>2, <2>3 DEF Results
<1>4. CASE Worker \/ Evict \/ GetDisc \/ UNCHANGED vars
  <2>1. events' = events
    BY <1>4 DEF Worker, Begin, OnRenamed, OnRenameFailed, OnListed, OnMadeDir, OnVideoInfo,
       OnPreview, OnCancel, Consume, Evict, GetDisc, Describe, Query, QueryFails, durable, vars
  <2> QED
    BY <1>2, <2>1
<1>5. CASE Activities \/ RequestCancel
  BY <1>1, <1>3, <1>5 DEF Activities, RenameFileCloses, ListVideoFilesCloses,
     MkDirCloses, GetVideoInfoCloses, TranscodeCloses, RequestCancel
<1> QED
  BY <1>4, <1>5 DEF Next

\* A copy that applies an event has then applied it, and all it had before.
LEMMA AppliedStep ==
  ASSUME TypeOK, NEW types, Consume(types), NEW t, NEW s
  PROVE  Applied(t, s)' <=> (Applied(t, s) \/ (Ev.type = t /\ Ev.slot = s))
<1>1. events' = events /\ consumed' = consumed + 1 /\ consumed \in Nat
  BY DEF Consume, TypeOK
<1>2. \A i : i \in 1..consumed' <=> (i \in 1..consumed \/ i = consumed + 1)
  BY <1>1
<1> QED
  BY <1>1, <1>2 DEF Applied, Ev

Inv == Core /\ Results /\ ResultsFollowSlots

\* While the loop runs, state.Files has one entry for each slot.
LEMMA Slots ==
  ASSUME Inv, order # <<>>
  PROVE  /\ order \in Seq(Files) /\ Len(order) \in Nat /\ Len(Scheduled) = Len(order)
         /\ \A s, t \in 1..Len(order) : order[s] = order[t] => s = t
         /\ DOMAIN state.Files = {order[s] : s \in 1..Len(order)}
         /\ events[2].files = {order[s] : s \in 1..Len(order)}
         /\ state.Files \in [DOMAIN state.Files -> FileState]
<1> USE DEF Inv
<1>1. order \in SetToSeqs(events[2].files) /\ IsFiniteSet(events[2].files)
  BY Diagnosing
<1>scheduled. Scheduled \in SetToSeqs(events[2].files)
  BY Diagnosing
<1>2. /\ \A s, t \in 1..Len(order) : order[s] = order[t] => s = t
      /\ Len(Scheduled) = Len(order)
      /\ events[2].files = {order[s] : s \in 1..Len(order)}
  <2>1. Len(Scheduled) = Cardinality(events[2].files)
    BY <1>1, <1>scheduled, LoopOrderLemma
  <2>2. Len(order) = Cardinality(events[2].files)
    BY <1>1, LoopOrderLemma
  <2>3. events[2].files = {order[s] : s \in 1..Len(order)}
    BY <1>1, LoopOrderLemma
  <2>4. \A s, t \in 1..Len(order) : order[s] = order[t] => s = t
    BY <1>1, LoopOrderLemma
  <2> QED
    BY <2>1, <2>2, <2>3, <2>4
<1>3. order \in Seq(Files) /\ Len(order) \in Nat
  BY DEF Core, TypeOK
<1>4. DOMAIN state.Files = {order[s] : s \in 1..Len(order)}
  BY DEF ResultsFollowSlots
<1>5. state.Files \in [DOMAIN state.Files -> FileState]
  BY DEF Core, TypeOK, State
<1> QED
  BY <1>2, <1>3, <1>4, <1>5

\* In the loop the slots stay as they were scheduled.
LEMMA SameSlots ==
  ASSUME Core, order # <<>>, [Next]_vars
  PROVE  Scheduled' = Scheduled
<1>1. Len(Scheduled) = Cardinality(events[2].files) /\ Len(order) = Cardinality(events[2].files)
      /\ order \in Seq(events[2].files)
  BY Diagnosing, LoopOrderLemma
<1>2. Scheduled # <<>>
  BY <1>1
<1> QED
  BY <1>2, ScheduledStays DEF Core

LEMMA FollowOnMadeDir ==
  ASSUME Inv, Core', OnMadeDir
  PROVE  ResultsFollowSlots'
<1> SUFFICES ASSUME order' # <<>>
             PROVE  ResultsFollowSlots'
  BY DEF ResultsFollowSlots
<1>1. /\ consumed = 2 /\ events' = events /\ consumed' = 3 /\ 3 <= Len(events)
      /\ events[1].type = "renamed" /\ events[2].type = "listed" /\ events[3].type = "madeDir"
      /\ state.Files = [f \in events[2].files |-> NewFileState]
  BY DEF Inv, Core, Copy, OnMadeDir, Consume, Ev, TypeOK
<1>2. state' = state
  BY DEF OnMadeDir
<1>3. order' \in SetToSeqs(events[2].files) /\ IsFiniteSet(events[2].files)
  <2>1. 2 \in 1..Len(events)
    BY <1>1 DEF Inv, Core, TypeOK
  <2>2. IsFiniteSet(events[2].files)
    BY <2>1, ListedFinite DEF Inv, Core
  <2> QED
    BY <1>1, <2>2 DEF Core, Copy
<1>4. events[2].files = {order'[s] : s \in 1..Len(order')}
  BY <1>3, LoopOrderLemma
<1>5. 1..consumed' = {1, 2, 3}
  BY <1>1
<1>6. \A s : ~Applied("info", s)' /\ ~Applied("preview", s)'
  BY <1>1, <1>5 DEF Applied
<1>7. \A s \in 1..Len(order') : state'.Files[order'[s]] = NewFileState
  BY <1>1, <1>2, <1>4
<1>8. DOMAIN state'.Files = {order'[s] : s \in 1..Len(order')}
  BY <1>1, <1>2, <1>4
<1>9. NewFileState.info = None /\ NewFileState.preview = FALSE
  BY DEF NewFileState
<1>10. ASSUME NEW s \in 1..Len(order')
       PROVE  /\ state'.Files[order'[s]].info = (IF Applied("info", s)' THEN Scheduled'[s] ELSE None)
              /\ state'.Files[order'[s]].preview = Applied("preview", s)'
  <2>1. state'.Files[order'[s]] = NewFileState
    BY <1>7
  <2>2. Applied("preview", s)' = FALSE
    BY <1>6 DEF Applied
  <2> QED
    BY <1>6, <1>9, <2>1, <2>2
<1> QED
  BY <1>8, <1>10 DEF ResultsFollowSlots

\* What the end of a callback does to the entries.
LEMMA SelectedFiles ==
  ASSUME TypeOK, NEW n, NEW s \in State, Selected(n, s)
  PROVE  state'.Files = s.Files
  BY DEF Selected, State

LEMMA FollowEnd ==
  ASSUME order' = order, Scheduled' = Scheduled,
         DOMAIN state'.Files = {order[s] : s \in 1..Len(order)},
         \A s \in 1..Len(order) :
           /\ state'.Files[order[s]].info = (IF Applied("info", s)' THEN Scheduled[s] ELSE None)
           /\ state'.Files[order[s]].preview = Applied("preview", s)'
  PROVE  ResultsFollowSlots'
  BY DEF ResultsFollowSlots

\* One of the two callbacks writes its result, v, to the entry of its slot.
LEMMA FollowCallback ==
  ASSUME Inv, Core', [Next]_vars, order # <<>>, order' = order,
         NEW kind \in {"info", "preview"}, Consume({kind}),
         state'.Files = IF kind = "info"
                        THEN [state.Files EXCEPT ![order[Ev.slot]].info = Ev.file]
                        ELSE [state.Files EXCEPT ![order[Ev.slot]].preview = TRUE]
  PROVE  ResultsFollowSlots'
<1> DEFINE z == Ev.slot
<1>1. Scheduled' = Scheduled
  BY SameSlots DEF Inv
<1>2. Ev.type = kind /\ consumed + 1 \in 1..Len(events)
  BY DEF Inv, Core, TypeOK, Consume
<1>3. z \in 1..Len(order) /\ Ev.file = Scheduled[z]
  BY <1>2, Slots DEF Inv, Results, Ev
<1>4. DOMAIN state'.Files = {order[s] : s \in 1..Len(order)}
  BY Slots
<1>5. ASSUME NEW s \in 1..Len(order)
      PROVE  /\ state'.Files[order[s]].info
                   = (IF Applied("info", s)' THEN Scheduled[s] ELSE None)
             /\ state'.Files[order[s]].preview = Applied("preview", s)'
  <2>1. /\ state.Files[order[s]].info = (IF Applied("info", s) THEN Scheduled[s] ELSE None)
        /\ state.Files[order[s]].preview = Applied("preview", s)
    BY DEF Inv, ResultsFollowSlots
  <2>2. /\ Applied("info", s)' <=> (Applied("info", s) \/ (Ev.type = "info" /\ z = s))
        /\ Applied("preview", s)' <=> (Applied("preview", s) \/ (Ev.type = "preview" /\ z = s))
    BY AppliedStep DEF Inv, Core
  <2>3. order[s] = order[z] <=> s = z
    BY <1>3, Slots
  <2>4. order[s] \in DOMAIN state.Files /\ state.Files[order[s]] \in FileState
    BY Slots
  <2>5. Applied("preview", s) \in BOOLEAN /\ Applied("preview", s)' \in BOOLEAN
    BY DEF Applied
  <2>6. CASE s # z
    <3>1. state'.Files[order[s]] = state.Files[order[s]]
      BY <2>3, <2>4, <2>6
    <3> QED
      BY <2>1, <2>2, <2>5, <2>6, <3>1
  <2>7. CASE s = z /\ kind = "info"
    <3>1. /\ state'.Files[order[s]].info = Scheduled[s]
          /\ state'.Files[order[s]].preview = state.Files[order[s]].preview
      BY <1>3, <2>4, <2>7 DEF FileState
    <3> QED
      BY <1>2, <2>1, <2>2, <2>5, <2>7, <3>1
  <2>8. CASE s = z /\ kind = "preview"
    <3>1. /\ state'.Files[order[s]].preview = TRUE
          /\ state'.Files[order[s]].info = state.Files[order[s]].info
      BY <2>4, <2>8 DEF FileState
    <3> QED
      BY <1>2, <2>1, <2>2, <2>5, <2>8, <3>1
  <2> QED
    BY <2>6, <2>7, <2>8
<1> QED
  BY <1>1, <1>4, <1>5, FollowEnd

\* A step that applies no result and writes no entry.
LEMMA FollowSame ==
  ASSUME Inv, Core', [Next]_vars, order # <<>>, order' = order,
         state'.Files = state.Files,
         \A t \in {"info", "preview"}, s \in 1..Len(order) : Applied(t, s)' <=> Applied(t, s)
  PROVE  ResultsFollowSlots'
<1>1. Scheduled' = Scheduled
  BY SameSlots DEF Inv
<1>2. \A s \in 1..Len(order) : Applied("preview", s) \in BOOLEAN /\ Applied("preview", s)' \in BOOLEAN
  BY DEF Applied
<1>3. /\ DOMAIN state.Files = {order[s] : s \in 1..Len(order)}
      /\ \A s \in 1..Len(order) :
           /\ state.Files[order[s]].info = (IF Applied("info", s) THEN Scheduled[s] ELSE None)
           /\ state.Files[order[s]].preview = Applied("preview", s)
  BY DEF Inv, ResultsFollowSlots
<1>4. ASSUME NEW s \in 1..Len(order)
      PROVE  /\ state'.Files[order[s]].info
                   = (IF Applied("info", s)' THEN Scheduled[s] ELSE None)
             /\ state'.Files[order[s]].preview = Applied("preview", s)'
  <2>1. /\ Applied("info", s)' <=> Applied("info", s)
        /\ Applied("preview", s)' <=> Applied("preview", s)
    OBVIOUS
  <2> QED
    BY <1>2, <1>3, <2>1
<1> QED
  BY <1>1, <1>3, <1>4, FollowEnd

LEMMA FollowDeliver ==
  ASSUME Inv, Core', [Next]_vars, NEW t, NEW S, NEW s, NEW f, Deliver(t, S, s, f)
  PROVE  ResultsFollowSlots'
<1>1. /\ order' = order /\ state' = state /\ consumed' = consumed
      /\ \A i \in 1..Len(events) : events'[i] = events[i]
  BY DeliverStep DEF Inv, Core
<1>2. \A i \in 1..consumed : events'[i] = events[i]
  BY <1>1 DEF Inv, Core, TypeOK
<1>3. \A k \in {"info", "preview"}, z \in 1..Len(order) : Applied(k, z)' <=> Applied(k, z)
  BY <1>1, <1>2 DEF Applied
<1>4. CASE order = <<>>
  BY <1>1, <1>4 DEF ResultsFollowSlots
<1>5. CASE order # <<>>
  BY <1>1, <1>3, <1>5, FollowSame
<1> QED
  BY <1>4, <1>5

LEMMA FollowNext == Inv /\ Core' /\ [Next]_vars => ResultsFollowSlots'
<1> SUFFICES ASSUME Inv, Core', [Next]_vars PROVE ResultsFollowSlots'
  OBVIOUS
<1>1. TypeOK /\ state \in State /\ selected + 1 \in Nat /\ Copy
  BY DEF Inv, Core, TypeOK
<1>2. order' = <<>> => ResultsFollowSlots'
  BY DEF ResultsFollowSlots
<1>3. CASE Begin \/ OnRenamed \/ OnRenameFailed \/ OnListed
  <2>1. order = <<>> /\ order' = order
    BY <1>1, <1>3 DEF Begin, OnRenamed, OnRenameFailed, OnListed, Copy
  <2> QED
    BY <1>2, <2>1
<1>4. CASE OnMadeDir
  BY <1>4, FollowOnMadeDir
<1>5. CASE OnVideoInfo
  <2>1. /\ order # <<>> /\ order' = order /\ Consume({"info"})
        /\ Selected(selected + 1, [state EXCEPT !.Files[order[Ev.slot]].info = Ev.file])
    BY <1>1, <1>5 DEF OnVideoInfo, Copy
  <2>2. Ev \in Event
    BY <1>1, <2>1, ConsumeType
  <2>3. [state EXCEPT !.Files[order[Ev.slot]].info = Ev.file] \in State
    BY <1>1, <2>2, StateUpdateType DEF Event
  <2>4. state'.Files = [state EXCEPT !.Files[order[Ev.slot]].info = Ev.file].Files
    BY <1>1, <2>1, <2>3, SelectedFiles
  <2>5. state'.Files = [state.Files EXCEPT ![order[Ev.slot]].info = Ev.file]
    BY <1>1, <2>4 DEF State
  <2> QED
    BY <2>1, <2>5, FollowCallback
<1>6. CASE OnPreview
  <2>1. /\ order # <<>> /\ order' = order /\ Consume({"preview"})
        /\ Selected(selected + 1, [state EXCEPT !.Files[order[Ev.slot]].preview = TRUE])
    BY <1>1, <1>6 DEF OnPreview, Copy
  <2>2. [state EXCEPT !.Files[order[Ev.slot]].preview = TRUE] \in State
    BY <1>1, StateUpdateType
  <2>3. state'.Files = [state EXCEPT !.Files[order[Ev.slot]].preview = TRUE].Files
    BY <1>1, <2>1, <2>2, SelectedFiles
  <2>4. state'.Files = [state.Files EXCEPT ![order[Ev.slot]].preview = TRUE]
    BY <1>1, <2>3 DEF State
  <2>5. "preview" # "info"
    OBVIOUS
  <2> QED
    BY <2>1, <2>4, <2>5, FollowCallback
<1>7. CASE OnCancel
  <2>1. CASE order = <<>>
    BY <1>2, <1>7, <2>1 DEF OnCancel
  <2>2. CASE order # <<>>
    <3>1. order' = order /\ Consume({"cancel"}) /\ state'.Files = state.Files
      BY <1>1, <1>7, SelectedFiles DEF OnCancel
    <3>2. Ev.type = "cancel"
      BY <3>1 DEF Consume
    <3>3. \A t \in {"info", "preview"}, s \in 1..Len(order) : Applied(t, s)' <=> Applied(t, s)
      BY <1>1, <3>1, <3>2, AppliedStep
    <3> QED
      BY <2>2, <3>1, <3>3, FollowSame
  <2> QED
    BY <2>1, <2>2
<1>8. CASE Activities \/ RequestCancel
  BY <1>8, FollowDeliver DEF Activities, RenameFileCloses, ListVideoFilesCloses,
     MkDirCloses, GetVideoInfoCloses, TranscodeCloses, RequestCancel
<1>9. CASE Evict
  BY <1>2, <1>9 DEF Evict
<1>10. CASE GetDisc \/ UNCHANGED vars
  <2>1. UNCHANGED <<commands, events, pc, consumed, emitted, order, selected, state>>
    BY <1>10 DEF GetDisc, Describe, Query, QueryFails, durable, memory, vars
  <2>2. \A t \in {"info", "preview"}, s \in 1..Len(order) : Applied(t, s)' <=> Applied(t, s)
    BY <2>1 DEF Applied
  <2> QED
    BY <1>2, <2>1, <2>2, FollowSame
<1> QED
  BY <1>3, <1>4, <1>5, <1>6, <1>7, <1>8, <1>9, <1>10 DEF Next, Worker

LEMMA InvInvariant == Spec => []Inv
<1>1. Init => Inv
  BY CoreInit DEF Inv, Init, Results, ResultsFollowSlots
<1>2. Inv /\ [Next]_vars => Inv'
  <2>1. Inv /\ [Next]_vars => Core'
    BY CoreNext DEF Inv
  <2>2. Inv /\ [Next]_vars => Results'
    BY ResultsNext DEF Inv, Core
  <2> QED
    BY <2>1, <2>2, FollowNext DEF Inv
<1> QED
  BY <1>1, <1>2, PTL DEF Spec

\* The two callbacks of disc.go:132-143 and 167-176 put each result, once, into the
\* entry of its slot, and nothing else ever writes there: for any number of files,
\* any order of arrival and any number of replays.
THEOREM NoResultIsLost == Spec => []ResultsFollowSlots
<1>1. Inv => ResultsFollowSlots
  BY DEF Inv
<1> QED
  BY <1>1, InvInvariant, PTL

-----------------------------------------------------------------------------
(* The Selects are counted right *)

LEMMA OnceNext == TypeOK /\ Once /\ [Next]_vars => Once'
<1> SUFFICES ASSUME TypeOK, Once, [Next]_vars PROVE Once'
  OBVIOUS
<1>1. Len(events) \in Nat
  BY DEF TypeOK
<1>2. CASE UNCHANGED events
  BY <1>2 DEF Once
<1>3. ASSUME NEW t, NEW S, NEW s, NEW f, Deliver(t, S, s, f),
             t \in {"info", "preview"} => ~Delivered(t, s)
      PROVE  Once'
  <2>1. /\ Len(events') = Len(events) + 1
        /\ \A i \in 1..Len(events) : events'[i] = events[i]
        /\ events'[Len(events) + 1] = [type |-> t, files |-> S, slot |-> s, file |-> f]
    BY <1>3, DeliverStep
  <2>2. \A i \in 1..Len(events') : i \in 1..Len(events) \/ i = Len(events) + 1
    BY <1>1, <2>1
  <2>3. ASSUME NEW i \in 1..Len(events'), NEW j \in 1..Len(events'),
               events'[i].type \in {"info", "preview"},
               events'[j].type = events'[i].type, events'[j].slot = events'[i].slot
        PROVE  i = j
    <3>1. CASE i \in 1..Len(events) /\ j \in 1..Len(events)
      BY <2>1, <2>3, <3>1 DEF Once
    <3>2. CASE i = Len(events) + 1 /\ j \in 1..Len(events)
      BY <1>3, <2>1, <2>3, <3>2 DEF Delivered
    <3>3. CASE i \in 1..Len(events) /\ j = Len(events) + 1
      BY <1>3, <2>1, <2>3, <3>3 DEF Delivered
    <3> QED
      BY <2>2, <3>1, <3>2, <3>3
  <2> QED
    BY <2>3 DEF Once
<1>4. CASE Activities \/ RequestCancel
  BY <1>3, <1>4 DEF Activities, RenameFileCloses, ListVideoFilesCloses,
     MkDirCloses, GetVideoInfoCloses, TranscodeCloses, RequestCancel
<1>5. (Activities \/ RequestCancel) \/ UNCHANGED events
  BY DEF Next, Worker, Begin, OnRenamed, OnRenameFailed, OnListed, OnMadeDir, OnVideoInfo,
     OnPreview, OnCancel, Consume, Evict, GetDisc, Describe, Query, QueryFails, durable, vars
<1> QED
  BY <1>2, <1>4, <1>5

\* What MkDir comes after does not come again.
LEMMA LoopEventsNext == TypeOK /\ LoopEvents /\ [Next]_vars => LoopEvents'
<1> SUFFICES ASSUME TypeOK, LoopEvents, [Next]_vars PROVE LoopEvents'
  OBVIOUS
<1>1. Len(events) \in Nat
  BY DEF TypeOK
<1>2. CASE UNCHANGED events
  BY <1>2 DEF LoopEvents
<1>3. ASSUME NEW t \in EventTypes, NEW S, NEW s, NEW f, Deliver(t, S, s, f),
             t \in {"renamed", "renameFailed"} => ~Happened("renamed"),
             t = "listed" => ~Happened("listed"), t = "madeDir" => ~Happened("madeDir")
      PROVE  LoopEvents'
  <2>1. /\ Len(events') = Len(events) + 1
        /\ \A i \in 1..Len(events) : events'[i] = events[i]
        /\ events'[Len(events) + 1].type = t
    <3>1. /\ Len(events') = Len(events) + 1
          /\ \A i \in 1..Len(events) : events'[i] = events[i]
          /\ events'[Len(events) + 1] = [type |-> t, files |-> S, slot |-> s, file |-> f]
      BY <1>3, DeliverStep
    <3> QED
      BY <3>1
  <2> SUFFICES ASSUME Len(events') >= 3, events'[1].type = "renamed",
                      events'[2].type = "listed", events'[3].type = "madeDir",
                      NEW i \in 4..Len(events')
               PROVE  events'[i].type \in {"info", "preview", "cancel"}
    BY DEF LoopEvents
  <2>2. 1 \in 1..Len(events) /\ 2 \in 1..Len(events) /\ 3 \in 1..Len(events)
    BY <1>1, <2>1
  <2>3. events[1].type = "renamed" /\ events[2].type = "listed" /\ events[3].type = "madeDir"
    BY <2>1, <2>2
  <2>4. Happened("renamed") /\ Happened("listed") /\ Happened("madeDir")
    BY <2>2, <2>3 DEF Happened
  <2>5. CASE i \in 4..Len(events)
    BY <1>1, <2>1, <2>2, <2>3, <2>5 DEF LoopEvents
  <2>6. CASE i = Len(events) + 1
    BY <1>3, <2>1, <2>4, <2>6 DEF EventTypes
  <2> QED
    BY <1>1, <2>1, <2>5, <2>6
<1>4. CASE Activities \/ RequestCancel
  BY <1>3, <1>4 DEF Activities, RenameFileCloses, ListVideoFilesCloses,
     MkDirCloses, GetVideoInfoCloses, TranscodeCloses, RequestCancel, EventTypes
<1>5. (Activities \/ RequestCancel) \/ UNCHANGED events
  BY DEF Next, Worker, Begin, OnRenamed, OnRenameFailed, OnListed, OnMadeDir, OnVideoInfo,
     OnPreview, OnCancel, Consume, Evict, GetDisc, Describe, Query, QueryFails, durable, vars
<1> QED
  BY <1>2, <1>4, <1>5

\* A callback ends with the copy one Select further, or with its return.
LEMMA CountedSelected ==
  ASSUME Core, Counted, pc = "diagnose", NEW n, NEW s, Selected(n, s),
         n = selected + 1 \/ n = diagCount, consumed' = consumed + 1, Core'
  PROVE  Counted'
<1>1. consumed \in Nat /\ selected \in Nat
  BY DEF Core, TypeOK
<1>2. CASE n = diagCount
  BY <1>2 DEF Selected, Emit, Counted
<1>3. CASE n # diagCount
  BY <1>1, <1>3 DEF Selected, Counted
<1> QED
  BY <1>2, <1>3

LEMMA CountedNext == Core /\ Core' /\ Counted /\ [Next]_vars => Counted'
<1> SUFFICES ASSUME Core, Core', Counted, [Next]_vars PROVE Counted'
  OBVIOUS
<1>1. CASE Begin \/ OnRenamed \/ OnRenameFailed \/ OnListed
  BY <1>1 DEF Begin, OnRenamed, OnRenameFailed, OnListed, Emit, Counted
<1>2. CASE OnMadeDir
  <2>1. selected' = 0 /\ consumed' = 3
    BY <1>2 DEF OnMadeDir, Consume, Counted, Core, Copy
  <2> QED
    BY <2>1 DEF Counted
<1>3. CASE OnVideoInfo \/ OnPreview
  BY <1>3, CountedSelected DEF OnVideoInfo, OnPreview, Consume
<1>4. CASE OnCancel
  <2>1. CASE Emit(Plain("fail"), "returned")
    BY <2>1 DEF Emit, Counted
  <2>2. CASE pc = "diagnose" /\ Selected(diagCount, state)
    BY <1>4, <2>2, CountedSelected DEF OnCancel, Consume
  <2> QED
    BY <1>4, <2>1, <2>2 DEF OnCancel
<1>5. CASE Evict
  BY <1>5 DEF Evict, Counted
<1>6. CASE Activities \/ RequestCancel \/ GetDisc \/ UNCHANGED vars
  <2>1. UNCHANGED <<pc, selected, consumed>>
    BY <1>6 DEF Activities, RenameFileCloses, ListVideoFilesCloses, MkDirCloses,
       GetVideoInfoCloses, TranscodeCloses, RequestCancel, Deliver, memory,
       GetDisc, Describe, Query, QueryFails, vars
  <2> QED
    BY <2>1 DEF Counted
<1> QED
  BY <1>1, <1>2, <1>3, <1>4, <1>5, <1>6 DEF Next, Worker

LEMMA SumsDiffer == \A a, b, c \in Nat : a + b = a + c => b = c
  OBVIOUS

\* When the last Select returns, each of the 2 * Len(order) results has been applied:
\* those of the events after MkDir are as many, and no two are the same.
LEMMA AllResults ==
  ASSUME Inv, Once, LoopEvents, Counted, ~Happened("cancel"), pc = "diagnose",
         consumed < Len(events), selected + 1 = diagCount
  PROVE  \A s \in 1..Len(order), t \in {"info", "preview"} :
           \E i \in 1..(consumed + 1) : events[i].type = t /\ events[i].slot = s
<1> DEFINE L == Len(order)
           D == 1..(2 * L)
           f == [k \in D |-> IF events[k + 3].type = "info"
                             THEN events[k + 3].slot ELSE L + events[k + 3].slot]
<1>1. /\ order # <<>> /\ L \in Nat /\ Len(Scheduled) = L
      /\ consumed \in Nat /\ selected \in Nat /\ Len(events) \in Nat
  BY Slots DEF Inv, Core, Copy, TypeOK
<1>2. consumed + 1 = 2 * L + 3
  BY <1>1 DEF Counted, diagCount
<1>3. ASSUME NEW k \in D
      PROVE  /\ k + 3 \in 1..(consumed + 1) /\ k + 3 \in 1..Len(events)
             /\ events[k + 3].type \in {"info", "preview"}
             /\ events[k + 3].slot \in 1..L
  <2>1. k + 3 \in 1..(consumed + 1) /\ k + 3 \in 1..Len(events) /\ k + 3 \in 4..Len(events)
    BY <1>1, <1>2
  <2>2. events[k + 3].type \in {"info", "preview", "cancel"}
    BY <1>1, <2>1, Diagnosing DEF LoopEvents, Inv
  <2>3. events[k + 3].type \in {"info", "preview"}
    BY <2>1, <2>2 DEF Happened
  <2> QED
    BY <1>1, <2>1, <2>3 DEF Inv, Results
<1>4. ASSUME NEW k \in D
      PROVE  /\ f[k] \in D
             /\ f[k] <= L <=> events[k + 3].type = "info"
             /\ f[k] <= L => f[k] = events[k + 3].slot
             /\ ~(f[k] <= L) => f[k] = L + events[k + 3].slot
  <2>1. f[k] = IF events[k + 3].type = "info" THEN events[k + 3].slot ELSE L + events[k + 3].slot
    OBVIOUS
  <2>2. events[k + 3].slot \in 1..L
    BY <1>3
  <2> HIDE DEF f
  <2>3. \A z \in 1..L : z \in D /\ z <= L /\ L + z \in D /\ ~(L + z <= L)
    BY <1>1
  <2> QED
    BY <2>1, <2>2, <2>3
<1>5. ASSUME NEW j \in D, NEW k \in D, f[j] = f[k]
      PROVE  j = k
  <2>1. events[j + 3].type = events[k + 3].type /\ events[j + 3].slot = events[k + 3].slot
    <3>1. CASE f[j] <= L
      BY <1>4, <1>5, <3>1
    <3>2. CASE ~(f[j] <= L)
      <4>1. events[j + 3].type = "preview" /\ events[k + 3].type = "preview"
        BY <1>3, <1>4, <1>5, <3>2
      <4>2. L + events[j + 3].slot = L + events[k + 3].slot
        BY <1>4, <1>5, <3>2
      <4>3. events[j + 3].slot \in Nat /\ events[k + 3].slot \in Nat
        <5>1. \A z \in 1..L : z \in Nat
          BY <1>1
        <5> QED
          BY <1>3, <5>1
      <4> QED
        BY <1>1, <4>1, <4>2, <4>3, SumsDiffer
    <3> QED
      BY <3>1, <3>2
  <2>2. j + 3 = k + 3
    BY <1>3, <2>1 DEF Once
  <2> QED
    BY <2>2
<1>6. f \in Injection(D, D)
  BY <1>4, <1>5 DEF Injection, IsInjective
<1>7. IsFiniteSet(D)
  BY <1>1, FS_Interval
<1>8. f \in Surjection(D, D)
  BY <1>6, <1>7, FS_Injection
<1> HIDE DEF f
<1>9. \A y \in D : \E k \in D : f[k] = y
  BY <1>8 DEF Surjection
<1>10. ASSUME NEW s \in 1..L
       PROVE  \E i \in 1..(consumed + 1) : events[i].type = "info" /\ events[i].slot = s
  <2>1. s \in D /\ s <= L
    BY <1>1
  <2>2. PICK k \in D : f[k] = s
    BY <1>9, <2>1
  <2>3. events[k + 3].type = "info" /\ events[k + 3].slot = s
    BY <1>4, <2>1, <2>2
  <2> QED
    BY <1>3, <2>3
<1>11. ASSUME NEW s \in 1..L
       PROVE  \E i \in 1..(consumed + 1) : events[i].type = "preview" /\ events[i].slot = s
  <2>1. L + s \in D /\ ~(L + s <= L)
    BY <1>1
  <2>2. PICK k \in D : f[k] = L + s
    BY <1>9, <2>1
  <2>3. events[k + 3].type = "preview" /\ L + events[k + 3].slot = L + s
    BY <1>3, <1>4, <2>1, <2>2
  <2>4. events[k + 3].slot \in Nat /\ s \in Nat
    <3>1. \A z \in 1..L : z \in Nat
      BY <1>1
    <3> QED
      BY <1>3, <3>1
  <2>5. events[k + 3].slot = s
    BY <1>1, <2>3, <2>4, SumsDiffer
  <2> QED
    BY <1>3, <2>3, <2>5
<1> QED
  BY <1>10, <1>11

\* A run that completed went through the three activities.
LEMMA CompletedRan ==
  ASSUME TypeOK, History, Completed
  PROVE  /\ 4 <= Len(commands) /\ 3 <= Len(events)
         /\ events[1].type = "renamed" /\ events[2].type = "listed" /\ events[3].type = "madeDir"
<1>1. PICK i \in 1..Len(commands) : commands[i].type = "complete"
  BY DEF Completed, Recorded
<1>2. Len(commands) \in Nat /\ Len(commands) <= 5 /\ Len(events) \in Nat
  BY DEF TypeOK, History
<1>3. i # 1
  BY <1>1, <1>2 DEF History, Plain
<1>4. i # 2
  BY <1>1, <1>2 DEF History, Plain
<1>5. i # 3
  BY <1>1, <1>2 DEF History, Plain
<1>6. i \in 4..5 /\ 4 <= Len(commands)
  BY <1>1, <1>2, <1>3, <1>4, <1>5
<1>7. events[3].type = "madeDir" /\ 3 <= Len(events)
  <2>1. 3 <= Len(events) /\ (events[3].type = "madeDir" \/ Len(commands) = 4)
    BY <1>2, <1>6 DEF History
  <2>2. CASE Len(commands) = 4
    <3>1. commands[4].type = "complete"
      BY <1>1, <1>2, <1>6, <2>2
    <3>2. events[3].type = "madeDir" \/ commands[4] = Plain("fail")
      BY <1>2, <1>6 DEF History
    <3> QED
      BY <2>1, <3>1, <3>2 DEF Plain
  <2> QED
    BY <2>1, <2>2
<1>8. events[1].type = "renamed"
  <2>1. Len(commands) >= 2 /\ Len(commands) # 2
    <3>1. \A n \in Nat : 4 <= n => n >= 2 /\ n # 2
      OBVIOUS
    <3> QED
      BY <1>2, <1>6, <3>1
  <2> QED
    BY <2>1 DEF History
<1>9. events[2].type = "listed"
  <2>1. Len(commands) >= 3 /\ Len(commands) # 3
    <3>1. \A n \in Nat : 4 <= n => n >= 3 /\ n # 3
      OBVIOUS
    <3> QED
      BY <1>2, <1>6, <3>1
  <2> QED
    BY <2>1 DEF History
<1> QED
  BY <1>6, <1>7, <1>8, <1>9

LEMMA CompletedRanAfter ==
  Core' /\ Completed' =>
    /\ 4 <= Len(commands') /\ 3 <= Len(events')
    /\ events'[1].type = "renamed" /\ events'[2].type = "listed" /\ events'[3].type = "madeDir"
<1> DEFINE Ran == /\ 4 <= Len(commands) /\ 3 <= Len(events)
                  /\ events[1].type = "renamed" /\ events[2].type = "listed"
                  /\ events[3].type = "madeDir"
<1>1. Core /\ Completed => Ran
  BY CompletedRan DEF Core
<1>2. (Core /\ Completed)' => Ran'
  BY <1>1, PTL
<1> QED
  BY <1>2

\* Any other command than the last leaves a run as open as it was.
LEMMA EmitOther ==
  ASSUME TypeOK, NEW cmd, NEW next, Emit(cmd, next), cmd.type # "complete", Completed'
  PROVE  Completed
<1>1. commands \in Seq(Command) /\ Len(commands) \in Nat
  BY DEF TypeOK
<1>2. CASE commands' = commands
  BY <1>2 DEF Completed, Recorded
<1>3. CASE commands' = Append(commands, cmd)
  <2>1. \A i \in 1..Len(commands') :
          \/ i \in 1..Len(commands) /\ commands'[i] = commands[i]
          \/ commands'[i] = cmd
    BY <1>1, <1>3
  <2> QED
    BY <2>1 DEF Completed, Recorded
<1> QED
  BY <1>2, <1>3 DEF Emit

AllDelivered == \A s \in 1..Len(Scheduled) : Delivered("info", s) /\ Delivered("preview", s)
AllStored    == \A f \in DOMAIN state.Files : state.Files[f].info # None /\ state.Files[f].preview

\* What was delivered to a run that completed stays.
LEMMA DeliveredStays ==
  ASSUME Core, Completed, AllDelivered, [Next]_vars
  PROVE  AllDelivered'
<1>1. Len(events) \in Nat /\ Len(events') \in Nat /\ Len(commands) \in Nat /\ Len(commands') \in Nat
  <2>1. TypeOK /\ TypeOK'
    BY TypeNext DEF Core
  <2>2. events \in Seq(Event) /\ events' \in Seq(Event)
        /\ commands \in Seq(Command) /\ commands' \in Seq(Command)
    BY <2>1 DEF TypeOK
  <2> QED
    BY <2>2
<1>2. 4 <= Len(commands)
  BY CompletedRan DEF Core
<1>3. Scheduled' = Scheduled
  BY <1>1, <1>2, Grows DEF Scheduled, Core
<1>4. \A t, s : Delivered(t, s) => Delivered(t, s)'
  BY <1>1, Grows DEF Delivered, Core
<1> QED
  BY <1>3, <1>4 DEF AllDelivered

\* The step of a callback.
LEMMA CompletesCallback ==
  ASSUME Inv, Inv', Once, LoopEvents, Counted, ~Happened("cancel"), [Next]_vars,
         pc = "diagnose", NEW types, Consume(types), order' = order,
         NEW s, Selected(selected + 1, s),
         Completed => AllDelivered, Completed'
  PROVE  AllDelivered' /\ (pc' = "returned" => AllStored')
<1>1. Core /\ Core' /\ TypeOK /\ order # <<>>
  BY DEF Inv, Core, Copy
<1>2. CASE selected + 1 # diagCount
  <2>1. UNCHANGED <<commands, pc>>
    BY <1>2 DEF Selected
  <2>2. Completed
    BY <2>1 DEF Completed, Recorded
  <2> QED
    BY <1>1, <2>1, <2>2, DeliveredStays
<1>3. CASE selected + 1 = diagCount
  <2>1. /\ consumed < Len(events) /\ consumed' = consumed + 1 /\ events' = events
        /\ consumed \in Nat /\ Len(events) \in Nat
    BY <1>1 DEF Consume, TypeOK
  <2>2. \A z \in 1..Len(order), t \in {"info", "preview"} :
          \E i \in 1..(consumed + 1) : events[i].type = t /\ events[i].slot = z
    BY <1>3, <2>1, AllResults
  <2>3. Scheduled' = Scheduled /\ Len(Scheduled) = Len(order)
    BY <1>1, SameSlots, Slots
  <2>4. AllDelivered'
    <3>1. 1..(consumed + 1) \subseteq 1..Len(events')
      BY <2>1
    <3>2. ASSUME NEW z \in 1..Len(order), NEW t \in {"info", "preview"}
          PROVE  Delivered(t, z)'
      <4>1. PICK i \in 1..(consumed + 1) : events[i].type = t /\ events[i].slot = z
        BY <2>2
      <4> QED
        BY <2>1, <3>1, <4>1 DEF Delivered
    <3> QED
      BY <2>3, <3>2 DEF AllDelivered
  <2>5. ASSUME NEW f \in DOMAIN state'.Files
        PROVE  state'.Files[f].info # None /\ state'.Files[f].preview
    <3>1. PICK z \in 1..Len(order) : f = order[z]
      BY <1>1, Slots DEF Inv, ResultsFollowSlots
    <3>2. Applied("info", z)' /\ Applied("preview", z)'
      BY <2>1, <2>2 DEF Applied
    <3>3. /\ state'.Files[f].info = (IF Applied("info", z)' THEN Scheduled'[z] ELSE None)
          /\ state'.Files[f].preview = Applied("preview", z)'
      BY <1>1, <3>1 DEF Inv, ResultsFollowSlots
    <3>4. Scheduled[z] \in Files
      BY <1>1, <2>3, ScheduledType
    <3>5. state'.Files[f].info # None
      BY <2>3, <3>2, <3>3, <3>4, FilesAssumption
    <3>6. state'.Files[f].preview
      BY <3>2, <3>3
    <3> QED
      BY <3>5, <3>6
  <2> QED
    BY <2>4, <2>5 DEF AllStored
<1> QED
  BY <1>2, <1>3

\* A disc without a video file has nothing to diagnose.
LEMMA CompletesEmpty ==
  ASSUME Inv, Inv', OnMadeDir, [Next]_vars, Completed => AllDelivered, Completed'
  PROVE  AllDelivered' /\ (pc' = "returned" => AllStored')
<1>1. Core /\ Core' /\ TypeOK /\ TypeOK' /\ NeverDiverges'
  BY DEF Inv, Core
<1>2. PICK o \in LoopOrders :
        IF o = <<>>
        THEN /\ state' = [state EXCEPT !.GotFileDiagnostics = TRUE]
             /\ Emit(Plain("complete"), "returned")
        ELSE /\ UNCHANGED state
             /\ Emit(Diagnose(o), "diagnose")
  BY DEF OnMadeDir
<1>3. CASE o # <<>>
  <2>1. pc' # "returned"
    BY <1>2, <1>3 DEF Emit
  <2>2. Completed
    BY <1>1, <1>2, <1>3, EmitOther DEF Diagnose
  <2> QED
    BY <1>1, <2>1, <2>2, DeliveredStays
<1>4. CASE o = <<>>
  <2>1. /\ events' = events /\ 2 \in 1..Len(events)
        /\ state.Files = [f \in events[2].files |-> NewFileState]
    BY <1>1 DEF OnMadeDir, Consume, Core, Copy, TypeOK
  <2>2. IsFiniteSet(events[2].files) /\ DOMAIN state.Files = events[2].files
    BY <1>1, <2>1, ListedFinite
  <2>3. events[2].files = {}
    BY <1>4, <2>2, LoopOrderLemma DEF LoopOrders
  <2>4. state'.Files = state.Files
    BY <1>1, <1>2, <1>4 DEF TypeOK, State
  <2>5. AllStored'
    BY <2>2, <2>3, <2>4 DEF AllStored
  <2>6. 4 <= Len(commands') /\ events'[3].type = "madeDir"
    BY <1>1, CompletedRanAfter
  <2>7. commands'[4] = Plain("complete")
    BY <1>1, <2>1, <2>3, <2>6 DEF Core, History, TypeOK
  <2>8. Scheduled' = <<>>
    BY <1>1, <2>6, <2>7 DEF Scheduled, Plain
  <2>9. AllDelivered'
    BY <2>8 DEF AllDelivered
  <2> QED
    BY <2>5, <2>9
<1> QED
  BY <1>3, <1>4

LEMMA CompletesNext ==
  Inv /\ Inv' /\ Once /\ LoopEvents /\ Counted /\ CompletesDiagnosed /\ [Next]_vars
    => CompletesDiagnosed'
<1> SUFFICES ASSUME Inv, Inv', Once, LoopEvents, Counted, CompletesDiagnosed, [Next]_vars,
                    Completed', ~Happened("cancel")'
             PROVE  AllDelivered' /\ (pc' = "returned" => AllStored')
  BY DEF CompletesDiagnosed, AllDelivered, AllStored
<1>1. Core /\ Core' /\ TypeOK /\ TypeOK'
  BY DEF Inv, Core
<1>2. ~Happened("cancel")
  BY <1>1, HappenedStays
<1>3. Completed => AllDelivered /\ (pc = "returned" => AllStored)
  BY <1>2 DEF CompletesDiagnosed, AllDelivered, AllStored
<1>4. CASE Begin \/ OnRenamed \/ OnListed
  <2>1. Completed /\ pc' # "returned"
    <3>1. \A t \in {"rename", "list", "mkdir"} : Plain(t).type # "complete"
      BY DEF Plain
    <3>2. \E t \in {"rename", "list", "mkdir"} : Emit(Plain(t), t)
      BY <1>4 DEF Begin, OnRenamed, OnListed
    <3> QED
      BY <1>1, <3>1, <3>2, EmitOther DEF Emit
  <2> QED
    BY <1>1, <1>3, <2>1, DeliveredStays
<1>5. CASE OnRenameFailed
  <2>1. consumed = 0 /\ events' = events /\ Ev.type = "renameFailed"
    BY <1>1, <1>5 DEF OnRenameFailed, Consume, Core, Copy
  <2>2. events'[1].type = "renamed"
    BY <1>1, CompletedRanAfter
  <2> QED
    BY <2>1, <2>2 DEF Ev
<1>6. CASE OnMadeDir
  BY <1>3, <1>6, CompletesEmpty
<1>7. CASE OnVideoInfo
  BY <1>2, <1>3, <1>7, CompletesCallback DEF OnVideoInfo
<1>8. CASE OnPreview
  BY <1>2, <1>3, <1>8, CompletesCallback DEF OnPreview
<1>9. CASE OnCancel
  <2>1. consumed + 1 \in 1..Len(events) /\ events[consumed + 1].type = "cancel"
    BY <1>1, <1>9 DEF OnCancel, Consume, Ev, TypeOK
  <2> QED
    BY <1>2, <2>1 DEF Happened
<1>10. CASE Activities \/ RequestCancel
  <2>1. ~Closed /\ commands' = commands
    BY <1>10 DEF Activities, RenameFileCloses, ListVideoFilesCloses, MkDirCloses,
       GetVideoInfoCloses, TranscodeCloses, RequestCancel, Deliver
  <2> QED
    BY <2>1 DEF Closed, Completed, Recorded
<1>11. CASE Evict
  <2>1. commands' = commands /\ pc' = "evicted"
    BY <1>11 DEF Evict, durable
  <2>2. Completed
    BY <2>1 DEF Completed, Recorded
  <2> QED
    BY <1>1, <1>3, <2>1, <2>2, DeliveredStays
<1>12. CASE GetDisc \/ UNCHANGED vars
  <2>1. UNCHANGED <<commands, pc, state>>
    BY <1>12 DEF GetDisc, Describe, Query, QueryFails, durable, memory, vars
  <2>2. Completed
    BY <2>1 DEF Completed, Recorded
  <2> QED
    BY <1>1, <1>3, <2>1, <2>2, DeliveredStays DEF AllStored
<1> QED
  BY <1>4, <1>5, <1>6, <1>7, <1>8, <1>9, <1>10, <1>11, <1>12 DEF Next, Worker

LEMMA CountInvariant == Spec => [](Once /\ LoopEvents /\ Counted /\ CompletesDiagnosed)
<1>1. Init => Once /\ LoopEvents /\ Counted /\ CompletesDiagnosed
  BY DEF Init, Once, LoopEvents, Counted, CompletesDiagnosed, Completed, Recorded
<1>2. Inv /\ Inv' /\ Once /\ LoopEvents /\ Counted /\ CompletesDiagnosed /\ [Next]_vars
        => (Once /\ LoopEvents /\ Counted /\ CompletesDiagnosed)'
  BY OnceNext, LoopEventsNext, CountedNext, CompletesNext DEF Inv, Core
<1> QED
  BY <1>1, <1>2, InvInvariant, PTL DEF Spec

\* diagCount (disc.go:118, 178) is the number of results: a run that was not cancelled
\* completes with all of them, for any number of files and after any replays.
THEOREM CompletionIsWhole == Spec => []CompletesDiagnosed
  BY CountInvariant, PTL

-----------------------------------------------------------------------------
(* GetDisc announces only what happened *)

\* Issuing the completion, or meeting it in a replay, is the same thing.
LEMMA EmitsComplete ==
  ASSUME TypeOK, NeverDiverges', NEW next, Emit(Plain("complete"), next)
  PROVE  Completed'
<1>1. commands \in Seq(Command) /\ emitted \in 0..Len(commands) /\ Len(commands) \in Nat
  BY DEF TypeOK
<1>2. CASE emitted < Len(commands)
  <2>1. commands' = commands /\ Matches(Plain("complete"), commands[emitted + 1])
    BY <1>2 DEF Emit, NeverDiverges
  <2>2. emitted + 1 \in 1..Len(commands') /\ commands'[emitted + 1].type = "complete"
    BY <1>1, <1>2, <2>1 DEF Matches, Plain
  <2> QED
    BY <2>2 DEF Completed, Recorded
<1>3. CASE emitted = Len(commands)
  <2>1. commands' = Append(commands, Plain("complete"))
    BY <1>3 DEF Emit
  <2>2. Len(commands) + 1 \in 1..Len(commands') /\ commands'[Len(commands) + 1] = Plain("complete")
    BY <1>1, <2>1
  <2> QED
    BY <2>2 DEF Completed, Recorded, Plain
<1> QED
  BY <1>1, <1>2, <1>3

LEMMA SelectedTruth ==
  ASSUME Core, Core', Truthful, pc = "diagnose", [Next]_vars,
         NEW n, NEW s \in State, Selected(n, s),
         s.DirectoryMoved = state.DirectoryMoved, s.FilesListed = state.FilesListed,
         s.GotFileDiagnostics = state.GotFileDiagnostics
  PROVE  Truthful'
<1>1. TypeOK /\ NeverDiverges'
  BY DEF Core
<1>2. Happened("renamed") /\ Happened("listed")
  <2>1. order # <<>>
    BY DEF Core, Copy
  <2>2. 3 <= Len(events) /\ events[1].type = "renamed" /\ events[2].type = "listed"
    BY <2>1, Diagnosing
  <2>3. 1 \in 1..Len(events) /\ 2 \in 1..Len(events)
    BY <1>1, <2>2 DEF TypeOK
  <2> QED
    BY <2>2, <2>3 DEF Happened
<1>3. Happened("renamed")' /\ Happened("listed")'
  BY <1>1, <1>2, HappenedStays
<1>4. CASE n = diagCount
  BY <1>1, <1>3, <1>4, EmitsComplete DEF Selected, Truthful
<1>5. CASE n # diagCount
  BY <1>1, <1>3, <1>5, HappenedStays DEF Selected, Truthful
<1> QED
  BY <1>4, <1>5

LEMMA TruthfulNext == Core /\ Core' /\ Truthful /\ [Next]_vars => Truthful'
<1> SUFFICES ASSUME Core, Core', Truthful, [Next]_vars PROVE Truthful'
  OBVIOUS
<1>1. TypeOK /\ NeverDiverges' /\ Copy /\ state \in State /\ Len(events) \in Nat
  BY DEF Core, TypeOK
<1>2. CASE UNCHANGED state
  BY <1>1, <1>2, HappenedStays DEF Truthful
<1>3. CASE OnRenamed
  <2>1. Ev.type = "renamed" /\ consumed + 1 \in 1..Len(events)
    BY <1>1, <1>3 DEF OnRenamed, Consume, TypeOK
  <2>2. Happened("renamed")'
    BY <1>1, <2>1, HappenedStays DEF Happened, Ev
  <2> QED
    BY <1>1, <1>3, <2>2, HappenedStays DEF OnRenamed, Truthful, State
<1>4. CASE OnListed
  <2>1. /\ Ev.type = "listed" /\ consumed + 1 \in 1..Len(events)
        /\ events[1].type = "renamed" /\ 1 \in 1..Len(events)
    BY <1>1, <1>4 DEF OnListed, Consume, TypeOK, Copy
  <2>2. Happened("listed")' /\ Happened("renamed")'
    BY <1>1, <2>1, HappenedStays DEF Happened, Ev
  <2> QED
    BY <1>1, <1>4, <2>2, HappenedStays DEF OnListed, Truthful, State
<1>5. CASE OnMadeDir /\ state' # state
  <2>1. Emit(Plain("complete"), "returned")
        /\ state' = [state EXCEPT !.GotFileDiagnostics = TRUE]
    BY <1>5 DEF OnMadeDir
  <2>2. /\ 1 \in 1..Len(events) /\ events[1].type = "renamed"
        /\ 2 \in 1..Len(events) /\ events[2].type = "listed"
    BY <1>1, <1>5 DEF OnMadeDir, Consume, TypeOK, Copy
  <2>3. Happened("listed")' /\ Happened("renamed")'
    BY <1>1, <2>2, HappenedStays DEF Happened
  <2>4. Completed'
    BY <1>1, <2>1, EmitsComplete
  <2> QED
    BY <2>3, <2>4 DEF Truthful
<1>6. CASE OnVideoInfo
  <2>1. Ev \in Event
    BY <1>1, <1>6, ConsumeType DEF OnVideoInfo
  <2>2. [state EXCEPT !.Files[order[Ev.slot]].info = Ev.file] \in State
    BY <1>1, <2>1, StateUpdateType DEF Event
  <2> QED
    BY <1>1, <1>6, <2>2, SelectedTruth DEF OnVideoInfo, State
<1>7. CASE OnPreview
  <2>1. [state EXCEPT !.Files[order[Ev.slot]].preview = TRUE] \in State
    BY <1>1, StateUpdateType
  <2> QED
    BY <1>1, <1>7, <2>1, SelectedTruth DEF OnPreview, State
<1>8. CASE OnCancel
  BY <1>1, <1>2, <1>8, SelectedTruth DEF OnCancel
<1>9. CASE Evict
  BY <1>9 DEF Evict, NewState, Truthful
<1>10. CASE Begin \/ OnRenameFailed \/ Activities \/ RequestCancel \/ GetDisc \/ UNCHANGED vars
  <2>1. UNCHANGED state
    BY <1>10 DEF Begin, OnRenameFailed, Activities, RenameFileCloses, ListVideoFilesCloses,
       MkDirCloses, GetVideoInfoCloses, TranscodeCloses, RequestCancel, Deliver, memory,
       GetDisc, Describe, Query, QueryFails, vars
  <2> QED
    BY <1>2, <2>1
<1> QED
  BY <1>2, <1>3, <1>4, <1>5, <1>6, <1>7, <1>8, <1>9, <1>10 DEF Next, Worker

LEMMA EarnedNext == TypeOK /\ Truthful /\ StatusIsEarned /\ [Next]_vars => StatusIsEarned'
<1> SUFFICES ASSUME TypeOK, Truthful, StatusIsEarned, [Next]_vars PROVE StatusIsEarned'
  OBVIOUS
<1>1. CASE UNCHANGED shown
  BY <1>1, HappenedStays DEF StatusIsEarned
<1>2. CASE GetDisc /\ shown' # shown
  <2>1. (shown' = "failed" /\ Failed) \/ shown' = StatusOf(state)
    BY <1>2 DEF GetDisc, Describe, Query, QueryFails
  <2>2. CASE shown' = "failed" /\ Failed
    BY <2>2, HappenedStays DEF StatusIsEarned
  <2>3. CASE shown' = StatusOf(state)
    <3>1. /\ shown' \in {"running", "directory_moved", "files_listed", "got_file_diagnostics"}
          /\ shown' = "got_file_diagnostics" => state.GotFileDiagnostics
          /\ shown' = "files_listed" => state.FilesListed
          /\ shown' = "directory_moved" => state.DirectoryMoved
      BY <2>3 DEF StatusOf
    <3> QED
      BY <3>1, HappenedStays DEF StatusIsEarned, Truthful
  <2> QED
    BY <2>1, <2>2, <2>3
<1>3. GetDisc \/ UNCHANGED shown
  BY DEF Next, Worker, Begin, OnRenamed, OnRenameFailed, OnListed, OnMadeDir, OnVideoInfo,
     OnPreview, OnCancel, Consume, client, Activities, RenameFileCloses, ListVideoFilesCloses,
     MkDirCloses, GetVideoInfoCloses, TranscodeCloses, RequestCancel, Deliver, Evict, vars
<1> QED
  BY <1>1, <1>2, <1>3

-----------------------------------------------------------------------------
(* Answers of GetDisc do not go back *)

LEMMA PastStays ==
  ASSUME TypeOK, [Next]_vars
  PROVE  (PastRename => PastRename') /\ (PastList => PastList')
<1>1. Len(commands) \in Nat /\ Len(commands') \in Nat /\ Len(commands') >= Len(commands)
  <2>1. commands \in Seq(Command) /\ commands' \in Seq(Command)
    BY TypeNext DEF TypeOK
  <2> QED
    BY <2>1, Grows
<1>2. ASSUME NEW n \in 2..3, n <= Len(commands)
      PROVE  commands'[n] = commands[n] /\ n <= Len(commands')
  <2>1. n \in 1..Len(commands)
    BY <1>1, <1>2
  <2> QED
    BY <1>1, <1>2, <2>1, Grows
<1> QED
  BY <1>1, <1>2 DEF PastRename, PastList

\* Before the loop a copy issues one of the first four commands.
LEMMA EarlyEmit ==
  ASSUME Core, Core', pc \in {"evicted", "rename", "list", "mkdir"},
         NEW cmd, NEW next, Emit(cmd, next)
  PROVE  commands' = commands \/ Len(commands') <= 4
<1>1. commands \in Seq(Command) /\ emitted \in 0..3 /\ emitted <= Len(commands) /\ Len(commands) \in Nat
  <2>1. commands \in Seq(Command) /\ emitted \in 0..Len(commands) /\ Len(commands) \in Nat
    BY DEF Core, TypeOK
  <2>2. emitted \in {0, 1, 2, 3}
    BY Zenon DEF Core, Copy
  <2> QED
    BY <2>1, <2>2
<1>2. CASE emitted < Len(commands)
  BY <1>2 DEF Emit
<1>3. CASE ~(emitted < Len(commands))
  <2>1. Len(commands) <= 3 /\ commands' = Append(commands, cmd)
    BY <1>1, <1>3 DEF Emit
  <2> QED
    BY <1>1, <2>1
<1> QED
  BY <1>2, <1>3

\* The end of the loop is announced by what the copy has applied.
LEMMA EndedNext ==
  Inv /\ Core' /\ Counted /\ Ended /\ [Next]_vars => Ended'
<1> SUFFICES ASSUME Inv, Core', Counted, Ended, [Next]_vars, Len(commands') = 5
             PROVE  \/ \E i \in 4..Len(events') : events'[i].type = "cancel"
                    \/ Len(events') >= 2 * Len(Scheduled') + 3
  BY DEF Ended
<1>1. /\ Core /\ TypeOK /\ Copy
      /\ commands \in Seq(Command) /\ events \in Seq(Event) /\ events' \in Seq(Event)
      /\ consumed \in 0..Len(events) /\ selected \in Nat /\ Len(events) \in Nat
  BY DEF Inv, Core, TypeOK
<1>2. /\ Len(events') >= Len(events) /\ Len(events') \in Nat
      /\ \A i \in 1..Len(events) : events'[i] = events[i]
  BY <1>1, Grows
<1>3. CASE commands' = commands
  <2>1. Scheduled' = Scheduled
    BY <1>3 DEF Scheduled
  <2>len. Len(Scheduled) \in Nat
    BY <1>1, ScheduledType
  <2>2. \A i \in 4..Len(events) : i \in 4..Len(events') /\ events'[i] = events[i]
    BY <1>1, <1>2
  <2>3. \/ \E i \in 4..Len(events) : events[i].type = "cancel"
        \/ Len(events) >= 2 * Len(Scheduled) + 3
    BY <1>3 DEF Ended
  <2>4. CASE \E i \in 4..Len(events) : events[i].type = "cancel"
    BY <2>2, <2>4
  <2>5. CASE Len(events) >= 2 * Len(Scheduled) + 3
    <3>1. \A m, n, k \in Nat : m >= n /\ n >= 2 * k + 3 => m >= 2 * k + 3
      OBVIOUS
    <3> QED
      BY <1>1, <1>2, <2>1, <2>len, <2>5, <3>1
  <2> QED
    BY <2>3, <2>4, <2>5
<1>4. CASE pc \in {"evicted", "rename", "list", "mkdir"} /\ \E cmd, next : Emit(cmd, next)
  <2>1. commands' = commands
    BY <1>1, <1>4, EarlyEmit
  <2> QED
    BY <1>3, <2>1
<1>5. CASE pc = "diagnose"
  <2>1. order # <<>> /\ selected + 3 = consumed
    BY <1>1, <1>5 DEF Copy, Counted
  <2>2. Scheduled' = Scheduled /\ Len(Scheduled) = Len(order) /\ Len(order) \in Nat
    BY <1>1, <2>1, SameSlots, Slots
  <2>3. CASE OnVideoInfo \/ OnPreview
    <3>1. PICK s : Selected(selected + 1, s)
      BY <2>3 DEF OnVideoInfo, OnPreview
    <3>2. consumed < Len(events) /\ events' = events
      BY <2>3 DEF OnVideoInfo, OnPreview, Consume
    <3>3. CASE selected + 1 = diagCount
      <4>1. Len(events') >= 2 * Len(order) + 3
        BY <1>1, <2>1, <2>2, <3>2, <3>3 DEF diagCount
      <4> QED
        BY <2>2, <4>1
    <3>4. CASE selected + 1 # diagCount
      BY <1>3, <3>1, <3>4 DEF Selected
    <3> QED
      BY <3>3, <3>4
  <2>4. CASE OnCancel
    <3>1. consumed + 1 \in 4..Len(events) /\ events[consumed + 1].type = "cancel" /\ events' = events
      BY <1>1, <2>1, <2>4 DEF OnCancel, Consume, Ev
    <3> QED
      BY <3>1
  <2>5. CASE ~(OnVideoInfo \/ OnPreview \/ OnCancel)
    <3>1. commands' = commands
      BY <1>5, <2>5 DEF Next, Worker, Begin, OnRenamed, OnRenameFailed, OnListed, OnMadeDir,
         Activities, RenameFileCloses, ListVideoFilesCloses, MkDirCloses, GetVideoInfoCloses,
         TranscodeCloses, RequestCancel, Deliver, Evict, GetDisc, Describe, Query, QueryFails,
         durable, vars
    <3> QED
      BY <1>3, <3>1
  <2> QED
    BY <2>3, <2>4, <2>5
<1>6. CASE Worker
  BY <1>4, <1>5, <1>6 DEF Worker, Begin, OnRenamed, OnRenameFailed, OnListed, OnMadeDir,
     OnVideoInfo, OnPreview, OnCancel
<1>7. CASE ~Worker
  <2>1. commands' = commands
    BY <1>7 DEF Next, Activities, RenameFileCloses, ListVideoFilesCloses, MkDirCloses,
       GetVideoInfoCloses, TranscodeCloses, RequestCancel, Deliver, Evict, GetDisc,
       Describe, Query, QueryFails, durable, vars
  <2> QED
    BY <1>3, <2>1
<1> QED
  BY <1>6, <1>7

LEMMA LoopingNext ==
  Inv /\ Core' /\ Counted /\ Looping /\ [Next]_vars => Looping'
<1> SUFFICES ASSUME Inv, Core', Counted, Looping, [Next]_vars, pc' = "diagnose"
             PROVE  selected' < diagCount' /\ \A i \in 4..consumed' : events'[i].type # "cancel"
  BY DEF Looping
<1>1. /\ Core /\ TypeOK /\ Copy /\ consumed \in 0..Len(events) /\ selected \in Nat
      /\ Len(events) \in Nat /\ order \in Seq(Files) /\ order' \in Seq(Files)
  BY DEF Inv, Core, TypeOK
<1>2. CASE OnMadeDir
  <2>1. selected' = 0 /\ consumed' = 3 /\ order' # <<>>
    BY <1>1, <1>2 DEF OnMadeDir, Consume, Counted, Copy, Core
  <2>2. Len(order') \in Nat /\ Len(order') # 0
    BY <1>1, <2>1
  <2>3. 4..consumed' = {}
    BY <2>1
  <2> QED
    BY <2>1, <2>2, <2>3 DEF diagCount
<1>3. CASE OnVideoInfo \/ OnPreview
  <2>1. /\ consumed < Len(events) /\ events' = events /\ consumed' = consumed + 1
        /\ Ev.type # "cancel" /\ pc = "diagnose" /\ order' = order
    BY <1>3 DEF OnVideoInfo, OnPreview, Consume
  <2>2. selected + 1 # diagCount /\ selected' = selected + 1
    BY <1>3 DEF OnVideoInfo, OnPreview, Selected, Emit
  <2>3. diagCount \in Nat /\ diagCount' = diagCount
    BY <1>1, <2>1 DEF diagCount
  <2>4. \A i \in 4..consumed' : i \in 4..consumed \/ i = consumed + 1
    BY <1>1, <2>1
  <2> QED
    BY <1>1, <2>1, <2>2, <2>3, <2>4 DEF Looping, Ev
<1>4. CASE Activities \/ RequestCancel
  <2>1. ASSUME NEW t, NEW S, NEW s, NEW f, Deliver(t, S, s, f)
        PROVE  /\ \A i \in 1..Len(events) : events'[i] = events[i]
               /\ UNCHANGED <<pc, consumed, order, selected>>
    BY <1>1, <2>1, DeliverStep
  <2>2. /\ \A i \in 1..Len(events) : events'[i] = events[i]
        /\ UNCHANGED <<pc, consumed, order, selected>>
    BY <1>4, <2>1 DEF Activities, RenameFileCloses, ListVideoFilesCloses, MkDirCloses,
       GetVideoInfoCloses, TranscodeCloses, RequestCancel
  <2>3. \A i \in 4..consumed : i \in 1..Len(events)
    BY <1>1
  <2> QED
    BY <2>2, <2>3 DEF Looping, diagCount
<1>5. CASE GetDisc \/ UNCHANGED vars
  <2>1. UNCHANGED <<events, pc, consumed, order, selected>>
    BY <1>5 DEF GetDisc, Describe, Query, QueryFails, durable, memory, vars
  <2> QED
    BY <2>1 DEF Looping, diagCount
<1>6. ~(Begin \/ OnRenamed \/ OnRenameFailed \/ OnListed \/ OnCancel \/ Evict)
  <2>1. ~(Begin \/ OnRenamed \/ OnRenameFailed \/ OnListed \/ Evict)
    BY DEF Begin, OnRenamed, OnRenameFailed, OnListed, Evict, Emit
  <2>2. ~OnCancel
    BY DEF OnCancel, Selected, Emit
  <2> QED
    BY <2>1, <2>2
<1> QED
  BY <1>2, <1>3, <1>4, <1>5, <1>6 DEF Next, Worker

\* The second and the third command tell how RenameFile and ListVideoFiles ended.
LEMMA EarlyHistory ==
  ASSUME TypeOK, History
  PROVE  /\ Len(commands) >= 2 =>
              /\ Len(events) >= 1
              /\ \/ events[1].type = "renamed" /\ commands[2].type = "list"
                 \/ events[1].type \in {"renameFailed", "cancel"} /\ commands[2].type = "fail"
         /\ Len(commands) >= 3 =>
              /\ Len(events) >= 2 /\ PastRename
              /\ \/ events[2].type = "listed" /\ commands[3].type = "mkdir"
                 \/ events[2].type = "cancel" /\ commands[3].type = "fail"
<1>1. Len(commands) \in Nat
  BY DEF TypeOK
<1>2. \A t : Plain(t).type = t
  BY DEF Plain
<1>3. Len(commands) >= 3 => Len(commands) >= 2 /\ Len(commands) # 2
  <2>1. \A n \in Nat : n >= 3 => n >= 2 /\ n # 2
    OBVIOUS
  <2> QED
    BY <1>1, <2>1
<1>4. Len(commands) >= 2 =>
        /\ Len(events) >= 1
        /\ \/ events[1].type = "renamed" /\ commands[2].type = "list"
           \/ /\ events[1].type \in {"renameFailed", "cancel"}
              /\ commands[2].type = "fail" /\ Len(commands) = 2
  BY <1>2 DEF History
<1>5. Len(commands) >= 3 =>
        /\ Len(events) >= 2
        /\ \/ events[2].type = "listed" /\ commands[3].type = "mkdir"
           \/ events[2].type = "cancel" /\ commands[3].type = "fail"
  BY <1>2 DEF History
<1> QED
  BY <1>3, <1>4, <1>5 DEF PastRename

\* A history that is past a step is past those before it.
LEMMA PastAll ==
  ASSUME TypeOK, History
  PROVE  (PastList => PastRename) /\ (Completed => PastList)
<1>1. PastList => PastRename
  BY EarlyHistory DEF PastList
<1>2. Completed => PastList
  <2> SUFFICES ASSUME Completed PROVE PastList
    OBVIOUS
  <2>1. 4 <= Len(commands) /\ events[2].type = "listed" /\ Len(commands) \in Nat
    BY CompletedRan DEF TypeOK
  <2>2. Len(commands) >= 3
    BY <2>1
  <2> QED
    BY <2>1, <2>2, EarlyHistory DEF PastList
<1> QED
  BY <1>1, <1>2

LEMMA PastAllAfter == Core' => (PastList' => PastRename')
<1> DEFINE All == PastList => PastRename
<1>1. Core => All
  BY PastAll DEF Core
<1>2. Core' => All'
  BY <1>1, PTL
<1> QED
  BY <1>2

\* What the history has by the time a copy waits for its next activity.
LEMMA PastOf ==
  ASSUME Core
  PROVE  /\ pc \in {"list", "mkdir"} => PastRename
         /\ pc = "mkdir" => PastList
<1>1. Len(commands) \in Nat /\ emitted <= Len(commands) /\ History /\ TypeOK
  BY DEF Core, TypeOK
<1>2. ASSUME pc \in {"list", "mkdir"}
      PROVE  PastRename
  <2>1. emitted \in 2..3 /\ events[1].type = "renamed"
    BY <1>2 DEF Core, Copy
  <2>2. Len(commands) >= 2
    BY <1>1, <2>1
  <2> QED
    BY <1>1, <2>1, <2>2, EarlyHistory DEF PastRename
<1>3. ASSUME pc = "mkdir"
      PROVE  PastList
  <2>1. emitted = 3 /\ events[2].type = "listed"
    BY <1>3 DEF Core, Copy
  <2>2. Len(commands) >= 3
    BY <1>1, <2>1
  <2> QED
    BY <1>1, <2>1, <2>2, EarlyHistory DEF PastList
<1> QED
  BY <1>2, <1>3

LEMMA PastOfAfter ==
  Core' => /\ pc' \in {"list", "mkdir"} => PastRename'
           /\ pc' = "mkdir" => PastList'
<1> DEFINE Past == /\ pc \in {"list", "mkdir"} => PastRename
                   /\ pc = "mkdir" => PastList
<1>1. Core => Past
  BY PastOf
<1>2. Core' => Past'
  BY <1>1, PTL
<1> QED
  BY <1>2

\* The history is as far as its events: a failure ends it.
LEMMA FarAsEvents ==
  ASSUME TypeOK, History
  PROVE  /\ PastRename => Len(events) >= 1 /\ events[1].type = "renamed"
         /\ PastList => Len(events) >= 2 /\ events[2].type = "listed"
         /\ ~(Completed /\ Failed)
<1>1. Len(commands) \in Nat /\ Len(events) \in Nat
  BY DEF TypeOK
<1>2. PastRename => Len(events) >= 1 /\ events[1].type = "renamed"
  BY EarlyHistory DEF PastRename
<1>3. PastList => Len(events) >= 2 /\ events[2].type = "listed"
  BY EarlyHistory DEF PastList
<1>4. ASSUME Completed, Failed
      PROVE  FALSE
  <2>1. /\ 4 <= Len(commands) /\ 3 <= Len(events)
        /\ events[1].type = "renamed" /\ events[2].type = "listed" /\ events[3].type = "madeDir"
    BY <1>4, CompletedRan
  <2>2. PICK i \in 1..Len(commands) : commands[i].type = "fail"
    BY <1>4 DEF Failed, Recorded
  <2>3. Len(commands) <= 5 /\ i \in {1, 2, 3, 4, 5}
    BY <1>1, <2>2 DEF History
  <2>4. Len(commands) >= 1 /\ Len(commands) >= 2 /\ Len(commands) >= 3
    BY <1>1, <2>1
  <2>5. /\ commands[1] = Plain("rename") /\ commands[2] = Plain("list")
        /\ commands[3] = Plain("mkdir")
    BY <2>1, <2>4 DEF History
  <2>6. commands[4].type # "fail"
    BY <2>1 DEF History, Plain
  <2>7. i = 5 => commands[i] = Plain("complete")
    <3>1. \A n \in Nat : n <= 5 /\ 5 <= n => n = 5
      OBVIOUS
    <3>2. i = 5 => 5 <= Len(commands)
      BY <1>1, <2>2
    <3>3. i = 5 => Len(commands) = 5
      BY <1>1, <2>3, <3>1, <3>2
    <3> QED
      BY <3>3 DEF History
  <2> QED
    BY <2>2, <2>3, <2>5, <2>6, <2>7 DEF Plain
<1> QED
  BY <1>2, <1>3, <1>4

LEMMA FarAsEventsAfter ==
  Core' => /\ PastRename' => Len(events') >= 1 /\ events'[1].type = "renamed"
           /\ PastList' => Len(events') >= 2 /\ events'[2].type = "listed"
<1> DEFINE Far == /\ PastRename => Len(events) >= 1 /\ events[1].type = "renamed"
                  /\ PastList => Len(events) >= 2 /\ events[2].type = "listed"
<1>1. Core => Far
  BY FarAsEvents DEF Core
<1>2. Core' => Far'
  BY <1>1, PTL
<1> QED
  BY <1>2

\* The end of a callback, or of the wait, keeps the flags and adds the last one.
LEMMA UpToDateSelected ==
  ASSUME Core, Core', UpToDate, pc = "diagnose", [Next]_vars,
         NEW n, NEW s \in State, Selected(n, s),
         s.DirectoryMoved = state.DirectoryMoved, s.FilesListed = state.FilesListed
  PROVE  UpToDate'
<1>1. TypeOK /\ (PastRename => PastRename') /\ (PastList => PastList')
  BY PastStays DEF Core
<1>2. CASE n = diagCount
  <2>1. pc' = "returned" /\ state' = [s EXCEPT !.GotFileDiagnostics = TRUE]
    BY <1>2 DEF Selected, Emit, Core, NeverDiverges
  <2>2. /\ state'.DirectoryMoved = state.DirectoryMoved
        /\ state'.FilesListed = state.FilesListed /\ state'.GotFileDiagnostics
    BY <2>1 DEF State
  <2> QED
    BY <1>1, <2>1, <2>2 DEF UpToDate
<1>3. CASE n # diagCount
  BY <1>1, <1>3 DEF Selected, UpToDate
<1> QED
  BY <1>2, <1>3

LEMMA UpToDateNext == Core /\ Core' /\ UpToDate /\ [Next]_vars => UpToDate'
<1> SUFFICES ASSUME Core, Core', UpToDate, [Next]_vars PROVE UpToDate'
  OBVIOUS
<1>1. /\ TypeOK /\ TypeOK' /\ NeverDiverges' /\ Copy /\ Copy' /\ state \in State
      /\ (PastRename => PastRename') /\ (PastList => PastList')
      /\ Len(events) \in Nat
  BY PastStays DEF Core, TypeOK
<1>2. CASE Begin
  BY <1>1, <1>2 DEF Begin, Emit, UpToDate, NeverDiverges
<1>3. CASE OnRenamed
  <2>1. pc' = "list" /\ state' = [state EXCEPT !.DirectoryMoved = TRUE]
    BY <1>1, <1>3 DEF OnRenamed, Emit, NeverDiverges
  <2>2. state'.DirectoryMoved /\ state'.FilesListed = state.FilesListed /\ PastRename'
    BY <1>1, <2>1, PastOfAfter DEF State
  <2> QED
    BY <1>1, <2>1, <2>2 DEF UpToDate
<1>4. CASE OnRenameFailed
  <2>1. /\ pc' = "returned" /\ state' = state /\ events' = events /\ consumed = 0
        /\ Ev.type = "renameFailed"
    BY <1>1, <1>4 DEF OnRenameFailed, Consume, Emit, NeverDiverges, Copy
  <2>2. events'[1].type = "renameFailed"
    BY <2>1 DEF Ev
  <2>3. ~PastRename' /\ ~Completed'
    BY <2>2, FarAsEventsAfter, CompletedRanAfter
  <2>4. ~PastList'
    BY <2>3, PastAllAfter
  <2> QED
    BY <1>1, <2>1, <2>3, <2>4 DEF UpToDate
<1>5. CASE OnListed
  <2>1. /\ pc' = "mkdir" /\ state'.FilesListed /\ state'.DirectoryMoved = state.DirectoryMoved
    BY <1>1, <1>5 DEF OnListed, Emit, NeverDiverges, State
  <2> QED
    BY <1>1, <1>5, <2>1, PastOfAfter DEF UpToDate, OnListed
<1>6. CASE OnMadeDir
  <2>1. PastRename /\ PastList
    BY <1>6, PastOf DEF OnMadeDir
  <2>2. \/ pc' = "returned" /\ state' = [state EXCEPT !.GotFileDiagnostics = TRUE]
        \/ pc' = "diagnose" /\ state' = state
    BY <1>1, <1>6 DEF OnMadeDir, Emit, NeverDiverges
  <2>3. CASE pc' = "returned" /\ state' = [state EXCEPT !.GotFileDiagnostics = TRUE]
    <3>1. /\ state'.DirectoryMoved = state.DirectoryMoved
          /\ state'.FilesListed = state.FilesListed /\ state'.GotFileDiagnostics
      BY <1>1, <2>3 DEF State
    <3> QED
      BY <1>1, <1>6, <2>1, <2>3, <3>1 DEF UpToDate, OnMadeDir
  <2>4. CASE pc' = "diagnose" /\ state' = state
    BY <1>1, <1>6, <2>1, <2>4 DEF UpToDate, OnMadeDir
  <2> QED
    BY <2>2, <2>3, <2>4
<1>7. CASE OnVideoInfo
  <2>1. Ev \in Event
    BY <1>1, <1>7, ConsumeType DEF OnVideoInfo
  <2>2. [state EXCEPT !.Files[order[Ev.slot]].info = Ev.file] \in State
    BY <1>1, <2>1, StateUpdateType DEF Event
  <2> QED
    BY <1>1, <1>7, <2>2, UpToDateSelected DEF OnVideoInfo, State
<1>8. CASE OnPreview
  <2>1. [state EXCEPT !.Files[order[Ev.slot]].preview = TRUE] \in State
    BY <1>1, StateUpdateType
  <2> QED
    BY <1>1, <1>8, <2>1, UpToDateSelected DEF OnPreview, State
<1>9. CASE OnCancel
  <2>1. CASE pc = "diagnose" /\ Selected(diagCount, state)
    BY <1>1, <2>1, UpToDateSelected
  <2>2. CASE pc \in {"rename", "list", "mkdir"} /\ Emit(Plain("fail"), "returned") /\ state' = state
    <3>1. /\ pc' = "returned" /\ events' = events /\ Ev.type = "cancel"
      BY <1>1, <1>9, <2>2 DEF OnCancel, Consume, Emit, NeverDiverges
    <3>2. CASE pc = "rename"
      <4>1. events'[1].type = "cancel"
        BY <1>1, <3>1, <3>2 DEF Copy, Ev
      <4>2. ~PastRename' /\ ~Completed'
        BY <4>1, FarAsEventsAfter, CompletedRanAfter
      <4>3. ~PastList'
        BY <4>2, PastAllAfter
      <4> QED
        BY <1>1, <2>2, <3>1, <4>2, <4>3 DEF UpToDate
    <3>3. CASE pc = "list"
      <4>1. events'[2].type = "cancel"
        BY <1>1, <3>1, <3>3 DEF Copy, Ev
      <4>2. ~PastList' /\ ~Completed'
        BY <4>1, FarAsEventsAfter, CompletedRanAfter
      <4> QED
        BY <1>1, <2>2, <3>1, <3>3, <4>2 DEF UpToDate
    <3>4. CASE pc = "mkdir"
      <4>1. events'[3].type = "cancel"
        BY <1>1, <3>1, <3>4 DEF Copy, Ev
      <4>2. ~Completed'
        BY <4>1, CompletedRanAfter
      <4> QED
        BY <1>1, <2>2, <3>1, <3>4, <4>2 DEF UpToDate
    <3> QED
      BY <2>2, <3>2, <3>3, <3>4
  <2> QED
    BY <1>9, <2>1, <2>2 DEF OnCancel
<1>10. CASE Evict
  BY <1>10 DEF Evict, NewState, UpToDate
<1>11. CASE Activities \/ RequestCancel \/ GetDisc \/ UNCHANGED vars
  <2>1. UNCHANGED <<commands, pc, state>>
    BY <1>11 DEF Activities, RenameFileCloses, ListVideoFilesCloses, MkDirCloses,
       GetVideoInfoCloses, TranscodeCloses, RequestCancel, Deliver, memory, durable,
       GetDisc, Describe, Query, QueryFails, vars
  <2> QED
    BY <2>1 DEF UpToDate, PastRename, PastList, Completed, Recorded
<1> QED
  BY <1>2, <1>3, <1>4, <1>5, <1>6, <1>7, <1>8, <1>9, <1>10, <1>11 DEF Next, Worker

LEMMA AnnouncedNext ==
  Core /\ UpToDate /\ Announced /\ StatusIsEarned /\ Truthful /\ [Next]_vars => Announced'
<1> SUFFICES ASSUME Core, UpToDate, Announced, StatusIsEarned, Truthful, [Next]_vars
             PROVE  Announced'
  OBVIOUS
<1>1. /\ (PastRename => PastRename') /\ (PastList => PastList')
      /\ (PastList => PastRename) /\ (Completed => PastList)
  BY PastStays, PastAll DEF Core
<1>2. CASE GetDisc
  <2>1. UNCHANGED <<commands, state>>
    BY <1>2 DEF GetDisc, Describe, Query, QueryFails, durable, memory
  <2>2. CASE Describe
    BY <1>1, <2>2 DEF Describe, Announced, StatusIsEarned
  <2>3. CASE Query
    <3>1. /\ shown' \in {"running", "directory_moved", "files_listed", "got_file_diagnostics"}
          /\ shown' = "got_file_diagnostics" => state.GotFileDiagnostics
          /\ shown' = "files_listed" => state.FilesListed
          /\ shown' = "directory_moved" => state.DirectoryMoved
      BY <2>3 DEF Query, StatusOf
    <3> QED
      BY <1>1, <3>1 DEF Announced, UpToDate, Truthful
  <2>4. CASE QueryFails
    BY <1>1, <2>4 DEF QueryFails, Announced
  <2> QED
    BY <1>2, <2>2, <2>3, <2>4 DEF GetDisc
<1>3. CASE UNCHANGED client
  BY <1>1, <1>3 DEF Announced, client
<1>4. GetDisc \/ UNCHANGED client
  BY DEF Next, Worker, Begin, OnRenamed, OnRenameFailed, OnListed, OnMadeDir, OnVideoInfo,
     OnPreview, OnCancel, Consume, Activities, RenameFileCloses, ListVideoFilesCloses,
     MkDirCloses, GetVideoInfoCloses, TranscodeCloses, RequestCancel, Deliver, Evict, vars, client
<1> QED
  BY <1>2, <1>3, <1>4

LEMMA ProgressInvariant == Spec => [](Ended /\ Looping /\ UpToDate)
<1>1. Init => Ended /\ Looping /\ UpToDate
  BY DEF Init, Ended, Looping, UpToDate, NewState
<1>2. Inv /\ Inv' /\ Counted /\ Ended /\ Looping /\ UpToDate /\ [Next]_vars
        => (Ended /\ Looping /\ UpToDate)'
  BY EndedNext, LoopingNext, UpToDateNext DEF Inv
<1> QED
  BY <1>1, <1>2, InvInvariant, CountInvariant, PTL DEF Spec

\* ListVideoFiles delivers one event (disc.go:91), and only it carries files.
LEMMA ListedOnceNext == TypeOK /\ ListedOnce /\ [Next]_vars => ListedOnce'
<1> SUFFICES ASSUME TypeOK, ListedOnce, [Next]_vars PROVE ListedOnce'
  OBVIOUS
<1>1. Len(events) \in Nat
  BY DEF TypeOK
<1>2. CASE UNCHANGED events
  BY <1>2 DEF ListedOnce
<1>3. ASSUME NEW t, NEW S, NEW s, NEW f, Deliver(t, S, s, f),
             t # "listed" => S = {}, t = "listed" => ~Happened("listed")
      PROVE  ListedOnce'
  <2>1. /\ Len(events') = Len(events) + 1
        /\ \A i \in 1..Len(events) : events'[i] = events[i]
        /\ events'[Len(events) + 1] = [type |-> t, files |-> S, slot |-> s, file |-> f]
    BY <1>3, DeliverStep
  <2>2. \A i \in 1..Len(events') : i \in 1..Len(events) \/ i = Len(events) + 1
    BY <1>1, <2>1
  <2>3. ASSUME NEW i \in 1..Len(events'), events'[i].type # "listed"
        PROVE  events'[i].files = {}
    <3>1. CASE i \in 1..Len(events)
      BY <2>1, <2>3, <3>1 DEF ListedOnce
    <3>2. CASE i = Len(events) + 1
      BY <1>3, <2>1, <2>3, <3>2
    <3> QED
      BY <2>2, <3>1, <3>2
  <2>4. ASSUME NEW i \in 1..Len(events'), NEW j \in 1..Len(events'),
               events'[i].type = "listed", events'[j].type = "listed"
        PROVE  i = j
    <3>1. CASE i \in 1..Len(events) /\ j \in 1..Len(events)
      BY <2>1, <2>4, <3>1 DEF ListedOnce
    <3>2. CASE i = Len(events) + 1 /\ j \in 1..Len(events)
      BY <1>3, <2>1, <2>4, <3>2 DEF Happened
    <3>3. CASE i \in 1..Len(events) /\ j = Len(events) + 1
      BY <1>3, <2>1, <2>4, <3>3 DEF Happened
    <3> QED
      BY <2>2, <3>1, <3>2, <3>3
  <2> QED
    BY <2>3, <2>4 DEF ListedOnce
<1>4. CASE Activities \/ RequestCancel
  BY <1>3, <1>4 DEF Activities, RenameFileCloses, ListVideoFilesCloses,
     MkDirCloses, GetVideoInfoCloses, TranscodeCloses, RequestCancel
<1>5. (Activities \/ RequestCancel) \/ UNCHANGED events
  BY DEF Next, Worker, Begin, OnRenamed, OnRenameFailed, OnListed, OnMadeDir, OnVideoInfo,
     OnPreview, OnCancel, Consume, Evict, GetDisc, Describe, Query, QueryFails, durable, vars
<1> QED
  BY <1>2, <1>4, <1>5

LEMMA ListedInvariant == Spec => []ListedOnce
<1>1. Init => ListedOnce
  BY DEF Init, ListedOnce
<1> QED
  BY <1>1, TypeCorrect, ListedOnceNext, PTL DEF Spec

\* An activity that was recorded comes after the events of those before it.
LEMMA RecordedAfter ==
  ASSUME TypeOK, History
  PROVE  /\ Recorded("list") => PastRename
         /\ Recorded("mkdir") => PastList
         /\ Scheduled # <<>> => Len(events) >= 3
<1>1. Len(commands) \in Nat /\ Len(commands) <= 5 /\ \A t : Plain(t).type = t
  BY DEF TypeOK, History, Plain
<1>2. ASSUME NEW i \in 1..Len(commands), commands[i].type \in {"list", "mkdir"}
      PROVE  \/ i = 2 /\ commands[i].type = "list"
             \/ i = 3 /\ commands[i].type = "mkdir"
  <2>1. i \in {1, 2, 3, 4, 5} /\ Len(commands) >= i
    BY <1>1
  <2>2. CASE i = 1
    <3>1. commands[1] = Plain("rename")
      BY <2>1, <2>2 DEF History
    <3> QED
      BY <1>1, <1>2, <2>2, <3>1
  <2>3. CASE i = 2
    <3>1. commands[2].type \in {"list", "fail"}
      BY <2>1, <2>3, EarlyHistory
    <3> QED
      BY <1>2, <2>3, <3>1
  <2>4. CASE i = 3
    <3>1. commands[3].type \in {"mkdir", "fail"}
      BY <2>1, <2>4, EarlyHistory
    <3> QED
      BY <1>2, <2>4, <3>1
  <2>5. CASE i = 4
    <3>1. Len(commands) >= 4
      BY <2>1, <2>5
    <3>2. commands[4] = Plain("complete") \/ commands[4].type = "diagnose" \/ commands[4] = Plain("fail")
      BY <3>1 DEF History
    <3> QED
      BY <1>1, <1>2, <2>5, <3>2
  <2>6. CASE i = 5
    <3>0. \A n \in Nat : n <= 5 /\ n >= 5 => n = 5
      OBVIOUS
    <3>1. Len(commands) = 5
      BY <1>1, <2>1, <2>6, <3>0
    <3>2. commands[5] = Plain("complete")
      BY <3>1 DEF History
    <3> QED
      BY <1>1, <1>2, <2>6, <3>2
  <2> QED
    BY <2>1, <2>2, <2>3, <2>4, <2>5, <2>6
<1>3. Recorded("list") => PastRename
  <2> SUFFICES ASSUME NEW i \in 1..Len(commands), commands[i].type = "list"
               PROVE  PastRename
    BY DEF Recorded
  <2>1. i = 2
    BY <1>2
  <2> QED
    BY <1>1, <2>1 DEF PastRename
<1>4. Recorded("mkdir") => PastList
  <2> SUFFICES ASSUME NEW i \in 1..Len(commands), commands[i].type = "mkdir"
               PROVE  PastList
    BY DEF Recorded
  <2>1. i = 3
    BY <1>2
  <2> QED
    BY <1>1, <2>1 DEF PastList
<1>5. Scheduled # <<>> => Len(events) >= 3
  BY DEF Scheduled, History
<1> QED
  BY <1>3, <1>4, <1>5

\* RenameFile, ListVideoFiles and MkDir close in this order (disc.go:75, 91, 111).
LEMMA FirstEventsNext == TypeOK /\ History /\ FirstEvents /\ [Next]_vars => FirstEvents'
<1> SUFFICES ASSUME TypeOK, History, FirstEvents, [Next]_vars PROVE FirstEvents'
  OBVIOUS
<1>1. Len(events) \in Nat
  BY DEF TypeOK
<1>2. CASE UNCHANGED events
  BY <1>2 DEF FirstEvents
<1>3. ASSUME NEW t \in EventTypes, NEW S, NEW s, NEW f, Deliver(t, S, s, f),
             t \in {"renamed", "renameFailed"} => ~Happened("renamed"),
             t = "listed" => ~Happened("listed") /\ Len(events) >= 1,
             t = "madeDir" => Len(events) >= 2,
             t \in {"info", "preview"} => Len(events) >= 3
      PROVE  FirstEvents'
  <2>1. /\ Len(events') = Len(events) + 1
        /\ \A i \in 1..Len(events) : events'[i] = events[i]
        /\ events'[Len(events) + 1].type = t
    <3>1. /\ Len(events') = Len(events) + 1
          /\ \A i \in 1..Len(events) : events'[i] = events[i]
          /\ events'[Len(events) + 1] = [type |-> t, files |-> S, slot |-> s, file |-> f]
      BY <1>3, DeliverStep
    <3> QED
      BY <3>1
  <2>2. CASE Len(events) = 0
    <3>1. t \in {"renamed", "renameFailed", "cancel"} /\ events'[1].type = t /\ Len(events') = 1
      BY <1>3, <2>1, <2>2 DEF EventTypes
    <3> QED
      BY <3>1 DEF FirstEvents
  <2>3. CASE Len(events) = 1
    <3>1. events'[1] = events[1] /\ events'[2].type = t /\ Len(events') = 2 /\ 1 \in 1..Len(events)
      BY <2>1, <2>3
    <3>2. events[1].type = "renamed" => t \in {"listed", "cancel"}
      BY <1>3, <2>3, <3>1 DEF EventTypes, Happened
    <3> QED
      BY <2>3, <3>1, <3>2 DEF FirstEvents
  <2>4. CASE Len(events) = 2
    <3>1. /\ events'[1] = events[1] /\ events'[2] = events[2] /\ events'[3].type = t
          /\ Len(events') = 3 /\ 1 \in 1..Len(events) /\ 2 \in 1..Len(events)
      BY <2>1, <2>4
    <3>2. events[1].type = "renamed" /\ events[2].type = "listed" => t \in {"madeDir", "cancel"}
      BY <1>3, <2>4, <3>1 DEF EventTypes, Happened
    <3> QED
      BY <2>4, <3>1, <3>2 DEF FirstEvents
  <2>5. CASE Len(events) >= 3
    <3>1. /\ events'[1] = events[1] /\ events'[2] = events[2] /\ events'[3] = events[3]
          /\ Len(events) >= 1 /\ Len(events) >= 2
      BY <1>1, <2>1, <2>5
    <3> QED
      BY <2>5, <3>1 DEF FirstEvents
  <2>6. \A n \in Nat : n \in {0, 1, 2} \/ n >= 3
    OBVIOUS
  <2> QED
    BY <1>1, <2>2, <2>3, <2>4, <2>5, <2>6
<1>4. /\ Recorded("list") => Len(events) >= 1
      /\ Recorded("mkdir") => Len(events) >= 2
      /\ \A s \in 1..Len(Scheduled) : Len(events) >= 3
  <2>1. \A s \in 1..Len(Scheduled) : Scheduled # <<>>
    OBVIOUS
  <2> QED
    BY <2>1, RecordedAfter, FarAsEvents
<1>5. CASE RenameFileCloses
  BY <1>3, <1>5 DEF RenameFileCloses, EventTypes
<1>6. CASE ListVideoFilesCloses
  BY <1>3, <1>4, <1>6 DEF ListVideoFilesCloses, EventTypes
<1>7. CASE MkDirCloses
  BY <1>3, <1>4, <1>7 DEF MkDirCloses, EventTypes
<1>8. CASE GetVideoInfoCloses \/ TranscodeCloses
  BY <1>3, <1>4, <1>8 DEF GetVideoInfoCloses, TranscodeCloses, EventTypes
<1>9. CASE RequestCancel
  BY <1>3, <1>9 DEF RequestCancel, EventTypes
<1>10. (Activities \/ RequestCancel) \/ UNCHANGED events
  BY DEF Next, Worker, Begin, OnRenamed, OnRenameFailed, OnListed, OnMadeDir, OnVideoInfo,
     OnPreview, OnCancel, Consume, Evict, GetDisc, Describe, Query, QueryFails, durable, vars
<1> QED
  BY <1>2, <1>5, <1>6, <1>7, <1>8, <1>9, <1>10 DEF Activities

LEMMA FirstInvariant == Spec => []FirstEvents
<1>1. Init => FirstEvents
  BY DEF Init, FirstEvents
<1>2. Core /\ FirstEvents /\ [Next]_vars => FirstEvents'
  BY FirstEventsNext DEF Core
<1> QED
  BY <1>1, <1>2, CoreInvariant, PTL DEF Spec

\* All that keeps a run and its replays together, in one inductive invariant.
THEOREM IInvInvariant == Spec => []IInv
<1>1. Init => Truthful /\ StatusIsEarned /\ Announced
  BY DEF Init, Truthful, StatusIsEarned, Announced, NewState
<1>2. Core /\ Core' /\ UpToDate /\ Truthful /\ StatusIsEarned /\ Announced /\ [Next]_vars
        => (Truthful /\ StatusIsEarned /\ Announced)'
  BY TruthfulNext, EarnedNext, AnnouncedNext DEF Core
<1>3. Spec => [](Truthful /\ StatusIsEarned /\ Announced)
  BY <1>1, <1>2, CoreInvariant, ProgressInvariant, PTL DEF Spec
<1>4. Inv /\ Once /\ ListedOnce /\ FirstEvents /\ LoopEvents /\ Counted /\ CompletesDiagnosed
        /\ Ended /\ Looping /\ UpToDate /\ Truthful /\ StatusIsEarned /\ Announced
        => IInv
  BY DEF Inv, Core, IInv
<1> QED
  BY <1>3, <1>4, InvInvariant, CountInvariant, ListedInvariant, FirstInvariant,
     ProgressInvariant, PTL

\* No answer of GetDisc (server.go:237-247) announces a step that the history of the
\* run does not have, not even one given in the middle of replays.
THEOREM AnswersAreEarned == Spec => []StatusIsEarned
<1>1. IInv => StatusIsEarned
  BY DEF IInv
<1> QED
  BY <1>1, IInvInvariant, PTL

\* The run of a copy that still waits in the loop, with all events applied, is not done.
LEMMA LoopGoesOn ==
  ASSUME IInv, pc = "diagnose", consumed = Len(events)
  PROVE  ~Completed
<1> SUFFICES ASSUME Completed PROVE FALSE
  OBVIOUS
<1>1. /\ TypeOK /\ History /\ Copy /\ Core /\ Inv
      /\ Len(events) \in Nat /\ Len(commands) \in Nat /\ selected \in Nat
  BY DEF IInv, Core, Inv, TypeOK
<1>2. order # <<>>
  BY <1>1 DEF Copy
<1>3. Len(Scheduled) = Len(order) /\ Len(order) \in Nat /\ commands[4].type = "diagnose"
  BY <1>1, <1>2, Slots, Diagnosing
<1>4. Len(commands) = 5
  <2>1. PICK i \in 1..Len(commands) : commands[i].type = "complete"
    BY DEF Completed, Recorded
  <2>2. Len(commands) <= 5 /\ PastRename /\ PastList
    BY <1>1, PastAll DEF History
  <2>3. commands[1].type = "rename" /\ commands[2].type = "list" /\ commands[3].type = "mkdir"
    <3>1. Len(commands) >= 1
      BY <1>1, <2>1
    <3> QED
      BY <1>1, <2>2, <3>1 DEF History, Plain, PastRename, PastList
  <2>4. i # 1 /\ i # 2 /\ i # 3 /\ i # 4
    BY <1>3, <2>1, <2>3
  <2>5. 5 <= Len(commands)
    BY <1>1, <2>1, <2>2, <2>4
  <2>6. \A n \in Nat : n <= 5 /\ 5 <= n => n = 5
    OBVIOUS
  <2> QED
    BY <1>1, <2>1, <2>2, <2>5, <2>6
<1>5. selected + 3 = consumed /\ selected < 2 * Len(order)
  BY DEF IInv, Counted, Looping, diagCount
<1>6. Len(events) >= 2 * Len(order) + 3
  BY <1>3, <1>4 DEF IInv, Ended, Looping
<1> QED
  BY <1>1, <1>3, <1>5, <1>6

\* A copy that may answer a query has come as far as the history.
LEMMA CaughtUpState ==
  ASSUME IInv, CaughtUp
  PROVE  /\ PastRename => state.DirectoryMoved
         /\ PastList => state.FilesListed
         /\ Completed => state.GotFileDiagnostics
<1>1. /\ TypeOK /\ History /\ Copy /\ UpToDate /\ Core /\ Inv
      /\ Len(events) \in Nat /\ Len(commands) \in Nat /\ selected \in Nat
  BY DEF IInv, Core, Inv, TypeOK
<1>2. /\ PastRename => Len(events) >= 1
      /\ PastList => Len(events) >= 2
      /\ Completed => Len(events) >= 3 /\ 4 <= Len(commands)
  BY <1>1, FarAsEvents, CompletedRan
<1>3. CASE pc = "returned"
  BY <1>1, <1>3 DEF UpToDate
<1>4. CASE pc \in {"rename", "list", "mkdir"} /\ consumed = Len(events)
  <2>1. CASE pc = "rename"
    <3>1. Len(events) = 0
      BY <1>1, <1>4, <2>1 DEF Copy
    <3> QED
      BY <1>2, <3>1
  <2>2. CASE pc = "list"
    <3>1. Len(events) = 1
      BY <1>1, <1>4, <2>2 DEF Copy
    <3> QED
      BY <1>1, <1>2, <2>2, <3>1 DEF UpToDate
  <2>3. CASE pc = "mkdir"
    <3>1. Len(events) = 2
      BY <1>1, <1>4, <2>3 DEF Copy
    <3> QED
      BY <1>1, <1>2, <2>3, <3>1 DEF UpToDate
  <2> QED
    BY <1>4, <2>1, <2>2, <2>3
<1>5. CASE pc = "diagnose" /\ consumed = Len(events)
  <2>1. ~Completed
    BY <1>5, LoopGoesOn
  <2> QED
    BY <1>1, <1>5, <2>1 DEF UpToDate
<1>6. CASE pc \notin {"returned", "rename", "list", "mkdir", "diagnose"}
  BY <1>1, <1>6 DEF CaughtUp, TypeOK, Waits
<1> QED
  BY <1>3, <1>4, <1>5, <1>6 DEF CaughtUp

LEMMA Ranks ==
  /\ Rank("running") = 1 /\ Rank("directory_moved") = 2 /\ Rank("files_listed") = 3
  /\ Rank("got_file_diagnostics") = 4 /\ Rank("failed") = 5
<1>1. /\ Statuses[1] = "running" /\ Statuses[2] = "directory_moved"
      /\ Statuses[3] = "files_listed" /\ Statuses[4] = "got_file_diagnostics"
      /\ Statuses[5] = "failed"
  BY DEF Statuses
<1>2. 1..5 = {1, 2, 3, 4, 5}
  OBVIOUS
<1>3. ASSUME NEW n \in 1..5
      PROVE  Rank(Statuses[n]) = n
  <2>1. \A i \in 1..5 : Statuses[i] = Statuses[n] => i = n
    BY <1>1, <1>2
  <2> QED
    BY <2>1 DEF Rank
<1>4. 1 \in 1..5 /\ 2 \in 1..5 /\ 3 \in 1..5 /\ 4 \in 1..5 /\ 5 \in 1..5
  OBVIOUS
<1>5. Rank(Statuses[1]) = 1 /\ Rank(Statuses[2]) = 2 /\ Rank(Statuses[3]) = 3
      /\ Rank(Statuses[4]) = 4 /\ Rank(Statuses[5]) = 5
  BY <1>3, <1>4
<1> QED
  BY <1>1, <1>5

LEMMA AnswerStep ==
  IInv /\ [Next]_vars => [Rank(shown') >= Rank(shown) /\ shown # "got_file_diagnostics"]_shown
<1> SUFFICES ASSUME IInv, [Next]_vars, shown' # shown
             PROVE  Rank(shown') >= Rank(shown) /\ shown # "got_file_diagnostics"
  OBVIOUS
<1>1. /\ TypeOK /\ History /\ Announced /\ StatusIsEarned
      /\ shown \in {"running", "directory_moved", "files_listed", "got_file_diagnostics", "failed"}
  BY StatusValues DEF IInv, TypeOK
<1>2. (PastList => PastRename) /\ (Completed => PastList) /\ ~(Completed /\ Failed)
  BY <1>1, PastAll, FarAsEvents
<1>3. CASE shown' = "failed" /\ Failed
  <2>1. shown # "got_file_diagnostics"
    BY <1>1, <1>2, <1>3 DEF StatusIsEarned
  <2> QED
    BY <1>1, <1>3, <2>1, Ranks
<1>4. CASE Query
  <2>1. shown' = StatusOf(state) /\ CaughtUp /\ shown # "failed"
    BY <1>1, <1>4 DEF Query, Announced
  <2>2. /\ PastRename => state.DirectoryMoved
        /\ PastList => state.FilesListed
        /\ Completed => state.GotFileDiagnostics
    BY <2>1, CaughtUpState
  <2>3. CASE shown = "got_file_diagnostics"
    <3>1. shown' = "got_file_diagnostics"
      BY <1>1, <2>1, <2>2, <2>3 DEF StatusIsEarned, StatusOf
    <3> QED
      BY <2>3, <3>1
  <2>4. CASE shown = "files_listed"
    <3>1. shown' \in {"files_listed", "got_file_diagnostics"}
      BY <1>1, <2>1, <2>2, <2>4 DEF Announced, StatusOf
    <3> QED
      BY <2>4, <3>1, Ranks
  <2>5. CASE shown = "directory_moved"
    <3>1. shown' \in {"directory_moved", "files_listed", "got_file_diagnostics"}
      BY <1>1, <2>1, <2>2, <2>5 DEF Announced, StatusOf
    <3> QED
      BY <2>5, <3>1, Ranks
  <2>6. CASE shown = "running"
    <3>1. shown' \in {"running", "directory_moved", "files_listed", "got_file_diagnostics"}
      BY <2>1 DEF StatusOf
    <3> QED
      BY <2>6, <3>1, Ranks
  <2> QED
    BY <1>1, <2>1, <2>3, <2>4, <2>5, <2>6
<1>5. (shown' = "failed" /\ Failed) \/ Query
  BY DEF Next, Worker, Begin, OnRenamed, OnRenameFailed, OnListed, OnMadeDir, OnVideoInfo,
     OnPreview, OnCancel, Consume, client, Activities, RenameFileCloses, ListVideoFilesCloses,
     MkDirCloses, GetVideoInfoCloses, TranscodeCloses, RequestCancel, Deliver, Evict, vars,
     GetDisc, Describe, QueryFails
<1> QED
  BY <1>3, <1>4, <1>5

\* Whoever polls GetDisc (server.go:173-247) never sees the status of a disc go back, for
\* any number of files, replays, and failures between the two calls of a GetDisc.
THEOREM AnswersGoOn == Spec => StatusNeverRegresses
  BY IInvInvariant, AnswerStep, PTL DEF Spec, StatusNeverRegresses

\* An answer to a query is the status of the whole history: it is not behind it
\* (disc.go:47-51), whatever copy gives it, nor ahead of it.
THEOREM AnswersKeepUp == Spec => AnswersAreCurrent
<1>1. ASSUME IInv, Query
      PROVE  shown' = HistoryStatus
  <2>1. TypeOK /\ History /\ UpToDate /\ Truthful /\ shown' = StatusOf(state) /\ CaughtUp
    BY <1>1 DEF IInv, Query
  <2>2. /\ PastRename <=> state.DirectoryMoved
        /\ PastList <=> state.FilesListed
        /\ Completed <=> state.GotFileDiagnostics
    BY <1>1, <2>1, CaughtUpState DEF UpToDate, Truthful
  <2>3. (PastList => PastRename) /\ (Completed => PastList)
    BY <2>1, PastAll
  <2>4. (Recorded("list") <=> PastRename) /\ (Recorded("mkdir") <=> PastList)
    <3>1. Len(commands) \in Nat
      BY <2>1 DEF TypeOK
    <3>2. (PastRename => 2 \in 1..Len(commands)) /\ (PastList => 3 \in 1..Len(commands))
      BY <3>1 DEF PastRename, PastList
    <3>3. (PastRename => Recorded("list")) /\ (PastList => Recorded("mkdir"))
      BY <3>2 DEF PastRename, PastList, Recorded
    <3> QED
      BY <2>1, <3>3, RecordedAfter
  <2>5. CASE Completed
    BY <2>1, <2>2, <2>3, <2>4, <2>5 DEF StatusOf, HistoryStatus
  <2>6. CASE ~Completed /\ PastList
    BY <2>1, <2>2, <2>3, <2>4, <2>6 DEF StatusOf, HistoryStatus
  <2>7. CASE ~Completed /\ ~PastList /\ PastRename
    BY <2>1, <2>2, <2>3, <2>4, <2>7 DEF StatusOf, HistoryStatus
  <2>8. CASE ~Completed /\ ~PastList /\ ~PastRename
    BY <2>1, <2>2, <2>3, <2>4, <2>8 DEF StatusOf, HistoryStatus
  <2> QED
    BY <2>5, <2>6, <2>7, <2>8
<1>2. IInv => [Query => shown' = HistoryStatus]_client
  BY <1>1
<1> QED
  BY <1>2, IInvInvariant, PTL DEF AnswersAreCurrent

-----------------------------------------------------------------------------
(* No copy hangs *)

\* A run fails on the event that its last wait got instead of a result.
LEMMA FailedRan ==
  ASSUME TypeOK, History, Failed
  PROVE  \/ Len(events) >= 1 /\ events[1].type \in {"renameFailed", "cancel"}
         \/ Len(events) >= 2 /\ events[2].type = "cancel"
         \/ Len(events) >= 3 /\ events[3].type = "cancel"
<1>1. PICK i \in 1..Len(commands) : commands[i].type = "fail"
  BY DEF Failed, Recorded
<1>2. Len(commands) \in Nat /\ Len(commands) <= 5 /\ \A t : Plain(t).type = t
  BY DEF TypeOK, History, Plain
<1>3. i \in {1, 2, 3, 4, 5} /\ Len(commands) >= i
  BY <1>1, <1>2
<1>4. CASE i = 1
  <2>1. commands[1] = Plain("rename")
    BY <1>3, <1>4 DEF History
  <2> QED
    BY <1>1, <1>2, <1>4, <2>1
<1>5. CASE i = 2
  BY <1>1, <1>3, <1>5, EarlyHistory
<1>6. CASE i = 3
  BY <1>1, <1>3, <1>6, EarlyHistory
<1>7. CASE i = 4
  <2>1. Len(commands) >= 4
    BY <1>3, <1>7
  <2>2. /\ Len(events) >= 3
        /\ \/ commands[4] = Plain("complete") \/ commands[4].type = "diagnose"
           \/ events[3].type = "cancel"
    BY <2>1 DEF History
  <2> QED
    BY <1>1, <1>2, <1>7, <2>2
<1>8. CASE i = 5
  <2>1. \A n \in Nat : n <= 5 /\ n >= 5 => n = 5
    OBVIOUS
  <2>2. Len(commands) = 5
    BY <1>2, <1>3, <1>8, <2>1
  <2>3. commands[5] = Plain("complete")
    BY <2>2 DEF History
  <2> QED
    BY <1>1, <1>2, <1>8, <2>3
<1> QED
  BY <1>3, <1>4, <1>5, <1>6, <1>7, <1>8

\* A copy that has returned from fewer Selects than there are results, and has applied
\* every event, lacks one: 2 * Len(order) results do not fit into the events after MkDir.
LEMMA ResultsAreOpen ==
  ASSUME IInv, pc = "diagnose", consumed = Len(events)
  PROVE  \E s \in 1..Len(Scheduled) : ~Delivered("info", s) \/ ~Delivered("preview", s)
<1> SUFFICES ASSUME \A s \in 1..Len(Scheduled) : Delivered("info", s) /\ Delivered("preview", s)
             PROVE  FALSE
  OBVIOUS
<1> DEFINE L == Len(order)
           D == 1..(2 * L)
           N == 1..selected
           Of(k, i) == IF k <= L
                       THEN events[i].type = "info" /\ events[i].slot = k
                       ELSE events[i].type = "preview" /\ L + events[i].slot = k
           f == [k \in D |-> (CHOOSE i \in 4..Len(events) : Of(k, i)) - 3]
<1>1. /\ Inv /\ Core /\ TypeOK /\ order # <<>> /\ selected \in Nat /\ Len(events) \in Nat
      /\ selected + 3 = Len(events) /\ selected < 2 * Len(order)
  BY DEF IInv, Inv, Core, Copy, TypeOK, Counted, Looping, diagCount
<1>2. /\ L \in Nat /\ Len(Scheduled) = L
      /\ events[1].type = "renamed" /\ events[2].type = "listed" /\ events[3].type = "madeDir"
  BY <1>1, Slots, Diagnosing
<1>3. ASSUME NEW k \in D
      PROVE  \E i \in 4..Len(events) : Of(k, i)
  <2>1. ASSUME NEW t \in {"info", "preview"}, NEW s, Delivered(t, s)
        PROVE  \E i \in 4..Len(events) : events[i].type = t /\ events[i].slot = s
    <3>1. PICK i \in 1..Len(events) : events[i].type = t /\ events[i].slot = s
      BY <2>1 DEF Delivered
    <3>2. i # 1 /\ i # 2 /\ i # 3
      BY <1>2, <2>1, <3>1
    <3>3. i \in 4..Len(events)
      BY <1>1, <3>1, <3>2
    <3> QED
      BY <3>1, <3>3
  <2>2. CASE k <= L
    <3>1. k \in 1..Len(Scheduled)
      BY <1>2, <2>2
    <3> QED
      BY <2>1, <2>2, <3>1
  <2>3. CASE ~(k <= L)
    <3>1. PICK s \in 1..L : L + s = k
      <4>1. k - L \in 1..L /\ L + (k - L) = k
        BY <1>2, <2>3
      <4> QED
        BY <4>1
    <3>2. s \in 1..Len(Scheduled)
      BY <1>2, <3>1
    <3> QED
      BY <2>1, <2>3, <3>1, <3>2
  <2> QED
    BY <2>2, <2>3
<1>4. ASSUME NEW k \in D
      PROVE  f[k] \in N /\ Of(k, f[k] + 3) /\ f[k] + 3 \in 1..Len(events)
  <2>1. PICK i \in 4..Len(events) : i = CHOOSE j \in 4..Len(events) : Of(k, j)
    BY <1>3
  <2>2. Of(k, i)
    BY <1>3, <2>1
  <2> HIDE DEF Of
  <2>3. f[k] = i - 3
    BY <2>1
  <2> HIDE DEF f
  <2>4. f[k] \in N /\ f[k] + 3 = i /\ i \in 1..Len(events)
    BY <1>1, <2>3
  <2> QED
    BY <2>2, <2>4
<1>fun. f = [k \in D |-> f[k]]
  OBVIOUS
<1> HIDE DEF f
<1>5. ASSUME NEW j \in D, NEW k \in D, f[j] = f[k]
      PROVE  j = k
  <2>1. Of(j, f[k] + 3) /\ Of(k, f[k] + 3)
    BY <1>4, <1>5
  <2>2. "info" # "preview"
    OBVIOUS
  <2> QED
    BY <2>1, <2>2
<1>6. IsFiniteSet(D) /\ Cardinality(D) = 2 * L /\ IsFiniteSet(N) /\ Cardinality(N) = selected
  <2>1. ASSUME NEW n \in Nat
        PROVE  IsFiniteSet(1..n) /\ Cardinality(1..n) = n
    <3>1. 1 \in Int /\ n \in Int /\ (1 > n => n = 0) /\ n - 1 + 1 = n
      OBVIOUS
    <3> QED
      BY <3>1, FS_Interval
  <2>2. 2 * L \in Nat
    BY <1>2
  <2> QED
    BY <1>1, <2>1, <2>2
<1>7. f \in [D -> N]
  BY <1>4, <1>fun
<1>8. Cardinality(N) < Cardinality(D)
  BY <1>1, <1>6
<1>9. \E j, k \in D : j # k /\ f[j] = f[k]
  <2> HIDE DEF D, N
  <2> QED
    BY <1>6, <1>7, <1>8, FS_PigeonHole
<1> QED
  BY <1>5, <1>9

\* No copy hangs (disc.go:75, 91, 111, 178-180): for any number of files, of losses of the
\* copy and orders of its loop, what it waits for has come or is still to come.
THEOREM NoCopyHangs == Spec => []NeverHangs
<1>1. ASSUME IInv, pc \in {"rename", "list", "mkdir", "diagnose"}
      PROVE  IF consumed < Len(events)
             THEN /\ Ev.type \in Awaited[pc] \cup {"cancel"}
                  /\ Ev.type \in {"info", "preview"} => Ev.slot \in 1..Len(order)
             ELSE ~Closed /\ StillOpen
  <2>1. /\ TypeOK /\ History /\ Results /\ Copy /\ FirstEvents /\ LoopEvents /\ Inv /\ Core
        /\ Len(events) \in Nat /\ Len(commands) \in Nat
        /\ consumed \in 0..Len(events) /\ emitted \in 0..Len(commands) /\ selected \in Nat
    BY <1>1 DEF IInv, Inv, Core, TypeOK
  <2>2. /\ pc = "rename" => consumed = 0
        /\ pc = "list" => consumed = 1 /\ events[1].type = "renamed"
        /\ pc = "mkdir" => consumed = 2 /\ events[1].type = "renamed" /\ events[2].type = "listed"
        /\ pc = "diagnose" => /\ order # <<>> /\ consumed = selected + 3
                              /\ events[1].type = "renamed" /\ events[2].type = "listed"
                              /\ events[3].type = "madeDir"
    <3>1. pc = "diagnose" => /\ order # <<>>
                             /\ events[1].type = "renamed" /\ events[2].type = "listed"
                             /\ events[3].type = "madeDir"
      BY <2>1, Diagnosing DEF Copy
    <3> QED
      BY <1>1, <2>1, <3>1 DEF Copy, IInv, Counted
  <2>3. CASE consumed < Len(events)
    <3>1. CASE pc = "rename"
      <4>1. Len(events) >= 1 /\ Ev = events[1]
        BY <2>1, <2>2, <2>3, <3>1 DEF Ev
      <4> QED
        BY <2>1, <2>3, <3>1, <4>1 DEF FirstEvents, Awaited
    <3>2. CASE pc = "list"
      <4>1. Len(events) >= 2 /\ Ev = events[2]
        BY <2>1, <2>2, <2>3, <3>2 DEF Ev
      <4> QED
        BY <2>1, <2>2, <2>3, <3>2, <4>1 DEF FirstEvents, Awaited
    <3>3. CASE pc = "mkdir"
      <4>1. Len(events) >= 3 /\ Ev = events[3]
        BY <2>1, <2>2, <2>3, <3>3 DEF Ev
      <4> QED
        BY <2>1, <2>2, <2>3, <3>3, <4>1 DEF FirstEvents, Awaited
    <3>4. CASE pc = "diagnose"
      <4>1. Len(events) >= 3 /\ consumed + 1 \in 4..Len(events) /\ consumed + 1 \in 1..Len(events)
        BY <2>1, <2>2, <2>3, <3>4
      <4>2. Ev.type \in {"info", "preview", "cancel"}
        BY <2>1, <2>2, <3>4, <4>1 DEF LoopEvents, Ev
      <4>3. Len(Scheduled) = Len(order)
        BY <2>1, <2>2, <3>4, Slots
      <4> QED
        BY <2>1, <2>3, <3>4, <4>1, <4>2, <4>3 DEF Results, Ev, Awaited
    <3> QED
      BY <1>1, <3>1, <3>2, <3>3, <3>4
  <2>4. CASE ~(consumed < Len(events))
    <3>1. consumed = Len(events)
      BY <2>1, <2>4
    <3>2. ~Failed
      <4>1. /\ ~(Len(events) >= 1 /\ events[1].type \in {"renameFailed", "cancel"})
            /\ ~(Len(events) >= 2 /\ events[2].type = "cancel")
            /\ ~(Len(events) >= 3 /\ events[3].type = "cancel")
        BY <1>1, <2>1, <2>2, <3>1
      <4> QED
        BY <2>1, <4>1, FailedRan
    <3>3. ~Completed
      <4>1. CASE pc = "diagnose"
        BY <1>1, <3>1, <4>1, LoopGoesOn
      <4>2. CASE pc # "diagnose"
        <5>1. ~(3 <= Len(events))
          BY <1>1, <2>1, <2>2, <3>1, <4>2
        <5> QED
          BY <2>1, <5>1, CompletedRan
      <4> QED
        BY <4>1, <4>2
    <3>4. CASE pc = "rename"
      <4>1. 1 \in 1..Len(commands) /\ Len(commands) >= 1
        BY <2>1, <3>4 DEF Copy
      <4>2. Recorded("rename")
        BY <2>1, <4>1 DEF Recorded, History, Plain
      <4>3. \A t : ~Happened(t)
        BY <2>2, <3>1, <3>4 DEF Happened
      <4> QED
        BY <2>4, <3>2, <3>3, <3>4, <4>2, <4>3 DEF StillOpen, Closed
    <3>5. CASE pc = "list"
      <4>1. 2 \in 1..Len(commands) /\ Len(commands) >= 2
        BY <2>1, <3>5 DEF Copy
      <4>2. Recorded("list")
        BY <2>1, <2>2, <3>5, <4>1, EarlyHistory DEF Recorded
      <4>3. ~Happened("listed")
        <5>1. \A i \in 1..Len(events) : i = 1
          BY <2>2, <3>1, <3>5
        <5> QED
          BY <2>2, <3>5, <5>1 DEF Happened
      <4> QED
        BY <2>4, <3>2, <3>3, <3>5, <4>2, <4>3 DEF StillOpen, Closed
    <3>6. CASE pc = "mkdir"
      <4>1. 3 \in 1..Len(commands) /\ Len(commands) >= 3
        BY <2>1, <3>6 DEF Copy
      <4>2. Recorded("mkdir")
        BY <2>1, <2>2, <3>6, <4>1, EarlyHistory DEF Recorded
      <4>3. ~Happened("madeDir")
        <5>1. \A i \in 1..Len(events) : i = 1 \/ i = 2
          BY <2>2, <3>1, <3>6
        <5> QED
          BY <2>2, <3>6, <5>1 DEF Happened
      <4> QED
        BY <2>4, <3>2, <3>3, <3>6, <4>2, <4>3 DEF StillOpen, Closed
    <3>7. CASE pc = "diagnose"
      BY <1>1, <2>4, <3>1, <3>2, <3>3, <3>7, ResultsAreOpen DEF StillOpen, Closed
    <3> QED
      BY <1>1, <3>4, <3>5, <3>6, <3>7
  <2> QED
    BY <2>3, <2>4
<1>2. IInv => NeverHangs
  BY <1>1 DEF NeverHangs, Awaited
<1> QED
  BY <1>2, IInvInvariant, PTL

-----------------------------------------------------------------------------
(* DiscWorkflow implements DiscProgress *)

LEMMA UpToFive == \A n \in Nat : n <= 5 => n \in {0, 1, 2, 3, 4, 5}
  OBVIOUS

LEMMA IndexUpTo ==
  \A n \in {0, 1, 2, 3, 4, 5} : \A i :
    i \in 1..n <=>
      \/ n >= 1 /\ i = 1
      \/ n >= 2 /\ i = 2
      \/ n >= 3 /\ i = 3
      \/ n >= 4 /\ i = 4
      \/ n >= 5 /\ i = 5
<1> TAKE n \in {0, 1, 2, 3, 4, 5}
<1> TAKE i
<1>1. n \in Nat /\ n <= 5
  OBVIOUS
<1>2. ASSUME i \in 1..n
      PROVE  (n >= 1 /\ i = 1) \/ (n >= 2 /\ i = 2) \/ (n >= 3 /\ i = 3)
               \/ (n >= 4 /\ i = 4) \/ (n >= 5 /\ i = 5)
  <2>1. i \in Nat /\ i <= 5 /\ 1 <= i /\ i <= n
    BY <1>1, <1>2
  <2>2. i \in {0, 1, 2, 3, 4, 5}
    BY <2>1, UpToFive
  <2> QED
    BY <1>1, <2>1, <2>2
<1>3. /\ n >= 1 => 1 \in 1..n
      /\ n >= 2 => 2 \in 1..n
      /\ n >= 3 => 3 \in 1..n
      /\ n >= 4 => 4 \in 1..n
      /\ n >= 5 => 5 \in 1..n
  BY <1>1
<1> QED
  BY <1>2, <1>3

\* The length of the history and its last command give the phase.
LEMMA PhaseOf ==
  ASSUME TypeOK, History
  PROVE  /\ Len(commands) <= 1 => phaseBar = "moving"
         /\ Len(commands) = 2 => phaseBar = IF commands[2].type = "list" THEN "listing" ELSE "failed"
         /\ Len(commands) = 3 => phaseBar = IF commands[3].type = "mkdir" THEN "preparing" ELSE "failed"
         /\ Len(commands) = 4 => phaseBar = IF commands[4].type = "diagnose" THEN "diagnosing"
                                            ELSE IF commands[4].type = "complete" THEN "done"
                                            ELSE "failed"
         /\ Len(commands) = 5 => phaseBar = "done"
         /\ Recorded("mkdir") <=> PastList
         /\ Len(commands) >= 4 => PastList
<1>len. Len(commands) \in Nat /\ Len(commands) <= 5 /\ \A t : Plain(t).type = t
  BY DEF TypeOK, History, Plain
<1>pick. PICK n \in {0, 1, 2, 3, 4, 5} : n = Len(commands)
  BY <1>len, UpToFive
<1>1. /\ n >= 1 => commands[1].type = "rename"
      /\ n >= 2 => commands[2].type \in {"list", "fail"} /\ (n >= 3 => commands[2].type = "list")
      /\ n >= 3 => commands[3].type \in {"mkdir", "fail"} /\ (n >= 4 => commands[3].type = "mkdir")
      /\ n >= 4 => commands[4].type \in {"diagnose", "complete", "fail"}
      /\ n = 5 => commands[4].type = "diagnose" /\ commands[5].type = "complete"
  <2>1. n >= 1 => commands[1].type = "rename"
    BY <1>len, <1>pick DEF History
  <2>2. n >= 2 => commands[2].type \in {"list", "fail"} /\ (n >= 3 => commands[2].type = "list")
    BY <1>len, <1>pick DEF History
  <2>3. n >= 3 => commands[3].type \in {"mkdir", "fail"} /\ (n >= 4 => commands[3].type = "mkdir")
    BY <1>len, <1>pick DEF History
  <2>4. n >= 4 => commands[4].type \in {"diagnose", "complete", "fail"}
    BY <1>len, <1>pick DEF History
  <2>5. n = 5 => commands[4].type = "diagnose" /\ commands[5].type = "complete"
    <3>1. n = 5 => Len(commands) >= 4 /\ Len(commands) # 4
      BY <1>pick
    <3> QED
      BY <1>len, <1>pick, <3>1 DEF History
  <2> QED
    BY <2>1, <2>2, <2>3, <2>4, <2>5
<1>2. \A t : Recorded(t) <=>
        \/ n >= 1 /\ commands[1].type = t
        \/ n >= 2 /\ commands[2].type = t
        \/ n >= 3 /\ commands[3].type = t
        \/ n >= 4 /\ commands[4].type = t
        \/ n >= 5 /\ commands[5].type = t
  <2>1. \A i : i \in 1..n <=>
          \/ n >= 1 /\ i = 1
          \/ n >= 2 /\ i = 2
          \/ n >= 3 /\ i = 3
          \/ n >= 4 /\ i = 4
          \/ n >= 5 /\ i = 5
    BY IndexUpTo
  <2> QED
    BY <1>pick, <2>1 DEF Recorded
<1>3. CASE n \in {0, 1}
  <2>1. \A t : Recorded(t) => t = "rename"
    BY <1>1, <1>2, <1>3
  <2> QED
    BY <1>pick, <1>3, <2>1 DEF phaseBar, Closed, Completed, Failed, PastList
<1>4. CASE n = 2
  <2>n. n >= 1 /\ n >= 2 /\ ~(n >= 3) /\ ~(n >= 4) /\ ~(n >= 5)
    BY <1>4
  <2>c. \A t : Recorded(t) <=> commands[1].type = t \/ commands[2].type = t
    BY <1>2, <2>n
  <2>1. \A t : Recorded(t) <=> t = "rename" \/ t = commands[2].type
    BY <1>1, <1>4, <2>n, <2>c
  <2> QED
    BY <1>pick, <1>1, <1>4, <2>1 DEF phaseBar, Closed, Completed, Failed, PastList
<1>5. CASE n = 3
  <2>n. n >= 1 /\ n >= 2 /\ n >= 3 /\ ~(n >= 4) /\ ~(n >= 5)
    BY <1>5
  <2>c. \A t : Recorded(t) <=> commands[1].type = t \/ commands[2].type = t \/ commands[3].type = t
    BY <1>2, <2>n
  <2>1. \A t : Recorded(t) <=> t = "rename" \/ t = "list" \/ t = commands[3].type
    BY <1>1, <1>5, <2>n, <2>c
  <2> QED
    BY <1>pick, <1>1, <1>5, <2>1 DEF phaseBar, Closed, Completed, Failed, PastList
<1>6. CASE n = 4
  <2>n. n >= 1 /\ n >= 2 /\ n >= 3 /\ n >= 4 /\ ~(n >= 5)
    BY <1>6
  <2>c. \A t : Recorded(t) <=> commands[1].type = t \/ commands[2].type = t \/ commands[3].type = t \/ commands[4].type = t
    BY <1>2, <2>n
  <2>1. \A t : Recorded(t) <=> t = "rename" \/ t = "list" \/ t = "mkdir" \/ t = commands[4].type
    BY <1>1, <1>6, <2>n, <2>c
  <2> QED
    BY <1>pick, <1>1, <1>6, <2>1 DEF phaseBar, Closed, Completed, Failed, PastList
<1>7. CASE n = 5
  <2>n. n >= 1 /\ n >= 2 /\ n >= 3 /\ n >= 4 /\ n >= 5
    BY <1>7
  <2>c. \A t : Recorded(t) <=> commands[1].type = t \/ commands[2].type = t \/ commands[3].type = t \/ commands[4].type = t \/ commands[5].type = t
    BY <1>2, <2>n
  <2>1. \A t : Recorded(t) <=> t \in {"rename", "list", "mkdir", "diagnose", "complete"}
    BY <1>1, <1>7, <2>n, <2>c
  <2> QED
    BY <1>pick, <1>1, <1>7, <2>1 DEF phaseBar, Closed, Completed, Failed, PastList
<1> QED
  BY <1>3, <1>4, <1>5, <1>6, <1>7

LEMMA PhaseOfAfter ==
  Core' =>
    /\ Len(commands') <= 1 => phaseBar' = "moving"
    /\ Len(commands') = 2 => phaseBar' = IF commands'[2].type = "list" THEN "listing" ELSE "failed"
    /\ Len(commands') = 3 => phaseBar' = IF commands'[3].type = "mkdir" THEN "preparing" ELSE "failed"
    /\ Len(commands') = 4 => phaseBar' = IF commands'[4].type = "diagnose" THEN "diagnosing"
                                         ELSE IF commands'[4].type = "complete" THEN "done"
                                         ELSE "failed"
    /\ Len(commands') = 5 => phaseBar' = "done"
    /\ Recorded("mkdir")' <=> PastList'
    /\ Len(commands') >= 4 => PastList'
<1> DEFINE P ==
      /\ Len(commands) <= 1 => phaseBar = "moving"
      /\ Len(commands) = 2 => phaseBar = IF commands[2].type = "list" THEN "listing" ELSE "failed"
      /\ Len(commands) = 3 => phaseBar = IF commands[3].type = "mkdir" THEN "preparing" ELSE "failed"
      /\ Len(commands) = 4 => phaseBar = IF commands[4].type = "diagnose" THEN "diagnosing"
                                         ELSE IF commands[4].type = "complete" THEN "done"
                                         ELSE "failed"
      /\ Len(commands) = 5 => phaseBar = "done"
      /\ Recorded("mkdir") <=> PastList
      /\ Len(commands) >= 4 => PastList
<1>1. Core => P
  BY PhaseOf DEF Core
<1>2. Core' => P'
  BY <1>1, PTL
<1> QED
  BY <1>2

\* The files of the run are those that were listed.
LEMMA FilesOf ==
  ASSUME TypeOK, History, ListedOnce
  PROVE  /\ filesBar = IF PastList THEN events[2].files ELSE {}
         /\ filesBar \in SUBSET Files
<1>1. events \in Seq(Event) /\ Len(events) \in Nat
  BY DEF TypeOK
<1>2. Recorded("mkdir") <=> PastList
  BY PhaseOf
<1>3. CASE PastList
  <2>1. 2 \in 1..Len(events) /\ events[2].type = "listed"
    BY <1>1, <1>3, FarAsEvents
  <2>2. \A i \in 1..Len(events) : i # 2 => events[i].files = {}
    BY <2>1 DEF ListedOnce
  <2>3. UNION {events[i].files : i \in 1..Len(events)} = events[2].files
    BY <2>1, <2>2
  <2>4. events[2] \in Event
    BY <1>1, <2>1
  <2> QED
    BY <1>2, <1>3, <2>3, <2>4 DEF filesBar, Event
<1>4. CASE ~PastList
  BY <1>2, <1>4 DEF filesBar
<1> QED
  BY <1>3, <1>4

LEMMA FilesOfAfter ==
  Core' /\ ListedOnce' => /\ filesBar' = IF PastList' THEN events'[2].files ELSE {}
                          /\ filesBar' \in SUBSET Files
<1> DEFINE P == /\ filesBar = IF PastList THEN events[2].files ELSE {}
                /\ filesBar \in SUBSET Files
<1>1. Core /\ ListedOnce => P
  BY FilesOf DEF Core
<1>2. (Core /\ ListedOnce)' => P'
  BY <1>1, PTL
<1> QED
  BY <1>2

\* What DiscProgress sees does not change with the copy.
LEMMA SameBars ==
  ASSUME UNCHANGED <<commands, events>>
  PROVE  UNCHANGED Progress!vars
<1>1. phaseBar' = phaseBar
  BY DEF phaseBar, Closed, Completed, Failed, Recorded
<1>2. filesBar' = filesBar
  BY DEF filesBar, Recorded
<1>3. missingBar' = missingBar
  BY DEF missingBar, Scheduled
<1>4. Happened("cancel")' = Happened("cancel")
  BY DEF Happened
<1> QED
  BY <1>1, <1>2, <1>3, <1>4 DEF Progress!vars

\* A copy that issues its (n + 1)-th command replays it, or the run goes on.
LEMMA EmitStep ==
  ASSUME TypeOK, NEW n \in 0..4, emitted = n, NEW cmd, NEW next, Emit(cmd, next)
  PROVE  \/ commands' = commands
         \/ Len(commands) = n /\ Len(commands') = n + 1 /\ commands'[n + 1] = cmd
  BY DEF Emit, TypeOK

\* Before the loop there are no diagnostics.
LEMMA EarlyBars ==
  ASSUME Len(commands) \in 0..3, Len(commands') \in 0..3, events' = events
  PROVE  missingBar = {} /\ missingBar' = {} /\ Happened("cancel")' = Happened("cancel")
<1>1. Scheduled = <<>> /\ Scheduled' = <<>>
  BY DEF Scheduled
<1>2. 1..Len(<<>>) = {}
  OBVIOUS
<1> QED
  BY <1>1, <1>2 DEF missingBar, Happened

LEMMA ProgressBegin ==
  ASSUME Core, Core', ListedOnce, ListedOnce', Begin
  PROVE  UNCHANGED Progress!vars
<1>1. TypeOK /\ History /\ emitted = 0 /\ events' = events
  BY DEF Core, Begin, Copy
<1>2. CASE commands' = commands
  BY <1>1, <1>2, SameBars
<1>3. CASE Len(commands) = 0 /\ Len(commands') = 1
  <2>1. phaseBar' = phaseBar
    BY <1>1, <1>3, PhaseOf, PhaseOfAfter
  <2>2. filesBar = {} /\ filesBar' = {}
    BY <1>1, <1>3, FilesOf, FilesOfAfter DEF PastList
  <2>3. Len(commands) \in 0..3 /\ Len(commands') \in 0..3
    BY <1>3
  <2>4. missingBar' = missingBar /\ Happened("cancel")' = Happened("cancel")
    BY <1>1, <2>3, EarlyBars
  <2> QED
    BY <2>1, <2>2, <2>4 DEF Progress!vars
<1> QED
  BY <1>1, <1>2, <1>3, EmitStep DEF Begin

\* The second command: RenameFile was done, or failed.
LEMMA ProgressRename ==
  ASSUME Core, Core', ListedOnce, ListedOnce', pc = "rename", events' = events,
         NEW t \in {"list", "fail"}, NEW next, Emit(Plain(t), next)
  PROVE  [Progress!Next]_(Progress!vars)
<1>1. TypeOK /\ History /\ emitted = 1
  BY DEF Core, Copy
<1>2. CASE commands' = commands
  BY <1>1, <1>2, SameBars
<1>3. CASE Len(commands) = 1 /\ Len(commands') = 2 /\ commands'[2] = Plain(t)
  <2>1. phaseBar = "moving"
    BY <1>1, <1>3, PhaseOf
  <2>2. phaseBar' = IF t = "list" THEN "listing" ELSE "failed"
    BY <1>3, PhaseOfAfter DEF Plain
  <2>3. filesBar = {} /\ filesBar' = {}
    BY <1>1, <1>3, FilesOf, FilesOfAfter DEF PastList
  <2>4. missingBar' = missingBar /\ Happened("cancel")' = Happened("cancel")
    BY <1>1, <1>3, EarlyBars
  <2>5. Progress!Move \/ Progress!Fail
    BY <2>1, <2>2, <2>3, <2>4 DEF Progress!Move, Progress!Fail
  <2> QED
    BY <2>5 DEF Progress!Next
<1> QED
  BY <1>1, <1>2, <1>3, EmitStep

\* The third one: ListVideoFiles was done, or the run was cancelled.
LEMMA ProgressList ==
  ASSUME Core, Core', ListedOnce, ListedOnce', pc = "list", events' = events,
         NEW t \in {"mkdir", "fail"}, NEW next, Emit(Plain(t), next),
         t = "fail" => Happened("cancel")
  PROVE  [Progress!Next]_(Progress!vars)
<1>1. TypeOK /\ History /\ emitted = 2 /\ PastRename
  BY PastOf DEF Core, Copy
<1>2. CASE commands' = commands
  BY <1>1, <1>2, SameBars
<1>3. CASE Len(commands) = 2 /\ Len(commands') = 3 /\ commands'[3] = Plain(t)
  <2>1. phaseBar = "listing"
    BY <1>1, <1>3, PhaseOf DEF PastRename
  <2>2. phaseBar' = IF t = "mkdir" THEN "preparing" ELSE "failed"
    BY <1>3, PhaseOfAfter DEF Plain
  <2>3. filesBar = {} /\ filesBar' \in SUBSET Files
    BY <1>1, <1>3, FilesOf, FilesOfAfter DEF PastList
  <2>4. missingBar' = missingBar /\ Happened("cancel")' = Happened("cancel")
    BY <1>1, <1>3, EarlyBars
  <2>5. CASE t = "mkdir"
    <3>1. Progress!List
      BY <2>1, <2>2, <2>3, <2>4, <2>5 DEF Progress!List
    <3> QED
      BY <3>1 DEF Progress!Next
  <2>6. CASE t = "fail"
    <3>1. filesBar' = {}
      BY <1>3, <2>6, FilesOfAfter DEF PastList, Plain
    <3>2. Happened("cancel") = TRUE
      BY <2>6 DEF Happened
    <3>3. Progress!Fail
      BY <2>1, <2>2, <2>3, <2>4, <2>6, <3>1, <3>2 DEF Progress!Fail
    <3> QED
      BY <3>3 DEF Progress!Next
  <2> QED
    BY <2>5, <2>6
<1> QED
  BY <1>1, <1>2, <1>3, EmitStep

\* The fourth one: the directory is there, and the loop starts, or the run was cancelled.
LEMMA ProgressMkDir ==
  ASSUME Core, Core', Results, ListedOnce, ListedOnce', OnMadeDir
  PROVE  [Progress!Next]_(Progress!vars)
<1>1. /\ TypeOK /\ History /\ emitted = 3 /\ PastList /\ events' = events
      /\ state.Files = [f \in events[2].files |-> NewFileState]
  BY PastOf DEF Core, Copy, OnMadeDir, Consume
<1>2. PICK o \in LoopOrders :
        IF o = <<>> THEN Emit(Plain("complete"), "returned") ELSE Emit(Diagnose(o), "diagnose")
  BY DEF OnMadeDir
<1> DEFINE cmd == IF o = <<>> THEN Plain("complete") ELSE Diagnose(o)
<1>3. \E next : Emit(cmd, next)
  BY <1>2
<1>4. CASE commands' = commands
  BY <1>1, <1>4, SameBars
<1>5. CASE Len(commands) = 3 /\ Len(commands') = 4 /\ commands'[4] = cmd
  <2>1. phaseBar = "preparing"
    BY <1>1, <1>5, PhaseOf DEF PastList
  <2>2. phaseBar' = IF o = <<>> THEN "done" ELSE "diagnosing"
    <3>1. cmd.type = IF o = <<>> THEN "complete" ELSE "diagnose"
      BY DEF Plain, Diagnose
    <3> QED
      BY <1>5, <3>1, PhaseOfAfter
  <2>3. 2 \in 1..Len(events)
    BY <1>1, FarAsEvents DEF TypeOK
  <2>4. o \in SetToSeqs(events[2].files) /\ IsFiniteSet(events[2].files)
    BY <1>1, <2>3, ListedFinite DEF LoopOrders
  <2>5. Len(o) \in Nat /\ o \in Seq(events[2].files) /\ events[2].files = {o[s] : s \in 1..Len(o)}
    BY <2>4, LoopOrderLemma
  <2>6. o = <<>> <=> events[2].files = {}
    <3>1. o = <<>> => 1..Len(o) = {}
      OBVIOUS
    <3>2. o # <<>> => 1 \in 1..Len(o)
      BY <2>5
    <3> QED
      BY <2>5, <3>1, <3>2
  <2>7. PastList'
    BY <1>5, PhaseOfAfter
  <2>8. filesBar = events[2].files /\ filesBar' = events[2].files
    BY <1>1, <2>7, FilesOf, FilesOfAfter
  <2>9. Scheduled = <<>> /\ Scheduled' = o
    BY <1>5 DEF Scheduled, Plain, Diagnose
  <2>10. \A i \in 1..Len(events) : events[i].type \notin {"info", "preview"}
    BY <2>9 DEF Results
  <2>11. missingBar' = {"info", "preview"} \X events[2].files
    <3>1. missingBar' = {<<k, o[s]>> : k \in {"info", "preview"}, s \in 1..Len(o)}
                          \ {<<events[i].type, events[i].file>> : i \in 1..Len(events)}
      BY <1>1, <2>9 DEF missingBar
    <3>2. {<<k, o[s]>> : k \in {"info", "preview"}, s \in 1..Len(o)}
            = {"info", "preview"} \X events[2].files
      BY <2>5
    <3>3. \A d \in {"info", "preview"} \X events[2].files :
            d \notin {<<events[i].type, events[i].file>> : i \in 1..Len(events)}
      BY <2>10
    <3> QED
      BY <3>1, <3>2, <3>3
  <2>12. Happened("cancel")' = Happened("cancel")
    BY <1>1 DEF Happened
  <2>13. Progress!Prepare
    BY <2>1, <2>2, <2>6, <2>8, <2>11, <2>12 DEF Progress!Prepare, Progress!Kinds
  <2> QED
    BY <2>13 DEF Progress!Next
<1> QED
  BY <1>1, <1>3, <1>4, <1>5, EmitStep

\* It is cancelled instead.
LEMMA ProgressMkDirFails ==
  ASSUME Core, Core', ListedOnce, ListedOnce', pc = "mkdir", events' = events,
         Emit(Plain("fail"), "returned"), Happened("cancel")
  PROVE  [Progress!Next]_(Progress!vars)
<1>1. TypeOK /\ History /\ emitted = 3 /\ PastList
  BY PastOf DEF Core, Copy
<1>2. CASE commands' = commands
  BY <1>1, <1>2, SameBars
<1>3. CASE Len(commands) = 3 /\ Len(commands') = 4 /\ commands'[4] = Plain("fail")
  <2>1. phaseBar = "preparing" /\ phaseBar' = "failed"
    BY <1>1, <1>3, PhaseOf, PhaseOfAfter DEF PastList, Plain
  <2>2. PastList'
    BY <1>3, PhaseOfAfter
  <2>3. filesBar' = filesBar
    BY <1>1, <2>2, FilesOf, FilesOfAfter
  <2>4. Scheduled = <<>> /\ Scheduled' = <<>>
    BY <1>3 DEF Scheduled, Plain
  <2>5. missingBar' = missingBar
    BY <1>1, <2>4 DEF missingBar
  <2>6. Happened("cancel") = TRUE /\ Happened("cancel")' = TRUE
    BY <1>1 DEF Happened
  <2>7. Progress!Fail
    BY <2>1, <2>3, <2>5, <2>6 DEF Progress!Fail
  <2> QED
    BY <2>7 DEF Progress!Next
<1> QED
  BY <1>1, <1>2, <1>3, EmitStep

\* The fifth one: the last Select returned, or the wait was cut short.
LEMMA ProgressSelected ==
  ASSUME Core, Core', Results, ListedOnce, ListedOnce', CompletesDiagnosed',
         pc = "diagnose", events' = events, NEW n, NEW s, Selected(n, s)
  PROVE  [Progress!Next]_(Progress!vars)
<1>1. TypeOK /\ History /\ emitted = 4
  BY DEF Core, Copy
<1>2. CASE commands' = commands
  BY <1>1, <1>2, SameBars
<1>3. CASE Len(commands) = 4 /\ Len(commands') = 5 /\ commands'[5] = Plain("complete")
  <2>1. Emit(Plain("complete"), "returned")
    <3>1. commands' # commands
      BY <1>3
    <3> QED
      BY <3>1 DEF Selected
  <2>2. commands'[4] = commands[4]
    <3>1. 4 \in 1..Len(commands) /\ commands \in Seq(Command) /\ emitted \in 0..Len(commands)
      BY <1>1, <1>3 DEF TypeOK
    <3> QED
      BY <2>1, <3>1, EmitGrows
  <2>3. commands'[4].type = "diagnose"
    <3>1. Len(commands') >= 4 /\ Len(commands') # 4
      BY <1>3
    <3> QED
      BY <3>1 DEF Core, History
  <2>4. phaseBar = "diagnosing" /\ phaseBar' = "done"
    BY <1>1, <1>3, <2>2, <2>3, PhaseOf, PhaseOfAfter
  <2>5. Len(commands) >= 4 /\ Len(commands') >= 4
    BY <1>3
  <2>6. filesBar' = filesBar
    BY <1>1, <2>5, FilesOf, FilesOfAfter, PhaseOf, PhaseOfAfter
  <2>7. Scheduled' = Scheduled
    BY <2>2, <2>5 DEF Scheduled
  <2>8. missingBar' = missingBar
    BY <1>1, <2>7 DEF missingBar
  <2>9. Completed'
    <3>1. 5 \in 1..Len(commands')
      BY <1>3
    <3> QED
      BY <1>3, <3>1 DEF Completed, Recorded, Plain
  <2>10. missingBar = {} \/ Happened("cancel")
    <3> SUFFICES ASSUME ~Happened("cancel")
                 PROVE  missingBar = {}
      OBVIOUS
    <3>1. ~Happened("cancel")'
      BY <1>1 DEF Happened
    <3>2. \A i \in 1..Len(Scheduled) : Delivered("info", i)' /\ Delivered("preview", i)'
      BY <2>7, <2>9, <3>1 DEF CompletesDiagnosed
    <3>3. ASSUME NEW k \in {"info", "preview"}, NEW i \in 1..Len(Scheduled)
          PROVE  <<k, Scheduled[i]>> \in {<<events[j].type, events[j].file>> : j \in 1..Len(events)}
      <4>1. PICK j \in 1..Len(events) : events[j].type = k /\ events[j].slot = i
        BY <1>1, <3>2, <3>3 DEF Delivered
      <4>2. events[j].file = Scheduled[i]
        BY <4>1 DEF Results
      <4> QED
        BY <4>1, <4>2
    <3> DEFINE all  == {<<k, Scheduled[i]>> : k \in {"info", "preview"}, i \in 1..Len(Scheduled)}
               come == {<<events[j].type, events[j].file>> : j \in 1..Len(events)}
    <3>4. \A d \in all : d \in come
      <4>1. ASSUME NEW d \in all
            PROVE  d \in come
        <5>1. PICK k \in {"info", "preview"}, i \in 1..Len(Scheduled) : d = <<k, Scheduled[i]>>
          OBVIOUS
        <5> QED
          BY <3>3, <5>1
      <4> QED
        BY <4>1
    <3>5. missingBar = all \ come
      BY DEF missingBar
    <3> HIDE DEF all, come
    <3> QED
      BY <3>4, <3>5
  <2>11. Happened("cancel")' = Happened("cancel")
    BY <1>1 DEF Happened
  <2>12. Progress!Finish
    BY <2>4, <2>6, <2>8, <2>10, <2>11 DEF Progress!Finish
  <2> QED
    BY <2>12 DEF Progress!Next
<1> QED
  BY <1>1, <1>2, <1>3, EmitStep DEF Selected

\* What a delivery adds to what DiscProgress sees.
LEMMA DeliverBars ==
  ASSUME TypeOK, NEW t, NEW S, NEW s, NEW f, Deliver(t, S, s, f), S = {} \/ ~Recorded("mkdir")
  PROVE  /\ phaseBar' = phaseBar /\ phaseBar \notin {"done", "failed"}
         /\ filesBar' = filesBar
         /\ missingBar' = missingBar \ {<<t, f>>}
         /\ Happened("cancel")' <=> Happened("cancel") \/ t = "cancel"
<1>1. /\ Len(events') = Len(events) + 1 /\ Len(events) \in Nat
      /\ \A i \in 1..Len(events) : events'[i] = events[i]
      /\ events'[Len(events) + 1] = [type |-> t, files |-> S, slot |-> s, file |-> f]
      /\ commands' = commands /\ ~Closed
  BY DeliverStep DEF TypeOK
<1>2. /\ Len(events) + 1 \in 1..Len(events')
      /\ \A i : i \in 1..Len(events') <=> i \in 1..Len(events) \/ i = Len(events) + 1
  BY <1>1
<1>3. phaseBar' = phaseBar
  BY <1>1 DEF phaseBar, Closed, Completed, Failed, Recorded
<1>4. phaseBar \notin {"done", "failed"}
  BY <1>1 DEF phaseBar, Closed
<1>5. filesBar' = filesBar
  <2>1. Recorded("mkdir")' <=> Recorded("mkdir")
    BY <1>1 DEF Recorded
  <2>2. CASE ~Recorded("mkdir")
    BY <2>1, <2>2 DEF filesBar
  <2>3. CASE S = {}
    <3>1. UNION {events'[i].files : i \in 1..Len(events')} = UNION {events[i].files : i \in 1..Len(events)}
      BY <1>1, <1>2, <2>3
    <3> QED
      BY <2>1, <3>1 DEF filesBar
  <2> QED
    BY <2>2, <2>3
<1>6. missingBar' = missingBar \ {<<t, f>>}
  <2>1. Scheduled' = Scheduled
    BY <1>1 DEF Scheduled
  <2>2. {<<events'[i].type, events'[i].file>> : i \in 1..Len(events')}
          = {<<events[i].type, events[i].file>> : i \in 1..Len(events)} \cup {<<t, f>>}
    BY <1>1, <1>2
  <2> QED
    BY <2>1, <2>2 DEF missingBar
<1>7. Happened("cancel")' <=> Happened("cancel") \/ t = "cancel"
  BY <1>1, <1>2 DEF Happened
<1> QED
  BY <1>3, <1>4, <1>5, <1>6, <1>7

\* The events of the three sequential activities tell it nothing until they are applied.
LEMMA ProgressEarlyEvent ==
  ASSUME TypeOK, NEW t, t \notin {"info", "preview", "cancel"}, NEW S, NEW s, NEW f,
         Deliver(t, S, s, f), S = {} \/ ~Recorded("mkdir")
  PROVE  UNCHANGED Progress!vars
<1>1. /\ phaseBar' = phaseBar /\ filesBar' = filesBar
      /\ missingBar' = missingBar \ {<<t, f>>}
      /\ Happened("cancel")' <=> Happened("cancel") \/ t = "cancel"
  BY DeliverBars
<1>2. <<t, f>> \notin missingBar
  BY DEF missingBar
<1>3. Happened("cancel")' = Happened("cancel")
  BY <1>1 DEF Happened
<1> QED
  BY <1>1, <1>2, <1>3 DEF Progress!vars

LEMMA ProgressCancel ==
  ASSUME TypeOK, RequestCancel
  PROVE  Progress!Next
<1>1. Deliver("cancel", {}, 0, None) /\ ~Happened("cancel")
  BY DEF RequestCancel
<1>2. /\ phaseBar' = phaseBar /\ phaseBar \notin {"done", "failed"} /\ filesBar' = filesBar
      /\ missingBar' = missingBar \ {<<"cancel", None>>}
      /\ Happened("cancel")' <=> Happened("cancel") \/ "cancel" = "cancel"
  BY <1>1, DeliverBars
<1>3. <<"cancel", None>> \notin missingBar
  BY DEF missingBar
<1>4. Happened("cancel")' = TRUE
  BY <1>2 DEF Happened
<1>5. Progress!Cancel
  BY <1>1, <1>2, <1>3, <1>4 DEF Progress!Cancel, Progress!Final
<1> QED
  BY <1>5 DEF Progress!Next

\* Each file has one slot, once there are slots.
LEMMA SlotsDiffer ==
  ASSUME TypeOK, History, Scheduled # <<>>
  PROVE  /\ Len(commands) \in {4, 5} /\ commands[4].type = "diagnose"
         /\ \A i, j \in 1..Len(Scheduled) : Scheduled[i] = Scheduled[j] => i = j
<1>1. Len(commands) >= 4 /\ Len(commands) \in {4, 5}
  <2>1. Len(commands) >= 4
    BY DEF Scheduled
  <2>2. Len(commands) \in Nat /\ Len(commands) <= 5
    BY DEF TypeOK, History
  <2>3. \A n \in Nat : n >= 4 /\ n <= 5 => n \in {4, 5}
    OBVIOUS
  <2> QED
    BY <2>1, <2>2, <2>3
<1>2. commands[4] # Plain("complete") /\ commands[4] # Plain("fail")
  BY <1>1 DEF Scheduled, Plain
<1>3. /\ Len(events) >= 3 /\ commands[4].type = "diagnose"
      /\ commands[4].order \in SetToSeqs(events[2].files)
  BY <1>1, <1>2 DEF History
<1>4. 2 \in 1..Len(events)
  BY <1>3 DEF TypeOK
<1>5. Scheduled \in SetToSeqs(events[2].files) /\ IsFiniteSet(events[2].files)
  BY <1>1, <1>3, <1>4, ListedFinite DEF Scheduled
<1>6. \A i, j \in 1..Len(Scheduled) : Scheduled[i] = Scheduled[j] => i = j
  <2> DEFINE S == events[2].files
  <2>1. Scheduled \in SetToSeqs(S) /\ IsFiniteSet(S)
    BY <1>5
  <2> HIDE DEF S
  <2> QED
    BY <2>1, LoopOrderLemma
<1> QED
  BY <1>1, <1>3, <1>6

\* A result is one of the missing diagnostics.
LEMMA ProgressResult ==
  ASSUME TypeOK, History, Results, NEW t \in {"info", "preview"}, NEW s \in 1..Len(Scheduled),
         ~Delivered(t, s), Deliver(t, {}, s, Scheduled[s])
  PROVE  Progress!Next
<1>1. Scheduled # <<>>
  <2>1. 1..Len(<<>>) = {}
    OBVIOUS
  <2> QED
    BY <2>1
<1>2. /\ Len(commands) \in {4, 5} /\ commands[4].type = "diagnose"
      /\ \A i, j \in 1..Len(Scheduled) : Scheduled[i] = Scheduled[j] => i = j
  BY <1>1, SlotsDiffer
<1>3. /\ phaseBar' = phaseBar /\ phaseBar \notin {"done", "failed"} /\ filesBar' = filesBar
      /\ missingBar' = missingBar \ {<<t, Scheduled[s]>>}
      /\ Happened("cancel")' <=> Happened("cancel") \/ t = "cancel"
  BY DeliverBars
<1>4. phaseBar = "diagnosing"
  BY <1>2, <1>3, PhaseOf
<1>5. <<t, Scheduled[s]>> \in missingBar
  <2>1. ASSUME NEW i \in 1..Len(events), <<t, Scheduled[s]>> = <<events[i].type, events[i].file>>
        PROVE  FALSE
    <3>1. events[i].type = t /\ events[i].file = Scheduled[s]
      BY <2>1
    <3>2. events[i].slot \in 1..Len(Scheduled) /\ events[i].file = Scheduled[events[i].slot]
      BY <3>1 DEF Results
    <3>3. events[i].slot = s
      BY <1>2, <3>1, <3>2
    <3> QED
      BY <3>1, <3>3 DEF Delivered
  <2> QED
    BY <2>1 DEF missingBar
<1>6. Happened("cancel")' = Happened("cancel")
  BY <1>3 DEF Happened
<1>7. Progress!Diagnose(<<t, Scheduled[s]>>)
  BY <1>3, <1>4, <1>5, <1>6 DEF Progress!Diagnose
<1> QED
  BY <1>5, <1>7 DEF Progress!Next

LEMMA ProgressStep ==
  ASSUME IInv, IInv', [Next]_vars
  PROVE  [Progress!Next]_(Progress!vars)
<1>1. /\ Core /\ Core' /\ TypeOK /\ History /\ Results /\ ListedOnce /\ ListedOnce'
      /\ CompletesDiagnosed'
  BY DEF IInv, Core
<1>2. CASE Begin
  BY <1>1, <1>2, ProgressBegin
<1>3. CASE OnRenamed
  BY <1>1, <1>3, ProgressRename DEF OnRenamed, Consume
<1>4. CASE OnRenameFailed
  BY <1>1, <1>4, ProgressRename DEF OnRenameFailed, Consume
<1>5. CASE OnListed
  BY <1>1, <1>5, ProgressList DEF OnListed, Consume
<1>6. CASE OnMadeDir
  BY <1>1, <1>6, ProgressMkDir
<1>7. CASE OnVideoInfo
  BY <1>1, <1>7, ProgressSelected DEF OnVideoInfo, Consume
<1>8. CASE OnPreview
  BY <1>1, <1>8, ProgressSelected DEF OnPreview, Consume
<1>9. CASE OnCancel
  <2>1. Happened("cancel") /\ events' = events
    <3>1. consumed + 1 \in 1..Len(events) /\ events[consumed + 1].type = "cancel"
      BY <1>1, <1>9 DEF OnCancel, Consume, Ev, TypeOK
    <3> QED
      BY <1>9, <3>1 DEF Happened, OnCancel, Consume
  <2>2. CASE pc = "rename" /\ Emit(Plain("fail"), "returned")
    BY <1>1, <2>1, <2>2, ProgressRename
  <2>3. CASE pc = "list" /\ Emit(Plain("fail"), "returned")
    BY <1>1, <2>1, <2>3, ProgressList
  <2>4. CASE pc = "mkdir" /\ Emit(Plain("fail"), "returned")
    BY <1>1, <2>1, <2>4, ProgressMkDirFails
  <2>5. CASE pc = "diagnose" /\ Selected(diagCount, state)
    BY <1>1, <2>1, <2>5, ProgressSelected
  <2> QED
    BY <1>9, <2>2, <2>3, <2>4, <2>5 DEF OnCancel
<1>10. CASE RenameFileCloses
  BY <1>1, <1>10, ProgressEarlyEvent DEF RenameFileCloses
<1>11. CASE ListVideoFilesCloses
  <2>1. ~Recorded("mkdir")
    <3>1. ~PastList
      <4>1. Len(events) \in Nat /\ (PastList => Len(events) >= 2 /\ events[2].type = "listed")
        BY <1>1, FarAsEvents DEF TypeOK
      <4>2. Len(events) >= 2 => 2 \in 1..Len(events)
        BY <4>1
      <4> QED
        BY <1>11, <4>1, <4>2 DEF ListVideoFilesCloses, Happened
    <3> QED
      BY <1>1, <3>1, PhaseOf
  <2>2. PICK S \in SUBSET Files : Deliver("listed", S, 0, None)
    BY <1>11 DEF ListVideoFilesCloses
  <2> QED
    BY <1>1, <2>1, <2>2, ProgressEarlyEvent
<1>12. CASE MkDirCloses
  BY <1>1, <1>12, ProgressEarlyEvent DEF MkDirCloses
<1>13. CASE GetVideoInfoCloses
  BY <1>1, <1>13, ProgressResult DEF GetVideoInfoCloses
<1>14. CASE TranscodeCloses
  BY <1>1, <1>14, ProgressResult DEF TranscodeCloses
<1>15. CASE RequestCancel
  BY <1>1, <1>15, ProgressCancel
<1>16. CASE Evict \/ GetDisc \/ UNCHANGED vars
  <2>1. UNCHANGED <<commands, events>>
    BY <1>16 DEF Evict, GetDisc, Describe, Query, QueryFails, durable, vars
  <2> QED
    BY <2>1, SameBars
<1> QED
  BY <1>2, <1>3, <1>4, <1>5, <1>6, <1>7, <1>8, <1>9, <1>10, <1>11, <1>12, <1>13, <1>14,
     <1>15, <1>16 DEF Next, Worker, Activities

LEMMA ProgressInit == Init => Progress!Init
<1> SUFFICES ASSUME Init PROVE Progress!Init
  OBVIOUS
<1>1. commands = <<>> /\ events = <<>> /\ Len(commands) = 0 /\ 1..Len(commands) = {} /\ 1..Len(events) = {}
  BY DEF Init
<1>2. \A t : ~Recorded(t) /\ ~Happened(t)
  BY <1>1 DEF Recorded, Happened
<1>3. phaseBar = "moving" /\ filesBar = {} /\ Happened("cancel") = FALSE
  BY <1>2 DEF phaseBar, filesBar, Closed, Completed, Failed, Happened
<1>4. Scheduled = <<>> /\ 1..Len(Scheduled) = {}
  BY <1>1 DEF Scheduled
<1>5. missingBar = {}
  BY <1>4 DEF missingBar
<1> QED
  BY <1>3, <1>5 DEF Progress!Init

\* Losing a copy of State and building it again (disc.go:26-37 is memory only) cannot be
\* seen: the run goes once through the phases of disc.go:66-189, whatever the replays.
THEOREM ImplementsDiscProgress == Spec => ImplementsProgress
  BY IInvInvariant, ProgressStep, ProgressInit, PTL DEF Spec, ImplementsProgress, Progress!Spec
=============================================================================
