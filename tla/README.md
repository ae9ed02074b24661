# video-workflows in TLA+

A server (`src/server`) takes discs from an inbox and starts a Temporal workflow for each
(`src/internal/workflows/vwdisc/disc.go`). A worker (`src/worker`) executes the workflow and
its activities (`src/internal/vwactivity`). Two video services, which are not part of the
repository, do the jobs of two of the activities and call webhooks of the server when they are
done. Clients ask the server what has become of a disc.

The project models the two programs from their start to their end, the HTTP layer, all six handlers
of the server, the workflow and its five activities: first in components that meet at narrow
interfaces, then in two compositions, of the server with its callers and of a run with its
activities. TLC checks each on small instances; TLAPS proves the safety properties for any number of
discs, files, callers, requests, runs and handlers.

## 1. Inventory

| component | state it keeps | operations | correct if |
|---|---|---|---|
| Disc workflow, `vwdisc/disc.go` | `State` in a worker's memory; a history in Temporal | five activities in order, a loop over a map that starts two per file, `Select`s with callbacks, the query handler | replays match the history, each result is applied once and to its file, the run ends, the status never runs ahead of the history or backwards |
| Asynchronous activities, `get_video_info.go`, `transcode.go`, webhooks in `server.go` | none; attempts and tokens in Temporal, jobs in the services | ask for a job, leave the activity open, complete it by token, heartbeat | an activity completes with the outcome of its own job and does complete; nothing acknowledged is lost |
| Creation and move, `CreateDisc`, `rename_file.go` | two directories of the file system, runs in Temporal | start a run by UUID, move a directory, up to three attempts | no disc is lost, replaced or in two places; a run works on what it moved |
| Files and previews, `list_video_files.go`, `mkdir.go`, names in `disc.go` | the preview directories | select videos, make a directory, name previews | every video is found, and has a preview when the run is done; a preview is that of its file |
| `GetDisc` | none | describe the latest run, then ask that run for its error or its State | an answer is one that was true while the request was served; every request is answered |
| `GetInbox` | none | read a directory, entry by entry | what was there during the whole call is listed, what never was is not |
| HTTP layer, `vwrest/api.gen.go`: client and server | none; requests on their way | make a request, route, decode, call the handler, encode, read the response | from an answer the caller knows what was done; nothing that changes state is done twice; calls end |
| Server process, `server/main.go`; worker process, `worker/main.go` | a configuration | start, or fail to; serve; die with what it has in hand | a process that serves is configured |
| Configuration, `config.go` | none | read variables, some as numbers; panic | whole or not at all |

How they interact:

- Clients and services reach the server through the generated client, or one like it, and the
  generated server side. Either may vanish at any time, and a request with it.
- A client calls `CreateDisc`, which asks Temporal to start a run whose ID is the UUID.
- Temporal dispatches tasks of the run, and of its activities, to a worker, at least once. The
  run and its activities share only the inputs and results that Temporal carries.
- `GetVideoInfo` and `Transcode` send the video service a UUID, a URI and the token of the
  attempt. The service calls the URI, a webhook of the server, with the token, and the
  server passes it on to Temporal.
- `GetDisc` asks Temporal, which asks a worker to replay the run and call the query handler.
- The server writes its configuration (paths, the URI of the webhooks) into the parameters of the runs
  it starts; the runs keep them when it dies.
- Inbox, library and preview directory are shared by all runs, all attempts, and the transcoder.

What is hard about it: a run may be executed again from the start at any time, and its loop
ranges over a map; an attempt that timed out goes on unseen, and nothing stops it from
renaming or transcoding; requests and webhooks are lost, late, or doubled; two calls of one
request see different moments, and so do the entries of a directory; a caller who gives up does not
stop what it asked for; nearly all activities are retried without a limit.
`PROJECT.json` lists each hazard at its line, with the properties that are about it.

## 2. Modules

| module | what it models |
|---|---|
| `DiscWorkflow` | one run: durable history, the worker's copy, replays, cancellation, `GetDisc` on it |
| `DiscProgress` | what the workflow promises, with no copies and no replays; refined by `DiscWorkflow` |
| `AsyncActivity` | attempts, tokens, requests, jobs, webhooks, heartbeats |
| `ActivityFates` | what becomes of an activity, with no attempts, tokens or calls; refined by `AsyncActivity` and by `DiscSystem` |
| `DiscLibrary` | inbox, library, `CreateDisc`, runs of a UUID, attempts and handlers of `RenameFile` |
| `DiscMoves` | what moving discs promises, with no runs, attempts or reports; refined by `DiscLibrary` |
| `DiscFiles` | entries of a disc, their selection, previews and their names, and which of them are shown, after replays, too |
| `DiscServer` | `GetDisc` among the runs of its UUID |
| `HttpLayer` | calls, requests and responses: `vwrest/api.gen.go`, both sides, with losses |
| `Processes` | the two programs and their configuration |
| `Deployment` | composes `HttpLayer` and `Processes` with the handlers `CreateDisc`, `GetDisc` and `GetInbox`, the inbox and the runs of a disc |
| `DiscSystem` | composes the run of `DiscProgress` with the activities of `AsyncActivity` |
| `MC...` | symmetry sets, constants and small initial states of the instances |
| `...Proofs` | the theorems of the module before it |

Definitions whose comment begins with "Slip" are wrong versions of the definition that follows
them, as a bug in that code would make it. They are not part of any specification;
`PROJECT.json` pairs each with a property that would find it.

### DiscWorkflow

`commands` and `events` are the history that Temporal keeps: what `Workflow` issued and what was
delivered to it. All the rest is one worker's copy: `pc` is the `Get` or `Select` it waits at,
`consumed` and `emitted` are its place in the history, `order` the order of its loop, `state` the
`State` of disc.go:23-28. `Evict` loses the copy; then `Begin` and the `On...` actions
run again over the recorded events. `Emit` appends a command when the copy is at the end of the
history and otherwise compares it with the recorded one, by type and number, as the SDK does:
the input of an activity is not compared. `OnMadeDir` picks *any* order of `state.Files` for the
loop of disc.go:119. A "slot" is a place in that loop, which is how Temporal tells the activities
apart. The callbacks are `OnVideoInfo`, `OnPreview` and, when `ctx` is cancelled, `OnCancel`.
`Describe`, `Query` and `QueryFails` are the two calls of `GetDisc`; only a copy that has caught
up with the history answers a query.

Left out: the two `SideEffect`s (a UUID per slot, which replays as recorded), logging, times, and the
termination of a run from outside, of which its code sees nothing (server.go:194 mentions it; `Closes` of
`DiscLibrary`, `DiscFiles` and `Deployment` and `Fails` of `DiscServer` have it). `DiscProgress` follows it
in this. `Diagnose` there says that the activity scheduled for a file has its result; to the entry of
which file the copy gives it is a matter of the order it loops in, and of `DiscWorkflow`.

### AsyncActivity

Per activity: Temporal's `task`, the handler's `call`, requests on their way (`sent`), the
service's `job` and the `token` it has, and the last replies of the server. Tokens are "current"
or "stale", for Temporal refuses all but that of the attempt which is started now; so attempts need
no numbers and there is no bound on them. `sent` is a set: any number of stale requests may be
on their way, and one more or less makes no difference. A UUID is drawn once per activity, before
the first attempt (disc.go:120, 145), so the service answers 409 to every attempt after the one
that created the job. `CompleteActivity` has three outcomes, since a call may fail before or
after Temporal has taken it.

`ActivityFates` says what that comes to: an activity has one job, and completes with the result of that one or
never. An activity is "asked" until there is a job, "working" while the job may complete it, and "never"
once the job has failed, or the attempt that created it is over (`Doomed`). Retries are stutters of
`ActivityFates`, or forfeits: none brings back a job that is lost.

### DiscLibrary

`inbox` and `library` map paths and UUIDs to discs. `run` is the latest run of a UUID; a new one
starts only when the last has closed, and then with a path of its own. `handlers` is a set of
executions of `RenameFile` anywhere: `TimesOut`, `Closes` and `Crashes` do not wait for them,
and none is told to stop. `RenameFile` is atomic, as `os.Rename` is, fails without a source or with
a target that is there already (a directory that is not empty), and may fail for any other
reason. `mover` is auxiliary: the number of the run that moved the disc. `DiscMoves` sees only the
directories and the requests `<<uuid, path>>` that a handler, or a run that is still to move its
directory, works for. A handler that outlives its run counts as one that works for its request: that it may
still move the directory is what the code does.

Assumed: the paths of requests are places of the inbox, and none is inside another or in the library
(`CreateDisc`, server.go:46, takes any string), and discs are directories that are not empty (`os.Rename` of
Go refuses a target that is a directory, empty or not, but puts a plain file over another one).

### DiscFiles

A name is a stem and an extension. `IsVideo` is the filter of list_video_files.go:42,
`previewBase` and `OutputPath` the naming of disc.go:101, 149-159, with the case of a name that has
no stem (`.mkv`), whose preview takes the name of the directory, the UUID. `Transcodes` may write at any
time after the activity was scheduled, also when the run is over, and again.

`results` is the history: the files whose `Transcode` has completed, by the order of the first execution.
`loop` says which file the worker's copy has in the place of which file of the history; `Replays` loses the
copy and rebuilds it with any order, after the run has ended, too, for a query. `OnPreview` is the callback of
disc.go:167-176: it takes a result of the history and sets the path of the file that the *copy* has in that
place. So after a replay in another order a file may show its path while the transcode of that
file is not done, and the path moves from file to file as copies come and go. What remains true is that the
path is the file's own (`PreviewIsOfItsFile`), and that a run that is done shows one for every video,
with a preview of it there (`VideosArePreviewed`): then all results are in, and any order has them all.

### DiscServer

One UUID with up to `MaxRuns` runs. `request` is what a handler waits for. `Describe`
remembers the run, `Get` and `Query` are made to that run. `seen` is auxiliary: what a single
call would have answered at each moment since the request was made.

### HttpLayer

Each connection has a `call`, what the caller knows of it, and an `exchange`, what is on its way.
`Call` to `Receive` are the client (api.gen.go:131-1084), `Serve` to `ServerStops` the server
(1088-1797). `Target` and `Pattern` are the paths on both sides, `Verdicts` the statuses that
the handlers return, `Visited` how they are written, `Fields` and `Parsed` what the client makes of
them. A request whose path, UUID or body is wrong is refused in plain text before any handler is
called: the client then has a status and none of its fields. `Breaks` and `RequestLost` are
independent: who gets an error does not know whether the handler is working. `Resend` is what Go's
transport does with a GET whose connection ends. `verdict` is auxiliary.

Left out: the content of bodies. (Decoding requires no field: `{}` is a disc with UUID 0 and path "". An
empty inbox is encoded as `null`.)

### Processes

An environment gives each variable a class of strings. `mustGetenv` accepts what is empty;
`mustGetenvInt` reads with `Sscanf`, so `8080x` is a port. A program starts whole or not at all:
nobody sees it before it serves. Hosts of the video services are not looked at when the worker starts; they need a
scheme (e2e_test.go:491-494), which shows when the first request is made, a "lost" in `AsyncActivity`.

### Deployment

Callers make any of the requests `Asks` allows, through `HttpLayer`. The handlers are steps between
`Serve` and `Returns`: `CreateDisc` with the outcomes of the call to Temporal, `GetDisc` as its two calls
(`Describes` and `Answers`), `GetInbox` as a `ReadDir` that comes to the paths one by one
while discs arrive (`Arrives`) and are moved away (`Moves`), and the webhooks for the statuses they
return. `run` is the latest run of one UUID, with the parameters it was given. `found` is the run that a
`GetDisc` was described in its first call: the latest one, an earlier one since another was started, or one
that has been deleted since. `Expires` and `EarlierExpires` are the end of a retention period: then there is no
run for the next `GetDisc`, and none for the second call of one that has found it (server.go:178-183, 217-221).
`told`, `promised`, `ever` and `always` are auxiliary; what was promised ends with the deletion. Of the
parameters of a run only its path and the library (server.go:46-47) are there.

### DiscSystem

`DiscProgress` is what `DiscWorkflow` implements, so its steps may stand for it: `Reports` is its
`Diagnose`, made possible only by a completed activity of `AsyncActivity`, and `Starts` makes attempts only for
activities the run has scheduled. `Ends` closes the run and with it all its attempts, whose
handlers, jobs and webhooks go on: for `ActivityFates`, it forfeits the jobs of many activities in one step.

## 3. Runs

| run | states | shows |
|---|---|---|
| `workflow` | 92,429 | replays match (`NeverDiverges`), results go to their slots (`ResultsFollowSlots`), a run that was not cancelled completes with all results (`CompletesDiagnosed`), the status never goes back (`StatusNeverRegresses`), and is that of the whole history (`AnswersAreCurrent`), no copy comes to an event its place does not expect or waits with nothing left to come (`NeverHangs`), a run ends if its copies are not lost for ever (`DiscSettles`), `DiscWorkflow` implements `DiscProgress` (`ImplementsProgress`) |
| `activity` | 89,208 | completion by the own job (`CompletedByItsJob`), acknowledged results are kept (`AcknowledgedIsRecorded`), one job for each activity, that completes it or is lost for good (`ImplementsFates`), completion, unless the job fails or outlives its attempt (`CompletesUnlessStale`) |
| `library` | 380,372 | no disc is lost or replaced (`NeverClobbers`), or in two places (`OnePlace`, in `IInv`); runs work on what they moved (`MovedByThisRun`) |
| `library_live` | 160,462 | at most three handlers work for a run (`ThreeHandlersEach`); no run tries for ever to move its directory (`MoveSettles`); `DiscLibrary` implements `DiscMoves` (`ImplementsMoves`): a disc moves once, for a request that named its path and that a run or a handler still works for |
| `files` | 56,286 | what is shown for a file is its own preview, once there is one (`PreviewIsOfItsFile`); when a run is done every video shows one (`VideosArePreviewed`), through replays in any order |
| `server` | 191,577 | answers are true at some moment of the request (`AnswersAreTrue`), the outcome of a run is asked for only if it failed (`GetsAnError`), every `GetDisc` is answered (`RequestsAreAnswered`) |
| `deployment` | 308,266 | an answer tells what was done (`AnswersTell`), no POST is handled twice (`HandledOnce`), listings are regular (`InboxIsRegular`), what was told as created is known until it is deleted (`CreatedIsKnown`), the library of a run was configured (`RunsAreConfigured`), calls end (`CallsEnd`) |
| `system` | 220,977 | a run is given results of its own jobs, and all of them unless it is cancelled (`ResultsAreOfJobs`), nothing of a run that is over is taken (`LateIsRefused`), a disc gets done, unless it cannot be moved, is cancelled, or a job fails or outlives its attempt (`GetsDone`) |

Each run but `library_live`, which has other bounds, also checks the inductive invariant `IInv` that the proofs
use. The type invariant `TypeOK` is a conjunct of it, and so are `StatusIsEarned` (the status does not run
ahead of the history), `PendingOwnsJob` (a GetVideoInfo that waits has a job) and `NeverPanics`. That a
run and its activities together implement `ActivityFates` is the theorem `SystemImplementsFates`; the run
`activity` checks it of the activities.

These runs end with a violation, each of what a document or comment of the repository says:

| run | what the repository says | what happens |
|---|---|---|
| `workflow_replay` | openapi.yml:339, "Duration of the video file in seconds." | after a replay in another order, a file has the duration of another one |
| `activity_accepted` | get_video_info.go:46, "Will be completed asynchronously" | a job that outlives its attempt has a token nobody takes, and blocks all later attempts by 409 |
| `library_failed` | disc.go:73, "failed to move directory" | the directory was moved and the report lost |
| `library_conflict` | openapi.yml:123, 409 for a UUID in use | 201; the branch for 409 is never taken |

The models say some more that no run is spent on:

- server.go:78 says the webhook "completes a GetVideoInfo activity with the provided result or error".
  With an error it only fails the attempt (`CompleteActivity`), which Temporal retries without end.
- openapi.yml:117 offers 400 for "the specified path does not exist". `CreateDisc` does not look at the path.
- openapi.yml:334 calls previewPath "Path to the generated preview video for the video file." `a.mkv` and
  `a.MKV` of a disc share one (`Twins`), and after a replay in another order the path may be shown before the
  preview is made (`OnPreview` in `DiscFiles`). The cause is that of `workflow_replay`.
- server.go:194 says that a cancelled run "ended with an error". The callbacks log an error and return
  (disc.go:135, 169), so a run that is cancelled in the loop completes without an error and without its
  diagnostics: `OnCancel` in `DiscWorkflow`, `Finish` in `DiscProgress`.
- openapi.yml:71 offers the route `/activity/transcode/heartbeat`; disc.go:162 gives the transcoder
  `/transcode/progress` below the base URI, so its heartbeats are answered 404
  (`TranscodeActivityHeartbeat`; no activity has a heartbeat timeout, so nothing else follows).
- config.go:23 calls it "environment variable is not an integer", and a number with something after it passes
  (`mustGetenvInt`).
- openapi.yml has no 400 for `GET /disc/{uuid}`, which a UUID that is none is answered with (`Serve`);
  the client shows it as a status without a field.
- disc.go:88 would end a run with "failed to list video files". There is no limit of attempts, so
  a run whose path was a plain file is never done (`isDir` guards `ListVideoFiles`); an error of `MkDir` that
  stays, likewise. `DiscSettles` and `GetsDone` assume that both get through.
- After a 201 a `GetDisc` is answered 404 once the retention period of the run is over (`Expires` in
  `Deployment`), and so may be one that began before.

### Bounds

- `DiscWorkflow`: two files. The loop, the callbacks and the count of `Select`s treat all files alike;
  two are needed for two orders. Histories are bounded by the program itself; losses of the copy,
  polls and queries are not bounded.
- `AsyncActivity`: one activity of each kind. Activities share nothing. No bound on attempts,
  requests or webhooks. (`activity_accepted` needs no Transcode.)
- `DiscLibrary`: two UUIDs, `MaxRuns` 2, `MaxHandlers` 2, one path, two discs: two runs of one
  UUID, or of two, meet at a path; a second disc arrives there after the first was moved. For
  `library_live` and `library_failed`, one UUID with enough handlers for all the attempts of its runs;
  in `library_live` there are two paths, so that a late handler may have another one than the run.
  `MaxRuns` and `MaxHandlers` bound nothing that the code bounds; the proofs hold for all of them.
- `DiscFiles`: any directory of three names that may collide on one disc, and at most one entry, of
  the same names, on another (`SmallSpec`): each pair of files that could share a path is there.
- `DiscServer`: one request after the other, and three runs. Handlers of `GetDisc` only read, so
  requests do not disturb one another; the proof is for any number of them.

- `Deployment`: two callers, one disc, one path, three environments (one complete, two that are not).
  The callers share the server, the inbox and the run; a third would only do what one of them does. The
  UUID that is none, the heartbeat and the other webhook are served like requests that are
  asked (`MCDeployment` lists those). A GET is sent twice at most. The proofs are for any callers,
  paths, environments and requests.
- `DiscSystem`: one file, with its two activities. Files do not share activities; the proofs are for any.

### Fairness

The runs with a liveness property use `FairSpec`:

- `DiscWorkflow`: Temporal keeps dispatching a run that has a task, and retries activities, so
  `Worker` and `Activities` are weakly fair. Nothing is assumed of `Evict`, `RequestCancel` or clients.
- `AsyncActivity`: Temporal starts attempts and its clock runs; a handler that lives returns; a job
  ends. A service asked again and again accepts at last, and its webhook gets through
  (strong fairness, because each attempt and each loss interrupts them).
- `DiscLibrary`: only Temporal: attempts start and time out. Handlers need not do anything.
- `DiscServer`: a call to Temporal returns if it can. Nothing is assumed of runs.
- `Deployment`: what is on its way to a server that lives is served, its handlers return and responses
  are read, or the connection ends. Nothing is assumed of processes: they need not be started again.
- `DiscSystem`: the fairness of `AsyncActivity`, and that Temporal keeps dispatching the run.

## 4. Proofs

Each `...Proofs` module proves `Spec => []IInv` and takes its properties from it.

- `DiscWorkflowProofs` (`NeverDiverges`, `ResultsFollowSlots`, `CompletesDiagnosed`, `StatusIsEarned`,
  `StatusNeverRegresses`, `AnswersAreCurrent`, `NeverHangs`, `ImplementsProgress`, `TypeOK`), for any finite set of files. That a replay matches needs the shape of the history: command n follows event
  n-1 (`History`), and a copy that waits somewhere has applied just the events before that
  (`Copy`). A replay may choose another order of the loop, but of the same set, so the
  number of activities is the same. `Results` ties each event to the slot it was scheduled in, and
  `Truthful` ties the flags of a `State` to the events. `CompletesDiagnosed` is a matter of counting: a copy
  in the loop has returned from as many `Select`s as it has applied events since `MkDir` (`Counted`), only results
  and a cancellation come there (`LoopEvents`), and each result once (`Once`), so that `2 * Len(order)`
  events are all of them. An answer comes from a copy that has caught up, hence has all flags that the
  history stands for (`UpToDate`, `Looping`), and the last answer had at most those (`Announced`,
  `Ended`): it does not go back. `ImplementsProgress` takes the phase from the recorded commands, so a replay is a
  stutter and the n-th new command is one step of `DiscProgress`; each result is one that was missing since
  slots hold different files, and `Finish` finds none missing because of `CompletesDiagnosed`.
  `NeverHangs` has two halves: the events before the loop are of the types that their places wait for
  (`FirstEvents`), so a copy that is behind finds one that it goes on with; and a copy in the loop that has applied
  all events has a `Select` left, hence, by the same counting, a result that has not come. `AnswersAreCurrent`
  joins `UpToDate` with `Truthful`: the flags of a copy that has caught up are those of the history, no more and
  no less.
- `AsyncActivityProofs` (`CompletedByItsJob`, `PendingOwnsJob`, `AcknowledgedIsRecorded`, `ImplementsFates`,
  `TypeOK`), for any activities. The key is `Owner`: while a current request is still on its way, no job
  has the current token, and whoever got a 201 has it. For `ImplementsFates`, a step of an activity changes its own fate
  by one step of `ActivityFates` or leaves it, and no other fate; an activity completes only
  when its job has ended well and has the current token, and a stale token stays stale.
- `DiscLibraryProofs` (`MovedByThisRun`, `NeverClobbers`, `ThreeHandlersEach`, `ImplementsMoves`,
  `TypeOK`), for any UUIDs, paths, discs and
  bounds. A handler belongs to its run or an older one (`HandlersOfRuns`); one that has renamed is
  the one recorded in `mover` (`Movers`), and as nothing in the library is replaced, there is one such
  run per UUID. For `ImplementsMoves`, a step of a run or of a handler can only add the request of a new run
  (`Want`), or give requests up (`Forget`). `ThreeHandlersEach` counts: a handler has the number of an
  attempt that its run has made, and no two have the same (`HandlersOfAttempts`), so attempts map one to one
  onto at most three numbers.
- `DiscFilesProofs` (`PreviewIsOfItsFile`, `VideosArePreviewed`, `TypeOK`), for any discs and names. What was
  written at a path is still there or was written over by a twin (`Owned`, `Written`), because `OutputPath` is
  injective up to twins, given `NamesAssumption`: no stem is the UUID of a disc. A copy shows the paths of the
  files that it has in the places of the `results` (`Shown`). When a run is done, the results are those of all
  entries (`Delivered`), and since `loop` is a bijection all entries show their paths, and each of them
  was transcoded.
- `DiscServerProofs` (`AnswersAreTrue`, `NeverPanics`, `GetsAnError`, `TypeOK`), for any requests and `MaxRuns`. What a
  request will be told has been true since it was made (`Truthful`): a run that is not the latest
  has closed and keeps its State (`Runs`), and the latest adds each new State to what was seen.
- `HttpLayerProofs` (`AnswersTell`, `HandledOnce`), over `HttpSpec`, for any callers and paths. `Exchanges` says
  that an exchange is about the latest call and that there is no verdict before a handler returns;
  `Carries` that a response on its way is that verdict, or a refusal. That a request reaches its own
  operation is `RoutedToItself`.
- `DeploymentProofs`: `AnswersTell` and `HandledOnce` come from `HttpLayerProofs`, since each step of the whole
  is one of `HttpLayer` or leaves its variables alone, by construction (the lemma `ImplementsHttp`);
  `TypeOK`, `InboxIsRegular`, `CreatedIsKnown` and `RunsAreConfigured` from an invariant in three
  parts: `ServesConfigured` (only a configured process has requests in hand), `Tells` (whoever was told 201 was
  told of a run, which is there until it is deleted, and who asks since has not found one that was
  deleted), `Scans` (of the paths a `ReadDir` has come to, it has those that were always
  there).
- `DiscSystemProofs` (`TypeOK`, `ResultsAreOfJobs`, `LateIsRefused`, `ImplementsFates`), for any files. It
  instantiates the lemmas of `AsyncActivityProofs`; `Linked` ties the activities to the run. `Ends` is the step
  that neither part has by itself: it ages the tokens of all attempts at once, and for `ActivityFates` it
  forfeits those that were still open.

Assumptions: those named in the modules, on constants only.

Model-checked and not proved: the liveness properties, since fairness and ENABLED are beyond the
prover: `DiscSettles`, `CompletesUnlessStale`, `MoveSettles`, `RequestsAreAnswered`,
`CallsEnd` and `GetsDone`. `NeverHangs`, `ThreeHandlersEach` and `GetsAnError`, which are proved, are the safety that
the first, the third and the fourth of them rest on. Every invariant, every action property and every refinement
that a passing run checks is a theorem.

## 5. Not modelled

- The end-to-end test, which drives the programs in containers. The embedded OpenAPI document and the functions
  that decode it (api.gen.go:1798-1903), the error types of parameters that no operation has, and the
  options and editors of the client: nothing in the repository uses them.
- The content of bodies beyond what handlers look at, headers, logging.
- Temporal, the video services and the file system are modelled as far as the code relies on them,
  and marked external in `PROJECT.json`. Operations of Temporal that the code does not provide for (resetting a
  run, sending signals) are left out. Links in the inbox are not directories to `IsDir`; no other use is
  made of them.

## 6. Plan

Done, in this order: `DiscWorkflow` with `DiscProgress`, `AsyncActivity`, `DiscLibrary`, `DiscFiles`,
`DiscServer`, with their proofs; then `HttpLayer`, `Processes` and their composition `Deployment`, and
`DiscSystem`, with theirs; then the refinements of `DiscProgress` and `DiscMoves`, proved; then the safety that
liveness rests on (`NeverHangs`, `GetsAnError`, `ThreeHandlersEach`), `AnswersAreCurrent`, and
`ActivityFates`, refined by the activities alone and in a run; then the replays of `DiscFiles`, and the two
calls of `GetDisc` and the deletion of runs in `Deployment`.

1. The moves of `DiscMoves`, which `DiscLibrary` implements, in `DiscSystem`, in the place of its `Move` and
   `Fail`.
2. An abstract `GetDisc`, one atomic call, that `DiscServer` implements. (The
   call takes effect at a moment that is known only later; `AnswersAreTrue` says the same with `seen`.)
3. An abstract call, handled at most once, that `HttpLayer` implements, and so `Deployment`. (`HandledOnce` and
   `AnswersTell` say most of it.)
