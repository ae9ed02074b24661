------------------------------ MODULE DiscFiles ------------------------------
(***************************************************************************)
(* The files of discs: what ListVideoFiles                                 *)
(* (internal/vwactivity/list_video_files.go) finds in the library, where   *)
(* the workflow (internal/workflows/vwdisc/disc.go) has the previews put,  *)
(* and which previews it shows.  All discs share one preview directory.    *)
(*                                                                         *)
(* A file name is a stem and an extension, which is what filepath.Ext      *)
(* returns: the rest of the name from its last dot.  A name that begins    *)
(* with its last dot has no stem.                                          *)
(*                                                                         *)
(* The workflow loops over its files in an order of Go's choosing.  The    *)
(* history records the order of the first execution, by which activities   *)
(* are called here by the file they were scheduled for.  A copy of the     *)
(* workflow that is rebuilt from the history may loop in another order,    *)
(* and then takes the results for other files (DiscWorkflow has the loop,  *)
(* the history and the replay in detail).                                  *)
(***************************************************************************)
EXTENDS Functions

CONSTANTS
  UUIDs,   \* the discs
  Stems,   \* stems of file names
  NoStem,  \* the empty stem
  Names,   \* names of the entries of directories
  None     \* a nil PreviewPath; no preview

Exts  == {".mkv", ".MKV", "other"}
Bases == Stems \cup UUIDs
Paths == [dir : UUIDs, base : Bases]

\* No file on a disc has the name of its UUID, which the disc gets after its files.
ASSUME NamesAssumption ==
  /\ Names \subseteq [stem : Stems \cup {NoStem}, ext : Exts]
  /\ Stems \cap UUIDs = {} /\ NoStem \notin Bases
  /\ None \notin Paths \cup (UUIDs \X Names)

VARIABLES
  isDir,    \* RenameFile has moved a directory, and not a plain file
  entries,  \* the entries of that directory
  step,     \* what the workflow of a disc waits for
  results,  \* the history: the files whose Transcode has completed
  loop,     \* the file that this copy's loop has where the history has a file
  files,    \* this copy's State: PreviewPath of each entry of state.Files
  made,     \* the discs that have a directory for their previews
  preview,  \* the disc and file of which there is a preview at each path
  written   \* the discs and files of which the transcoder has made a preview

vars == <<isDir, entries, step, results, loop, files, made, preview, written>>

-----------------------------------------------------------------------------
Kinds == {"absent", "plain", "directory"}

TypeOK ==
  /\ isDir \in [UUIDs -> BOOLEAN]
  /\ entries \in [UUIDs -> [Names -> Kinds]]
  /\ step \in [UUIDs -> {"list", "mkdir", "diagnose", "done", "closed"}]
  /\ results \in [UUIDs -> SUBSET Names]
  /\ DOMAIN loop = UUIDs
  /\ \A u \in UUIDs : loop[u] \in Bijection(DOMAIN files[u], DOMAIN files[u])
  /\ files \in [UUIDs -> UNION {[S -> Paths \cup {None}] : S \in SUBSET Names}]
  /\ made \in SUBSET UUIDs
  /\ preview \in [Paths -> (UUIDs \X Names) \cup {None}]
  /\ written \in SUBSET (UUIDs \X Names)

\* Directories, on one disc, of whatever there may be.
Init ==
  /\ isDir \in [UUIDs -> BOOLEAN]
  /\ entries \in [UUIDs -> [Names -> Kinds]]
  /\ \A u \in UUIDs : ~isDir[u] => entries[u] = [n \in Names |-> "absent"]
  /\ step = [u \in UUIDs |-> "list"]
  /\ results = [u \in UUIDs |-> {}]
  /\ loop = [u \in UUIDs |-> [n \in {} |-> None]]
  /\ files = [u \in UUIDs |-> [n \in {} |-> None]]
  /\ made = {}
  /\ preview = [p \in Paths |-> None]
  /\ written = {}

-----------------------------------------------------------------------------
(* ListVideoFiles *)

ToLower(ext) == IF ext = ".MKV" THEN ".mkv" ELSE ext

\* Slip: the case of the extension counts.
IsVideoSlip(u, n) == entries[u][n] = "plain" /\ n.ext = ".mkv"

IsVideo(u, n) == entries[u][n] = "plain" /\ ToLower(n.ext) = ".mkv"

\* What it returns becomes the entries of State.  An attempt fails if there is no
\* directory, and is made again without end.
ListVideoFiles(u) ==
  LET videos == {n \in Names : IsVideo(u, n)}
  IN  /\ step[u] = "list" /\ isDir[u]
      /\ files' = [files EXCEPT ![u] = [n \in videos |-> None]]
      /\ loop' = [loop EXCEPT ![u] = [n \in videos |-> n]]
      /\ step' = [step EXCEPT ![u] = "mkdir"]
      /\ UNCHANGED <<isDir, entries, results, made, preview, written>>

\* The first execution of the loop follows.
MkDir(u) ==
  /\ step[u] = "mkdir"
  /\ made' = made \cup {u}
  /\ step' = [step EXCEPT ![u] = "diagnose"]
  /\ UNCHANGED <<isDir, entries, results, loop, files, preview, written>>

-----------------------------------------------------------------------------
(* Previews *)

\* filepath.Base of what is left of the path without the extension.  If nothing
\* is left of the name, that is the last directory: the UUID.
previewBase(u, n) == IF n.stem = NoStem THEN u ELSE n.stem

\* Slip: the previews of all discs in one directory.
OutputPathSlip(u, n) == [dir |-> CHOOSE v \in UUIDs : TRUE, base |-> previewBase(u, n)]

OutputPath(u, n) == [dir |-> u, base |-> previewBase(u, n)]

\* The transcoder writes a preview, over one that is there already, whether the
\* workflow still waits for it or not, and once more if it is asked again.
Transcodes(u, n) ==
  /\ u \in made /\ n \in DOMAIN files[u]
  /\ preview' = [preview EXCEPT ![OutputPath(u, n)] = <<u, n>>]
  /\ written' = written \cup {<<u, n>>}
  /\ UNCHANGED <<isDir, entries, step, results, loop, files, made>>

\* Slip: the path is that of the file whose Transcode this is in the history.
OnPreviewSlip(u, n) ==
  /\ step[u] = "diagnose" /\ <<u, n>> \in written /\ n \notin results[u]
  /\ results' = [results EXCEPT ![u] = @ \cup {n}]
  /\ files' = [files EXCEPT ![u][loop[u][n]] = OutputPath(u, n)]
  /\ UNCHANGED <<isDir, entries, step, loop, made, preview, written>>

\* The callback of Transcode's future has the file and the path of this copy's loop.
OnPreview(u, n) ==
  /\ step[u] = "diagnose" /\ <<u, n>> \in written /\ n \notin results[u]
  /\ results' = [results EXCEPT ![u] = @ \cup {n}]
  /\ files' = [files EXCEPT ![u][loop[u][n]] = OutputPath(u, loop[u][n])]
  /\ UNCHANGED <<isDir, entries, step, loop, made, preview, written>>

\* The copy is lost, and rebuilt with the files in any order, for a result or, also when
\* the run has ended, for a query.
Replays(u) ==
  /\ u \in made
  /\ \E order \in Bijection(DOMAIN files[u], DOMAIN files[u]) :
       LET shown == {order[n] : n \in results[u]}
       IN  /\ loop' = [loop EXCEPT ![u] = order]
           /\ files' = [files EXCEPT ![u] =
                           [n \in DOMAIN @ |-> IF n \in shown THEN OutputPath(u, n) ELSE None]]
  /\ UNCHANGED <<isDir, entries, step, results, made, preview, written>>

\* Every Select has got a result.
Completes(u) ==
  /\ step[u] = "diagnose" /\ results[u] = DOMAIN files[u]
  /\ step' = [step EXCEPT ![u] = "done"]
  /\ UNCHANGED <<isDir, entries, results, loop, files, made, preview, written>>

\* The run is cancelled, or terminated.
Closes(u) ==
  /\ step[u] \notin {"done", "closed"}
  /\ step' = [step EXCEPT ![u] = "closed"]
  /\ UNCHANGED <<isDir, entries, results, loop, files, made, preview, written>>

-----------------------------------------------------------------------------
(* Specification *)

Next ==
  \E u \in UUIDs :
    \/ ListVideoFiles(u) \/ MkDir(u)
    \/ \E n \in Names : Transcodes(u, n) \/ OnPreview(u, n)
    \/ Replays(u) \/ Completes(u) \/ Closes(u)

Spec == Init /\ [][Next]_vars

-----------------------------------------------------------------------------
(* Properties *)

\* Two names of a disc that only a file system without case takes for one.
Twins(n, m) == n.stem = m.stem

\* What is shown for a file is its own preview, once there is one: no transcode of another
\* disc (disc.go:101), and none of another file of the disc (disc.go:149-159), writes there,
\* unless the names differ only in the case of the extension, and the callback
\* (disc.go:167-176) sets the path of the file whose entry it changes, after replays, too.
\* (Then it may be a path at which there is no preview yet.)
PreviewIsOfItsFile ==
  \A u \in UUIDs : \A n \in DOMAIN files[u] :
    LET there == preview[files[u][n]]
    IN  files[u][n] # None /\ there # None =>
          \E m \in DOMAIN files[u] : Twins(n, m) /\ there = <<u, m>>

\* When the run is done (disc.go:178-181) every plain file with the extension of a video, in
\* any case (list_video_files.go:42), has an entry and shows a path where there is a preview
\* of it, or of a twin, whatever copies were lost and in whichever orders they were rebuilt.
VideosArePreviewed ==
  \A u \in UUIDs : \A n \in Names :
    step[u] = "done" /\ entries[u][n] = "plain" /\ n.ext \in {".mkv", ".MKV"} =>
      /\ n \in DOMAIN files[u] /\ files[u][n] # None
      /\ \E m \in Names : Twins(n, m) /\ preview[files[u][n]] = <<u, m>>

-----------------------------------------------------------------------------
(* The inductive invariant *)

\* The entries are the videos of the directory, if the listing came before the run was closed.
Listed ==
  \A u \in UUIDs :
    /\ step[u] = "list" => DOMAIN files[u] = {}
    /\ step[u] \in {"mkdir", "diagnose", "done"} => DOMAIN files[u] = {n \in Names : IsVideo(u, n)}

\* A path is shown if the result that this copy takes for that of the file is in the history.
Shown ==
  \A u \in UUIDs : \A n \in DOMAIN files[u] :
    files[u][n] = IF \E m \in results[u] : loop[u][m] = n THEN OutputPath(u, n) ELSE None

\* Results are of entries whose previews were written, and of all of them when the run is done.
Delivered ==
  \A u \in UUIDs :
    /\ \A n \in results[u] : <<u, n>> \in written
    /\ step[u] \in {"list", "mkdir"} => results[u] = {}
    /\ step[u] = "done" => results[u] = DOMAIN files[u]

\* Where a file's preview goes there is none of another disc or stem.
Owned ==
  \A u \in UUIDs, n \in Names : preview[OutputPath(u, n)] # None =>
    \E m \in DOMAIN files[u] : Twins(n, m) /\ preview[OutputPath(u, n)] = <<u, m>>

\* What was written is there, or was written over by what Owned allows.
Written ==
  \A u \in UUIDs, n \in Names :
    <<u, n>> \in written => n \in DOMAIN files[u] /\ preview[OutputPath(u, n)] # None

IInv == TypeOK /\ Listed /\ Shown /\ Delivered /\ Owned /\ Written
=============================================================================
