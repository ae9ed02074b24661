------------------------------- MODULE Processes -------------------------------
(***************************************************************************)
(* The two programs, server/main.go and worker/main.go: each reads its     *)
(* configuration from the environment (internal/config.go), connects to    *)
(* Temporal and serves until it is stopped.  Whoever runs them starts them *)
(* again, in another environment perhaps.                                  *)
(*                                                                         *)
(* Nobody sees what a program does before it serves, so its start is one   *)
(* step.  The values of variables are classes of strings, see Values.      *)
(***************************************************************************)
CONSTANT Environments  \* environments that the programs may be started in

VARIABLES
  server,  \* the server process: whether it serves, and the configuration it has read
  worker   \* the worker process

processVars == <<server, worker>>

-----------------------------------------------------------------------------
(* Configuration *)

TemporalKeys == {"VW_TEMPORAL_HOST", "VW_TEMPORAL_PORT"}
ServerKeys ==
  TemporalKeys \cup {"VW_INBOX_PATH", "VW_LIBRARY_PATH", "VW_PREVIEW_PATH", "VW_WEBHOOK_BASE_URI"}
WorkerKeys ==
  TemporalKeys \cup {"VW_TRANSCODE_HOST", "VW_TRANSCODE_PORT", "VW_VIDEOINFO_HOST", "VW_VIDEOINFO_PORT"}

IntKeys == {"VW_TEMPORAL_PORT", "VW_TRANSCODE_PORT", "VW_VIDEOINFO_PORT"}

\* "mixed" begins with a number and goes on with something else; "empty" is set, to "".
Values == {"unset", "empty", "word", "other word", "number", "mixed"}

ASSUME EnvironmentsAssumption ==
  Environments \subseteq [ServerKeys \cup WorkerKeys -> Values]

mustGetenvSlip(e, key) == TRUE  \* Slip: os.Getenv, which returns "" for what is not set.

\* Whether the variable is there; what is empty is there, too.
mustGetenv(e, key) == e[key] # "unset"

\* Sscanf with %d reads a number and ignores what comes after it.
mustGetenvInt(e, key) == mustGetenv(e, key) /\ e[key] \in {"number", "mixed"}

\* Whether the configuration can be read: if not, the program panics.
ConfigFromEnv(e, keys) ==
  \A key \in keys : IF key \in IntKeys THEN mustGetenvInt(e, key) ELSE mustGetenv(e, key)

\* What it reads.
Config(e, keys) == [key \in keys |-> IF key \in IntKeys THEN "number" ELSE e[key]]

Configs(keys) == [keys -> Values]
Down == [key \in {} |-> "unset"]  \* the configuration of a process that does not serve

ProcessTypeOK ==
  /\ server \in [at : {"down", "up"}, config : Configs(ServerKeys) \cup {Down}]
  /\ worker \in [at : {"down", "up"}, config : Configs(WorkerKeys) \cup {Down}]

ProcessInit ==
  /\ server = [at |-> "down", config |-> Down]
  /\ worker = [at |-> "down", config |-> Down]

\* A program that was started in e with these keys.  It ends at once if it panics,
\* cannot connect to Temporal, or cannot serve.
Started(e, keys) ==
  {[at |-> "down", config |-> Down]} \cup
    IF ConfigFromEnv(e, keys) THEN {[at |-> "up", config |-> Config(e, keys)]} ELSE {}

StartServer(e) ==
  /\ server.at # "up"
  /\ server' \in Started(e, ServerKeys)
  /\ UNCHANGED worker

\* The clients of the video services are made without a look at the hosts.
StartWorker(e) ==
  /\ worker.at # "up"
  /\ worker' \in Started(e, WorkerKeys)
  /\ UNCHANGED server

\* Killed, or crashed; the listener of the server fails; the worker is interrupted.
StopServer ==
  /\ server.at = "up"
  /\ server' = [at |-> "down", config |-> Down]
  /\ UNCHANGED worker

StopWorker ==
  /\ worker.at = "up"
  /\ worker' = [at |-> "down", config |-> Down]
  /\ UNCHANGED server

\* A process that serves has read its configuration, whole (config.go:46-66).
UpIsConfigured ==
  /\ server.at = "up" => DOMAIN server.config = ServerKeys
                         /\ \A key \in ServerKeys : server.config[key] # "unset"
  /\ worker.at = "up" => DOMAIN worker.config = WorkerKeys
                         /\ \A key \in WorkerKeys : worker.config[key] # "unset"
=============================================================================
