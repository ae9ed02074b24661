----------------------------- MODULE ActivityFates -----------------------------
(***************************************************************************)
(* What becomes of the asynchronous activities of a disc, whatever becomes *)
(* of attempts, requests and webhooks: an activity has one job, with which *)
(* it gets its result or never gets any.  A job that failed, or whose      *)
(* attempt was over before it reported, is not made up for by any retry.   *)
(*                                                                         *)
(* There are no attempts, tokens or calls here: AsyncActivity implements   *)
(* this specification, and so does a whole run in DiscSystem.              *)
(***************************************************************************)
CONSTANT Activities

VARIABLE fate  \* of each activity, see Fates

\* "asked" has no job yet; "working" has one that may complete it.
Fates == {"asked", "working", "result", "never"}

Init == fate = [a \in Activities |-> "asked"]

\* The service takes the job.
Work(a) ==
  /\ fate[a] = "asked"
  /\ fate' = [fate EXCEPT ![a] = "working"]

\* The job was done, and its webhook came in time.
Complete(a) ==
  /\ fate[a] = "working"
  /\ fate' = [fate EXCEPT ![a] = "result"]

\* The jobs of S, one or many, failed or came too late.
Forfeit(S) ==
  /\ \A a \in S : fate[a] \in {"asked", "working"}
  /\ fate' = [a \in Activities |-> IF a \in S THEN "never" ELSE fate[a]]

Next ==
  \/ \E a \in Activities : Work(a) \/ Complete(a)
  \/ \E S \in SUBSET Activities : Forfeit(S)

Spec == Init /\ [][Next]_fate
=============================================================================
