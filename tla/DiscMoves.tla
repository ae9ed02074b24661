------------------------------ MODULE DiscMoves ------------------------------
(***************************************************************************)
(* What the move of discs into the library promises, whatever becomes of   *)
(* runs, attempts and workers: a disc leaves the inbox for the UUID of a   *)
(* request that named its path, while that request is still wanted, and it *)
(* stays where it went.                                                    *)
(*                                                                         *)
(* There are no runs here, no attempts and no reports: DiscLibrary         *)
(* implements this specification.                                          *)
(***************************************************************************)
CONSTANTS UUIDs, Paths, Discs, None

VARIABLES
  inbox,    \* the directory at each path
  library,  \* the directory of each UUID
  wanted    \* requests <<uuid, path>> that may still be served

vars == <<inbox, library, wanted>>

Init ==
  /\ inbox = [p \in Paths |-> None]
  /\ library = [u \in UUIDs |-> None]
  /\ wanted = {}

Arrive(d, p) ==
  /\ inbox[p] = None
  /\ \A q \in Paths : inbox[q] # d
  /\ \A u \in UUIDs : library[u] # d
  /\ inbox' = [inbox EXCEPT ![p] = d]
  /\ UNCHANGED <<library, wanted>>

Want(u, p) ==
  /\ wanted' = wanted \cup {<<u, p>>}
  /\ UNCHANGED <<inbox, library>>

\* Nobody works for these requests any more, whether they were served or not.
Forget(S) ==
  /\ wanted' = wanted \ S
  /\ UNCHANGED <<inbox, library>>

Move(u, p) ==
  /\ <<u, p>> \in wanted
  /\ inbox[p] # None /\ library[u] = None
  /\ library' = [library EXCEPT ![u] = inbox[p]]
  /\ inbox' = [inbox EXCEPT ![p] = None]
  /\ UNCHANGED wanted

Next ==
  \/ \E d \in Discs, p \in Paths : Arrive(d, p)
  \/ \E u \in UUIDs, p \in Paths : Want(u, p)
  \/ \E S \in SUBSET wanted : Forget(S)
  \/ \E w \in wanted : Move(w[1], w[2])

Spec == Init /\ [][Next]_vars
=============================================================================
