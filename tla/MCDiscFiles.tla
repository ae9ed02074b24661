----------------------------- MODULE MCDiscFiles -----------------------------
(* Instances of DiscFiles for TLC. *)
EXTENDS DiscFiles, FiniteSets

CONSTANT stem

\* Two names that differ in the case of the extension, and one without a stem.
Videos == {[stem |-> stem, ext |-> ".mkv"],
           [stem |-> stem, ext |-> ".MKV"],
           [stem |-> NoStem, ext |-> ".mkv"]}

\* Any directory on the first disc, and at most one entry on the others.
FirstDisc == CHOOSE u \in UUIDs : TRUE

SmallInit ==
  /\ Init
  /\ \A u \in UUIDs \ {FirstDisc} :
       Cardinality({n \in Names : entries[u][n] # "absent"}) <= 1

SmallSpec == SmallInit /\ [][Next]_vars
=============================================================================
