---------------------------- MODULE MCDiscLibrary ----------------------------
(* Instances of DiscLibrary for TLC. *)
EXTENDS DiscLibrary, TLC

\* The safety properties treat all UUIDs alike, all paths and all discs.
LibrarySymmetry == Permutations(UUIDs) \cup Permutations(Paths) \cup Permutations(Discs)
=============================================================================
