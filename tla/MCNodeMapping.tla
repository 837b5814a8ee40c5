--------------------------- MODULE MCNodeMapping ----------------------------
(* Small instances of NodeMapping for TLC. *)
EXTENDS NodeMapping, TLC

Symmetry == Permutations(Modules) \cup Permutations(Handlers)
=============================================================================
