---------------------------- MODULE MCNodeStatus ----------------------------
(* Small instances of NodeStatus for TLC. *)
EXTENDS NodeStatus, TLC

Symmetry == Permutations(Nodes)
=============================================================================
