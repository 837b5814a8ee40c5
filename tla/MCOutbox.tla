------------------------------ MODULE MCOutbox ------------------------------
(* Small instances of Outbox for TLC. *)
EXTENDS Outbox, TLC

\* For runs without liveness.
Symmetry == Permutations(Events) \cup Permutations(Workers)
=============================================================================
