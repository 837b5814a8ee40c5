---------------------------- MODULE MCModuleList ----------------------------
(* Small instances of ModuleList for TLC. *)
EXTENDS ModuleList
=============================================================================
