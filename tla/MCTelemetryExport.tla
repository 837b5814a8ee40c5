------------------------- MODULE MCTelemetryExport -------------------------
(* Small instances of TelemetryExport for TLC. *)
EXTENDS TelemetryExport

\* Two series.
MCSeries == 0..1
=============================================================================
