------------------------- MODULE MCTelemetryIngest -------------------------
(* Small instances of TelemetryIngest for TLC. *)
EXTENDS TelemetryIngest

\* Three tags, two of which share a metric name.
MCTags     == {"temp", "flow", "flow2"}
MCSeries   == {"temp", "flow"}
MCSeriesOf == [t \in MCTags |-> IF t = "flow2" THEN "flow" ELSE t]
=============================================================================
