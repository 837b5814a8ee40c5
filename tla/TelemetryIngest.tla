--------------------------- MODULE TelemetryIngest ---------------------------
(***************************************************************************)
(* The life of a reading in module-svc: the MQTT handler inserts it into   *)
(* the telemetry hypertable and then adds it to the aggregation window in  *)
(* memory (IngestTelemetry); the batch publisher takes the window away     *)
(* every minute and publishes it on telemetry.batch (StartBatchPublisher); *)
(* main stops the two with everything else when the process is told to.    *)
(*                                                                         *)
(* A reading is the number of its row.  An aggregate of the window is the  *)
(* set of readings it was built from: count, sum, min, max, last and the   *)
(* two times are functions of that set.  Outbox follows the events of      *)
(* publishTelemetry, NodeMapping the tags and the module of a node.        *)
(***************************************************************************)
EXTENDS Naturals, Sequences, FiniteSets

CONSTANTS
    Tags,         \* the tags of every node's mapping
    Series,       \* the (node, metric) pairs, the keys of the window
    SeriesOf,     \* the series a tag writes to: two tags may share a name
    MaxReadings,  \* bound: rows of the telemetry table
    MaxRuns       \* bound: times the process is started

ASSUME IngestAssumption ==
    /\ SeriesOf \in [Tags -> Series]
    /\ MaxReadings \in Nat
    /\ MaxRuns \in Nat \ {0}

VARIABLES
    table,      \* the rows of telemetry in the order they were inserted
    handler,    \* the MQTT handler: one message at a time
    entries,    \* telemetryBatcher.entries: the readings of each aggregate
    publisher,  \* StartBatchPublisher's goroutine and the window it holds
    stream,     \* the windows TELEMETRY_BATCH has stored
    dropped,    \* history: the readings of windows whose publish failed, and
                \* those whose insert answered with an error and left its row
    stage,      \* how far main is
    run         \* which start of the process this is

ivars == <<table, handler, entries, publisher, stream, dropped, stage, run>>

Down       == {"stopped", "crashed"}
Stages     == {"up", "cancelled", "disconnected", "closed"} \cup Down
Idle       == [at |-> "idle", todo |-> {}, reading |-> 0]
Waiting    == [at |-> "waiting", window |-> {}, final |-> FALSE]
Done       == [at |-> "done", window |-> {}, final |-> TRUE]
NoEntries  == [s \in Series |-> {}]

Readings   == 1..Len(table)
Aggregated == UNION {entries[s] : s \in Series}
Streamed   == UNION {stream[i] : i \in DOMAIN stream}

\* The reading whose row is in the table and which is not yet in the window.
Pending == {handler.reading} \ {0}

Init ==
    /\ table = <<>>
    /\ handler = Idle
    /\ entries = NoEntries
    /\ publisher = Waiting
    /\ stream = <<>>
    /\ dropped = {}
    /\ stage = "up"
    /\ run = 1

-----------------------------------------------------------------------------
(* IngestTelemetry: paho runs the handler for one message after the other. *)

\* What is left of a message once a tag is dealt with.
Rest(todo) ==
    IF todo = {} THEN Idle ELSE [at |-> "write", todo |-> todo, reading |-> 0]

\* A payload arrives.  The tags that count are enabled and find a number in it;
\* a payload that is not JSON, or a failing getNodeMeta, leaves none and changes
\* nothing here.
Receive ==
    /\ stage \in {"up", "cancelled"}
    /\ handler = Idle
    /\ \E todo \in SUBSET Tags : todo /= {} /\ handler' = Rest(todo)
    /\ UNCHANGED <<table, entries, publisher, stream, dropped, stage, run>>

\* WriteReading inserts the row; Close has not taken the pool away yet.
WriteReading(t) ==
    /\ stage \notin Down \cup {"closed"}
    /\ handler.at = "write"
    /\ t \in handler.todo
    /\ Len(table) < MaxReadings
    /\ table' = Append(table, [series |-> SeriesOf[t], run |-> run])
    /\ handler' = [at |-> "event", todo |-> handler.todo \ {t},
                   reading |-> Len(table) + 1]
    /\ UNCHANGED <<entries, publisher, stream, dropped, stage, run>>

\* The insert fails: no event, nothing aggregated, on to the next tag.
WriteFails(t) ==
    /\ stage \notin Down
    /\ handler.at = "write"
    /\ t \in handler.todo
    /\ handler' = Rest(handler.todo \ {t})
    /\ UNCHANGED <<table, entries, publisher, stream, dropped, stage, run>>

\* The row is committed and the connection is lost before the answer: to the
\* handler the insert has failed.
WriteUnacknowledged(t) ==
    /\ stage \notin Down \cup {"closed"}
    /\ handler.at = "write"
    /\ t \in handler.todo
    /\ Len(table) < MaxReadings
    /\ table' = Append(table, [series |-> SeriesOf[t], run |-> run])
    /\ dropped' = dropped \cup {Len(table) + 1}
    /\ handler' = Rest(handler.todo \ {t})
    /\ UNCHANGED <<entries, publisher, stream, stage, run>>

\* publishTelemetry: a transaction in MariaDB between the insert and the
\* window; its failure is only logged.
PublishTelemetry ==
    /\ stage \notin Down
    /\ handler.at = "event"
    /\ handler' = [handler EXCEPT !.at = "add"]
    /\ UNCHANGED <<table, entries, publisher, stream, dropped, stage, run>>

\* Mutant: add starts the aggregate afresh instead of accumulating.
AddReplaces ==
    /\ stage \notin Down
    /\ handler.at = "add"
    /\ entries' = [entries EXCEPT ![table[handler.reading].series] =
                       {handler.reading}]
    /\ handler' = Rest(handler.todo)
    /\ UNCHANGED <<table, publisher, stream, dropped, stage, run>>

\* telemetryBatcher.add
Add ==
    /\ stage \notin Down
    /\ handler.at = "add"
    /\ entries' = [entries EXCEPT ![table[handler.reading].series] =
                       @ \cup {handler.reading}]
    /\ handler' = Rest(handler.todo)
    /\ UNCHANGED <<table, publisher, stream, dropped, stage, run>>

-----------------------------------------------------------------------------
(* StartBatchPublisher *)

\* What the loop does after flushAndPublish.
AfterFlush(final) == IF final THEN Done ELSE Waiting

\* Mutant: the window handed out is not replaced by a new one.
FlushWithoutReset(final) ==
    /\ publisher.at = "waiting"
    /\ entries' = entries
    /\ publisher' =
         IF Aggregated = {}
         THEN AfterFlush(final)
         ELSE [at |-> "publishing", window |-> Aggregated, final |-> final]
    /\ UNCHANGED <<table, handler, stream, dropped, stage, run>>

\* Mutant: a window of a single reading waits for company.
FlushLater(final) ==
    /\ publisher.at = "waiting"
    /\ final \/ Cardinality(Aggregated) /= 1
    /\ entries' = NoEntries
    /\ publisher' =
         IF Aggregated = {}
         THEN AfterFlush(final)
         ELSE [at |-> "publishing", window |-> Aggregated, final |-> final]
    /\ UNCHANGED <<table, handler, stream, dropped, stage, run>>

\* flush takes the window and starts an empty one; nothing to publish when
\* there was nothing in it.
Flush(final) ==
    /\ publisher.at = "waiting"
    /\ entries' = NoEntries
    /\ publisher' =
         IF Aggregated = {}
         THEN AfterFlush(final)
         ELSE [at |-> "publishing", window |-> Aggregated, final |-> final]
    /\ UNCHANGED <<table, handler, stream, dropped, stage, run>>

\* The ticker fires.  After bgCancel the select may still choose it.
Tick == stage \notin Down /\ Flush(FALSE)

\* ctx.Done: one last flush, then the goroutine returns.
FinalFlush == stage \notin Down \cup {"up"} /\ Flush(TRUE)

\* js.Publish stored the window.  When the acknowledgement is lost the error is
\* logged and the loop goes on just the same.
Publish ==
    /\ stage \notin Down
    /\ publisher.at = "publishing"
    /\ stream' = Append(stream, publisher.window)
    /\ publisher' = AfterFlush(publisher.final)
    /\ UNCHANGED <<table, handler, entries, dropped, stage, run>>

\* The window is not stored: the publish failed, or went out over core NATS to
\* nobody.  flushAndPublish does not put it back.
PublishFails ==
    /\ stage \notin Down
    /\ publisher.at = "publishing"
    /\ dropped' = dropped \cup publisher.window
    /\ publisher' = AfterFlush(publisher.final)
    /\ UNCHANGED <<table, handler, entries, stream, stage, run>>

-----------------------------------------------------------------------------
(* main: what the deferred calls do, in the order they run *)

Advance(from, to) ==
    /\ stage = from
    /\ stage' = to
    /\ UNCHANGED <<table, handler, entries, publisher, stream, dropped, run>>

\* After SIGTERM and srv.Shutdown main returns: bgCancel, sub.Disconnect,
\* tsStore.Close.
Cancel     == Advance("up", "cancelled")
Disconnect == Advance("cancelled", "disconnected")
CloseStore == Advance("disconnected", "closed")

\* The memory of the process is gone.
Vanish(how) ==
    /\ stage' = how
    /\ handler' = Idle
    /\ entries' = NoEntries
    /\ publisher' = Waiting
    /\ UNCHANGED <<table, stream, dropped, run>>

\* main returns.  It waits neither for the publisher nor for the handler.
Exit  == stage = "closed" /\ Vanish("stopped")

Crash == stage \notin Down /\ Vanish("crashed")

Restart ==
    /\ stage \in Down
    /\ run < MaxRuns
    /\ stage' = "up"
    /\ run' = run + 1
    /\ UNCHANGED <<table, handler, entries, publisher, stream, dropped>>

Handle ==
    \/ Receive
    \/ \E t \in Tags : WriteReading(t) \/ WriteFails(t) \/ WriteUnacknowledged(t)
    \/ PublishTelemetry
    \/ Add

Deliver == Publish \/ PublishFails

Unwind == Disconnect \/ CloseStore \/ Exit

Next ==
    Handle \/ Tick \/ FinalFlush \/ Deliver \/ Cancel \/ Unwind \/ Crash \/ Restart

\* The ticker keeps firing while the process runs, a publish ends with or
\* without an error, and main, once it unwinds, gets to its end; nothing is
\* assumed of devices, signals or crashes.
Fairness ==
    /\ WF_ivars(Tick \/ FinalFlush)
    /\ WF_ivars(Deliver)
    /\ WF_ivars(Unwind)

Spec == Init /\ [][Next]_ivars /\ Fairness

-----------------------------------------------------------------------------
(* Properties *)

\* The process works on readings it has; a goroutine that waits holds none.
TypeOK ==
    /\ table \in Seq([series : Series, run : 1..MaxRuns])
    /\ handler \in [at : {"idle", "write", "event", "add"},
                    todo : SUBSET Tags, reading : 0..Len(table)]
    /\ handler.reading /= 0 <=> handler.at \in {"event", "add"}
    /\ entries \in [Series -> SUBSET Readings]
    /\ publisher \in [at : {"waiting", "publishing", "done"},
                      window : SUBSET Readings, final : BOOLEAN]
    /\ publisher.at /= "publishing" => publisher.window = {}
    /\ stream \in Seq(SUBSET Readings)
    /\ dropped \in SUBSET Readings
    /\ stage \in Stages
    /\ run \in 1..MaxRuns

\* While a process runs, every reading it has stored in the table is on its way
\* to telemetry.batch, there already, part of a window whose publish failed, or
\* one whose insert answered with an error: nothing else loses a reading, whenever
\* the flush falls between the insert and the add.
LostOnlyByFault ==
    stage \notin Down =>
        \A r \in Readings :
            table[r].run = run =>
                r \in Pending \cup Aggregated \cup publisher.window
                        \cup Streamed \cup dropped

\* Whatever was flushed earlier is older: window by window in the stream, then
\* the window being published, then the one being filled, then the reading
\* about to be added.  No reading is counted in two windows.
WindowsInOrder ==
    /\ \A i, j \in DOMAIN stream :
           i < j => \A r \in stream[i], q \in stream[j] : r < q
    /\ \A r \in Streamed, q \in publisher.window \cup Aggregated \cup Pending : r < q
    /\ \A r \in publisher.window, q \in Aggregated \cup Pending : r < q
    /\ \A r \in Aggregated, q \in Pending : r < q

\* A reading does not stay in memory: its window is published, or that fails, or
\* the process ends.
ReadingsLeaveMemory ==
    \A r \in 1..MaxReadings :
        (r \in Aggregated) ~>
            (r \in Streamed \cup dropped \/ stage \in Down)
==============================================================================
