------------------------ MODULE TelemetryIngestProofs ------------------------
(***************************************************************************)
(* Proofs about TelemetryIngest for every mapping, number of readings and  *)
(* number of starts.  IInv is the inductive invariant: TypeOK, the two     *)
(* properties, and that no row was written by a start still to come.       *)
(***************************************************************************)
EXTENDS TelemetryIngest, SequenceTheorems, TLAPS

-----------------------------------------------------------------------------
(* The inductive invariant *)

\* The rows of the table were written by this start or an earlier one.
RowsArePast == \A r \in Readings : table[r].run <= run

\* A process that is down holds nothing.
DownIsEmpty ==
    stage \in Down => handler = Idle /\ entries = NoEntries /\ publisher = Waiting

IInv ==
    /\ TypeOK
    /\ RowsArePast
    /\ DownIsEmpty
    /\ LostOnlyByFault
    /\ WindowsInOrder

-----------------------------------------------------------------------------
(* What the steps do to the sets the properties speak of *)

\* An empty window holds no reading.
LEMMA NothingAggregated == entries' = NoEntries => Aggregated' = {}
BY DEF Aggregated, NoEntries

\* add puts one reading into the window.
LEMMA AddAggregates ==
    ASSUME TypeOK, NEW s \in Series, NEW r,
           entries' = [entries EXCEPT ![s] = @ \cup {r}]
    PROVE  Aggregated' = Aggregated \cup {r}
<1>1. \A q \in Series : entries'[q] = IF q = s THEN entries[s] \cup {r} ELSE entries[q]
  BY DEF TypeOK
<1> QED BY <1>1 DEF Aggregated

\* A stored window is the last of the stream.
LEMMA AppendStreams ==
    ASSUME TypeOK, NEW w \in SUBSET Readings, stream' = Append(stream, w)
    PROVE  /\ Streamed' = Streamed \cup w
           /\ DOMAIN stream' = 1..Len(stream) + 1
           /\ DOMAIN stream = 1..Len(stream)
           /\ Len(stream) \in Nat
           /\ \A i \in DOMAIN stream : stream'[i] = stream[i]
           /\ stream'[Len(stream) + 1] = w
<1>1. stream \in Seq(SUBSET Readings) /\ Len(stream) \in Nat
  BY DEF TypeOK
<1>2. Len(stream') = Len(stream) + 1 /\ DOMAIN stream' = 1..Len(stream) + 1
  BY <1>1
<1>3. /\ DOMAIN stream = 1..Len(stream)
      /\ \A i \in DOMAIN stream : stream'[i] = stream[i]
      /\ stream'[Len(stream) + 1] = w
  BY <1>1
<1>4. Streamed' = Streamed \cup w
  <2>1. \A x \in Streamed' : x \in Streamed \cup w
    BY <1>1, <1>2, <1>3 DEF Streamed
  <2>2. \A x \in Streamed \cup w : x \in Streamed'
    BY <1>1, <1>2, <1>3 DEF Streamed
  <2> QED BY <2>1, <2>2
<1> QED BY <1>1, <1>2, <1>3, <1>4

\* Everything the process works on is a row of the table.
LEMMA SetsOfRows ==
    TypeOK => /\ Len(table) \in Nat
              /\ Aggregated \subseteq Readings
              /\ Streamed \subseteq Readings
              /\ Pending \subseteq Readings
BY DEF TypeOK, Aggregated, Streamed, Pending, Readings

\* What an insert that left its row does to the table.
LEMMA InsertGrows ==
    ASSUME TypeOK, NEW t \in Tags, WriteReading(t) \/ WriteUnacknowledged(t)
    PROVE  /\ Len(table) \in Nat /\ Len(table') = Len(table) + 1
           /\ table' \in Seq([series : Series, run : 1..MaxRuns])
           /\ \A r \in 1..Len(table) : table'[r] = table[r]
           /\ table'[Len(table) + 1] = [series |-> SeriesOf[t], run |-> run]
           /\ UNCHANGED <<entries, publisher, stream, stage, run>>
<1>1. /\ table' = Append(table, [series |-> SeriesOf[t], run |-> run])
      /\ UNCHANGED <<entries, publisher, stream, stage, run>>
  BY DEF WriteReading, WriteUnacknowledged
<1>2. /\ table \in Seq([series : Series, run : 1..MaxRuns])
      /\ [series |-> SeriesOf[t], run |-> run] \in [series : Series, run : 1..MaxRuns]
  BY IngestAssumption DEF TypeOK
<1> QED BY <1>1, <1>2

-----------------------------------------------------------------------------
\* A sequence over a set is one over any larger set.
LEMMA SeqWiden ==
    ASSUME NEW S, NEW T, S \subseteq T, NEW s \in Seq(S)
    PROVE  s \in Seq(T)
<1>1. Len(s) \in Nat /\ DOMAIN s = 1 .. Len(s) /\ s = [i \in 1 .. Len(s) |-> s[i]]
  OBVIOUS
<1>2. \A i \in 1 .. Len(s) : s[i] \in T
  OBVIOUS
<1> QED BY <1>1, <1>2

\* The types hold initially.
LEMMA InitTypeOK == Init => TypeOK
BY IngestAssumption DEF Init, TypeOK, Idle, Waiting, NoEntries, Readings, Stages, Down

\* No step breaks them.
LEMMA NextTypeOK == TypeOK /\ [Next]_ivars => TypeOK'
<1> USE DEF Readings
<1> SUFFICES ASSUME TypeOK, [Next]_ivars PROVE TypeOK'
  OBVIOUS
<1>s. Len(table) \in Nat /\ Aggregated \subseteq Readings
  BY SetsOfRows
<1>1. CASE Receive
  BY <1>1 DEF Receive, TypeOK, Rest, Idle
<1>2. ASSUME NEW t \in Tags, WriteReading(t) \/ WriteUnacknowledged(t) PROVE TypeOK'
  <2>1. /\ table' \in Seq([series : Series, run : 1..MaxRuns])
        /\ Len(table') = Len(table) + 1
        /\ UNCHANGED <<entries, publisher, stream, stage, run>>
    BY <1>2, InsertGrows
  <2>2. Readings \subseteq 1..Len(table')
    BY <1>s, <2>1
  <2>3. /\ handler' \in [at : {"idle", "write", "event", "add"},
                         todo : SUBSET Tags, reading : 0..Len(table')]
        /\ handler'.reading /= 0 <=> handler'.at \in {"event", "add"}
        /\ dropped' \in SUBSET (1..Len(table'))
    <3>1. CASE WriteReading(t)
      BY <1>s, <2>1, <2>2, <3>1 DEF WriteReading, TypeOK
    <3>2. CASE WriteUnacknowledged(t)
      <4>1. /\ handler' = Rest(handler.todo \ {t})
            /\ dropped' = dropped \cup {Len(table) + 1}
            /\ handler.todo \in SUBSET Tags /\ dropped \in SUBSET Readings
        BY <3>2 DEF WriteUnacknowledged, TypeOK
      <4>2. Len(table) + 1 \in 1..Len(table') /\ 0 \in 0..Len(table')
        BY <1>s, <2>1
      <4>3. dropped' \in SUBSET (1..Len(table'))
        BY <2>2, <4>1, <4>2
      <4>4. CASE handler' = Idle
        BY <4>2, <4>3, <4>4 DEF Idle
      <4>5. CASE handler' = [at |-> "write", todo |-> handler.todo \ {t}, reading |-> 0]
        <5>1. handler.todo \ {t} \in SUBSET Tags
          BY <4>1
        <5>2. /\ handler'.at = "write" /\ handler'.reading = 0
              /\ handler' \in [at : {"idle", "write", "event", "add"},
                               todo : SUBSET Tags, reading : 0..Len(table')]
          BY <4>2, <4>5, <5>1
        <5> QED BY <4>3, <5>2
      <4> QED BY <4>1, <4>4, <4>5 DEF Rest
    <3> QED BY <1>2, <3>1, <3>2
  <2>4. stream \in Seq(SUBSET (1..Len(table')))
    <3>1. stream \in Seq(SUBSET Readings)
      BY DEF TypeOK
    <3>2. SUBSET Readings \subseteq SUBSET (1..Len(table'))
      BY <2>2
    <3> QED BY <3>1, <3>2, SeqWiden
  <2> QED BY <2>1, <2>2, <2>3, <2>4 DEF TypeOK
<1>3. ASSUME NEW t \in Tags, WriteFails(t) PROVE TypeOK'
  BY <1>3, <1>s DEF WriteFails, TypeOK, Rest, Idle
<1>4. CASE PublishTelemetry
  BY <1>4 DEF PublishTelemetry, TypeOK
<1>5. CASE Add
  <2>1. handler.reading \in Readings
    BY <1>5, <1>s DEF Add, TypeOK
  <2>2. table[handler.reading].series \in Series
    <3>1. table \in Seq([series : Series, run : 1..MaxRuns])
      BY DEF TypeOK
    <3>2. table[handler.reading] \in [series : Series, run : 1..MaxRuns]
      BY <2>1, <3>1, ElementOfSeq
    <3> QED BY <3>2
  <2>3. entries' \in [Series -> SUBSET Readings]
    BY <1>5, <2>1, <2>2 DEF Add, TypeOK
  <2>4. handler' \in [at : {"idle", "write", "event", "add"},
                      todo : SUBSET Tags, reading : 0..Len(table)]
        /\ handler'.reading = 0 /\ handler'.at \in {"idle", "write"}
    BY <1>5, <1>s DEF Add, TypeOK, Rest, Idle
  <2> QED BY <1>5, <2>3, <2>4 DEF Add, TypeOK
<1>6. ASSUME NEW final \in BOOLEAN, Flush(final) PROVE TypeOK'
  <2>1. entries' \in [Series -> SUBSET Readings]
    BY <1>6 DEF Flush, NoEntries
  <2>2. /\ publisher' \in [at : {"waiting", "publishing", "done"},
                           window : SUBSET Readings, final : BOOLEAN]
        /\ publisher'.at /= "publishing" => publisher'.window = {}
    BY <1>6, <1>s DEF Flush, AfterFlush, Done, Waiting
  <2> QED BY <1>6, <2>1, <2>2 DEF Flush, TypeOK
<1>7. CASE Deliver
  <2>1. /\ publisher' \in [at : {"waiting", "publishing", "done"},
                           window : SUBSET Readings, final : BOOLEAN]
        /\ publisher'.at /= "publishing" => publisher'.window = {}
    <3>1. publisher' = AfterFlush(publisher.final)
      BY <1>7 DEF Deliver, Publish, PublishFails
    <3> QED BY <3>1 DEF AfterFlush, Done, Waiting
  <2>2. stream' \in Seq(SUBSET Readings) /\ dropped' \in SUBSET Readings
    <3>1. CASE Publish
      BY <1>7, <3>1 DEF Publish, TypeOK
    <3>2. CASE PublishFails
      BY <1>7, <3>2 DEF PublishFails, TypeOK
    <3> QED BY <1>7, <3>1, <3>2 DEF Deliver
  <2> QED BY <1>7, <2>1, <2>2 DEF Deliver, Publish, PublishFails, TypeOK
<1>8. CASE Cancel \/ Disconnect \/ CloseStore
  BY <1>8 DEF Cancel, Disconnect, CloseStore, Advance, TypeOK, Stages
<1>9. CASE Exit \/ Crash
  <2>1. entries' \in [Series -> SUBSET Readings]
    BY <1>9 DEF Exit, Crash, Vanish, NoEntries
  <2>2. handler' = Idle /\ publisher' = Waiting /\ stage' \in Stages
    BY <1>9 DEF Exit, Crash, Vanish, Stages, Down
  <2>3. UNCHANGED <<table, stream, dropped, run>>
    BY <1>9 DEF Exit, Crash, Vanish
  <2> QED BY <1>s, <2>1, <2>2, <2>3 DEF TypeOK, Idle, Waiting
<1>10. CASE Restart
  BY <1>10, IngestAssumption DEF Restart, TypeOK, Stages
<1>11. CASE UNCHANGED ivars
  BY <1>11 DEF ivars, TypeOK
<1> QED
  BY <1>1, <1>2, <1>3, <1>4, <1>5, <1>6, <1>7, <1>8, <1>9, <1>10, <1>11
     DEF Next, Handle, Tick, FinalFlush, Unwind

-----------------------------------------------------------------------------
\* Rows keep the start that wrote them.
LEMMA NextRowsArePast == TypeOK /\ RowsArePast /\ [Next]_ivars => RowsArePast'
<1> SUFFICES ASSUME TypeOK, RowsArePast, [Next]_ivars PROVE RowsArePast'
  OBVIOUS
<1>1. ASSUME NEW t \in Tags, WriteReading(t) \/ WriteUnacknowledged(t)
      PROVE  RowsArePast'
  <2>1. /\ Len(table') = Len(table) + 1
        /\ \A r \in 1..Len(table) : table'[r] = table[r]
        /\ table'[Len(table) + 1] = [series |-> SeriesOf[t], run |-> run]
        /\ Len(table) \in Nat
    BY <1>1, InsertGrows
  <2>2. run' = run /\ run \in Nat
    <3>1. run' = run
      BY <1>1 DEF WriteReading, WriteUnacknowledged
    <3> QED BY <3>1, IngestAssumption DEF TypeOK
  <2>3. \A r \in 1..Len(table') : r \in 1..Len(table) \/ r = Len(table) + 1
    BY <2>1
  <2> QED BY <2>1, <2>2, <2>3 DEF RowsArePast, Readings
<1>2. CASE Restart
  <2>1. \A r \in Readings : table[r].run \in Nat
    <3>1. \A r \in Readings : table[r] \in [series : Series, run : 1..MaxRuns]
      BY ElementOfSeq DEF TypeOK, Readings
    <3> QED BY <3>1
  <2>2. run' = run + 1 /\ run \in Nat /\ table' = table
    BY <1>2 DEF Restart, TypeOK
  <2> QED BY <2>1, <2>2 DEF RowsArePast, Readings
<1>3. CASE UNCHANGED <<table, run>>
  BY <1>3 DEF RowsArePast, Readings
<1> QED
  BY <1>1, <1>2, <1>3
     DEF Next, Handle, Receive, WriteFails, PublishTelemetry, Add, Tick, FinalFlush,
         Flush, Deliver, Publish, PublishFails, Cancel, Unwind, Disconnect,
         CloseStore, Advance, Exit, Crash, Vanish, ivars

\* A process that is down stays empty until it is started, and starts empty.
LEMMA NextDownIsEmpty == DownIsEmpty /\ [Next]_ivars => DownIsEmpty'
BY DEF DownIsEmpty, Next, Handle, Receive, WriteReading, WriteFails,
       WriteUnacknowledged, PublishTelemetry, Add, Tick, FinalFlush, Flush, Deliver, Publish, PublishFails, Cancel, Unwind,
       Disconnect, CloseStore, Advance, Exit, Crash, Vanish, Restart, Down, ivars

-----------------------------------------------------------------------------
\* No step loses sight of a reading.
LEMMA NextLostOnlyByFault == IInv /\ [Next]_ivars => LostOnlyByFault'
<1> DEFINE Kept == Pending \cup Aggregated \cup publisher.window \cup Streamed \cup dropped
<1> SUFFICES ASSUME IInv, [Next]_ivars, stage' \notin Down,
                    NEW r \in Readings', table'[r].run = run'
             PROVE  r \in Kept'
  BY DEF LostOnlyByFault
<1>t. TypeOK /\ Len(table) \in Nat
  BY SetsOfRows DEF IInv
<1>k. ASSUME stage \notin Down, r \in Readings, table[r].run = run PROVE r \in Kept
  BY <1>k DEF IInv, LostOnlyByFault
<1> HIDE DEF Kept
<1>1. CASE stage \notin Down /\ UNCHANGED <<table, run, entries, publisher, stream, dropped>>
           /\ handler'.reading = handler.reading
  BY <1>1, <1>k DEF Kept, Readings, Pending, Aggregated, Streamed
<1>2. ASSUME NEW t \in Tags, WriteReading(t) PROVE r \in Kept'
  <2>1. /\ Len(table') = Len(table) + 1
        /\ \A q \in 1..Len(table) : table'[q] = table[q]
        /\ run' = run /\ stage \notin Down
    BY <1>2, <1>t DEF WriteReading, TypeOK
  <2>2. /\ handler.reading = 0
        /\ Pending' = {Len(table) + 1}
    BY <1>2, <1>t DEF WriteReading, TypeOK, Pending
  <2>3. UNCHANGED <<Aggregated, publisher, Streamed, dropped>>
    BY <1>2 DEF WriteReading, Aggregated, Streamed
  <2>4. r \in 1..Len(table) \/ r = Len(table) + 1
    BY <2>1, <1>t DEF Readings
  <2>5. r \in 1..Len(table) => r \in Kept /\ r \notin Pending
    BY <1>k, <2>1, <2>2 DEF Readings, Pending
  <2> QED BY <2>2, <2>3, <2>4, <2>5 DEF Kept
<1>11. ASSUME NEW t \in Tags, WriteUnacknowledged(t) PROVE r \in Kept'
  <2>1. /\ Len(table') = Len(table) + 1
        /\ \A q \in 1..Len(table) : table'[q] = table[q]
        /\ run' = run /\ stage \notin Down
    BY <1>11, <1>t, InsertGrows DEF WriteUnacknowledged
  <2>2. Pending = {} /\ dropped' = dropped \cup {Len(table) + 1}
    BY <1>11, <1>t DEF WriteUnacknowledged, TypeOK, Pending
  <2>3. UNCHANGED <<Aggregated, publisher, Streamed>>
    BY <1>11 DEF WriteUnacknowledged, Aggregated, Streamed
  <2>4. r \in 1..Len(table) \/ r = Len(table) + 1
    BY <2>1, <1>t DEF Readings
  <2>5. r \in 1..Len(table) => r \in Kept
    BY <1>k, <2>1 DEF Readings
  <2> QED BY <2>2, <2>3, <2>4, <2>5 DEF Kept
<1>3. CASE Add
  <2>1. stage \notin Down /\ UNCHANGED <<table, run, publisher, stream, dropped>>
    BY <1>3 DEF Add
  <2>2. table[handler.reading].series \in Series /\ Pending = {handler.reading}
    <3>1. handler.reading \in 1..Len(table)
      BY <1>3, <1>t DEF Add, TypeOK
    <3>2. table[handler.reading] \in [series : Series, run : 1..MaxRuns]
      BY <3>1, <1>t, ElementOfSeq DEF TypeOK
    <3> QED BY <3>1, <3>2 DEF Pending
  <2>3. Aggregated' = Aggregated \cup Pending
    BY <1>3, <1>t, <2>2, AddAggregates DEF Add
  <2>4. r \in Kept
    BY <1>k, <2>1 DEF Readings
  <2> QED BY <2>1, <2>3, <2>4 DEF Kept, Streamed
<1>4. ASSUME NEW final \in BOOLEAN, stage \notin Down, Flush(final) PROVE r \in Kept'
  <2>1. UNCHANGED <<table, run, handler, stream, dropped>>
    BY <1>4 DEF Flush
  <2>2. publisher.window = {}
    BY <1>4, <1>t DEF Flush, TypeOK
  <2>3. publisher'.window = Aggregated
    BY <1>4 DEF Flush, AfterFlush, Done, Waiting
  <2>4. r \in Kept
    BY <1>k, <1>4, <2>1 DEF Readings
  <2> QED BY <2>1, <2>2, <2>3, <2>4 DEF Kept, Streamed, Pending
<1>5. CASE Deliver
  <2>1. stage \notin Down /\ UNCHANGED <<table, run, handler, entries>>
    BY <1>5 DEF Deliver, Publish, PublishFails
  <2>2. publisher.window \subseteq Streamed' \cup dropped'
        /\ Streamed \cup dropped \subseteq Streamed' \cup dropped'
    <3>1. CASE Publish
      <4>1. publisher.window \in SUBSET Readings /\ stream' = Append(stream, publisher.window)
        BY <3>1, <1>t DEF Publish, TypeOK
      <4>2. Streamed' = Streamed \cup publisher.window
        BY <4>1, <1>t, AppendStreams
      <4> QED BY <3>1, <4>2 DEF Publish
    <3>2. CASE PublishFails
      BY <3>2 DEF PublishFails, Streamed
    <3> QED BY <1>5, <3>1, <3>2 DEF Deliver
  <2>3. r \in Kept
    BY <1>k, <2>1 DEF Readings
  <2> QED BY <2>1, <2>2, <2>3 DEF Kept, Aggregated, Pending
<1>6. CASE Restart
  <2>1. run' = run + 1 /\ run \in Nat /\ table' = table
    BY <1>6, <1>t DEF Restart, TypeOK
  <2>2. table[r].run <= run
    BY <2>1 DEF IInv, RowsArePast, Readings
  <2> QED BY <2>1, <2>2
<1>7. CASE Receive \/ (\E t \in Tags : WriteFails(t)) \/ PublishTelemetry
  <2>1. handler'.reading = handler.reading
    BY <1>7, <1>t DEF Receive, WriteFails, PublishTelemetry, TypeOK, Rest, Idle
  <2> QED BY <1>1, <1>7, <2>1 DEF Receive, WriteFails, PublishTelemetry, Down
<1>8. CASE Cancel \/ Disconnect \/ CloseStore
  BY <1>1, <1>8 DEF Cancel, Disconnect, CloseStore, Advance, Down
<1>9. CASE Exit \/ Crash
  BY <1>9 DEF Exit, Crash, Vanish, Down
<1>10. CASE UNCHANGED ivars
  BY <1>1, <1>10 DEF ivars
<1> QED
  BY <1>2, <1>3, <1>4, <1>5, <1>6, <1>7, <1>8, <1>9, <1>10, <1>11
     DEF Next, Handle, Tick, FinalFlush, Unwind

-----------------------------------------------------------------------------
\* No step disturbs the order of the windows.
LEMMA NextWindowsInOrder == IInv /\ [Next]_ivars => WindowsInOrder'
<1> SUFFICES ASSUME IInv, [Next]_ivars PROVE WindowsInOrder'
  OBVIOUS
<1>t. /\ TypeOK /\ Len(table) \in Nat
      /\ Aggregated \subseteq 1..Len(table)
      /\ Streamed \subseteq 1..Len(table)
      /\ publisher.window \subseteq 1..Len(table)
  BY SetsOfRows DEF IInv, TypeOK, Readings
<1>o. WindowsInOrder
  BY DEF IInv
<1>1. CASE UNCHANGED <<entries, publisher, stream>>
           /\ (handler'.reading = handler.reading \/ handler'.reading = 0)
  <2>1. UNCHANGED <<Aggregated, publisher, stream, Streamed>> /\ Pending' \subseteq Pending
    BY <1>1 DEF Aggregated, Streamed, Pending
  <2> QED BY <1>o, <2>1 DEF WindowsInOrder
<1>2. ASSUME NEW t \in Tags, WriteReading(t) PROVE WindowsInOrder'
  <2>1. UNCHANGED <<Aggregated, publisher, stream, Streamed>>
        /\ Pending' = {Len(table) + 1}
    BY <1>2, <1>t DEF WriteReading, Aggregated, Streamed, Pending
  <2>2. \A q \in Streamed \cup publisher.window \cup Aggregated : q < Len(table) + 1
    <3>1. \A q \in 1..Len(table) : q < Len(table) + 1
      BY <1>t
    <3> QED BY <1>t, <3>1, Zenon
  <2> QED BY <1>o, <2>1, <2>2 DEF WindowsInOrder
<1>3. CASE Add
  <2>1. table[handler.reading].series \in Series /\ Pending = {handler.reading}
    <3>1. handler.reading \in 1..Len(table)
      BY <1>3, <1>t DEF Add, TypeOK
    <3>2. table[handler.reading] \in [series : Series, run : 1..MaxRuns]
      BY <3>1, <1>t, ElementOfSeq DEF TypeOK
    <3> QED BY <3>1, <3>2 DEF Pending
  <2>2. Aggregated' = Aggregated \cup Pending
    BY <1>3, <1>t, <2>1, AddAggregates DEF Add
  <2>3. UNCHANGED <<publisher, stream, Streamed>> /\ Pending' = {}
    BY <1>3 DEF Add, Rest, Idle, Streamed, Pending
  <2> QED BY <1>o, <2>2, <2>3 DEF WindowsInOrder
<1>4. ASSUME NEW final \in BOOLEAN, Flush(final) PROVE WindowsInOrder'
  <2>1. publisher'.window = Aggregated /\ Aggregated' = {}
    BY <1>4, NothingAggregated DEF Flush, AfterFlush, Done, Waiting
  <2>2. UNCHANGED <<stream, Streamed, Pending>>
    BY <1>4 DEF Flush, Streamed, Pending
  <2> QED BY <1>o, <2>1, <2>2 DEF WindowsInOrder
<1>5. CASE Publish
  <2>1. /\ publisher'.window = {}
        /\ UNCHANGED <<Aggregated, Pending>>
        /\ publisher.window \in SUBSET Readings
        /\ stream' = Append(stream, publisher.window)
    BY <1>5, <1>t DEF Publish, AfterFlush, Done, Waiting, Aggregated, Pending, TypeOK
  <2>2. /\ Streamed' = Streamed \cup publisher.window
        /\ DOMAIN stream' = 1..Len(stream) + 1
        /\ DOMAIN stream = 1..Len(stream)
        /\ Len(stream) \in Nat
        /\ \A i \in DOMAIN stream : stream'[i] = stream[i]
        /\ stream'[Len(stream) + 1] = publisher.window
    BY <1>t, <2>1, AppendStreams
  <2>3. ASSUME NEW i \in DOMAIN stream', NEW j \in DOMAIN stream', i < j,
               NEW r \in stream'[i], NEW q \in stream'[j]
        PROVE  r < q
    <3>1. i \in DOMAIN stream /\ r \in stream[i] /\ r \in Streamed
      BY <2>2, <2>3 DEF Streamed
    <3>2. CASE j \in DOMAIN stream
      BY <1>o, <2>2, <2>3, <3>1, <3>2 DEF WindowsInOrder
    <3>3. CASE j = Len(stream) + 1
      BY <1>o, <2>2, <3>1, <3>3 DEF WindowsInOrder
    <3> QED BY <2>2, <3>2, <3>3
  <2> QED BY <1>o, <2>1, <2>2, <2>3 DEF WindowsInOrder
<1>6. CASE PublishFails
  <2>1. /\ publisher'.window = {}
        /\ UNCHANGED <<Aggregated, Pending, stream, Streamed>>
    BY <1>6 DEF PublishFails, AfterFlush, Done, Waiting, Aggregated, Pending, Streamed
  <2> QED BY <1>o, <2>1 DEF WindowsInOrder
<1>7. CASE \/ Receive \/ PublishTelemetry
           \/ \E t \in Tags : WriteFails(t) \/ WriteUnacknowledged(t)
  <2>1. UNCHANGED <<entries, publisher, stream>>
        /\ (handler'.reading = handler.reading \/ handler'.reading = 0)
    <3>1. CASE Receive \/ PublishTelemetry
      BY <1>t, <3>1 DEF Receive, PublishTelemetry, TypeOK, Rest, Idle
    <3>2. ASSUME NEW t \in Tags, WriteFails(t) \/ WriteUnacknowledged(t)
          PROVE  UNCHANGED <<entries, publisher, stream>> /\ handler'.reading = 0
      <4>1. /\ UNCHANGED <<entries, publisher, stream>>
            /\ handler' = Rest(handler.todo \ {t})
        BY <3>2 DEF WriteFails, WriteUnacknowledged
      <4> QED BY <4>1 DEF Rest, Idle
    <3> QED BY <1>7, <3>1, <3>2
  <2> QED BY <1>1, <2>1
<1>8. CASE Cancel \/ Disconnect \/ CloseStore \/ Restart
  BY <1>1, <1>8 DEF Cancel, Disconnect, CloseStore, Advance, Restart
<1>9. CASE Exit \/ Crash
  <2>1. /\ publisher'.window = {} /\ Pending' = {} /\ Aggregated' = {}
        /\ UNCHANGED <<stream, Streamed>>
    BY <1>9, NothingAggregated DEF Exit, Crash, Vanish, Waiting, Idle, Pending, Streamed
  <2> QED BY <1>o, <2>1 DEF WindowsInOrder
<1>10. CASE UNCHANGED ivars
  BY <1>1, <1>10 DEF ivars
<1> QED
  BY <1>2, <1>3, <1>4, <1>5, <1>6, <1>7, <1>8, <1>9, <1>10
     DEF Next, Handle, Tick, FinalFlush, Deliver, Unwind

-----------------------------------------------------------------------------
\* The invariant holds throughout.
LEMMA Inductive == Spec => []IInv
<1>1. Init => IInv
  <2>1. Init => Readings = {} /\ Aggregated = {} /\ Streamed = {} /\ Pending = {}
    BY DEF Init, Readings, Aggregated, Streamed, Pending, NoEntries, Idle
  <2>2. Init => DownIsEmpty /\ publisher.window = {} /\ DOMAIN stream = {}
    BY DEF Init, DownIsEmpty, Down, Waiting
  <2> QED BY <2>1, <2>2, InitTypeOK
          DEF IInv, RowsArePast, LostOnlyByFault, WindowsInOrder
<1>2. IInv /\ [Next]_ivars => IInv'
  BY NextTypeOK, NextRowsArePast, NextDownIsEmpty, NextLostOnlyByFault,
     NextWindowsInOrder DEF IInv
<1> QED BY <1>1, <1>2, PTL DEF Spec

\* The process works on readings it has and a goroutine that waits holds none.
THEOREM TypeCorrect == Spec => []TypeOK
BY Inductive, PTL DEF IInv

\* While module-svc runs, a reading that is in the table is in memory or in the
\* stream unless a publish failed, wherever the flush falls between the insert
\* and the add.
THEOREM OnlyFaultsLoseReadings == Spec => []LostOnlyByFault
BY Inductive, PTL DEF IInv

\* Published windows follow one another and the window being filled follows
\* them all, across restarts too: no reading is counted in two windows.
THEOREM NoReadingCountedTwice == Spec => []WindowsInOrder
BY Inductive, PTL DEF IInv
=============================================================================
