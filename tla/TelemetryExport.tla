--------------------------- MODULE TelemetryExport ---------------------------
(***************************************************************************)
(* A client downloads telemetry page by page from export-svc while         *)
(* module-svc goes on inserting.  The client follows the cursor of every   *)
(* page (TelemetryHandler, QueryPage); module-svc takes the time of a row  *)
(* first and the row becomes visible later (WriteReading).                 *)
(*                                                                         *)
(* The telemetry table has no key.  A row is the number of its insertion;  *)
(* a series stands for a (node_id, metric) pair and is the pair's rank in  *)
(* the order of the two columns, so that a row's place in the export is    *)
(* its time and then its series.                                           *)
(***************************************************************************)
EXTENDS Naturals, Sequences, FiniteSets

CONSTANTS
    Series,     \* ranks of the (node_id, metric) pairs
    Limit,      \* rows per page
    Day,        \* the default window
    MaxWindow,  \* maxExportWindow
    MaxTime,    \* bound: how long the clock runs
    MaxRows,    \* bound: rows of the table
    MaxSteps,   \* bound: times the writer's clock is set back
    MaxLost,    \* bound: inserts whose connection is lost under way
    NoRow, NoCursor, Default

ASSUME ExportAssumption ==
    /\ Series \subseteq Nat
    /\ Limit \in Nat \ {0}
    /\ Day \in Nat /\ MaxWindow \in Nat /\ MaxTime \in Nat
    /\ MaxRows \in Nat /\ MaxSteps \in Nat /\ MaxLost \in Nat
    /\ NoRow \notin [time : 0..MaxTime, series : Series]
    /\ NoCursor \notin [time : 0..MaxTime, series : Series]
    /\ Default \notin Nat

VARIABLES
    clock,      \* time.Now
    inserting,  \* the row WriteReading is inserting
    adrift,     \* a row WriteReading gave up on and the server still works on
    table,      \* the visible rows of telemetry
    walk,       \* the client's request and the cursor it holds
    pages,      \* the pages the client got, sets of rows
    floor,      \* history: the latest beginning of a page's window
    late,       \* history: rows that appeared behind the cursor
    restarted,  \* history: a cursor did not decode
    steps,      \* history: times the clock was set back
    lost        \* history: times a row went adrift

writerVars == <<clock, inserting, adrift, table, steps, lost>>
readerVars == <<walk, pages, floor, restarted>>
evars == <<writerVars, readerVars, late>>

Times     == 0..MaxTime
Keys      == [time : Times, series : Series]
Collected == UNION {pages[i] : i \in DOMAIN pages}

\* (time, node_id, metric) < (time, node_id, metric)
Before(a, b) ==
    \/ a.time < b.time
    \/ a.time = b.time /\ a.series < b.series

NoWalk == [at |-> "none", filter |-> {}, from |-> Default, to |-> Default,
           cursor |-> NoCursor, seen |-> 0, until |-> 0]

Init ==
    /\ clock = 0
    /\ inserting = NoRow
    /\ adrift = NoRow
    /\ table = <<>>
    /\ walk = NoWalk
    /\ pages = <<>>
    /\ floor = 0
    /\ late = {}
    /\ restarted = FALSE
    /\ steps = 0
    /\ lost = 0

-----------------------------------------------------------------------------
(* module-svc: one insert after the other *)

\* Mutant: the row carries the time the device gives, not time.Now.
BeginInsertDeviceTime ==
    /\ inserting = NoRow
    /\ clock < MaxTime
    /\ \E s \in Series, t \in Times :
           t <= clock /\ inserting' = [time |-> t, series |-> s]
    /\ clock' = clock + 1
    /\ UNCHANGED <<adrift, table, readerVars, late, steps, lost>>

\* WriteReading evaluates time.Now; a later row of the same clock is later by
\* at least the microsecond the column keeps.
BeginInsert ==
    /\ inserting = NoRow
    /\ clock < MaxTime
    /\ \E s \in Series : inserting' = [time |-> clock, series |-> s]
    /\ clock' = clock + 1
    /\ UNCHANGED <<adrift, table, readerVars, late, steps, lost>>

\* The client's cursor is at the key or past it.
Passed(k) == walk.cursor /= NoCursor /\ ~Before(walk.cursor, k)

\* The server is done with a row: it is committed, or there will be none.
Settle(row) ==
    /\ row /= NoRow
    /\ \/ /\ Len(table) < MaxRows
          /\ table' = Append(table, row)
          /\ late' = IF Passed(row) THEN late \cup {Len(table) + 1} ELSE late
       \/ UNCHANGED <<table, late>>
    /\ UNCHANGED <<clock, readerVars, steps, lost>>

\* The insert returns, without an error or with one: a row whose acknowledgement
\* is lost stays.
EndInsert ==
    /\ Settle(inserting)
    /\ inserting' = NoRow
    /\ UNCHANGED adrift

\* The insert returns with an error, as the connection is lost, and the server
\* has still to commit: module-svc may insert the next row first.
LoseConnection ==
    /\ inserting /= NoRow
    /\ adrift = NoRow
    /\ lost < MaxLost
    /\ adrift' = inserting
    /\ inserting' = NoRow
    /\ lost' = lost + 1
    /\ UNCHANGED <<clock, table, readerVars, late, steps>>

EndAdrift ==
    /\ Settle(adrift)
    /\ adrift' = NoRow
    /\ UNCHANGED inserting

\* Time passes; the clock may also be set back.
PassTime ==
    /\ clock < MaxTime
    /\ clock' = clock + 1
    /\ UNCHANGED <<inserting, adrift, table, readerVars, late, steps, lost>>

SetBack ==
    /\ steps < MaxSteps
    /\ clock > 0
    /\ clock' = clock - 1
    /\ steps' = steps + 1
    /\ UNCHANGED <<inserting, adrift, table, readerVars, late, lost>>

-----------------------------------------------------------------------------
(* export-svc *)

\* DefaultWindow, recomputed for every request that leaves a bound out.
From == IF walk.from = Default
        THEN IF clock < Day THEN 0 ELSE clock - Day
        ELSE walk.from
To   == IF walk.to = Default THEN clock ELSE walk.to

ValidateWindow == From <= To /\ To - From <= MaxWindow

\* Mutant: the cursor compares times only.
AfterByTime(cursor, k) == cursor = NoCursor \/ cursor.time < k.time

\* Mutant: the row at the cursor comes again.
AfterOrAt(cursor, k) == cursor = NoCursor \/ ~Before(k, cursor)

\* Rows strictly after the cursor.
After(cursor, k) == cursor = NoCursor \/ Before(cursor, k)

\* What the WHERE clause of QueryPage selects in one snapshot of the table.
Selected(cursor) ==
    {r \in DOMAIN table :
        /\ table[r].series \in walk.filter
        /\ From <= table[r].time /\ table[r].time <= To
        /\ After(cursor, table[r])}

\* Mutant: the page asks for one row more to know whether there are more.
IsPageWithSpare(page, left) ==
    /\ \/ Cardinality(left) < Limit + 1 /\ page = left
       \/ Cardinality(page) = Limit + 1 /\ page \subseteq left
    /\ \A p \in page, q \in left \ page : ~Before(table[q], table[p])

\* ORDER BY time, node_id, metric LIMIT: the order of equal rows is open.
IsPage(page, left) ==
    /\ \/ Cardinality(left) < Limit /\ page = left
       \/ Cardinality(page) = Limit /\ page \subseteq left
    /\ \A p \in page, q \in left \ page : ~Before(table[q], table[p])

\* The key of a page's last row.
LastKey(page) ==
    {table[p] : p \in {q \in page : \A r \in page : ~Before(table[q], table[r])}}

\* A full page has more: the client goes on from its last row.  The page that
\* is not full ends the export.
Answer(cursor) ==
    /\ ValidateWindow
    /\ \E page \in SUBSET Selected(cursor) :
           /\ IsPage(page, Selected(cursor))
           /\ pages' = Append(pages, page)
           /\ \/ /\ Cardinality(page) >= Limit
                 /\ \E key \in LastKey(page) :
                        walk' = [walk EXCEPT !.cursor = key]
              \/ /\ Cardinality(page) < Limit
                 /\ walk' = [walk EXCEPT !.at = "ended", !.seen = Len(table),
                                          !.until = To]
    /\ floor' = IF From > floor THEN From ELSE floor
    /\ UNCHANGED <<writerVars, late>>

\* TelemetryHandler with the cursor the client holds.  A request that fails, or
\* whose answer is lost, changes nothing and is repeated.  The page is the rows as
\* JSON has them; the columns CSV makes of them are left out.
NextPage ==
    /\ walk.at = "asking"
    /\ Answer(walk.cursor)
    /\ UNCHANGED restarted

\* A cursor that does not decode counts as none.
NextPageWithoutCursor ==
    /\ walk.at = "asking"
    /\ walk.cursor /= NoCursor
    /\ ~restarted
    /\ Answer(NoCursor)
    /\ restarted' = TRUE

\* The window is the wrong way round or too wide: 400.
Refuse ==
    /\ walk.at = "asking"
    /\ ~ValidateWindow
    /\ walk' = [walk EXCEPT !.at = "refused"]
    /\ UNCHANGED <<writerVars, pages, floor, late, restarted>>

\* The client chooses series and a window, of which it may leave out a bound,
\* and repeats them with every cursor.
Begin ==
    /\ walk.at = "none"
    /\ \E filter \in SUBSET Series, from, to \in Times \cup {Default} :
           /\ filter /= {}
           /\ walk' = [walk EXCEPT !.at = "asking", !.filter = filter,
                                    !.from = from, !.to = to]
    /\ UNCHANGED <<writerVars, pages, floor, late, restarted>>

Next ==
    \/ BeginInsert \/ EndInsert \/ LoseConnection \/ EndAdrift
    \/ PassTime \/ SetBack
    \/ Begin \/ NextPage \/ NextPageWithoutCursor \/ Refuse

Spec == Init /\ [][Next]_evars

-----------------------------------------------------------------------------
(* Properties *)

\* Pages are no longer than asked for and hold rows of the table; nothing is
\* collected before the walk begins.
TypeOK ==
    /\ clock \in Times
    /\ inserting \in Keys \cup {NoRow} /\ adrift \in Keys \cup {NoRow}
    /\ table \in Seq(Keys)
    /\ walk \in [at : {"none", "asking", "ended", "refused"}, filter : SUBSET Series,
                  from : Times \cup {Default}, to : Times \cup {Default},
                  cursor : Keys \cup {NoCursor}, seen : 0..Len(table), until : Times]
    /\ pages \in Seq(SUBSET DOMAIN table)
    /\ walk.at = "none" => pages = <<>> /\ walk.cursor = NoCursor
    /\ \A i \in DOMAIN pages : Cardinality(pages[i]) <= Limit
    /\ floor \in Times
    /\ late \in SUBSET DOMAIN table
    /\ restarted \in BOOLEAN
    /\ steps \in 0..MaxSteps /\ lost \in 0..MaxLost

\* "Never duplicate": as long as every cursor came back as it was given, each
\* page begins after the page before it ended, whatever is inserted meanwhile.
PagesInOrder ==
    ~restarted =>
        \A i, j \in DOMAIN pages :
            i < j => \A p \in pages[i], q \in pages[j] : Before(table[p], table[q])

\* A row, or one with the same time, node and metric, was in a page; or it is
\* older than the window was at some page; or it appeared when the cursor had
\* passed it.
Accounted(r) ==
    \/ \E p \in Collected : table[p] = table[r]
    \/ table[r].time < floor
    \/ r \in late

\* "Never skip": a row which the cursor has passed was in a page, and at the end
\* so was every row up to the end of the window, unless one of the excuses of
\* Accounted holds.
SkippedOnlyIfExcused ==
    \A r \in DOMAIN table :
        /\ table[r].series \in walk.filter
        /\ \/ Passed(table[r])
           \/ walk.at = "ended" /\ r <= walk.seen /\ table[r].time <= walk.until
        => Accounted(r)

\* As long as the writer's clock runs forward no two rows are equal, and, if no
\* insert was given up on while the server worked on it, no row appears behind a
\* cursor: then the cursor skips nothing (tsdb.go:107-108).
OnlyFaultsExcuse ==
    steps = 0 =>
        /\ lost = 0 => late = {}
        /\ \A r, q \in DOMAIN table : table[r] = table[q] => r = q
=============================================================================
