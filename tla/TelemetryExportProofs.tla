------------------------ MODULE TelemetryExportProofs ------------------------
(***************************************************************************)
(* Proofs about TelemetryExport for every set of series, page size, window *)
(* and number of rows.  IInv is the inductive invariant: the properties,   *)
(* where the cursor stands among the rows and the pages, and where the     *)
(* rows stand in time while the clock has not been set back.               *)
(***************************************************************************)
EXTENDS TelemetryExport, SequenceTheorems, FiniteSetTheorems, TLAPS

-----------------------------------------------------------------------------
(* The inductive invariant *)

\* The cursor is the key of a row.
CursorIsRow ==
    walk.cursor /= NoCursor => \E p \in DOMAIN table : walk.cursor = table[p]

\* A client that has more to ask for has collected nothing past its cursor.
CollectedUpToCursor ==
    ~restarted /\ walk.at = "asking" =>
        \A p \in Collected : Passed(table[p])

\* Rows get their time one after the other, the row adrift among them; nothing is
\* adrift before a connection is lost.
RowsInTime ==
    /\ lost = 0 => adrift = NoRow
    /\ steps = 0 =>
        /\ \A r \in DOMAIN table : table[r].time < clock
        /\ inserting /= NoRow =>
               /\ inserting.time < clock
               /\ \A r \in DOMAIN table : table[r].time < inserting.time
        /\ adrift /= NoRow =>
               /\ adrift.time < clock
               /\ inserting /= NoRow => adrift.time < inserting.time
               /\ \A r \in DOMAIN table : table[r].time /= adrift.time

IInv ==
    /\ TypeOK
    /\ CursorIsRow
    /\ CollectedUpToCursor
    /\ RowsInTime
    /\ PagesInOrder
    /\ SkippedOnlyIfExcused
    /\ OnlyFaultsExcuse

\* The steps of module-svc and of the server.
Write ==
    BeginInsert \/ EndInsert \/ LoseConnection \/ EndAdrift \/ PassTime \/ SetBack

-----------------------------------------------------------------------------
(* The order of the export *)

\* The fields of a key are numbers.
LEMMA KeyFields == \A k \in Keys : k.time \in Nat /\ k.series \in Nat
<1>1. Series \subseteq Nat /\ Times \subseteq Nat
  BY ExportAssumption DEF Times
<1>2. \A k \in Keys : k.time \in Times /\ k.series \in Series
  BY DEF Keys
<1> QED BY <1>1, <1>2

\* Before is a strict total order on keys.
LEMMA BeforeIsTotal ==
    ASSUME NEW a \in Keys, NEW b \in Keys
    PROVE  /\ ~(Before(a, b) /\ Before(b, a))
           /\ Before(a, b) \/ Before(b, a) \/ a = b
<1>1. a.time \in Nat /\ b.time \in Nat /\ a.series \in Nat /\ b.series \in Nat
  BY KeyFields
<1>2. a.time = b.time /\ a.series = b.series => a = b
  BY DEF Keys
<1> QED BY <1>1, <1>2 DEF Before

\* A key that is not past b is before whatever b is before.
LEMMA BeforeIsTransitive ==
    ASSUME NEW a \in Keys, NEW b \in Keys, NEW c \in Keys,
           ~Before(b, a), Before(b, c)
    PROVE  Before(a, c)
<1>1. /\ a.time \in Nat /\ b.time \in Nat /\ c.time \in Nat
      /\ a.series \in Nat /\ b.series \in Nat /\ c.series \in Nat
  BY KeyFields
<1> QED BY <1>1 DEF Before

\* The bounds of the window are times.
LEMMA WindowInTimes == TypeOK => From \in Times /\ To \in Times /\ Times \subseteq Nat
BY ExportAssumption DEF TypeOK, From, To, Times

\* Rows have keys.
LEMMA RowsHaveKeys ==
    TypeOK => /\ Len(table) \in Nat
              /\ DOMAIN table = 1..Len(table)
              /\ \A r \in DOMAIN table :
                     table[r] \in Keys /\ table[r].time \in Nat /\ table[r].series \in Series
<1> SUFFICES ASSUME TypeOK
    PROVE  /\ Len(table) \in Nat
           /\ DOMAIN table = 1..Len(table)
           /\ \A r \in DOMAIN table :
                  table[r] \in Keys /\ table[r].time \in Nat /\ table[r].series \in Series
  OBVIOUS
<1>1. table \in Seq(Keys) /\ Len(table) \in Nat /\ DOMAIN table = 1..Len(table)
  BY DEF TypeOK
<1>2. \A r \in DOMAIN table : table[r] \in Keys
  BY <1>1, ElementOfSeq
<1>3. \A k \in Keys : k.time \in Nat /\ k.series \in Series
  BY ExportAssumption DEF Keys, Times
<1> QED BY <1>1, <1>2, <1>3

\* What the client gets is what it had and the page.
LEMMA AppendCollects ==
    ASSUME TypeOK, NEW page \in SUBSET DOMAIN table, pages' = Append(pages, page)
    PROVE  /\ Collected' = Collected \cup page
           /\ DOMAIN pages' = 1..Len(pages) + 1
           /\ DOMAIN pages = 1..Len(pages)
           /\ Len(pages) \in Nat
           /\ \A i \in DOMAIN pages : pages'[i] = pages[i]
           /\ pages'[Len(pages) + 1] = page
<1>1. pages \in Seq(SUBSET DOMAIN table) /\ Len(pages) \in Nat
  BY DEF TypeOK
<1>2. Len(pages') = Len(pages) + 1 /\ DOMAIN pages' = 1..Len(pages) + 1
  BY <1>1
<1>3. /\ DOMAIN pages = 1..Len(pages)
      /\ \A i \in DOMAIN pages : pages'[i] = pages[i]
      /\ pages'[Len(pages) + 1] = page
  BY <1>1
<1>4. Collected' = Collected \cup page
  <2>1. \A x \in Collected' : x \in Collected \cup page
    BY <1>1, <1>2, <1>3 DEF Collected
  <2>2. \A x \in Collected \cup page : x \in Collected'
    BY <1>1, <1>2, <1>3 DEF Collected
  <2> QED BY <2>1, <2>2
<1> QED BY <1>1, <1>2, <1>3, <1>4

\* Collected rows are rows.
LEMMA CollectedRows == TypeOK => Collected \subseteq DOMAIN table
BY DEF TypeOK, Collected

\* The key of a page's last row: a row of the page has it, none of the page is
\* past it, and what was selected and left out is not before it.
LEMMA LastKeyFacts ==
    ASSUME TypeOK, NEW cursor, NEW page \in SUBSET Selected(cursor),
           IsPage(page, Selected(cursor)), NEW key \in LastKey(page)
    PROVE  /\ key \in Keys
           /\ \E p \in page : key = table[p]
           /\ \A p \in page : ~Before(key, table[p])
           /\ \A q \in Selected(cursor) \ page : ~Before(table[q], key)
<1>1. PICK p \in page : key = table[p] /\ \A r \in page : ~Before(table[p], table[r])
  BY DEF LastKey
<1>2. p \in DOMAIN table
  BY DEF Selected
<1> QED BY <1>1, <1>2, RowsHaveKeys DEF IsPage

\* An answer is a full page, after which the client goes on, or the end.
LEMMA AnswerCases ==
    ASSUME TypeOK, NEW cursor, Answer(cursor)
    PROVE  \E page \in SUBSET Selected(cursor) :
              /\ IsPage(page, Selected(cursor))
              /\ pages' = Append(pages, page)
              /\ page \in SUBSET DOMAIN table
              /\ \/ \E key \in LastKey(page) : walk' = [walk EXCEPT !.cursor = key]
                 \/ /\ page = Selected(cursor)
                    /\ walk' = [walk EXCEPT !.at = "ended", !.seen = Len(table),
                                            !.until = To]
<1>1. Selected(cursor) \subseteq DOMAIN table
  BY DEF Selected
<1>2. PICK page \in SUBSET Selected(cursor) :
          /\ IsPage(page, Selected(cursor))
          /\ pages' = Append(pages, page)
          /\ \/ \E key \in LastKey(page) : walk' = [walk EXCEPT !.cursor = key]
             \/ /\ Cardinality(page) < Limit
                /\ walk' = [walk EXCEPT !.at = "ended", !.seen = Len(table),
                                        !.until = To]
  BY DEF Answer
<1>3. Cardinality(page) < Limit => page = Selected(cursor)
  <2>1. Limit \in Nat
    BY ExportAssumption
  <2>2. Cardinality(page) < Limit => Cardinality(page) /= Limit
    BY <2>1
  <2> QED BY <1>2, <2>2 DEF IsPage
<1> QED BY <1>1, <1>2, <1>3

-----------------------------------------------------------------------------
(* Types *)

\* The types hold initially.
LEMMA InitTypeOK == Init => TypeOK
<1> SUFFICES ASSUME Init PROVE TypeOK
  OBVIOUS
<1>1. walk = NoWalk /\ pages = <<>> /\ table = <<>>
  BY DEF Init
<1>2. 0 \in Times /\ Len(table) = 0 /\ DOMAIN pages = {}
  BY <1>1, ExportAssumption DEF Times
<1>3. /\ walk \in [at : {"none", "asking", "ended", "refused"}, filter : SUBSET Series,
                   from : Times \cup {Default}, to : Times \cup {Default},
                   cursor : Keys \cup {NoCursor}, seen : 0..Len(table), until : Times]
      /\ walk.cursor = NoCursor
  BY <1>1, <1>2 DEF NoWalk
<1>4. steps \in 0..MaxSteps /\ lost \in 0..MaxLost
  BY ExportAssumption DEF Init
<1>5. table \in Seq(Keys) /\ pages \in Seq(SUBSET DOMAIN table)
  BY <1>1
<1> QED BY <1>1, <1>2, <1>3, <1>4, <1>5 DEF Init, TypeOK

\* The row that a settled insert leaves, if any.
LEMMA SettledRow ==
    ASSUME TypeOK, NEW row \in Keys \cup {NoRow}, Settle(row),
           ~UNCHANGED <<table, late>>
    PROVE  /\ row \in Keys
           /\ table' \in Seq(Keys)
           /\ Len(table) \in Nat /\ Len(table') = Len(table) + 1
           /\ DOMAIN table = 1..Len(table) /\ DOMAIN table' = 1..Len(table) + 1
           /\ \A r \in DOMAIN table : table'[r] = table[r]
           /\ table'[Len(table) + 1] = row
           /\ late' = IF Passed(row) THEN late \cup {Len(table) + 1} ELSE late
<1>1. /\ row \in Keys /\ table \in Seq(Keys)
      /\ table' = Append(table, row)
      /\ late' = IF Passed(row) THEN late \cup {Len(table) + 1} ELSE late
  BY DEF Settle, TypeOK
<1> QED BY <1>1

\* A settled insert keeps what the types say of the rows and the pages.
LEMMA SettleTypeOK ==
    ASSUME TypeOK, NEW row \in Keys \cup {NoRow}, Settle(row)
    PROVE  /\ table' \in Seq(Keys)
           /\ late' \in SUBSET DOMAIN table'
           /\ pages \in Seq(SUBSET DOMAIN table')
           /\ walk \in [at : {"none", "asking", "ended", "refused"}, filter : SUBSET Series,
                        from : Times \cup {Default}, to : Times \cup {Default},
                        cursor : Keys \cup {NoCursor}, seen : 0..Len(table'), until : Times]
<1>1. CASE UNCHANGED <<table, late>>
  BY <1>1 DEF TypeOK
<1>2. CASE ~UNCHANGED <<table, late>>
  <2>1. /\ table' \in Seq(Keys) /\ Len(table') = Len(table) + 1 /\ Len(table) \in Nat
        /\ DOMAIN table = 1..Len(table) /\ DOMAIN table' = 1..Len(table) + 1
        /\ late' = IF Passed(row) THEN late \cup {Len(table) + 1} ELSE late
    BY <1>2, SettledRow
  <2>2. /\ DOMAIN table \subseteq DOMAIN table' /\ 0..Len(table) \subseteq 0..Len(table')
        /\ Len(table) + 1 \in DOMAIN table'
    BY <2>1
  <2>3. pages \in Seq(SUBSET DOMAIN table')
    <3>1. \A i \in 1..Len(pages) : pages[i] \in SUBSET DOMAIN table'
      BY <2>2 DEF TypeOK
    <3> QED BY <3>1 DEF TypeOK
  <2>4. late' \in SUBSET DOMAIN table'
    BY <2>1, <2>2 DEF TypeOK
  <2>5. walk \in [at : {"none", "asking", "ended", "refused"}, filter : SUBSET Series,
                  from : Times \cup {Default}, to : Times \cup {Default},
                  cursor : Keys \cup {NoCursor}, seen : 0..Len(table'), until : Times]
    BY <2>2 DEF TypeOK
  <2> QED BY <2>1, <2>3, <2>4, <2>5
<1> QED BY <1>1, <1>2

\* The writer's steps keep the types.
LEMMA WriterTypeOK == TypeOK /\ Write => TypeOK'
<1> SUFFICES ASSUME TypeOK, Write PROVE TypeOK'
  OBVIOUS
<1> USE ExportAssumption
<1>1. CASE BeginInsert
  <2>1. inserting' \in Keys \cup {NoRow} /\ clock' \in Times
    BY <1>1 DEF BeginInsert, TypeOK, Keys, Times
  <2> QED BY <1>1, <2>1 DEF BeginInsert, TypeOK, readerVars
<1>2. ASSUME NEW row \in Keys \cup {NoRow}, Settle(row),
             inserting' \in Keys \cup {NoRow}, adrift' \in Keys \cup {NoRow}
      PROVE  TypeOK'
  <2>1. UNCHANGED <<clock, walk, pages, floor, restarted, steps, lost>>
    BY <1>2 DEF Settle, readerVars
  <2>2. \A i \in DOMAIN pages : Cardinality(pages[i]) <= Limit
    BY DEF TypeOK
  <2>3. /\ table' \in Seq(Keys)
        /\ late' \in SUBSET DOMAIN table'
        /\ pages \in Seq(SUBSET DOMAIN table')
        /\ walk \in [at : {"none", "asking", "ended", "refused"}, filter : SUBSET Series,
                     from : Times \cup {Default}, to : Times \cup {Default},
                     cursor : Keys \cup {NoCursor}, seen : 0..Len(table'), until : Times]
    BY <1>2, SettleTypeOK
  <2> QED BY <1>2, <2>1, <2>2, <2>3 DEF TypeOK
<1>3. CASE EndInsert
  BY <1>2, <1>3 DEF EndInsert, TypeOK
<1>4. CASE EndAdrift
  BY <1>2, <1>4 DEF EndAdrift, TypeOK
<1>5. CASE LoseConnection
  <2>1. lost' \in 0..MaxLost
    BY <1>5 DEF LoseConnection, TypeOK
  <2> QED BY <1>5, <2>1 DEF LoseConnection, TypeOK, readerVars
<1>6. CASE PassTime
  BY <1>6 DEF PassTime, TypeOK, Times, readerVars
<1>7. CASE SetBack
  BY <1>7 DEF SetBack, TypeOK, Times, readerVars
<1> QED BY <1>1, <1>3, <1>4, <1>5, <1>6, <1>7 DEF Write

\* So does a page.
LEMMA AnswerTypeOK ==
    ASSUME TypeOK, NEW cursor, Answer(cursor), walk.at = "asking",
           restarted' \in BOOLEAN
    PROVE  TypeOK'
<1>1. PICK page \in SUBSET Selected(cursor) :
          /\ IsPage(page, Selected(cursor))
          /\ pages' = Append(pages, page)
          /\ page \in SUBSET DOMAIN table
          /\ \/ \E key \in LastKey(page) : walk' = [walk EXCEPT !.cursor = key]
             \/ /\ page = Selected(cursor)
                /\ walk' = [walk EXCEPT !.at = "ended", !.seen = Len(table),
                                        !.until = To]
  BY AnswerCases
<1>2. UNCHANGED <<clock, inserting, adrift, table, steps, lost, late>>
  BY DEF Answer, writerVars
<1>3. walk' \in [at : {"none", "asking", "ended", "refused"}, filter : SUBSET Series,
                 from : Times \cup {Default}, to : Times \cup {Default},
                 cursor : Keys \cup {NoCursor}, seen : 0..Len(table), until : Times]
      /\ walk'.at /= "none"
  <2>1. CASE \E key \in LastKey(page) : walk' = [walk EXCEPT !.cursor = key]
    <3>1. PICK key \in LastKey(page) : walk' = [walk EXCEPT !.cursor = key]
      BY <2>1
    <3>2. key \in Keys
      BY <1>1, LastKeyFacts
    <3> QED BY <3>1, <3>2 DEF TypeOK
  <2>2. CASE walk' = [walk EXCEPT !.at = "ended", !.seen = Len(table), !.until = To]
    <3>1. Len(table) \in 0..Len(table) /\ To \in Times
      BY RowsHaveKeys, WindowInTimes
    <3> QED BY <2>2, <3>1 DEF TypeOK
  <2> QED BY <1>1, <2>1, <2>2
<1>4. pages' \in Seq(SUBSET DOMAIN table)
  BY <1>1 DEF TypeOK
<1>5. \A i \in DOMAIN pages' : Cardinality(pages'[i]) <= Limit
  <2>1. Cardinality(page) <= Limit
    <3>1. Limit \in Nat
      BY ExportAssumption
    <3>2. CASE Cardinality(page) = Limit
      BY <3>1, <3>2
    <3>3. CASE Cardinality(Selected(cursor)) < Limit /\ page = Selected(cursor)
      <4>1. IsFiniteSet(1..Len(table)) /\ page \in SUBSET (1..Len(table))
        BY <1>1, RowsHaveKeys, FS_Interval
      <4>2. Cardinality(page) \in Nat
        BY <4>1, FS_Subset, FS_CardinalityType
      <4> QED BY <3>1, <3>3, <4>2
    <3> QED BY <1>1, <3>2, <3>3 DEF IsPage
  <2> QED BY <1>1, <2>1, AppendCollects DEF TypeOK
<1>6. floor' \in Times
  BY WindowInTimes DEF Answer, TypeOK
<1> QED BY <1>2, <1>3, <1>4, <1>5, <1>6 DEF TypeOK

\* No step breaks the types.
LEMMA NextTypeOK == TypeOK /\ [Next]_evars => TypeOK'
<1> SUFFICES ASSUME TypeOK, [Next]_evars PROVE TypeOK'
  OBVIOUS
<1>1. CASE NextPage
  BY <1>1, AnswerTypeOK DEF NextPage, TypeOK
<1>2. CASE NextPageWithoutCursor
  BY <1>2, AnswerTypeOK DEF NextPageWithoutCursor
<1>3. CASE Begin
  <2>1. PICK filter \in SUBSET Series, from \in Times \cup {Default}, to \in Times \cup {Default} :
            walk' = [walk EXCEPT !.at = "asking", !.filter = filter,
                                 !.from = from, !.to = to]
    BY <1>3 DEF Begin
  <2>2. /\ walk' \in [at : {"none", "asking", "ended", "refused"}, filter : SUBSET Series,
                      from : Times \cup {Default}, to : Times \cup {Default},
                      cursor : Keys \cup {NoCursor}, seen : 0..Len(table), until : Times]
        /\ walk'.at = "asking"
    BY <2>1 DEF TypeOK
  <2> QED BY <1>3, <2>2 DEF Begin, writerVars, TypeOK
<1>4. CASE Refuse
  BY <1>4 DEF Refuse, writerVars, TypeOK
<1>5. CASE UNCHANGED evars
  BY <1>5 DEF evars, writerVars, readerVars, TypeOK
<1> QED BY <1>1, <1>2, <1>3, <1>4, <1>5, WriterTypeOK DEF Next, Write

-----------------------------------------------------------------------------
(* What the writer's steps leave of the table *)

\* The table only grows, at its end, and what appears behind the cursor is late.
LEMMA TableGrows ==
    ASSUME TypeOK, Write
    PROVE  /\ UNCHANGED <<walk, pages, floor, restarted>>
           /\ DOMAIN table \subseteq DOMAIN table'
           /\ \A r \in DOMAIN table : table'[r] = table[r]
           /\ late \subseteq late'
           /\ \A r \in DOMAIN table' \ DOMAIN table :
                  /\ \/ EndInsert /\ table'[r] = inserting
                     \/ EndAdrift /\ table'[r] = adrift
                  /\ r = Len(table) + 1
                  /\ table'[r] \in Keys
                  /\ late' = IF Passed(table'[r]) THEN late \cup {r} ELSE late
           /\ DOMAIN table' = DOMAIN table => late' = late
<1>r. UNCHANGED <<walk, pages, floor, restarted>>
  BY DEF Write, BeginInsert, EndInsert, LoseConnection, EndAdrift, PassTime, SetBack,
         Settle, readerVars
<1>1. CASE UNCHANGED <<table, late>>
  BY <1>r, <1>1
<1>2. ASSUME NEW row \in Keys \cup {NoRow}, Settle(row), ~UNCHANGED <<table, late>>
      PROVE  /\ DOMAIN table \subseteq DOMAIN table'
             /\ \A r \in DOMAIN table : table'[r] = table[r]
             /\ late \subseteq late'
             /\ DOMAIN table' /= DOMAIN table
             /\ \A r \in DOMAIN table' \ DOMAIN table :
                    /\ table'[r] = row
                    /\ r = Len(table) + 1
                    /\ table'[r] \in Keys
                    /\ late' = IF Passed(table'[r]) THEN late \cup {r} ELSE late
  <2>1. /\ row \in Keys
        /\ Len(table) \in Nat
        /\ DOMAIN table = 1..Len(table) /\ DOMAIN table' = 1..Len(table) + 1
        /\ \A r \in DOMAIN table : table'[r] = table[r]
        /\ table'[Len(table) + 1] = row
        /\ late' = IF Passed(row) THEN late \cup {Len(table) + 1} ELSE late
    BY <1>2, SettledRow
  <2>2. /\ DOMAIN table \subseteq DOMAIN table'
        /\ \A r \in DOMAIN table' \ DOMAIN table : r = Len(table) + 1
        /\ DOMAIN table' /= DOMAIN table
    <3>1. Len(table) + 1 \in DOMAIN table' /\ Len(table) + 1 \notin DOMAIN table
      BY <2>1
    <3>2. DOMAIN table \subseteq DOMAIN table'
      BY <2>1
    <3>3. \A r \in DOMAIN table' \ DOMAIN table : r = Len(table) + 1
      BY <2>1
    <3> QED BY <3>1, <3>2, <3>3
  <2> QED BY <1>2, <2>1, <2>2
<1>3. CASE EndInsert /\ ~UNCHANGED <<table, late>>
  <2>1. inserting \in Keys \cup {NoRow} /\ Settle(inserting)
    BY <1>3 DEF EndInsert, TypeOK
  <2> QED BY <1>r, <1>2, <1>3, <2>1
<1>4. CASE EndAdrift /\ ~UNCHANGED <<table, late>>
  <2>1. adrift \in Keys \cup {NoRow} /\ Settle(adrift)
    BY <1>4 DEF EndAdrift, TypeOK
  <2> QED BY <1>r, <1>2, <1>4, <2>1
<1> QED
  BY <1>1, <1>3, <1>4
     DEF Write, BeginInsert, LoseConnection, PassTime, SetBack

\* A row keeps being passed.
LEMMA PassedStays ==
    ASSUME TypeOK, Write
    PROVE  \A r \in DOMAIN table : Passed(table[r])' <=> Passed(table[r])
BY TableGrows DEF Passed

-----------------------------------------------------------------------------
(* The parts of the invariant, one by one *)

\* The cursor stays the key of a row.
LEMMA NextCursorIsRow == TypeOK /\ CursorIsRow /\ [Next]_evars => CursorIsRow'
<1> SUFFICES ASSUME TypeOK, CursorIsRow, [Next]_evars PROVE CursorIsRow'
  OBVIOUS
<1>1. CASE Write
  BY <1>1, TableGrows DEF CursorIsRow
<1>2. ASSUME NEW cursor, Answer(cursor) PROVE CursorIsRow'
  <2>1. PICK page \in SUBSET Selected(cursor) :
            /\ IsPage(page, Selected(cursor))
            /\ page \in SUBSET DOMAIN table
            /\ \/ \E key \in LastKey(page) : walk' = [walk EXCEPT !.cursor = key]
               \/ walk' = [walk EXCEPT !.at = "ended", !.seen = Len(table), !.until = To]
    BY <1>2, AnswerCases
  <2>2. table' = table
    BY <1>2 DEF Answer, writerVars
  <2>3. CASE \E key \in LastKey(page) : walk' = [walk EXCEPT !.cursor = key]
    <3>1. PICK key \in LastKey(page) : walk' = [walk EXCEPT !.cursor = key]
      BY <2>3
    <3>2. \E p \in page : key = table[p]
      BY <2>1, LastKeyFacts
    <3>3. walk'.cursor = key
      BY <3>1 DEF TypeOK
    <3> QED BY <2>1, <2>2, <3>2, <3>3 DEF CursorIsRow
  <2>4. CASE walk' = [walk EXCEPT !.at = "ended", !.seen = Len(table), !.until = To]
    BY <2>2, <2>4 DEF CursorIsRow, TypeOK
  <2> QED BY <2>1, <2>3, <2>4
<1>3. CASE Begin \/ Refuse \/ UNCHANGED evars
  <2>1. walk'.cursor = walk.cursor /\ table' = table
    BY <1>3 DEF Begin, Refuse, evars, writerVars, readerVars, TypeOK
  <2> QED BY <2>1 DEF CursorIsRow
<1> QED BY <1>1, <1>2, <1>3 DEF Next, Write, NextPage, NextPageWithoutCursor

\* The times of the rows keep their order while the clock runs forward.
LEMMA NextRowsInTime == TypeOK /\ RowsInTime /\ [Next]_evars => RowsInTime'
<1> SUFFICES ASSUME TypeOK, RowsInTime, [Next]_evars PROVE RowsInTime'
  OBVIOUS
<1>n. /\ clock \in Nat /\ steps \in Nat /\ lost \in Nat
      /\ \A r \in DOMAIN table : table[r].time \in Nat
      /\ inserting /= NoRow => inserting.time \in Nat
      /\ adrift /= NoRow => adrift.time \in Nat
  <2>1. clock \in Nat /\ steps \in Nat /\ lost \in Nat
    BY ExportAssumption DEF TypeOK, Times
  <2>2. /\ inserting /= NoRow => inserting \in Keys
        /\ adrift /= NoRow => adrift \in Keys
    BY DEF TypeOK
  <2> QED BY <2>1, <2>2, RowsHaveKeys, KeyFields
<1>1. CASE BeginInsert
  <2>1. PICK s \in Series : inserting' = [time |-> clock, series |-> s]
    BY <1>1 DEF BeginInsert
  <2>2. /\ clock' = clock + 1 /\ inserting'.time = clock
        /\ UNCHANGED <<table, adrift, steps, lost>>
    BY <1>1, <2>1 DEF BeginInsert
  <2>3. ASSUME steps = 0
        PROVE  \A r \in DOMAIN table : table[r].time < clock /\ table[r].time < clock + 1
    BY <1>n, <2>3 DEF RowsInTime
  <2> QED BY <1>n, <2>2, <2>3 DEF RowsInTime
<1>2. CASE EndInsert
  <2>1. /\ inserting /= NoRow /\ inserting' = NoRow
        /\ UNCHANGED <<clock, adrift, steps, lost>>
    BY <1>2 DEF EndInsert, Settle
  <2>2. \A r \in DOMAIN table' :
            (r \in DOMAIN table /\ table'[r] = table[r]) \/ table'[r] = inserting
    <3>1. Write
      BY <1>2 DEF Write
    <3>2. inserting' = inserting \/ ~EndAdrift
      BY DEF EndAdrift
    <3> QED BY <2>1, <3>1, <3>2, TableGrows
  <2>3. ASSUME steps = 0
        PROVE  /\ \A r \in DOMAIN table' : table'[r].time < clock
               /\ adrift /= NoRow =>
                      \A r \in DOMAIN table' : table'[r].time /= adrift.time
    <3>1. \A r \in DOMAIN table' : table'[r].time < clock
      BY <2>1, <2>2, <2>3 DEF RowsInTime
    <3>2. adrift /= NoRow => inserting.time /= adrift.time
      BY <1>n, <2>1, <2>3 DEF RowsInTime
    <3> QED BY <2>2, <2>3, <3>1, <3>2 DEF RowsInTime
  <2> QED BY <2>1, <2>3 DEF RowsInTime
<1>3. CASE LoseConnection
  <2>1. /\ inserting /= NoRow /\ inserting' = NoRow /\ adrift' = inserting
        /\ lost' /= 0 /\ UNCHANGED <<clock, table, steps>>
    BY <1>3, <1>n DEF LoseConnection
  <2>2. ASSUME steps = 0 PROVE \A r \in DOMAIN table : table[r].time /= inserting.time
    BY <1>n, <2>1, <2>2 DEF RowsInTime
  <2> QED BY <2>1, <2>2 DEF RowsInTime
<1>4. CASE EndAdrift
  <2>1. /\ adrift /= NoRow /\ adrift' = NoRow
        /\ UNCHANGED <<clock, inserting, steps, lost>>
    BY <1>4 DEF EndAdrift, Settle
  <2>2. \A r \in DOMAIN table' :
            (r \in DOMAIN table /\ table'[r] = table[r]) \/ table'[r] = adrift
    <3>1. Write
      BY <1>4 DEF Write
    <3>2. adrift' = adrift \/ ~EndInsert
      BY DEF EndInsert
    <3> QED BY <2>1, <3>1, <3>2, TableGrows
  <2> QED BY <2>1, <2>2 DEF RowsInTime
<1>5. CASE PassTime
  <2>1. clock' = clock + 1 /\ UNCHANGED <<table, inserting, adrift, steps, lost>>
    BY <1>5 DEF PassTime
  <2>2. \A t \in Nat : t < clock => t < clock + 1
    BY <1>n
  <2> QED BY <1>n, <2>1, <2>2 DEF RowsInTime
<1>6. CASE SetBack
  <2>1. steps' /= 0 /\ UNCHANGED <<adrift, lost>>
    BY <1>6, <1>n DEF SetBack
  <2> QED BY <2>1 DEF RowsInTime
<1>7. CASE UNCHANGED writerVars
  BY <1>7 DEF RowsInTime, writerVars
<1>8. NextPage \/ NextPageWithoutCursor \/ Begin \/ Refuse \/ UNCHANGED evars
         => UNCHANGED writerVars
  BY DEF NextPage, NextPageWithoutCursor, Answer, Begin, Refuse, evars
<1> QED BY <1>1, <1>2, <1>3, <1>4, <1>5, <1>6, <1>7, <1>8 DEF Next

\* While the clock runs forward no two rows are equal, and nothing is late unless
\* it was adrift.
LEMMA NextOnlyFaults ==
    TypeOK /\ CursorIsRow /\ RowsInTime /\ OnlyFaultsExcuse /\ [Next]_evars
        => OnlyFaultsExcuse'
<1> SUFFICES ASSUME TypeOK, CursorIsRow, RowsInTime, OnlyFaultsExcuse, [Next]_evars,
                    steps' = 0
             PROVE  OnlyFaultsExcuse'
  BY DEF OnlyFaultsExcuse
<1>1. CASE Write /\ steps = 0
  <2>1. ASSUME NEW q \in DOMAIN table' \ DOMAIN table
        PROVE  /\ lost = 0 => ~Passed(table'[q])
               /\ \A r \in DOMAIN table : table[r] /= table'[q]
    <3>1. CASE EndInsert /\ table'[q] = inserting
      <4>1. inserting /= NoRow /\ inserting \in Keys
        BY <3>1 DEF EndInsert, Settle, TypeOK
      <4>2. \A r \in DOMAIN table : table[r].time < inserting.time
        BY <1>1, <4>1 DEF RowsInTime
      <4>3. \A r \in DOMAIN table : Before(table[r], inserting) /\ table[r] /= inserting
        BY <4>1, <4>2, RowsHaveKeys, KeyFields DEF Before
      <4> QED BY <3>1, <4>3 DEF CursorIsRow, Passed
    <3>2. CASE EndAdrift /\ table'[q] = adrift
      <4>1. adrift /= NoRow
        BY <3>2 DEF EndAdrift, Settle
      <4> QED BY <1>1, <3>2, <4>1 DEF RowsInTime
    <3> QED BY <1>1, <2>1, <3>1, <3>2, TableGrows
  <2>2. /\ lost = 0 => late = {}
        /\ \A r, q \in DOMAIN table : table[r] = table[q] => r = q
    BY <1>1 DEF OnlyFaultsExcuse
  <2>3. lost' = 0 => late' = {}
    <3>0. lost' = 0 => lost = 0
      <4>1. lost \in Nat
        BY DEF TypeOK
      <4> QED BY <1>1, <4>1
              DEF Write, BeginInsert, EndInsert, LoseConnection, EndAdrift, PassTime,
                  SetBack, Settle
    <3>1. CASE DOMAIN table' = DOMAIN table
      BY <1>1, <2>2, <3>0, <3>1, TableGrows
    <3>2. ASSUME NEW q \in DOMAIN table' \ DOMAIN table PROVE lost = 0 => late' = {}
      BY <1>1, <2>1, <2>2, <3>2, TableGrows
    <3> QED BY <1>1, <3>0, <3>1, <3>2, TableGrows
  <2>4. \A r, q \in DOMAIN table' : table'[r] = table'[q] => r = q
    BY <1>1, <2>1, <2>2, TableGrows
  <2> QED BY <2>3, <2>4 DEF OnlyFaultsExcuse
<1>2. CASE UNCHANGED <<writerVars, late>>
  BY <1>2 DEF OnlyFaultsExcuse, writerVars
<1>3. NextPage \/ NextPageWithoutCursor \/ Begin \/ Refuse \/ UNCHANGED evars
         => UNCHANGED <<writerVars, late>>
  BY DEF NextPage, NextPageWithoutCursor, Answer, Begin, Refuse, evars, writerVars, readerVars
<1>4. Write => steps = 0
  <2>1. steps \in Nat
    BY DEF TypeOK
  <2> QED BY <2>1 DEF Write, BeginInsert, EndInsert, LoseConnection, EndAdrift,
                      PassTime, SetBack, Settle
<1> QED BY <1>1, <1>2, <1>3, <1>4 DEF Next, Write

\* A client that has more to ask for has collected nothing past its cursor.
LEMMA NextCollectedUpToCursor ==
    TypeOK /\ CollectedUpToCursor /\ [Next]_evars => CollectedUpToCursor'
<1> SUFFICES ASSUME TypeOK, CollectedUpToCursor, [Next]_evars,
                    ~restarted', walk'.at = "asking"
             PROVE  \A p \in Collected' : Passed(table[p])'
  BY DEF CollectedUpToCursor
<1>c. Collected \subseteq DOMAIN table
  BY CollectedRows
<1>1. CASE Write
  <2>1. Collected' = Collected
    BY <1>1, TableGrows DEF Collected
  <2> QED BY <1>1, <1>c, <2>1, TableGrows, PassedStays DEF CollectedUpToCursor
<1>2. CASE NextPage
  <2>1. PICK page \in SUBSET Selected(walk.cursor) :
            /\ IsPage(page, Selected(walk.cursor))
            /\ pages' = Append(pages, page)
            /\ page \in SUBSET DOMAIN table
            /\ \/ \E key \in LastKey(page) : walk' = [walk EXCEPT !.cursor = key]
               \/ walk' = [walk EXCEPT !.at = "ended", !.seen = Len(table), !.until = To]
    BY <1>2, AnswerCases DEF NextPage
  <2>2. walk.at = "asking" /\ ~restarted /\ table' = table
    BY <1>2 DEF NextPage, Answer, writerVars
  <2>3. PICK key \in LastKey(page) : walk' = [walk EXCEPT !.cursor = key]
    BY <2>1 DEF TypeOK
  <2>4. /\ key \in Keys
        /\ \E p \in page : key = table[p]
        /\ \A p \in page : ~Before(key, table[p])
    BY <2>1, LastKeyFacts
  <2>5. walk'.cursor = key /\ key /= NoCursor
    BY <2>3, <2>4, ExportAssumption DEF TypeOK, Keys, Times
  <2>6. ASSUME NEW p \in Collected PROVE ~Before(key, table[p])
    <3>1. walk.cursor /= NoCursor /\ ~Before(walk.cursor, table[p])
      BY <2>2, <2>6 DEF CollectedUpToCursor, Passed
    <3>2. Before(walk.cursor, key)
      BY <2>1, <2>4, <3>1 DEF Selected, After
    <3>3. walk.cursor \in Keys /\ table[p] \in Keys
      BY <1>c, <2>6, <3>1, RowsHaveKeys DEF TypeOK
    <3>4. Before(table[p], key)
      BY <2>4, <3>1, <3>2, <3>3, BeforeIsTransitive
    <3> QED BY <2>4, <3>3, <3>4, BeforeIsTotal
  <2>7. \A p \in Collected' : p \in Collected \/ p \in page
    BY <2>1, AppendCollects
  <2> QED BY <2>2, <2>4, <2>5, <2>6, <2>7 DEF Passed
<1>3. CASE NextPageWithoutCursor \/ Refuse
  BY <1>3 DEF NextPageWithoutCursor, Refuse, TypeOK
<1>4. CASE Begin
  <2>1. Collected = {} /\ Collected' = Collected
    BY <1>4 DEF Begin, Collected, TypeOK
  <2> QED BY <2>1
<1>5. CASE UNCHANGED evars
  BY <1>5 DEF evars, writerVars, readerVars, CollectedUpToCursor, Collected, Passed
<1> QED BY <1>1, <1>2, <1>3, <1>4, <1>5 DEF Next, Write

\* Every page begins after the one before it ended.
LEMMA NextPagesInOrder ==
    TypeOK /\ CollectedUpToCursor /\ PagesInOrder /\ [Next]_evars => PagesInOrder'
<1> SUFFICES ASSUME TypeOK, CollectedUpToCursor, PagesInOrder, [Next]_evars, ~restarted'
             PROVE  PagesInOrder'
  BY DEF PagesInOrder
<1>1. CASE UNCHANGED pages /\ restarted' = restarted
           /\ \A r \in DOMAIN table : table'[r] = table[r]
  <2>1. \A i \in DOMAIN pages : pages[i] \subseteq DOMAIN table
    BY DEF TypeOK
  <2>2. DOMAIN pages' = DOMAIN pages /\ \A i \in DOMAIN pages : pages'[i] = pages[i]
    BY <1>1
  <2> QED BY <1>1, <2>1, <2>2 DEF PagesInOrder
<1>2. CASE NextPage
  <2>1. PICK page \in SUBSET Selected(walk.cursor) :
            /\ pages' = Append(pages, page)
            /\ page \in SUBSET DOMAIN table
    BY <1>2, AnswerCases DEF NextPage
  <2>2. walk.at = "asking" /\ ~restarted /\ table' = table
    BY <1>2 DEF NextPage, Answer, writerVars
  <2>3. /\ DOMAIN pages' = 1..Len(pages) + 1
        /\ DOMAIN pages = 1..Len(pages)
        /\ Len(pages) \in Nat
        /\ \A i \in DOMAIN pages : pages'[i] = pages[i]
        /\ pages'[Len(pages) + 1] = page
    BY <2>1, AppendCollects
  <2>4. ASSUME NEW p \in Collected, NEW q \in page PROVE Before(table[p], table[q])
    <3>1. walk.cursor /= NoCursor /\ ~Before(walk.cursor, table[p])
      BY <2>2, <2>4 DEF CollectedUpToCursor, Passed
    <3>2. Before(walk.cursor, table[q])
      BY <2>4, <3>1 DEF Selected, After
    <3>3. walk.cursor \in Keys /\ table[p] \in Keys /\ table[q] \in Keys
      BY <2>1, <2>4, <3>1, RowsHaveKeys, CollectedRows DEF TypeOK
    <3> QED BY <3>1, <3>2, <3>3, BeforeIsTransitive
  <2>5. ASSUME NEW i \in DOMAIN pages', NEW j \in DOMAIN pages', i < j,
               NEW p \in pages'[i], NEW q \in pages'[j]
        PROVE  Before(table[p], table[q])
    <3>1. i \in DOMAIN pages /\ p \in pages[i] /\ p \in Collected
      BY <2>3, <2>5 DEF Collected
    <3>2. CASE j \in DOMAIN pages
      BY <2>2, <2>3, <2>5, <3>1, <3>2 DEF PagesInOrder
    <3>3. CASE j = Len(pages) + 1
      BY <2>3, <2>4, <3>1, <3>3
    <3> QED BY <2>3, <3>2, <3>3
  <2> QED BY <2>2, <2>5 DEF PagesInOrder
<1>3. CASE NextPageWithoutCursor
  BY <1>3 DEF NextPageWithoutCursor
<1>4. CASE Write
  BY <1>1, <1>4, TableGrows
<1>5. CASE Begin \/ Refuse \/ UNCHANGED evars
  BY <1>1, <1>5 DEF Begin, Refuse, evars, writerVars, readerVars
<1> QED BY <1>2, <1>3, <1>4, <1>5 DEF Next, Write

-----------------------------------------------------------------------------
(* The cursor skips nothing without an excuse *)

\* What was accounted for stays so when rows appear.
LEMMA AccountedStays ==
    ASSUME TypeOK, Write, NEW r \in DOMAIN table, Accounted(r)
    PROVE  Accounted(r)'
<1>1. Collected' = Collected /\ Collected \subseteq DOMAIN table
  BY TableGrows, CollectedRows DEF Collected
<1> QED BY <1>1, TableGrows DEF Accounted

\* The writer's steps: a row that appears behind the cursor is late.
LEMMA WriteSkipsNothing ==
    TypeOK /\ SkippedOnlyIfExcused /\ Write => SkippedOnlyIfExcused'
<1> SUFFICES ASSUME TypeOK, SkippedOnlyIfExcused, Write,
                    NEW r \in DOMAIN table',
                    table'[r].series \in walk.filter,
                    Passed(table[r])' \/ (walk.at = "ended" /\ r <= walk.seen
                                           /\ table'[r].time <= walk.until)
             PROVE  Accounted(r)'
  BY TableGrows DEF SkippedOnlyIfExcused
<1>1. CASE r \in DOMAIN table
  <2>1. Accounted(r)
    BY <1>1, TableGrows, PassedStays DEF SkippedOnlyIfExcused
  <2> QED BY <1>1, <2>1, AccountedStays
<1>2. CASE r \notin DOMAIN table
  <2>1. r = Len(table) + 1 /\ walk' = walk
    BY <1>2, TableGrows
  <2>2. ~(r <= walk.seen)
    <3>1. walk.seen \in 0..Len(table) /\ Len(table) \in Nat
      BY RowsHaveKeys DEF TypeOK
    <3> QED BY <2>1, <3>1
  <2>3. PICK row : row = table'[r]
    OBVIOUS
  <2>4. Passed(row)
    BY <2>1, <2>2, <2>3 DEF Passed
  <2>5. r \in late'
    BY <1>2, <2>3, <2>4, TableGrows
  <2> QED BY <2>5 DEF Accounted
<1> QED BY <1>1, <1>2

\* A page, asked for with the client's cursor or with none.
LEMMA AnswerSkipsNothing ==
    ASSUME TypeOK, SkippedOnlyIfExcused, walk.at = "asking",
           NEW cursor, cursor \in {walk.cursor, NoCursor}, Answer(cursor)
    PROVE  SkippedOnlyIfExcused'
<1>1. PICK page \in SUBSET Selected(cursor) :
          /\ IsPage(page, Selected(cursor))
          /\ pages' = Append(pages, page)
          /\ page \in SUBSET DOMAIN table
          /\ \/ \E key \in LastKey(page) : walk' = [walk EXCEPT !.cursor = key]
             \/ /\ page = Selected(cursor)
                /\ walk' = [walk EXCEPT !.at = "ended", !.seen = Len(table),
                                        !.until = To]
  BY AnswerCases
<1>2. /\ Collected' = Collected \cup page
      /\ table' = table /\ late' = late
      /\ walk'.filter = walk.filter
  <2>1. Collected' = Collected \cup page
    BY <1>1, AppendCollects
  <2>2. table' = table /\ late' = late
    BY DEF Answer, writerVars
  <2>3. walk'.filter = walk.filter
    BY <1>1 DEF TypeOK
  <2> QED BY <2>1, <2>2, <2>3
<1>3. /\ From \in Nat /\ To \in Nat /\ floor \in Nat /\ floor' \in Nat
      /\ From <= floor' /\ floor <= floor'
  <2>1. From \in Nat /\ To \in Nat /\ floor \in Nat
    BY WindowInTimes DEF TypeOK
  <2>2. floor' = IF From > floor THEN From ELSE floor
    BY DEF Answer
  <2> QED BY <2>1, <2>2
<1>4. ASSUME NEW r \in DOMAIN table, Accounted(r) PROVE Accounted(r)'
  <2>1. table[r].time \in Nat
    BY RowsHaveKeys
  <2>2. table[r].time < floor => table[r].time < floor'
    BY <1>3, <2>1
  <2> QED BY <1>2, <1>4, <2>2 DEF Accounted
<1>5. ASSUME NEW r \in DOMAIN table, table[r].series \in walk.filter,
             table[r].time <= To, r \notin Selected(cursor)
      PROVE  Accounted(r)'
  <2>1. table[r].time \in Nat
    BY RowsHaveKeys
  <2>2. CASE table[r].time < From
    <3>1. table[r].time < floor'
      BY <1>3, <2>1, <2>2
    <3> QED BY <1>2, <3>1 DEF Accounted
  <2>3. CASE ~After(cursor, table[r])
    <3>1. Passed(table[r])
      BY <2>3 DEF After, Passed
    <3> QED BY <1>4, <1>5, <3>1 DEF SkippedOnlyIfExcused
  <2>4. ~(table[r].time < From) => From <= table[r].time
    BY <1>3, <2>1
  <2> QED BY <1>5, <2>2, <2>3, <2>4 DEF Selected
<1>6. ASSUME NEW r \in page PROVE Accounted(r)'
  BY <1>2, <1>6 DEF Accounted
<1> SUFFICES ASSUME NEW r \in DOMAIN table, table[r].series \in walk.filter,
                    Passed(table[r])' \/ (walk'.at = "ended" /\ r <= walk'.seen
                                           /\ table[r].time <= walk'.until)
             PROVE  Accounted(r)'
  BY <1>2 DEF SkippedOnlyIfExcused
<1>7. CASE \E key \in LastKey(page) : walk' = [walk EXCEPT !.cursor = key]
  <2>1. PICK key \in LastKey(page) : walk' = [walk EXCEPT !.cursor = key]
    BY <1>7
  <2>2. /\ key \in Keys
        /\ \E p \in page : key = table[p]
        /\ \A q \in Selected(cursor) \ page : ~Before(table[q], key)
    BY <1>1, LastKeyFacts
  <2>3. walk'.cursor = key /\ walk'.at = "asking"
    BY <2>1 DEF TypeOK
  <2>4. ~Before(key, table[r])
    BY <1>2, <2>3 DEF Passed
  <2>5. table[r].time <= To
    <3>1. key.time \in Nat /\ key.time <= To
      BY <2>2, KeyFields DEF Selected
    <3>2. table[r].time \in Nat
      BY RowsHaveKeys
    <3> QED BY <1>3, <2>4, <3>1, <3>2 DEF Before
  <2>6. CASE r \in Selected(cursor) \ page
    <3>1. table[r] = key
      BY <2>2, <2>4, <2>6, RowsHaveKeys, BeforeIsTotal
    <3> QED BY <1>2, <2>2, <3>1 DEF Accounted
  <2> QED BY <1>5, <1>6, <2>5, <2>6
<1>8. CASE page = Selected(cursor)
           /\ walk' = [walk EXCEPT !.at = "ended", !.seen = Len(table), !.until = To]
  <2>1. walk'.cursor = walk.cursor /\ walk'.until = To
    BY <1>8 DEF TypeOK
  <2>2. CASE Passed(table[r])'
    <3>1. Passed(table[r])
      BY <1>2, <2>1, <2>2 DEF Passed
    <3> QED BY <1>4, <3>1 DEF SkippedOnlyIfExcused
  <2>3. CASE table[r].time <= To
    BY <1>5, <1>6, <1>8, <2>3
  <2> QED BY <2>1, <2>2, <2>3
<1> QED BY <1>1, <1>7, <1>8

\* No step skips a row without an excuse.
LEMMA NextSkipsNothing ==
    TypeOK /\ SkippedOnlyIfExcused /\ [Next]_evars => SkippedOnlyIfExcused'
<1> SUFFICES ASSUME TypeOK, SkippedOnlyIfExcused, [Next]_evars
             PROVE  SkippedOnlyIfExcused'
  OBVIOUS
<1>1. CASE Write
  BY <1>1, WriteSkipsNothing
<1>2. CASE NextPage \/ NextPageWithoutCursor
  BY <1>2, AnswerSkipsNothing DEF NextPage, NextPageWithoutCursor
<1>3. CASE Begin
  <2>1. walk'.cursor = NoCursor /\ walk'.at = "asking"
    BY <1>3 DEF Begin, TypeOK
  <2> QED BY <2>1 DEF SkippedOnlyIfExcused, Passed
<1>4. CASE Refuse
  <2>1. /\ walk'.cursor = walk.cursor /\ walk'.filter = walk.filter
        /\ walk'.at = "refused"
        /\ UNCHANGED <<table, pages, floor, late>>
    BY <1>4 DEF Refuse, writerVars, TypeOK
  <2> QED BY <2>1 DEF SkippedOnlyIfExcused, Passed, Accounted, Collected
<1>5. CASE UNCHANGED evars
  BY <1>5 DEF evars, writerVars, readerVars, SkippedOnlyIfExcused, Passed, Accounted, Collected
<1> QED BY <1>1, <1>2, <1>3, <1>4, <1>5 DEF Next, Write

-----------------------------------------------------------------------------
\* The invariant holds throughout.
LEMMA Inductive == Spec => []IInv
<1>1. Init => IInv
  <2> SUFFICES ASSUME Init PROVE IInv
    OBVIOUS
  <2>1. walk.cursor = NoCursor /\ walk.at = "none"
    BY DEF Init, NoWalk
  <2>2. DOMAIN table = {} /\ DOMAIN pages = {} /\ inserting = NoRow /\ adrift = NoRow
      /\ late = {}
    BY DEF Init
  <2> QED BY <2>1, <2>2, InitTypeOK
          DEF IInv, CursorIsRow, CollectedUpToCursor, RowsInTime, PagesInOrder,
              SkippedOnlyIfExcused, OnlyFaultsExcuse
<1>2. IInv /\ [Next]_evars => IInv'
  BY NextTypeOK, NextCursorIsRow, NextCollectedUpToCursor, NextRowsInTime,
     NextPagesInOrder, NextSkipsNothing, NextOnlyFaults DEF IInv
<1> QED BY <1>1, <1>2, PTL DEF Spec

\* Pages are never longer than asked for, and hold rows of the table.
THEOREM TypeCorrect == Spec => []TypeOK
BY Inductive, PTL DEF IInv

\* QueryPage never duplicates a row across the pages of an export, whatever is
\* inserted while the client goes through them.
THEOREM NoRowTwice == Spec => []PagesInOrder
BY Inductive, PTL DEF IInv

\* Nor does it skip a row the cursor passes or the end leaves behind, except for
\* rows that appear behind the cursor, leave a default window, or equal another.
THEOREM NothingSkipped == Spec => []SkippedOnlyIfExcused
BY Inductive, PTL DEF IInv

\* WriteReading gives rows their time one after the other: equal rows need
\* module-svc's clock to be set back, and a row that appears behind the cursor needs
\* that or an insert that was given up on while the server worked on it.
THEOREM ForwardClockSkipsNothing == Spec => []OnlyFaultsExcuse
BY Inductive, PTL DEF IInv
=============================================================================
