----------------------------- MODULE ModuleList -----------------------------
(***************************************************************************)
(* The modules of module-svc as its handlers edit and list them: the       *)
(* modules table, the list of it that Redis keeps for thirty seconds under *)
(* cache:modules:all, and the statements of concurrent requests between    *)
(* them (service.go, repository.go, cache.go).  What becomes of the nodes  *)
(* of a deleted module is NodeRegistry's.                                  *)
(***************************************************************************)
EXTENDS Naturals

CONSTANTS
    Modules,   \* module ids; a uuid is never used twice
    Names,
    Texts,     \* what a description or a configuration can say
    Handlers,  \* HTTP handlers running concurrently
    MaxFaults, \* bound on reads of the cached list that fail
    NoModule, NoName, NoText

ASSUME ListAssumption ==
    /\ NoModule \notin Modules /\ NoName \notin Names /\ NoText \notin Texts
    /\ MaxFaults \in Nat

VARIABLES
    module,  \* the modules table, and which ids were used
    list,    \* the cached list
    request, \* what each handler is doing
    faults

vars == <<module, list, request, faults>>

NoRow(state) == [state |-> state, name |-> NoName, text |-> NoText]

Row(name, text) == [state |-> "live", name |-> name, text |-> text]

Live(m) == module[m].state = "live"

\* What SELECT ... FROM modules answers.
Listing == [m \in Modules |-> IF Live(m) THEN module[m] ELSE NoRow("gone")]

Nothing == [m \in Modules |-> NoRow("gone")]

\* excuse is history: why the list need not be what the table says.
NoList == [cached |-> FALSE, rows |-> Nothing, excuse |-> "none"]

\* row: what an update is going to write, fields: what it was asked to change, rows:
\* what a listing read.  overtaken is history: another request wrote the module since.
Idle == [at |-> "idle", module |-> NoModule, row |-> NoRow("gone"), fields |-> {},
         rows |-> Nothing, overtaken |-> FALSE]

Dropping == [Idle EXCEPT !.at = "drop"]

Init ==
    /\ module = [m \in Modules |-> NoRow("unused")]
    /\ list = NoList
    /\ request = [h \in Handlers |-> Idle]
    /\ faults = 0

Becomes(h, r) == request' = [request EXCEPT ![h] = r]

\* h goes on as r, having written m.
Overtaking(h, r, m) ==
    request' = [g \in Handlers |->
                   IF g = h THEN r
                   ELSE IF request[g].module = m THEN [request[g] EXCEPT !.overtaken = TRUE]
                   ELSE request[g]]

-----------------------------------------------------------------------------
(* Changing a module *)

\* The unique index on the name.
Free(name, m) == \A l \in Modules \ {m} : Live(l) => module[l].name # name

CreateModule(h, m, name, text) ==
    /\ request[h] = Idle
    /\ module[m].state = "unused" /\ Free(name, m)
    /\ module' = [module EXCEPT ![m] = Row(name, text)]
    /\ Becomes(h, Dropping)
    /\ UNCHANGED <<list, faults>>

Merged(row, fields, name, text) ==
    Row(IF "name" \in fields THEN name ELSE row.name,
        IF "text" \in fields THEN text ELSE row.text)

Updating(m, row, fields) ==
    [Idle EXCEPT !.at = "write", !.module = m, !.row = row, !.fields = fields]

\* Mutant: the row comes from the cached list when there is one.
ReadFromList(h, m, fields, name, text) ==
    LET row == IF list.cached /\ list.rows[m].state = "live" THEN list.rows[m] ELSE module[m] IN
    /\ request[h] = Idle
    /\ Live(m)
    /\ Becomes(h, Updating(m, Merged(row, fields, name, text), fields))
    /\ UNCHANGED <<module, list, faults>>

\* GetModule, and the fields of the body on top of what it read.
ReadModule(h, m, fields, name, text) ==
    /\ request[h] = Idle
    /\ Live(m)
    /\ Becomes(h, Updating(m, Merged(module[m], fields, name, text), fields))
    /\ UNCHANGED <<module, list, faults>>

\* Mutant: without the unique index.
WriteAnyName(h) ==
    LET r == request[h] IN
    /\ r.at = "write"
    /\ module' = [module EXCEPT ![r.module] = IF Live(r.module) THEN r.row ELSE @]
    /\ Overtaking(h, Dropping, r.module)
    /\ UNCHANGED <<list, faults>>

\* Mutant: nobody drops the list.
WriteQuietly(h) ==
    LET r == request[h] IN
    /\ r.at = "write"
    /\ Free(r.row.name, r.module)
    /\ module' = [module EXCEPT ![r.module] = IF Live(r.module) THEN r.row ELSE @]
    /\ Overtaking(h, Idle, r.module)
    /\ UNCHANGED <<list, faults>>

\* All columns of the row, which may be gone by now: no row is no error.
UpdateModule(h) ==
    LET r == request[h] IN
    /\ r.at = "write"
    /\ Free(r.row.name, r.module)
    /\ module' = [module EXCEPT ![r.module] = IF Live(r.module) THEN r.row ELSE @]
    /\ Overtaking(h, Dropping, r.module)
    /\ UNCHANGED <<list, faults>>

\* Without a row nothing is dropped.
DeleteModule(h, m) ==
    /\ request[h] = Idle
    /\ Live(m)
    /\ module' = [module EXCEPT ![m] = NoRow("gone")]
    /\ Overtaking(h, Dropping, m)
    /\ UNCHANGED <<list, faults>>

InvalidateModules(h) ==
    /\ request[h].at = "drop"
    /\ list' = NoList
    /\ Becomes(h, Idle)
    /\ UNCHANGED <<module, faults>>

\* Redis does not answer, or the client is gone and its context with it, or the
\* process is: the list stays, and nobody tries again.
DropFails(h) ==
    /\ request[h].at = "drop"
    /\ list' = IF list.cached THEN [list EXCEPT !.excuse = "undropped"] ELSE list
    /\ Becomes(h, Idle)
    /\ UNCHANGED <<module, faults>>

-----------------------------------------------------------------------------
(* Listing *)

\* A hit answers from the list and changes nothing.  A GET that fails is a miss.
MissList(h) ==
    /\ request[h] = Idle
    /\ IF list.cached THEN faults < MaxFaults /\ faults' = faults + 1 ELSE UNCHANGED faults
    /\ Becomes(h, [Idle EXCEPT !.at = "select"])
    /\ UNCHANGED <<module, list>>

ListModules(h) ==
    /\ request[h].at = "select"
    /\ Becomes(h, [Idle EXCEPT !.at = "put", !.rows = Listing])
    /\ UNCHANGED <<module, list, faults>>

\* Mutant: the answer is kept and stored again later.
CacheAgain(h) ==
    LET rows == request[h].rows IN
    /\ request[h].at = "put"
    /\ list' = [cached |-> TRUE, rows |-> rows,
                excuse |-> IF rows = Listing THEN "none" ELSE "raced"]
    /\ UNCHANGED <<module, request, faults>>

\* The table may have changed since it was read.
SetCachedModules(h) ==
    LET rows == request[h].rows IN
    /\ request[h].at = "put"
    /\ list' = [cached |-> TRUE, rows |-> rows,
                excuse |-> IF rows = Listing THEN "none" ELSE "raced"]
    /\ Becomes(h, Idle)
    /\ UNCHANGED <<module, faults>>

\* A statement before the change fails, or the list cannot be stored.
RequestFails(h) ==
    /\ request[h].at \in {"write", "select", "put"}
    /\ Becomes(h, Idle)
    /\ UNCHANGED <<module, list, faults>>

\* The thirty seconds have passed.
Expire ==
    /\ list.cached
    /\ list' = NoList
    /\ UNCHANGED <<module, request, faults>>

-----------------------------------------------------------------------------
Edit(h) ==
    \/ \E m \in Modules, name \in Names, text \in Texts :
        \/ CreateModule(h, m, name, text)
        \/ \E fields \in SUBSET {"name", "text"} : ReadModule(h, m, fields, name, text)
    \/ UpdateModule(h)
    \/ \E m \in Modules : DeleteModule(h, m)
    \/ InvalidateModules(h)
    \/ DropFails(h)

Next ==
    \/ \E h \in Handlers :
        Edit(h) \/ MissList(h) \/ ListModules(h) \/ SetCachedModules(h) \/ RequestFails(h)
    \/ Expire

Spec == Init /\ [][Next]_vars

\* Time passes: a list that is cached expires.
FairSpec == Spec /\ WF_vars(Expire)

-----------------------------------------------------------------------------
(* Properties *)

Rows == {Row(name, text) : name \in Names, text \in Texts}

Listings == [Modules -> Rows \cup {NoRow("gone")}]

\* With the unique index: no two modules have one name.
TypeOK ==
    /\ module \in [Modules -> Rows \cup {NoRow("unused"), NoRow("gone")}]
    /\ list \in [cached : BOOLEAN, rows : Listings, excuse : {"none", "raced", "undropped"}]
    /\ request \in [Handlers ->
           [at : {"idle", "write", "drop", "select", "put"}, module : Modules \cup {NoModule},
            row : Rows \cup {NoRow("gone")}, fields : SUBSET {"name", "text"},
            rows : Listings, overtaken : BOOLEAN]]
    /\ faults \in 0 .. MaxFaults
    /\ \A l, m \in Modules : Live(l) /\ Live(m) /\ module[l].name = module[m].name => l = m

Coherent == list.cached => list.rows = Listing

DropPending == \E h \in Handlers : request[h].at = "drop"

\* Every handler that changes a module drops the list after it has written
\* (service.go:127-182): while none has yet to do so, the list is what the table says
\* unless the table changed between the read and the put that made it, or a drop
\* failed, of which nobody hears (cache.go:109).
StaleListOnlyIfExcused ==
    Coherent \/ DropPending \/ list.excuse # "none"

\* Whatever left a stale list behind, a listing that raced with a change, a drop that
\* failed or a handler that died before it: once the modules have stopped changing,
\* users are shown what the table says from some moment on.  The list is kept for
\* thirty seconds (service.go:146), and a listing under way can bring an old one back
\* only once.
SettledListIsServed == <>[][FALSE]_(Listing) => <>[]Coherent

\* UpdateModule writes all columns back (repository.go:136): those it was not asked
\* to change still are what they were, unless another request wrote the module
\* since they were read, whose change is lost.
KeepsWhatItWasNotAsked ==
    \A h \in Handlers :
        LET r == request[h] IN
        r.at = "write" /\ ~r.overtaken =>
            /\ Live(r.module)
            /\ "name" \notin r.fields => r.row.name = module[r.module].name
            /\ "text" \notin r.fields => r.row.text = module[r.module].text
=============================================================================
