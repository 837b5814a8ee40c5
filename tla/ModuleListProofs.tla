-------------------------- MODULE ModuleListProofs --------------------------
(***************************************************************************)
(* Proofs about ModuleList for every set of modules, names, texts and      *)
(* handlers.  IInv is the inductive invariant: TypeOK, that an update      *)
(* names a module and the row it will write, and the two safety            *)
(* properties, which are inductive beside these.                           *)
(***************************************************************************)
EXTENDS ModuleList, TLAPS

\* An update under way names a module and a complete row.
UpdatesNameTheirRow ==
    \A h \in Handlers : request[h].at = "write" =>
        request[h].module \in Modules /\ request[h].row \in Rows

IInv ==
    /\ TypeOK
    /\ UpdatesNameTheirRow
    /\ StaleListOnlyIfExcused
    /\ KeepsWhatItWasNotAsked

-----------------------------------------------------------------------------
(* What the operators return *)

\* The part of TypeOK about one request.
Requests ==
    [at : {"idle", "write", "drop", "select", "put"}, module : Modules \cup {NoModule},
     row : Rows \cup {NoRow("gone")}, fields : SUBSET {"name", "text"},
     rows : Listings, overtaken : BOOLEAN]

UniqueNames ==
    \A l, m \in Modules : Live(l) /\ Live(m) /\ module[l].name = module[m].name => l = m

Stored == [Modules -> Rows \cup {NoRow("unused"), NoRow("gone")}]

\* The rows of the table: what they hold when they are live.
LEMMA RowFields ==
    ASSUME NEW r \in Rows
    PROVE  r.state = "live" /\ r.name \in Names /\ r.text \in Texts
<1>1. PICK name \in Names, text \in Texts : r = Row(name, text)
  BY DEF Rows
<1> QED BY <1>1 DEF Row

LEMMA RowInRows ==
    ASSUME NEW name \in Names, NEW text \in Texts
    PROVE  Row(name, text) \in Rows
BY DEF Rows

\* Every listing is a list that can be cached.
LEMMA ListingsAreListings ==
    ASSUME module \in Stored
    PROVE  Listing \in Listings /\ Nothing \in Listings
<1>1. ASSUME NEW m \in Modules, Live(m) PROVE module[m] \in Rows
  BY <1>1 DEF Stored, Live, NoRow
<1> QED BY <1>1 DEF Listing, Listings, Nothing

\* The idle request, and one that is going to drop the list, are requests.
LEMMA IdleIsRequest == Idle \in Requests /\ Dropping \in Requests
<1>1. Nothing \in Listings
  BY DEF Nothing, Listings
<1> QED BY <1>1 DEF Idle, Dropping, Requests

\* A module whose name is taken by no other keeps the names unique.
LEMMA FreeKeepsNamesUnique ==
    ASSUME module \in Stored, UniqueNames,
           NEW m \in Modules, NEW row \in Rows, Free(row.name, m),
           module' = [module EXCEPT ![m] = row]
    PROVE  module' \in Stored /\ UniqueNames'
<1>1. module' \in Stored
  BY DEF Stored
<1>2. ASSUME NEW l \in Modules, NEW k \in Modules, Live(l)', Live(k)',
             module'[l].name = module'[k].name
      PROVE  l = k
  BY <1>2 DEF Stored, UniqueNames, Live, Free
<1> QED BY <1>1, <1>2 DEF UniqueNames

\* Overtaking leaves requests requests.
LEMMA OvertakingType ==
    ASSUME request \in [Handlers -> Requests], NEW h, NEW r \in Requests, NEW m,
           Overtaking(h, r, m)
    PROVE  request' \in [Handlers -> Requests]
<1>1. ASSUME NEW g \in Handlers PROVE [request[g] EXCEPT !.overtaken = TRUE] \in Requests
  BY DEF Requests
<1> QED BY <1>1 DEF Overtaking

LEMMA BecomesType ==
    ASSUME request \in [Handlers -> Requests], NEW h, NEW r \in Requests, Becomes(h, r)
    PROVE  request' \in [Handlers -> Requests]
BY DEF Becomes

\* TypeOK in its parts.
LEMMA TypeOKParts ==
    TypeOK <=> /\ module \in Stored
               /\ list \in [cached : BOOLEAN, rows : Listings,
                            excuse : {"none", "raced", "undropped"}]
               /\ request \in [Handlers -> Requests]
               /\ faults \in 0 .. MaxFaults
               /\ UniqueNames
BY DEF TypeOK, Stored, Requests, UniqueNames

-----------------------------------------------------------------------------
(* Type correctness *)

LEMMA InitTypeOK == Init => TypeOK
<1> SUFFICES ASSUME Init PROVE TypeOK
  OBVIOUS
<1>1. module \in Stored /\ UniqueNames
  BY DEF Init, Stored, UniqueNames, Live, NoRow
<1>2. list \in [cached : BOOLEAN, rows : Listings, excuse : {"none", "raced", "undropped"}]
  BY <1>1, ListingsAreListings DEF Init, NoList
<1>3. request \in [Handlers -> Requests]
  BY IdleIsRequest DEF Init
<1>4. faults \in 0 .. MaxFaults
  BY ListAssumption DEF Init
<1> QED BY <1>1, <1>2, <1>3, <1>4, TypeOKParts

\* No step breaks the types, and the table keeps its names unique.
LEMMA NextTypeOK == TypeOK /\ UpdatesNameTheirRow /\ [Next]_vars => TypeOK'
<1> SUFFICES ASSUME TypeOK, UpdatesNameTheirRow, [Next]_vars PROVE TypeOK'
  OBVIOUS
<1> DEFINE Lists == [cached : BOOLEAN, rows : Listings, excuse : {"none", "raced", "undropped"}]
           Goal == /\ module' \in Stored /\ UniqueNames'
                   /\ list' \in Lists
                   /\ request' \in [Handlers -> Requests]
                   /\ faults' \in 0 .. MaxFaults
<1>t. /\ module \in Stored /\ UniqueNames
      /\ list \in Lists
      /\ request \in [Handlers -> Requests]
      /\ faults \in 0 .. MaxFaults
  BY TypeOKParts
<1>u. ASSUME UNCHANGED module PROVE module' \in Stored /\ UniqueNames'
  BY <1>t, <1>u DEF UniqueNames, Live
<1>l. Listing \in Listings /\ NoList \in Lists
  BY <1>t, ListingsAreListings DEF NoList
<1>1. ASSUME NEW h \in Handlers, Edit(h) PROVE Goal
  <2>1. ASSUME NEW m \in Modules, NEW name \in Names, NEW text \in Texts,
               CreateModule(h, m, name, text)
        PROVE  Goal
    <3>1. Row(name, text) \in Rows /\ Row(name, text).name = name
      BY RowInRows DEF Row
    <3>2. module' \in Stored /\ UniqueNames'
      BY <2>1, <3>1, <1>t, FreeKeepsNamesUnique DEF CreateModule
    <3>3. request' \in [Handlers -> Requests]
      BY <2>1, <1>t, IdleIsRequest, BecomesType DEF CreateModule
    <3> QED BY <2>1, <3>2, <3>3, <1>t DEF CreateModule
  <2>2. ASSUME NEW m \in Modules, NEW name \in Names, NEW text \in Texts,
               NEW fields \in SUBSET {"name", "text"}, ReadModule(h, m, fields, name, text)
        PROVE  Goal
    <3>1. module[m] \in Rows
      BY <2>2, <1>t DEF ReadModule, Stored, Live, NoRow
    <3>2. Merged(module[m], fields, name, text) \in Rows
      BY <3>1, RowFields, RowInRows DEF Merged
    <3>3. Updating(m, Merged(module[m], fields, name, text), fields) \in Requests
      BY <3>2, IdleIsRequest DEF Updating, Idle, Requests
    <3>4. request' \in [Handlers -> Requests]
      BY <2>2, <3>3, <1>t, BecomesType DEF ReadModule
    <3> QED BY <2>2, <3>4, <1>t, <1>u DEF ReadModule
  <2>3. CASE UpdateModule(h)
    <3> DEFINE m == request[h].module
               row == request[h].row
    <3>1. m \in Modules /\ row \in Rows /\ Free(row.name, m)
      BY <2>3 DEF UpdateModule, UpdatesNameTheirRow
    <3>2. module' \in Stored /\ UniqueNames'
      <4>1. CASE Live(m)
        BY <2>3, <3>1, <4>1, <1>t, FreeKeepsNamesUnique DEF UpdateModule
      <4>2. CASE ~Live(m)
        <5>1. module' = module
          BY <2>3, <4>2, <3>1, <1>t DEF UpdateModule, Stored
        <5> QED BY <5>1, <1>u
      <4> QED BY <4>1, <4>2
    <3>3. request' \in [Handlers -> Requests]
      BY <2>3, <1>t, IdleIsRequest, OvertakingType DEF UpdateModule
    <3> QED BY <2>3, <3>2, <3>3, <1>t DEF UpdateModule
  <2>4. ASSUME NEW m \in Modules, DeleteModule(h, m) PROVE Goal
    <3>1. module' = [module EXCEPT ![m] = NoRow("gone")]
      BY <2>4 DEF DeleteModule
    <3>2. module' \in Stored
      BY <3>1, <1>t DEF Stored
    <3>3. \A l \in Modules : Live(l)' => Live(l) /\ module'[l] = module[l]
      BY <3>1, <1>t DEF Stored, Live, NoRow
    <3>4. UniqueNames'
      BY <3>3, <1>t DEF UniqueNames
    <3>5. request' \in [Handlers -> Requests]
      BY <2>4, <1>t, IdleIsRequest, OvertakingType DEF DeleteModule
    <3> QED BY <2>4, <3>2, <3>4, <3>5, <1>t DEF DeleteModule
  <2>5. CASE InvalidateModules(h)
    BY <2>5, <1>t, <1>u, <1>l, IdleIsRequest, BecomesType DEF InvalidateModules
  <2>6. CASE DropFails(h)
    <3>1. list' \in Lists
      BY <2>6, <1>t DEF DropFails
    <3> QED BY <2>6, <3>1, <1>t, <1>u, IdleIsRequest, BecomesType DEF DropFails
  <2> QED BY <1>1, <2>1, <2>2, <2>3, <2>4, <2>5, <2>6 DEF Edit
<1>2. ASSUME NEW h \in Handlers, MissList(h) PROVE Goal
  <2>1. [Idle EXCEPT !.at = "select"] \in Requests
    BY IdleIsRequest DEF Requests
  <2>2. faults' \in 0 .. MaxFaults
    BY <1>2, <1>t, ListAssumption DEF MissList
  <2> QED BY <1>2, <2>1, <2>2, <1>t, <1>u, BecomesType DEF MissList
<1>3. ASSUME NEW h \in Handlers, ListModules(h) PROVE Goal
  <2>1. [Idle EXCEPT !.at = "put", !.rows = Listing] \in Requests
    BY IdleIsRequest, <1>l DEF Requests
  <2> QED BY <1>3, <2>1, <1>t, <1>u, BecomesType DEF ListModules
<1>4. ASSUME NEW h \in Handlers, SetCachedModules(h) PROVE Goal
  <2>1. request[h].rows \in Listings
    BY <1>t DEF Requests
  <2>2. list' \in Lists
    BY <1>4, <2>1 DEF SetCachedModules
  <2> QED BY <1>4, <2>2, <1>t, <1>u, IdleIsRequest, BecomesType DEF SetCachedModules
<1>5. ASSUME NEW h \in Handlers, RequestFails(h) PROVE Goal
  BY <1>5, <1>t, <1>u, IdleIsRequest, BecomesType DEF RequestFails
<1>6. ASSUME Expire PROVE Goal
  BY <1>6, <1>t, <1>u, <1>l DEF Expire
<1>7. ASSUME UNCHANGED vars PROVE Goal
  BY <1>7, <1>t, <1>u DEF vars
<1>8. Goal
  BY <1>1, <1>2, <1>3, <1>4, <1>5, <1>6, <1>7 DEF Next
<1>9. TypeOK' <=> Goal
  BY DEF TypeOK, Stored, Requests, UniqueNames, Rows, Listings
<1> QED BY <1>8, <1>9

-----------------------------------------------------------------------------
(* Updates *)

\* What a step makes of one request: it leaves it, marks it, or its handler takes it on.
LEMMA OtherRequests ==
    ASSUME NEW h \in Handlers, NEW r, NEW m, TypeOK,
           Becomes(h, r) \/ Overtaking(h, r, m),
           NEW g \in Handlers, g # h
    PROVE  /\ request'[g].at = request[g].at
           /\ request'[g].module = request[g].module
           /\ request'[g].row = request[g].row
           /\ request'[g].fields = request[g].fields
           /\ request[g].overtaken => request'[g].overtaken
           /\ Overtaking(h, r, m) /\ request[g].module = m => request'[g].overtaken
<1>1. request \in [Handlers -> Requests]
  BY TypeOKParts
<1>2. request[g] \in Requests
  BY <1>1
<1> QED BY <1>1, <1>2 DEF Becomes, Overtaking, Requests

\* What it makes of its own.
LEMMA OwnRequest ==
    ASSUME NEW h \in Handlers, NEW r, NEW m, TypeOK,
           Becomes(h, r) \/ Overtaking(h, r, m)
    PROVE  request'[h] = r
<1>1. request \in [Handlers -> Requests]
  BY TypeOKParts
<1> QED BY <1>1 DEF Becomes, Overtaking

\* What UpdatesNameTheirRow and KeepsWhatItWasNotAsked say of one handler.
UpdateSound(g) ==
    LET r == request[g] IN
    r.at = "write" =>
        /\ r.module \in Modules /\ r.row \in Rows
        /\ ~r.overtaken =>
            /\ Live(r.module)
            /\ "name" \notin r.fields => r.row.name = module[r.module].name
            /\ "text" \notin r.fields => r.row.text = module[r.module].text

LEMMA SoundUpdates ==
    UpdatesNameTheirRow /\ KeepsWhatItWasNotAsked <=> \A g \in Handlers : UpdateSound(g)
BY DEF UpdatesNameTheirRow, KeepsWhatItWasNotAsked, UpdateSound

\* A step changes no module that an update of another handler is about, or it
\* overtakes that update, or the module was not there.
LEMMA OthersStaySound ==
    ASSUME NEW h \in Handlers, NEW r, NEW m, TypeOK,
           Becomes(h, r) \/ Overtaking(h, r, m),
           \/ UNCHANGED module
           \/ /\ \E row : module' = [module EXCEPT ![m] = row]
              /\ Overtaking(h, r, m) \/ ~Live(m),
           NEW g \in Handlers, g # h, UpdateSound(g)
    PROVE  UpdateSound(g)'
<1> DEFINE l == request[g].module
<1>1. /\ request'[g].at = request[g].at
      /\ request'[g].module = l
      /\ request'[g].row = request[g].row
      /\ request'[g].fields = request[g].fields
      /\ request[g].overtaken => request'[g].overtaken
      /\ Overtaking(h, r, m) /\ l = m => request'[g].overtaken
  BY OtherRequests
<1>2. SUFFICES ASSUME request[g].at = "write", ~request'[g].overtaken
               PROVE  /\ module'[l].state = "live"
                      /\ "name" \notin request[g].fields => request[g].row.name = module'[l].name
                      /\ "text" \notin request[g].fields => request[g].row.text = module'[l].text
  BY <1>1 DEF UpdateSound, Live
<1>3. /\ Live(l) /\ l \in Modules
      /\ "name" \notin request[g].fields => request[g].row.name = module[l].name
      /\ "text" \notin request[g].fields => request[g].row.text = module[l].text
  BY <1>1, <1>2 DEF UpdateSound
<1>4. module'[l] = module[l]
  <2>1. CASE UNCHANGED module
    BY <2>1
  <2>2. CASE /\ \E row : module' = [module EXCEPT ![m] = row]
             /\ Overtaking(h, r, m) \/ ~Live(m)
    <3>1. l # m
      BY <2>2, <1>1, <1>2, <1>3
    <3> QED BY <2>2, <3>1, <1>3, TypeOKParts DEF Stored
  <2> QED BY <2>1, <2>2
<1> QED BY <1>3, <1>4 DEF Live

-----------------------------------------------------------------------------
(* The invariant *)

LEMMA InitIInv == Init => IInv
<1> SUFFICES ASSUME Init PROVE IInv
  OBVIOUS
<1>1. UpdatesNameTheirRow /\ KeepsWhatItWasNotAsked
  BY DEF Init, UpdatesNameTheirRow, KeepsWhatItWasNotAsked, Idle
<1>2. StaleListOnlyIfExcused
  BY DEF Init, StaleListOnlyIfExcused, Coherent, NoList
<1> QED BY <1>1, <1>2, InitTypeOK DEF IInv

\* No step makes an update unsound.
LEMMA NextSound ==
    ASSUME IInv, [Next]_vars, NEW g \in Handlers
    PROVE  UpdateSound(g)'
<1>i. TypeOK /\ UpdateSound(g)
  BY SoundUpdates DEF IInv
<1>n. Idle.at # "write" /\ Dropping.at # "write"
  BY DEF Idle, Dropping
<1>u. ASSUME UNCHANGED <<module, request>> PROVE UpdateSound(g)'
  BY <1>u, <1>i DEF UpdateSound, Live
\* A handler that takes on something else than an update, and leaves the table alone.
<1>q. ASSUME NEW h \in Handlers, NEW r, Becomes(h, r), r.at # "write", UNCHANGED module
      PROVE  UpdateSound(g)'
  <2>1. CASE g = h
    BY <2>1, <1>q, <1>i, OwnRequest DEF UpdateSound
  <2>2. CASE g # h
    BY <2>2, <1>q, <1>i, OthersStaySound
  <2> QED BY <2>1, <2>2
\* A handler that writes m.
<1>w. ASSUME NEW h \in Handlers, NEW m, Becomes(h, Dropping) \/ Overtaking(h, Dropping, m),
             \E row : module' = [module EXCEPT ![m] = row],
             Overtaking(h, Dropping, m) \/ ~Live(m)
      PROVE  UpdateSound(g)'
  <2>1. CASE g = h
    BY <2>1, <1>w, <1>i, <1>n, OwnRequest DEF UpdateSound
  <2>2. CASE g # h
    BY <2>2, <1>w, <1>i, OthersStaySound
  <2> QED BY <2>1, <2>2
<1>1. ASSUME NEW h \in Handlers, Edit(h) PROVE UpdateSound(g)'
  <2>1. ASSUME NEW m \in Modules, NEW name \in Names, NEW text \in Texts,
               CreateModule(h, m, name, text)
        PROVE  UpdateSound(g)'
    BY <2>1, <1>w DEF CreateModule, Live
  <2>2. ASSUME NEW m \in Modules, NEW name \in Names, NEW text \in Texts,
               NEW fields \in SUBSET {"name", "text"}, ReadModule(h, m, fields, name, text)
        PROVE  UpdateSound(g)'
    <3> DEFINE row == Merged(module[m], fields, name, text)
               r == Updating(m, row, fields)
    <3>1. Becomes(h, r) /\ UNCHANGED module /\ Live(m)
      BY <2>2 DEF ReadModule
    <3>2. CASE g = h
      <4>1. request'[g] = r
        BY <3>1, <3>2, <1>i, OwnRequest
      <4>2. module[m] \in Rows
        BY <3>1, TypeOKParts, <1>i DEF Stored, Live, NoRow
      <4>3. row \in Rows
        BY <4>2, RowFields, RowInRows DEF Merged
      <4>4. /\ "name" \notin fields => row.name = module[m].name
            /\ "text" \notin fields => row.text = module[m].text
        BY DEF Merged, Row
      <4>5. r.module = m /\ r.row = row /\ r.fields = fields
        BY DEF Updating, Idle
      <4> HIDE DEF row, r
      <4> QED BY <3>1, <4>1, <4>3, <4>4, <4>5 DEF UpdateSound, Live
    <3>3. CASE g # h
      BY <3>1, <3>3, <1>i, OthersStaySound
    <3> QED BY <3>2, <3>3
  <2>3. CASE UpdateModule(h)
    BY <2>3, <1>w DEF UpdateModule
  <2>4. ASSUME NEW m \in Modules, DeleteModule(h, m) PROVE UpdateSound(g)'
    BY <2>4, <1>w DEF DeleteModule
  <2>5. CASE InvalidateModules(h)
    BY <2>5, <1>q, <1>n DEF InvalidateModules
  <2>6. CASE DropFails(h)
    BY <2>6, <1>q, <1>n DEF DropFails
  <2> QED BY <1>1, <2>1, <2>2, <2>3, <2>4, <2>5, <2>6 DEF Edit
<1>2. ASSUME NEW h \in Handlers, MissList(h) PROVE UpdateSound(g)'
  <2>1. [Idle EXCEPT !.at = "select"].at # "write"
    BY DEF Idle
  <2> QED BY <1>2, <2>1, <1>q DEF MissList
<1>3. ASSUME NEW h \in Handlers, ListModules(h) PROVE UpdateSound(g)'
  <2>1. [Idle EXCEPT !.at = "put", !.rows = Listing].at # "write"
    BY DEF Idle
  <2> QED BY <1>3, <2>1, <1>q DEF ListModules
<1>4. ASSUME NEW h \in Handlers, SetCachedModules(h) PROVE UpdateSound(g)'
  BY <1>4, <1>q, <1>n DEF SetCachedModules
<1>5. ASSUME NEW h \in Handlers, RequestFails(h) PROVE UpdateSound(g)'
  BY <1>5, <1>q, <1>n DEF RequestFails
<1>6. CASE Expire
  BY <1>6, <1>u DEF Expire
<1>7. CASE UNCHANGED vars
  BY <1>7, <1>u DEF vars
<1> QED BY <1>1, <1>2, <1>3, <1>4, <1>5, <1>6, <1>7 DEF Next

\* No step leaves a stale list without an excuse or a drop to come.
LEMMA NextStaleListOnlyIfExcused ==
    ASSUME TypeOK, StaleListOnlyIfExcused, [Next]_vars
    PROVE  StaleListOnlyIfExcused'
<1> USE DEF StaleListOnlyIfExcused
<1>t. request \in [Handlers -> Requests]
  BY TypeOKParts
\* A handler that was not going to drop the list leaves it and the table alone.
<1>q. ASSUME NEW h \in Handlers, request[h].at # "drop", NEW r, Becomes(h, r),
             UNCHANGED <<module, list>>
      PROVE  StaleListOnlyIfExcused'
  <2>1. DropPending => DropPending'
    BY <1>q, <1>t DEF DropPending, Becomes
  <2>2. Coherent => Coherent'
    BY <1>q DEF Coherent, Listing, Live
  <2> QED BY <1>q, <2>1, <2>2
\* A handler that has written is going to drop it.
<1>w. ASSUME NEW h \in Handlers, NEW m,
             Becomes(h, Dropping) \/ Overtaking(h, Dropping, m)
      PROVE  StaleListOnlyIfExcused'
  <2>1. request'[h] = Dropping
    BY <1>w, OwnRequest
  <2> QED BY <2>1 DEF DropPending, Dropping, Idle
<1>n. ASSUME list' = NoList PROVE StaleListOnlyIfExcused'
  BY <1>n DEF Coherent, NoList
<1>i. Idle.at # "drop"
  BY DEF Idle
<1>1. ASSUME NEW h \in Handlers, Edit(h) PROVE StaleListOnlyIfExcused'
  <2>1. ASSUME NEW m \in Modules, NEW name \in Names, NEW text \in Texts,
               CreateModule(h, m, name, text)
        PROVE  StaleListOnlyIfExcused'
    BY <2>1, <1>w DEF CreateModule
  <2>2. ASSUME NEW m \in Modules, NEW name \in Names, NEW text \in Texts,
               NEW fields \in SUBSET {"name", "text"}, ReadModule(h, m, fields, name, text)
        PROVE  StaleListOnlyIfExcused'
    BY <2>2, <1>q, <1>i DEF ReadModule
  <2>3. CASE UpdateModule(h)
    BY <2>3, <1>w DEF UpdateModule
  <2>4. ASSUME NEW m \in Modules, DeleteModule(h, m) PROVE StaleListOnlyIfExcused'
    BY <2>4, <1>w DEF DeleteModule
  <2>5. CASE InvalidateModules(h)
    BY <2>5, <1>n DEF InvalidateModules
  <2>6. CASE DropFails(h)
    <3>1. CASE list.cached
      <4>1. list \in [cached : BOOLEAN, rows : Listings,
                      excuse : {"none", "raced", "undropped"}]
        BY TypeOKParts
      <4>2. list'.excuse = "undropped"
        BY <2>6, <3>1, <4>1 DEF DropFails
      <4> QED BY <4>2
    <3>2. CASE ~list.cached
      BY <2>6, <3>2 DEF DropFails, Coherent
    <3> QED BY <3>1, <3>2
  <2> QED BY <1>1, <2>1, <2>2, <2>3, <2>4, <2>5, <2>6 DEF Edit
<1>2. ASSUME NEW h \in Handlers, MissList(h) PROVE StaleListOnlyIfExcused'
  BY <1>2, <1>q, <1>i DEF MissList
<1>3. ASSUME NEW h \in Handlers, ListModules(h) PROVE StaleListOnlyIfExcused'
  BY <1>3, <1>q DEF ListModules
<1>4. ASSUME NEW h \in Handlers, SetCachedModules(h) PROVE StaleListOnlyIfExcused'
  <2>1. CASE request[h].rows = Listing
    BY <1>4, <2>1 DEF SetCachedModules, Coherent, Listing, Live
  <2>2. CASE request[h].rows # Listing
    BY <1>4, <2>2 DEF SetCachedModules
  <2> QED BY <2>1, <2>2
<1>5. ASSUME NEW h \in Handlers, RequestFails(h) PROVE StaleListOnlyIfExcused'
  BY <1>5, <1>q DEF RequestFails
<1>6. CASE Expire
  BY <1>6, <1>n DEF Expire
<1>7. CASE UNCHANGED vars
  BY <1>7 DEF vars, Coherent, DropPending, Listing, Live
<1> QED BY <1>1, <1>2, <1>3, <1>4, <1>5, <1>6, <1>7 DEF Next

\* What the specification keeps true for every value of the constants.
LEMMA Invariance == Spec => []IInv
<1>1. IInv /\ [Next]_vars => IInv'
  <2> SUFFICES ASSUME IInv, [Next]_vars PROVE IInv'
    OBVIOUS
  <2>1. TypeOK'
    BY NextTypeOK DEF IInv
  <2>2. \A g \in Handlers : UpdateSound(g)'
    BY NextSound
  <2>3. UpdatesNameTheirRow' /\ KeepsWhatItWasNotAsked'
    BY <2>2 DEF UpdatesNameTheirRow, KeepsWhatItWasNotAsked, UpdateSound
  <2>4. StaleListOnlyIfExcused'
    BY NextStaleListOnlyIfExcused DEF IInv
  <2> QED BY <2>1, <2>3, <2>4 DEF IInv
<1> QED BY <1>1, InitIInv, PTL DEF Spec

-----------------------------------------------------------------------------
(* The theorems *)

\* Type correctness, with names that stay unique although an update writes a name
\* it merged into a row it read earlier (repository.go:119-141, migrate.go:19).
THEOREM TypeCorrect == Spec => []TypeOK
BY Invariance, PTL DEF IInv

\* However many handlers list and edit modules: where no handler has a drop to do,
\* the cached list is stale only after a raced read or a failed drop
\* (service.go:127-182, cache.go:81-114).
THEOREM OnlyExcusedListsAreStale == Spec => []StaleListOnlyIfExcused
BY Invariance, PTL DEF IInv

\* However many handlers edit a module: an update writes back what it found of the
\* columns it was not asked to change, or it was overtaken
\* (repository.go:119-141).
THEOREM UpdatesKeepTheRest == Spec => []KeepsWhatItWasNotAsked
BY Invariance, PTL DEF IInv
=============================================================================
