----------------------------- MODULE TagMapping -----------------------------
(***************************************************************************)
(* The node_tags rows of one node in module-svc, and the requests that     *)
(* change them: which telemetry key becomes which metric (sensor tags) and *)
(* which outputs can be driven (actuator tags).  The statements of         *)
(* concurrent requests interleave, no request runs in a transaction.       *)
(*                                                                         *)
(* Every statement names the node, so the tags of two nodes do not touch   *)
(* as long as clients send the ids of the node's own tags: an upsert finds *)
(* a row by its id whatever its node.                                      *)
(* A name stands for all that a request can change of a tag: its name,     *)
(* unit, type, whether it is enabled.  Each row of a body has its own.     *)
(***************************************************************************)
EXTENDS Naturals, Sequences

CONSTANTS
    Ids,      \* ids of tags; a uuid is generated once
    Keys,     \* what the firmware calls its readings and outputs
    Names,    \* what a request wants its tags to be called
    Handlers, \* HTTP handlers running concurrently
    Mappings, \* the lists of rows a client may send as a whole mapping
    NoId, NoKey, NoName

Rows == [id : Ids \cup {NoId}, key : Keys, name : Names]

ASSUME TagAssumption ==
    /\ NoId \notin Ids /\ NoKey \notin Keys /\ NoName \notin Names
    /\ Mappings \subseteq Seq(Rows)

VARIABLES
    tag,        \* the rows of node_tags
    registered, \* whether the nodes table has the node
    request     \* what each handler is doing

vars == <<tag, registered, request>>

\* "unused": no client has seen the id; "gone": one may still send it.
NoTag(state) == [state |-> state, kind |-> "none", key |-> NoKey, name |-> NoName]

Tag(kind, key, name) == [state |-> "live", kind |-> kind, key |-> key, name |-> name]

\* asked: the rows of the body, written: how many of them are.  overtaken is history:
\* another request changed the tags or the node since the first statement, and was
\* not the same replacement sent twice.
Idle == [op |-> "none", asked |-> <<>>, written |-> 0, id |-> NoId, overtaken |-> FALSE]

Init ==
    /\ tag = [i \in Ids |-> NoTag("unused")]
    /\ registered = FALSE
    /\ request = [h \in Handlers |-> Idle]

Live == {i \in Ids : tag[i].state = "live"}

Sensors == {i \in Live : tag[i].kind = "sensor"}

Actuators == {i \in Live : tag[i].kind = "actuator"}

\* Ids a page can have been shown, however long ago.
Seen == {i \in Ids : tag[i].state # "unused"}

\* r, which has cleared what there was, replaces the mapping by the body q came with.
Twins(q, r) == q.op \in {"save", "clear"} /\ r.op = "save" /\ q.asked = r.asked

\* h goes on as r, and its statement overtakes the other requests but its twins.
Overtaking(h, r) ==
    request' = [g \in Handlers |->
                   IF g = h THEN r
                   ELSE IF request[g] = Idle \/ Twins(request[g], r) THEN request[g]
                   ELSE [request[g] EXCEPT !.overtaken = TRUE]]

\* h stops halfway: its twins cannot count on the rows it has not written.
Abandoning(h) ==
    request' = [g \in Handlers |->
                   IF g = h THEN Idle
                   ELSE IF Twins(request[g], request[h])
                   THEN [request[g] EXCEPT !.overtaken = TRUE]
                   ELSE request[g]]

Becomes(h, r) == request' = [request EXCEPT ![h] = r]

-----------------------------------------------------------------------------
(* UpsertNodeTag *)

\* The rows the unique index uq_node_source_kind finds for the key.
Holders(kind, key) == {i \in Live : tag[i].kind = kind /\ tag[i].key = key}

\* Mutant: ON DUPLICATE KEY sees the primary key only.
UpsertedById(i, kind, key, name) ==
    [tag EXCEPT ![i] = IF i \in Live THEN [@ EXCEPT !.name = name] ELSE Tag(kind, key, name)]

\* INSERT ... ON DUPLICATE KEY UPDATE: the primary key is looked up first, and
\* neither the key nor the kind of the row found is written.
Upserted(i, kind, key, name) ==
    IF i \in Live THEN [tag EXCEPT ![i].name = name]
    ELSE IF Holders(kind, key) # {}
    THEN [j \in Ids |-> IF j \in Holders(kind, key) THEN [tag[j] EXCEPT !.name = name]
                        ELSE tag[j]]
    ELSE [tag EXCEPT ![i] = Tag(kind, key, name)]

\* A row without an id gets a new one.
Carried(id) == IF id = NoId THEN Ids \ Seen ELSE {id}

-----------------------------------------------------------------------------
(* SaveNodeTags: the mapping as a whole *)

KnownRows(rows) == \A k \in DOMAIN rows : rows[k].id \in Seen \cup {NoId}

Named(rows) == {rows[k].id : k \in DOMAIN rows} \cap Ids

\* Mutant: without the condition on kind.
SweptAll(rows) == [i \in Ids |-> IF i \in Live \ Named(rows) THEN NoTag("gone") ELSE tag[i]]

\* DeleteSensorTagsExcept.
Swept(rows) == [i \in Ids |-> IF i \in Sensors \ Named(rows) THEN NoTag("gone") ELSE tag[i]]

Saving(rows) == [Idle EXCEPT !.op = "save", !.asked = rows]

SaveNodeTags(h, rows) ==
    /\ request[h] = Idle
    /\ rows \in Mappings /\ KnownRows(rows) /\ Named(rows) # {}
    /\ tag' = Swept(rows)
    /\ Overtaking(h, Saving(rows))
    /\ UNCHANGED registered

\* No row names a tag: refused where ListNodeTags finds a sensor tag.
SaveWithoutIds(h, rows) ==
    /\ request[h] = Idle
    /\ rows \in Mappings /\ Named(rows) = {}
    /\ Sensors = {}
    /\ Becomes(h, [Saving(rows) EXCEPT !.op = "clear"])
    /\ UNCHANGED <<tag, registered>>

\* DeleteSensorTagsExcept after that.
Clear(h) ==
    /\ request[h].op = "clear"
    /\ tag' = Swept(request[h].asked)
    /\ Overtaking(h, [request[h] EXCEPT !.op = "save"])
    /\ UNCHANGED registered

\* Mutant: the last row of the body first.
WriteBackwards(h) ==
    LET q == request[h] IN
    /\ q.op = "save" /\ q.written < Len(q.asked)
    /\ LET r == q.asked[Len(q.asked) - q.written]
       IN  \E i \in Carried(r.id) : tag' = Upserted(i, "sensor", r.key, r.name)
    /\ Overtaking(h, [q EXCEPT !.written = @ + 1])
    /\ UNCHANGED registered

\* The rows are written one by one, in the order of the body.
WriteRow(h) ==
    LET q == request[h] IN
    /\ q.op = "save" /\ q.written < Len(q.asked)
    /\ LET r == q.asked[q.written + 1]
       IN  \E i \in Carried(r.id) : tag' = Upserted(i, "sensor", r.key, r.name)
    /\ Overtaking(h, [q EXCEPT !.written = @ + 1])
    /\ UNCHANGED registered

Reply(h) ==
    /\ request[h].op = "save" /\ request[h].written = Len(request[h].asked)
    /\ Becomes(h, Idle)
    /\ UNCHANGED <<tag, registered>>

-----------------------------------------------------------------------------
(* One tag at a time *)

\* Neither this nor DeleteNodeTag asks whether the node exists.
SaveNodeTag(h, r) ==
    /\ request[h] = Idle
    /\ KnownRows(<<r>>)
    /\ \E i \in Carried(r.id) : tag' = Upserted(i, "sensor", r.key, r.name)
    /\ Overtaking(h, Idle)
    /\ UNCHANGED registered

\* Whatever its kind.
Removed(i) == [tag EXCEPT ![i] = NoTag("gone")]

DeleteNodeTag(h, i) ==
    /\ request[h] = Idle
    /\ i \in Seen
    /\ tag' = Removed(i)
    /\ Overtaking(h, Idle)
    /\ UNCHANGED registered

Creating(key, name) ==
    [Idle EXCEPT !.op = "create", !.asked = <<[id |-> NoId, key |-> key, name |-> name]>>]

\* Mutant: nodeExists is not asked.
CreateForAnyNode(h, key, name) ==
    /\ request[h] = Idle
    /\ Becomes(h, Creating(key, name))
    /\ UNCHANGED <<tag, registered>>

\* nodeExists; the id of the body is not read.
CreateActuatorTag(h, key, name) ==
    /\ request[h] = Idle
    /\ registered
    /\ Becomes(h, Creating(key, name))
    /\ UNCHANGED <<tag, registered>>

\* The answer carries the generated id, also when the row of the key kept its own.
WriteActuator(h) ==
    /\ request[h].op = "create"
    /\ \E i \in Ids \ Seen :
        LET r == request[h].asked[1] IN
        tag' = [Upserted(i, "actuator", r.key, r.name)
                EXCEPT ![i].state = IF @ = "unused" THEN "gone" ELSE @]
    /\ Overtaking(h, Idle)
    /\ UNCHANGED registered

\* nodeExists, then DeleteNodeTag of the repository, whatever the kind.
DeleteActuatorTag(h, i) ==
    /\ request[h] = Idle
    /\ registered /\ i \in Seen
    /\ Becomes(h, [Idle EXCEPT !.op = "delete", !.id = i])
    /\ UNCHANGED <<tag, registered>>

RemoveActuator(h) ==
    /\ request[h].op = "delete"
    /\ tag' = Removed(request[h].id)
    /\ Overtaking(h, Idle)
    /\ UNCHANGED registered

\* The handler answers 500; what it wrote stays written.
RequestFails(h) ==
    /\ request[h] # Idle
    /\ Abandoning(h)
    /\ UNCHANGED <<tag, registered>>

-----------------------------------------------------------------------------
(* The node *)

RegisterNode ==
    /\ ~registered
    /\ registered' = TRUE
    /\ UNCHANGED <<tag, request>>

\* The tags stay, and are the node's again when it registers again.
DeleteNode(h) ==
    /\ request[h] = Idle
    /\ registered
    /\ registered' = FALSE
    /\ Overtaking(h, Idle)
    /\ UNCHANGED tag

-----------------------------------------------------------------------------
SensorRequest(h) ==
    \/ \E rows \in Mappings : SaveNodeTags(h, rows) \/ SaveWithoutIds(h, rows)
    \/ Clear(h) \/ WriteRow(h) \/ Reply(h)
    \/ \E r \in Rows : SaveNodeTag(h, r)
    \/ \E i \in Ids : DeleteNodeTag(h, i)

ActuatorRequest(h) ==
    \/ \E key \in Keys, name \in Names : CreateActuatorTag(h, key, name)
    \/ WriteActuator(h) \/ RemoveActuator(h)
    \/ \E i \in Ids : DeleteActuatorTag(h, i)

Next ==
    \/ \E h \in Handlers : SensorRequest(h) \/ ActuatorRequest(h)
                           \/ RequestFails(h) \/ DeleteNode(h)
    \/ RegisterNode

Spec == Init /\ [][Next]_vars

-----------------------------------------------------------------------------
(* Properties *)

Tags == {NoTag("unused"), NoTag("gone")}
        \cup {Tag(kind, key, name) : kind \in {"sensor", "actuator"}, key \in Keys, name \in Names}

\* With the unique index: a node has one tag of a kind for a key.
TypeOK ==
    /\ tag \in [Ids -> Tags]
    /\ registered \in BOOLEAN
    /\ request \in [Handlers ->
           [op : {"none", "save", "clear", "create", "delete"},
            asked : Seq(Rows), written : Nat, id : Ids \cup {NoId}, overtaken : BOOLEAN]]
    /\ \A i, j \in Live : tag[i].kind = tag[j].kind /\ tag[i].key = tag[j].key => i = j

Meets(i, r) == i = r.id \/ (i \in Sensors /\ tag[i].key = r.key)

\* Some tag of the k-th row carries what the row says, or what a later row of the body
\* says of the same tag.
Kept(rows, k) ==
    \E i \in Live, l \in k .. Len(rows) :
        Meets(i, rows[k]) /\ Meets(i, rows[l]) /\ tag[i].name = rows[l].name

\* The k-th row is one that the request or a twin of it has still to write.
Owed(q, k) == \E g \in Handlers : Twins(q, request[g]) /\ request[g].written < k

\* service.go:411, SaveNodeTags "replaces the full tag-mapping set for a node (idempotent
\* attach)": when its last row is written, and no different request wrote meanwhile, every
\* sensor tag of the node is one the body names by id or by key, and every row of the body
\* has a tag, that of its id or of its key, with the contents of that row or of a later one
\* for the same tag.  So it is whatever stale ids and duplicate keys the rows have, although
\* a statement updates a row it finds by id without looking at its key
\* (repository.go:312-318), and also when the same body is sent again before it is
\* answered: two replacements that clear and write in any order leave the mapping
\* both asked for, once neither has a row left.
ReplacementHolds ==
    \A h \in Handlers :
        LET q == request[h]
            rows == q.asked
        IN  q.op = "save" /\ ~q.overtaken /\ (\A k \in DOMAIN rows : ~Owed(q, k)) =>
                /\ \A i \in Sensors : \E k \in DOMAIN rows : Meets(i, rows[k])
                /\ \A k \in DOMAIN rows : Kept(rows, k)

\* service.go:414-415, "actuator tags are managed separately and left untouched": what a
\* replacement of the sensor tags does to an actuator, in any of its statements, is at
\* most to rename it, when a row carries its id.
ActuatorsSpared ==
    [][\A h \in Handlers :
        LET r == request[h]
            s == request'[h]
        IN (r.op = "save" \/ s.op = "save") /\ <<r.op, r.written>> # <<s.op, s.written>> =>
            /\ Actuators' = Actuators
            /\ \A i \in Actuators :
                tag'[i] # tag[i] => i \in Named(r.asked) \cup Named(s.asked)]_vars

\* service.go:491, the endpoints for actuators answer "404 (not an empty 200) when
\* the referenced node does not exist": no actuator appears at a node that is not
\* registered but by a request that was past its check when the node was deleted.
\* What else a deleted node has, it had before: DeleteNode leaves it.
OrphansAreLeftOver ==
    [][Actuators' \ Actuators # {} =>
        registered \/ \E h \in Handlers : request[h].overtaken /\ request'[h] = Idle]_vars
=============================================================================
