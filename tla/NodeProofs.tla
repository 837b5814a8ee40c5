----------------------------- MODULE NodeProofs -----------------------------
(***************************************************************************)
(* Proofs about what module-svc keeps of a node beside its row in the      *)
(* registry: its tags (TagMapping) and whether it is shown online          *)
(* (NodeStatus).  The two specifications share no state; each theorem is   *)
(* about one of them, for every value of its constants.                    *)
(*                                                                         *)
(* IInv is the inductive invariant of the tags: TypeOK, what is true of a  *)
(* replacement at every row it writes and not only when it answers, and    *)
(* that an actuator about to be written is one of a registered node.       *)
(*                                                                         *)
(* StatusInv is the one of the status: what the last tick, the one before  *)
(* and the one before that have made of the reports, and how far Redis and *)
(* last_seen_at may be from what was heard.                                *)
(***************************************************************************)
EXTENDS TagMapping, NodeStatus, TLAPS

-----------------------------------------------------------------------------
(* Tags: the inductive invariant *)

\* Where a replacement that nobody but its twins overtook has got to: every sensor tag is
\* one the body names, and every row has its tag or is still to be written.
SaveSound(q) ==
    q.op = "save" /\ ~q.overtaken =>
        /\ \A i \in Sensors : \E k \in DOMAIN q.asked : Meets(i, q.asked[k])
        /\ \A k \in DOMAIN q.asked : Kept(q.asked, k) \/ Owed(q, k)

CreateSound(q) == q.op = "create" /\ ~q.overtaken => registered

\* A replacement about to clear has written nothing, an actuator is one row.
BodySound(q) ==
    /\ q.op = "clear" => q.written = 0
    /\ q.op = "create" => Len(q.asked) = 1

Sound(q) == SaveSound(q) /\ CreateSound(q) /\ BodySound(q)

RequestsSound == \A h \in Handlers : Sound(request[h])

IInv == TypeOK /\ RequestsSound

-----------------------------------------------------------------------------
(* Tags: the parts of TypeOK *)

Requests ==
    [op : {"none", "save", "clear", "create", "delete"},
     asked : Seq(Rows), written : Nat, id : Ids \cup {NoId}, overtaken : BOOLEAN]

Stored == [Ids -> Tags]

UniqueKeys ==
    \A i, j \in Live : tag[i].kind = tag[j].kind /\ tag[i].key = tag[j].key => i = j

LEMMA TypeOKParts ==
    TypeOK <=> /\ tag \in Stored /\ registered \in BOOLEAN
               /\ request \in [Handlers -> Requests] /\ UniqueKeys
BY DEF TypeOK, Stored, Requests, UniqueKeys

LEMMA TagInTags ==
    ASSUME NEW kind \in {"sensor", "actuator"}, NEW key \in Keys, NEW name \in Names
    PROVE  /\ Tag(kind, key, name) \in Tags
           /\ Tag(kind, key, name).state = "live" /\ Tag(kind, key, name).kind = kind
           /\ Tag(kind, key, name).key = key /\ Tag(kind, key, name).name = name
BY DEF Tags, Tag

LEMMA NoTagInTags ==
    /\ NoTag("gone") \in Tags /\ NoTag("unused") \in Tags
    /\ NoTag("gone").state = "gone" /\ NoTag("unused").state = "unused"
BY DEF Tags, NoTag

\* What a live row holds, and that renaming it keeps the rest.
LEMMA LiveTag ==
    ASSUME NEW t \in Tags, t.state = "live"
    PROVE  /\ t = Tag(t.kind, t.key, t.name)
           /\ t.kind \in {"sensor", "actuator"} /\ t.key \in Keys /\ t.name \in Names
           /\ \A name \in Names : [t EXCEPT !.name = name] = Tag(t.kind, t.key, name)
<1>1. t # NoTag("unused") /\ t # NoTag("gone")
  BY DEF NoTag
<1>2. PICK kind \in {"sensor", "actuator"}, key \in Keys, name \in Names :
          t = Tag(kind, key, name)
  BY <1>1 DEF Tags
<1> QED BY <1>2 DEF Tag

LEMMA IdleIsRequest == Idle \in Requests /\ Idle.op = "none" /\ Sound(Idle)
BY DEF Idle, Requests, Sound, SaveSound, CreateSound, BodySound

LEMMA SavingIsRequest ==
    ASSUME NEW rows \in Seq(Rows)
    PROVE  /\ Saving(rows) \in Requests
           /\ [Saving(rows) EXCEPT !.op = "clear"] \in Requests
           /\ Saving(rows).op = "save" /\ Saving(rows).asked = rows
           /\ Saving(rows).written = 0
BY DEF Saving, Idle, Requests

LEMMA CreatingIsRequest ==
    ASSUME NEW key \in Keys, NEW name \in Names
    PROVE  /\ Creating(key, name) \in Requests
           /\ Creating(key, name).op = "create" /\ Len(Creating(key, name).asked) = 1
<1>1. [id |-> NoId, key |-> key, name |-> name] \in Rows
  BY DEF Rows
<1>2. PICK row \in Rows : row = [id |-> NoId, key |-> key, name |-> name]
  BY <1>1
<1>3. <<row>> \in Seq(Rows) /\ Len(<<row>>) = 1
  OBVIOUS
<1>4. PICK rows \in Seq(Rows) : rows = <<row>> /\ Len(rows) = 1
  BY <1>3
<1>5. Creating(key, name) = [Idle EXCEPT !.op = "create", !.asked = rows]
  BY <1>2, <1>4 DEF Creating
<1> QED BY <1>4, <1>5, IdleIsRequest DEF Requests

\* What a row of a body holds.
LEMMA RowOfBody ==
    ASSUME NEW rows \in Seq(Rows), NEW k \in DOMAIN rows
    PROVE  /\ rows[k] \in Rows /\ k \in 1 .. Len(rows)
           /\ rows[k].key \in Keys /\ rows[k].name \in Names
           /\ rows[k].id \in Ids \cup {NoId} /\ Carried(rows[k].id) \subseteq Ids
<1>1. rows[k] \in Rows /\ k \in 1 .. Len(rows)
  OBVIOUS
<1> QED BY <1>1, TagAssumption DEF Rows, Carried

-----------------------------------------------------------------------------
(* Tags: what an upsert does *)

\* A row it finds keeps its kind and key, and has its name changed only when it is the
\* row of the id, or of the key when no row has the id.
Renames(i, kind, key, name, new) ==
    \A j \in Live : /\ new[j].state = "live"
                    /\ new[j].kind = tag[j].kind /\ new[j].key = tag[j].key
                    /\ new[j].name \in {tag[j].name, name}
                    /\ new[j] # tag[j] => IF i \in Live THEN j = i ELSE j \in Holders(kind, key)

\* A row it adds has the id, and the key that no row had.
Adds(i, kind, key, name, new) ==
    \A j \in Ids \ Live : \/ new[j] = tag[j]
                          \/ /\ j = i /\ Holders(kind, key) = {}
                             /\ new[j] = Tag(kind, key, name)

\* Some row carries the name afterwards: the one of the id or of the key.
Carries(i, kind, key, name, new) ==
    \E j \in Ids : /\ new[j].state = "live" /\ new[j].name = name
                   /\ (j = i /\ j \in Live) \/ (new[j].kind = kind /\ new[j].key = key)

LEMMA UpsertedWrites ==
    ASSUME tag \in Stored, NEW i \in Ids, NEW kind \in {"sensor", "actuator"},
           NEW key \in Keys, NEW name \in Names, NEW new, new = Upserted(i, kind, key, name)
    PROVE  /\ new \in Stored
           /\ Renames(i, kind, key, name, new)
           /\ Adds(i, kind, key, name, new)
           /\ Carries(i, kind, key, name, new)
<1>l. \A j \in Live : /\ j \in Ids /\ tag[j] \in Tags /\ tag[j].state = "live"
                      /\ [tag[j] EXCEPT !.name = name] = Tag(tag[j].kind, tag[j].key, name)
                      /\ tag[j].kind \in {"sensor", "actuator"} /\ tag[j].key \in Keys
  BY LiveTag DEF Live, Stored
<1>t. \A j \in Live : /\ Tag(tag[j].kind, tag[j].key, name) \in Tags
                      /\ Tag(tag[j].kind, tag[j].key, name).state = "live"
                      /\ Tag(tag[j].kind, tag[j].key, name).kind = tag[j].kind
                      /\ Tag(tag[j].kind, tag[j].key, name).key = tag[j].key
                      /\ Tag(tag[j].kind, tag[j].key, name).name = name
  <2> TAKE j \in Live
  <2>1. tag[j].kind \in {"sensor", "actuator"} /\ tag[j].key \in Keys
    BY <1>l
  <2> QED BY ONLY <2>1, name \in Names, TagInTags
<1>1. CASE i \in Live
  <2>1. new = [tag EXCEPT ![i] = Tag(tag[i].kind, tag[i].key, name)]
    BY <1>1, <1>l DEF Upserted
  <2>2. new \in Stored
    BY <2>1, <1>1, <1>t DEF Stored
  <2>3. \A j \in Ids : new[j] = IF j = i THEN Tag(tag[i].kind, tag[i].key, name) ELSE tag[j]
    BY <2>1 DEF Stored
  <2>4. Renames(i, kind, key, name, new)
    BY <2>3, <1>1, <1>l, <1>t DEF Renames
  <2>5. Adds(i, kind, key, name, new)
    BY <2>3, <1>1 DEF Adds
  <2>6. Carries(i, kind, key, name, new)
    BY <2>3, <1>1, <1>t DEF Carries
  <2> QED BY <2>2, <2>4, <2>5, <2>6
<1>2. CASE i \notin Live /\ Holders(kind, key) # {}
  <2>1. Holders(kind, key) \subseteq Live
    BY DEF Holders
  <2>2. new = [j \in Ids |-> IF j \in Holders(kind, key)
                             THEN Tag(tag[j].kind, tag[j].key, name) ELSE tag[j]]
    BY <1>2, <2>1, <1>l DEF Upserted
  <2>3. new \in Stored
    BY <2>1, <2>2, <1>t DEF Stored
  <2>4. Renames(i, kind, key, name, new)
    BY <2>1, <2>2, <1>2, <1>l, <1>t DEF Renames
  <2>5. Adds(i, kind, key, name, new)
    BY <2>1, <2>2 DEF Adds
  <2>6. Carries(i, kind, key, name, new)
    <3>1. PICK j \in Holders(kind, key) : TRUE
      BY <1>2
    <3>2. j \in Live /\ tag[j].kind = kind /\ tag[j].key = key
      BY <3>1 DEF Holders
    <3> QED BY <2>2, <3>1, <3>2, <1>l, <1>t DEF Carries
  <2> QED BY <2>3, <2>4, <2>5, <2>6
<1>3. CASE i \notin Live /\ Holders(kind, key) = {}
  <2>1. new = [tag EXCEPT ![i] = Tag(kind, key, name)]
    BY <1>3 DEF Upserted
  <2>2. new \in Stored
    BY <2>1, TagInTags DEF Stored
  <2>3. \A j \in Ids : new[j] = IF j = i THEN Tag(kind, key, name) ELSE tag[j]
    BY <2>1 DEF Stored
  <2>4. Renames(i, kind, key, name, new)
    BY <2>3, <1>3, <1>l DEF Renames
  <2>5. Adds(i, kind, key, name, new)
    BY <2>3, <1>3 DEF Adds
  <2>6. Carries(i, kind, key, name, new)
    BY <2>3, TagInTags DEF Carries
  <2> QED BY <2>2, <2>4, <2>5, <2>6
<1> QED BY <1>1, <1>2, <1>3

\* So the keys stay unique.
LEMMA UpsertKeepsKeysUnique ==
    ASSUME tag \in Stored, UniqueKeys, NEW i \in Ids, NEW kind \in {"sensor", "actuator"},
           NEW key \in Keys, NEW name \in Names, NEW new,
           Renames(i, kind, key, name, new), Adds(i, kind, key, name, new),
           NEW j \in Ids, NEW k \in Ids, new[j].state = "live", new[k].state = "live",
           new[j].kind = new[k].kind, new[j].key = new[k].key
    PROVE  j = k
<1>1. ASSUME NEW l \in Ids, new[l].state = "live", l \notin Live
      PROVE  l = i /\ Holders(kind, key) = {} /\ new[l].kind = kind /\ new[l].key = key
  <2>1. tag[l].state # "live"
    BY <1>1 DEF Live
  <2>2. l = i /\ Holders(kind, key) = {} /\ new[l] = Tag(kind, key, name)
    BY <1>1, <2>1 DEF Adds
  <2> QED BY <2>2, TagInTags
<1>2. ASSUME NEW l \in Live, Holders(kind, key) = {}
      PROVE  ~(new[l].kind = kind /\ new[l].key = key)
  BY <1>2 DEF Renames, Holders
<1>3. CASE j \in Live /\ k \in Live
  BY <1>3 DEF Renames, UniqueKeys
<1>4. CASE j \notin Live /\ k \notin Live
  BY <1>1, <1>4
<1>5. CASE j \in Live /\ k \notin Live
  BY <1>1, <1>2, <1>5
<1>6. CASE j \notin Live /\ k \in Live
  BY <1>1, <1>2, <1>6
<1> QED BY <1>3, <1>4, <1>5, <1>6

-----------------------------------------------------------------------------
(* Tags: the statements, as steps of the table *)

\* The rows an upsert leaves, and the kinds of tags they are.
LEMMA UpsertStep ==
    ASSUME tag \in Stored, UniqueKeys, NEW i \in Ids, NEW kind \in {"sensor", "actuator"},
           NEW key \in Keys, NEW name \in Names, tag' = Upserted(i, kind, key, name)
    PROVE  /\ tag' \in Stored
           /\ UniqueKeys'
           /\ Renames(i, kind, key, name, tag')
           /\ Adds(i, kind, key, name, tag')
           /\ Carries(i, kind, key, name, tag')
<1>1. /\ tag' \in Stored
      /\ Renames(i, kind, key, name, tag')
      /\ Adds(i, kind, key, name, tag')
      /\ Carries(i, kind, key, name, tag')
  BY UpsertedWrites
<1>2. ASSUME NEW j \in Live', NEW k \in Live', tag'[j].kind = tag'[k].kind,
             tag'[j].key = tag'[k].key
      PROVE  j = k
  <2>1. /\ j \in Ids /\ k \in Ids
        /\ tag'[j].state = "live" /\ tag'[k].state = "live"
    BY DEF Live
  <2> QED BY <1>1, <1>2, <2>1, UpsertKeepsKeysUnique
<1> QED BY <1>1, <1>2 DEF UniqueKeys

LEMMA SweptStep ==
    ASSUME tag \in Stored, UniqueKeys, NEW rows, tag' = Swept(rows)
    PROVE  /\ tag' \in Stored
           /\ UniqueKeys'
           /\ Sensors' = Sensors \cap Named(rows)
           /\ Actuators' = Actuators
           /\ \A i \in Actuators : tag'[i] = tag[i]
<1>1. tag' \in Stored
  BY NoTagInTags DEF Swept, Stored
<1>2. \A i \in Ids : tag'[i] = IF i \in Sensors \ Named(rows) THEN NoTag("gone") ELSE tag[i]
  BY DEF Swept
<1>3. \A i \in Live' : i \in Live /\ tag'[i] = tag[i]
  BY <1>2, NoTagInTags DEF Live
<1>4. UniqueKeys'
  BY <1>3 DEF UniqueKeys
<1>5. Sensors' = Sensors \cap Named(rows)
  <2>1. \A i \in Sensors' : i \in Sensors /\ i \in Named(rows)
    BY <1>2, <1>3, NoTagInTags DEF Sensors, Live
  <2>2. \A i \in Sensors \cap Named(rows) : i \in Sensors'
    BY <1>2 DEF Sensors, Live
  <2> QED BY <2>1, <2>2
<1>6. \A i \in Actuators : tag'[i] = tag[i]
  BY <1>2 DEF Actuators, Sensors, Live
<1>7. Actuators' = Actuators
  BY <1>3, <1>6 DEF Actuators, Live
<1> QED BY <1>1, <1>4, <1>5, <1>6, <1>7

LEMMA RemovedStep ==
    ASSUME tag \in Stored, UniqueKeys, NEW i \in Ids, tag' = Removed(i)
    PROVE  tag' \in Stored /\ UniqueKeys' /\ Actuators' \subseteq Actuators
<1>1. tag' \in Stored
  BY NoTagInTags DEF Removed, Stored
<1>2. \A j \in Live' : j \in Live /\ tag'[j] = tag[j]
  BY NoTagInTags DEF Removed, Stored, Live
<1> QED BY <1>1, <1>2 DEF UniqueKeys, Actuators

\* WriteActuator marks the generated id as seen, when the row of the key kept its own.
LEMMA WriteActuatorStep ==
    ASSUME tag \in Stored, UniqueKeys, NEW i \in Ids \ Seen, NEW key \in Keys, NEW name \in Names,
           tag' = [Upserted(i, "actuator", key, name)
                   EXCEPT ![i].state = IF @ = "unused" THEN "gone" ELSE @]
    PROVE  tag' \in Stored /\ UniqueKeys'
<1> DEFINE new == Upserted(i, "actuator", key, name)
<1>1. /\ new \in Stored
      /\ Renames(i, "actuator", key, name, new)
      /\ Adds(i, "actuator", key, name, new)
  BY UpsertedWrites
<1> HIDE DEF new
<1>2. tag' = [new EXCEPT ![i].state = IF new[i].state = "unused" THEN "gone" ELSE new[i].state]
  BY DEF new
<1>3. new[i] \in Tags
  BY <1>1 DEF Stored
<1>4. CASE new[i].state = "live"
  <2>1. new[i] = Tag(new[i].kind, new[i].key, new[i].name)
    BY <1>3, <1>4, LiveTag
  <2>2. [new[i] EXCEPT !.state = "live"] = new[i]
    BY <2>1 DEF Tag
  <2>3. tag' = new
    BY <1>1, <1>2, <1>4, <2>2 DEF Stored
  <2>4. ASSUME NEW j \in Live', NEW k \in Live', tag'[j].kind = tag'[k].kind,
               tag'[j].key = tag'[k].key
        PROVE  j = k
    <3>1. /\ j \in Ids /\ k \in Ids
          /\ new[j].state = "live" /\ new[k].state = "live"
          /\ new[j].kind = new[k].kind /\ new[j].key = new[k].key
      BY <2>3, <2>4 DEF Live
    <3> QED BY <1>1, <3>1, UpsertKeepsKeysUnique
  <2> QED BY <1>1, <2>3, <2>4 DEF UniqueKeys
<1>5. CASE new[i].state # "live"
  <2>1. new[i] \in {NoTag("unused"), NoTag("gone")}
    BY <1>3, <1>5, TagInTags DEF Tags
  <2>2. tag' = [new EXCEPT ![i] = NoTag("gone")]
    <3>1. NoTag("gone") = [new[i] EXCEPT !.state =
                             IF new[i].state = "unused" THEN "gone" ELSE new[i].state]
      BY <2>1 DEF NoTag
    <3> QED BY <1>2, <3>1
  <2>3. tag' \in Stored
    BY <1>1, <2>2, NoTagInTags DEF Stored
  <2>4. ASSUME NEW j \in Live', NEW k \in Live', tag'[j].kind = tag'[k].kind,
               tag'[j].key = tag'[k].key
        PROVE  j = k
    <3>1. \A l \in Live' : l \in Ids /\ new[l].state = "live" /\ tag'[l] = new[l]
      BY <1>1, <2>2, NoTagInTags DEF Live, Stored
    <3>2. /\ j \in Ids /\ k \in Ids
          /\ new[j].state = "live" /\ new[k].state = "live"
          /\ new[j].kind = new[k].kind /\ new[j].key = new[k].key
      BY <2>4, <3>1
    <3> QED BY <1>1, <3>2, UpsertKeepsKeysUnique
  <2> QED BY <2>3, <2>4 DEF UniqueKeys
<1> QED BY <1>4, <1>5

-----------------------------------------------------------------------------
(* Tags: what a step of one request means to the others *)

\* A statement overtakes them, and nothing is asked of a request that was overtaken;
\* its twins have to be looked at.
LEMMA OvertakenSound ==
    ASSUME request \in [Handlers -> Requests], RequestsSound,
           NEW h \in Handlers, NEW r \in Requests, Overtaking(h, r),
           BodySound(r), CreateSound(r)',
           \A g \in Handlers : g = h \/ Twins(request[g], r) => SaveSound(request[g])'
    PROVE  request' \in [Handlers -> Requests] /\ RequestsSound'
<1>1. ASSUME NEW g \in Handlers PROVE request'[g] \in Requests /\ Sound(request[g])'
  <2>p. request[g] \in Requests /\ BodySound(request[g])
    BY DEF RequestsSound, Sound
  <2>1. CASE g = h
    <3>1. request'[g] = r
      BY <2>1 DEF Overtaking
    <3>2. BodySound(request[g])' /\ CreateSound(request[g])'
      BY <3>1 DEF BodySound, CreateSound
    <3> QED BY <2>1, <3>1, <3>2 DEF Sound
  <2>2. CASE g # h /\ request[g] = Idle
    <3>1. request'[g] = Idle
      BY <2>2 DEF Overtaking
    <3> QED BY <3>1, IdleIsRequest DEF Sound, SaveSound, CreateSound, BodySound
  <2>3. CASE g # h /\ Twins(request[g], r)
    <3>1. request'[g] = request[g]
      BY <2>3 DEF Overtaking
    <3>2. BodySound(request[g])' /\ CreateSound(request[g])'
      BY <2>p, <2>3, <3>1 DEF BodySound, CreateSound, Twins
    <3> QED BY <2>p, <2>3, <3>1, <3>2 DEF Sound
  <2>4. CASE g # h /\ request[g] # Idle /\ ~Twins(request[g], r)
    <3>1. request'[g] = [request[g] EXCEPT !.overtaken = TRUE]
      BY <2>4 DEF Overtaking
    <3>2. /\ request'[g] \in Requests /\ request'[g].overtaken
          /\ request'[g].op = request[g].op /\ request'[g].asked = request[g].asked
          /\ request'[g].written = request[g].written
      BY <2>p, <3>1 DEF Requests
    <3> QED BY <2>p, <3>2 DEF Sound, SaveSound, CreateSound, BodySound
  <2> QED BY <2>1, <2>2, <2>3, <2>4
<1> QED BY <1>1 DEF Overtaking, RequestsSound

\* A request of one statement has no twins.
LEMMA OvertakenByOne ==
    ASSUME request \in [Handlers -> Requests], RequestsSound,
           NEW h \in Handlers, Overtaking(h, Idle)
    PROVE  request' \in [Handlers -> Requests] /\ RequestsSound'
<1>1. Idle \in Requests /\ Idle.op = "none" /\ BodySound(Idle) /\ CreateSound(Idle)'
  BY IdleIsRequest DEF Sound, CreateSound
<1>2. \A g \in Handlers : ~Twins(request[g], Idle)
  BY <1>1 DEF Twins
<1>3. request'[h] = Idle
  BY DEF Overtaking
<1>4. SaveSound(request[h])'
  BY <1>1, <1>3 DEF SaveSound
<1> QED BY <1>1, <1>2, <1>4, OvertakenSound

\* A step that writes nothing leaves the others as they were, when the request that
\* makes it is no replacement any more, and its twins did not count on it or know that
\* it failed.
LEMMA QuietSound ==
    ASSUME request \in [Handlers -> Requests], RequestsSound,
           NEW h \in Handlers, NEW r \in Requests,
           r.op # "save", BodySound(r), CreateSound(r), request'[h] = r,
           request' = [g \in Handlers |-> request'[g]],
           \A g \in Handlers \ {h} :
              /\ request'[g] \in {request[g], [request[g] EXCEPT !.overtaken = TRUE]}
              /\ Twins(request[g], request[h]) =>
                    \/ request'[g] = [request[g] EXCEPT !.overtaken = TRUE]
                    \/ request[h].written = Len(request[h].asked),
           UNCHANGED <<tag, registered>>
    PROVE  request' \in [Handlers -> Requests] /\ RequestsSound'
<1>1. UNCHANGED Live /\ UNCHANGED Sensors
  BY DEF Live, Sensors
<1>o. ASSUME NEW g \in Handlers, g # h
      PROVE  /\ request'[g] \in Requests
             /\ request'[g].op = request[g].op /\ request'[g].asked = request[g].asked
             /\ request'[g].written = request[g].written
             /\ request[g].overtaken => request'[g].overtaken
  <2>1. request[g] \in Requests
    OBVIOUS
  <2>2. CASE request'[g] = request[g]
    BY <2>1, <2>2
  <2>3. CASE request'[g] = [request[g] EXCEPT !.overtaken = TRUE]
    BY <2>1, <2>3 DEF Requests
  <2> QED BY <1>o, <2>2, <2>3
<1>2. ASSUME NEW g \in Handlers
      PROVE  request'[g] \in Requests /\ Sound(request[g])'
  <2>1. CASE g = h
    BY <2>1 DEF Sound, SaveSound, CreateSound, BodySound
  <2>2. CASE g # h
    <3>p. PICK p \in Requests : p = request[g] /\ Sound(p)
      BY DEF RequestsSound
    <3>1. /\ request'[g] \in Requests
          /\ request'[g].op = p.op /\ request'[g].asked = p.asked
          /\ request'[g].written = p.written
          /\ ~request'[g].overtaken => ~p.overtaken
      BY <1>o, <2>2, <3>p
    <3>2. CreateSound(request[g])' /\ BodySound(request[g])'
      BY <3>1, <3>p DEF Sound, CreateSound, BodySound
    <3>3. SUFFICES ASSUME p.op = "save", ~request'[g].overtaken
                   PROVE  /\ \A i \in Sensors : \E k \in DOMAIN p.asked : Meets(i, p.asked[k])'
                          /\ \A k \in DOMAIN p.asked :
                                Kept(p.asked, k)' \/ Owed(request[g], k)'
      BY <1>1, <3>1, <3>2 DEF Sound, SaveSound, Kept, Meets
    <3>4. /\ \A i \in Sensors : \E k \in DOMAIN p.asked : Meets(i, p.asked[k])
          /\ \A k \in DOMAIN p.asked : Kept(p.asked, k) \/ Owed(p, k)
      BY <3>1, <3>3, <3>p DEF Sound, SaveSound
    <3>5. \A i \in Sensors : \E k \in DOMAIN p.asked : Meets(i, p.asked[k])'
      BY <1>1, <3>4 DEF Meets
    <3>6. ASSUME NEW k \in DOMAIN p.asked PROVE Kept(p.asked, k)' \/ Owed(request[g], k)'
      <4>1. CASE Kept(p.asked, k)
        BY <1>1, <4>1 DEF Kept, Meets
      <4>2. CASE Owed(p, k)
        <5>1. PICK f \in Handlers : Twins(p, request[f]) /\ request[f].written < k
          BY <4>2 DEF Owed
        <5>2. f # h
          <6> SUFFICES ASSUME f = h PROVE FALSE
            OBVIOUS
          <6>1. k <= Len(p.asked) /\ p.asked = request[h].asked
            BY <5>1, <3>p, RowOfBody DEF Twins, Requests
          <6>2. request'[g] # [request[g] EXCEPT !.overtaken = TRUE]
            BY <3>3, <3>p DEF Requests
          <6>3. request[h].written = Len(request[h].asked)
            BY <2>2, <3>p, <5>1, <6>2
          <6> QED BY <3>p, <5>1, <6>1, <6>3 DEF Requests
        <5>3. /\ request'[f].op = request[f].op /\ request'[f].asked = request[f].asked
              /\ request'[f].written = request[f].written
          BY <1>o, <5>2
        <5>4. Twins(request'[g], request'[f])
          BY <3>1, <5>1, <5>3 DEF Twins
        <5> QED BY <5>1, <5>3, <5>4 DEF Owed, Twins
      <4> QED BY <3>4, <4>1, <4>2
    <3> QED BY <3>5, <3>6
  <2> QED BY <2>1, <2>2
<1> QED BY <1>2 DEF RequestsSound

LEMMA BecomesSound ==
    ASSUME request \in [Handlers -> Requests], RequestsSound,
           NEW h \in Handlers, NEW r \in Requests, Becomes(h, r),
           r.op # "save", BodySound(r), CreateSound(r),
           request[h].op = "save" => request[h].written = Len(request[h].asked),
           UNCHANGED <<tag, registered>>
    PROVE  request' \in [Handlers -> Requests] /\ RequestsSound'
<1>1. /\ request' = [g \in Handlers |-> request'[g]] /\ request'[h] = r
      /\ \A g \in Handlers \ {h} : request'[g] = request[g]
  BY DEF Becomes
<1>2. \A g \in Handlers : Twins(request[g], request[h]) => request[h].op = "save"
  BY DEF Twins
<1> QED BY <1>1, <1>2, QuietSound

LEMMA AbandoningSound ==
    ASSUME request \in [Handlers -> Requests], RequestsSound,
           NEW h \in Handlers, Abandoning(h), UNCHANGED <<tag, registered>>
    PROVE  request' \in [Handlers -> Requests] /\ RequestsSound'
<1>1. /\ request' = [g \in Handlers |-> request'[g]] /\ request'[h] = Idle
      /\ \A g \in Handlers \ {h} :
            request'[g] = IF Twins(request[g], request[h])
                          THEN [request[g] EXCEPT !.overtaken = TRUE] ELSE request[g]
  BY DEF Abandoning
<1>2. Idle \in Requests /\ Idle.op # "save" /\ BodySound(Idle) /\ CreateSound(Idle)
  BY IdleIsRequest DEF Sound
<1> QED BY <1>1, <1>2, QuietSound

-----------------------------------------------------------------------------
(* Tags: the steps of a replacement *)

\* After the sweep the body accounts for every sensor tag, and all its rows are owed, to
\* the request and to its twins.
LEMMA SweepingSound ==
    ASSUME request \in [Handlers -> Requests], RequestsSound,
           NEW h \in Handlers, NEW rows \in Seq(Rows), NEW q \in Requests, q.op = "save",
           q.asked = rows, q.written = 0, Overtaking(h, q), Sensors' \subseteq Named(rows)
    PROVE  request' \in [Handlers -> Requests] /\ RequestsSound'
<1>1. ASSUME NEW g \in Handlers, g = h \/ Twins(request[g], q)
      PROVE  SaveSound(request[g])'
  <2>1. request'[h] = q
    BY DEF Overtaking
  <2>2. request'[g].asked = rows
    BY <1>1, <2>1 DEF Overtaking, Twins
  <2>3. \A i \in Sensors' : \E k \in DOMAIN rows : rows[k].id = i
    BY DEF Named
  <2>4. \A i \in Sensors' : \E k \in DOMAIN rows : Meets(i, rows[k])'
    BY <2>3 DEF Meets
  <2>5. ASSUME NEW k \in DOMAIN rows, request'[g].op = "save" PROVE Owed(request[g], k)'
    <3>1. request'[h].written < k
      BY <2>1, RowOfBody
    <3>2. Twins(request[g], request[h])'
      BY <2>1, <2>2, <2>5 DEF Twins
    <3> QED BY <3>1, <3>2 DEF Owed
  <2> QED BY <2>2, <2>4, <2>5 DEF SaveSound
<1>2. BodySound(q) /\ CreateSound(q)'
  BY DEF BodySound, CreateSound
<1> QED BY <1>1, <1>2, OvertakenSound

\* What is true of the tags for a body stays true when one of its rows is written:
\* the tag of an earlier row may then carry this one.
LEMMA WritingKeeps ==
    ASSUME tag \in Stored, NEW rows \in Seq(Rows), NEW n \in DOMAIN rows,
           NEW i \in Carried(rows[n].id),
           Renames(i, "sensor", rows[n].key, rows[n].name, tag'),
           Adds(i, "sensor", rows[n].key, rows[n].name, tag'),
           Carries(i, "sensor", rows[n].key, rows[n].name, tag')
    PROVE  /\ (\A j \in Sensors : \E k \in DOMAIN rows : Meets(j, rows[k])) =>
                 \A j \in Sensors' : \E k \in DOMAIN rows : Meets(j, rows[k])'
           /\ Kept(rows, n)'
           /\ \A k \in DOMAIN rows : k < n /\ Kept(rows, k) => Kept(rows, k)'
<1> DEFINE row == rows[n]
<1>r. row \in Rows /\ row.key \in Keys /\ row.name \in Names /\ i \in Ids
      /\ n \in 1 .. Len(rows) /\ Len(rows) \in Nat
  BY RowOfBody
<1>i. i \in Live => i = row.id
  BY DEF Carried, Live, Seen
<1>1. ASSUME \A j \in Sensors : \E k \in DOMAIN rows : Meets(j, rows[k]), NEW j \in Sensors'
      PROVE  \E k \in DOMAIN rows : Meets(j, rows[k])'
  <2>1. j \in Ids /\ tag'[j].state = "live" /\ tag'[j].kind = "sensor"
    BY DEF Sensors, Live
  <2>2. CASE j \in Live
    <3>1. j \in Sensors /\ tag'[j].key = tag[j].key
      BY <2>1, <2>2 DEF Renames, Sensors
    <3>2. PICK k \in DOMAIN rows : Meets(j, rows[k])
      BY <1>1, <3>1
    <3>3. Meets(j, rows[k])'
      BY <3>1, <3>2 DEF Meets
    <3> QED BY <3>3
  <2>3. CASE j \notin Live
    <3>1. tag[j].state # "live"
      BY <2>1, <2>3 DEF Live
    <3>2. tag'[j] = Tag("sensor", row.key, row.name)
      BY <2>1, <2>3, <3>1 DEF Adds
    <3>3. tag'[j].key = row.key
      BY <1>r, <3>2, TagInTags
    <3>4. Meets(j, rows[n])'
      BY <3>3 DEF Meets
    <3> QED BY <3>4
  <2> QED BY <2>2, <2>3
<1>2. Kept(rows, n)'
  <2>1. PICK j \in Ids : /\ tag'[j].state = "live" /\ tag'[j].name = row.name
                         /\ \/ j = i /\ j \in Live
                            \/ tag'[j].kind = "sensor" /\ tag'[j].key = row.key
    BY DEF Carries
  <2>2. j \in Live'
    BY <2>1 DEF Live
  <2>3. Meets(j, rows[n])'
    BY <2>1, <2>2, <1>i DEF Meets, Sensors
  <2>4. n \in n .. Len(rows)
    BY <1>r
  <2> QED BY <2>1, <2>2, <2>3, <2>4 DEF Kept
<1>3. ASSUME NEW k \in DOMAIN rows, k < n, Kept(rows, k) PROVE Kept(rows, k)'
  <2>1. PICK j \in Live, l \in k .. Len(rows) :
           Meets(j, rows[k]) /\ Meets(j, rows[l]) /\ tag[j].name = rows[l].name
    BY <1>3 DEF Kept
  <2>2. /\ j \in Live' /\ tag'[j].kind = tag[j].kind /\ tag'[j].key = tag[j].key
        /\ tag'[j].name \in {tag[j].name, row.name}
    BY DEF Renames, Live
  <2>3. Meets(j, rows[k])' /\ Meets(j, rows[l])'
    BY <2>1, <2>2 DEF Meets, Sensors
  <2>4. CASE tag'[j] = tag[j]
    BY <2>1, <2>2, <2>3, <2>4 DEF Kept
  <2>5. CASE tag'[j] # tag[j]
    <3>1. IF i \in Live THEN j = i ELSE j \in Holders("sensor", row.key)
      BY <2>5 DEF Renames
    <3>2. j = row.id \/ (j \in Sensors' /\ tag'[j].key = row.key)
      BY <1>i, <2>2, <3>1 DEF Holders, Sensors
    <3>3. Meets(j, rows[n])'
      BY <3>2 DEF Meets
    <3>4. tag'[j].name = row.name \/ tag'[j].name = tag[j].name
      BY <2>2
    <3>5. k \in Nat /\ n \in k .. Len(rows)
      BY <1>r, <1>3, RowOfBody
    <3> QED BY <2>1, <2>2, <2>3, <3>3, <3>4, <3>5 DEF Kept
  <2> QED BY <2>4, <2>5
<1> QED BY <1>1, <1>2, <1>3

\* So the request and its twins stay sound: the row is written, those after it are owed
\* by this request, and those before it as they were.
LEMMA WritingSound ==
    ASSUME tag \in Stored, request \in [Handlers -> Requests], RequestsSound,
           NEW h \in Handlers, NEW q, q = request[h], q.op = "save",
           NEW n \in DOMAIN q.asked, n = q.written + 1,
           NEW s, s = [q EXCEPT !.written = @ + 1], Overtaking(h, s),
           NEW i \in Carried(q.asked[n].id),
           Renames(i, "sensor", q.asked[n].key, q.asked[n].name, tag'),
           Adds(i, "sensor", q.asked[n].key, q.asked[n].name, tag'),
           Carries(i, "sensor", q.asked[n].key, q.asked[n].name, tag')
    PROVE  request' \in [Handlers -> Requests] /\ RequestsSound'
<1>q. q \in Requests /\ q.asked \in Seq(Rows) /\ q.written \in Nat /\ n \in Nat
  BY RowOfBody DEF Requests
<1>s. /\ s \in Requests /\ s.op = "save" /\ s.asked = q.asked
      /\ s.overtaken = q.overtaken /\ s.written = n
  BY <1>q DEF Requests
<1>h. request'[h] = s
  BY DEF Overtaking
<1>1. ASSUME NEW g \in Handlers, g = h \/ Twins(request[g], s),
             request'[g].op = "save", ~request'[g].overtaken
      PROVE  /\ request'[g].asked = q.asked
             /\ \A j \in Sensors' : \E k \in DOMAIN q.asked : Meets(j, q.asked[k])'
             /\ \A k \in DOMAIN q.asked : Kept(q.asked, k)' \/ Owed(request[g], k)'
  <2>1. /\ request[g].op = "save" /\ ~request[g].overtaken
        /\ request[g].asked = q.asked /\ request'[g].asked = q.asked
    BY <1>1, <1>s, <1>h DEF Overtaking, Twins
  <2>2. /\ \A j \in Sensors : \E k \in DOMAIN q.asked : Meets(j, q.asked[k])
        /\ \A k \in DOMAIN q.asked : Kept(q.asked, k) \/ Owed(request[g], k)
    BY <2>1 DEF RequestsSound, Sound, SaveSound
  <2>3. /\ \A j \in Sensors' : \E k \in DOMAIN q.asked : Meets(j, q.asked[k])'
        /\ Kept(q.asked, n)'
        /\ \A k \in DOMAIN q.asked : k < n /\ Kept(q.asked, k) => Kept(q.asked, k)'
    BY <1>q, <2>2, WritingKeeps
  <2>4. ASSUME NEW k \in DOMAIN q.asked PROVE Kept(q.asked, k)' \/ Owed(request[g], k)'
    <3>k. k \in Nat
      BY <1>q, RowOfBody
    <3>1. CASE n < k
      <4>1. Twins(request[g], request[h])'
        BY <1>1, <1>h, <1>s, <2>1 DEF Twins
      <4>2. request'[h].written < k
        BY <1>h, <1>s, <3>1
      <4> QED BY <4>1, <4>2, Zenon DEF Owed
    <3>2. CASE k < n /\ Owed(request[g], k)
      <4>1. PICK f \in Handlers : Twins(request[g], request[f]) /\ request[f].written < k
        BY <3>2 DEF Owed
      <4>2. f # h
        BY <1>q, <3>k, <3>2, <4>1
      <4>3. /\ request'[f].op = request[f].op /\ request'[f].asked = request[f].asked
            /\ request'[f].written = request[f].written
        BY <4>2 DEF Overtaking, Requests
      <4>4. Twins(request[g], request[f])'
        BY <1>1, <2>1, <4>1, <4>3 DEF Twins
      <4> QED BY <4>1, <4>3, <4>4 DEF Owed
    <3>3. n < k \/ k = n \/ k < n
      BY <1>q, <3>k
    <3> QED BY <2>2, <2>3, <3>1, <3>2, <3>3
  <2> QED BY <2>1, <2>3, <2>4
<1>2. ASSUME NEW g \in Handlers, g = h \/ Twins(request[g], s)
      PROVE  SaveSound(request[g])'
  BY <1>1, <1>2 DEF SaveSound
<1>3. BodySound(s) /\ CreateSound(s)'
  BY <1>s DEF BodySound, CreateSound
<1> QED BY <1>2, <1>3, <1>s, OvertakenSound

-----------------------------------------------------------------------------
(* Tags: the invariant *)

LEMMA InitIInv == Init => IInv
<1> SUFFICES ASSUME Init PROVE IInv
  OBVIOUS
<1>1. \A i \in Ids : tag[i].state = "unused"
  BY NoTagInTags DEF Init
<1>2. tag \in Stored /\ UniqueKeys
  BY <1>1, NoTagInTags DEF Init, Stored, UniqueKeys, Live
<1>3. request \in [Handlers -> Requests] /\ RequestsSound
  BY IdleIsRequest DEF Init, RequestsSound
<1> QED BY <1>2, <1>3, TypeOKParts DEF Init, IInv

LEMMA NextIInv ==
    ASSUME IInv, [Next]_vars
    PROVE  IInv'
<1>t. /\ tag \in Stored /\ UniqueKeys /\ registered \in BOOLEAN
      /\ request \in [Handlers -> Requests] /\ RequestsSound
  BY TypeOKParts DEF IInv
<1> DEFINE Goal == /\ tag' \in Stored /\ UniqueKeys'
                   /\ request' \in [Handlers -> Requests] /\ RequestsSound'
<1> SUFFICES Goal /\ registered' \in BOOLEAN
  BY DEF IInv, TypeOK, Stored, Requests, UniqueKeys
<1>o. ASSUME NEW h \in Handlers, Overtaking(h, Idle), tag' \in Stored, UniqueKeys'
      PROVE  Goal
  BY <1>o, <1>t, OvertakenByOne
<1>b. ASSUME NEW h \in Handlers, NEW r \in Requests, Becomes(h, r), r.op # "save",
             BodySound(r), CreateSound(r),
             request[h].op = "save" => request[h].written = Len(request[h].asked),
             UNCHANGED <<tag, registered>>
      PROVE  Goal
  <2>1. request' \in [Handlers -> Requests] /\ RequestsSound'
    BY <1>b, <1>t, BecomesSound
  <2> QED BY <1>b, <2>1, <1>t DEF UniqueKeys, Live
<1>i. Idle \in Requests /\ Idle.op = "none" /\ BodySound(Idle) /\ CreateSound(Idle)
  BY IdleIsRequest DEF Sound
<1>r. \A rows \in Mappings : rows \in Seq(Rows)
  BY TagAssumption
<1>1. ASSUME NEW h \in Handlers, NEW rows \in Mappings, SaveNodeTags(h, rows)
      PROVE  Goal
  <2>q. PICK q : q = Saving(rows)
    OBVIOUS
  <2>1. q \in Requests /\ q.op = "save" /\ q.asked = rows /\ q.written = 0
    BY <1>r, <2>q, SavingIsRequest
  <2>2. tag' \in Stored /\ UniqueKeys' /\ Sensors' \subseteq Named(rows)
    BY <1>1, <1>t, SweptStep DEF SaveNodeTags
  <2>3. Overtaking(h, q)
    BY <1>1, <2>q DEF SaveNodeTags
  <2>4. request' \in [Handlers -> Requests] /\ RequestsSound'
    BY <1>t, <1>r, <2>1, <2>2, <2>3, SweepingSound
  <2> QED BY <2>2, <2>4
<1>2. ASSUME NEW h \in Handlers, NEW rows \in Mappings, SaveWithoutIds(h, rows)
      PROVE  Goal
  <2>q. PICK q : q = [Saving(rows) EXCEPT !.op = "clear"]
    OBVIOUS
  <2>1. q \in Requests /\ q.op = "clear" /\ q.written = 0
    BY <1>r, <2>q, SavingIsRequest DEF Requests
  <2>2. BodySound(q) /\ CreateSound(q)
    BY <2>1 DEF BodySound, CreateSound
  <2>3. /\ Becomes(h, q) /\ request[h] = Idle
        /\ UNCHANGED <<tag, registered>>
    BY <1>2, <2>q DEF SaveWithoutIds
  <2> QED BY <1>b, <1>i, <2>1, <2>2, <2>3
<1>3. ASSUME NEW h \in Handlers, Clear(h) PROVE Goal
  <2>p. PICK p : p = request[h]
    OBVIOUS
  <2>q. PICK q : q = [p EXCEPT !.op = "save"]
    OBVIOUS
  <2>1. p \in Requests /\ p.op = "clear" /\ p.written = 0
    BY <1>3, <1>t, <2>p DEF Clear, RequestsSound, Sound, BodySound
  <2>2. /\ q \in Requests /\ q.op = "save" /\ q.written = 0
        /\ q.asked = p.asked /\ p.asked \in Seq(Rows)
    BY <2>q, <2>1 DEF Requests
  <2>3. tag' \in Stored /\ UniqueKeys' /\ Sensors' \subseteq Named(p.asked)
    BY <1>3, <1>t, <2>p, SweptStep DEF Clear
  <2>4. Overtaking(h, q)
    BY <1>3, <2>p, <2>q DEF Clear
  <2>5. request' \in [Handlers -> Requests] /\ RequestsSound'
    BY <1>t, <2>2, <2>3, <2>4, SweepingSound
  <2> QED BY <2>3, <2>5
<1>4. ASSUME NEW h \in Handlers, WriteRow(h) PROVE Goal
  <2>p. PICK p : p = request[h]
    OBVIOUS
  <2>s. PICK s : s = [p EXCEPT !.written = @ + 1]
    OBVIOUS
  <2>n. PICK n : n = p.written + 1
    OBVIOUS
  <2>1. p \in Requests /\ p.op = "save" /\ p.written < Len(p.asked)
    BY <1>4, <1>t, <2>p DEF WriteRow
  <2>2. p.asked \in Seq(Rows) /\ n \in DOMAIN p.asked
    BY <2>1, <2>n DEF Requests
  <2>3. PICK i \in Carried(p.asked[n].id) :
           tag' = Upserted(i, "sensor", p.asked[n].key, p.asked[n].name)
    BY <1>4, <2>p, <2>n DEF WriteRow
  <2>4. i \in Ids /\ p.asked[n].key \in Keys /\ p.asked[n].name \in Names
    BY <2>2, RowOfBody
  <2>5. /\ tag' \in Stored /\ UniqueKeys'
        /\ Renames(i, "sensor", p.asked[n].key, p.asked[n].name, tag')
        /\ Adds(i, "sensor", p.asked[n].key, p.asked[n].name, tag')
        /\ Carries(i, "sensor", p.asked[n].key, p.asked[n].name, tag')
    BY <1>t, <2>3, <2>4, UpsertStep
  <2>6. Overtaking(h, s)
    BY <1>4, <2>p, <2>s DEF WriteRow
  <2>7. request' \in [Handlers -> Requests] /\ RequestsSound'
    BY <1>t, <2>p, <2>s, <2>n, <2>1, <2>2, <2>3, <2>5, <2>6, WritingSound
  <2> QED BY <2>5, <2>7
<1>5. ASSUME NEW h \in Handlers, NEW r \in Rows, SaveNodeTag(h, r)
      PROVE  Goal
  <2>1. PICK i \in Carried(r.id) : tag' = Upserted(i, "sensor", r.key, r.name)
    BY <1>5 DEF SaveNodeTag
  <2>2. i \in Ids /\ r.key \in Keys /\ r.name \in Names
    BY TagAssumption DEF Rows, Carried
  <2>3. tag' \in Stored /\ UniqueKeys'
    BY <1>t, <2>1, <2>2, UpsertStep
  <2> QED BY <1>5, <1>o, <2>3 DEF SaveNodeTag
<1>6. ASSUME NEW h \in Handlers, Reply(h) PROVE Goal
  BY <1>6, <1>i, <1>b DEF Reply
<1>f. ASSUME NEW h \in Handlers, RequestFails(h) PROVE Goal
  <2>1. request' \in [Handlers -> Requests] /\ RequestsSound'
    BY <1>f, <1>t, AbandoningSound DEF RequestFails
  <2> QED BY <1>f, <2>1, <1>t DEF RequestFails, UniqueKeys, Live
<1>7. ASSUME NEW h \in Handlers, NEW i \in Ids, DeleteNodeTag(h, i) PROVE Goal
  <2>1. tag' \in Stored /\ UniqueKeys'
    BY <1>7, <1>t, RemovedStep DEF DeleteNodeTag
  <2> QED BY <1>7, <1>o, <2>1 DEF DeleteNodeTag
<1>8. ASSUME NEW h \in Handlers, NEW key \in Keys, NEW name \in Names,
             CreateActuatorTag(h, key, name)
      PROVE  Goal
  <2>q. PICK q : q = Creating(key, name)
    OBVIOUS
  <2>1. q \in Requests /\ q.op = "create" /\ Len(q.asked) = 1
    BY <2>q, CreatingIsRequest
  <2>2. BodySound(q) /\ CreateSound(q)
    BY <1>8, <2>1 DEF CreateActuatorTag, BodySound, CreateSound
  <2>3. /\ Becomes(h, q) /\ request[h] = Idle
        /\ UNCHANGED <<tag, registered>>
    BY <1>8, <2>q DEF CreateActuatorTag
  <2> QED BY <1>b, <1>i, <2>1, <2>2, <2>3
<1>9. ASSUME NEW h \in Handlers, WriteActuator(h) PROVE Goal
  <2>p. PICK p : p = request[h]
    OBVIOUS
  <2>1. p \in Requests /\ Len(p.asked) = 1 /\ Overtaking(h, Idle)
    BY <1>9, <1>t, <2>p DEF WriteActuator, RequestsSound, Sound, BodySound
  <2>2. p.asked \in Seq(Rows) /\ 1 \in DOMAIN p.asked
    BY <2>1 DEF Requests
  <2>3. PICK row : row = p.asked[1]
    OBVIOUS
  <2>4. row.key \in Keys /\ row.name \in Names
    BY <2>2, <2>3, RowOfBody
  <2>5. PICK i \in Ids \ Seen : tag' = [Upserted(i, "actuator", row.key, row.name)
                                       EXCEPT ![i].state = IF @ = "unused" THEN "gone" ELSE @]
    BY <1>9, <2>p, <2>3 DEF WriteActuator
  <2>6. tag' \in Stored /\ UniqueKeys'
    BY <1>t, <2>4, <2>5, WriteActuatorStep
  <2> QED BY <1>o, <2>1, <2>6
<1>10. ASSUME NEW h \in Handlers, NEW i \in Ids, DeleteActuatorTag(h, i) PROVE Goal
  <2>q. PICK q : q = [Idle EXCEPT !.op = "delete", !.id = i]
    OBVIOUS
  <2>1. q \in Requests /\ q.op = "delete"
    BY <2>q, IdleIsRequest DEF Requests
  <2>2. BodySound(q) /\ CreateSound(q)
    BY <2>1 DEF BodySound, CreateSound
  <2>3. /\ Becomes(h, q) /\ request[h] = Idle
        /\ UNCHANGED <<tag, registered>>
    BY <1>10, <2>q DEF DeleteActuatorTag
  <2> QED BY <1>b, <1>i, <2>1, <2>2, <2>3
<1>11. ASSUME NEW h \in Handlers, RemoveActuator(h) PROVE Goal
  <2>1. request[h].id \in Ids \cup {NoId}
    BY <1>t DEF Requests
  <2>2. tag' \in Stored /\ UniqueKeys'
    <3>1. CASE request[h].id \in Ids
      BY <1>11, <1>t, <3>1, RemovedStep DEF RemoveActuator
    <3>2. CASE request[h].id = NoId
      <4>1. tag' = tag
        BY <1>11, <1>t, <3>2, TagAssumption DEF RemoveActuator, Removed, Stored
      <4> QED BY <4>1, <1>t DEF UniqueKeys, Live
    <3> QED BY <2>1, <3>1, <3>2
  <2> QED BY <1>11, <1>o, <2>2 DEF RemoveActuator
<1>12. ASSUME NEW h \in Handlers, DeleteNode(h) PROVE Goal
  <2>1. tag' \in Stored /\ UniqueKeys'
    BY <1>12, <1>t DEF DeleteNode, UniqueKeys, Live
  <2> QED BY <1>12, <1>o, <2>1 DEF DeleteNode
<1>13. CASE RegisterNode
  BY <1>13, <1>t DEF RegisterNode, UniqueKeys, Live, Sensors, RequestsSound, Sound, SaveSound,
                     CreateSound, BodySound, Kept, Owed, Meets
<1>14. CASE UNCHANGED vars
  BY <1>14, <1>t DEF vars, UniqueKeys, Live, Sensors, RequestsSound, Sound, SaveSound,
                     CreateSound, BodySound, Kept, Owed, Meets
<1>15. registered' \in BOOLEAN
  BY <1>t DEF Next, vars, SensorRequest, ActuatorRequest, SaveNodeTags, SaveWithoutIds, Clear,
              WriteRow, SaveNodeTag, Reply, DeleteNodeTag, CreateActuatorTag, WriteActuator,
              DeleteActuatorTag, RemoveActuator, RequestFails, DeleteNode, RegisterNode
<1> QED
  BY <1>1, <1>2, <1>3, <1>4, <1>5, <1>6, <1>f, <1>7, <1>8, <1>9, <1>10, <1>11, <1>12,
     <1>13, <1>14, <1>15 DEF Next, SensorRequest, ActuatorRequest

LEMMA Invariance == Spec => []IInv
BY InitIInv, NextIInv, PTL DEF Spec

-----------------------------------------------------------------------------
(* Tags: what a step does to the actuators *)

\* The operation and the rows left of a request change only in its own step, but for
\* the steps that write nothing.
LEMMA OthersGoOn ==
    ASSUME request \in [Handlers -> Requests], NEW g \in Handlers, NEW h \in Handlers, g # h,
           NEW r, Overtaking(g, r) \/ Becomes(g, r)
    PROVE  request'[h].op = request[h].op /\ request'[h].written = request[h].written
BY DEF Overtaking, Becomes, Requests

\* What one request does when it writes a row of a replacement.
LEMMA WritingSpares ==
    ASSUME IInv, NEW h \in Handlers, WriteRow(h)
    PROVE  /\ Actuators' = Actuators
           /\ \A i \in Actuators : tag'[i] # tag[i] => i \in Named(request[h].asked)
<1>p. PICK p : p = request[h]
  OBVIOUS
<1>n. PICK n : n = p.written + 1
  OBVIOUS
<1>1. p \in Requests /\ p.written < Len(p.asked)
  BY <1>p, TypeOKParts DEF IInv, WriteRow
<1>2. p.asked \in Seq(Rows) /\ n \in DOMAIN p.asked
  BY <1>n, <1>1 DEF Requests
<1>3. PICK r : r = p.asked[n]
  OBVIOUS
<1>4. PICK i \in Carried(r.id) : tag' = Upserted(i, "sensor", r.key, r.name)
  BY <1>p, <1>n, <1>3 DEF WriteRow
<1>k. i \in Ids /\ r.key \in Keys /\ r.name \in Names
  BY <1>2, <1>3, RowOfBody
<1>5. /\ tag \in Stored
      /\ Renames(i, "sensor", r.key, r.name, tag')
      /\ Adds(i, "sensor", r.key, r.name, tag')
  BY <1>4, <1>k, TypeOKParts, UpsertStep DEF IInv
<1>6. \A j \in Actuators : j \in Actuators'
  BY <1>5 DEF Renames, Actuators, Live
<1>7. ASSUME NEW j \in Actuators' PROVE j \in Actuators
  <2>1. j \in Ids /\ tag'[j].state = "live" /\ tag'[j].kind = "actuator"
    BY DEF Actuators, Live
  <2>2. CASE j \in Live
    BY <1>5, <2>1, <2>2 DEF Renames, Actuators
  <2>3. CASE j \notin Live
    <3>1. tag[j].state # "live"
      BY <2>1, <2>3 DEF Live
    <3>2. tag'[j] = Tag("sensor", r.key, r.name)
      BY <1>5, <2>1, <2>3, <3>1 DEF Adds
    <3> QED BY <2>1, <3>2 DEF Tag
  <2> QED BY <2>2, <2>3
<1>8. ASSUME NEW j \in Actuators, tag'[j] # tag[j] PROVE j \in Named(request[h].asked)
  <2>1. j \in Live /\ tag[j].kind = "actuator"
    BY DEF Actuators
  <2>2. j \notin Holders("sensor", r.key)
    BY <2>1 DEF Holders
  <2>3. i \in Live /\ j = i
    BY <1>5, <1>8, <2>1, <2>2 DEF Renames
  <2>4. i = r.id
    BY <2>3 DEF Carried, Live, Seen
  <2> QED BY <1>p, <1>2, <1>3, <1>k, <2>3, <2>4 DEF Named
<1> QED BY <1>6, <1>7, <1>8

\* A statement of a replacement spares the actuators, whoever looks at it.
Spares(h) ==
    LET r == request[h]
        s == request'[h]
    IN (r.op = "save" \/ s.op = "save") /\ <<r.op, r.written>> # <<s.op, s.written>> =>
        /\ Actuators' = Actuators
        /\ \A i \in Actuators :
            tag'[i] # tag[i] => i \in Named(r.asked) \cup Named(s.asked)

LEMMA StepsSpare ==
    ASSUME IInv, Next, NEW h \in Handlers
    PROVE  Spares(h)
<1>t. /\ tag \in Stored /\ UniqueKeys /\ request \in [Handlers -> Requests]
      /\ request[h] \in Requests
  BY TypeOKParts DEF IInv
<1>q. ASSUME UNCHANGED tag PROVE Spares(h)
  BY <1>q DEF Spares, Actuators, Live
<1>s. ASSUME request'[h].op = request[h].op, request'[h].written = request[h].written PROVE Spares(h)
  BY <1>s DEF Spares
<1>o. ASSUME NEW g \in Handlers, g # h, NEW r, Overtaking(g, r) \/ Becomes(g, r)
      PROVE  Spares(h)
  BY <1>o, <1>s, <1>t, OthersGoOn
<1>n. ASSUME request[h].op # "save", request'[h].op # "save" PROVE Spares(h)
  BY <1>n DEF Spares
<1>i. Idle.op = "none"
  BY DEF Idle
<1>w. ASSUME NEW rows, tag' = Swept(rows) PROVE Spares(h)
  BY <1>w, <1>t, SweptStep DEF Spares
<1>1. ASSUME NEW g \in Handlers, SensorRequest(g) PROVE Spares(h)
  <2>1. ASSUME NEW rows, SaveNodeTags(g, rows) PROVE Spares(h)
    BY <2>1, <1>w DEF SaveNodeTags
  <2>2. ASSUME NEW rows, SaveWithoutIds(g, rows) PROVE Spares(h)
    BY <2>2, <1>q DEF SaveWithoutIds
  <2>3. CASE Clear(g)
    BY <2>3, <1>w DEF Clear
  <2>4. CASE WriteRow(g)
    <3>1. CASE g = h
      <4>1. /\ Actuators' = Actuators
            /\ \A i \in Actuators : tag'[i] # tag[i] => i \in Named(request[h].asked)
        BY <2>4, <3>1, WritingSpares
      <4> QED BY <4>1 DEF Spares
    <3>2. CASE g # h
      BY <2>4, <3>2, <1>o DEF WriteRow
    <3> QED BY <3>1, <3>2
  <2>5. ASSUME NEW r \in Rows, SaveNodeTag(g, r) PROVE Spares(h)
    <3>1. CASE g = h
      <4>1. request[h] = Idle /\ request'[h] = Idle
        BY <2>5, <3>1 DEF SaveNodeTag, Overtaking
      <4> QED BY <4>1, <1>i, <1>n
    <3>2. CASE g # h
      BY <2>5, <3>2, <1>o DEF SaveNodeTag
    <3> QED BY <3>1, <3>2
  <2>6. CASE Reply(g)
    BY <2>6, <1>q DEF Reply
  <2>7. ASSUME NEW i \in Ids, DeleteNodeTag(g, i) PROVE Spares(h)
    <3>1. CASE g = h
      <4>1. request[h] = Idle /\ request'[h] = Idle
        BY <2>7, <3>1 DEF DeleteNodeTag, Overtaking
      <4> QED BY <4>1, <1>i, <1>n
    <3>2. CASE g # h
      BY <2>7, <3>2, <1>o DEF DeleteNodeTag
    <3> QED BY <3>1, <3>2
  <2> QED BY <1>1, <2>1, <2>2, <2>3, <2>4, <2>5, <2>6, <2>7 DEF SensorRequest
<1>2. ASSUME NEW g \in Handlers, ActuatorRequest(g) PROVE Spares(h)
  <2>1. ASSUME NEW key, NEW name, CreateActuatorTag(g, key, name) PROVE Spares(h)
    BY <2>1, <1>q DEF CreateActuatorTag
  <2>2. ASSUME NEW i, DeleteActuatorTag(g, i) PROVE Spares(h)
    BY <2>2, <1>q DEF DeleteActuatorTag
  <2>3. ASSUME request[g].op # "save", Overtaking(g, Idle) PROVE Spares(h)
    <3>1. CASE g = h
      <4>1. request'[h] = Idle
        BY <2>3, <3>1 DEF Overtaking
      <4> QED BY <2>3, <3>1, <4>1, <1>i, <1>n
    <3>2. CASE g # h
      BY <2>3, <3>2, <1>o
    <3> QED BY <3>1, <3>2
  <2>4. CASE WriteActuator(g)
    BY <2>4, <2>3 DEF WriteActuator
  <2>5. CASE RemoveActuator(g)
    BY <2>5, <2>3 DEF RemoveActuator
  <2> QED BY <1>2, <2>1, <2>2, <2>4, <2>5 DEF ActuatorRequest
<1>3. ASSUME NEW g \in Handlers, RequestFails(g) \/ DeleteNode(g) PROVE Spares(h)
  BY <1>3, <1>q DEF RequestFails, DeleteNode
<1>4. CASE RegisterNode
  BY <1>4, <1>q DEF RegisterNode
<1> QED BY <1>1, <1>2, <1>3, <1>4 DEF Next

\* An actuator is added by WriteActuator only.
LEMMA StepsAddActuators ==
    ASSUME IInv, Next, Actuators' \ Actuators # {}
    PROVE  registered \/ \E h \in Handlers : request[h].overtaken /\ request'[h] = Idle
<1>t. /\ tag \in Stored /\ UniqueKeys /\ request \in [Handlers -> Requests] /\ RequestsSound
  BY TypeOKParts DEF IInv
<1>q. ASSUME UNCHANGED tag PROVE FALSE
  BY <1>q DEF Actuators, Live
<1>w. ASSUME NEW rows, tag' = Swept(rows) PROVE FALSE
  BY <1>w, <1>t, SweptStep
<1>d. ASSUME NEW i \in Ids, tag' = Removed(i) PROVE FALSE
  BY <1>d, <1>t, RemovedStep
<1>1. ASSUME NEW h \in Handlers, WriteRow(h) PROVE FALSE
  BY <1>1, WritingSpares
<1>2. ASSUME NEW h \in Handlers, NEW r \in Rows, SaveNodeTag(h, r) PROVE FALSE
  <2>1. PICK i \in Carried(r.id) : tag' = Upserted(i, "sensor", r.key, r.name)
    BY <1>2 DEF SaveNodeTag
  <2>2. i \in Ids /\ r.key \in Keys /\ r.name \in Names
    BY TagAssumption DEF Rows, Carried
  <2>3. /\ Renames(i, "sensor", r.key, r.name, tag')
        /\ Adds(i, "sensor", r.key, r.name, tag')
    BY <1>t, <2>1, <2>2, UpsertStep
  <2>4. PICK j \in Actuators' : j \notin Actuators
    OBVIOUS
  <2>5. j \in Ids /\ tag'[j].state = "live" /\ tag'[j].kind = "actuator"
    BY DEF Actuators, Live
  <2>6. j \notin Live
    BY <2>3, <2>4, <2>5 DEF Renames, Actuators
  <2>7. tag'[j] = Tag("sensor", r.key, r.name)
    BY <2>3, <2>5, <2>6 DEF Adds, Live
  <2> QED BY <2>5, <2>7 DEF Tag
<1>3. ASSUME NEW h \in Handlers, SensorRequest(h) PROVE FALSE
  BY <1>3, <1>q, <1>w, <1>d, <1>1, <1>2
     DEF SensorRequest, SaveNodeTags, SaveWithoutIds, Clear, Reply, DeleteNodeTag
<1>4. ASSUME NEW h \in Handlers, WriteActuator(h)
      PROVE  registered \/ (request[h].overtaken /\ request'[h] = Idle)
  <2>1. request[h].op = "create" /\ request'[h] = Idle /\ request[h].overtaken \in BOOLEAN
    BY <1>4, <1>t DEF WriteActuator, Overtaking, Requests
  <2>2. CreateSound(request[h])
    BY <1>t DEF RequestsSound, Sound
  <2> QED BY <2>1, <2>2 DEF CreateSound
<1>5. ASSUME NEW h \in Handlers, RemoveActuator(h) PROVE FALSE
  <2>1. request[h].id \in Ids \cup {NoId}
    BY <1>t DEF Requests
  <2>2. CASE request[h].id = NoId
    BY <1>5, <1>t, <1>q, <2>2, TagAssumption DEF RemoveActuator, Removed, Stored
  <2> QED BY <1>5, <1>d, <2>1, <2>2 DEF RemoveActuator
<1>6. ASSUME NEW h \in Handlers, ActuatorRequest(h)
      PROVE  registered \/ (request[h].overtaken /\ request'[h] = Idle)
  BY <1>6, <1>q, <1>4, <1>5 DEF ActuatorRequest, CreateActuatorTag, DeleteActuatorTag
<1>7. ASSUME NEW h \in Handlers, RequestFails(h) \/ DeleteNode(h) PROVE FALSE
  BY <1>7, <1>q DEF RequestFails, DeleteNode
<1>8. CASE RegisterNode
  BY <1>8, <1>q DEF RegisterNode
<1> QED BY <1>3, <1>6, <1>7, <1>8 DEF Next

-----------------------------------------------------------------------------
(* Tags: the theorems *)

\* Type correctness; a node keeps one tag of a kind for a key, whatever ids the
\* upserts carry (repository.go:312-318, migrate.go:46-62).
THEOREM TypeCorrect == Spec => []TypeOK
BY Invariance, PTL DEF IInv

\* When a replacement that no different request overtook has no row left, nor a twin of it,
\* the mapping is the one the body asked for: however long the body, whatever stale ids and
\* duplicate keys it has, and however many times it was sent at once
\* (service.go:411-463).
THEOREM ReplacementsHold == Spec => []ReplacementHolds
<1>1. IInv => ReplacementHolds
  BY DEF IInv, RequestsSound, Sound, SaveSound, ReplacementHolds
<1> QED BY <1>1, Invariance, PTL

\* No statement of a replacement adds or removes an actuator tag, or renames one whose
\* id the body does not carry (service.go:414-415, repository.go:327-347).
THEOREM ActuatorsAreSpared == Spec => ActuatorsSpared
<1>1. ASSUME IInv, [Next]_vars
      PROVE  [\A h \in Handlers :
                LET r == request[h]
                    s == request'[h]
                IN (r.op = "save" \/ s.op = "save") /\ <<r.op, r.written>> # <<s.op, s.written>> =>
                    /\ Actuators' = Actuators
                    /\ \A i \in Actuators :
                        tag'[i] # tag[i] => i \in Named(r.asked) \cup Named(s.asked)]_vars
  BY <1>1, StepsSpare DEF Spares
<1> QED BY <1>1, Invariance, PTL DEF Spec, ActuatorsSpared

\* An actuator tag of a node that is not registered was left over by DeleteNode, or was
\* written by a request that DeleteNode overtook (service.go:491-553).
THEOREM OrphansWereLeftOver == Spec => OrphansAreLeftOver
<1>1. ASSUME IInv, [Next]_vars
      PROVE  [Actuators' \ Actuators # {} =>
                registered \/ \E h \in Handlers : request[h].overtaken /\ request'[h] = Idle]_vars
  BY <1>1, StepsAddActuators
<1> QED BY <1>1, Invariance, PTL DEF Spec, OrphansAreLeftOver

-----------------------------------------------------------------------------
(* Status: the inductive invariant *)

\* The message in hand arrived in this unit of time, and so did the bad news in it.
MessageIsFresh ==
    message # NoMessage =>
        /\ message.at \in {"db", "redis"}
        /\ message.node \in Nodes
        /\ heard[message.node] = now
        /\ message.status # "online" => healthy[message.node] = now

\* The broker replays what it retained.
ReplaysAreRetained == \A n \in replay : retained[n] # "none"

\* A touch waits for its flush no longer than to the next tick.
TouchesAreRecent ==
    /\ \A n \in flushing : now <= heard[n] + 1
    /\ \A n \in pending : now <= heard[n] + 1
    /\ flusher = "waiting" => \A n \in pending : heard[n] = now

\* last_seen_at runs ahead of the messages by one flush at most.
SeenFollowsHeard ==
    \A n \in Nodes : heard[n] <= now /\ db[n].seen <= heard[n] + 1

\* Bad news in Redis is no younger than what spoke against the node, and every
\* entry with a TTL runs out in time.
EntriesAgeOut ==
    \A n \in Nodes :
        /\ redis[n].expires <= now + StatusTTL
        /\ redis[n].status # "online" /\ redis[n].expires # Never
               => redis[n].expires <= healthy[n] + StatusTTL

\* The row of n says that it was online delay units ago, or later.
SeenOnline(n, delay) == db[n].status = "online" /\ now <= db[n].seen + delay

\* What becomes of the reports of a node nothing spoke against since the last tick,
\* since the one before and since the one before that.
ReportsAreWritten ==
    \A n \in alive :
        /\ healthy[n] + 1 <= now /\ n \in reported =>
               n \in pending \cup flushing \/ SeenOnline(n, 0)
        /\ healthy[n] + 2 <= now =>
               \/ n \in flushing
               \/ n \in pending /\ flusher = "due"
               \/ SeenOnline(n, 1)
        /\ healthy[n] + 3 <= now => SeenOnline(n, 2)

\* The inductive invariant of the status.
StatusInv ==
    /\ StatusTypeOK
    /\ MessageIsFresh
    /\ ReplaysAreRetained
    /\ TouchesAreRecent
    /\ SeenFollowsHeard
    /\ EntriesAgeOut
    /\ ReportsAreWritten

-----------------------------------------------------------------------------
(* Status: the invariant is inductive *)

\* Nothing has been heard and nothing is under way at the start.
LEMMA InitStatusInv == StatusInit => StatusInv
BY StatusAssumption
DEF StatusInit, StatusInv, StatusTypeOK, Status, Missing, Never, NoMessage,
    MessageIsFresh, ReplaysAreRetained, TouchesAreRecent, SeenFollowsHeard,
    EntriesAgeOut, ReportsAreWritten, SeenOnline

\* The types need two facts that are no types: a message in hand is of a node, and
\* what is replayed was retained.
LEMMA NextStatusTypeOK ==
    StatusTypeOK /\ MessageIsFresh /\ ReplaysAreRetained /\ [StatusNext]_statusVars
        => StatusTypeOK'
<1> USE StatusAssumption DEF StatusTypeOK, Status, Never, NoMessage, Unexpired,
            MessageIsFresh, ReplaysAreRetained, storeVars, flushVars, nodeVars
<1> SUFFICES ASSUME StatusTypeOK, MessageIsFresh, ReplaysAreRetained,
                    [StatusNext]_statusVars
             PROVE  StatusTypeOK'
  OBVIOUS
<1>1. ASSUME NEW n \in Nodes, Report(n) PROVE StatusTypeOK'
  BY <1>1 DEF Report, Hear
<1>2. ASSUME NEW n \in Nodes, Command(n) PROVE StatusTypeOK'
  BY <1>2 DEF Command, Hear
<1>3. ASSUME NEW n \in Nodes, Connect(n) PROVE StatusTypeOK'
  BY <1>3 DEF Connect, HandleStatus, Hear
<1>4. ASSUME NEW n \in Nodes, LastWill(n) PROVE StatusTypeOK'
  BY <1>4 DEF LastWill, HandleStatus, Hear
<1>5. ASSUME NEW n \in Nodes, Replay(n) PROVE StatusTypeOK'
  BY <1>5 DEF Replay, HandleStatus, Hear
<1>6. ASSUME NEW n \in Nodes, TouchNode(n) PROVE StatusTypeOK'
  BY <1>6 DEF TouchNode
<1>7. ASSUME NEW n \in Nodes, TouchFails(n) PROVE StatusTypeOK'
  BY <1>7 DEF TouchFails, Fault
<1>8. ASSUME NEW n \in Nodes, Die(n) PROVE StatusTypeOK'
  BY <1>8 DEF Die
<1>9. CASE WriteStatus
  BY <1>9 DEF WriteStatus
<1>10. CASE WriteStatusFails
  BY <1>10 DEF WriteStatusFails, Fault
<1>11. CASE CacheStatus
  BY <1>11 DEF CacheStatus
<1>12. CASE CacheStatusNoExpire
  BY <1>12 DEF CacheStatusNoExpire, Fault
<1>13. CASE SwapPending
  BY <1>13 DEF SwapPending
<1>14. CASE Terminate
  BY <1>14 DEF Terminate
<1>15. CASE Exit
  BY <1>15 DEF Exit, Resubscribe
<1>16. CASE Reconnect
  BY <1>16 DEF Reconnect, Resubscribe
<1>17. CASE Tick
  BY <1>17 DEF Tick
<1>18. CASE CacheStatusFails
  BY <1>18 DEF CacheStatusFails, Fault
<1>19. CASE UNCHANGED statusVars
  BY <1>19 DEF statusVars
<1> QED
  BY <1>1, <1>2, <1>3, <1>4, <1>5, <1>6, <1>7, <1>8, <1>9, <1>10, <1>11, <1>12,
     <1>13, <1>14, <1>15, <1>16, <1>17, <1>18, <1>19
  DEF StatusNext, Message

\* Time stands still while a message is in hand.
LEMMA NextMessageIsFresh ==
    StatusTypeOK /\ MessageIsFresh /\ [StatusNext]_statusVars => MessageIsFresh'
<1> USE StatusAssumption DEF StatusTypeOK, Status, Never, NoMessage, MessageIsFresh,
            storeVars, flushVars, nodeVars
<1> SUFFICES ASSUME StatusTypeOK, MessageIsFresh, [StatusNext]_statusVars
             PROVE  MessageIsFresh'
  OBVIOUS
<1>1. ASSUME NEW n \in Nodes, Report(n) PROVE MessageIsFresh'
  BY <1>1 DEF Report, Hear
<1>2. ASSUME NEW n \in Nodes, Command(n) PROVE MessageIsFresh'
  BY <1>2 DEF Command, Hear
<1>3. ASSUME NEW n \in Nodes, Connect(n) PROVE MessageIsFresh'
  BY <1>3 DEF Connect, HandleStatus, Hear
<1>4. ASSUME NEW n \in Nodes, LastWill(n) PROVE MessageIsFresh'
  BY <1>4 DEF LastWill, HandleStatus, Hear
<1>5. ASSUME NEW n \in Nodes, Replay(n) PROVE MessageIsFresh'
  BY <1>5 DEF Replay, HandleStatus, Hear
<1>6. ASSUME NEW n \in Nodes, TouchNode(n) PROVE MessageIsFresh'
  BY <1>6 DEF TouchNode
<1>7. ASSUME NEW n \in Nodes, TouchFails(n) PROVE MessageIsFresh'
  BY <1>7 DEF TouchFails, Fault
<1>8. ASSUME NEW n \in Nodes, Die(n) PROVE MessageIsFresh'
  BY <1>8 DEF Die
<1>9. CASE WriteStatus
  BY <1>9 DEF WriteStatus
<1>10. CASE WriteStatusFails
  BY <1>10 DEF WriteStatusFails, Fault
<1>11. CASE CacheStatus
  BY <1>11 DEF CacheStatus
<1>12. CASE CacheStatusNoExpire
  BY <1>12 DEF CacheStatusNoExpire, Fault
<1>13. CASE SwapPending
  BY <1>13 DEF SwapPending
<1>14. CASE Terminate
  BY <1>14 DEF Terminate
<1>15. CASE Exit
  BY <1>15 DEF Exit, Resubscribe
<1>16. CASE Reconnect
  BY <1>16 DEF Reconnect, Resubscribe
<1>17. CASE Tick
  BY <1>17 DEF Tick
<1>18. CASE CacheStatusFails
  BY <1>18 DEF CacheStatusFails, Fault
<1>19. CASE UNCHANGED statusVars
  BY <1>19 DEF statusVars
<1> QED
  BY <1>1, <1>2, <1>3, <1>4, <1>5, <1>6, <1>7, <1>8, <1>9, <1>10, <1>11, <1>12,
     <1>13, <1>14, <1>15, <1>16, <1>17, <1>18, <1>19
  DEF StatusNext, Message

\* Nothing takes a retained status back.
LEMMA NextReplaysAreRetained ==
    StatusTypeOK /\ ReplaysAreRetained /\ [StatusNext]_statusVars
        => ReplaysAreRetained'
<1> USE StatusAssumption DEF StatusTypeOK, Status, Never, NoMessage,
            ReplaysAreRetained, storeVars, flushVars, nodeVars
<1> SUFFICES ASSUME StatusTypeOK, ReplaysAreRetained, [StatusNext]_statusVars
             PROVE  ReplaysAreRetained'
  OBVIOUS
<1>1. ASSUME NEW n \in Nodes, Report(n) PROVE ReplaysAreRetained'
  BY <1>1 DEF Report, Hear
<1>2. ASSUME NEW n \in Nodes, Command(n) PROVE ReplaysAreRetained'
  BY <1>2 DEF Command, Hear
<1>3. ASSUME NEW n \in Nodes, Connect(n) PROVE ReplaysAreRetained'
  BY <1>3 DEF Connect, HandleStatus, Hear
<1>4. ASSUME NEW n \in Nodes, LastWill(n) PROVE ReplaysAreRetained'
  BY <1>4 DEF LastWill, HandleStatus, Hear
<1>5. ASSUME NEW n \in Nodes, Replay(n) PROVE ReplaysAreRetained'
  BY <1>5 DEF Replay, HandleStatus, Hear
<1>6. ASSUME NEW n \in Nodes, TouchNode(n) PROVE ReplaysAreRetained'
  BY <1>6 DEF TouchNode
<1>7. ASSUME NEW n \in Nodes, TouchFails(n) PROVE ReplaysAreRetained'
  BY <1>7 DEF TouchFails, Fault
<1>8. ASSUME NEW n \in Nodes, Die(n) PROVE ReplaysAreRetained'
  BY <1>8 DEF Die
<1>9. CASE WriteStatus
  BY <1>9 DEF WriteStatus
<1>10. CASE WriteStatusFails
  BY <1>10 DEF WriteStatusFails, Fault
<1>11. CASE CacheStatus
  BY <1>11 DEF CacheStatus
<1>12. CASE CacheStatusNoExpire
  BY <1>12 DEF CacheStatusNoExpire, Fault
<1>13. CASE SwapPending
  BY <1>13 DEF SwapPending
<1>14. CASE Terminate
  BY <1>14 DEF Terminate
<1>15. CASE Exit
  BY <1>15 DEF Exit, Resubscribe
<1>16. CASE Reconnect
  BY <1>16 DEF Reconnect, Resubscribe
<1>17. CASE Tick
  BY <1>17 DEF Tick
<1>18. CASE CacheStatusFails
  BY <1>18 DEF CacheStatusFails, Fault
<1>19. CASE UNCHANGED statusVars
  BY <1>19 DEF statusVars
<1> QED
  BY <1>1, <1>2, <1>3, <1>4, <1>5, <1>6, <1>7, <1>8, <1>9, <1>10, <1>11, <1>12,
     <1>13, <1>14, <1>15, <1>16, <1>17, <1>18, <1>19
  DEF StatusNext, Message

\* The ticker does not fire before the flush is over, so what is pending at a tick
\* was touched since the last one.
LEMMA NextTouchesAreRecent ==
    StatusTypeOK /\ TouchesAreRecent /\ [StatusNext]_statusVars => TouchesAreRecent'
<1> USE StatusAssumption DEF StatusTypeOK, Status, Never, NoMessage,
            TouchesAreRecent, storeVars, flushVars, nodeVars
<1> SUFFICES ASSUME StatusTypeOK, TouchesAreRecent, [StatusNext]_statusVars
             PROVE  TouchesAreRecent'
  OBVIOUS
<1>1. ASSUME NEW n \in Nodes, Report(n) PROVE TouchesAreRecent'
  BY <1>1 DEF Report, Hear
<1>2. ASSUME NEW n \in Nodes, Command(n) PROVE TouchesAreRecent'
  BY <1>2 DEF Command, Hear
<1>3. ASSUME NEW n \in Nodes, Connect(n) PROVE TouchesAreRecent'
  BY <1>3 DEF Connect, HandleStatus, Hear
<1>4. ASSUME NEW n \in Nodes, LastWill(n) PROVE TouchesAreRecent'
  BY <1>4 DEF LastWill, HandleStatus, Hear
<1>5. ASSUME NEW n \in Nodes, Replay(n) PROVE TouchesAreRecent'
  BY <1>5 DEF Replay, HandleStatus, Hear
<1>6. ASSUME NEW n \in Nodes, TouchNode(n) PROVE TouchesAreRecent'
  BY <1>6 DEF TouchNode
<1>7. ASSUME NEW n \in Nodes, TouchFails(n) PROVE TouchesAreRecent'
  BY <1>7 DEF TouchFails, Fault
<1>8. ASSUME NEW n \in Nodes, Die(n) PROVE TouchesAreRecent'
  BY <1>8 DEF Die
<1>9. CASE WriteStatus
  BY <1>9 DEF WriteStatus
<1>10. CASE WriteStatusFails
  BY <1>10 DEF WriteStatusFails, Fault
<1>11. CASE CacheStatus
  BY <1>11 DEF CacheStatus
<1>12. CASE CacheStatusNoExpire
  BY <1>12 DEF CacheStatusNoExpire, Fault
<1>13. CASE SwapPending
  BY <1>13 DEF SwapPending
<1>14. CASE Terminate
  BY <1>14 DEF Terminate
<1>15. CASE Exit
  BY <1>15 DEF Exit, Resubscribe
<1>16. CASE Reconnect
  BY <1>16 DEF Reconnect, Resubscribe
<1>17. CASE Tick
  BY <1>17 DEF Tick
<1>18. CASE CacheStatusFails
  BY <1>18 DEF CacheStatusFails, Fault
<1>19. CASE UNCHANGED statusVars
  BY <1>19 DEF statusVars
<1> QED
  BY <1>1, <1>2, <1>3, <1>4, <1>5, <1>6, <1>7, <1>8, <1>9, <1>10, <1>11, <1>12,
     <1>13, <1>14, <1>15, <1>16, <1>17, <1>18, <1>19
  DEF StatusNext, Message

\* last_seen_at is written by a message in hand and by a flush, both of which are
\* recent.
LEMMA NextSeenFollowsHeard ==
    StatusTypeOK /\ MessageIsFresh /\ TouchesAreRecent /\ SeenFollowsHeard /\
        [StatusNext]_statusVars
        => SeenFollowsHeard'
<1> USE StatusAssumption DEF StatusTypeOK, Status, Never, NoMessage,
            SeenFollowsHeard, MessageIsFresh, TouchesAreRecent, storeVars,
            flushVars, nodeVars
<1> SUFFICES ASSUME StatusTypeOK, MessageIsFresh, TouchesAreRecent,
                    SeenFollowsHeard, [StatusNext]_statusVars
             PROVE  SeenFollowsHeard'
  OBVIOUS
<1>1. ASSUME NEW n \in Nodes, Report(n) PROVE SeenFollowsHeard'
  BY <1>1 DEF Report, Hear
<1>2. ASSUME NEW n \in Nodes, Command(n) PROVE SeenFollowsHeard'
  BY <1>2 DEF Command, Hear
<1>3. ASSUME NEW n \in Nodes, Connect(n) PROVE SeenFollowsHeard'
  BY <1>3 DEF Connect, HandleStatus, Hear
<1>4. ASSUME NEW n \in Nodes, LastWill(n) PROVE SeenFollowsHeard'
  BY <1>4 DEF LastWill, HandleStatus, Hear
<1>5. ASSUME NEW n \in Nodes, Replay(n) PROVE SeenFollowsHeard'
  BY <1>5 DEF Replay, HandleStatus, Hear
<1>6. ASSUME NEW n \in Nodes, TouchNode(n) PROVE SeenFollowsHeard'
  BY <1>6 DEF TouchNode
<1>7. ASSUME NEW n \in Nodes, TouchFails(n) PROVE SeenFollowsHeard'
  BY <1>7 DEF TouchFails, Fault
<1>8. ASSUME NEW n \in Nodes, Die(n) PROVE SeenFollowsHeard'
  BY <1>8 DEF Die
<1>9. CASE WriteStatus
  BY <1>9 DEF WriteStatus
<1>10. CASE WriteStatusFails
  BY <1>10 DEF WriteStatusFails, Fault
<1>11. CASE CacheStatus
  BY <1>11 DEF CacheStatus
<1>12. CASE CacheStatusNoExpire
  BY <1>12 DEF CacheStatusNoExpire, Fault
<1>13. CASE SwapPending
  BY <1>13 DEF SwapPending
<1>14. CASE Terminate
  BY <1>14 DEF Terminate
<1>15. CASE Exit
  BY <1>15 DEF Exit, Resubscribe
<1>16. CASE Reconnect
  BY <1>16 DEF Reconnect, Resubscribe
<1>17. CASE Tick
  BY <1>17 DEF Tick
<1>18. CASE CacheStatusFails
  BY <1>18 DEF CacheStatusFails, Fault
<1>19. CASE UNCHANGED statusVars
  BY <1>19 DEF statusVars
<1> QED
  BY <1>1, <1>2, <1>3, <1>4, <1>5, <1>6, <1>7, <1>8, <1>9, <1>10, <1>11, <1>12,
     <1>13, <1>14, <1>15, <1>16, <1>17, <1>18, <1>19
  DEF StatusNext, Message

\* Whoever writes bad news into Redis has just spoken against the node; an EXPIRE
\* that fails leaves an older time in its place.
LEMMA NextEntriesAgeOut ==
    StatusTypeOK /\ MessageIsFresh /\ EntriesAgeOut /\ [StatusNext]_statusVars
        => EntriesAgeOut'
<1> USE StatusAssumption DEF StatusTypeOK, Status, Never, NoMessage, EntriesAgeOut,
            MessageIsFresh, Unexpired, storeVars, flushVars, nodeVars
<1> SUFFICES ASSUME StatusTypeOK, MessageIsFresh, EntriesAgeOut,
                    [StatusNext]_statusVars
             PROVE  EntriesAgeOut'
  OBVIOUS
<1>1. ASSUME NEW n \in Nodes, Report(n) PROVE EntriesAgeOut'
  BY <1>1 DEF Report, Hear
<1>2. ASSUME NEW n \in Nodes, Command(n) PROVE EntriesAgeOut'
  BY <1>2 DEF Command, Hear
<1>3. ASSUME NEW n \in Nodes, Connect(n) PROVE EntriesAgeOut'
  BY <1>3 DEF Connect, HandleStatus, Hear
<1>4. ASSUME NEW n \in Nodes, LastWill(n) PROVE EntriesAgeOut'
  BY <1>4 DEF LastWill, HandleStatus, Hear
<1>5. ASSUME NEW n \in Nodes, Replay(n) PROVE EntriesAgeOut'
  BY <1>5 DEF Replay, HandleStatus, Hear
<1>6. ASSUME NEW n \in Nodes, TouchNode(n) PROVE EntriesAgeOut'
  BY <1>6 DEF TouchNode
<1>7. ASSUME NEW n \in Nodes, TouchFails(n) PROVE EntriesAgeOut'
  BY <1>7 DEF TouchFails, Fault
<1>8. ASSUME NEW n \in Nodes, Die(n) PROVE EntriesAgeOut'
  BY <1>8 DEF Die
<1>9. CASE WriteStatus
  BY <1>9 DEF WriteStatus
<1>10. CASE WriteStatusFails
  BY <1>10 DEF WriteStatusFails, Fault
<1>11. CASE CacheStatus
  BY <1>11 DEF CacheStatus
<1>12. CASE CacheStatusNoExpire
  BY <1>12 DEF CacheStatusNoExpire, Fault
<1>13. CASE SwapPending
  BY <1>13 DEF SwapPending
<1>14. CASE Terminate
  BY <1>14 DEF Terminate
<1>15. CASE Exit
  BY <1>15 DEF Exit, Resubscribe
<1>16. CASE Reconnect
  BY <1>16 DEF Reconnect, Resubscribe
<1>17. CASE Tick
  BY <1>17 DEF Tick
<1>18. CASE CacheStatusFails
  BY <1>18 DEF CacheStatusFails, Fault
<1>19. CASE UNCHANGED statusVars
  BY <1>19 DEF statusVars
<1> QED
  BY <1>1, <1>2, <1>3, <1>4, <1>5, <1>6, <1>7, <1>8, <1>9, <1>10, <1>11, <1>12,
     <1>13, <1>14, <1>15, <1>16, <1>17, <1>18, <1>19
  DEF StatusNext, Message

\* A report reaches the row by the next tick, or something speaks against the node.
LEMMA NextReportsAreWritten ==
    StatusTypeOK /\ MessageIsFresh /\ ReportsAreWritten /\ [StatusNext]_statusVars
        => ReportsAreWritten'
<1> USE StatusAssumption DEF StatusTypeOK, Status, Never, NoMessage,
            ReportsAreWritten, MessageIsFresh, SeenOnline, storeVars, flushVars,
            nodeVars
<1> SUFFICES ASSUME StatusTypeOK, MessageIsFresh, ReportsAreWritten,
                    [StatusNext]_statusVars
             PROVE  ReportsAreWritten'
  OBVIOUS
<1>1. ASSUME NEW n \in Nodes, Report(n) PROVE ReportsAreWritten'
  BY <1>1 DEF Report, Hear
<1>2. ASSUME NEW n \in Nodes, Command(n) PROVE ReportsAreWritten'
  BY <1>2 DEF Command, Hear
<1>3. ASSUME NEW n \in Nodes, Connect(n) PROVE ReportsAreWritten'
  BY <1>3 DEF Connect, HandleStatus, Hear
<1>4. ASSUME NEW n \in Nodes, LastWill(n) PROVE ReportsAreWritten'
  BY <1>4 DEF LastWill, HandleStatus, Hear
<1>5. ASSUME NEW n \in Nodes, Replay(n) PROVE ReportsAreWritten'
  BY <1>5 DEF Replay, HandleStatus, Hear
<1>6. ASSUME NEW n \in Nodes, TouchNode(n) PROVE ReportsAreWritten'
  BY <1>6 DEF TouchNode
<1>7. ASSUME NEW n \in Nodes, TouchFails(n) PROVE ReportsAreWritten'
  BY <1>7 DEF TouchFails, Fault
<1>8. ASSUME NEW n \in Nodes, Die(n) PROVE ReportsAreWritten'
  BY <1>8 DEF Die
<1>9. CASE WriteStatus
  BY <1>9 DEF WriteStatus
<1>10. CASE WriteStatusFails
  BY <1>10 DEF WriteStatusFails, Fault
<1>11. CASE CacheStatus
  BY <1>11 DEF CacheStatus
<1>12. CASE CacheStatusNoExpire
  BY <1>12 DEF CacheStatusNoExpire, Fault
<1>13. CASE SwapPending
  BY <1>13 DEF SwapPending
<1>14. CASE Terminate
  BY <1>14 DEF Terminate
<1>15. CASE Exit
  BY <1>15 DEF Exit, Resubscribe
<1>16. CASE Reconnect
  BY <1>16 DEF Reconnect, Resubscribe
<1>17. CASE Tick
  BY <1>17 DEF Tick
<1>18. CASE CacheStatusFails
  BY <1>18 DEF CacheStatusFails, Fault
<1>19. CASE UNCHANGED statusVars
  BY <1>19 DEF statusVars
<1> QED
  BY <1>1, <1>2, <1>3, <1>4, <1>5, <1>6, <1>7, <1>8, <1>9, <1>10, <1>11, <1>12,
     <1>13, <1>14, <1>15, <1>16, <1>17, <1>18, <1>19
  DEF StatusNext, Message


\* The inductive invariant holds throughout.
LEMMA StatusInvariance == StatusSpec => []StatusInv
<1>1. StatusInv /\ [StatusNext]_statusVars => StatusInv'
  BY NextStatusTypeOK, NextMessageIsFresh, NextReplaysAreRetained,
     NextTouchesAreRecent, NextSeenFollowsHeard, NextEntriesAgeOut,
     NextReportsAreWritten
  DEF StatusInv
<1> QED BY InitStatusInv, <1>1, PTL DEF StatusSpec

-----------------------------------------------------------------------------
(* Status: the theorems *)

\* Type correctness of the nodes' status: the rows, the Redis entries and their times
\* to live, the pending touches and the broker's messages.
THEOREM StatusTypeCorrect == StatusSpec => []StatusTypeOK
<1>1. StatusInv => StatusTypeOK
  BY DEF StatusInv
<1> QED BY <1>1, StatusInvariance, PTL

\* For any number of nodes, any display age and any number of errors and restarts: a
\* node nobody has heard of for longer than the display age and one flush interval
\* is displayed offline (service.go:357-395, modules.js:102-116).
THEOREM SilentNodesAreDisplayedOffline == StatusSpec => []SilenceIsDisplayed
<1>1. StatusInv => SilenceIsDisplayed
  <2> SUFFICES ASSUME StatusInv, NEW n \in Nodes, now - heard[n] > DisplayAge + 1
               PROVE  now - db[n].seen > DisplayAge
    BY DEF SilenceIsDisplayed, Displayed
  <2>1. /\ now \in Int /\ heard[n] \in Int /\ db[n].seen \in Int
        /\ db[n].seen <= heard[n] + 1
    BY DEF StatusInv, StatusTypeOK, SeenFollowsHeard
  <2> QED BY <2>1, StatusAssumption
<1> QED BY <1>1, StatusInvariance, PTL

\* For any number of nodes, errors and restarts: a node that has been connected and
\* reporting for longer than the status TTL and one unit, with nothing that spoke
\* against it since, is displayed online, but for a Redis key without a TTL.  A
\* report just missed by a flush reaches the row two units after the one before it,
\* so the display age has to be two units at least; it is three (modules.js:102-116,
\* main.go:191).
THEOREM ReportingNodesAreDisplayedOnline ==
    ASSUME DisplayAge >= 2
    PROVE  StatusSpec => []ReportingIsDisplayed
<1>1. StatusInv => ReportingIsDisplayed
  <2> SUFFICES ASSUME StatusInv, NEW n \in alive,
                      now - healthy[n] > StatusTTL + 1, redis[n].expires # Never
               PROVE  Displayed(n) = "online"
    BY DEF ReportingIsDisplayed
  <2>t. /\ n \in Nodes /\ now \in Int /\ healthy[n] \in Int /\ db[n].seen \in Int
        /\ redis[n].expires \in Int /\ StatusTTL >= 1 /\ StatusTTL \in Int
        /\ DisplayAge \in Int
    BY StatusAssumption DEF StatusInv, StatusTypeOK, Never
  <2>1. SeenOnline(n, 2)
    BY <2>t DEF StatusInv, ReportsAreWritten
  <2>2. redis[n].status # "online" => redis[n].expires < now
    BY <2>t DEF StatusInv, EntriesAgeOut
  <2>3. Shown(n) = "online"
    BY <2>t, <2>1, <2>2 DEF Shown, SeenOnline, Unexpired
  <2> QED BY <2>t, <2>1, <2>3 DEF Displayed, SeenOnline
<1> QED BY <1>1, StatusInvariance, PTL
=============================================================================
