---------------------------- MODULE NodeMapping -----------------------------
(***************************************************************************)
(* The in-memory cache of module-svc that tells telemetry ingestion which  *)
(* tags and which module a node has (service.go, getNodeMeta), composed    *)
(* with the tables it is filled from (NodeRegistry) and the tag endpoints. *)
(* Ingestion runs in the MQTT goroutine, the endpoints in HTTP handlers.   *)
(***************************************************************************)
EXTENDS NodeRegistry

CONSTANT MaxEdits \* bound on the writes to the tags of one node

ASSUME MappingAssumption == MaxEdits \in Nat

VARIABLES
    tags,   \* version of the node's sensor tags in node_tags
    meta,   \* metaCache
    fill    \* the getNodeMeta call in progress

mvars == <<rvars, tags, meta, fill>>

\* What the database says of a node.
Mapping(n) == [tags |-> tags[n], module |-> node[n].module]

\* excuse is history: why the entry need not be what the database says.
NoMeta == [cached |-> FALSE, tags |-> 0, module |-> NoModule, excuse |-> "none"]

Filling(step, n, t, m) == [at |-> step, node |-> n, tags |-> t, module |-> m]

NoFill == Filling("idle", NoNode, 0, NoModule)

MInit ==
    /\ Init
    /\ tags = [n \in Nodes |-> 0]
    /\ meta = [n \in Nodes |-> NoMeta]
    /\ fill = NoFill

InvalidateMeta(n) == meta' = [meta EXCEPT ![n] = NoMeta]

\* The mapping of these nodes changes and the cache is not told.
Neglect(S) ==
    meta' = [n \in Nodes |-> IF n \in S /\ meta[n].cached
                             THEN [meta[n] EXCEPT !.excuse = "neglected"] ELSE meta[n]]

EditTags(n) ==
    /\ tags[n] < MaxEdits
    /\ tags' = [tags EXCEPT ![n] = @ + 1]

-----------------------------------------------------------------------------
(* getNodeMeta on a miss; a hit changes nothing *)

\* Mutant: telemetry is ingested by a goroutine of its own.
MissMetaConcurrently(n) ==
    /\ fill = NoFill
    /\ ~meta[n].cached
    /\ fill' = Filling("tags", n, 0, NoModule)
    /\ UNCHANGED <<rvars, tags, meta>>

MissMeta(n) ==
    /\ mqtt = Quiet /\ fill = NoFill
    /\ ~meta[n].cached
    /\ fill' = Filling("tags", n, 0, NoModule)
    /\ UNCHANGED <<rvars, tags, meta>>

ListNodeTags ==
    /\ fill.at = "tags"
    /\ fill' = Filling("module", fill.node, tags[fill.node], NoModule)
    /\ UNCHANGED <<rvars, tags, meta>>

ListNodeTagsFails ==
    /\ fill.at = "tags"
    /\ Fault
    /\ fill' = NoFill
    /\ UNCHANGED <<module, node, request, mqtt, overtaken, tags, meta>>

GetModuleIDByNode ==
    /\ fill.at = "module"
    /\ fill' = Filling("put", fill.node, fill.tags, node[fill.node].module)
    /\ UNCHANGED <<rvars, tags, meta>>

\* The error is taken for "no module".
GetModuleIDFails ==
    /\ fill.at = "module"
    /\ Fault
    /\ fill' = Filling("failed", fill.node, fill.tags, NoModule)
    /\ UNCHANGED <<module, node, request, mqtt, overtaken, tags, meta>>

\* What the fill read, and why it need not be what the database says by now:
\* the lookup of the module failed, or the mapping has changed since the reads.
Read ==
    [cached |-> TRUE, tags |-> fill.tags, module |-> fill.module,
     excuse |->
        IF [tags |-> fill.tags, module |-> fill.module] = Mapping(fill.node)
        THEN "none"
        ELSE IF fill.at = "failed" /\ fill.tags = tags[fill.node]
        THEN "failed" ELSE "raced"]

\* Mutant: what was read is kept and put again at the next miss.
PutMetaAgain ==
    /\ fill.at \in {"put", "failed"}
    /\ meta' = [meta EXCEPT ![fill.node] = Read]
    /\ UNCHANGED <<rvars, tags, fill>>

PutMeta ==
    /\ fill.at \in {"put", "failed"}
    /\ meta' = [meta EXCEPT ![fill.node] = Read]
    /\ fill' = NoFill
    /\ UNCHANGED <<rvars, tags>>

\* nodeMetaTTL has passed: the next call is a miss.
Expire(n) ==
    /\ meta[n].cached
    /\ InvalidateMeta(n)
    /\ UNCHANGED <<rvars, tags, fill>>

-----------------------------------------------------------------------------
(* The tag endpoints *)

\* SaveNodeTags: DeleteSensorTagsExcept, then the upserts.
DeleteSensorTagsExcept(h, n) ==
    /\ request[h] = Idle
    /\ EditTags(n)
    /\ request' = [request EXCEPT ![h] = Request("saveTags", "upsert", n, NoModule)]
    /\ UNCHANGED <<module, node, mqtt, faults, overtaken, meta, fill>>

UpsertNodeTags(h) ==
    /\ request[h].at = "upsert"
    /\ EditTags(request[h].node)
    /\ Goto(h, "reply")
    /\ UNCHANGED <<module, node, mqtt, faults, overtaken, meta, fill>>

UpsertFails(h) ==
    /\ request[h].at = "upsert"
    /\ Fault
    /\ Finish(h)
    /\ Neglect({request[h].node})
    /\ UNCHANGED <<module, node, mqtt, overtaken, tags, fill>>

\* SaveNodeTag is one upsert.  DeleteActuatorTag, given the id of a sensor tag,
\* changes the mapping the same way.
SaveNodeTag(h, n) ==
    /\ request[h] = Idle
    /\ EditTags(n)
    /\ Neglect({n})
    /\ UNCHANGED <<rvars, fill>>

\* DeleteNodeTag drops the cached mapping first.
InvalidateBeforeDelete(h, n) ==
    /\ request[h] = Idle
    /\ InvalidateMeta(n)
    /\ request' = [request EXCEPT ![h] = Request("deleteTag", "deleteTag", n, NoModule)]
    /\ UNCHANGED <<module, node, mqtt, faults, overtaken, tags, fill>>

DeleteNodeTag(h) ==
    /\ request[h].at = "deleteTag"
    /\ EditTags(request[h].node)
    /\ Neglect({request[h].node})
    /\ Finish(h)
    /\ UNCHANGED <<module, node, mqtt, faults, overtaken, fill>>

-----------------------------------------------------------------------------
(* The registry's own steps *)

\* Mutant: Unpair does not drop the cached mapping.
ReplyForgettingUnpair(h) ==
    /\ Reply(h)
    /\ IF request[h].op \in {"pair", "deleteNode", "saveTags"}
       THEN InvalidateMeta(request[h].node)
       ELSE UNCHANGED meta
    /\ UNCHANGED <<tags, fill>>

\* Pair, Unpair, DeleteNode and SaveNodeTags end with invalidateMeta.
ReplyAndInvalidate(h) ==
    /\ Reply(h)
    /\ IF request[h].op \in {"pair", "unpair", "deleteNode", "saveTags"}
       THEN InvalidateMeta(request[h].node)
       ELSE UNCHANGED meta
    /\ UNCHANGED <<tags, fill>>

\* The steps that leave the cache alone for the request to invalidate it later.
RegistryStep ==
    /\ \/ \E h \in Handlers :
           \/ \E m \in Modules : CreateModule(h, m)
           \/ RemoveModule(h)
           \/ \E n \in Nodes, m \in Modules : PairCheckModule(h, n, m)
           \/ \E n \in Nodes : UnpairLookup(h, n) \/ DeleteNode(h, n)
           \/ PairLookup(h) \/ UpdatePairing(h) \/ RereadNode(h)
       \/ fill = NoFill /\ Message
    /\ UNCHANGED <<tags, meta, fill>>

\* DeleteModule drops nothing from the cache.
DetachNodesQuietly(h, m) ==
    /\ DetachNodes(h, m)
    /\ Neglect({n \in Nodes : node[n].module = m})
    /\ UNCHANGED <<tags, fill>>

\* Pair and Unpair that fail after their UPDATE return without invalidateMeta.
RequestFailsQuietly(h) ==
    /\ RequestFails(h)
    /\ IF request[h].at = "reread" THEN Neglect({request[h].node}) ELSE UNCHANGED meta
    /\ UNCHANGED <<tags, fill>>

TagRequest(h) ==
    \/ \E n \in Nodes :
        DeleteSensorTagsExcept(h, n) \/ SaveNodeTag(h, n) \/ InvalidateBeforeDelete(h, n)
    \/ UpsertNodeTags(h)
    \/ UpsertFails(h)
    \/ DeleteNodeTag(h)

GetNodeMeta ==
    \/ \E n \in Nodes : MissMeta(n)
    \/ ListNodeTags
    \/ ListNodeTagsFails
    \/ GetModuleIDByNode
    \/ GetModuleIDFails
    \/ PutMeta

MNext ==
    \/ RegistryStep
    \/ \E h \in Handlers :
        \/ \E m \in Modules : DetachNodesQuietly(h, m)
        \/ RequestFailsQuietly(h)
        \/ ReplyAndInvalidate(h)
        \/ TagRequest(h)
    \/ GetNodeMeta
    \/ \E n \in Nodes : Expire(n)

MSpec == MInit /\ [][MNext]_mvars

\* Time passes: an entry that stays in the cache expires.
MFairSpec == MSpec /\ \A n \in Nodes : WF_mvars(Expire(n))

-----------------------------------------------------------------------------
(* Properties *)

MTypeOK ==
    /\ module \in [Modules -> {"unused", "live", "deleted"}]
    /\ node \in [Nodes -> Rows]
    /\ request \in [Handlers ->
           [op : {"none", "pair", "unpair", "deleteNode", "deleteModule",
                  "saveTags", "deleteTag"},
            at : {"idle", "lookup", "update", "reread", "remove", "reply",
                  "upsert", "deleteTag"},
            node : Nodes \cup {NoNode}, module : Modules \cup {NoModule}]]
    /\ mqtt \in [at : {"idle", "register", "insert", "refresh"},
                 node : Nodes \cup {NoNode}]
    /\ faults \in 0 .. MaxFaults
    /\ tags \in [Nodes -> 0 .. MaxEdits]
    /\ meta \in [Nodes -> [cached : BOOLEAN, tags : 0 .. MaxEdits,
                           module : Modules \cup {NoModule},
                           excuse : {"none", "raced", "failed", "neglected"}]]
    /\ fill \in [at : {"idle", "tags", "module", "put", "failed"}, tags : 0 .. MaxEdits,
                 node : Nodes \cup {NoNode}, module : Modules \cup {NoModule}]
    /\ mqtt = Quiet \/ fill = NoFill

Coherent(n) ==
    meta[n].cached => [tags |-> meta[n].tags, module |-> meta[n].module] = Mapping(n)

\* A request has written the mapping of n and not yet dropped it from the cache.
InvalidationPending(n) ==
    \E h \in Handlers : request[h].node = n /\ request[h].at \in {"reread", "upsert", "reply"}

\* An entry whose module could not be looked up: nothing else of it is wrong.
OnlyModuleUnknown(n) ==
    /\ meta[n].excuse = "failed"
    /\ meta[n].module = NoModule /\ meta[n].tags = tags[n]

\* When no request is changing the mapping of a node, its entry is what the
\* database says, unless the mapping changed between the reads and the put that
\* made the entry, or one of these changed it since: SaveNodeTag, DeleteNodeTag,
\* DeleteModule, and SaveNodeTags, Pair or Unpair with a statement that failed.
\* Pair, Unpair, DeleteNode and SaveNodeTags that succeed leave no stale entry
\* behind, in any interleaving with each other, discovery and ingestion; and a
\* lookup that fails costs a node its module and never another part of its
\* mapping, nor gives it a module it does not have (service.go:92-123, 255-283,
\* 461).
StaleOnlyIfExcused ==
    \A n \in Nodes :
        \/ Coherent(n)
        \/ InvalidationPending(n)
        \/ meta[n].excuse \in {"raced", "neglected"}
        \/ OnlyModuleUnknown(n)

\* service.go:83-85: "a short TTL plus explicit invalidation keeps the cache both
\* fast and correct".  Once the rows of a node have stopped changing, ingestion
\* is given what they say from some moment on: no stale entry, fill under way or
\* failed lookup is left that could bring an old mapping back.
SettledMappingIsServed ==
    \A n \in Nodes : <>[][FALSE]_(Mapping(n)) => <>[]Coherent(n)
=============================================================================
