---------------------------- MODULE NodeRegistry ----------------------------
(***************************************************************************)
(* The modules and nodes tables of module-svc, the HTTP handlers that      *)
(* change them (service.go, repository.go) and the MQTT goroutine that     *)
(* registers the nodes it hears of (subscriber.go).  Each SQL statement is *)
(* a step: no handler runs inside a transaction.                           *)
(*                                                                         *)
(* What a handler does after its last statement (drop the cached mapping,  *)
(* write the audit event) is its Reply step; NodeMapping adds the former,  *)
(* Outbox models the latter.                                               *)
(***************************************************************************)
EXTENDS Naturals

CONSTANTS
    Modules,   \* module ids; a uuid is never used twice
    Nodes,     \* node ids, chosen by the firmware
    Handlers,  \* HTTP handlers running concurrently
    MaxFaults, \* bound on database errors
    NoModule, NoNode

ASSUME RegistryAssumption ==
    /\ NoModule \notin Modules
    /\ NoNode \notin Nodes
    /\ MaxFaults \in Nat

VARIABLES
    module,    \* the modules table, and which ids were used
    node,      \* the nodes table
    request,   \* what each HTTP handler is doing
    mqtt,      \* what the MQTT goroutine is doing
    faults,
    overtaken  \* history: nodes paired while their module was being deleted,
               \* or later

rvars == <<module, node, request, mqtt, faults, overtaken>>

Absent == [known |-> FALSE, module |-> NoModule, paired |-> FALSE]

Detached == [known |-> TRUE, module |-> NoModule, paired |-> FALSE]

Attached(m) == [known |-> TRUE, module |-> m, paired |-> TRUE]

Request(op, step, n, m) == [op |-> op, at |-> step, node |-> n, module |-> m]

Idle == Request("none", "idle", NoNode, NoModule)

Quiet == [at |-> "idle", node |-> NoNode]

Init ==
    /\ module = [m \in Modules |-> "unused"]
    /\ node = [n \in Nodes |-> Absent]
    /\ request = [h \in Handlers |-> Idle]
    /\ mqtt = Quiet
    /\ faults = 0
    /\ overtaken = {}

Fault ==
    /\ faults < MaxFaults
    /\ faults' = faults + 1

Goto(h, step) == request' = [request EXCEPT ![h] = [@ EXCEPT !.at = step]]

Finish(h) == request' = [request EXCEPT ![h] = Idle]

-----------------------------------------------------------------------------
(* Modules *)

CreateModule(h, m) ==
    /\ request[h] = Idle
    /\ module[m] = "unused"
    /\ module' = [module EXCEPT ![m] = "live"]
    /\ UNCHANGED <<node, request, mqtt, faults, overtaken>>

\* Mutant: the module goes without its nodes being detached.
DetachNothing(h, m) ==
    /\ request[h] = Idle
    /\ module[m] = "live"
    /\ module' = [module EXCEPT ![m] = "deleted"]
    /\ request' = [request EXCEPT ![h] = Request("deleteModule", "remove", NoNode, m)]
    /\ UNCHANGED <<node, mqtt, faults, overtaken>>

\* The first statement of DeleteModule, for any id the caller sends.
DetachNodes(h, m) ==
    /\ request[h] = Idle
    /\ module[m] # "unused"
    /\ node' = [n \in Nodes |-> IF node[n].module = m THEN Detached ELSE node[n]]
    /\ overtaken' = {n \in overtaken : node[n].module # m}
    /\ request' = [request EXCEPT ![h] = Request("deleteModule", "remove", NoNode, m)]
    /\ UNCHANGED <<module, mqtt, faults>>

\* The second one; no row deleted is ErrNotFound.
RemoveModule(h) ==
    /\ request[h].at = "remove"
    /\ module' = [module EXCEPT ![request[h].module] = "deleted"]
    /\ IF module[request[h].module] = "live" THEN Goto(h, "reply") ELSE Finish(h)
    /\ UNCHANGED <<node, mqtt, faults, overtaken>>

-----------------------------------------------------------------------------
(* Pairing *)

\* ModuleExists; a missing module ends the request.
PairCheckModule(h, n, m) ==
    /\ request[h] = Idle
    /\ module[m] = "live"
    /\ request' = [request EXCEPT ![h] = Request("pair", "lookup", n, m)]
    /\ UNCHANGED <<module, node, mqtt, faults, overtaken>>

PairLookup(h) ==
    /\ request[h].at = "lookup"
    /\ IF node[request[h].node].known THEN Goto(h, "update") ELSE Finish(h)
    /\ UNCHANGED <<module, node, mqtt, faults, overtaken>>

UnpairLookup(h, n) ==
    /\ request[h] = Idle
    /\ node[n].known
    /\ request' = [request EXCEPT ![h] = Request("unpair", "update", n, NoModule)]
    /\ UNCHANGED <<module, node, mqtt, faults, overtaken>>

\* Between the first and the second statement of DeleteModule, or after them.
Vanishing(m) ==
    \/ module[m] # "live"
    \/ \E h \in Handlers : request[h].at = "remove" /\ request[h].module = m

\* The UPDATE of Pair and of Unpair: no row matches a node deleted meanwhile.
UpdatePairing(h) ==
    LET n == request[h].node IN
    /\ request[h].at = "update"
    /\ node' = [node EXCEPT ![n] =
                   IF ~@.known THEN @
                   ELSE IF request[h].op = "pair" THEN Attached(request[h].module)
                   ELSE Detached]
    /\ overtaken' = IF /\ node[n].known
                       /\ request[h].op = "pair" /\ Vanishing(request[h].module)
                    THEN overtaken \cup {n} ELSE overtaken \ {n}
    /\ Goto(h, "reread")
    /\ UNCHANGED <<module, mqtt, faults>>

\* Both read the node again for the answer.
RereadNode(h) ==
    /\ request[h].at = "reread"
    /\ IF node[request[h].node].known THEN Goto(h, "reply") ELSE Finish(h)
    /\ UNCHANGED <<module, node, mqtt, faults, overtaken>>

DeleteNode(h, n) ==
    /\ request[h] = Idle
    /\ node[n].known
    /\ node' = [node EXCEPT ![n] = Absent]
    /\ overtaken' = overtaken \ {n}
    /\ request' = [request EXCEPT ![h] = Request("deleteNode", "reply", n, NoModule)]
    /\ UNCHANGED <<module, mqtt, faults>>

Reply(h) ==
    /\ request[h].at = "reply"
    /\ Finish(h)
    /\ UNCHANGED <<module, node, mqtt, faults, overtaken>>

\* A statement fails: the handler answers 500, what it wrote stays written.
RequestFails(h) ==
    /\ request[h].at \in {"lookup", "update", "reread", "remove"}
    /\ Fault
    /\ Finish(h)
    /\ UNCHANGED <<module, node, mqtt, overtaken>>

-----------------------------------------------------------------------------
(* The MQTT goroutine: one message at a time, in order *)

Hears(n, step) == mqtt' = [at |-> step, node |-> n]

\* Mutant: UpsertDiscovered does not look for the node first.
RegisterBlindly(n) == Hears(n, "insert")

\* The lookup of UpsertDiscovered.
Register(n) == Hears(n, IF node[n].known THEN "refresh" ELSE "insert")

HandleDiscovery(n) ==
    /\ mqtt = Quiet
    /\ Register(n)
    /\ UNCHANGED <<module, node, request, faults, overtaken>>

\* A status for an unknown node registers it, which looks it up again.
HandleStatus(n) ==
    /\ mqtt = Quiet
    /\ Hears(n, IF node[n].known THEN "refresh" ELSE "register")
    /\ UNCHANGED <<module, node, request, faults, overtaken>>

RegisterFromStatus ==
    /\ mqtt.at = "register"
    /\ Register(mqtt.node)
    /\ UNCHANGED <<module, node, request, faults, overtaken>>

InsertNode ==
    /\ mqtt.at = "insert"
    /\ node' = [node EXCEPT ![mqtt.node] = Detached]
    /\ mqtt' = Quiet
    /\ UNCHANGED <<module, request, faults, overtaken>>

\* Mutant: the refresh writes the whole row, as the insert does.
RefreshWholeNode ==
    /\ mqtt.at = "refresh"
    /\ node' = [node EXCEPT ![mqtt.node] = IF @.known THEN Detached ELSE @]
    /\ mqtt' = Quiet
    /\ UNCHANGED <<module, request, faults, overtaken>>

\* Address, firmware and status only, of a row that may be gone by now.
RefreshNode ==
    /\ mqtt.at = "refresh"
    /\ mqtt' = Quiet
    /\ UNCHANGED <<module, node, request, faults, overtaken>>

MessageFails ==
    /\ mqtt # Quiet
    /\ Fault
    /\ mqtt' = Quiet
    /\ UNCHANGED <<module, node, request, overtaken>>

-----------------------------------------------------------------------------
ModuleRequest(h) ==
    \/ \E m \in Modules : CreateModule(h, m) \/ DetachNodes(h, m)
    \/ RemoveModule(h)

PairingRequest(h) ==
    \/ \E n \in Nodes, m \in Modules : PairCheckModule(h, n, m)
    \/ PairLookup(h)
    \/ \E n \in Nodes : UnpairLookup(h, n)
    \/ UpdatePairing(h)
    \/ RereadNode(h)

Message ==
    \/ \E n \in Nodes : HandleDiscovery(n) \/ HandleStatus(n)
    \/ RegisterFromStatus
    \/ InsertNode
    \/ RefreshNode
    \/ MessageFails

Next ==
    \/ \E h \in Handlers :
        \/ ModuleRequest(h)
        \/ PairingRequest(h)
        \/ \E n \in Nodes : DeleteNode(h, n)
        \/ Reply(h)
        \/ RequestFails(h)
    \/ Message

Spec == Init /\ [][Next]_rvars

-----------------------------------------------------------------------------
(* Properties *)

Rows == {Absent, Detached} \cup {Attached(m) : m \in Modules}

TypeOK ==
    /\ module \in [Modules -> {"unused", "live", "deleted"}]
    /\ node \in [Nodes -> Rows]
    /\ request \in [Handlers ->
           [op : {"none", "pair", "unpair", "deleteNode", "deleteModule"},
            at : {"idle", "lookup", "update", "reread", "remove", "reply"},
            node : Nodes \cup {NoNode}, module : Modules \cup {NoModule}]]
    /\ mqtt \in {Quiet} \cup [at : {"register", "insert", "refresh"}, node : Nodes]
    /\ faults \in 0 .. MaxFaults
    /\ overtaken \subseteq Nodes

\* A node that belongs to a module that does not exist is in no module's list
\* and, being paired, not in the discovered list either, although
\* repository.go:144 promises that the nodes of a deleted module "remain
\* discoverable".  Nothing but a Pair that was writing while DeleteModule ran can
\* leave one behind: no failing statement, no repeated or concurrent deletion
\* (repository.go:143-158) and no discovery.
DanglingOnlyByRace ==
    \A n \in Nodes :
        node[n].module # NoModule /\ module[node[n].module] # "live"
            => n \in overtaken

\* UpsertDiscovered decides to INSERT on what an earlier SELECT said
\* (repository.go:174-188), without a transaction: the row is still absent when
\* it does, so the unique index on node_id never refuses it.
InsertNeverCollides ==
    mqtt.at = "insert" => ~node[mqtt.node].known

\* repository.go:193, "keep pairing state intact": what the node itself says
\* never changes the module of a node that is already registered, whatever
\* happened between the SELECT and the UPDATE.
DiscoveryKeepsPairing ==
    [][mqtt' # mqtt =>
        \A n \in Nodes : node[n].known => node'[n] = node[n]]_rvars
=============================================================================
