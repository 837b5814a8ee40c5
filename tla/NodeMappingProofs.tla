------------------------- MODULE NodeMappingProofs --------------------------
(***************************************************************************)
(* Proofs about NodeRegistry, and about NodeMapping, which composes the    *)
(* mapping cache with it, for every set of modules, nodes and handlers.    *)
(*                                                                         *)
(* IInv is the inductive invariant of the registry: TypeOK, which rows a   *)
(* request may name, InsertNeverCollides, and a DanglingOnlyByRace that    *)
(* already speaks of the nodes of a module whose deletion has only begun.  *)
(*                                                                         *)
(* MInv is the one of the composition.  StaleOnlyIfExcused is not          *)
(* inductive: a Pair or Unpair that finds its node deleted when it reads   *)
(* it again ends without dropping the entry.  MInv says that the drop of   *)
(* such a request is not needed: another request, the one that deleted the *)
(* node, owes it, or has made it.                                          *)
(***************************************************************************)
EXTENDS NodeMapping, TLAPS

-----------------------------------------------------------------------------
(* The registry: the inductive invariant *)

\* A pairing under way names a node and a module.
PairsNameTheirRows ==
    \A h \in Handlers : request[h].op = "pair" =>
        request[h].module \in Modules /\ request[h].node \in Nodes

\* DeleteModule detached the nodes before it removes the module: whoever is in
\* a vanishing module came in later.
VanishingHasOnlyOvertaken ==
    \A n \in Nodes :
        node[n].module \in Modules /\ Vanishing(node[n].module) => n \in overtaken

IInv ==
    /\ TypeOK
    /\ PairsNameTheirRows
    /\ InsertNeverCollides
    /\ VanishingHasOnlyOvertaken

\* The parts of a row.
LEMMA RowFields ==
    ASSUME NEW r \in Rows
    PROVE  /\ r.known \in BOOLEAN
           /\ r.module \in Modules \cup {NoModule}
           /\ r.paired \in BOOLEAN
           /\ ~r.known => r = Absent
<1>0. CASE r = Absent
  BY <1>0 DEF Absent
<1>1. CASE r = Detached
  BY <1>1 DEF Detached
<1>2. ASSUME NEW m \in Modules, r = Attached(m)
      PROVE  r.known = TRUE /\ r.module = m /\ r.paired = TRUE
  BY <1>2 DEF Attached
<1> QED BY <1>0, <1>1, <1>2 DEF Rows

-----------------------------------------------------------------------------
\* The types hold initially.
LEMMA InitTypeOK == Init => TypeOK
BY RegistryAssumption DEF Init, TypeOK, Rows, Idle, Request, Quiet

\* No step of the registry breaks them.
LEMMA NextTypeOK == TypeOK /\ PairsNameTheirRows /\ [Next]_rvars => TypeOK'
<1> USE RegistryAssumption DEF TypeOK, Idle, Request, Quiet, Finish, Goto, Hears
<1> SUFFICES ASSUME TypeOK, PairsNameTheirRows, [Next]_rvars PROVE TypeOK'
  OBVIOUS
<1>r. Absent \in Rows /\ Detached \in Rows /\ \A m \in Modules : Attached(m) \in Rows
  BY DEF Rows
<1>1. ASSUME NEW h \in Handlers, ModuleRequest(h) PROVE TypeOK'
  <2>1. ASSUME NEW m \in Modules, CreateModule(h, m) PROVE TypeOK'
    BY <2>1 DEF CreateModule
  <2>2. ASSUME NEW m \in Modules, DetachNodes(h, m) PROVE TypeOK'
    <3>1. node' \in [Nodes -> Rows]
      BY <2>2, <1>r DEF DetachNodes
    <3>2. overtaken' \in SUBSET Nodes
      BY <2>2 DEF DetachNodes
    <3> QED BY <2>2, <3>1, <3>2 DEF DetachNodes
  <2>3. CASE RemoveModule(h)
    <3>1. module' \in [Modules -> {"unused", "live", "deleted"}]
      BY <2>3 DEF RemoveModule
    <3>2. \/ request' = [request EXCEPT ![h] = Idle]
          \/ request' = [request EXCEPT ![h] = [@ EXCEPT !.at = "reply"]]
      BY <2>3 DEF RemoveModule
    <3> QED BY <2>3, <3>1, <3>2 DEF RemoveModule
  <2> QED BY <1>1, <2>1, <2>2, <2>3 DEF ModuleRequest
<1>2. ASSUME NEW h \in Handlers, PairingRequest(h) PROVE TypeOK'
  <2>1. ASSUME NEW n \in Nodes, NEW m \in Modules, PairCheckModule(h, n, m)
        PROVE  TypeOK'
    BY <2>1 DEF PairCheckModule
  <2>2. CASE PairLookup(h)
    BY <2>2 DEF PairLookup
  <2>3. ASSUME NEW n \in Nodes, UnpairLookup(h, n) PROVE TypeOK'
    BY <2>3 DEF UnpairLookup
  <2>4. CASE UpdatePairing(h)
    <3> DEFINE n == request[h].node
    <3>1. node' \in [Nodes -> Rows]
      <4>1. CASE n \in Nodes
        <5>1. node[n] \in Rows
          BY <4>1
        <5>2. request[h].op = "pair" => Attached(request[h].module) \in Rows
          BY <1>r DEF PairsNameTheirRows
        <5> DEFINE r == IF ~node[n].known THEN node[n]
                        ELSE IF request[h].op = "pair" THEN Attached(request[h].module)
                        ELSE Detached
        <5>3. r \in Rows
          BY <5>1, <5>2, <1>r
        <5>4. node' = [node EXCEPT ![n] = r]
          BY <2>4 DEF UpdatePairing
        <5> HIDE DEF r
        <5> QED BY <5>3, <5>4
      <4>2. CASE n \notin Nodes
        <5>1. node' = node
          BY <2>4, <4>2 DEF UpdatePairing
        <5> QED BY <5>1
      <4> QED BY <4>1, <4>2
    <3>2. overtaken' \in SUBSET Nodes
      <4>1. overtaken' \in {overtaken \cup {n}, overtaken \ {n}}
        BY <2>4 DEF UpdatePairing
      <4>2. node[n].known /\ request[h].op = "pair" => n \in Nodes
        BY DEF PairsNameTheirRows
      <4> QED BY <2>4, <4>1, <4>2 DEF UpdatePairing
    <3>3. /\ request' = [request EXCEPT ![h] = [@ EXCEPT !.at = "reread"]]
          /\ UNCHANGED <<module, mqtt, faults>>
      BY <2>4 DEF UpdatePairing
    <3> HIDE DEF n
    <3> QED BY <3>1, <3>2, <3>3
  <2>5. CASE RereadNode(h)
    BY <2>5 DEF RereadNode
  <2> QED BY <1>2, <2>1, <2>2, <2>3, <2>4, <2>5 DEF PairingRequest
<1>3. ASSUME NEW h \in Handlers, NEW n \in Nodes, DeleteNode(h, n) PROVE TypeOK'
  BY <1>3, <1>r DEF DeleteNode
<1>4. ASSUME NEW h \in Handlers, Reply(h) PROVE TypeOK'
  BY <1>4 DEF Reply
<1>5. ASSUME NEW h \in Handlers, RequestFails(h) PROVE TypeOK'
  BY <1>5 DEF RequestFails, Fault
<1>6. CASE Message
  <2>1. ASSUME NEW n \in Nodes, HandleDiscovery(n) PROVE TypeOK'
    BY <2>1 DEF HandleDiscovery, Register
  <2>2. ASSUME NEW n \in Nodes, HandleStatus(n) PROVE TypeOK'
    BY <2>2 DEF HandleStatus
  <2>3. CASE RegisterFromStatus
    BY <2>3 DEF RegisterFromStatus, Register
  <2>4. CASE InsertNode
    BY <2>4, <1>r DEF InsertNode
  <2>5. CASE RefreshNode
    BY <2>5 DEF RefreshNode
  <2>6. CASE MessageFails
    BY <2>6 DEF MessageFails, Fault
  <2> QED BY <1>6, <2>1, <2>2, <2>3, <2>4, <2>5, <2>6 DEF Message
<1>7. CASE UNCHANGED rvars
  BY <1>7 DEF rvars
<1> QED BY <1>1, <1>2, <1>3, <1>4, <1>5, <1>6, <1>7 DEF Next

-----------------------------------------------------------------------------
\* A request keeps its operation, node and module from its first step on.
LEMMA NextPairs == TypeOK /\ PairsNameTheirRows /\ [Next]_rvars => PairsNameTheirRows'
<1> SUFFICES ASSUME TypeOK, PairsNameTheirRows, [Next]_rvars,
                    NEW g \in Handlers, request'[g].op = "pair"
             PROVE  request'[g].module \in Modules /\ request'[g].node \in Nodes
  BY DEF PairsNameTheirRows
<1> DEFINE Kept == \/ request'[g] = request[g]
                   \/ request'[g] = [request[g] EXCEPT !.at = request'[g].at]
                   \/ request'[g].op # "pair"
<1>k. Kept => request'[g].module \in Modules /\ request'[g].node \in Nodes
  BY DEF PairsNameTheirRows, TypeOK
<1> HIDE DEF Kept
<1> USE DEF TypeOK, Idle, Request, Finish, Goto
<1>1. ASSUME NEW h \in Handlers, ModuleRequest(h) PROVE Kept
  BY <1>1 DEF Kept, ModuleRequest, CreateModule, DetachNodes, RemoveModule
<1>2. ASSUME NEW h \in Handlers, PairingRequest(h)
      PROVE  request'[g].module \in Modules /\ request'[g].node \in Nodes
  <2>1. ASSUME NEW n \in Nodes, NEW m \in Modules, PairCheckModule(h, n, m)
        PROVE  request'[g].module \in Modules /\ request'[g].node \in Nodes
    BY <2>1 DEF PairCheckModule, PairsNameTheirRows
  <2>2. ASSUME NEW n \in Nodes, UnpairLookup(h, n) PROVE Kept
    BY <2>2 DEF Kept, UnpairLookup
  <2>3. CASE PairLookup(h) \/ UpdatePairing(h) \/ RereadNode(h)
    <3>1. \/ request' = [request EXCEPT ![h] = Idle]
          \/ \E s : request' = [request EXCEPT ![h] = [@ EXCEPT !.at = s]]
      BY <2>3 DEF PairLookup, UpdatePairing, RereadNode
    <3>2. Kept
      BY <3>1 DEF Kept
    <3> QED BY <3>2, <1>k
  <2> QED BY <1>2, <1>k, <2>1, <2>2, <2>3 DEF PairingRequest
<1>3. ASSUME NEW h \in Handlers, NEW n \in Nodes, DeleteNode(h, n) PROVE Kept
  BY <1>3 DEF Kept, DeleteNode
<1>4. ASSUME NEW h \in Handlers, Reply(h) \/ RequestFails(h) PROVE Kept
  BY <1>4 DEF Kept, Reply, RequestFails
<1>5. ASSUME Message PROVE Kept
  BY <1>5 DEF Kept, Message, HandleDiscovery, HandleStatus, RegisterFromStatus,
              InsertNode, RefreshNode, MessageFails
<1>6. ASSUME UNCHANGED rvars PROVE Kept
  BY <1>6 DEF Kept, rvars
<1> QED BY <1>k, <1>1, <1>2, <1>3, <1>4, <1>5, <1>6 DEF Next

\* Only the MQTT goroutine inserts rows, and it handles one message at a time:
\* a handler adds no row, and what the goroutine found absent stays absent.
LEMMA NextInsert == TypeOK /\ InsertNeverCollides /\ [Next]_rvars => InsertNeverCollides'
<1> SUFFICES ASSUME TypeOK, InsertNeverCollides, [Next]_rvars PROVE InsertNeverCollides'
  OBVIOUS
<1> USE DEF TypeOK
<1>a. ASSUME mqtt' = mqtt, node' = node PROVE InsertNeverCollides'
  BY <1>a DEF InsertNeverCollides
<1>b. ASSUME mqtt'.at # "insert" PROVE InsertNeverCollides'
  BY <1>b DEF InsertNeverCollides
<1>c. ASSUME NEW n \in Nodes, Register(n), node' = node PROVE InsertNeverCollides'
  BY <1>c DEF InsertNeverCollides, Register, Hears
<1>q. mqtt' = Quiet => mqtt'.at # "insert"
  BY DEF Quiet
<1>1. ASSUME NEW h \in Handlers, NEW m \in Modules, CreateModule(h, m)
      PROVE  InsertNeverCollides'
  BY <1>1, <1>a DEF CreateModule
<1>2. ASSUME NEW h \in Handlers, NEW m \in Modules, DetachNodes(h, m)
      PROVE  InsertNeverCollides'
  <2> SUFFICES ASSUME mqtt.at = "insert" PROVE ~node'[mqtt.node].known
    BY <1>2 DEF InsertNeverCollides, DetachNodes
  <2>1. ~node[mqtt.node].known
    BY DEF InsertNeverCollides
  <2>2. mqtt.node \in Nodes
    BY DEF Quiet
  <2>3. node[mqtt.node] = Absent
    <3>1. node[mqtt.node] \in Rows
      BY <2>2
    <3> QED BY <2>1, <3>1, RowFields
  <2>4. node[mqtt.node].module # m
    BY <2>3, RegistryAssumption DEF Absent
  <2>5. node'[mqtt.node] = node[mqtt.node]
    BY <1>2, <2>2, <2>4 DEF DetachNodes
  <2> QED BY <2>1, <2>5
<1>3. ASSUME NEW h \in Handlers, RemoveModule(h) PROVE InsertNeverCollides'
  BY <1>3, <1>a DEF RemoveModule
<1>4. ASSUME NEW h \in Handlers, UpdatePairing(h) PROVE InsertNeverCollides'
  <2>1. ~node[mqtt.node].known => node'[mqtt.node] = node[mqtt.node]
    BY <1>4 DEF UpdatePairing
  <2> QED BY <1>4, <2>1 DEF UpdatePairing, InsertNeverCollides
<1>5. ASSUME NEW h \in Handlers, NEW n \in Nodes, DeleteNode(h, n)
      PROVE  InsertNeverCollides'
  BY <1>5 DEF DeleteNode, InsertNeverCollides, Absent
<1>6. ASSUME NEW h \in Handlers, PairingRequest(h), ~UpdatePairing(h)
      PROVE  InsertNeverCollides'
  BY <1>6, <1>a DEF PairingRequest, PairCheckModule, PairLookup, UnpairLookup, RereadNode
<1>7. ASSUME NEW h \in Handlers, Reply(h) \/ RequestFails(h) PROVE InsertNeverCollides'
  BY <1>7, <1>a DEF Reply, RequestFails
<1>8. CASE Message
  <2>1. ASSUME NEW n \in Nodes, HandleDiscovery(n) PROVE InsertNeverCollides'
    BY <2>1, <1>c DEF HandleDiscovery
  <2>2. ASSUME NEW n \in Nodes, HandleStatus(n) PROVE InsertNeverCollides'
    BY <2>2, <1>b DEF HandleStatus, Hears
  <2>3. CASE RegisterFromStatus
    BY <2>3 DEF RegisterFromStatus, Register, Hears, InsertNeverCollides
  <2>4. CASE InsertNode \/ RefreshNode \/ MessageFails
    BY <2>4, <1>b, <1>q DEF InsertNode, RefreshNode, MessageFails
  <2> QED BY <1>8, <2>1, <2>2, <2>3, <2>4 DEF Message
<1>9. CASE UNCHANGED rvars
  BY <1>9, <1>a DEF rvars
<1> QED BY <1>1, <1>2, <1>3, <1>4, <1>5, <1>6, <1>7, <1>8, <1>9
        DEF Next, ModuleRequest

-----------------------------------------------------------------------------
\* A module starts to vanish in DetachNodes only, which leaves it no node; a
\* node enters a module in UpdatePairing only, which records the overtaken ones.
LEMMA NextVanishing ==
    TypeOK /\ PairsNameTheirRows /\ VanishingHasOnlyOvertaken /\ [Next]_rvars
        => VanishingHasOnlyOvertaken'
<1> SUFFICES ASSUME TypeOK, PairsNameTheirRows, VanishingHasOnlyOvertaken, [Next]_rvars
             PROVE  VanishingHasOnlyOvertaken'
  OBVIOUS
<1> USE RegistryAssumption DEF TypeOK
<1> DEFINE NoNewVanishing == \A m \in Modules : Vanishing(m)' => Vanishing(m)
<1>a. ASSUME NoNewVanishing, node' = node, overtaken' = overtaken
      PROVE  VanishingHasOnlyOvertaken'
  BY <1>a DEF VanishingHasOnlyOvertaken
<1>b. ASSUME NoNewVanishing, NEW n \in Nodes, node'[n].module \notin Modules,
             \A p \in Nodes \ {n} : /\ node'[p] = node[p]
                                    /\ p \in overtaken => p \in overtaken'
      PROVE  VanishingHasOnlyOvertaken'
  BY <1>b DEF VanishingHasOnlyOvertaken
<1> HIDE DEF NoNewVanishing
<1>r. ASSUME module' = module,
             \A h \in Handlers : request'[h].at = "remove" => request'[h] = request[h]
      PROVE  NoNewVanishing
  BY <1>r DEF NoNewVanishing, Vanishing
<1>1. ASSUME NEW h \in Handlers, NEW m \in Modules, CreateModule(h, m)
      PROVE  VanishingHasOnlyOvertaken'
  <2>1. NoNewVanishing
    BY <1>1 DEF NoNewVanishing, CreateModule, Vanishing
  <2> QED BY <1>1, <2>1, <1>a DEF CreateModule
<1>2. ASSUME NEW h \in Handlers, NEW m \in Modules, DetachNodes(h, m)
      PROVE  VanishingHasOnlyOvertaken'
  <2>1. \A k \in Modules \ {m} : Vanishing(k)' => Vanishing(k)
    BY <1>2 DEF DetachNodes, Vanishing, Request
  <2>2. \A n \in Nodes :
            IF node[n].module = m THEN node'[n].module = NoModule
            ELSE node'[n] = node[n] /\ (n \in overtaken => n \in overtaken')
    BY <1>2 DEF DetachNodes, Detached
  <2> QED BY <2>1, <2>2 DEF VanishingHasOnlyOvertaken
<1>3. ASSUME NEW h \in Handlers, RemoveModule(h) PROVE VanishingHasOnlyOvertaken'
  <2>1. NoNewVanishing
    BY <1>3 DEF NoNewVanishing, RemoveModule, Vanishing, Goto, Finish, Idle, Request
  <2> QED BY <1>3, <2>1, <1>a DEF RemoveModule
<1>4. ASSUME NEW h \in Handlers, PairingRequest(h), ~UpdatePairing(h)
      PROVE  VanishingHasOnlyOvertaken'
  <2>1. NoNewVanishing
    BY <1>4, <1>r DEF PairingRequest, PairCheckModule, PairLookup, UnpairLookup,
                      RereadNode, Goto, Finish, Idle, Request
  <2> QED BY <1>4, <2>1, <1>a DEF PairingRequest, PairCheckModule, PairLookup,
                                  UnpairLookup, RereadNode
<1>5. ASSUME NEW h \in Handlers, UpdatePairing(h) PROVE VanishingHasOnlyOvertaken'
  <2> DEFINE n == request[h].node
             m == request[h].module
  <2>1. NoNewVanishing
    BY <1>5, <1>r DEF UpdatePairing, Goto
  <2>2. \A p \in Nodes \ {n} : node'[p] = node[p] /\ (p \in overtaken => p \in overtaken')
    BY <1>5 DEF UpdatePairing
  <2>3. CASE n \notin Nodes
    BY <2>1, <2>2, <2>3 DEF VanishingHasOnlyOvertaken, NoNewVanishing
  <2>4. CASE n \in Nodes /\ node[n].known /\ request[h].op = "pair"
    <3>1. node'[n] = Attached(m) /\ m \in Modules
      BY <1>5, <2>4 DEF UpdatePairing, PairsNameTheirRows
    <3>2. node'[n].module = m
      BY <3>1 DEF Attached
    <3>3. Vanishing(m) => n \in overtaken'
      BY <1>5, <2>4 DEF UpdatePairing
    <3> QED BY <2>1, <2>2, <3>1, <3>2, <3>3 DEF VanishingHasOnlyOvertaken, NoNewVanishing
  <2>5. CASE n \in Nodes /\ ~(node[n].known /\ request[h].op = "pair")
    <3>1. node[n].known => node'[n] = Detached
      BY <1>5, <2>5 DEF UpdatePairing
    <3>2. ~node[n].known => node'[n] = Absent
      <4>1. node[n] \in Rows
        BY <2>5
      <4>2. ~node[n].known => node[n] = Absent
        BY <4>1, RowFields
      <4> QED BY <1>5, <2>5, <4>2 DEF UpdatePairing
    <3>3. node'[n].module \notin Modules
      BY <3>1, <3>2 DEF Detached, Absent
    <3> QED BY <2>1, <2>2, <2>5, <3>3, <1>b
  <2> QED BY <2>3, <2>4, <2>5
<1>6. ASSUME NEW h \in Handlers, NEW n \in Nodes, DeleteNode(h, n)
      PROVE  VanishingHasOnlyOvertaken'
  <2>1. NoNewVanishing
    BY <1>6, <1>r DEF DeleteNode, Request
  <2>2. node'[n].module \notin Modules
    BY <1>6 DEF DeleteNode, Absent
  <2>3. \A p \in Nodes \ {n} : node'[p] = node[p] /\ (p \in overtaken => p \in overtaken')
    BY <1>6 DEF DeleteNode
  <2> QED BY <2>1, <2>2, <2>3, <1>b
<1>7. ASSUME NEW h \in Handlers, Reply(h) \/ RequestFails(h)
      PROVE  VanishingHasOnlyOvertaken'
  <2>1. NoNewVanishing
    BY <1>7, <1>r DEF Reply, RequestFails, Finish, Idle, Request
  <2> QED BY <1>7, <2>1, <1>a DEF Reply, RequestFails
<1>8. CASE Message
  <2>1. NoNewVanishing
    BY <1>8, <1>r DEF Message, HandleDiscovery, HandleStatus, RegisterFromStatus,
                      InsertNode, RefreshNode, MessageFails
  <2>2. CASE InsertNode
    <3>1. CASE mqtt.node \in Nodes
      <4>1. node'[mqtt.node].module \notin Modules
        BY <2>2, <3>1 DEF InsertNode, Detached
      <4>2. \A p \in Nodes \ {mqtt.node} : node'[p] = node[p] /\ overtaken' = overtaken
        BY <2>2 DEF InsertNode
      <4> QED BY <2>1, <3>1, <4>1, <4>2, <1>b
    <3>2. CASE mqtt.node \notin Nodes
      BY <2>1, <2>2, <3>2, <1>a DEF InsertNode
    <3> QED BY <3>1, <3>2
  <2>3. CASE ~InsertNode
    BY <1>8, <2>1, <2>3, <1>a DEF Message, HandleDiscovery, HandleStatus,
                                  RegisterFromStatus, RefreshNode, MessageFails
  <2> QED BY <2>2, <2>3
<1>9. CASE UNCHANGED rvars
  BY <1>9, <1>r, <1>a DEF rvars
<1> QED BY <1>1, <1>2, <1>3, <1>4, <1>5, <1>6, <1>7, <1>8, <1>9
        DEF Next, ModuleRequest

-----------------------------------------------------------------------------
(* The registry: the theorems *)

\* The registry keeps the inductive invariant.
LEMMA Inductive == Spec => []IInv
<1>1. Init => IInv
  <2>1. Init => PairsNameTheirRows /\ InsertNeverCollides
    BY DEF Init, PairsNameTheirRows, InsertNeverCollides, Idle, Request, Quiet
  <2>2. Init => VanishingHasOnlyOvertaken
    BY RegistryAssumption DEF Init, VanishingHasOnlyOvertaken, Absent
  <2> QED BY InitTypeOK, <2>1, <2>2 DEF IInv
<1>2. IInv /\ [Next]_rvars => IInv'
  BY NextTypeOK, NextPairs, NextInsert, NextVanishing DEF IInv
<1> QED BY <1>1, <1>2, PTL DEF Spec

\* The tables and the requests keep their shape (repository.go, service.go).
THEOREM TypeCorrect == Spec => []TypeOK
<1>1. IInv => TypeOK
  BY DEF IInv
<1> QED BY Inductive, <1>1, PTL

\* A node belongs to a missing module only after a Pair that raced with
\* DeleteModule (repository.go:143-158, 403-420).
THEOREM OnlyRacesLeaveDanglingNodes == Spec => []DanglingOnlyByRace
<1>1. IInv => DanglingOnlyByRace
  <2> SUFFICES ASSUME IInv, NEW n \in Nodes, node[n].module # NoModule,
                      module[node[n].module] # "live"
               PROVE  n \in overtaken
    BY DEF DanglingOnlyByRace
  <2>1. node[n] \in Rows
    BY DEF IInv, TypeOK
  <2>2. node[n].module \in Modules
    BY <2>1, RowFields
  <2> QED BY <2>2 DEF IInv, VanishingHasOnlyOvertaken, Vanishing
<1> QED BY Inductive, <1>1, PTL

\* The INSERT of UpsertDiscovered meets no row (repository.go:174-188).
THEOREM InsertsAreNew == Spec => []InsertNeverCollides
<1>1. IInv => InsertNeverCollides
  BY DEF IInv
<1> QED BY Inductive, <1>1, PTL

\* No message changes the pairing of a registered node (repository.go:169-219).
THEOREM MessagesKeepPairing == Spec => DiscoveryKeepsPairing
<1>1. IInv /\ [Next]_rvars =>
          [mqtt' # mqtt => \A n \in Nodes : node[n].known => node'[n] = node[n]]_rvars
  <2> SUFFICES ASSUME IInv, Next, mqtt' # mqtt, NEW n \in Nodes, node[n].known
               PROVE  node'[n] = node[n]
    OBVIOUS
  <2>1. Message
    BY DEF Next, ModuleRequest, CreateModule, DetachNodes, RemoveModule, PairingRequest,
           PairCheckModule, PairLookup, UnpairLookup, UpdatePairing, RereadNode,
           DeleteNode, Reply, RequestFails
  <2>2. CASE InsertNode
    BY <2>2 DEF InsertNode, IInv, TypeOK, InsertNeverCollides
  <2>3. CASE ~InsertNode
    BY <2>1, <2>3 DEF Message, HandleDiscovery, HandleStatus, RegisterFromStatus,
                      RefreshNode, MessageFails
  <2> QED BY <2>2, <2>3
<1> QED BY Inductive, <1>1, PTL DEF Spec, DiscoveryKeepsPairing

-----------------------------------------------------------------------------
(* The mapping cache: the inductive invariant *)

\* What the place of a request says of its operation and its rows.
RequestsInOrder ==
    \A h \in Handlers : LET r == request[h] IN
        /\ r.at = "lookup" => r.op = "pair"
        /\ r.at \in {"update", "reread"} => r.op \in {"pair", "unpair"}
        /\ r.at = "upsert" => r.op = "saveTags"
        /\ r.op = "pair" => r.module \in Modules /\ r.node \in Nodes

\* A fill under way names a node.
FillNamesNode == fill.at # "idle" => fill.node \in Nodes

\* A failed lookup brings no module.
FailureBringsNothing == fill.at = "failed" => fill.module = NoModule

\* A message being handled is of a node.
MessagesNameNodes == mqtt.at # "idle" => mqtt.node \in Nodes

\* Whatever becomes of it but a failure, h is going to drop the entry of n.
Owes(h, n) ==
    LET r == request[h] IN
    /\ r.node = n
    /\ \/ r.at = "reply" /\ r.op \in {"pair", "unpair", "deleteNode", "saveTags"}
       \/ r.at = "upsert" /\ r.op = "saveTags"
       \/ r.at = "reread" /\ r.op \in {"pair", "unpair"} /\ node[n].known

Accounted(n) ==
    \/ Coherent(n)
    \/ meta[n].excuse \in {"raced", "neglected"}
    \/ OnlyModuleUnknown(n)
    \/ \E h \in Handlers : Owes(h, n)

MInv ==
    /\ MTypeOK
    /\ RequestsInOrder
    /\ FillNamesNode
    /\ FailureBringsNothing
    /\ MessagesNameNodes
    /\ InsertNeverCollides
    /\ \A n \in Nodes : Accounted(n)

-----------------------------------------------------------------------------
(* The mapping cache: types *)

\* The parts of MTypeOK about one request, one entry and one fill.
MRequests ==
    [op : {"none", "pair", "unpair", "deleteNode", "deleteModule", "saveTags", "deleteTag"},
     at : {"idle", "lookup", "update", "reread", "remove", "reply", "upsert", "deleteTag"},
     node : Nodes \cup {NoNode}, module : Modules \cup {NoModule}]

Entries ==
    [cached : BOOLEAN, tags : 0 .. MaxEdits, module : Modules \cup {NoModule},
     excuse : {"none", "raced", "failed", "neglected"}]

Fills ==
    [at : {"idle", "tags", "module", "put", "failed"}, tags : 0 .. MaxEdits,
     node : Nodes \cup {NoNode}, module : Modules \cup {NoModule}]

Messages == [at : {"idle", "register", "insert", "refresh"}, node : Nodes \cup {NoNode}]

LEMMA MTypeOKParts ==
    MTypeOK <=> /\ module \in [Modules -> {"unused", "live", "deleted"}]
                /\ node \in [Nodes -> Rows]
                /\ request \in [Handlers -> MRequests]
                /\ mqtt \in Messages
                /\ faults \in 0 .. MaxFaults
                /\ tags \in [Nodes -> 0 .. MaxEdits]
                /\ meta \in [Nodes -> Entries]
                /\ fill \in Fills
                /\ (mqtt = Quiet \/ fill = NoFill)
BY DEF MTypeOK, MRequests, Entries, Fills, Messages

LEMMA NoMetaIsEntry == NoMeta \in Entries /\ NoFill \in Fills /\ Quiet \in Messages
BY MappingAssumption DEF NoMeta, Entries, NoFill, Filling, Fills, Quiet, Messages

LEMMA MInitInv == MInit => MInv
<1> SUFFICES ASSUME MInit PROVE MInv
  OBVIOUS
<1>1. node \in [Nodes -> Rows] /\ request \in [Handlers -> MRequests]
  BY DEF MInit, Init, Rows, Idle, Request, MRequests
<1>2. MTypeOK
  BY <1>1, MTypeOKParts, NoMetaIsEntry, MappingAssumption, RegistryAssumption DEF MInit, Init
<1>3. RequestsInOrder
  BY DEF MInit, Init, RequestsInOrder, Idle, Request
<1>4. FillNamesNode /\ FailureBringsNothing /\ MessagesNameNodes /\ InsertNeverCollides
  BY DEF MInit, Init, FillNamesNode, FailureBringsNothing, MessagesNameNodes,
         InsertNeverCollides, NoFill, Filling, Quiet
<1>5. \A n \in Nodes : Accounted(n)
  BY DEF MInit, Accounted, Coherent, NoMeta
<1> QED BY <1>2, <1>3, <1>4, <1>5 DEF MInv

\* The database side of a step: the tables and what the handlers do.
Tables ==
    /\ module \in [Modules -> {"unused", "live", "deleted"}]
    /\ node \in [Nodes -> Rows]
    /\ tags \in [Nodes -> 0 .. MaxEdits]

LEMMA EditTagsType ==
    ASSUME Tables, NEW n, EditTags(n)
    PROVE  tags' \in [Nodes -> 0 .. MaxEdits]
<1>1. tags' = [tags EXCEPT ![n] = tags[n] + 1]
  BY DEF EditTags
<1>2. n \in Nodes => tags[n] + 1 \in 0 .. MaxEdits
  BY MappingAssumption DEF EditTags, Tables
<1> QED BY <1>1, <1>2 DEF Tables

LEMMA NeglectType ==
    ASSUME meta \in [Nodes -> Entries], NEW S, Neglect(S)
    PROVE  meta' \in [Nodes -> Entries]
<1>1. \A n \in Nodes : [meta[n] EXCEPT !.excuse = "neglected"] \in Entries
  BY DEF Entries
<1> QED BY <1>1 DEF Neglect

LEMMA InvalidateType ==
    ASSUME meta \in [Nodes -> Entries], NEW n, InvalidateMeta(n)
    PROVE  meta' \in [Nodes -> Entries]
BY NoMetaIsEntry DEF InvalidateMeta

LEMMA FinishType ==
    ASSUME request \in [Handlers -> MRequests], NEW h, Finish(h)
    PROVE  request' \in [Handlers -> MRequests]
<1>1. Idle \in MRequests
  BY DEF Idle, Request, MRequests
<1> QED BY <1>1 DEF Finish

LEMMA GotoType ==
    ASSUME request \in [Handlers -> MRequests], NEW h \in Handlers,
           NEW step \in {"update", "reread", "reply"}, Goto(h, step)
    PROVE  request' \in [Handlers -> MRequests]
<1>1. [request[h] EXCEPT !.at = step] \in MRequests
  BY DEF MRequests
<1> QED BY <1>1 DEF Goto

\* A request that starts.
LEMMA RequestType ==
    ASSUME request \in [Handlers -> MRequests], NEW h \in Handlers,
           NEW op \in {"pair", "unpair", "deleteNode", "deleteModule", "saveTags", "deleteTag"},
           NEW step \in {"lookup", "update", "remove", "reply", "upsert", "deleteTag"},
           NEW n \in Nodes \cup {NoNode}, NEW m \in Modules \cup {NoModule},
           request' = [request EXCEPT ![h] = Request(op, step, n, m)]
    PROVE  request' \in [Handlers -> MRequests]
<1>1. Request(op, step, n, m) \in MRequests
  BY DEF Request, MRequests
<1> QED BY <1>1

LEMMA FaultType ==
    ASSUME faults \in 0 .. MaxFaults, Fault
    PROVE  faults' \in 0 .. MaxFaults
BY RegistryAssumption DEF Fault

\* The rows a registry step can leave.
LEMMA RowsOfSteps == Absent \in Rows /\ Detached \in Rows /\ \A m \in Modules : Attached(m) \in Rows
BY DEF Rows

\* The UPDATE of Pair and Unpair writes a row.
LEMMA UpdatePairingType ==
    ASSUME node \in [Nodes -> Rows], RequestsInOrder, NEW h \in Handlers, UpdatePairing(h)
    PROVE  node' \in [Nodes -> Rows]
<1> DEFINE n == request[h].node
           r == IF ~node[n].known THEN node[n]
                ELSE IF request[h].op = "pair" THEN Attached(request[h].module)
                ELSE Detached
<1>1. node' = [node EXCEPT ![n] = r]
  BY DEF UpdatePairing
<1>2. n \in Nodes => r \in Rows
  BY RowsOfSteps DEF RequestsInOrder
<1> HIDE DEF n, r
<1> QED BY <1>1, <1>2

\* A message the MQTT goroutine takes on.
LEMMA HearsType ==
    ASSUME NEW n \in Nodes \cup {NoNode}, NEW step \in {"register", "insert", "refresh"}, Hears(n, step)
    PROVE  mqtt' \in Messages
BY DEF Hears, Messages

\* The registry's own steps that leave the cache to a later step.
LEMMA RegistryStepType ==
    ASSUME MTypeOK, RequestsInOrder, RegistryStep
    PROVE  MTypeOK'
<1> DEFINE Database == /\ module' \in [Modules -> {"unused", "live", "deleted"}]
                       /\ node' \in [Nodes -> Rows]
                       /\ request' \in [Handlers -> MRequests]
                       /\ mqtt' \in Messages
                       /\ faults' \in 0 .. MaxFaults
                       /\ (mqtt' = mqtt \/ fill = NoFill)
<1>t. /\ module \in [Modules -> {"unused", "live", "deleted"}]
      /\ node \in [Nodes -> Rows]
      /\ request \in [Handlers -> MRequests]
      /\ mqtt \in Messages
      /\ faults \in 0 .. MaxFaults
      /\ tags \in [Nodes -> 0 .. MaxEdits]
      /\ meta \in [Nodes -> Entries]
      /\ fill \in Fills
      /\ (mqtt = Quiet \/ fill = NoFill)
  BY MTypeOKParts
<1>1. ASSUME NEW h \in Handlers, NEW m \in Modules, CreateModule(h, m) PROVE Database
  BY <1>1, <1>t DEF CreateModule
<1>2. ASSUME NEW h \in Handlers, RemoveModule(h) PROVE Database
  <2>1. request' \in [Handlers -> MRequests]
    BY <1>2, <1>t, GotoType, FinishType DEF RemoveModule
  <2>2. module' \in [Modules -> {"unused", "live", "deleted"}]
    BY <1>2, <1>t DEF RemoveModule
  <2> QED BY <1>2, <1>t, <2>1, <2>2 DEF RemoveModule
<1>3. ASSUME NEW h \in Handlers, NEW n \in Nodes, NEW m \in Modules, PairCheckModule(h, n, m)
      PROVE  Database
  BY <1>3, <1>t, RequestType DEF PairCheckModule
<1>4. ASSUME NEW h \in Handlers, NEW n \in Nodes, UnpairLookup(h, n) PROVE Database
  BY <1>4, <1>t, RequestType DEF UnpairLookup
<1>5. ASSUME NEW h \in Handlers, NEW n \in Nodes, DeleteNode(h, n) PROVE Database
  <2>1. request' \in [Handlers -> MRequests]
    BY <1>5, <1>t, RequestType DEF DeleteNode
  <2>2. node' \in [Nodes -> Rows]
    BY <1>5, <1>t, RowsOfSteps DEF DeleteNode
  <2> QED BY <1>5, <1>t, <2>1, <2>2 DEF DeleteNode
<1>6. ASSUME NEW h \in Handlers, PairLookup(h) PROVE Database
  <2>1. request' \in [Handlers -> MRequests]
    BY <1>6, <1>t, GotoType, FinishType DEF PairLookup
  <2> QED BY <1>6, <1>t, <2>1 DEF PairLookup
<1>7. ASSUME NEW h \in Handlers, UpdatePairing(h) PROVE Database
  <2>1. node' \in [Nodes -> Rows]
    BY <1>7, <1>t, UpdatePairingType
  <2>2. Goto(h, "reread") /\ UNCHANGED <<module, mqtt, faults>>
    BY <1>7 DEF UpdatePairing
  <2> QED BY <1>t, <2>1, <2>2, GotoType
<1>8. ASSUME NEW h \in Handlers, RereadNode(h) PROVE Database
  <2>1. request' \in [Handlers -> MRequests]
    BY <1>8, <1>t, GotoType, FinishType DEF RereadNode
  <2> QED BY <1>8, <1>t, <2>1 DEF RereadNode
<1>9. ASSUME fill = NoFill, Message PROVE Database
  <2>1. ASSUME NEW n \in Nodes, HandleDiscovery(n) PROVE Database
    BY <2>1, <1>9, <1>t, HearsType DEF HandleDiscovery, Register
  <2>2. ASSUME NEW n \in Nodes, HandleStatus(n) PROVE Database
    BY <2>2, <1>9, <1>t, HearsType DEF HandleStatus
  <2>3. CASE RegisterFromStatus
    <3>1. mqtt.node \in Nodes \cup {NoNode}
      BY <1>t DEF Messages
    <3>2. mqtt' \in Messages
      BY <2>3, <3>1, HearsType DEF RegisterFromStatus, Register
    <3>3. Database
      BY <2>3, <3>2, <1>9, <1>t DEF RegisterFromStatus
    <3> QED BY <3>3
  <2>4. ASSUME InsertNode PROVE Database
    <3>1. node' \in [Nodes -> Rows]
      BY <2>4, <1>t, RowsOfSteps DEF InsertNode
    <3> QED BY <2>4, <3>1, <1>9, <1>t, NoMetaIsEntry DEF InsertNode
  <2>5. ASSUME RefreshNode PROVE Database
    BY <2>5, <1>9, <1>t, NoMetaIsEntry DEF RefreshNode
  <2>6. ASSUME MessageFails PROVE Database
    BY <2>6, <1>9, <1>t, NoMetaIsEntry, FaultType DEF MessageFails
  <2> QED BY <1>9, <2>1, <2>2, <2>3, <2>4, <2>5, <2>6 DEF Message
<1>10. Database /\ UNCHANGED <<tags, meta, fill>>
  BY <1>1, <1>2, <1>3, <1>4, <1>5, <1>6, <1>7, <1>8, <1>9 DEF RegistryStep
<1>11. /\ module' \in [Modules -> {"unused", "live", "deleted"}]
       /\ node' \in [Nodes -> Rows]
       /\ request' \in [Handlers -> MRequests]
       /\ mqtt' \in Messages
       /\ faults' \in 0 .. MaxFaults
       /\ tags' \in [Nodes -> 0 .. MaxEdits]
       /\ meta' \in [Nodes -> Entries]
       /\ fill' \in Fills
       /\ (mqtt' = Quiet \/ fill' = NoFill)
  BY <1>10, <1>t
<1> QED BY <1>11 DEF MTypeOK, MRequests, Entries, Fills, Messages, Rows, Quiet, NoFill, Filling,
           Absent, Detached, Attached

\* The other steps of handlers: they leave ingestion and the MQTT goroutine alone.
LEMMA HandlerStepType ==
    ASSUME MTypeOK, NEW h \in Handlers,
           \/ \E m \in Modules : DetachNodesQuietly(h, m)
           \/ RequestFailsQuietly(h)
           \/ ReplyAndInvalidate(h)
           \/ TagRequest(h)
    PROVE  MTypeOK'
<1> DEFINE Goal == /\ node' \in [Nodes -> Rows]
                   /\ request' \in [Handlers -> MRequests]
                   /\ faults' \in 0 .. MaxFaults
                   /\ tags' \in [Nodes -> 0 .. MaxEdits]
                   /\ meta' \in [Nodes -> Entries]
                   /\ UNCHANGED <<module, mqtt, fill>>
<1>t. /\ module \in [Modules -> {"unused", "live", "deleted"}]
      /\ node \in [Nodes -> Rows]
      /\ request \in [Handlers -> MRequests]
      /\ mqtt \in Messages
      /\ faults \in 0 .. MaxFaults
      /\ tags \in [Nodes -> 0 .. MaxEdits]
      /\ meta \in [Nodes -> Entries]
      /\ fill \in Fills
      /\ (mqtt = Quiet \/ fill = NoFill)
  BY MTypeOKParts
<1>r. Tables
  BY <1>t DEF Tables
<1>1. ASSUME NEW m \in Modules, DetachNodesQuietly(h, m) PROVE Goal
  <2>1. node' \in [Nodes -> Rows]
    BY <1>1, <1>t, RowsOfSteps DEF DetachNodesQuietly, DetachNodes
  <2>2. request' \in [Handlers -> MRequests]
    BY <1>1, <1>t, RequestType DEF DetachNodesQuietly, DetachNodes
  <2> QED BY <1>1, <2>1, <2>2, <1>t, NeglectType DEF DetachNodesQuietly, DetachNodes
<1>2. ASSUME RequestFailsQuietly(h) PROVE Goal
  <2>1. meta' \in [Nodes -> Entries]
    BY <1>2, <1>t, NeglectType DEF RequestFailsQuietly
  <2> QED BY <1>2, <2>1, <1>t, FinishType, FaultType DEF RequestFailsQuietly, RequestFails
<1>3. ASSUME ReplyAndInvalidate(h) PROVE Goal
  <2>1. meta' \in [Nodes -> Entries]
    BY <1>3, <1>t, InvalidateType DEF ReplyAndInvalidate
  <2> QED BY <1>3, <2>1, <1>t, FinishType DEF ReplyAndInvalidate, Reply
<1>4. ASSUME TagRequest(h) PROVE Goal
  <2>1. ASSUME NEW n \in Nodes, DeleteSensorTagsExcept(h, n) PROVE Goal
    BY <2>1, <1>t, <1>r, EditTagsType, RequestType DEF DeleteSensorTagsExcept
  <2>2. ASSUME NEW n \in Nodes, SaveNodeTag(h, n) PROVE Goal
    BY <2>2, <1>t, <1>r, EditTagsType, NeglectType DEF SaveNodeTag, rvars
  <2>3. ASSUME NEW n \in Nodes, InvalidateBeforeDelete(h, n) PROVE Goal
    BY <2>3, <1>t, InvalidateType, RequestType DEF InvalidateBeforeDelete
  <2>4. ASSUME UpsertNodeTags(h) PROVE Goal
    BY <2>4, <1>t, <1>r, EditTagsType, GotoType DEF UpsertNodeTags
  <2>5. ASSUME UpsertFails(h) PROVE Goal
    BY <2>5, <1>t, FinishType, FaultType, NeglectType DEF UpsertFails
  <2>6. ASSUME DeleteNodeTag(h) PROVE Goal
    BY <2>6, <1>t, <1>r, EditTagsType, FinishType, NeglectType DEF DeleteNodeTag
  <2> QED BY <1>4, <2>1, <2>2, <2>3, <2>4, <2>5, <2>6 DEF TagRequest
<1>5. Goal
  BY <1>1, <1>2, <1>3, <1>4
<1> QED BY <1>5, <1>t DEF MTypeOK, MRequests, Entries, Fills, Messages, Rows, Quiet, NoFill,
           Filling, Absent, Detached, Attached

\* Ingestion and time.
LEMMA FillStepType ==
    ASSUME MTypeOK, FillNamesNode,
           GetNodeMeta \/ \E n \in Nodes : Expire(n)
    PROVE  MTypeOK'
<1> DEFINE Goal == /\ faults' \in 0 .. MaxFaults
                   /\ meta' \in [Nodes -> Entries]
                   /\ fill' \in Fills
                   /\ (mqtt = Quiet \/ fill' = NoFill)
                   /\ UNCHANGED <<module, node, request, mqtt, tags>>
<1>t. /\ module \in [Modules -> {"unused", "live", "deleted"}]
      /\ node \in [Nodes -> Rows]
      /\ request \in [Handlers -> MRequests]
      /\ mqtt \in Messages
      /\ faults \in 0 .. MaxFaults
      /\ tags \in [Nodes -> 0 .. MaxEdits]
      /\ meta \in [Nodes -> Entries]
      /\ fill \in Fills
      /\ (mqtt = Quiet \/ fill = NoFill)
  BY MTypeOKParts
<1>f. fill.tags \in 0 .. MaxEdits /\ fill.module \in Modules \cup {NoModule}
  BY <1>t DEF Fills
<1>i. fill.at # "idle" => fill # NoFill
  BY DEF NoFill, Filling
<1>q. fill.at # "idle" => mqtt = Quiet /\ fill.node \in Nodes
  BY <1>t, <1>i DEF FillNamesNode
<1>1. ASSUME NEW n \in Nodes, MissMeta(n) PROVE Goal
  <2>1. Filling("tags", n, 0, NoModule) \in Fills
    BY MappingAssumption DEF Filling, Fills
  <2> QED BY <1>1, <2>1, <1>t DEF MissMeta, rvars
<1>2. ASSUME ListNodeTags PROVE Goal
  <2>1. fill.node \in Nodes /\ mqtt = Quiet
    BY <1>2, <1>q DEF ListNodeTags
  <2>2. Filling("module", fill.node, tags[fill.node], NoModule) \in Fills
    BY <2>1, <1>t DEF Filling, Fills
  <2> QED BY <1>2, <2>1, <2>2, <1>t DEF ListNodeTags, rvars
<1>3. ASSUME ListNodeTagsFails PROVE Goal
  BY <1>3, <1>t, NoMetaIsEntry, FaultType DEF ListNodeTagsFails
<1>4. ASSUME GetModuleIDByNode PROVE Goal
  <2>1. fill.node \in Nodes /\ mqtt = Quiet
    BY <1>4, <1>q DEF GetModuleIDByNode
  <2>2. node[fill.node].module \in Modules \cup {NoModule}
    BY <2>1, <1>t, RowFields
  <2>3. Filling("put", fill.node, fill.tags, node[fill.node].module) \in Fills
    BY <2>1, <2>2, <1>f DEF Filling, Fills
  <2> QED BY <1>4, <2>1, <2>3, <1>t DEF GetModuleIDByNode, rvars
<1>5. ASSUME GetModuleIDFails PROVE Goal
  <2>1. fill.node \in Nodes /\ mqtt = Quiet
    BY <1>5, <1>q DEF GetModuleIDFails
  <2>2. Filling("failed", fill.node, fill.tags, NoModule) \in Fills
    BY <2>1, <1>f DEF Filling, Fills
  <2> QED BY <1>5, <2>1, <2>2, <1>t, FaultType DEF GetModuleIDFails
<1>6. ASSUME PutMeta PROVE Goal
  <2>1. meta' \in [Nodes -> Entries]
    BY <1>6, <1>t, <1>f DEF PutMeta, Read, Entries
  <2> QED BY <1>6, <2>1, <1>t, NoMetaIsEntry DEF PutMeta, rvars
<1>7. ASSUME NEW n \in Nodes, Expire(n) PROVE Goal
  BY <1>7, <1>t, InvalidateType DEF Expire, rvars
<1>8. Goal
  BY <1>1, <1>2, <1>3, <1>4, <1>5, <1>6, <1>7 DEF GetNodeMeta
<1> QED BY <1>8, <1>t DEF MTypeOK, MRequests, Entries, Fills, Messages, Rows, Quiet, NoFill,
           Filling, Absent, Detached, Attached

LEMMA NextMTypeOK ==
    ASSUME MTypeOK, RequestsInOrder, FillNamesNode, [MNext]_mvars
    PROVE  MTypeOK'
<1>1. CASE UNCHANGED mvars
  BY <1>1 DEF mvars, rvars, MTypeOK
<1>2. CASE MNext
  BY <1>2, RegistryStepType, HandlerStepType, FillStepType DEF MNext
<1> QED BY <1>1, <1>2

-----------------------------------------------------------------------------
(* What requests, fills and messages name *)

InOrder(r) ==
    /\ r.at = "lookup" => r.op = "pair"
    /\ r.at \in {"update", "reread"} => r.op \in {"pair", "unpair"}
    /\ r.at = "upsert" => r.op = "saveTags"
    /\ r.op = "pair" => r.module \in Modules /\ r.node \in Nodes

\* One handler goes on as r and the others stay where they are.
LEMMA OrderKept ==
    ASSUME MTypeOK, RequestsInOrder, NEW h \in Handlers, NEW r, InOrder(r),
           request' = [request EXCEPT ![h] = r]
    PROVE  RequestsInOrder'
BY MTypeOKParts DEF RequestsInOrder, InOrder

LEMMA FinishedInOrder ==
    ASSUME MTypeOK, RequestsInOrder, NEW h \in Handlers, Finish(h)
    PROVE  RequestsInOrder'
<1>1. InOrder(Idle)
  BY DEF InOrder, Idle, Request
<1> QED BY <1>1, OrderKept DEF Finish

LEMMA WentOnInOrder ==
    ASSUME MTypeOK, RequestsInOrder, NEW h \in Handlers, NEW step, Goto(h, step),
           \/ step = "reply"
           \/ step \in {"update", "reread"} /\ request[h].op \in {"pair", "unpair"}
    PROVE  RequestsInOrder'
<1>1. request[h] \in MRequests
  BY MTypeOKParts
<1>2. InOrder([request[h] EXCEPT !.at = step])
  BY <1>1 DEF InOrder, MRequests, RequestsInOrder
<1> QED BY <1>2, OrderKept DEF Goto

LEMMA NextInOrder ==
    ASSUME MTypeOK, RequestsInOrder, [MNext]_mvars
    PROVE  RequestsInOrder'
<1>u. ASSUME UNCHANGED request PROVE RequestsInOrder'
  BY <1>u DEF RequestsInOrder
<1>1. ASSUME NEW h \in Handlers, NEW m \in Modules, CreateModule(h, m) PROVE RequestsInOrder'
  BY <1>1, <1>u DEF CreateModule
<1>2. ASSUME NEW h \in Handlers, RemoveModule(h) PROVE RequestsInOrder'
  BY <1>2, FinishedInOrder, WentOnInOrder DEF RemoveModule
<1>3. ASSUME NEW h \in Handlers, NEW n \in Nodes, NEW m \in Modules, PairCheckModule(h, n, m)
      PROVE  RequestsInOrder'
  <2>1. InOrder(Request("pair", "lookup", n, m))
    BY DEF InOrder, Request
  <2> QED BY <1>3, <2>1, OrderKept DEF PairCheckModule
<1>4. ASSUME NEW h \in Handlers, NEW n \in Nodes, UnpairLookup(h, n) PROVE RequestsInOrder'
  <2>1. InOrder(Request("unpair", "update", n, NoModule))
    BY DEF InOrder, Request
  <2> QED BY <1>4, <2>1, OrderKept DEF UnpairLookup
<1>5. ASSUME NEW h \in Handlers, NEW n \in Nodes, DeleteNode(h, n) PROVE RequestsInOrder'
  <2>1. InOrder(Request("deleteNode", "reply", n, NoModule))
    BY DEF InOrder, Request
  <2> QED BY <1>5, <2>1, OrderKept DEF DeleteNode
<1>6. ASSUME NEW h \in Handlers, PairLookup(h) PROVE RequestsInOrder'
  <2>1. request[h].op = "pair"
    BY <1>6 DEF PairLookup, RequestsInOrder
  <2> QED BY <1>6, <2>1, FinishedInOrder, WentOnInOrder DEF PairLookup
<1>7. ASSUME NEW h \in Handlers, UpdatePairing(h) PROVE RequestsInOrder'
  <2>1. request[h].op \in {"pair", "unpair"} /\ Goto(h, "reread")
    BY <1>7 DEF UpdatePairing, RequestsInOrder
  <2> QED BY <2>1, WentOnInOrder
<1>8. ASSUME NEW h \in Handlers, RereadNode(h) PROVE RequestsInOrder'
  BY <1>8, FinishedInOrder, WentOnInOrder DEF RereadNode
<1>9. ASSUME Message PROVE RequestsInOrder'
  BY <1>9, <1>u DEF Message, HandleDiscovery, HandleStatus, RegisterFromStatus, InsertNode,
     RefreshNode, MessageFails
<1>10. ASSUME NEW h \in Handlers, NEW m \in Modules, DetachNodesQuietly(h, m)
       PROVE  RequestsInOrder'
  <2>1. InOrder(Request("deleteModule", "remove", NoNode, m))
    BY DEF InOrder, Request
  <2> QED BY <1>10, <2>1, OrderKept DEF DetachNodesQuietly, DetachNodes
<1>11. ASSUME NEW h \in Handlers, RequestFailsQuietly(h) PROVE RequestsInOrder'
  BY <1>11, FinishedInOrder DEF RequestFailsQuietly, RequestFails
<1>12. ASSUME NEW h \in Handlers, ReplyAndInvalidate(h) PROVE RequestsInOrder'
  BY <1>12, FinishedInOrder DEF ReplyAndInvalidate, Reply
<1>13. ASSUME NEW h \in Handlers, TagRequest(h) PROVE RequestsInOrder'
  <2>1. ASSUME NEW n \in Nodes, DeleteSensorTagsExcept(h, n) PROVE RequestsInOrder'
    <3>1. InOrder(Request("saveTags", "upsert", n, NoModule))
      BY DEF InOrder, Request
    <3> QED BY <2>1, <3>1, OrderKept DEF DeleteSensorTagsExcept
  <2>2. ASSUME NEW n \in Nodes, SaveNodeTag(h, n) PROVE RequestsInOrder'
    BY <2>2, <1>u DEF SaveNodeTag, rvars
  <2>3. ASSUME NEW n \in Nodes, InvalidateBeforeDelete(h, n) PROVE RequestsInOrder'
    <3>1. InOrder(Request("deleteTag", "deleteTag", n, NoModule))
      BY DEF InOrder, Request
    <3> QED BY <2>3, <3>1, OrderKept DEF InvalidateBeforeDelete
  <2>4. CASE UpsertNodeTags(h)
    BY <2>4, WentOnInOrder DEF UpsertNodeTags
  <2>5. CASE UpsertFails(h)
    BY <2>5, FinishedInOrder DEF UpsertFails
  <2>6. CASE DeleteNodeTag(h)
    BY <2>6, FinishedInOrder DEF DeleteNodeTag
  <2> QED BY <1>13, <2>1, <2>2, <2>3, <2>4, <2>5, <2>6 DEF TagRequest
<1>14. ASSUME GetNodeMeta \/ \E n \in Nodes : Expire(n) PROVE RequestsInOrder'
  BY <1>14, <1>u DEF GetNodeMeta, MissMeta, ListNodeTags, ListNodeTagsFails,
     GetModuleIDByNode, GetModuleIDFails, PutMeta, Expire, rvars
<1>15. ASSUME UNCHANGED mvars PROVE RequestsInOrder'
  BY <1>15, <1>u DEF mvars, rvars
<1> QED BY <1>1, <1>2, <1>3, <1>4, <1>5, <1>6, <1>7, <1>8, <1>9, <1>10, <1>11, <1>12, <1>13,
           <1>14, <1>15 DEF MNext, RegistryStep

LEMMA NextFillNamesNode ==
    ASSUME MTypeOK, FillNamesNode, [MNext]_mvars
    PROVE  FillNamesNode'
<1>u. ASSUME UNCHANGED fill PROVE FillNamesNode'
  BY <1>u DEF FillNamesNode
<1>1. ASSUME RegistryStep \/ UNCHANGED mvars PROVE FillNamesNode'
  BY <1>1, <1>u DEF RegistryStep, mvars
<1>2. ASSUME NEW h \in Handlers,
             \/ \E m \in Modules : DetachNodesQuietly(h, m)
             \/ RequestFailsQuietly(h) \/ ReplyAndInvalidate(h) \/ TagRequest(h)
      PROVE  FillNamesNode'
  BY <1>2, <1>u DEF DetachNodesQuietly, RequestFailsQuietly, ReplyAndInvalidate, TagRequest,
     DeleteSensorTagsExcept, SaveNodeTag, InvalidateBeforeDelete, UpsertNodeTags, UpsertFails,
     DeleteNodeTag
<1>3. ASSUME NEW n \in Nodes, MissMeta(n) \/ Expire(n) PROVE FillNamesNode'
  BY <1>3, <1>u DEF MissMeta, Expire, FillNamesNode, Filling
<1>4. ASSUME \/ ListNodeTags \/ ListNodeTagsFails \/ GetModuleIDByNode \/ GetModuleIDFails
             \/ PutMeta
      PROVE  FillNamesNode'
  BY <1>4 DEF ListNodeTags, ListNodeTagsFails, GetModuleIDByNode, GetModuleIDFails, PutMeta,
     FillNamesNode, Filling, NoFill
<1> QED BY <1>1, <1>2, <1>3, <1>4 DEF MNext, GetNodeMeta

LEMMA NextFailureBringsNothing ==
    ASSUME FailureBringsNothing, [MNext]_mvars
    PROVE  FailureBringsNothing'
<1>u. ASSUME UNCHANGED fill PROVE FailureBringsNothing'
  BY <1>u DEF FailureBringsNothing
<1>1. ASSUME RegistryStep \/ UNCHANGED mvars PROVE FailureBringsNothing'
  BY <1>1, <1>u DEF RegistryStep, mvars
<1>2. ASSUME NEW h \in Handlers,
             \/ \E m \in Modules : DetachNodesQuietly(h, m)
             \/ RequestFailsQuietly(h) \/ ReplyAndInvalidate(h) \/ TagRequest(h)
      PROVE  FailureBringsNothing'
  BY <1>2, <1>u DEF DetachNodesQuietly, RequestFailsQuietly, ReplyAndInvalidate, TagRequest,
     DeleteSensorTagsExcept, SaveNodeTag, InvalidateBeforeDelete, UpsertNodeTags, UpsertFails,
     DeleteNodeTag
<1>3. ASSUME NEW n \in Nodes, MissMeta(n) \/ Expire(n) PROVE FailureBringsNothing'
  BY <1>3, <1>u DEF MissMeta, Expire, FailureBringsNothing, Filling
<1>4. ASSUME \/ ListNodeTags \/ ListNodeTagsFails \/ GetModuleIDByNode \/ GetModuleIDFails
             \/ PutMeta
      PROVE  FailureBringsNothing'
  BY <1>4 DEF ListNodeTags, ListNodeTagsFails, GetModuleIDByNode, GetModuleIDFails, PutMeta,
     FailureBringsNothing, Filling, NoFill
<1> QED BY <1>1, <1>2, <1>3, <1>4 DEF MNext, GetNodeMeta

\* Only the MQTT goroutine inserts nodes, and it is at the insert of one at a time.
LEMMA NextInsertNeverCollides ==
    ASSUME MTypeOK, RequestsInOrder, MessagesNameNodes, InsertNeverCollides, [MNext]_mvars
    PROVE  MessagesNameNodes' /\ InsertNeverCollides'
<1> DEFINE Goal == MessagesNameNodes' /\ InsertNeverCollides'
<1>t. node \in [Nodes -> Rows] /\ mqtt \in Messages
  BY MTypeOKParts
<1>f. Absent.known = FALSE /\ Detached.known = TRUE
  BY DEF Absent, Detached
\* A step that registers nobody.
<1>q. ASSUME UNCHANGED mqtt, \A n \in Nodes : node'[n].known => node[n].known PROVE Goal
  BY <1>q DEF MessagesNameNodes, InsertNeverCollides
<1>n. ASSUME UNCHANGED <<mqtt, node>> PROVE Goal
  BY <1>n, <1>q
<1>i. ASSUME mqtt' = Quiet PROVE Goal
  BY <1>i DEF Quiet, MessagesNameNodes, InsertNeverCollides
\* A lookup.
<1>l. ASSUME NEW n \in Nodes, NEW step, Hears(n, step), UNCHANGED node,
             step = "insert" => ~node[n].known
      PROVE  Goal
  BY <1>l DEF Hears, MessagesNameNodes, InsertNeverCollides
<1>1. ASSUME NEW h \in Handlers, NEW n \in Nodes, DeleteNode(h, n) PROVE Goal
  <2>1. UNCHANGED mqtt /\ node' = [node EXCEPT ![n] = Absent]
    BY <1>1 DEF DeleteNode
  <2> QED BY <2>1, <1>t, <1>f, <1>q
<1>2. ASSUME NEW h \in Handlers, UpdatePairing(h) PROVE Goal
  <2> DEFINE l == request[h].node
             r == IF ~node[l].known THEN node[l]
                  ELSE IF request[h].op = "pair" THEN Attached(request[h].module)
                  ELSE Detached
  <2>1. UNCHANGED mqtt /\ node' = [node EXCEPT ![l] = r]
    BY <1>2 DEF UpdatePairing
  <2>2. r.known => node[l].known
    OBVIOUS
  <2> HIDE DEF r, l
  <2> QED BY <2>1, <2>2, <1>t, <1>q
<1>3. ASSUME NEW h \in Handlers, NEW m \in Modules, DetachNodesQuietly(h, m) PROVE Goal
  <2>1. \A n \in Nodes : node[n].module = m => node[n].known
    BY <1>t, RowFields, RegistryAssumption DEF Absent
  <2> QED BY <1>3, <2>1, <1>q DEF DetachNodesQuietly, DetachNodes
<1>4. ASSUME NEW h \in Handlers,
             \/ \E m \in Modules : CreateModule(h, m)
             \/ RemoveModule(h)
             \/ \E n \in Nodes, m \in Modules : PairCheckModule(h, n, m)
             \/ \E n \in Nodes : UnpairLookup(h, n)
             \/ PairLookup(h) \/ RereadNode(h)
      PROVE  Goal
  BY <1>4, <1>n DEF CreateModule, RemoveModule, PairCheckModule, UnpairLookup, PairLookup, RereadNode
<1>5. ASSUME Message PROVE Goal
  <2>1. ASSUME NEW n \in Nodes, HandleDiscovery(n) PROVE Goal
    BY <2>1, <1>l DEF HandleDiscovery, Register
  <2>2. ASSUME NEW n \in Nodes, HandleStatus(n) PROVE Goal
    BY <2>2, <1>l DEF HandleStatus
  <2>3. ASSUME RegisterFromStatus PROVE Goal
    BY <2>3, <1>l DEF RegisterFromStatus, Register, MessagesNameNodes
  <2>4. ASSUME InsertNode \/ RefreshNode \/ MessageFails PROVE Goal
    BY <2>4, <1>i DEF InsertNode, RefreshNode, MessageFails
  <2> QED BY <1>5, <2>1, <2>2, <2>3, <2>4 DEF Message
<1>6. ASSUME NEW h \in Handlers,
             RequestFailsQuietly(h) \/ ReplyAndInvalidate(h) \/ TagRequest(h)
      PROVE  Goal
  BY <1>6, <1>n DEF RequestFailsQuietly, RequestFails, ReplyAndInvalidate, Reply, TagRequest,
     DeleteSensorTagsExcept, SaveNodeTag, InvalidateBeforeDelete, UpsertNodeTags, UpsertFails,
     DeleteNodeTag, rvars
<1>7. ASSUME GetNodeMeta \/ \E n \in Nodes : Expire(n) PROVE Goal
  BY <1>7, <1>n DEF GetNodeMeta, MissMeta, ListNodeTags, ListNodeTagsFails,
     GetModuleIDByNode, GetModuleIDFails, PutMeta, Expire, rvars
<1>8. ASSUME UNCHANGED mvars PROVE Goal
  BY <1>8, <1>n DEF mvars, rvars
<1> QED BY <1>1, <1>2, <1>3, <1>4, <1>5, <1>6, <1>7, <1>8 DEF MNext, RegistryStep

-----------------------------------------------------------------------------
(* No step leaves a stale entry unaccounted for *)

LEMMA NextAccounted ==
    ASSUME MTypeOK, RequestsInOrder, InsertNeverCollides, MessagesNameNodes,
           FailureBringsNothing,
           NEW n \in Nodes, Accounted(n), [MNext]_mvars
    PROVE  Accounted(n)'
<1>t. /\ node \in [Nodes -> Rows]
      /\ request \in [Handlers -> MRequests]
      /\ tags \in [Nodes -> 0 .. MaxEdits]
      /\ meta \in [Nodes -> Entries]
  BY MTypeOKParts
\* The three ways to account for n.
<1>o. ASSUME NEW h \in Handlers, Owes(h, n)' PROVE Accounted(n)'
  BY <1>o DEF Accounted
<1>m. ASSUME meta'[n] = NoMeta PROVE Accounted(n)'
  BY <1>m DEF Accounted, Coherent, NoMeta
<1>x. ASSUME meta'[n].excuse \in {"raced", "neglected"} PROVE Accounted(n)'
  BY <1>x DEF Accounted
\* A step that leaves entry and mapping of n alone, and fulfils no duty towards it.
<1>s. ASSUME meta'[n] = meta[n], tags'[n] = tags[n], node'[n].module = node[n].module,
             \A g \in Handlers : Owes(g, n) => Owes(g, n)'
      PROVE  Accounted(n)'
  BY <1>s DEF Accounted, Coherent, OnlyModuleUnknown, Mapping
\* Such a step of a handler that owes n nothing.
<1>h. ASSUME NEW h \in Handlers, ~Owes(h, n), NEW r, request' = [request EXCEPT ![h] = r],
             meta'[n] = meta[n], tags'[n] = tags[n], node'[n] = node[n]
      PROVE  Accounted(n)'
  <2>1. \A g \in Handlers : Owes(g, n) => Owes(g, n)'
    BY <1>h, <1>t DEF Owes
  <2> QED BY <1>h, <2>1, <1>s
<1>u. ASSUME UNCHANGED request, meta'[n] = meta[n], tags'[n] = tags[n], node'[n] = node[n]
      PROVE  Accounted(n)'
  <2>1. \A g \in Handlers : Owes(g, n) => Owes(g, n)'
    BY <1>u DEF Owes
  <2> QED BY <1>u, <2>1, <1>s
\* A change the cache is not told of.
<1>g. ASSUME NEW S, n \in S, Neglect(S) PROVE Accounted(n)'
  <2>1. CASE meta[n].cached
    <3>1. meta'[n] = [meta[n] EXCEPT !.excuse = "neglected"] /\ meta[n] \in Entries
      BY <1>g, <2>1, <1>t DEF Neglect
    <3>2. meta'[n].excuse = "neglected"
      BY <3>1 DEF Entries
    <3> QED BY <3>2, <1>x
  <2>2. CASE ~meta[n].cached
    <3>1. meta'[n] = meta[n]
      BY <1>g, <2>2 DEF Neglect
    <3> QED BY <2>2, <3>1 DEF Accounted, Coherent
  <2> QED BY <2>1, <2>2
<1>e. ASSUME NEW S, n \notin S, Neglect(S) PROVE meta'[n] = meta[n]
  BY <1>e DEF Neglect
<1>d. ASSUME NEW l, InvalidateMeta(l) PROVE meta'[n] = IF n = l THEN NoMeta ELSE meta[n]
  BY <1>d, <1>t DEF InvalidateMeta
<1>i. \A h \in Handlers : request[h] = Idle => ~Owes(h, n)
  BY DEF Owes, Idle, Request
<1>p. \A h \in Handlers :
        request[h].at \in {"lookup", "update", "remove", "deleteTag"} => ~Owes(h, n)
  BY DEF Owes
<1>r. \A h \in Handlers : request[h].node # n => ~Owes(h, n)
  BY DEF Owes
<1>1. CASE RegistryStep
  <2>0. UNCHANGED <<tags, meta>>
    BY <1>1 DEF RegistryStep
  <2>1. ASSUME NEW h \in Handlers, NEW m \in Modules, CreateModule(h, m) PROVE Accounted(n)'
    BY <2>0, <2>1, <1>u DEF CreateModule
  <2>2. ASSUME NEW h \in Handlers, RemoveModule(h) PROVE Accounted(n)'
    BY <2>0, <2>2, <1>h, <1>p DEF RemoveModule, Goto, Finish
  <2>3. ASSUME NEW h \in Handlers, NEW l \in Nodes, NEW m \in Modules, PairCheckModule(h, l, m)
        PROVE  Accounted(n)'
    BY <2>0, <2>3, <1>h, <1>i DEF PairCheckModule
  <2>4. ASSUME NEW h \in Handlers, NEW l \in Nodes, UnpairLookup(h, l) PROVE Accounted(n)'
    BY <2>0, <2>4, <1>h, <1>i DEF UnpairLookup
  <2>5. ASSUME NEW h \in Handlers, NEW l \in Nodes, DeleteNode(h, l) PROVE Accounted(n)'
    <3>1. CASE l = n
      <4>1. request'[h] = Request("deleteNode", "reply", n, NoModule)
        BY <2>5, <3>1, <1>t DEF DeleteNode
      <4> QED BY <4>1, <1>o DEF Owes, Request
    <3>2. CASE l # n
      <4>1. node'[n] = node[n]
        BY <2>5, <3>2, <1>t DEF DeleteNode
      <4> QED BY <2>0, <2>5, <4>1, <1>h, <1>i DEF DeleteNode
    <3> QED BY <3>1, <3>2
  <2>6. ASSUME NEW h \in Handlers, PairLookup(h) PROVE Accounted(n)'
    BY <2>0, <2>6, <1>h, <1>p DEF PairLookup, Goto, Finish
  <2>7. ASSUME NEW h \in Handlers, UpdatePairing(h) PROVE Accounted(n)'
    <3> DEFINE l == request[h].node
               row == IF ~node[l].known THEN node[l]
                      ELSE IF request[h].op = "pair" THEN Attached(request[h].module)
                      ELSE Detached
    <3>1. /\ node' = [node EXCEPT ![l] = row]
          /\ request' = [request EXCEPT ![h] = [request[h] EXCEPT !.at = "reread"]]
          /\ request[h].op \in {"pair", "unpair"} /\ request[h].at = "update"
      BY <2>7 DEF UpdatePairing, Goto, RequestsInOrder
    <3>2. CASE l = n /\ node[n].known
      <4>1. node'[n].known
        BY <3>1, <3>2, <1>t DEF Attached, Detached
      <4>2. request[h] \in MRequests /\ request'[h] = [request[h] EXCEPT !.at = "reread"]
        BY <3>1, <1>t
      <4>3. request'[h].at = "reread" /\ request'[h].op = request[h].op /\ request'[h].node = n
        BY <4>2, <3>2 DEF MRequests
      <4>4. Owes(h, n)'
        BY <4>1, <4>3, <3>1 DEF Owes
      <4> QED BY <4>4, <1>o
    <3>3. CASE ~(l = n /\ node[n].known)
      <4>1. node'[n] = node[n]
        BY <3>1, <3>3, <1>t
      <4> QED BY <2>0, <3>1, <4>1, <1>h, <1>p
    <3> QED BY <3>2, <3>3
  <2>8. ASSUME NEW h \in Handlers, RereadNode(h) PROVE Accounted(n)'
    <3>1. /\ request[h].op \in {"pair", "unpair"} /\ request[h].at = "reread"
          /\ request[h] \in MRequests /\ UNCHANGED node
      BY <2>8, <1>t DEF RereadNode, RequestsInOrder
    <3>2. CASE request[h].node = n /\ node[n].known
      <4>1. request'[h] = [request[h] EXCEPT !.at = "reply"]
        BY <2>8, <3>2, <1>t DEF RereadNode, Goto
      <4>2. request'[h].at = "reply" /\ request'[h].op = request[h].op /\ request'[h].node = n
        BY <4>1, <3>1, <3>2 DEF MRequests
      <4>3. Owes(h, n)'
        BY <4>2, <3>1 DEF Owes
      <4> QED BY <4>3, <1>o
    <3>3. CASE ~(request[h].node = n /\ node[n].known)
      <4>1. ~Owes(h, n)
        BY <3>1, <3>3 DEF Owes
      <4> QED BY <2>0, <2>8, <3>1, <4>1, <1>h DEF RereadNode, Goto, Finish
    <3> QED BY <3>2, <3>3
  <2>9. ASSUME Message PROVE Accounted(n)'
    <3>1. CASE InsertNode
      <4>1. CASE mqtt.node = n
        <5>1. ~node[n].known /\ node[n] \in Rows
          BY <3>1, <4>1, <1>t DEF InsertNode, InsertNeverCollides
        <5>2. node[n] = Absent
          BY <5>1, RowFields
        <5>3. node'[n] = Detached
          BY <3>1, <4>1, <1>t DEF InsertNode
        <5>4. node'[n].module = node[n].module
          BY <5>2, <5>3 DEF Absent, Detached
        <5>5. \A g \in Handlers : Owes(g, n) => Owes(g, n)'
          BY <3>1, <5>1 DEF InsertNode, Owes
        <5> QED BY <2>0, <5>4, <5>5, <1>s
      <4>2. CASE mqtt.node # n
        <5>1. node'[n] = node[n]
          BY <3>1, <4>2, <1>t DEF InsertNode
        <5> QED BY <2>0, <3>1, <5>1, <1>u DEF InsertNode
      <4> QED BY <4>1, <4>2
    <3>2. CASE ~InsertNode
      BY <2>0, <2>9, <3>2, <1>u DEF Message, HandleDiscovery, HandleStatus, RegisterFromStatus,
         RefreshNode, MessageFails
    <3> QED BY <3>1, <3>2
  <2> QED BY <1>1, <2>1, <2>2, <2>3, <2>4, <2>5, <2>6, <2>7, <2>8, <2>9 DEF RegistryStep
<1>2. ASSUME NEW h \in Handlers, NEW m \in Modules, DetachNodesQuietly(h, m)
      PROVE  Accounted(n)'
  <2> DEFINE S == {l \in Nodes : node[l].module = m}
  <2>1. Neglect(S) /\ UNCHANGED tags /\ DetachNodes(h, m)
    BY <1>2 DEF DetachNodesQuietly
  <2>2. CASE n \in S
    BY <2>1, <2>2, <1>g
  <2>3. CASE n \notin S
    <3>1. node'[n] = node[n]
      BY <2>1, <2>3 DEF DetachNodes
    <3>2. meta'[n] = meta[n]
      BY <2>1, <2>3, <1>e
    <3> QED BY <2>1, <3>1, <3>2, <1>h, <1>i DEF DetachNodes
  <2> QED BY <2>2, <2>3
<1>3. ASSUME NEW h \in Handlers, RequestFailsQuietly(h) PROVE Accounted(n)'
  <2>1. /\ request' = [request EXCEPT ![h] = Idle] /\ UNCHANGED <<node, tags>>
        /\ request[h].at \in {"lookup", "update", "reread", "remove"}
    BY <1>3 DEF RequestFailsQuietly, RequestFails, Finish
  <2>2. CASE request[h].at = "reread"
    <3>1. Neglect({request[h].node})
      BY <1>3, <2>2 DEF RequestFailsQuietly
    <3>2. CASE request[h].node = n
      BY <3>1, <3>2, <1>g
    <3>3. CASE request[h].node # n
      BY <2>1, <3>1, <3>3, <1>e, <1>h, <1>r
    <3> QED BY <3>2, <3>3
  <2>3. CASE request[h].at # "reread"
    <3>1. UNCHANGED meta
      BY <1>3, <2>3 DEF RequestFailsQuietly
    <3> QED BY <2>1, <2>3, <3>1, <1>h, <1>p
  <2> QED BY <2>2, <2>3
<1>4. ASSUME NEW h \in Handlers, ReplyAndInvalidate(h) PROVE Accounted(n)'
  <2>1. /\ request' = [request EXCEPT ![h] = Idle] /\ UNCHANGED <<node, tags>>
        /\ request[h].at = "reply"
    BY <1>4 DEF ReplyAndInvalidate, Reply, Finish
  <2>2. CASE request[h].op \in {"pair", "unpair", "deleteNode", "saveTags"}
    <3>1. InvalidateMeta(request[h].node)
      BY <1>4, <2>2 DEF ReplyAndInvalidate
    <3>2. CASE request[h].node = n
      BY <3>1, <3>2, <1>d, <1>m
    <3>3. CASE request[h].node # n
      BY <2>1, <3>1, <3>3, <1>d, <1>h, <1>r
    <3> QED BY <3>2, <3>3
  <2>3. CASE request[h].op \notin {"pair", "unpair", "deleteNode", "saveTags"}
    <3>1. UNCHANGED meta /\ ~Owes(h, n)
      BY <1>4, <2>1, <2>3 DEF ReplyAndInvalidate, Owes
    <3> QED BY <2>1, <3>1, <1>h
  <2> QED BY <2>2, <2>3
<1>5. ASSUME NEW h \in Handlers, TagRequest(h) PROVE Accounted(n)'
  <2>1. ASSUME NEW l \in Nodes, DeleteSensorTagsExcept(h, l) PROVE Accounted(n)'
    <3>1. CASE l = n
      <4>1. request'[h] = Request("saveTags", "upsert", n, NoModule)
        BY <2>1, <3>1, <1>t DEF DeleteSensorTagsExcept
      <4> QED BY <4>1, <1>o DEF Owes, Request
    <3>2. CASE l # n
      <4>1. tags'[n] = tags[n]
        BY <2>1, <3>2, <1>t DEF DeleteSensorTagsExcept, EditTags
      <4> QED BY <2>1, <4>1, <1>h, <1>i DEF DeleteSensorTagsExcept
    <3> QED BY <3>1, <3>2
  <2>2. ASSUME NEW l \in Nodes, SaveNodeTag(h, l) PROVE Accounted(n)'
    <3>1. Neglect({l}) /\ EditTags(l) /\ UNCHANGED <<node, request>>
      BY <2>2 DEF SaveNodeTag, rvars
    <3>2. CASE l = n
      BY <3>1, <3>2, <1>g
    <3>3. CASE l # n
      BY <3>1, <3>3, <1>e, <1>u, <1>t DEF EditTags
    <3> QED BY <3>2, <3>3
  <2>3. ASSUME NEW l \in Nodes, InvalidateBeforeDelete(h, l) PROVE Accounted(n)'
    <3>1. CASE l = n
      BY <2>3, <3>1, <1>d, <1>m DEF InvalidateBeforeDelete
    <3>2. CASE l # n
      <4>1. InvalidateMeta(l) /\ ~Owes(h, n)
        BY <2>3, <1>i DEF InvalidateBeforeDelete
      <4>2. meta'[n] = meta[n]
        BY <4>1, <3>2, <1>d
      <4>3. /\ request' = [request EXCEPT ![h] =
                            Request("deleteTag", "deleteTag", l, NoModule)]
            /\ UNCHANGED <<node, tags>>
        BY <2>3 DEF InvalidateBeforeDelete
      <4> QED BY <4>1, <4>2, <4>3, <1>h
    <3> QED BY <3>1, <3>2
  <2>4. CASE UpsertNodeTags(h)
    <3>1. /\ request' = [request EXCEPT ![h] = [request[h] EXCEPT !.at = "reply"]]
          /\ request[h].op = "saveTags" /\ request[h] \in MRequests
          /\ EditTags(request[h].node) /\ UNCHANGED <<node, meta>>
      BY <2>4, <1>t DEF UpsertNodeTags, Goto, RequestsInOrder
    <3>2. CASE request[h].node = n
      <4>1. request'[h].at = "reply" /\ request'[h].op = "saveTags" /\ request'[h].node = n
        BY <3>1, <3>2, <1>t DEF MRequests
      <4>2. Owes(h, n)'
        BY <4>1 DEF Owes
      <4> QED BY <4>2, <1>o
    <3>3. CASE request[h].node # n
      <4>1. tags'[n] = tags[n]
        BY <3>1, <3>3, <1>t DEF EditTags
      <4> QED BY <3>1, <3>3, <4>1, <1>h, <1>r
    <3> QED BY <3>2, <3>3
  <2>5. CASE UpsertFails(h)
    <3>1. /\ request' = [request EXCEPT ![h] = Idle] /\ UNCHANGED <<node, tags>>
          /\ Neglect({request[h].node})
      BY <2>5 DEF UpsertFails, Finish
    <3>2. CASE request[h].node = n
      BY <3>1, <3>2, <1>g
    <3>3. CASE request[h].node # n
      BY <3>1, <3>3, <1>e, <1>h, <1>r
    <3> QED BY <3>2, <3>3
  <2>6. CASE DeleteNodeTag(h)
    <3>1. /\ request' = [request EXCEPT ![h] = Idle] /\ UNCHANGED node
          /\ Neglect({request[h].node}) /\ EditTags(request[h].node)
      BY <2>6 DEF DeleteNodeTag, Finish
    <3>2. CASE request[h].node = n
      BY <3>1, <3>2, <1>g
    <3>3. CASE request[h].node # n
      <4>1. tags'[n] = tags[n]
        BY <3>1, <3>3, <1>t DEF EditTags
      <4> QED BY <3>1, <3>3, <4>1, <1>e, <1>h, <1>r
    <3> QED BY <3>2, <3>3
  <2> QED BY <1>5, <2>1, <2>2, <2>3, <2>4, <2>5, <2>6 DEF TagRequest
<1>6. CASE GetNodeMeta
  <2>1. CASE PutMeta
    <3>1. CASE fill.node = n
      <4>1. meta'[n] = Read /\ UNCHANGED <<tags, node>>
        BY <2>1, <3>1, <1>t DEF PutMeta, rvars
      <4>2. CASE Read.excuse = "none"
        <5>1. [tags |-> fill.tags, module |-> fill.module] = Mapping(n)
          BY <3>1, <4>2 DEF Read
        <5> QED BY <4>1, <5>1 DEF Read, Accounted, Coherent, Mapping
      <4>3. CASE Read.excuse = "failed"
        <5>1. fill.at = "failed" /\ fill.tags = tags[n]
          BY <3>1, <4>3 DEF Read
        <5>2. fill.module = NoModule
          BY <5>1 DEF FailureBringsNothing
        <5>3. /\ meta'[n].excuse = "failed" /\ meta'[n].module = NoModule
              /\ meta'[n].tags = tags'[n]
          BY <4>1, <4>3, <5>1, <5>2 DEF Read
        <5> QED BY <5>3 DEF Accounted, OnlyModuleUnknown
      <4>4. CASE Read.excuse = "raced"
        BY <4>1, <4>4, <1>x
      <4>5. Read.excuse \in {"none", "failed", "raced"}
        BY DEF Read
      <4> QED BY <4>2, <4>3, <4>4, <4>5
    <3>2. CASE fill.node # n
      <4>1. meta'[n] = meta[n]
        BY <2>1, <3>2, <1>t DEF PutMeta
      <4> QED BY <2>1, <4>1, <1>u DEF PutMeta, rvars
    <3> QED BY <3>1, <3>2
  <2>2. CASE ~PutMeta
    BY <1>6, <2>2, <1>u DEF GetNodeMeta, MissMeta, ListNodeTags, ListNodeTagsFails,
       GetModuleIDByNode, GetModuleIDFails, rvars
  <2> QED BY <2>1, <2>2
<1>7. ASSUME NEW l \in Nodes, Expire(l) PROVE Accounted(n)'
  <2>1. CASE l = n
    BY <1>7, <2>1, <1>d, <1>m DEF Expire
  <2>2. CASE l # n
    BY <1>7, <2>2, <1>d, <1>u DEF Expire, rvars
  <2> QED BY <2>1, <2>2
<1>8. CASE UNCHANGED mvars
  BY <1>8, <1>u DEF mvars, rvars
<1> QED BY <1>1, <1>2, <1>3, <1>4, <1>5, <1>6, <1>7, <1>8 DEF MNext

\* What the composition keeps true for every value of the constants.
LEMMA MInvariance == MSpec => []MInv
<1>1. MInv /\ [MNext]_mvars => MInv'
  <2> SUFFICES ASSUME MInv, [MNext]_mvars PROVE MInv'
    OBVIOUS
  <2>1. MTypeOK' /\ RequestsInOrder' /\ FillNamesNode'
    BY NextMTypeOK, NextInOrder, NextFillNamesNode DEF MInv
  <2>4. FailureBringsNothing'
    BY NextFailureBringsNothing DEF MInv
  <2>2. MessagesNameNodes' /\ InsertNeverCollides'
    BY NextInsertNeverCollides DEF MInv
  <2>3. ASSUME NEW n \in Nodes PROVE Accounted(n)'
    BY NextAccounted DEF MInv
  <2> QED BY <2>1, <2>2, <2>3, <2>4 DEF MInv
<1> QED BY <1>1, MInitInv, PTL DEF MSpec

-----------------------------------------------------------------------------
(* The mapping cache: the theorems *)

\* Type correctness of the cache beside the tables it is filled from.
THEOREM MTypeCorrect == MSpec => []MTypeOK
BY MInvariance, PTL DEF MInv

\* For any number of handlers and nodes: an entry that differs from the tables has one
\* of the named excuses, or a request under way will drop it; a failed lookup leaves
\* everything but the module right (service.go:92-123,
\* 237-283, 411-462).
THEOREM OnlyExcusedEntriesAreStale == MSpec => []StaleOnlyIfExcused
<1>1. MInv => StaleOnlyIfExcused
  <2> SUFFICES ASSUME MInv, NEW n \in Nodes
               PROVE  \/ Coherent(n) \/ InvalidationPending(n)
                      \/ meta[n].excuse \in {"raced", "neglected"}
                      \/ OnlyModuleUnknown(n)
    BY DEF StaleOnlyIfExcused
  <2>1. ASSUME NEW h \in Handlers, Owes(h, n) PROVE InvalidationPending(n)
    BY <2>1 DEF Owes, InvalidationPending
  <2> QED BY <2>1 DEF MInv, Accounted
<1> QED BY <1>1, MInvariance, PTL
=============================================================================
