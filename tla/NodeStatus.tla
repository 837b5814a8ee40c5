----------------------------- MODULE NodeStatus -----------------------------
(***************************************************************************)
(* Whether a node is shown online: the MQTT goroutine that hears of nodes  *)
(* (subscriber.go, HandleStatus, HandleDiscovery, TouchNode), the touch    *)
(* flusher, the nodes table, the status cache in Redis and the two places  *)
(* that combine them, GetNode/ListNodes and the dashboard.                 *)
(*                                                                         *)
(* One unit of time is the flush interval, 30 seconds.  Statements and     *)
(* messages take no time; all nodes are registered (NodeRegistry).         *)
(* What TagMapping calls by the same name has the prefix Status here,      *)
(* since NodeProofs speaks of both.                                        *)
(***************************************************************************)
EXTENDS Integers

CONSTANTS
    Nodes,
    StatusTTL,    \* life of a Redis entry (90 s)
    DisplayAge,   \* last_seen age at which the dashboard says offline (90 s)
    MaxNow,       \* bound on time
    MaxFaults,    \* bound on database and Redis errors
    MaxRestarts,  \* bound on stops and MQTT reconnections
    NoNode

ASSUME StatusAssumption ==
    /\ NoNode \notin Nodes
    /\ StatusTTL \in Nat \ {0}
    /\ DisplayAge \in Nat \ {0}
    /\ MaxNow \in Nat
    /\ MaxFaults \in Nat
    /\ MaxRestarts \in Nat

VARIABLES
    now,
    db,        \* status and last_seen_at in nodes
    redis,     \* node:status:<id>
    pending,   \* touchPending
    flushing,  \* the nodes flushTouch has still to write
    flusher,   \* "waiting" for its ticker, "due", or "stopped"
    message,   \* the status message the MQTT goroutine is handling
    alive,     \* nodes whose firmware is running and connected
    reported,  \* alive nodes heard of since the last tick
    will,      \* nodes whose last will the broker has still to publish
    retained,  \* the broker's retained status of each node
    replay,    \* retained messages on their way after a subscription
    process,   \* module-svc: "up", or "stopping" once the signal arrived
    faults, restarts,
    heard,     \* history: when a message of or to the node last arrived
    healthy    \* history: since when nothing spoke against the node

storeVars == <<db, redis>>
flushVars == <<pending, flushing, flusher>>
nodeVars  == <<alive, reported, will, retained, healthy>>
statusVars == <<now, db, redis, pending, flushing, flusher, message, alive, reported,
                will, retained, replay, process, faults, restarts, heard, healthy>>

Status == {"online", "offline", "unknown"}

NoMessage == [at |-> "idle", node |-> NoNode, status |-> "unknown"]

Never == -1 \* a Redis key without a TTL

Missing == [status |-> "none", expires |-> 0]

Unexpired(n) == redis[n].expires = Never \/ redis[n].expires > now

StatusInit ==
    /\ now = 0
    /\ db = [n \in Nodes |-> [status |-> "unknown", seen |-> 0]]
    /\ redis = [n \in Nodes |-> Missing]
    /\ pending = {} /\ flushing = {} /\ flusher = "waiting"
    /\ message = NoMessage
    /\ alive = {} /\ reported = {} /\ will = {}
    /\ retained = [n \in Nodes |-> "none"]
    /\ replay = {}
    /\ process = "up"
    /\ faults = 0 /\ restarts = 0
    /\ heard = [n \in Nodes |-> 0]
    /\ healthy = [n \in Nodes |-> 0]

Fault ==
    /\ faults < MaxFaults
    /\ faults' = faults + 1

-----------------------------------------------------------------------------
(* The MQTT goroutine *)

\* onMessage calls TouchNode before it looks at what the message says.
Hear(n) ==
    /\ message = NoMessage
    /\ pending' = pending \cup {n}
    /\ heard' = [heard EXCEPT ![n] = now]
    /\ UNCHANGED <<now, db, redis, flushing, flusher, process, faults, restarts>>

\* Telemetry, diagnostics, alerts, confirmations.
Report(n) ==
    /\ n \in alive
    /\ Hear(n)
    /\ reported' = reported \cup {n}
    /\ UNCHANGED <<message, alive, will, retained, replay, healthy>>

\* A command to the node, {prefix}/actuator/{node_id}, sent by someone else.
Command(n) ==
    /\ Hear(n)
    /\ UNCHANGED <<message, nodeVars, replay>>

HandleStatus(n, s) ==
    /\ Hear(n)
    /\ message' = [at |-> "db", node |-> n, status |-> s]

\* The firmware connects and announces itself on discovery or status; the old
\* session's last will may still be on its way.
Connect(n) ==
    /\ n \notin alive
    /\ HandleStatus(n, "online")
    /\ alive' = alive \cup {n}
    /\ reported' = reported \cup {n}
    /\ retained' = [retained EXCEPT ![n] = "online"]
    /\ healthy' = [healthy EXCEPT ![n] = now]
    /\ UNCHANGED <<will, replay>>

\* The broker publishes the retained last will of a lost connection.
LastWill(n) ==
    /\ n \in will
    /\ HandleStatus(n, "offline")
    /\ will' = will \ {n}
    /\ retained' = [retained EXCEPT ![n] = "offline"]
    /\ healthy' = [healthy EXCEPT ![n] = now]
    /\ UNCHANGED <<alive, reported, replay>>

\* The subscription brings the retained status back.
Replay(n) ==
    /\ n \in replay
    /\ HandleStatus(n, retained[n])
    /\ replay' = replay \ {n}
    /\ healthy' = IF retained[n] = "online" THEN healthy
                  ELSE [healthy EXCEPT ![n] = now]
    /\ UNCHANGED <<alive, reported, will, retained>>

\* UpdateStatus, or the UPDATE of UpsertDiscovered.
WriteStatus ==
    /\ message.at = "db"
    /\ db' = [db EXCEPT ![message.node] = [status |-> message.status, seen |-> now]]
    /\ message' = [message EXCEPT !.at = "redis"]
    /\ UNCHANGED <<now, redis, flushVars, nodeVars, replay, process, faults,
                   restarts, heard>>

WriteStatusFails ==
    /\ message.at = "db"
    /\ Fault
    /\ message' = NoMessage
    /\ healthy' = [healthy EXCEPT ![message.node] = now]
    /\ UNCHANGED <<now, storeVars, flushVars, alive, reported, will, retained,
                   replay, process, restarts, heard>>

\* Mutant: the entry lives twice as long.
CacheStatusTwice ==
    /\ message.at = "redis"
    /\ redis' = [redis EXCEPT ![message.node] =
                    [status |-> message.status, expires |-> now + 2 * StatusTTL]]
    /\ message' = NoMessage
    /\ UNCHANGED <<now, db, flushVars, nodeVars, replay, process, faults,
                   restarts, heard>>

\* SetStatus: HSET, then EXPIRE.
CacheStatus ==
    /\ message.at = "redis"
    /\ redis' = [redis EXCEPT ![message.node] =
                    [status |-> message.status, expires |-> now + StatusTTL]]
    /\ message' = NoMessage
    /\ UNCHANGED <<now, db, flushVars, nodeVars, replay, process, faults,
                   restarts, heard>>

\* HSET succeeds and EXPIRE does not: the key keeps the TTL it had, if any.
CacheStatusNoExpire ==
    LET n == message.node IN
    /\ message.at = "redis"
    /\ Fault
    /\ redis' = [redis EXCEPT ![n] =
                    [status |-> message.status,
                     expires |-> IF Unexpired(n) THEN redis[n].expires ELSE Never]]
    /\ message' = NoMessage
    /\ UNCHANGED <<now, db, flushVars, nodeVars, replay, process, restarts, heard>>

\* HSET fails, which SetStatus ignores too: an entry that is still there keeps its
\* status and, when EXPIRE gets through, lives on.
CacheStatusFails ==
    LET n == message.node IN
    /\ message.at = "redis"
    /\ Fault
    /\ \/ UNCHANGED redis
       \/ /\ Unexpired(n)
          /\ redis' = [redis EXCEPT ![n].expires = now + StatusTTL]
    /\ message' = NoMessage
    /\ healthy' = [healthy EXCEPT ![n] = now]
    /\ UNCHANGED <<now, db, flushVars, alive, reported, will, retained, replay,
                   process, restarts, heard>>

-----------------------------------------------------------------------------
(* The touch flusher *)

\* Mutant: the pending set is copied but not emptied.
SwapKeepingPending ==
    /\ flusher = "due" /\ flushing = {}
    /\ flushing' = pending
    /\ flusher' = "waiting"
    /\ UNCHANGED <<now, storeVars, pending, message, nodeVars, replay, process,
                   faults, restarts, heard>>

\* flushTouch takes the pending set, empties it and unlocks, once the flush before
\* it is over; after the last flush of a stopping process the goroutine returns.
SwapPending ==
    /\ flusher = "due" /\ flushing = {}
    /\ flushing' = pending
    /\ pending' = {}
    /\ flusher' = IF process = "up" THEN "waiting" ELSE "stopped"
    /\ UNCHANGED <<now, storeVars, message, nodeVars, replay, process,
                   faults, restarts, heard>>

\* Mutant: the UPDATE refreshes last_seen_at only.
TouchSeenOnly(n) ==
    /\ n \in flushing
    /\ db' = [db EXCEPT ![n] = [@ EXCEPT !.seen = now]]
    /\ flushing' = flushing \ {n}
    /\ UNCHANGED <<now, redis, pending, flusher, message, nodeVars, replay,
                   process, faults, restarts, heard>>

TouchNode(n) ==
    /\ n \in flushing
    /\ db' = [db EXCEPT ![n] = [status |-> "online", seen |-> now]]
    /\ flushing' = flushing \ {n}
    /\ UNCHANGED <<now, redis, pending, flusher, message, nodeVars, replay,
                   process, faults, restarts, heard>>

\* The failure is logged, the touch is not put back.
TouchFails(n) ==
    /\ n \in flushing
    /\ Fault
    /\ flushing' = flushing \ {n}
    /\ healthy' = [healthy EXCEPT ![n] = now]
    /\ UNCHANGED <<now, storeVars, pending, flusher, message, alive, reported,
                   will, retained, replay, process, restarts, heard>>

-----------------------------------------------------------------------------
(* Nodes, processes and time *)

\* The firmware loses power or network; it says nothing any more.
Die(n) ==
    /\ n \in alive
    /\ alive' = alive \ {n}
    /\ reported' = reported \ {n}
    /\ will' = will \cup {n}
    /\ UNCHANGED <<now, storeVars, flushVars, message, retained, replay, process,
                   faults, restarts, heard, healthy>>

\* SIGTERM: main returns, its deferred calls cancel the flusher's context first.
Terminate ==
    /\ process = "up"
    /\ restarts < MaxRestarts
    /\ restarts' = restarts + 1
    /\ process' = "stopping"
    /\ flusher' = "due"
    /\ UNCHANGED <<now, storeVars, pending, flushing, message, nodeVars, replay,
                   faults, heard>>

Resubscribe == replay' = {n \in Nodes : retained[n] # "none"}

\* The process is gone, whatever its goroutines had left to do, and starts again.
Exit ==
    /\ process = "stopping"
    /\ pending' = {} /\ flushing' = {} /\ flusher' = "waiting"
    /\ message' = NoMessage
    /\ process' = "up"
    /\ Resubscribe
    /\ healthy' = [n \in Nodes |-> now]
    /\ UNCHANGED <<now, storeVars, alive, reported, will, retained, faults,
                   restarts, heard>>

\* The connection to the broker is lost and comes back.
Reconnect ==
    /\ restarts < MaxRestarts
    /\ restarts' = restarts + 1
    /\ Resubscribe
    /\ UNCHANGED <<now, storeVars, flushVars, message, nodeVars, process, faults,
                   heard>>

\* The ticker fires once per unit and the flush is done before the next one; a
\* node that is alive reports at least once per unit.
Tick ==
    /\ now < MaxNow
    /\ process = "up" /\ message = NoMessage
    /\ flusher = "waiting" /\ flushing = {}
    /\ alive \subseteq reported
    /\ now' = now + 1
    /\ flusher' = "due"
    /\ reported' = {}
    /\ UNCHANGED <<storeVars, pending, flushing, message, alive, will, retained,
                   replay, process, faults, restarts, heard, healthy>>

-----------------------------------------------------------------------------
Message(n) == Report(n) \/ Command(n) \/ Connect(n) \/ LastWill(n) \/ Replay(n)

StatusNext ==
    \/ \E n \in Nodes : Message(n) \/ TouchNode(n) \/ TouchFails(n) \/ Die(n)
    \/ WriteStatus \/ WriteStatusFails
    \/ CacheStatus \/ CacheStatusNoExpire \/ CacheStatusFails
    \/ SwapPending
    \/ Terminate \/ Exit \/ Reconnect
    \/ Tick

StatusSpec == StatusInit /\ [][StatusNext]_statusVars

-----------------------------------------------------------------------------
(* What is shown *)

\* GetNode and ListNodes: the Redis status, when there is one, over the row's.
Shown(n) == IF Unexpired(n) THEN redis[n].status ELSE db[n].status

\* nodeEffectiveStatus of the dashboard, on top of that.
Displayed(n) == IF now - db[n].seen > DisplayAge THEN "offline" ELSE Shown(n)

-----------------------------------------------------------------------------
(* Properties *)

StatusTypeOK ==
    /\ now \in 0 .. MaxNow
    /\ db \in [Nodes -> [status : Status, seen : 0 .. MaxNow]]
    /\ redis \in [Nodes -> [status : Status \cup {"none"},
                            expires : {Never} \cup 0 .. MaxNow + StatusTTL]]
    /\ pending \subseteq Nodes /\ flushing \subseteq Nodes
    /\ flusher \in {"waiting", "due", "stopped"}
    /\ message \in [at : {"idle", "db", "redis"}, node : Nodes \cup {NoNode},
                    status : Status]
    /\ reported \subseteq alive /\ alive \subseteq Nodes
    /\ will \subseteq Nodes /\ replay \subseteq Nodes
    /\ retained \in [Nodes -> {"none", "online", "offline"}]
    /\ process \in {"up", "stopping"}
    /\ faults \in 0 .. MaxFaults /\ restarts \in 0 .. MaxRestarts
    /\ heard \in [Nodes -> 0 .. MaxNow]
    /\ healthy \in [Nodes -> 0 .. MaxNow]

\* A node nobody has heard of for more than the display age and one flush
\* interval is displayed offline, whatever the row, Redis and lost flushes say:
\* last_seen_at never runs ahead of the messages by more than one flush
\* (service.go:357-395, modules.js:102-116).
SilenceIsDisplayed ==
    \A n \in Nodes :
        now - heard[n] > DisplayAge + 1 => Displayed(n) = "offline"

\* A node that has been connected and reporting for longer than the status TTL,
\* with no lost write, restart or last will in that time, is displayed online:
\* the batched touches reach the row in time and repair what an earlier last will
\* left there (repository.go:224-230).  Only a Redis key that lost its TTL
\* (cache.go:40-48) can hide that.
ReportingIsDisplayed ==
    \A n \in alive :
        now - healthy[n] > StatusTTL + 1 /\ redis[n].expires # Never
            => Displayed(n) = "online"

(* What a comment of the code says and the code does not do *)

\* service.go:316: HandleStatus "updates connectivity from ... status/{node_id}
\* (incl. LWT)": the last will itself is a touch, so the next flush sets the row
\* back to online.
LastWillLasts ==
    \A n \in Nodes :
        /\ n \notin alive \cup will
        /\ retained[n] = "offline"
        /\ message = NoMessage
        => db[n].status # "online"
=============================================================================
