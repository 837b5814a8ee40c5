------------------------------- MODULE Outbox -------------------------------
(***************************************************************************)
(* The outbox of module-svc: the request handlers that write a business    *)
(* row and then an outbox row (service.go, repository.go), the relay       *)
(* goroutine that drains the table (outbox.go), and the NATS client        *)
(* connection it publishes on (nats.go, seen from main.go).                *)
(*                                                                         *)
(* An event stands for one call of enqueueOutbox: its subject, its payload *)
(* and its msg_id are all unique to it.                                    *)
(***************************************************************************)
EXTENDS Naturals, Sequences, FiniteSets

CONSTANTS
    Events,       \* the events a behaviour may produce
    Workers,      \* request handlers running concurrently (HTTP, MQTT)
    Oversized,    \* events whose payload PublishMsg refuses every time
    BatchSize,    \* the relay's LIMIT (100)
    BufferLimit,  \* what the client buffers while NATS is unreachable (8 MB)
    MaxNow,       \* bound on the database clock, in seconds
    MaxFaults,    \* bound on crashes, lost connections and database errors
    NoEvent

ASSUME OutboxAssumption ==
    /\ Oversized \subseteq Events
    /\ NoEvent \notin Events
    /\ BatchSize \in Nat \ {0}
    /\ BufferLimit \in Nat
    /\ MaxNow \in Nat
    /\ MaxFaults \in Nat

VARIABLES
    now,        \* NOW() of MariaDB: whole seconds
    rank,       \* the order of the rows' random ids
    committed,  \* events whose business row is committed
    row,        \* the outbox table
    created,    \* outbox.created_at
    request,    \* what each handler is doing
    batch,      \* rows the current drain has still to deal with
    marking,    \* row published but not yet marked
    linkUp,     \* NATS is reachable
    buffer,     \* bytes accepted by the client, not yet by the server
    bus,        \* events the NATS server received
    lost,       \* history: events an outage took out of the buffer
    faults,     \* faults so far
    published,  \* history: how often PublishMsg accepted each event
    repeated,   \* history: how often a fault left a published row unmarked
    earlier     \* history: rows visible when each row was inserted

dbVars      == <<now, rank, committed, row, created, earlier>>
relayVars   == <<batch, marking, published, repeated>>
natsVars    == <<linkUp, buffer, bus, lost>>
vars        == <<now, rank, committed, row, created, request, batch, marking,
                 linkUp, buffer, bus, lost, faults, published, repeated,
                 earlier>>

Doing(step, e) == [at |-> step, event |-> e]

Idle == Doing("idle", NoEvent)

\* A row that other transactions can see, and the ones the relay asks for.
Visible == {e \in Events : row[e] \in {"unsent", "sent"}}

\* Mutant: the relay reads rows of transactions that are still open.
UnsentDirtyRead == {e \in Events : row[e] \in {"inserted", "unsent"}}

Unsent  == {e \in Events : row[e] = "unsent"}

\* ORDER BY created_at ASC, id ASC
Before(e, f) ==
    \/ created[e] < created[f]
    \/ created[e] = created[f] /\ rank[e] < rank[f]

Init ==
    /\ now = 0
    /\ rank \in {r \in [Events -> 1 .. Cardinality(Events)] :
                    \A e, f \in Events : r[e] = r[f] => e = f}
    /\ committed = {}
    /\ row = [e \in Events |-> "none"]
    /\ created = [e \in Events |-> 0]
    /\ request = [w \in Workers |-> Idle]
    /\ batch = {}
    /\ marking = NoEvent
    /\ linkUp = TRUE
    /\ buffer = <<>>
    /\ bus = {}
    /\ lost = {}
    /\ faults = 0
    /\ published = [e \in Events |-> 0]
    /\ repeated = [e \in Events |-> 0]
    /\ earlier = [e \in Events |-> {}]

Fault ==
    /\ faults < MaxFaults
    /\ faults' = faults + 1

-----------------------------------------------------------------------------
(* Request handlers *)

\* The business write succeeds (repo.CreateModule, Pair, ts.WriteReading...);
\* when it fails the handler returns and no event is produced.
BusinessWrite(w, e) ==
    /\ request[w] = Idle
    /\ e \notin committed
    /\ committed' = committed \cup {e}
    /\ request' = [request EXCEPT ![w] = Doing("written", e)]
    /\ UNCHANGED <<now, rank, row, created, earlier, faults>>
    /\ UNCHANGED <<relayVars, natsVars>>

InsertOutboxTx(w) ==
    LET e == request[w].event IN
    /\ request[w].at = "written"
    /\ row' = [row EXCEPT ![e] = "inserted"]
    /\ created' = [created EXCEPT ![e] = now]
    /\ earlier' = [earlier EXCEPT ![e] = Visible]
    /\ request' = [request EXCEPT ![w] = Doing("inserted", e)]
    /\ UNCHANGED <<now, rank, committed, faults>>
    /\ UNCHANGED <<relayVars, natsVars>>

CommitOutbox(w) ==
    /\ request[w].at = "inserted"
    /\ row' = [row EXCEPT ![request[w].event] = "unsent"]
    /\ request' = [request EXCEPT ![w] = Idle]
    /\ UNCHANGED <<now, rank, committed, created, earlier, faults>>
    /\ UNCHANGED <<relayVars, natsVars>>

\* BeginTx, the INSERT or the COMMIT fails: enqueueOutbox logs and goes on.
EnqueueFails(w) ==
    /\ request[w] # Idle
    /\ Fault
    /\ row' = [row EXCEPT ![request[w].event] = "none"]
    /\ request' = [request EXCEPT ![w] = Idle]
    /\ UNCHANGED <<now, rank, committed, created, earlier>>
    /\ UNCHANGED <<relayVars, natsVars>>

-----------------------------------------------------------------------------
(* The relay goroutine *)

\* Mutant: the relay waits for a full batch.
ListFullBatch ==
    /\ batch = {}
    /\ \E S \in SUBSET Unsent :
        /\ Cardinality(S) = BatchSize
        /\ \A e \in S, f \in Unsent \ S : Before(e, f)
        /\ batch' = S
    /\ UNCHANGED <<marking, published, repeated, request, faults>>
    /\ UNCHANGED <<dbVars, natsVars>>

\* One poll: at most BatchSize unsent rows, first in the query's order.  An
\* error or an empty answer leaves the relay waiting.
ListUnsentOutbox ==
    /\ batch = {}
    /\ \E S \in (SUBSET Unsent) \ {{}} :
        /\ Cardinality(S) <= BatchSize
        /\ Cardinality(S) = BatchSize \/ S = Unsent
        /\ \A e \in S, f \in Unsent \ S : Before(e, f)
        /\ batch' = S
    /\ UNCHANGED <<marking, published, repeated, request, faults>>
    /\ UNCHANGED <<dbVars, natsVars>>

\* The row whose turn it is.
Turn(e) ==
    /\ e \in batch
    /\ marking = NoEvent
    /\ \A f \in batch \ {e} : Before(e, f)

Refused(e) ==
    \/ e \in Oversized
    \/ ~linkUp /\ Len(buffer) >= BufferLimit

\* Mutant: without a connection the client drops the message and reports success.
PublishDropsWhenDown(e) ==
    /\ Turn(e)
    /\ e \notin Oversized
    /\ buffer' = IF linkUp THEN Append(buffer, e) ELSE buffer
    /\ lost' = lost \ {e}
    /\ published' = [published EXCEPT ![e] = @ + 1]
    /\ marking' = e
    /\ UNCHANGED <<batch, repeated, request, linkUp, bus, faults>>
    /\ UNCHANGED dbVars

\* PublishMsg returns nil as soon as the client has buffered the message.
Publish(e) ==
    /\ Turn(e)
    /\ ~Refused(e)
    /\ buffer' = Append(buffer, e)
    /\ lost' = lost \ {e}
    /\ published' = [published EXCEPT ![e] = @ + 1]
    /\ marking' = e
    /\ UNCHANGED <<batch, repeated, request, linkUp, bus, faults>>
    /\ UNCHANGED dbVars

\* Mutant: drain continues with the next row instead of returning.
PublishFailsAndContinues(e) ==
    /\ Turn(e)
    /\ Refused(e)
    /\ batch' = batch \ {e}
    /\ UNCHANGED <<marking, published, repeated, request, faults>>
    /\ UNCHANGED <<dbVars, natsVars>>

\* drain gives up: this row and those behind it wait for the next poll.
PublishFails(e) ==
    /\ Turn(e)
    /\ Refused(e)
    /\ batch' = {}
    /\ UNCHANGED <<marking, published, repeated, request, faults>>
    /\ UNCHANGED <<dbVars, natsVars>>

\* Mutant: the mark is a state the column does not have.
MarkDelivered ==
    /\ marking # NoEvent
    /\ row' = [row EXCEPT ![marking] = "delivered"]
    /\ batch' = batch \ {marking}
    /\ marking' = NoEvent
    /\ UNCHANGED <<now, rank, committed, created, earlier, request, faults>>
    /\ UNCHANGED <<published, repeated>>
    /\ UNCHANGED natsVars

\* Mutant: drain goes on without marking the row.
MarkForgotten ==
    /\ marking # NoEvent
    /\ batch' = batch \ {marking}
    /\ marking' = NoEvent
    /\ UNCHANGED <<published, repeated, request, faults>>
    /\ UNCHANGED <<dbVars, natsVars>>

MarkOutboxSent ==
    /\ marking # NoEvent
    /\ row' = [row EXCEPT ![marking] = "sent"]
    /\ batch' = batch \ {marking}
    /\ marking' = NoEvent
    /\ UNCHANGED <<now, rank, committed, created, earlier, request, faults>>
    /\ UNCHANGED <<published, repeated>>
    /\ UNCHANGED natsVars

\* The UPDATE fails, or its context was cancelled by the shutdown.
MarkFails ==
    /\ marking # NoEvent
    /\ Fault
    /\ repeated' = [repeated EXCEPT ![marking] = @ + 1]
    /\ batch' = {}
    /\ marking' = NoEvent
    /\ UNCHANGED <<published, request>>
    /\ UNCHANGED <<dbVars, natsVars>>

-----------------------------------------------------------------------------
(* The NATS connection, the process and the clock *)

Flush ==
    /\ linkUp
    /\ buffer # <<>>
    /\ bus' = bus \cup {Head(buffer)}
    /\ buffer' = Tail(buffer)
    /\ UNCHANGED <<linkUp, lost, request, faults>>
    /\ UNCHANGED <<dbVars, relayVars>>

\* What was already written to the socket may never arrive.
Disconnect ==
    /\ linkUp
    /\ Fault
    /\ linkUp' = FALSE
    /\ \E k \in 0 .. Len(buffer) :
        /\ buffer' = SubSeq(buffer, k + 1, Len(buffer))
        /\ lost' = lost \cup {buffer[i] : i \in 1 .. k}
    /\ UNCHANGED <<bus, request>>
    /\ UNCHANGED <<dbVars, relayVars>>

Reconnect ==
    /\ ~linkUp
    /\ linkUp' = TRUE
    /\ UNCHANGED <<buffer, bus, lost, request, faults>>
    /\ UNCHANGED <<dbVars, relayVars>>

\* The process stops and starts again; MariaDB rolls open transactions back.
\* A SIGTERM is no gentler: main returns without waiting for the relay or for
\* the connection to drain, and the process exits.
Restart ==
    /\ Fault
    /\ row' = [e \in Events |-> IF row[e] = "inserted" THEN "none" ELSE row[e]]
    /\ request' = [w \in Workers |-> Idle]
    /\ repeated' = IF marking = NoEvent THEN repeated
                   ELSE [repeated EXCEPT ![marking] = @ + 1]
    /\ batch' = {}
    /\ marking' = NoEvent
    /\ linkUp' = TRUE
    /\ buffer' = <<>>
    /\ lost' = lost \cup {buffer[i] : i \in 1 .. Len(buffer)}
    /\ UNCHANGED <<now, rank, committed, created, earlier, published, bus>>

Tick ==
    /\ now < MaxNow
    /\ now' = now + 1
    /\ UNCHANGED <<rank, committed, row, created, earlier, request, faults>>
    /\ UNCHANGED <<relayVars, natsVars>>

-----------------------------------------------------------------------------
Handler(w) ==
    \/ \E e \in Events : BusinessWrite(w, e)
    \/ InsertOutboxTx(w)
    \/ CommitOutbox(w)
    \/ EnqueueFails(w)

\* One iteration of the relay's loop when the database answers.
Drain ==
    \/ ListUnsentOutbox
    \/ \E e \in Events : Publish(e) \/ PublishFails(e)
    \/ MarkOutboxSent

Next ==
    \/ \E w \in Workers : Handler(w)
    \/ Drain
    \/ MarkFails
    \/ Flush
    \/ Disconnect
    \/ Reconnect
    \/ Restart
    \/ Tick

Spec == Init /\ [][Next]_vars

\* The relay polls every two seconds for as long as the process lives, and the
\* NATS client reconnects without limit (MaxReconnects(-1)).
Fairness == WF_vars(Drain) /\ WF_vars(Flush) /\ WF_vars(Reconnect)

FairSpec == Spec /\ Fairness

-----------------------------------------------------------------------------
(* Properties *)

\* f was visible before e was inserted, in an earlier second.
Older(f, e) == f \in earlier[e] /\ created[f] < created[e]

TypeOK ==
    /\ now \in 0 .. MaxNow
    /\ rank \in [Events -> Nat]
    /\ committed \subseteq Events
    /\ row \in [Events -> {"none", "inserted", "unsent", "sent"}]
    /\ created \in [Events -> 0 .. MaxNow]
    /\ request \in [Workers -> [at : {"idle", "written", "inserted"},
                                event : Events \cup {NoEvent}]]
    /\ batch \subseteq Events
    /\ marking \in Events \cup {NoEvent}
    /\ linkUp \in BOOLEAN
    /\ buffer \in Seq(Events)
    /\ bus \subseteq Events
    /\ lost \subseteq Events
    /\ faults \in 0 .. MaxFaults
    /\ published \in [Events -> Nat]
    /\ repeated \in [Events -> Nat]
    /\ earlier \in [Events -> SUBSET Events]

\* An event is published once, plus once more for each fault that struck
\* between its publication and its mark: drain (outbox.go:64-84) never loses
\* track of a row, never marks one it did not publish and never publishes a
\* marked one again.
OncePerMark ==
    \A e \in Events :
        published[e] = repeated[e] + (IF row[e] = "sent" \/ marking = e
                                      THEN 1 ELSE 0)

\* A row that was visible before another one was inserted, in an earlier
\* second, is published first, whatever batches, errors and restarts come
\* between (outbox.go:74-77, repository.go:490).
OrderAcrossSeconds ==
    \A e, f \in Events :
        Older(f, e) /\ published[e] > 0 => published[f] > 0

\* NATS receives events in the order of their seconds, and misses one only to
\* an outage: when an event has arrived, every older one is marked sent, and it
\* has arrived as well or was in the client's buffer when the connection or the
\* process was lost (outbox.go:75-82, 93).  A retry never brings an older event
\* in behind a newer one.
MissedOnlyInOutage ==
    \A e \in bus, f \in Events :
        Older(f, e) => row[f] = "sent" /\ f \in bus \cup lost

\* A row that PublishMsg always refuses stands at e or before it.
Blocked(e) == \E f \in Oversized \cap Unsent : f = e \/ Before(f, e)

\* The outbox implements EventDelivery: an event counts as recorded when its
\* row is visible and as handed over when PublishMsg accepted it.
Delivery == INSTANCE EventDelivery WITH
    recorded   <- Visible,
    handedOver <- {e \in Events : published[e] > 0},
    blocked    <- {e \in Events : Blocked(e)}

DeliverySafety == Delivery!SafetySpec

ImplementsDelivery == Delivery!Spec

\* Head of line: a committed row is marked sent in the end unless a row that
\* PublishMsg always refuses stands before it (drain returns at the first
\* failure, outbox.go:75-78).
SentUnlessBlocked ==
    \A e \in Events : e \in Visible ~> row[e] = "sent" \/ Blocked(e)

(* What comments of the code say and the code does not do *)

\* outbox.go:3-4: "Business code writes an outbox row ... in the same DB
\* transaction as the business row."
BusinessRowHasOutboxRow ==
    \A e \in committed :
        e \in Visible \/ \E w \in Workers : request[w].event = e
=============================================================================
