# SmartGrid: a TLA+ verification project

SmartGrid is an IoT platform of small services around an MQTT broker. This
directory holds TLA+ models of the parts that keep state and run concurrently,
the TLC configurations that check them, and proofs for the TLA+ proof system.
Paths below are relative to `src/services/`.

* [Inventory](#inventory): the parts, their state, what is hard about them
* [Modules](#modules): which module models which part, and how
* [Runs](#runs): what each TLC run checks, and its bounds
* [Fairness](#fairness)
* [Proofs](#proofs): what is proved for every value of the constants
* [Where the code differs from its comments](#where-the-code-differs-from-its-comments)
* [Not modelled](#not-modelled)
* [Plan](#plan)

## Inventory

### How the parts interact

Firmware nodes publish telemetry, diagnostics, discovery and status messages
over MQTT. **module-svc** subscribes to them: it registers nodes, maps their
telemetry to tags and modules, stores readings in TimescaleDB and keeps
modules, nodes and tag mappings in MariaDB, with Redis and an in-memory map as
caches. What other services should hear of goes through an outbox table and a
relay goroutine to NATS. **auth-svc** keeps accounts, roles and refresh tokens
in PostgreSQL and signs the JWTs every other service checks without asking it
again. **export-svc** reads TimescaleDB and hands its rows out page by page. The
**dashboard** is a Flask server that proxies the APIs, and pages whose scripts
keep a pair of auth-svc's tokens in the browser and call the APIs with them.
**ml-svc** asks the export API for rows with every request it gets and predicts.

### Components

**Outbox and relay** (`module/internal/outbox/outbox.go`,
`module/internal/repository/repository.go:30-61,484-512`,
`module/internal/service/service.go:686-732`).
State: business tables, the `outbox` table, the relay's current batch, the NATS
client's buffer. Operations: write business row; insert outbox row in a
transaction; poll, publish and mark; reconnect; restart. Hard: two transactions
where one is promised, a client that buffers while disconnected, a crash between
publish and mark, a row that can never be published, order among batches,
retries and commit times. Correct when every committed row is published, once
per mark, in the order of the seconds they were written in, and a permanently
refused row blocks only those behind it.

**Module and node registry** (`service.go:125-352`,
`repository.go:63-234,400-446`, `mqtt/subscriber.go`).
State: `modules`, `nodes`. Operations: create, update and delete modules; pair,
unpair and delete nodes; register a node from discovery or status messages. Hard:
each operation is several statements without a transaction, HTTP handlers run
concurrently with each other and with the MQTT goroutine, there is no foreign
key. Correct when no node belongs to a missing module, registration never
collides, and what a node says never changes what an operator decided.

**Node mapping cache** (`service.go:76-123`). State: `metaCache`, the tables it
mirrors, a fill in progress. Operations: hit, miss and fill, invalidate, expire.
Hard: the fill reads two tables between an unlock and a lock, and seven
endpoints change what it read. Correct when an entry that no request is about
to drop agrees with the database.

**Node status and last seen** (`service.go:184-226,316-409`,
`cache/cache.go:30-66`, `mqtt/subscriber.go`, `modules.js:102-116`). State: the
pending touches, `nodes.status` and `last_seen_at`, the Redis status with its
TTL, the broker's retained messages and last wills. Operations: touch, flush,
status message, cache, read, display. Hard: four copies of one fact with
different lifetimes, written by two goroutines and a broker. Correct when a
silent node is shown offline and a reporting one online.

**Accounts and sessions** (`auth/internal/service/auth_service.go`,
`auth/internal/repository/user_repository.go`, `auth/internal/cron/retention.go`,
`auth/internal/middleware/auth_middleware.go`). State: `users`, `user_roles`,
`refresh_tokens`, access tokens in the hands of clients. Operations: register,
login, refresh, logout, change password, delete account, user management,
retention. Hard: check-then-act in separate statements, errors that are ignored,
claims that outlive what they say. Correct when a refresh token is exchanged
once, ended sessions stay ended, and somebody can administer the system.

**Tag mapping** (`service.go:395-565`, `repository.go:251-346`,
`handler.go:232-351`). State: the table `node_tags`, of sensor and actuator tags,
unique by node, source key and kind. Operations: upsert one tag, replace the
mapping of a node, create and delete actuators, delete. Hard: two unique keys
under one `ON DUPLICATE KEY UPDATE`, a replacement that is a check, a delete and
a series of upserts, ids a page was shown long ago, a node deleted in between.
Correct when a replacement that meets no other request leaves what was asked
for and the actuators alone.

**Telemetry ingestion and batches** (`service.go:567-612`,
`module/internal/service/batch.go`, `module/internal/tsdb/tsdb.go`,
`module/main.go:246-265`). State: the `telemetry` hypertable, the message the MQTT
handler works on, the aggregates of the current window, the window the publisher
holds. Operations: insert a reading, announce it, add it to the window; flush on
a timer; publish; final flush; stop; crash. Hard: a reading is in the table
before it is in the window and the ticker fires in between, a window is out of
memory before it is published, shutdown waits for nobody. Correct when every
stored reading gets into one window and no reading into two.

**Module list cache** (`cache/cache.go:81-114`, `service.go:140-182`). State:
the `modules` table and `cache:modules:all` in Redis. Operations: list, create,
update, delete. Hard: a list cached after it was dropped, a drop that fails
unnoticed, the read and the write of `UpdateModule`. Correct when a list is stale
only for one of these reasons and no longer than its TTL, and an update loses
only what was changed since it read.

**Export API** (`export/internal/`). No state of its own; the client holds a
cursor into a table that grows, and leaves out bounds that are then recomputed.
Operations: one page, a count, a list of nodes. Hard: pages that neither skip nor
repeat rows although rows become visible later than the time they carry, and
cursors are not unique. Correct when a row that the cursor passed was in a page.

**Dashboard** (`dashboard/app.py`, `dashboard/static/js/`,
`dashboard/templates/login.html`). State: the token pair in `localStorage`, shared
by all tabs; the calls each page has under way. Operations: log in, refresh, call,
answer a 401, log out, load and leave a page. Hard: nothing synchronises calls
or tabs between reading the pair and replacing it, auth-svc exchanges a refresh
token once, a refused call removes whatever is stored by then. Correct when a
session that could go on is not given up and an ended one does not come back.

**ml-svc** (`ml/`). State: models on disk, the access token of its API client.
Training and prediction are numeric; a prediction keeps nothing. (The row it
calls the latest, `get_telemetry` with `limit=1`, is the oldest of the last 24
hours, since pages are in ascending order.)

**Middleware, metrics, infrastructure**: stateless, or configuration of
third-party services.

## Modules

| Module | Models | Composes |
|---|---|---|
| `EventDelivery` | what the outbox promises, as an abstract specification | |
| `Outbox` | handlers, outbox table, relay, NATS client | implements `EventDelivery` |
| `OutboxProofs` | theorems about `Outbox` | `Outbox` |
| `NodeRegistry` | modules, nodes, pairing, discovery | |
| `NodeMapping` | the mapping cache and the tag endpoints | `NodeRegistry` |
| `NodeMappingProofs` | theorems about `NodeRegistry` and `NodeMapping` | `NodeMapping` |
| `TagMapping` | the tags of a node and the requests that change them | |
| `ModuleList` | the cached list of modules and the requests that change it | |
| `ModuleListProofs` | theorems about `ModuleList` | `ModuleList` |
| `NodeStatus` | touches, status cache, display | |
| `NodeProofs` | theorems about `TagMapping` and about `NodeStatus` | `TagMapping`, `NodeStatus` |
| `AuthSessions` | accounts, sessions, user management | |
| `AuthSessionsProofs` | theorems about `AuthSessions` | `AuthSessions` |
| `TelemetryIngest` | the MQTT handler's insert and add, the batch publisher, shutdown | |
| `TelemetryIngestProofs` | theorems about `TelemetryIngest` | `TelemetryIngest` |
| `TelemetryExport` | an export, page by page, of a table that is written to | |
| `TelemetryExportProofs` | theorems about `TelemetryExport` | `TelemetryExport` |
| `ClientTokens` | the token pair of a browser, its tabs, rotation at auth-svc | |
| `ClientTokensProofs` | theorems about `ClientTokens` | `ClientTokens` |
| `MC*` | symmetry sets and definitions for TLC | |

In every module a database statement is one step: no handler of these services
holds a transaction over two of them, except where named. A handler is a record
with a program counter (`request[h].at`) that names the statement it executes
next; the handler's early returns are the alternatives that set it back to
`Idle`. Definitions marked `Mutant:` are plausible wrong versions of the action
that follows them; no specification uses them, they show that a property notices.

**Outbox.** `BusinessWrite`, `InsertOutboxTx` and `CommitOutbox` are the handler:
the business row first, then the transaction of `enqueueOutbox`. `EnqueueFails` is
its logged error. `ListUnsentOutbox`, `Publish`/`PublishFails`,
`MarkOutboxSent`/`MarkFails` are `drain`; `batch` is the slice it ranges over and
`marking` the row between `publish` and `MarkOutboxSent`. The NATS client is a
buffer that `Flush` empties while connected; `Disconnect` may lose any prefix of
it, which is what was written to a socket nobody read, and `lost` remembers what it
took. `Restart` is a crash or a SIGTERM: `main` waits for neither the relay nor the
connection. `created_at` has
whole seconds; ids are random, so `rank` is any order. Payload, subject and
msg_id are abstracted to the event.

**NodeRegistry.** Two actions per two-statement handler: `DetachNodes` and
`RemoveModule` are `DeleteModule`; `PairCheckModule`, `PairLookup`,
`UpdatePairing`, `RereadNode`, `Reply` are `Pair`. The MQTT goroutine handles one
message at a time: `HandleDiscovery` and `HandleStatus` do the SELECT of
`UpsertDiscovered` or `HandleStatus`, `InsertNode` and `RefreshNode` its second
statement. Names, addresses and firmware versions are left out.

**NodeMapping** extends the registry with `tags` (a version number per node's
mapping), `meta` (the cache) and `fill` (the call of `getNodeMeta` in progress). The
excuse of an entry says that it was overtaken ("raced"), that a change forgot it
("neglected") or that its lookup of the module failed ("failed"). The upserts of a
body are one step here; `TagMapping` has them one by one.
The steps of the registry are conjoined with what they do to the cache: nothing
until `ReplyAndInvalidate`. Telemetry is ingested in the MQTT goroutine, so a
fill and a registration exclude each other.

**TagMapping** has what `NodeMapping` abstracts to a version number: the rows of one
node. A row has an id, a kind, a key and a name that stands for every column an
upsert updates: its name, unit, type, whether it is enabled. `Upserted` is `INSERT ...
ON DUPLICATE KEY UPDATE`: the row of the id if there is one, else the row of the key,
else a new one. A body is a list of rows, each with a name of its own and with an id
that is none, or any a client has ever been shown; nothing forbids two rows for one
key or one id. `SaveNodeTags` (with ids), `SaveWithoutIds` and `Clear` (without) are the
deletion, `WriteRow` each upsert, in the order of the body. `overtaken` remembers that
another request wrote between the statements, unless it was the same body sent twice
(`Twins`). Assumed: clients send ids of this node's tags (an upsert finds a row by its
id whatever its node).

**ModuleList.** `ReadModule` and `UpdateModule` are the two statements of the
repository's `UpdateModule`; description and configuration are one text. Every
change ends in `InvalidateModules` or `DropFails`, the latter for a Redis that does not
answer, a cancelled context or a stopped process alike. `MissList`, `ListModules`
and `SetCachedModules` are the steps of a listing that misses.

**NodeStatus.** Its state predicates are named `Status...` because `NodeProofs` has
them beside those of `TagMapping`; the two share nothing else. One unit of time is
the flush interval of 30 s, so the 90 s of the Redis TTL and of the dashboard's age
rule are 3. `Hear` is the part of `onMessage` every message shares: the touch.
`SwapPending` and `TouchNode` are `flushTouch`; one goroutine runs it, so a swap
waits for the touches of the one before. `Displayed` is `nodeEffectiveStatus` over
`Shown`, the answer of `GetNode`. The broker's last will and retained messages are
modelled from how the subscriber uses them. `CacheStatusFails` and
`CacheStatusNoExpire` are the two errors `SetStatus` ignores.

**AuthSessions.** A request is the set of statements its handler has yet to execute;
an early return drops the rest. `Earlier` is the order of the handlers: a request is
`At` a statement when nothing that comes before it is left. `AdminUpdateUser`
composes that set from the fields of the body: a guard for each, the roles, the
active status, the sessions. `Calls` chooses which requests each handler of a run
serves, `MayFail` whose statements can fail, `Rejected` the statements the database
refuses. A token remembers the password its session descends from, and `excuse` that
its request was overtaken between its checks and its insert ("raced") or that a
failed revocation left it valid ("spared"). `Remember` adds the history of a step to
it: which tokens are `spent`, which are `shared` by refreshes that checked them
together, and whether removals of two administrators `overlap`. `claims` are access tokens:
`Authenticated` and `AsAdmin` are all that the middleware asks, and they are never
taken back: an expired one allows nothing a valid one does not.

**TelemetryIngest.** A reading is the number of its row. `Receive`,
`WriteReading`, `PublishTelemetry` and `Add` are the loop of `IngestTelemetry`
over the tags of a node; which order it takes them in is open. `WriteFails` leaves no
row, `WriteUnacknowledged` leaves one the handler does not know of. An aggregate is
the set of readings it was built from, of which count, sum, extremes and times are
functions. `Tick`, `FinalFlush`, `Publish` and `PublishFails` are the goroutine of
`StartBatchPublisher`; `Cancel`, `Disconnect`, `CloseStore` and `Exit` are what
`main` does when it is told to stop, in the order its deferred calls run, beside
the goroutines that go on meanwhile. `Crash` ends the process anywhere.

**TelemetryExport.** A series is the rank of a (node, metric) pair, so `Before` is
the order of `QueryPage`. `BeginInsert` takes the time of a row and `EndInsert`
makes it visible, or does not. An insert that `LoseConnection` strikes returns its
error first and is settled by the server later (`EndAdrift`). `Begin` is the client's choice of series and window, `NextPage`
one request: `From` and `To` recompute the bounds it leaves out, `IsPage` is
`ORDER BY ... LIMIT` with the order of equal rows left open, `Answer` derives the
next cursor from the last row. `SetBack` is the writer's clock being corrected.

**ClientTokens.** A pair is its number; a call is one execution of `fetchJSON`,
`apiCall`, the timer of `init` or the login form, and its `at` names the await it
is in. A script runs without interruption from one await to the next, so `StartCall`
ends with the request, or with the refresh, being sent, and `ReceivePair` and
`GiveUp` are what `ensureValidToken` does with the answer and the sending of the
request after it. `CheckToken` and `Rotate` are the two statements of auth-svc's
`Refresh`. `Unload` ends the calls of a page, whose refreshes may reach auth-svc
all the same. The ages of access tokens are "fresh", "soon" (the five minutes of
`isTokenExpiringSoon`) and "expired". What is assumed: the two `setItem` calls are
one step; a refresh is answered in less than ten minutes and a request verified
in less than five. The timer runs on every page, also on one loaded without a
token, which adds behaviours. `disturbed` remembers that something interfered
with a refresh: a second refresh of the same token, a login, a logout or an
unload while one is under way, a lost answer. Browser and services read one clock:
`isTokenExpiringSoon` compares the browser's `Date.now()` with an expiry auth-svc
set (`research.js:125-131`), so with a browser clock more than five minutes behind a
request can leave with an expired token, and its 401 removes the pair.

## Runs

Twelve runs: nine pass, and three reproduce a disagreement between the code
and one of its comments.

| Run | Checks | Bounds |
|---|---|---|
| `Outbox_relay` | `TypeOK`, `OncePerMark`, `OrderAcrossSeconds`, `MissedOnlyInOutage`, `ImplementsDelivery`, `SentUnlessBlocked` | 3 events of which one is always refused, 2 handlers, batch 2, buffer 1, 2 seconds, 1 fault |
| `NodeMapping_cache` | `MTypeOK`, `StaleOnlyIfExcused`, `SettledMappingIsServed`, `DanglingOnlyByRace`, `InsertNeverCollides`, `DiscoveryKeepsPairing` | 2 modules, 1 node, 2 handlers, 2 edits, 1 fault |
| `NodeStatus_display` | `StatusTypeOK`, `SilenceIsDisplayed`, `ReportingIsDisplayed` | 1 node, 8 units of time, 1 fault, 1 restart |
| `AuthSessions_requests` | `TypeOK`, `PasswordEndsSessions`, `DeactivationEndsSessions`, `DeletionEndsSessions`, `AdminRemains`, `SpentBuysNothingUnlessShared` | 2 users of which one is an administrator, 2 tokens, 2 handlers that serve different calls and both refreshes, 1 password change each, statements of one handler that fail |
| `TagMapping_requests` | `TypeOK`, `ReplacementHolds`, `ActuatorsSpared`, `OrphansAreLeftOver` | 3 ids, 2 keys, 2 names, 2 handlers, bodies of up to 2 rows |
| `ModuleList_cache` | `TypeOK`, `StaleListOnlyIfExcused`, `KeepsWhatItWasNotAsked`, `SettledListIsServed` | 2 modules, 2 names, 1 text, 2 handlers, 1 failing read of the list |
| `TelemetryIngest_batch` | `LostOnlyByFault`, `WindowsInOrder`, `ReadingsLeaveMemory` | 3 tags on 2 series, 3 readings, 2 starts of the process |
| `TelemetryExport_pages` | `TypeOK`, `PagesInOrder`, `SkippedOnlyIfExcused`, `OnlyFaultsExcuse` | 2 series, 2 rows a page, 4 rows, 5 points in time, default window 2, widest window 3, clock set back once, 1 insert given up on |
| `ClientTokens_browser` | `StoredPairIsCurrent`, `NothingUsableThrownAway`, `LogoutLasts` | 2 tabs with a call each, 2 pairs |
| `Outbox_sametx` | `BusinessRowHasOutboxRow` (violated) | |
| `NodeStatus_lastwill` | `LastWillLasts` (violated) | |
| `AuthSessions_postgres` | `DeletionDeletes` (violated) | |

The type invariants of `TelemetryIngest`, `ClientTokens` and `NodeRegistry` are proved and
not checked again by TLC.

*What the passing runs show, and why the bounds suffice.*

The outbox needs three events and a batch of two for a batch to be full, for one row
to stand behind another and for a third to arrive meanwhile; a buffer of one is full
after one message. One of the three is refused for good, so each of the others is
seen before and behind it. One fault is a crash, a lost connection or a failing
statement at any step; the proofs cover any number of them. The deliberate exception
in `OncePerMark` is the repetition a fault causes, which `msg_id` is there for, and
that in `OrderAcrossSeconds` is the order inside one second, which the random ids
decide. `MissedOnlyInOutage` is what a consumer can count on: a gap before an event
that has arrived is one an outage tore, with every row in it marked sent. It breaks
when a client refuses what it cannot send and the relay takes that for success (the
mutant), or when the order of rows is not the order of publications.

Nodes do not share state in the mapping cache or in the registry, so one node
suffices for `NodeMapping_cache`; two modules let a node be paired from one to the
other while either is deleted, and two edits and two handlers give a mapping that changes
during a fill and again after it. `StaleOnlyIfExcused` lists what may leave a stale
entry behind: a fill overtaken by a change, or a change by one of the calls that
do not invalidate. An entry made by a failed lookup is distinguished from the others:
it may lack the module, and nothing else (`OnlyModuleUnknown`). `SettledMappingIsServed`
shows that none of them outlives the changes: an entry that expires may be followed
by one that an older fill still puts, so that entries end is not enough; it says that
from some moment on no stale one comes back.
`DanglingOnlyByRace` says that the only way to a node in a missing module is the
race of `Pair` with `DeleteModule`: the history variable `overtaken` holds the
nodes attached to a module whose deletion had begun. Failing statements, repeated
deletions and discovery leave none.

In `NodeStatus_display` eight units of time are more than twice the TTL: long
enough for a node to be heard of, die, come back and be silent again. `healthy`
excludes from `ReportingIsDisplayed` the time right after a lost write, a
restart, or a last will.

In `AuthSessions_requests` one handler registers users, changes passwords and deletes
accounts, the users' own and by administrators, with statements that fail; the other
logs in and out and changes the status, alone or with the roles (a change of the roles
alone is left to the proof). Both refresh. So each of the calls that
end sessions meets a refresh, a login or another of them at every pair of statements,
two refreshes of one token meet each other, and either handler can take an
administrator away while the other does. One change of the password gives a session
of before and one of after; two tokens are a session and its successor. Two users are
an administrator and whom he administrates, who can become one; stale access tokens
are in it, so one who was demoted still acts. `excuse` names what the three
properties about sessions leave open: a token inserted by a request that had read the
user before, and one that a failed revocation spared. `AdminRemains` has no hypothesis
on who acts when; the race of two removals is in the run and is its third exception,
which ends when the removals are done and have left somebody.
`SpentBuysNothingUnlessShared` follows every token that was exchanged or ended: what
holds it is only a refresh that checked it together with another.

In `TagMapping_requests` three ids are two tags and a third that replaces one of
them or belongs to an actuator; two keys and bodies of two rows that say different
things give duplicate keys, duplicate ids, swapped keys and stale ids. The run orders
the rows of a body with ids first and gives two different ids two keys, which the
proof does not need. A second handler changes, deletes and adds tags between any two
statements, sends the same body again, and the node is deleted and registers again.
`ReplacementHolds` speaks of a request that no different one overtook, since two
different replacements at once leave rows of both; of two rows for one tag the later
one wins, which `Kept` says, and writing them in another order breaks it (the mutant).

In `ModuleList_cache` two names make a collision and two modules a list that can be
wrong about one and right about the other. One text suffices because a name
already tells a kept column from a changed one (with two texts the safety properties
hold as well, in 1.2 million states). `SettledListIsServed` is to the list what
`SettledMappingIsServed` is to an entry.

In `TelemetryIngest_batch` two of three tags share a series, so an aggregate can
hold several readings while another is on its way; three readings make a window
in the stream, one being published and one being filled. A second start shows
that a run does not depend on the one before it.

In `TelemetryExport_pages` four rows are two pages and, when the last one is
full, an empty third. `SkippedOnlyIfExcused` names the three ways to miss a row:
an equal row was delivered (the cursor is not unique), the default window moved
on, or the row appeared behind the cursor. `OnlyFaultsExcuse` shows that the first
needs a clock that was set back, since a process inserts one row after the other,
and the last that or an insert the process gave up on while the server went on with
it; one such row at a time.

In `ClientTokens_browser` two tabs read, refresh, use and remove the same pair. Two
pairs are enough for one to be exchanged for the other, or for a login to bring a
second one; with three pairs the properties hold as well, in 3.3 million states.
Without `disturbed` they are false, which is what the code does: two refreshes
of one token can each get a pair, or one of them a refusal that removes the
pair the other has just stored.

The state spaces have from 96 thousand to 7.7 million states. The runs of `Outbox`,
`NodeMapping`, `AuthSessions`, `TagMapping` and `TelemetryExport` take from one and a
half to four minutes with two workers, every other run less than half a minute.

## Fairness

`Outbox!FairSpec`: the relay polls every two seconds as long as the process lives
(`outbox.go:48-61`), so weak fairness of `Drain`, one action of the loop when the
database answers; the client reconnects without limit (`MaxReconnects(-1)`,
`module/main.go:60-99`) and flushes by itself, so weak fairness of `Reconnect` and
`Flush`. Faults are bounded by `MaxFaults`, so they end. Handlers are not fair: a
request that never commits records nothing. `TelemetryIngest!Spec`: the ticker fires
every minute and the select of the publisher takes it or the end of its context
(`batch.go:84-99`); a publish ends with or without an error; `main` gets to its end
once it unwinds. `NodeMapping!MFairSpec`: an entry expires because time passes
(`service.go:83-99`). `ModuleList!FairSpec`: so does the list after 30 s
(`service.go:146`), since it is put back only by a listing that missed, and of those
that miss while it is there (a GET that fails) there are only `MaxFaults`. The other
modules are checked for safety only; where time matters (`NodeStatus`) it is in the
state, and `Tick` requires what the ticker guarantees, that the previous flush is
done, as `SwapPending` does of the goroutine.

## Proofs

TLAPS checks these for every number of events, modules, nodes and handlers and
every bound; the assumptions are the modules' named `ASSUME`s, which TLC evaluates
in each run.

`OutboxProofs` proves `TypeOK`, `OncePerMark`, `OrderAcrossSeconds`,
`MissedOnlyInOutage` and `DeliverySafety`. None but `TypeOK` is inductive. `IInv` adds
`RequestsOwnTheirEvents` (an event belongs to one request, which is why no
commit makes a sent row unsent), `RelayHoldsUnsent` (the batch contains unsent
rows, which is why no sent row is published again), `PublishedWasVisible`, and
`NoOlderRowLeftBehind`: of the rows that were visible when `e` was inserted, in an
earlier second, each is sent or in the batch whenever `e` is in the batch. That
one is the reason for the order: `LIMIT` cuts the batch at a prefix of
`created_at`, and a failure ends the batch. For `MissedOnlyInOutage`, `Arrivals` follows
what was published: it has arrived, is in the buffer or was lost
(`PublishedIsAccountedFor`), and the buffer holds older events before newer ones
(`BufferKeepsOrder`), so nothing older than what has arrived is still on its way. The refinement theorem shows that
each step is a `Record`, a `HandOver` or a stutter of `EventDelivery`
(`StepSimulation`).

`NodeMappingProofs` proves of the registry `TypeOK`, `DanglingOnlyByRace`,
`InsertNeverCollides` and `DiscoveryKeepsPairing`. `PairsNameTheirRows` says what
a request under way refers to. `VanishingHasOnlyOvertaken` strengthens
`DanglingOnlyByRace` to modules that are still there but whose deletion has
begun: without it, `RemoveModule` would make nodes dangle that nothing is known
about. The action property follows from `InsertNeverCollides`: an INSERT that
meets no row changes no pairing.

Of the composition it proves `MTypeOK` and `StaleOnlyIfExcused`, on top of the
registry's lemmas. `StaleOnlyIfExcused` is not inductive: a `Pair`
that finds its node deleted when it reads it again ends without dropping the
entry. `MInv` says of each node that its entry agrees with the tables, or has an
excuse, or is owed a drop by a request that will get to it (`Owes`, `Accounted`):
where the one above gives up, the request that deleted the node owes it.
`RequestsInOrder`, `FillNamesNode` and `MessagesNameNodes` say what requests, fills
and messages under way refer to.

`NodeProofs` proves all four properties of `TagMapping`. `SaveSound` is
`ReplacementHolds` at every row and not only at the answer: the sensor tags are
ones the body names, and each row has its tag or is one that this request or a twin of
it has still to write (`Owed`). `UpsertedWrites` says what an upsert can do, in three
parts (`Renames`, `Adds`, `Carries`), and the rest uses only these: a row found keeps its
kind and key, so it goes on meeting the rows of the body it met before, and a later
row that renames it meets it too, which is what `Kept` allows (`WritingKeeps`). A twin
that clears is itself about to write every row, one that gives up says so
(`Abandoning`). `CreateSound` is behind `OrphansAreLeftOver`: an actuator about to be
written is one of a registered node unless the request was overtaken.

Of `NodeStatus` it proves the three invariants. `StatusInv` says how old a row can be
at most (`SeenFollowsHeard`: never more than a unit newer than what was heard), that a
report is written two units after it at the latest (`ReportsAreWritten`), by which
time a status that says otherwise has aged out of Redis (`EntriesAgeOut`). Two things
came out of it. It was not inductive until `SwapPending` waited for the flush before,
which the code's one goroutine does and the model did not. And
`ReportingNodesAreDisplayedOnline` needs `DisplayAge >= 2`, which the 90 s of the code
are: with a display age of one flush interval TLC finds a reporting node displayed
offline, between a report that a flush has just missed and the next flush.

`AuthSessionsProofs` proves all six invariants of `AuthSessions`, for any number of
users, tokens and handlers and whatever each handler is asked. `SessionsInv` is the
inductive one. `PlanKept` says what each kind of request can have left to do: a password
change that has written its hash, or a deactivation that has written the status, has
the revocation left, which is what `RevokePending` promises meanwhile. `DeletesRevoked`
is `DeletionEndsSessions` before the deletion: who is about to be deleted has no
session but an excused one, because the revocation came first and a login after it is
`Outrun`. `HeldIsKept` says that the token a refresh holds was issued, and is ended from
its rotation on. The proof goes by what a step can disturb:
the steps that only read are `Quiet` (`QuietStep`), a change of the users table needs
the three hypotheses of `UserStep`, and the sessions end or are excused
(`SessionsOnlyEnd`) in every step but `IssueTokenPair`.

`SpentBuysNothingUnlessShared` rests on `SpentInv`: refreshes that hold one token share
it, so a spent token that waits to be rotated a second time is shared; and who takes a
token finds it valid, which a spent one never is again.

`AdminRemains` has an invariant of its own, `AdminsInv`, which assumes nothing of how
many handlers serve administrators. As long as no removals overlap, an administrator's
request that is past its guards and may take one away leaves another (`AdminsLeft`);
two that may are two removals of one user, or `overlap` is true. The lemma
`NextAdminsInv` has both directions: a step keeps `AdminsLeft` or makes removals
overlap, and once they are done and somebody is left, `AdminsLeft` holds again.

`ModuleListProofs` proves the three invariants of `ModuleList`. They are inductive
beside `TypeOK` and `UpdatesNameTheirRow`; `UpdateSound` is the part of them about
one request.

`TelemetryIngestProofs` proves `TypeOK`, `LostOnlyByFault` and `WindowsInOrder`.
`IInv` adds `RowsArePast` (rows were written by this start of the process or an
earlier one, so a restart finds none of its own) and `DownIsEmpty` (a process
that is down holds nothing). The argument is that a reading moves through four
disjoint places: the handler, the window, the publisher, the stream.

`TelemetryExportProofs` proves `TypeOK`, `PagesInOrder`, `SkippedOnlyIfExcused` and
`OnlyFaultsExcuse`. `BeforeIsTotal` and `BeforeIsTransitive` are the order
of the export. `IInv` adds `CursorIsRow` (the cursor is the key of a row),
`CollectedUpToCursor` (delivered rows are at the cursor or before it) and `RowsInTime`
(while the clock runs forward, rows differ in time, and those nobody gave up on are
inserted in its order).
A full page is a prefix of what is left, so what the new cursor has passed was
passed before, was in the page, or was not selected for one of the reasons
`Accounted` names.

`ClientTokensProofs` proves all four properties of `ClientTokens` for any number of
tabs, calls and pairs. `IInv` adds where the pairs come from
(`KnownPairsAreIssued`, `AnswersAreNew`, `UnissuedAreFresh`), that a request goes
out with a fresh token or none (`SentInTime`), and four facts about an
undisturbed browser: one call at a time exchanges, and it exchanges the stored pair
(`ExchangesStoredPair`), a refusal means that the session has ended
(`RefusedIsOver`), a request without a token means that none is stored
(`SentWithoutTokenIsEmpty`). So a 401 finds an empty store and a refusal an ended
pair, which is why nothing usable is thrown away. `NothingUnderWay` does the same
for logouts. The lemmas named after an action and `Effect` say field by field what
it does; the lemmas `Next...` use nothing else of it.

Only model-checked: liveness (`SentUnlessBlocked`, `SettledMappingIsServed`,
`SettledListIsServed`, `ReadingsLeaveMemory` and the liveness part of
`ImplementsDelivery`), which these provers do not reach under fairness.
`OutboxKeepsDeliveryPromise` proves the safety part of `ImplementsDelivery`. Every
other property of the passing runs is a theorem.

## Where the code differs from its comments

Three runs reproduce one each, with the comment quoted at the property:

* `Outbox_sametx`: the outbox row is not written in the transaction of the
  business row (`outbox.go:3-4` against `service.go:690`).
* `NodeStatus_lastwill`: a last will is a touch like any other message, and the
  next flush writes `online` over its `offline` (`service.go:316` against
  `subscriber.go:104`).
* `AuthSessions_postgres`: `is_active = 0` on a boolean column is refused by
  PostgreSQL, after the sessions have been revoked (`auth_service.go:335`
  against `user_repository.go:420`).

Others appear as exceptions inside properties that hold:

* `SaveNodeTag` (`service.go:482`), `DeleteActuatorTag` with the id of a sensor tag and
  `DeleteModule` never invalidate, `DeleteNodeTag` does so too early,
  `SaveNodeTags`, `Pair` and `Unpair` not when a later statement fails:
  `excuse = "neglected"` in `StaleOnlyIfExcused`. `service.go:52` says that the
  entries "are invalidated when the mapping changes (pair/unpair/tags)".
* a fill puts what it read before an invalidation: `excuse = "raced"`.
* `Pair` racing `DeleteModule` leaves a dangling node: `overtaken`.
* the last administrator can delete his own account, and the retention job
  deletes an administrator who only refreshed his session for a year:
  `state \in {"left", "retired"}` in `AdminRemains`. Two administrators can remove each
  other at the same time, each counted before either is gone
  (`auth_service.go:456, 484`): `overlap`.
* a login or refresh under way when its user changes the password, is deactivated
  or deleted inserts a token after the revocation: `excuse = "raced"`.
* `ChangePassword`, `DeleteAccount` and the administrators' calls ignore an error
  of the revocation (`RevokeAllFails`): `excuse = "spared"`.
* `UpdateModule` writes back columns another request has changed since it read
  them, and reports success for a module that has been deleted meanwhile:
  `overtaken` in `KeepsWhatItWasNotAsked`, and the guard of the write.
* a row of a replacement that carries the id of an actuator renames that actuator,
  although `service.go:414-415` says "left untouched": the exception in
  `ActuatorsSpared`.
* `SaveNodeTags` "replaces the full tag-mapping set" (`service.go:411`), but two
  different ones at once can leave rows of both, and one that fails halfway leaves a part:
  `overtaken` and `RequestFails`. A body without ids passes the check against clearing
  while the node has no sensor tag and clears in a later statement
  (`service.go:443-452`), also the tags a different request has added in between.
* two rows of a body for one key, or one id, are accepted, and the later one
  overwrites the earlier: `Kept`.
* a changed `source_key` is ignored without an error, since the row is found by its
  id and the key is not written; `Meets` accepts such a row for its id alone.
* a stale id is enough to pass the check against clearing all tags
  (`service.go:443-449`), and brings the tag back under the old id.
* `CreateActuatorTag` answers with a generated id also when the key had a row, which
  keeps its own: `WriteActuator` counts that id as seen.
* `SaveNodeTags`, `SaveNodeTag` and `DeleteNodeTag` do not ask whether the node exists, so
  sensor tags can be given to a node that is not registered; `OrphansAreLeftOver`
  is about actuators only.
* the dashboard's replacement of a mapping strips the ids (`modules.js:853-940`), so
  the server refuses it whenever the node has a sensor tag.
* when NATS is unavailable a row "stays unsent and is retried on the next poll"
  (`outbox.go:6-8`), but `PublishMsg` buffers meanwhile: the row is marked sent and the
  message is lost if the process ends first. `lost` in `MissedOnlyInOutage`.
* the process exits without waiting for the final flush of the touches: `Exit`,
  counted as a disturbance by `healthy`. Nor does it wait for the final flush of
  the batch publisher (`batch.go:78` against `main.go:185-265`):
  `LostOnlyByFault` speaks of a process that runs.
* two refreshes with one token can both pass the check before either revokes it
  (`auth_service.go:174` against `:185`): `shared` in `SpentBuysNothingUnlessShared`, and
  `disturbed` in the browser.
* an insert that is committed and answered with an error is in the table and in no
  window: `WriteUnacknowledged`, `dropped` in `LostOnlyByFault`.
* pages "never duplicate or skip" rows in the words of `export/internal/tsdb/tsdb.go`;
  equal rows at the end of a page, a default window, a clock that was set back and an
  insert given up on do skip some: `Accounted`.
* the CSV of a page has one line per time, node and module and one column per metric,
  so of rows equal in all four it keeps the last value (`handler.go:208-229`); the
  model has the rows as JSON returns them.
* the count of `MetadataHandler` takes the wildcard for a name, unlike the pages
  (`handler.go:259-261` against `tsdb.go:197-208`); it is not in the model.
* the logout form forgets the pair without telling auth-svc, which goes on
  accepting the refresh token: `Logout` changes `store` and not `refresh`.

The passing runs of `AuthSessions` have `Rejected = {}`: they show what the
handlers do with a database that accepts their statements. The statements that
compare or assign `is_active` with a number, in `CreateUser`, `CountAdmins`,
`SoftDeleteUser` and `SoftDeleteInactiveUsers`, are refused by the PostgreSQL of
`docker-compose.yml`; `AuthSessions_postgres` has them in `Rejected`.

## Not modelled

* Names, addresses and firmware versions of nodes, and other columns no property
  depends on.
* `UpdateProfile`: it reads the username and the email and writes both back, so a
  concurrent change of the other one is lost; sessions and roles do not depend on it.
* Another node's tags: an upsert whose id belongs to one writes that row.
* In `TelemetryIngest` the module an aggregate names (that of its first reading)
  and the copy of the latest payload in Redis.
* In export-svc the count, the list of nodes and how rows are written as CSV.
* Request parsing, validation, JSON, logging, metrics: stateless.
* Training and prediction in `ml-svc`: numeric.
* Rendering in the dashboard.
* TimescaleDB, MariaDB, PostgreSQL, Redis, Mosquitto and NATS beyond what the
  code sees of them: a statement is atomic, a key expires, a broker replays.

## Plan

In this order; a module is listed with its properties and the theorem it is
written for.

1. `TelemetryIngest`: the module an aggregate names, and what a node that is paired
   anew within a window makes of it.
2. `AuthSessions`: `UpdateProfile` with the uniqueness of usernames and emails.
3. Abstract specifications of a session (`AuthSessions`) and of a served entry
   (`NodeMapping`, `ModuleList`) that the modules are shown to implement.
