# weather-alert-platform in TLA+

A specification of the weather alert platform in `src/`: what its processes do
between two awaits, what can go wrong at each await, and which properties hold
all the same. TLC checks the modules on small instances; TLAPS proves every
invariant, action property and refinement that a passing run checks, for every
instance. Liveness is model-checked.

## The system

| component | source | state | operations |
|---|---|---|---|
| connection registry | `app/services/connection_manager.py` | two dictionaries per API process: location -> sockets, socket -> locations | register, unregister, broadcast |
| alert endpoint | `app/routers/ws.py` | one coroutine per socket: its `location_ids`, its position | look up, accept, register, greet, receive, unregister |
| pub/sub forwarder | `app/services/pubsub.py`, `app/main.py` | one task per API process and its Redis subscription | start, take a message, broadcast it, end on error, stop |
| poller | `app/services/poller.py` | one process: the list of the cycle, one open transaction, alerts to publish | select, fetch, commit, publish, abort, restart |
| severity engine | `app/services/severity_engine.py` | none | classify |
| Open-Meteo client | `app/services/weather_client.py` | none | fetch (answer, `WeatherFetchError`, other exception) |
| token sessions | `app/routers/auth.py`, `app/auth/*` | refresh_tokens rows, Redis blacklist keys with a TTL | login, refresh, logout, accept a token |
| subscription routes | `app/routers/subscriptions.py` | rows with `is_active` | subscribe, unsubscribe, list |
| location routes | `app/routers/locations.py` | rows unique by coordinates | create-or-get |
| weather routes | `app/routers/weather.py` | Redis cache of the current weather | read-through, history |
| browser console | `app/static/app.js` | tokens, socket, lists | fetch with refresh and retry, log out, connect |
| sessions and pool | `app/database.py` | pooled connections | acquire per request or per socket |
| startup and migration | `docker/`, `docker-compose.yml`, `alembic/` | the schema, its version | wait, migrate, start, restart |

How they interact: users subscribe through the API (Postgres). The poller reads
the watched locations, fetches the weather of each, commits a reading with its
alerts in one transaction, and then publishes each alert to Redis. Every API
replica has one forwarder, subscribed to all alert channels, which hands each
message to the registry of its own process, which sends it to the sockets
registered for that location. A socket is registered once, by its endpoint,
with the subscriptions it found when it connected. Every HTTP request and every
socket of a replica holds a connection of the one database pool. The replicas
migrate the schema when they start; the poller waits for it.

What is hard: everything is asynchronous and split at awaits, and any awaited
call may raise. The registry changes while a broadcast over a copy of it is
under way; a socket is unregistered from two places; Redis pub/sub keeps
nothing for a replica that is down; commit and publish are two steps with no
outbox between them; logout and refresh overlap, on the server and in the page;
expiry is computed in whole seconds in two places and exactly in a third; the
routes that create rows look first and insert later; connections are held
across upstream calls and for the life of a socket; two replicas migrate one
database. `PROJECT.json` lists each hazard
at its line, with the property that covers it or the reason none does.

What makes each component correct:

* registry: the two dictionaries stay inverse; it holds exactly the sockets
  being served (plus those the code leaks, see below);
* endpoint, forwarder: a connected client gets every alert for the locations it
  looked up, in order, once, and no other, and eventually;
* poller: readings and alerts are stored together, published after that, in
  order, once, and never forgotten without an error; the loop never ends;
* engine: one alert per category at the highest tier entered;
* sessions: what logout revoked stays revoked, within known bounds;
* account, location and subscription routes: calls that overlap have the effect
  and the answers of calls that do not, and no row is stored twice;
* weather routes and pool: no path leaks a connection, every request is answered;
* startup: the schema is there as a whole or not at all, and everything runs in
  the end, whichever replica migrates;
* console: after a logout it holds no token (it does not keep this, see below).

## Modules

| module | models |
|---|---|
| `ConnectionManager` | the registry as operators on a record of two dictionaries (partial functions) |
| `AlertFanout` | replicas, forwarders, endpoints and clients around one Redis channel; extends `ConnectionManager` |
| `AlertDelivery` | abstract: the stream of alerts that a client is promised; `AlertFanout` implements it |
| `AlertFanoutProofs` | the TLAPS proofs about `AlertFanout`, and that it implements `AlertDelivery` |
| `SeverityEngine` | `classify()` as an operator on readings in tenths of a unit |
| `SeverityProperties` | what the engine promises, over readings that change |
| `SeverityProofs` | the TLAPS proofs about `SeverityProperties` |
| `Poller` | the poller process and its database; extends `SeverityEngine` |
| `PollerProofs` | the TLAPS proofs about `Poller` |
| `AlertPipeline` | `Poller` and `AlertFanout` composed, with liveness from the commit to the client |
| `AlertPipelineProofs` | the TLAPS proofs about `AlertPipeline`, from those of its two halves |
| `TokenAuth` | login, refresh, logout and expiry for the sessions of one user |
| `TokenAuthProofs` | the TLAPS proofs about `TokenAuth` |
| `DirectoryTables` | accounts, locations and subscriptions with their unique constraints, and the calls and answers about them |
| `Directory` | the routes over these tables, split at their awaits |
| `AtomicDirectory` | abstract: the same routes in one instant each; `Directory` implements it |
| `DirectoryProofs` | the TLAPS proofs about `Directory`, and that it implements `AtomicDirectory` |
| `WeatherRoutes` | weather routes and sockets of one replica over its connection pool and the cached answer |
| `WeatherRoutesProofs` | the TLAPS proofs about `WeatherRoutes` |
| `Startup` | entrypoints, migration and restarts of the containers |
| `StartupProofs` | the TLAPS proofs about `Startup` |
| `ConsoleClient` | the session in the browser: login, logout, calls with token refresh |
| `MCAlertFanout`, `MCAlertPipeline`, `MCSeverity`, `MCPoller`, `MCTokenAuth`, `MCDirectory` | the instances TLC checks (the other modules need no definitions and are checked as they are) |

An operator marked *Variant* in a module is a plausible bug of the definition
that follows it; it is not used by the specification. For every property of a
passing run, `PROJECT.json` names the variant that the property rules out.

### AlertFanout

An action is the code between two awaits. The state and the code correspond as
follows.

* `registry[r]` is the `ConnectionManager` of replica `r`. `register()` and
  `unregister()` hold the lock over code without a suspension, so each is one
  step, joined with the code around it in its coroutine.
* `handler[s]` is the position of `websocket_alerts()` for socket `s`: `idle`
  (not connected), `accepting` (the SELECT has returned, awaiting accept),
  `greeting` (registered, awaiting the greeting's send), `receiving` (inside
  try), `closed` (over, unregistered), `failed` (the greeting raised: over, and
  still registered, because the send stands before the try). `lookup[s]` is its
  local `location_ids`.
* `cursor[r]` and `pending[r]` are the forwarder: the last message taken and
  the sockets of the copied audience not yet sent to. Redis delivers to a
  subscription in order from the moment it is made, so what is queued for
  replica `r` is `cursor[r]+1 .. Len(published)`, and a restart moves the
  cursor to the end.
* `service[r] = "deaf"` is a replica whose forwarder task has ended with an
  exception other than `CancelledError`; it goes on serving requests.
* `joined` and `received` are history: the cursor at registration, and what the
  client got.

A send to a client that has gone may raise (`PushFails`) or be buffered and
lost (`Push`). Several steps may be lost to a client for good reasons: what was
published before it registered, or while its replica was down.

`RegistryConsistent`, `RegistryOwned`, `PendingSound`, `BroadcastProgress`,
`DeliveredOnlyLookedUp`, `InOrderAtMostOnce` and `NoMissedAlert` are the safety
properties.

### AlertDelivery

What a client may rely on, without replicas, forwarders or registries: it joins
with a set of locations, and from some message on gets every message for them,
each once and in order, until it leaves. `Deliver(s)` may only hand over the
first message still due. The refinement maps a served socket to a joined
client (`Serving`, `ClientBar`), `register()` to `Join`, a send to `Deliver`, a
disconnect or the end of a replica to `Leave`; snapshots, cursors and the
dictionaries stutter. `DeliveryImplemented` is checked as a property and proved.

### AlertPipeline

`INSTANCE Poller` and `INSTANCE AlertFanout`, as they are, over the two things
they share. The poller's set of watched locations is computed from the
subscriptions that the endpoints look up; what the forwarders take up is what
the poller has published. An alert goes through four queues of three processes:
`outgoing` of the poller, the channel, the snapshot of the broadcast, the
client. `AlertsOnTheirWay` says in which of them each stored alert is, and
`StoredReachesClient` that it leaves the last one. A poller that is killed or
raises after the commit loses what it had not published (there is no outbox):
that is `CutShort`, the one exception beside the forwarder and the client
themselves.

### Poller

`pc`, `locations`, `todo`, `open` and `outgoing` are the locals of the
coroutine; `readings` and `alerts` the tables; `channel`, `aborted` and `cycle`
history. Every awaited call may raise: `FetchFails` is the exception the code
expects, `FetchRaises`, `SelectRaises`, `CommitRaises` and `PublishRaises` the
ones that reach `run_poller()`. The loop has taken the location whose fetch
fails or raises; what an exception leaves in `todo` is never fetched. A commit or
publish that raises may have taken effect. `Kill` may strike anywhere, `Restart` is the container's policy.
The SELECT has no ORDER BY, so the list is a set. Alerts and messages are
identified by their row; their text and coordinates are left out. The rows that
one transaction stores follow each other in the table, which is what
`ReadingsCarryAlerts` asks for: for each reading one block, alert by alert what
the engine raises for it.

### SeverityEngine

Quantities are integers in tenths, exact for the thresholds of the code. The
loop of `_highest_tier_met` is unrolled over its three tiers. `Category` maps
heat and cold to the one category the module's docstring speaks of.

### TokenAuth

Time is in ticks, several to a second, because a JWT's `exp` is in whole
seconds and accepted up to the end of that second, the Redis TTL is rounded
down to whole seconds and counted from the instant it is set, and the row's
`expires_at` is exact. A request is split at its awaits on Redis and Postgres,
and where it matters at both ends of an await, what the server does and when the
coroutine resumes:

* a refresh is `RefreshBegin` (the blacklist says no), `RefreshRead` (Postgres
  executes the SELECT) and `RefreshEnd` (the coroutine has the row, compares
  `expires_at` and mints); a logout may commit between any two of them. `late` says
  that the row was revoked before the first, `since` is the tick of the second,
  and the minted token keeps the difference to the third as `waited`;
* a logout computes a TTL at tick `then`, and Redis starts to count it when it
  executes the SETEX, up to `MaxWait` ticks later (`LogoutAccess`,
  `LogoutRefresh`); then the row is revoked (`LogoutRevoke`);
* the decoding of a token and the EXISTS that follows it are one instant: the
  route that lets a token through has seen both, and neither is used again.

`RequestRaises` ends a request anywhere with what was done so far. A token is its
index; `session` is the refresh token it was issued with. The password check,
registration and the lookup of the user are left out: they do not change or
read anything of a session.

### DirectoryTables, Directory, AtomicDirectory

`register()`, `create_or_get_location()`, `subscribe()` and `unsubscribe()` look
a row up, decide, and write at a later await, in transactions that see what
others have committed. `request[q].stage` is the await a request is at: `called`
(its SELECT), `inserting` or `updating` (its commit), `refreshing` (the refresh
and reload after a subscribe). `CommitRefused` is the IntegrityError that no
route catches. `Fails` is a database error at any await, after a commit that
may have taken effect.

`AtomicDirectory` gives each call one instant. Two calls that race are allowed
one thing that a single call is not: "conflict", when the row was missing at
the start of the request and is there now (`absent` is a history variable that
records the first half). The refinement puts the instant at the commit, or at
the SELECT if the route writes nothing; a subscribe reads its row again, so its
answer is of a second instant. `RoutesAreAtomic` thus covers lost updates,
duplicates, and answers that were never true. Deactivating an inactive row and
activating an active one write nothing, because the ORM compares.

### WeatherRoutes

One replica, one location. A request takes its connection with the query of
`get_current_user()` and keeps it until `get_session()` closes the session, also
while it awaits Open-Meteo; a socket keeps it until its client leaves.
`PoolTimeout` is the QueuePool's timeout. The cached answer is the time it has
left; what it says is left out. `Ends` is an error of Redis or the database, or
a client that leaves.

### Startup

`stage[c]` is where the entrypoint of a container is: waiting for Postgres,
upgrading (alembic reads the version), creating (its transaction is open and
has created `built[c]` tables), booting (uvicorn subscribes at Redis), watching
(the poller waits for the table `alerts`), running. Of two migrations at once,
the second blocks on the first table the first one has created, and raises once
that is committed: `set -e` ends the container and `restart: unless-stopped`
starts it again. Databases and containers go down at any time, also while a
commit is under way.

### ConsoleClient

`access` and `refresh` are `state.access` and `state.refresh` of `app.js`. Every
handler is split at its `await`s: the answers come in any order. The page's
lists, its socket and all that is shown are left out.

## Runs

| run | instance | shows |
|---|---|---|
| `fanout_one` | 1 replica, 2 sockets of one user, 2 locations, 2 alerts, symmetric in sockets and locations | the seven safety properties and the refinement of `AlertDelivery`; two sockets are enough for one to leave, fail or join while the other is being sent to, two alerts for a queue behind a broadcast |
| `severity` | each threshold, a tenth below, a tenth above, 4 weather codes | the engine against its reference definition, and monotonicity |
| `poller` | 2 locations, 3 kinds of answer (0, 1 and 2 alerts), 2 cycles, 1 kill | the tables, the channel and the cycle stay in step through failures |
| `pipeline` | 1 location, 1 replica, 1 socket, 1 alert per reading, 2 cycles, 1 kill, with fairness | every stored alert is in exactly one queue and arrives; polling goes on; disconnects clean up |
| `token` | 2 interchangeable requests, 3 tokens, 2 ticks per second, lives of 3 and 4 ticks, waits of up to 1, 1 loss of keys | to the tick, what a logout guarantees: each bound is reached, and one tick less is refuted |
| `directory` | 2 interchangeable requests, 1 user, 2 names, 2 emails, 3 coordinates in 2 cells (two round to the same, one is negative) | the routes implement atomic routes |
| `weather` | 4 requests or sockets, pool of 2, TTL of 2 ticks, with fairness | connections are not lost, requests are answered although sockets hold the pool |
| `startup` | 2 API replicas, the poller, 2 failures, with fairness | the schema is whole or absent, everything runs in the end |

The subscriptions change at any time in `fanout_one` and `pipeline`, also between
the connects of the two sockets of the one user, so the sockets look different
locations up. Replicas share nothing but the channel, so a second one adds
interleavings and no behaviour of its own; the proofs are for any number. The
bounds are `MaxAlerts`, `MaxCycles`, `MaxKills`, `MaxTokens`, `MaxTime`,
`MaxWait` (ticks between an answer and its use), `MaxLosses`, `MaxLocations` (location ids that are asked for; as many as there
are cells), `MaxFailures` (of services and containers) and `MaxLogins`; each only
stops its own action. `MaxAlerts` bounds the publisher of `AlertFanout` in
`Environment`, not in `Publish`; the pipeline has the poller instead, and no bound
on its messages but the cycles. `PoolSize` and `Ttl` stand for 15 connections and the
configured seconds: a pool of two has the states empty, partly used and full,
and twice as many requests to fill and to wait for it. No symmetry is used in a
run with a liveness property.

Deadlock is checked in every run but `startup`, where nothing is left to do once
everything runs and the failures are used up.

Four runs end in a counterexample, each against a sentence of the repository:

* `fanout_leak`: a client leaves while its endpoint is between `register()` and
  the greeting. The greeting raises outside the try block, the endpoint ends,
  and the socket stays in a registry documented to hold "live websocket
  connections" (`connection_manager.py:22`). Only a failing broadcast to one of
  its locations would remove it.
* `poller_exactly_once`: "each location is polled exactly once per cycle"
  (`poller.py:16-18`) fails when one answer is not JSON: the exception is not a
  `WeatherFetchError` and ends the whole cycle. In the trace two locations are
  watched, and the second is never fetched. `OnePollPerCycle` shows the
  half that does hold.
* `weather_burst`: "a burst of user queries never translates into a burst of
  upstream Open-Meteo calls" (`weather.py:34-36`) fails for requests that miss
  the cache together. `BurstBoundedByPool` shows what bounds them instead.
* `console_logout`: "clear local state regardless" (`app.js:309`) fails when a
  token refresh is answered after the logout: `tryRefresh()` stores the new
  access token without looking whether its session is still the page's. The
  token is one the server granted before it revoked the session.

Two more sentences do not hold to the letter; the properties state what does:

* "You'll only get pushed alerts for locations you subscribe to"
  (`test_client.html:135`): a socket keeps the locations it looked up, so it goes
  on after an unsubscribe (`ws.py:39`). `DeliveredOnlyLookedUp` is the exact form.
* "the blacklist entry disappears on its own exactly when the token would have
  expired anyway" (`blacklist.py:4-6`, and likewise `README.md:261-262`): not
  exactly. The TTL counts whole seconds up to `exp` and is rounded down, or left
  out when it is zero (`blacklist.py:22-23`), and the codec accepts the token to
  the end of the second that `exp` names. A logged-out access token is therefore
  accepted again for up to its last two seconds. `LogoutHolds` states the exact
  gap, less than two seconds before the codec refuses it; TLC refutes a gap that is
  one tick shorter. In the other direction an entry may outlast `exp` by what its SETEX took to reach Redis.

## Fairness

`AlertPipeline!Fairness`: each awaited call of the poller ends, and `restart:
unless-stopped` restarts it; a forwarder that has a message takes it, each send
of a broadcast ends (returns or raises), and `receive_text()` notices a client
that has gone. The event loop running ready tasks justifies what happens between
the awaits. That an await ends is an assumption about the other side of it:

* Open-Meteo: httpx's 10 s limit each operation on the connection, not the call;
  an answer that trickles in can take longer;
* Redis and Postgres: neither redis-py nor asyncpg has a timeout configured here,
  so a server that is neither there nor gone keeps its caller waiting;
* clients: nothing limits a send, and a client that keeps its connection open
  without reading stops its replica's forwarder.

No fairness is assumed of users or failures. Kills are bounded, since a process
killed for ever polls nothing.

`WeatherRoutes!FairSpec`: every await of an HTTP request ends, under the same
assumptions about Redis, Postgres and Open-Meteo. Acquiring a
connection, or giving up on it, are one fairness condition: a request that waits
gets one of the two. Nothing makes a socket end.

`Startup!FairSpec`: the shell loops and alembic go on, containers are restarted,
and a service that is down comes up. Failures are bounded by `MaxFailures`.

## Proofs

Each module of proofs extends the module it is about and starts from the
assumption on the constants that that module states and every run of it
evaluates: types, and what a size of a pool or the length of a second has to be.
Sets of replicas, sockets, users, locations, requests and readings are free, and
so are all bounds. Almost no invariant of a run is inductive as it stands; what
follows names, for each component, what had to be added and why.

`AlertFanoutProofs` (`FanoutAssumption`):

* `TypeCorrect`: `Spec => []TypeOK`.
* `RegistryStaysConsistent`, `RegistryOwnership`: the two halves of
  `RegistryInv`, inductive together with `TypeOK`. `register()` keeps the
  dictionaries inverse only for a socket not registered yet, which is what
  ownership gives; the lemmas `RegisterConsistent` and `UnregisterConsistent`
  do the rest.
* `BroadcastSound`, `ProgressAgrees`, `DeliverySound`, `DeliveryOrdered`,
  `NothingMissed`: from `DeliveryInv`. They
  are not inductive alone: order and completeness need to know that a socket
  still in `pending` has only received earlier messages and that a stopped
  process runs no endpoint (`BroadcastProgress`), and that a snapshot holds
  exactly the registered sockets that looked the location up (`AudienceExact`,
  from the registry invariant). `QuietStep` covers the steps that move no
  message; the others have one proof step per action and one per conjunct.
* `FanoutImplementsDelivery`: every step of the fan-out is a step of
  `AlertDelivery` or a stutter. The step that matters is `Push`: the message sent
  is due, by `PendingSound`; nothing due before it is missing, by `NoMissedAlert`;
  nothing received comes after it, by `BroadcastProgress`. One more invariant is
  needed, `EndedGone`: without it, a socket whose endpoint has ended could still
  be an open client to be served.

The step lemmas are about `AnyNext`, the actions with a publisher that nothing
bounds. That is why the pipeline, where the poller publishes, can use them.

`PollerProofs` (`PollerAssumption`) proves `ReadingsAlwaysCarryAlerts`,
`NothingPublishedTwice`, `NoneForgotten`, `PolledAtMostOnce` and the types from
`PollerInv`:

* `CycleInv`: what is in `todo`, or in the open transaction, has no reading in this
  cycle. `OnePollPerCycle` needs it for the next commit, which must not store a
  second one, whether or not it raises.
* `OutgoingInv`: `outgoing` is of this cycle, in the order of the table, and after
  everything on the channel. `PublishedOncePersisted` needs it for the next
  publish, and `NoAlertForgotten` to know that the cycle that an exception cuts
  short is that of the alerts it loses.
* `ReadingsCarryAlerts` is inductive with `ProcessInv` (a transaction is open
  exactly at the commit). `RowsOfTransaction` and `PersistEffect` say what a
  commit adds, and that the rows of the readings before it stay what they are.

`SeverityProofs` (`SeverityAssumption`: all quantities are integers) proves
`NoCategoryTwice`, `HighestTierIsReported` and `NeverDowngrades`. The list that
`classify()` builds by five appends is characterised by a table of tiers
(`Tier`, `Lists`, `ClassifyLists`): it holds the conditions with a tier above
zero, each once, at that tier. What is reported for a category is then the tier of
the one condition that can have one, as no temperature is hot and cold
(`HeatOrCold`), and the tiers grow with the value because the thresholds do.

`TokenAuthProofs` (`TokenAssumption`) proves `RevocationIsFinal`, `LogoutIsHeld`,
`SessionsEnd` and the types from `SessionInv`:

* `RequestsSound`: a request under way is about a refresh token that was issued;
  one that began late finds its row revoked, so that none that is about to mint is
  late; and what is about to mint has read its row before the row was revoked, if
  it was. `NoMintAfterLogout` follows from what the route reads and not from what
  it saw when it began.
* `Lifetimes`: `exp` is not after the exact expiry, and that not more than a life
  from now. It bounds the TTLs for `TypeOK`, and the access tokens that a session
  has when its row is revoked.
* `HeldBack`: the blacklist entry of a logged-out access token ends less than a
  second before `exp`. The two roundings of the code, of `exp` and of the
  TTL, are what the lemmas on seconds and ticks (`SecondBounds`,
  `TicksMonotone`, `BlacklistEffect`) bound; the second that `exp` names makes two
  of it in `LogoutIsHeld`.
* `AccessBounded`: an access token of a revoked session ends within one lifetime, and
  the wait of the refresh that minted it, of the instant the row was revoked. It
  holds for those issued before by `Lifetimes`, and for those minted after by
  `RequestsSound`.

`DirectoryProofs` (`DirectoryAssumption`) proves `DirectoryImplementsAtomic`, that
each step of the split routes is a step of `AtomicDirectory` or a stutter, and
the types. `DirectoryInv` says what a request knows by the stage it is in and
what no other request can take from it: a row it found is still there
(`FoundGrows`, rows are only added), a call that is refused found none when it
arrived, and what is updated exists. Without it an update could create the row
that it should change, and a conflict would be answered that a single instant
cannot explain. `Applies` and `WrittenEffect` give the one instant of each route,
`StepsAreAtomic` has one case per action.

`AlertPipelineProofs` (`PipelineAssumption`) does not prove the two halves again.
`PipelinePolls`: each step of the composition is a step of a poller, for which a
new or lost subscription is a location watched or not.
`FanoutStepOfNext`: given the poller's invariant, each step is one of the fan-out;
a step of the poller appends one message to the channel or changes nothing that
a forwarder can see, because the rows that messages name do not change. So the
invariants of both halves hold, by the theorems of `PollerProofs` and
`AlertFanoutProofs`, cited through instances, and so does the stream of
`AlertDelivery` (`PipelineDelivers`). `ClientsToldOnceInOrder` and `NoAlertIsLost`
then need no further induction: the channel is increasing in the rows of the
table, the clients follow the channel, and an alert not yet on it is in
`outgoing` or was cut short.

`WeatherRoutesProofs` (`WeatherAssumption`: finitely many requests) proves
`NoConnectionLost` and `TypeOK`, inductive together
(that a connection coming back fits into the pool follows from the count of the
holders). The lemmas about the set of holders reduce each step to one more, one
less, or the same. `BurstIsBounded` follows by counting: fetching requests and
streaming sockets are disjoint sets of holders.

`StartupProofs` (`StartupAssumption`) proves `AllTablesOrNone` and
`RunsOnWholeSchema` from
`SchemaInv`: a container that boots or runs has seen the version, or a table,
and both appear with the whole schema or not at all.

A run checks each property that these theorems state, but for `PipelinePolls` and
`PipelineDelivers`, whose `P!Spec` and `FP!DeliveryImplemented` no run evaluates;
the strengthenings (`PollerInv` and the like) stand in the modules of proofs.

Only model-checked: the liveness properties `StoredReachesClient`,
`DisconnectsCleanUp`, `KeepsPolling`, `AlertsGetPublished`, `EveryRequestAnswered`
and `EverythingRuns`, because liveness under fairness and ENABLED are out of this
prover's reach; and the four counterexamples. Nothing here needs induction over
data or a recursive operator, which are out of reach too: the engine's loop is
unrolled over its three tiers. No theorem is about `ConsoleClient`, whose one run
shows a sentence that fails.

## Not modelled

Message texts, labels, log lines, markup and style; declarative models, schemas,
settings and password hashing, which have no control flow of their own; routes
that only read. In the fan-out: a message that does not parse (this code
publishes none), and the order in which a client sees the greeting and a first
alert. In the weather routes: what a cached answer says, hence which of two
concurrent misses is stored last (nothing in the repository promises either).
In the console: its lists and its socket, for which the repository states
nothing that a model could check. Of the migration: `downgrade()` and alembic's
offline mode, which nothing runs. Redis and Postgres themselves appear as their
clients use them.

## Plan

Every component above is modelled, except what "Not modelled" names, and every
safety property of a passing run is proved. Left are:

1. A property of `ConsoleClient` that does hold: what the page can still hold of a
   session after its logout.
2. The safety halves of the liveness properties: that in no state of the pool or of
   the startup every process waits for another.
3. Bounds that `SessionInv` implies and no theorem states, such as how long the
   access tokens of a session live after its last refresh.
