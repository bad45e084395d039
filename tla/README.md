# A TLA+ model of dk-server-foundation

This directory holds a verification model of the server foundation in `src/src`, and of
the pages in `src/devconsole` that show what it does: TLA+ modules for its distributed and
concurrent parts and for its algorithms on schemas, TLC configurations that check them on
small instances, and proofs that TLAPS checks for every value of the constants. Paths below
are relative to `src/src` unless they say otherwise.

`PROJECT.json` is the index: components, runs, the source lines behind every
definition (`map`), one mutant of the code per property, findings, hazards, theorems.

## 1. The system

The foundation is a library for Node.js servers on top of Deepkit. A process is one
event loop: code runs without interruption from one `await` to the next, and every
`await`, timer and socket is a place where something else may come in between. Processes
meet in Redis (Lua scripts, which Redis runs one at a time; publish/subscribe, which
forgets a message nobody listens to), in the SQL database, in files, and over web sockets.

| Component | State it keeps | Operations | Talks to | What is hard | What makes it correct |
|---|---|---|---|---|---|
| Leader election `services/leader.ts` | `running`, `_isLeader`, `lockId`, two timer handles; one Redis key with a TTL | `start`, `stop`, `tryAcquire`, `startRenewal`, `handleLostLeadership` | Redis | late and repeated commands, expiry, `stop`/`start` around an `await`, overwritten handles | one leader at a time; a node that stops leaves no lock; a running node never falls out of the election |
| Mutexes `helpers/redis/mutex.ts` | a map key → promise (local); a Redis key and a renewal interval per key (redis) | `withMutex`, `withMutexes`, `localMutexExec`, `redisMutexExec` | Redis, the microtask queue | order of microtasks, nested keys, expiry under a running function, a function that throws or hangs | exclusion, no lost waiter, nothing left behind, loss is reported |
| Mesh messaging `services/mesh.ts` | pending requests with their timers, handlers and their heartbeat intervals, the instance id; in Redis the node list | `start`, `stop`, `invoke`, `broadcast`, `registerHandler`, heartbeats, the leader's `CLEANUP` | Redis publish/subscribe, `LeaderService` | lost messages; a heartbeat, a reply and a timeout in every order; commands that fail half way through `start()` | every request settles once; a service is a node or has left nothing behind |
| Mesh clients `services/mesh-client/*` | per client: two promise chains, metadata; sets of published streams; in Redis a hash of clients and a set per node | `postEstablishCheck`, `onStreamConnected`, `onStreamActivated`, `onStreamDisconnected`, `meshStart`, `meshStop`, `updateClientMetadata`, `kickClient`, `cleanupNode` | `MeshService`, `SrpcServer`, Redis, the application's callbacks | a client that reconnects while its old stream still disconnects, on the same or another node; kicks that come late; node death; metadata changed at both ends | the registry agrees with the streams and their metadata; one home per client; callbacks in order |
| sRPC server and client `srpc/SrpcServer.ts`, `SrpcClient.ts`, `WebSocketUpgradeHandler.ts` | streams by id and client, request queues, pings; connection state and reconnection timers; listeners of the upgrade event | handshake, supersession, `invoke`, request handling, `connect`, `disconnect`, upgrade | web sockets, the mesh server, other listeners of the HTTP server | timeout against a late reply, reconnection, supersession, requests before activation | every request settles; one stream per client; one answer per upgrade |
| sRPC byte streams `srpc/SrpcByteStream.ts` | maps of senders, receivers and receivers to come | `createSender`, `createReceiver`, write, finish, destroy | the stream below | data before its receiver, aborts from both ends | a receiver gets what was sent, in order, then its end or an error |
| Worker `services/worker/*` | BullMQ's queue in Redis, job rows in the database | `WorkerRunnerService`, `WorkerRecorderService` | BullMQ, the database, `LeaderService` | events and backlog logged twice, a crash between log and removal | every finished job is recorded |
| Database `database/common.ts`, `entity.ts` | sessions with hooks before and after the commit; session locks | `transaction`, hooks, `acquireSessionLock` | MySQL, PostgreSQL | hooks that fail or add hooks; rows purged before they are locked | all or nothing, and hooks to match; locks exclude |
| Migration run `database/migration/MigrationRunCommand.ts` | the table of executed migrations | run | the database, the worker's queue | two instances; a kill between a migration and its row | what is recorded was applied |
| Migration creation `database/migration/create/*` | none | reading both schemas, comparing them, writing statements | the database's catalogs | order of statements, renames, what a dialect reads back | the database accepts the migration and becomes what the entities declare; nothing is left to do |
| Schema builder `database/schema/*` | blueprints of one call | `create`, `alter`, `drop`, `flush`; grammars | the database | order of its statements, defaults | the same |
| HTTP `http/*`, `auth/*` | a request counter, a cache per request | request handling, middleware, authentication by JWT, parameters, CORS | Deepkit's workflow | failures before, while and after a response is written; a client that leaves | a request is handled to its end, once |
| DevConsole `devconsole/*` | ring buffers, what is active; its own sRPC server | patches that observe the other parts, snapshots, events, REPL | all of them, the browser | a full buffer, events around a snapshot | the page shows what the process recorded |
| DevConsole user interface `../devconsole/src/*` | a socket with its reconnection timer, the state of each page | the views' loading, events, keys | the DevConsole server | reconnection, replies out of date | the same |
| Development build `cli/dksf-dev.ts` | a lock file, a state file | `run`, `build`, `migrate`, ... | other processes | processes that die with the lock | one builder; none waits for nobody |
| Test support `testing/*` | one connection with savepoints | `resetToSeed`, patched transactions | the database | transactions that outlive their test | tests see the seed and their own writes |
| Cache and broadcast, application shell, logger, helpers, mail, telemetry, health, installer, templates, documents | configuration, one memoized shutdown promise, the logger's context | wiring, formatting, adapters | libraries | little | unit tests reach it |

Interactions that the modules follow: `MeshService` owns a `LeaderService` and runs
its clean-up on the leader; `MeshClientService` owns a `MeshService` and a registry;
`MeshSrpcServer` extends `SrpcServer` and drives both; the Redis mutex and the leader
election use the same three scripts on a key; the worker's recorder follows the election;
`migration:run` clears the worker's repeatable jobs; the DevConsole observes requests,
queries, mutexes and sRPC streams through patches.

Every hazard we know of is listed in `PROJECT.json` under `hazards`, at the line where it
bites, with the properties that would notice it or the reason why none does.

## 2. The modules

| Module | Models | Role |
|---|---|---|
| `RedisLock` | the ACQUIRE, RENEW and RELEASE scripts, a key's expiry | operators on one key, shared by `Leader` and `RedisMutex` |
| `Leader` | `services/leader.ts` | n services on one key |
| `Election` | what `LeaderService` promises | abstract specification: elect when nobody leads, resign before another is elected |
| `LocalMutex` | `localMutexExec` | one key, its callers and the microtask queue |
| `RedisMutex` | `redisMutexExec`, `withMutexes` | callers with nested keys |
| `MeshRpc` | the messages of `services/mesh.ts` | nodes, the channels between them, requests and executions of handlers |
| `MeshNodes` | `start()`, `stop()`, heartbeats and CLEANUP of `services/mesh.ts` | services, what their calls create, and the list in Redis |
| `ClientRegistry` | the Lua scripts of the client registry | operators on the hash, the nodes' sets and their TTLs |
| `MeshClients` | `mesh-srpc-server.ts`, `mesh-client-service.ts`, what they use of `SrpcServer.ts` and `mesh.ts` | nodes, streams, chains, kicks, node death |
| `ClientMeta` | the metadata in the same two files | one client's streams, a node's copy, the registry |
| `Srpc` | `srpc/SrpcClient.ts`, `srpc/SrpcServer.ts` | clients of one id, sockets with two ends, streams, requests both ways |
| `Upgrades` | `srpc/WebSocketUpgradeHandler.ts` | one upgrade request and the listeners for it |
| `ByteStream` | `srpc/SrpcByteStream.ts` | senders, receivers, frames between them |
| `ByteChannel` | what a byte stream promises | abstract specification: a prefix, then the end or a break |
| `Transactions` | `database/common.ts` | transactions, hooks, session locks |
| `Worker` | `services/worker/runner.ts`, `recorder.ts` | queue, runners, recorders, table |
| `Migrations` | `MigrationRunCommand.ts` | concurrent runs and the table of migrations |
| `SchemaDiff` | `comparator.ts`, `ddl-generator.ts`, `builder-regenerator.ts`, `schema/Schema.ts` | tables, the difference, statements, a database that runs them |
| `ColumnTypes` | `entity-reader.ts`, the grammars, `db-reader.ts`, `comparator.ts` | one column from declaration to catalog and back |
| `Keys` | the same for indexes and foreign keys | one table's keys from declaration to catalog and back |
| `HttpRequests` | `http/kernel.ts`, `workflow.ts`, `middleware.ts`, `auth.ts`, `cors.ts`, `store.ts`, `auth/jwt.ts` | one request |
| `DevConsole` | `devconsole.store.ts`, `patches.ts`, `devconsole.ws.ts`, the browser's client and pages | ring buffers, sockets, one page |
| `ReplPage` | `ReplView.vue`, the evaluation in `devconsole.ws.ts` | the REPL page and the process behind it |
| `DevBuild` | `cli/dksf-dev.ts` | processes, a lock file, a state file |
| `TestIsolation` | `testing/index.ts` | one connection, savepoints, tests |
| `MCLeader`, `MCRedisMutex`, `MCMutexes`, `MCMeshRpc`, `MCMeshClients`, `MCParts` | | instances for TLC |
| `LeaderProofs`, `RedisMutexProofs`, `MeshRpcProofs`, `ClientProofs`, `MeshNodesProofs`, `SrpcProofs`, `ByteStreamProofs`, `PartsProofs` | | theorems |

### Leader

`lock` is the Redis key, `chan[n]` the commands that node `n` has sent on its one
connection and not yet consumed the answer of. The other variables are the fields of the
class, one function per field. A pending command has an answer, or none yet, and an age.

| Action | Code |
|---|---|
| `Start`, `Stop` | `start()`, `stop()` up to their first await |
| `RetryFires`, `RenewFires`, `LostRenewFires` | the timers; the third is an interval whose handle was overwritten |
| `Execute`, `Refuse`, `Flush`, `Resend` | Redis runs a command; refuses it; ioredis fails every command in flight; ioredis sends them again after a reconnection |
| `BecomeLeader`, `UndoAcquire`, `AcquireFails` | the three ways `tryAcquire()` goes on |
| `RenewSettles`, `LoseLeadership` | the renewal's continuation |
| `StopSettles`, `UndoSettles` | the continuation of `stop()` and of the release after a late grant |
| `Crash`, `Disconnect`, `Tick` | death of a process, loss of its connection, time |

The retry timeout has no duration: it fires at any moment after it was set. The renewal
interval counts ticks. `RestartWhen` says how early the owner calls `start()` after
`stop()`: the moment `running` is false, after the promise of `stop()` settled, or when no
command is in flight either.

### LocalMutex and RedisMutex

`LocalMutex` keeps the queue of microtasks, because the answers hang on its order: `settled`
and `awaited` are the promises' states, and the links `then`, `catch` and `finally` take
one job each. A timer fires only when the queue is empty.

`RedisMutex` follows a caller through its keys. The function of a level is the mutex of the
next one, so `withMutexes` is a sequence of levels. A lost outer level rejects the caller
(`told`) while the inner ones, or the function, go on.

`MCMutexes` chooses one of the two for a behaviour, as `MUTEX_MODE` does for a process.

### MeshRpc

`requests` are all requests ever made, each with its state and its timer, so a node's
`pendingRequests` are those that it made and that are pending. `works` are the executions of
handlers with the counters of their heartbeat intervals. `wire[a][b]` is what `a` has published
and `b` has not received: Redis keeps the order of one publisher on one channel. A node is one
instance id, so a service that starts again is another node; `life` says how far `start()` and
`stop()` have come.

| Action | Code |
|---|---|
| `Invoke`, `TimesOut` | `invoke()` on another node, its timer |
| `Broadcast`, `BroadcastArrives` | `broadcast()`, `handleBroadcastIncoming` |
| `Ignored` | a message for a node that does not run or is stopping |
| `RequestRefused`, `RequestArrives` | `handleRequestMessage` without and with a handler |
| `BeatFires`, `HandlerEnds` | the interval of an execution, the handler's promise |
| `HeartbeatArrives`, `AnswerArrives` | `handleHeartbeatMessage`, `handleResponseMessage` |
| `Joins`, `Leaves`, `Left` | the end of `start()`; `stop()` up to and after the leader service's stop |
| `Crash`, `DiesWithSender`, `Lose`, `Resend`, `PublishFails`, `Stall` | a process dies, with what it had not sent; a subscriber misses a message; ioredis repeats a PUBLISH or gives up; processes and connections become slow |
| `Tick` | time: every timer counts down, messages get older |

Until the first `Stall` a message takes at most `MaxDelay` and a timer that is due fires;
afterwards anything may take any time. `MaxInFlight` bounds the heartbeats on their way.
The node list, its heartbeats and CLEANUP are in `MeshNodes`.

### MeshNodes

Every `await` of `start()` and `stop()` is a step, and a caller stands at one of them.
`alive` is what starts have created and stops have not yet taken back: the subscriber, its
subscription, the heartbeat interval, the leader service, each known by the id it was made for.

| Action | Code |
|---|---|
| `Start`, `NoId`, `Subscribe`, `Register`, `Name`, `Started`, `Undo`, `Undone` | `start()`: the id, the subscription, the first heartbeat, the hostname, the rest, and the `catch` |
| `Stop`, `Resigned`, `Deregistered`, `Quit`, `Left` | `stop()`: the leader service's stop, the two removals, `unsubscribe()` and `quit()` |
| `Beat`, `Late`, `Cleanup` | `doHeartbeat()`, a heartbeat that does not come in time, `doCleanup()` |
| `Crash` | the process dies |

A command that fails may have been executed or not (`Command`). `stop()` may be called any
number of times and by several callers at once, but neither call is made while `start()` is at work:
`start()` looks at `running` and sets it only four awaits later, and what happens then is told
under "Observations".

### ClientRegistry and MeshClients

`registry` is the four kinds of Redis keys with their TTLs; a key without elements does not
exist. A node has, per client, the two promise chains of `mesh-srpc-server.ts`
(`clientRegistryChains` and `clientCallbackChains`); a job is queued, sent to Redis, or
answered. `streams` is the sequence of all streams ever accepted, each with the step of its
life. Microtasks are taken before any other event (`Drained`): they touch only what is the
node's own, so an event of another node cannot tell the difference.

| Action | Code |
|---|---|
| `Connect`, `Drop` | `handleStreamEstablished`, `cleanupStream` |
| `ReserveStarts`/`Ends`, `ActivateStarts`/`Ends`, `DisconnectStarts`/`Ends`, `BackfillStarts`/`Ends` | the jobs of a client's registry chain, up to the registry's answer and from it |
| `HandlersSettle` | `onStreamConnected` is over, the stream is activated |
| `CallbackStarts`, `CallbackSkipped`, `CallbackEnds` | the jobs of the callback chain |
| `MeshStarting`, `MeshStarted`, `MeshStops`, `CleanupOwn`, `MeshClosed` | `meshStart`, `meshStop` |
| `Kicked`, `KickLost` | the `kickClient` handler, or a publication that nobody receives |
| `Expire`, `CleanUp` | the leader's CLEANUP and its callback |
| `Execute`, `Refuse`, `Crash`, `Disconnect`, `Tick` | Redis, processes, time |

`ClientMeta` adds the metadata, for one client and with Redis in order: `Change` is a write to
`stream.meta`, `Activate` the continuation that syncs, `Update`, `FoundHere`, `FoundAway`,
`NotFound`, `UpdateArrives`, `UpdateAnswered` the steps of `updateClientMetadata()` at the owner and
elsewhere, `Start`, `Reserved`, `Activated`, `Updated`, `Unregistered` the jobs of the chain. `raced`
marks the three interleavings after which the code does not agree (an update at the owner
that passes the chain; one that lacks a field, when the stream's metadata have just been synchronised;
a failed update that restores what has changed meanwhile).

### Srpc, Upgrades, ByteStream

`Srpc` keeps for each socket both ends' state and the frames on their way. `Choice` are the
events that the code does not decide: calls of `connect`, `disconnect`, `invoke`, handlers that answer
or not, failing sockets, and slowness, which is counted in `spent`. `Progress` are all steps of the
code and of a working network.

| Action | Code |
|---|---|
| `Opens`, `Handshake`, `ReplyRead`, `ConnectTimesOut`, `RetryFires` | `SrpcClient.connect` and its continuations |
| `Accept`, `CheckPasses`, `Activate`, `OpenRequests`, `Inactive` | `handleStreamEstablished`, supersession, `activateStream`, the queue of requests |
| `CallRead`, `AnswerRead`, `RequestRead`, `CallTimesOut`, `PingRead`, `PongTimesOut` | messages and their timers |
| `CloseRead`, `ByeRead`, `NearFails`, `FarFails`, `Unheard`, `Ignores` | the ends of a socket, `cleanupStream`, `handleDisconnect` |

`Upgrades` follows one upgrade request through the listeners of the event in their order: a
server claims it (`Upgrade`, `Accept`, `Reject`), an application's listener answers now, later or
by destroying the socket, or the fallback's timer rejects it.

`ByteStream` numbers senders as the code does, for one direction (`way`) and through
reconnections: client records survive them, server records do not. `Deliver` is `handleStreamMessage`,
which keeps what comes before its receiver (`pending`) until `CreateReceiver` or `Expire`.
`ByteChannel` is refined by it: `writer`, `wrote`, `reader` and `got` are read off the sender and receiver of a
stream.

### Transactions, Worker, Migrations

`Transactions`: a transaction collects entities and hooks (`QueueEntity`, `AddHook`), may ask
for a session lock (`AskLock`, `Prepare`, `InsertRow`, `UpdateRow`; on Postgres an advisory lock), then returns,
runs its hooks before the commit, commits, and runs those after it; hooks may add hooks, and any of them may throw.
`Age` and `Purge` are the clean-up of old rows of `_locks`. `owner` is who has locked the row, or the gap
where an `UPDATE` found none: InnoDB at its default isolation, `REPEATABLE READ`, which the code leaves as it is.
A gap may have several owners; an `INSERT IGNORE`, on its own connection, waits for every owner, its own transaction included.

`Worker`: `Take`, `Finish`, `Crash`, `Pause`, `Close` are runners at BullMQ's queue; `Lead`, `Demote` the
callbacks of the election; `Hear`, `ScanNext`, `ScanJob`, `Log`, `Remove` the recorder, which reads the backlog while events
come in. `missed` collects the jobs whose recording failed or that finished where nobody looks.

`Migrations`: several runs of `migration:run` against one table, each step of which may be the last
(`Kill`).

### SchemaDiff, ColumnTypes, Keys

Algorithms, each with a database that judges the result. `SchemaDiff!MakeMigration` compares
two schemas, writes the statements, and `Execute` runs them one after the other: MySQL and PostgreSQL
reject what they would reject (a key on nothing, a count without a key, a table that is referred
to) and otherwise change the tables. `ColumnTypes!Migrate` takes one property to a type with size and
default, through a grammar into the catalog, and back through the reader; `Keys!Migrate` does so for indexes and
foreign keys, with the indexes that MySQL makes by itself. The last two are single steps: their
states are inputs and results. `MigrationFits` claims of either way, raw and builder, that its migration is accepted and
makes the database what the entities declare. What is excluded, because the code gets it wrong, has names: `Ordinary` for
what is rejected (`NothingCounts` and `NothingRefers` for the builder, `CountsInTime` for raw, `KeepsAColumn` and `KeepsIndexes`
for both), `StopCounting` and `Misplaced` for what is made otherwise (see "Observations"). What `Ordinary` excludes is not more than
what is rejected, removed tables aside, which may happen to drop in an order that works.

### HttpRequests

One request from `HandleRequest` to the settled promise of the kernel, with Deepkit's workflow as
the code uses it: route, middleware chain, authentication, parameters, controller, response. `res` is what
Node's response object would say. Every stage may fail, a middleware may pass or refuse,
and `ClientLeaves` closes the connection at any moment.

### DevConsole and ReplPage

`made` are the entries, to which the ring buffer `ring` and the list of what is active refer, as objects
do; `kept` is the reference: everything pushed since the last clear. The browser has a client with
its sockets and a page, `view`. `Recording` are the steps of what is observed; `Serve`, `Accept`,
`Receive` and `OnClose` go over the sockets; `OtherTab` is a second tab, which supersedes the first. `odd`
marks pages whose events and snapshot cannot be told apart, and `error` those with a load that was lost with its connection,
timed out or was not sent (`LoadFailed`): they show that error and no data (see "Observations").

`ReplPage` is the page of the REPL: keys, completions with their debounce, commands recalled, one evaluation
at a time for the page and any number going on in the process (`Evaluate`, `Log`, `Evaluated`, `Answered`, `Expires`).

### DevBuild and TestIsolation

`DevBuild` makes every operation on the lock file and on the state file a step, as other processes see
them; a write is two, because the file is truncated first. `doubt` is set by a builder's death or by a lock
read before its pid was written, after which two builders may exist.

`TestIsolation` has one connection with its savepoints as a sequence of snapshots. Transactions of the
application overlap and outlive their tests. Each reset goes back to `after_seed`.

## 3. What the runs check

| Run | Question | Properties | Bounds |
|---|---|---|---|
| `leader_timely` | does the election work when Redis answers in time? | `OneLoop`, `StoppedLeavesNothing`, `LeaseCovers`, `ImplementsElection` | two services, two starts, one failure, delay 2, renewal 1, TTL 6 |
| `leader_restart` | what holds with any delay and `start()` at any moment? | `NeverDropsOut`, `EventuallyLedUnlessLeaked`, `ZombieDemoted` | two services, two starts, one failure, TTL 2 |
| `local_mutex_excludes` | does the local mutex exclude? No | `MutualExclusion` | three calls |
| `mutex_timely` | does fn run under its keys when Redis answers in time? | `HeldWhileInside` | two callers, a nested key, one failure; 2.9 million states |
| `mutexes` | what holds of either mutex with any delay, and keys taken in opposite orders? | `EndedLeavesNothing`, `LossIsTold`, `EveryWaiterSettles` | redis: two callers, two keys, one failure; local: four calls, also from continuations |
| `mesh_rpc` | does every caller get an end, and none too early? | `HandledInTime`, `SettledOrWatched`, `SettlesOnce`, `NotStranded` | two nodes, one of them joining, one message, two failures; timeout 12, heartbeats every 9, delay 1 |
| `mesh_clients` | do registry, streams and callbacks agree? | `RegistryConsistent`, `SettledAgrees`, `ToldInOrder` | one client, two nodes, three connections, one late start, one stop, one tick |
| `mesh_recovers` | and after a failure, in the end? | `StreamSettles`, `OneHome`, `OrphansGo` | one client, two nodes, two connections, one failure, one stop |
| `srpc` | one stream, ended for a cause, and every promise settled? | `OneStream`, `EndsForCause`, `TidyClient`, `ServerCallSettles`, `ReconnectsOrTold` | one client, two sockets, two requests up, one down, two events (failures or slowness); 259 thousand states |
| `byte_stream` | does a receiver get what was sent? | `PendingIsBounded`, `EndsReachBoth`, `ImplementsChannel` | both directions, two senders, two chunks, one kept, two connections; 1.2 million states |
| `parts` | fourteen parts that do not touch one another, each behaviour of one of them | see below | 2.7 million states |
| `session_locks` | do session locks exclude each other? No | `LockExcludes` | three transactions, each of its own process |

`parts` (module `MCParts`) chooses a part at the start:

| Part | Property | Bounds |
|---|---|---|
| `transactions` | `AllOrNothing` | one transaction, two hooks, both dialects |
| `worker` | `NoJobForgotten` | two runners, one job, three terms of leadership, two failures |
| `migrations` | `RecordedWasApplied` | two runs, three migrations |
| `schema` | `MigrationFits` | all pairs of tables with up to three columns in any order, primary keys and a count; two tables with foreign keys and an index; both dialects, raw and builder |
| `types`, `keys` | `NothingLeft` | each annotation and type with its initializers; up to two indexes and one reference over what four references and six indexes have left |
| `console` | `PageAgrees` | four topics, a buffer of one, two entries, two sockets, two unread frames, one event of nothing but time |
| `repl` | `PageAgrees` | two commands, one of them of two lines, two completions |
| `http` | `RequestHandled` | four chains of middleware, five kinds of what a controller wants, listed and other origins |
| `upgrades` | `RequestHandled` | two servers on one path, three kinds of other listeners |
| `metadata` | `MetaAgrees` | two nodes, two streams, one field, one change, one update |
| `nodes` | `NodeOrNothing` | one service, two callers, three ids, one failed command, one crash |
| `devbuild` | `BuiltInTurn` | three processes, two retries, one crash |
| `tests` | `TestsApart` | two transactions, two tests, two writes, one failure |

Why the bounds are enough for the cases they are meant for. Two competitors suffice for
every race on a Redis key, because a third sees the key as the second does; one failure
is what the retry and renewal logic is built to survive, and `MaxDelay`, `RenewEvery` and
`TTL` stand in the relation of the defaults (a TTL of several renewal intervals). Two
starts reach the overlap of an old run's commands with a new run's. In `mesh_rpc` 12, 9 and 1
are the smallest numbers with the code's three quarters and room for two delays; with a delay
of 2 `HandledInTime` fails. Requests meet each other only in a channel's order, which answers
and heartbeats of one request exercise, and two failures lose a request and its answer, or
repeat one and stop a node; the proofs cover any number of each. Three local calls make
two waiters leave together; a fourth makes a second round. One client has no effect on
another in the registry's scripts except through shared TTLs and the tidying of empty keys,
which the proof covers for any number of clients. Three connections give a client that
moves away and comes back, or is superseded twice. Redis' TTLs are ticks: one tick in
`mesh_clients` ages every key without expiring it. Two sockets are an old connection and
its successor, two requests one that is queued behind the other. Two senders of a byte
stream, two connections and a kept size of one chunk reach the same number used again, data that comes before its
receiver, and data that is dropped. A buffer of one entry evicts with the second. Three
processes are a builder that dies, one that takes over, and one that waits for either.

Larger instances that we have run by themselves, without a violation: `Srpc` with three events (safety
only, 3.6 million states); `DevConsole` with two events of time (3.5 million) and, of every page but that of the mutexes, with three (10.6 million); `HttpRequests` with every chain of up to
two middlewares (824 thousand); three servers in `Upgrades` (127 thousand); two changes
(872 thousand) or two fields (1.7 million) in `ClientMeta`; `Keys` with two indexes earlier (224 thousand); `MeshNodes` with two services
(692 thousand) or two failures (574 thousand); `ReplPage` with three codes (697 thousand); `TestIsolation` with
three transactions (2.3 million).

`CHECK_DEADLOCK FALSE` stands where the system may come to rest: when all calls have ended,
or all connections and stops are used up.

Symmetry is not used: lock ids and nodes are drawn in an order.

### Fairness

`FairSpec` assumes what the code does not have to provide itself: Redis executes what it was
sent, an event loop runs its due timers and continuations, time goes on, and in the mesh a
publication that is not lost is delivered, a `stop()` that was called goes on, the application's connection
handlers and callbacks settle, and a dead node's heartbeat expires and is found by a leader. No fairness is assumed of
failures, crashes, calls of `start()` and `stop()`, connecting clients, of a mesh handler, or of the function
under a mutex: both may hang. `NotStranded` therefore lets a caller wait as long as somebody
works for it. In `Srpc` fairness is of `Progress` steps that spend nothing: the network delivers or
fails, timers whose other side is silent fire, and continuations run; nothing is assumed of the
application's handlers.

### What the violations show

* `local_mutex_excludes`: all waiters leave their loops in one drain of the microtask queue,
  and each calls its function. `docs/content/redis.md:55` promises one at a time.
* `session_locks`: on MySQL a session lock is a row of `_locks`. The first use in a process deletes
  rows last touched an hour ago, also one that two other processes have just found with `INSERT IGNORE`; their
  `UPDATE`s then match no row, lock no more than the gap, and do so side by side (`database/common.ts:55,85,92`).
  `docs/content/database.md:172` promises a lock until commit or rollback. It takes three processes: with two, TLC finds no
  violation, because the insert of one waits for the other's gap. At `READ COMMITTED`, which locks no gaps, two would do.

## 4. Observations

What the code does and no run claims otherwise: either the property excludes it by a named condition, or
the model leaves the inputs that lead to it out by a named guard.

**Leader election.** `startRenewal()` overwrites the handle of an interval when two ACQUIREs of
one service are granted (started, stopped before the answer, started again). Nobody can
clear the first interval, and it renews whatever `lockId` the service has: when a later
ACQUIRE is executed but its answer is lost, the interval renews that lock for ever and no
retry succeeds (`EventuallyLedUnlessLeaked` excludes it; `docs/content/leader-service.md:79` says that another
instance takes over). Between the first await of `stop()` and its last, `isLeader` is still true
(`leader.ts:116-123`) while the released lock may already be another's; `Leads` therefore asks
for `running` as well. A service restarted while its old ACQUIRE is in flight runs two acquisition
loops; `OneLoop` holds only for quiet restarts.

**Mutexes.** A function that throws before it returns a promise skips the `finally` that deletes the
key of the local mutex; the next caller spins on a settled promise and starves every timer of the
process (`MayThrow`). `docs/content/redis.md` calls `redis` the default mode;
`docs/content/configuration.md:118` and `app/config.ts:85` say `local`.

**Mesh messaging.** A `stop()` or a second `start()` while `start()` awaits leaves a subscriber, a
heartbeat and a leader service of a node that nobody stops, or registers a node under id 0
(`mesh.ts:293,334`). When the leader dies, or the answer is lost, between CLEANUP and the callbacks,
nobody cleans up after the nodes that CLEANUP has taken off the list (`mesh.ts:440-448`; `OrphansGo` says
`faults > 1`). A node that was taken off while it was late lists itself again with its next
heartbeat, but without a hostname, which only `start()` writes. When `unsubscribe()` fails,
`quit()` is not called and the connection stays. After a failed `start()` the instance id is not 0.

**Mesh clients.** The registry's TTL is refreshed only when a client connects or changes its
metadata: where no client does for 24 hours the registrations of connected clients expire, although
`mesh-client-redis-registry.ts:7` says that this matters only when all nodes have crashed. A kick that arrives late ends the
client's present stream, also when the client has moved back. A stream that replaces a
published one and dies before it is published itself takes the announcement of its predecessor's end
with it; `ToldInOrder` claims nothing of a client with more than one stream. `updateClientMetadata()` at the owner
writes the registry outside the client's chain, so an older synchronisation may come after it and nobody
repairs that; its eager copy, restored on a failure, can hide a synchronisation that is needed
(`mesh-client-service.ts:196`, `mesh-srpc-server.ts:402`; both are `raced`). An update that lacks a field
leaves that field of the stream alone and deletes it from the registry (`mesh-srpc-server.ts:78`,
`mesh-client-service.ts:196`). The synchronisation that follows puts it back, except when an activation has
replaced the eager copy before the client is found (`raced`, with two fields; `docs/content/mesh-client.md:242` passes all fields). The copy of a node that does
not own the client stays. `syncStreamMeta` remembers the value before it is written, so a write that
fails is never repeated.

**sRPC.** A ping read after the clean-up of a stream sets `lastPingAt` again (`SrpcServer.ts:510`): the stream
is cleaned up twice. `connect()` over a connected socket loses the handle of its ping interval
(`SrpcClient.ts:200`), and an old connect timer resets a healthy connection. A reply that comes after its
request has expired closes the socket, with all other requests, as a protocol error
(`SrpcClient.ts:361`); a client's handler that outlives its connection replies on the next one, with the same effect at the
server. `server.invoke()` has no timeout (`SrpcServer.ts:707`), and a client's handler that throws writes no
reply. A client that finds its own ghost stream is refused with "conflict" and never tries again
(`SrpcClient.ts:219`; `docs/content/srpc.md:205,216,275` say that it reconnects). Requests that come before
the application listens are lost. A closed `SrpcServer` leaves its upgrade handler installed: a new one on the
same path is never reached and requests get 503 (`WebSocketUpgradeHandler.ts:167`); a listener of the application that
answers later than the fallback's delay finds its socket rejected.

**Byte streams.** A client's record survives a reconnection while the server counts from 2 again: stale pending
entries spoil a new stream with the same number (`Untouched`). A receiver created on a dead stream of the server
never settles. Frames that come after an abort leave pending entries for ever. The writable side's
`false` is ignored while disconnected.

**Database and worker.** A hook after the commit that throws rejects a transaction that is committed. On MySQL a
transaction that asks twice for the same session lock waits for itself: its second `INSERT IGNORE` goes over another connection and
finds the row locked (`common.ts:82-88`). A rejected
`_locksTableInit` is kept for ever. A database that fails in an event handler or scan leaves
jobs where no recorder looks until the next one starts; between a recorder's scan and its events there is a gap.
A migration that is killed between its function and its row runs again; two runs may overlap; and
`migration:run` removes the repeatable jobs of runners that have registered them already.

**Migration creation.** What `MigrationFits` and `NothingLeft` exclude. Both ways on MySQL: columns drop before others come, so
a table cannot have all of them replaced (`KeepsAColumn`); DROP INDEX comes before its replacement (`KeepsIndexes`). Raw on MySQL: a
counting column that only moves, in a table with a new key, counts again before the key is there (`CountsInTime`); added or
modified columns with a reordering end in another order (`Misplaced`). Builder: on MySQL the key of a table with a
counting column, now or before, cannot be changed, because DROP PRIMARY KEY, `ADD` and `MODIFY` come with AUTO_INCREMENT in place and no
key (`NothingCounts`; `Schema.ts:53-79`); columns that stay keep their order, and two columns added at one place are reversed (`Misplaced`;
`builder-regenerator.ts:78`); removed tables drop first, which is rejected while a foreign key refers to them
(`NothingRefers`; `:17`); on PostgreSQL `.change()` drops the default of a counting column (`StopCounting`); a
primary key in another column order is found anew each time on PostgreSQL; a change of nothing but the order makes no
migration (`MigrationCreateCommand.ts:58`). Types: annotated types with arguments are never split into type
and size; `decimal` without size, `float`, `double` and `time` (PostgreSQL), `timestamp` (builder on MySQL),
defaults with a quote (PostgreSQL), defaults that look like an expression, and enum types with capitals and a default
(PostgreSQL) are found anew each time. Keys: on MySQL a numeric reference by a property not named like an id gets a signed
column and its foreign key is rejected (`entity-reader.ts:186`); DROP INDEX precedes its replacement, so an index
that a foreign key needs cannot be replaced (`ddl-generator.ts:184`); an index MySQL made by itself stays when its foreign
key goes; `SET DEFAULT` makes migration:create throw. On PostgreSQL an index on points has no operator
class. A new unnamed index may have the name of one that stays; of two indexes with one name the second is dropped
silently (`entity-reader.ts:93`).

**HTTP.** A controller that begins a response with a status of 400 or more and then throws leaves it without
an end (`workflow.ts:119`; `Abandoned`). Middleware that fails with another error than HttpError answers
without CORS headers. An aborted request is logged as aborted and as completed. The 401 branches
of `auth.ts:24-28` cannot be reached. `getEntityFromRequestJwt` does not use the cached entity
(`auth.ts:55`; `docs/content/authentication.md` says that it does). Two resolvers that ask for one value
at once both resolve it (`store.ts:33`).

**DevConsole.** All tabs use one client id, so a second tab and the first supersede one another for ever
(`docs/content/devconsole.md` speaks of several clients). After a connect timeout on an open socket the
old socket's `onclose` clears the new one. Streams that were refused are listed and stay as ghosts. A
mutex that rejects with another error before its function runs stays "pending"; nested failures
record the outer mutex twice. `withMutexes` calls the local `withMutex`, not the patched one. The sRPC page waits for two
replies and loses events between them. On the REPL page a reply with completions may belong to another
text than the box has, and accepting one splices at stale offsets; an evaluation whose request has expired goes on, and
nobody sees what it writes. A page whose load was lost with its connection, timed out or was not sent
shows that error for as long as it is open, although it loads again when the connection is back: nothing resets `error`, and
the templates test it before the data (`RequestsView.vue:211`, `MutexView.vue:168`, `DatabaseLogView.vue:233`, `SrpcView.vue:313`).

**Development build.** Two processes that judge one dead lock unlink each other's, and so does one that reads a lock
before its pid is there (`doubt`). The state's pids are read, changed and written back: entries may be
lost, and concurrent exits leave `ready: true` behind. Between `ready: true` and its
registration a build does not count as running. When the builder leaves, nobody watches for the others.

**Tests' support.** Transactions that run at the same time destroy each other's savepoints; one of an earlier test
writes into the next. A failed statement outside a transaction on PostgreSQL makes later ones fail until the reset.
`testing/index.ts:301` speaks of a dedicated connection for the seed; it is the application's. DDL on
MySQL commits implicitly and takes `after_seed` with it.

## 5. What is proved

`LeaderProofs` (about `Leader`, for any set of services, any delays and bounds):

* `TypeCorrect`: `Spec => []TypeOK`.
* `SingleLoops`: with quiet restarts `Spec => []OneLoop`.
* `LeasesHold`: with quiet restarts, answers within `MaxDelay` and
  `2 * MaxDelay + RenewEvery < TTL`, `Spec => []LeaseCovers`: a leading service always holds
  the key.
* `Implements`: under the same assumptions `Spec => ImplementsElection`, the abstract
  election with the set of leading services as its state.
* `NeverOut`: `Spec => []NeverDropsOut`, under no assumption: whatever fails and however services are
  restarted.
* `NothingLeft`: with quiet restarts `Spec => []StoppedLeavesNothing`.

`OneLoop` and `LeaseCovers` are not inductive. The invariant `IInv` adds, for each node: that its
commands carry its own tokens (`Own`) and are answered in the order sent (`InOrder`); what
each timer and each command in flight excludes (`Loop`); and how much of the TTL is left for
each stage of acquiring and renewing (`Lease`): right after a grant the whole TTL less the
answer's age, while the interval runs enough for the rest of the interval and two delays,
while a RENEW waits enough for its answer. The proof has a lemma for each action and conjunct. The
inequality is the tight one: with equality the key may expire under a leader.

`NeverOut` has an invariant of its own, because quiet restarts are not assumed. That a RELEASE on its way keeps
a running service in the election is no help once its answer is read, so `Restarted` says that a
running service's RELEASE has an ACQUIRE behind it, and `Stays` what keeps the service in without
counting on a RELEASE: it leads with an interval, or acquires, or has a retry due. `NothingLeft` speaks of
runs without a failure, and its invariant `Calm` only of them: every process is alive, no answer is an
error, and the key, when it holds a token of a service, is `Owed` something: the grant is on its way
(`Granted`), the RELEASE is (`Returned`), or the service leads (`Covered`). A grant that meets a stopped service
turns into a RELEASE at once, which is where `stop()` during an ACQUIRE could have gone wrong.

`RedisMutexProofs` (about `RedisMutex`, for any callers, sequences of keys and failures): `EndedLeaves`,
`Spec => []EndedLeavesNothing`, timely or not; and `HeldInside`,
with `Timely` and `RenewEvery + 2 * MaxDelay < TTL`, `Spec => []HeldWhileInside`. The code's TTL is six
times `RenewEvery`, so the assumption says that an answer takes less than two and a half intervals. The
invariant `IInv` says of each caller: the levels with an interval follow one another up to the innermost
one, and start at the first unless one was lost (`Opens`); what is on its way is for levels of the
caller, with one ACQUIRE at most, that of the level it waits for (`InTurn`); and as long as the caller
was told nothing, no RELEASE is on its way, each level with an interval owns its key, and the key is
`Covered`: its TTL outlasts the rest of the interval and the answer to the RENEW that follows, or that RENEW
is on its way and its answer comes before the key expires. A RENEW that Redis refused covers until
its answer is read, when the caller is told; that is why a failure does no harm, and why
the property ends where `told` begins. Only `Live`, the condition of that last part, mentions the assumption, so
`Invariance`, `Spec => []IInv`, needs none, and `Opens` gives the half of
`EndedLeavesNothing` that is about intervals. The half about keys has `LInv`, for runs without a failure:
each key that Redis keeps for a caller is `Due` to one of its levels, by an interval, a grant not read yet or a
RELEASE not executed yet. `Returned` shows that `finally()` sends a RELEASE for each of the levels it closes.

`MeshRpcProofs` (about `MeshRpc`, for any nodes, messages and failures):

* `Typed`, `NoneForgotten`, `SettledForGood`: `Spec => []TypeOK`, `Spec => []SettledOrWatched`,
  `Spec => SettlesOnce`. They rest on `WInv`: a request that is over has no timer, nobody asks
  before it has started or asks itself, and what is on its way or worked for was asked.
* `HeartbeatsInTime`: with `Beat + 2 * MaxDelay < Timeout`, `Spec => []HandledInTime`. The
  invariant `InTime` says that each waiting request between running nodes is covered:
  its message is on its way and the timer has run since then, or a handler works for it and
  its next heartbeat, or one on its way, comes before the timer is due, or its answer
  does, or comes after such a heartbeat. `Undisturbed` is the lemma for every step that leaves
  a request's messages in order; the others pass it from one way to the next. The code sets
  `Beat` to three quarters of the timeout, so the assumption says that two delays stay
  below a quarter of it.

`ClientProofs` (about `MeshClients`, for any nodes, clients, streams and TTL, and any nodes that start or stop):

* `RegistryHolds`, `Spec => []RegistryConsistent`, and `ClientsTyped`, `Spec => []TypeOK`, whatever fails.
* `RegistrySettles` and `TellsInOrder`, `Spec => []P` for `SettledAgrees` and `ToldInOrder`, with `MaxTicks < KeyTtl`: the
  runs they speak of are shorter than the TTL, which in the code is a day. Without that a connected client's registration
  expires, as section 4 tells. Both properties are about runs without failures; the bounds on streams and time occur in
  no proof but for this one inequality.

Consistency needs the other half of itself: REGISTER must remove the client from the set of the node it takes it from, and
a set's TTL must never exceed the hash's, or the hash would go and leave a set behind. The lemmas treat one script each,
and expiry. The other theorems take these invariants, each of which rests on those before it:

* `Flow`, under all failures: what the jobs of a chain, the callbacks and the streams say of each other (`QueueFits`,
  `CallbacksFit`). Only the first job has been sent; no stream has two jobs of a kind; a node has one stream of a client, jobs of
  older ones stand before a job that claims the client for it, and until it is reserved that job is its reservation
  (`InTurn`). It is what lets `onStreamDisconnected` unregister a client with no replacement in sight. With `Buried`,
  that the dead have no streams, it is `Base`.
* `Fresh`: no key has lost more than the time that has passed.
* `Smooth`, while nothing has failed: for each node and client, what the registry says (`PairFits`). It names the node
  of a stream that has been reserved, unless a later REGISTER elsewhere took the client and the kick is on its way, or is
  about to be sent by the job that read the answer (`Freed`); without a stream it names the node only as
  long as the chain still holds the job that lets go (`LetsGo`). A stopped mesh owns nothing. `Spared` is the frame: a
  step for one client at one node takes from another node only what it is told of. `SmoothSettles` reads
  `SettledAgrees` off it when chains and kicks are empty.
* `Begun`: a mesh that has run from the start has no backfill in its chains. `Tells`: at such a node the
  callback that runs is what was told last; an announced stream is announced by the last callback; and an open one leaves
  none behind it. This is where a slow callback of an older stream could come too late.
* `OneSide` and `Heard`: until a second stream is accepted nothing of the client is at another node, and so nobody
  takes the registration away before its farewell has been answered `yes`; and after a connection that was told, the
  stream still lives or the farewell is queued, sent, answered or announced. With two streams this is
  false, for the reason that section 4 gives.

`Elsewhere` says of every step that it concerns a given client at a given node or leaves both untouched; the proofs
that an invariant is kept have a lemma for what an action does there (`ActTells`, `ActHeard`, ...) and one for what happens
elsewhere.

`MeshNodesProofs` (about `MeshNodes`, for any services, calls in flight, failures and crashes):
`NodesOrNothing`, `Spec => []NodeOrNothing`. The property only speaks of services with no call in flight,
so the invariant has to say what each place in `start()` and `stop()` leaves to do. `Apart`: no id is given
to two services, so a step of one cannot touch what Redis lists of another (`OwnStep`). `Sound`: a
service is a node, at rest, or one `start()` is under way alone (`Joining`), or some `stop()` are
(`Stopping`): what exists of it is then in the fields that a `stop()` still to come reads. That is
why several `stop()` at once do no harm: each takes back what the fields have by then, and the one that
clears a field has sent its command. The proof rests on the assumption of the model that no `stop()` is
called while `start()` is at work.

`SrpcProofs` (about `Srpc`, for any clients, sockets, requests and failures, under no assumption):
`StreamIsOne`, `ClientIsTidy` and `EndsHaveCause`, `Spec => []P` for `OneStream`, `TidyClient` and
`EndsForCause`. One invariant, `IInv`, carries the three, because they lean on each other:

* `Base`, with the types: a socket that nobody opened is blank, a stream that never was is blank, and
  whatever is on its way or at work was sent (`Known`).
* `Registered` and `Served`, the server's side: which streams the maps may name and what one that they do not
  name has left (`Alive`); requests that have started, that are held and that are still coming are in the order of
  `invoke()` (`Order`, the only way to get through `OpenRequests`, which starts all that was held); a reply
  belongs to a handler that has started and ended (`RepliesOnce`).
* `Tidy`, the client's side, until `connect()` has run into a connection: of a client's sockets only the
  present one has a connect timer or is listened to, and then no reconnection is due. `TidyClient` alone is not
  inductive: the connect timer of a replaced socket would schedule a second reconnection.
* `InvokesOnce`: a request of the server is in one place, as a frame down, a handler at work or a frame up.
  This holds with or without faults, and without it one reply could make the next one groundless.
* `Honest`, until one of the three excuses that `EndsForCause` names: whatever is on its way is still
  expected where it goes. It speaks of the present socket for the client's requests (`CallsDue`), since the
  client rejects them with the connection, and of the stream that asked for the server's (`Fits`), since a
  handler that outlives its connection replies on the next one.

Each action has a lemma (`AcceptKeeps`, `NearEndsKeeps`, ...). Most touch one socket and let frames go at a queue's
head and come at its end: `Keeps(q1, q, K)` says so, `NearDoes` and `FarDoes` say it of the queues of an end, and
`NearQuietKeeps`, `FarQuietKeeps`, `FarWorkKeeps` and `OneStreamWorks` carry the invariant over any step of
that form. A queue that loses all its frames satisfies `Keeps` as well, so a lost connection is no special case.

`ByteStreamProofs` (about `ByteStream`, for any numbers of senders, chunks and connections, either direction, any
limit): `PendingStaysBounded` and `EndsAreTold`, `Spec => []P` for `PendingIsBounded` and `EndsReachBoth`, and
`StreamsAreChannels`, `Spec => ImplementsChannel`, for every stream at once. The invariant:

* `Senders`: a number has one sender of the present connection, and the next number is above all of them, also when
  the server starts again from 1 (`NextGrows`). `OneOpen`: no two receivers of a number are open in a record.
* `Receives`: a receiver that has nothing of a former connection in it is `Alone`, its rivals being closed or of
  former connections; so the frames of its number are its own. `Kept`: an entry that began in the present
  connection is of a present sender, so a new sender, whose number may be an old one's, finds either nothing or what a
  former connection left.
* `Flows(k)`: there is a `d` such that the first `d` chunks of `k` have come (they are what its receiver has read
  and buffered, `Reads`, or what waits for it, `Awaits`) while the rest is on the wire in order and then the end, if
  any (`Came`). The existential is what makes one invariant of the two places a chunk may come to.
* `Told(k)`: once a sender is over, its receiver, or the entry for the one to come, knows or will hear. This is
  what a "destroy" frame of a receiver could upset: it stops whoever has the number. `OnWayBack` shows that it was
  sent by a receiver that is no longer alone, so no `Alone` receiver loses its sender that way.
* `Stopped(k)`: the word that stops a sender whose receiver was destroyed is on its way.

Steps of senders leave receivers alone and the other way round: `SenderStepThen`, `QuietThen` and `SilenceThen` carry
the invariant over each kind, `TakenIs` and `WaitsIs` over a frame that a receiver takes and one that is kept. In the
refinement a stream's writer and reader move apart (`WriterMoves`, `ReaderMoves`), and steps of one stream leave the
others where they are (`OthersRest`, `OtherReadersRest`). Of a receiver that is not clean, whose number a
former connection has used and left something under, the channel promises nothing: `ReaderState` is "broken" (section 4).

`PartsProofs` (about the modules that `MCParts` composes, for any processes, transactions, jobs, runners and files):
`PartsSpec => []P` for five of the properties that the run `parts` checks. Each part has an invariant of its own;
the steps of the other parts leave its variables alone. Assumed of the constants: the names of savepoints are told apart
from `after_seed` and from what marks a seeded row (`TestAssumption`), and the two bounds on the worker's runs are
numbers (`BoundsAssumption`).

* `BuildsAreInTurn` (`BuiltInTurn`): whoever the lock belongs to builds or is dead (`LockOfBuilder`), and before the
  first doubt nobody is about to remove a lock and the builder is the one in it (`Undoubted`).
* `TransactionsAreWhole` (`AllOrNothing`): `TxnFits` says at each place in `transaction()` what of it is stored and how
  far either list of hooks has run: nothing before the commit, whose statement has all that the body and `flush()` have
  written, and every hook before it by then. A hook may add hooks, so the lists' lengths are never fixed.
* `TestsStayApart` (`TestsApart`): the savepoint `after_seed` is the first and holds the seed, and the others are of
  transactions of the test that runs (`SavedInOrder`); rows, present and saved, are the seed's and this test's
  (`Clean`). `Lone` says of a transaction that has run alone that its savepoint is from before its first write,
  and that, once it is over, the savepoints of open transactions agree with how it ended. Releasing or rolling back cuts
  the stack at the last savepoint of that name, which is how transactions that overlap lose each other's.
* `JobsAreRecorded` (`NoJobForgotten`): a job runs with one runner, and only an active one (`RunsActive`); a row says what
  the queue says (`RowsFit`); what a recorder has found or begun is of finished jobs (`InHand`); and each finished job
  is in the hands of a recorder that is on (`Kept`): its scan is still to read it, or has found it, or an event of it is
  at work.
* `RecordedIsApplied` (`RecordedWasApplied`): what is not recorded is in the list of every run that is under way
  (`RunFits`), since rows are only added; so a run whose list is empty has found all recorded.

Only model-checked: every liveness property and everything about `ENABLED`, which the prover
does not treat; the local mutex; the other modules of `MCParts`; and the algorithms on schemas, whose folds and recursive definitions are
beyond the prover.

## 6. Not modelled, and what could follow

* Text and adapters: grammars beyond what `ColumnTypes` and `Keys` need, loggers, mail, telemetry, health, the
  installer, templates. `PROJECT.json` gives the reason for each component.
* Single commands: the Redis cache and broadcasts; `invoke()` to a client of another node, which is one
  request of `MeshRpc` to the node that the registry names.
* sRPC with several client ids, which share only the maps; the writable side of a byte stream's receiver.
* The pages of the DevConsole that only display; uploads; `migration:reset`.
* Proofs that could follow: `MetaAgrees`, `PageAgrees` and `RequestHandled`, whose parts have no proofs yet.
