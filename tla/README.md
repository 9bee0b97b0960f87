# Palmares in TLA+

Palmares is a TypeScript framework made of packages that work apart or together: an application
core, a database layer with migrations, an event emitter that can span machines, an HTTP server,
schemas, and adapters to the libraries and runtimes that do the I/O. This directory holds TLA+
models of the parts whose correctness depends on order, overlap and failure. TLC checks them on
small instances; TLAPS proves the central facts about the events, the `migrate` command, the
application with its engines, what queries write, the routers and the server, and the translation of
schemas for all instances.

Paths below are relative to `src/`; "events/index.ts" is `packages/events/src/events/index.ts`,
"migrate/index.ts" is `packages/databases/src/migrations/migrate/index.ts`, "queryset.ts" is
`packages/databases/src/queries/queryset.ts`, and `databases/`, `schemas/`, `server/` and `core/`
stand for the `src` directories of those packages.

## Inventory

What makes each part hard, and what makes it correct.

| component | state | operations | hard behaviour | correct when | modules |
|---|---|---|---|---|---|
| Listener registry (`EventEmitter`) | `#groupByKeys`, `#groups`, the emitter's listeners | `addEventListener*`, the unsubscribe function, `unsubscribeAll`, dispatch of `emit` | every call awaits in the middle and acts afterwards on what it read before | an emit calls exactly the listeners subscribed to a key it denotes; nothing is left of the others | EventKeys, EventRegistry, Subscriptions |
| Emit results | `#pendingResults`, `#pendingHandlerIdForResultKey`, timers | `emit`, `emitToChannel`, wrapped callbacks, `resultsListener`, `#fetchResultForEmit` | duplicated events, late results, throwing and hanging callbacks, two timeouts | each emit resolves once to results of its own handlers; a handler runs once per event | EmitResults, EmitContract |
| Layers and channels | `#channels`, `#unsubscribeByChannel`, one emitter shared by several | `addChannelListeners`, the layer's listener, `emitToChannel`, `unsubscribeFromChannel` | emitters leave and close while others emit | an event reaches whoever stays on its channel, and nobody else; results find their way back | EventLayer |
| Events app server | one `EventsServer`, pending `addEventListener` promises | `load`, `start`, `close` | listeners of all domains are added at once; `close` is not awaited | only its own listeners leave at `close` | EventLayer, AppLifecycle |
| EventEmitter2Emitter, RedisEmitter | handlers, one cached Redis instance | `new`, add, remove, emit | synchronous against networked delivery; subscriptions shared by emitters | listeners are called until removed | EventLayer, EmitResults, EventRegistry |
| `migrate` command | the database, `palmares_migrations`, `migrationsToAddAfterIteration` | `buildAndRun`, `_run`, `getLastMigration`, `saveMigration`, `Migration.run` | crashes, failing statements, two commands at once, what the adapters' transactions really do | files take effect whole, in order, once; recorded only afterwards | Migrate, MigrationHistory |
| Migration order and replay | files of the domains, `dependsOn`; the classes and instances of replayed models | `#getMigrations`, `#reorderMigrations`, `buildState`, `stateForwards` | insertion into a list by remembered index; a class and its instance edited apart | dependencies come first; replaying the files gives the models | ModelState |
| `makemigrations` command | original models, replayed models, files | the diff, rename questions, `#reorderOperations`, `generateFiles` | renames and removals that look alike; a stop between two files | files lead the replayed state to the models; related models come first | ModelDiff, MakeMigrations |
| Database engines | `initializedEngineInstances`, `isInitializing`, `isInitialized` | `init`, `lazyInitializeEngine`, `initializeDatabase`, `close`, `Manager.getInstance` | lazy initialization by concurrent queries; failures midway | queries use an adapter that is open and knows their model | EngineInit |
| Query sets | the cached data, `in`s and threads of one query | `get`, `set`, `remove` with joins | queries before, after and side by side, that edit each other's `where` | objects hold the rows related to them; nothing is written but what was asked | QuerySets |
| Models and fields | typed builders | translation of a field | none | - | - |
| Sequelize and Drizzle adapters (two entries in PROJECT.json) | ORM instances | queries, migrations, `transaction` | the transaction's callback swallows errors | a failed transaction leaves nothing | Migrate, QuerySets |
| App server lifecycle | `isClosingServer`, `__isReady`, `__isClosed` | `initialize`, `configureCleanup`, `#cleanup` | signals during start and cleanup | domains and engines are closed before the exit; signals end the process | AppLifecycle |
| Domains, settings, commands | cached settings, domain instances | `initializeDomains`, `setSettings`, `handleCommands` | order of `load` and `ready` | load before ready | AppLifecycle |
| Server, routers, middlewares | `__completePaths` and `__parentRouter` of each router; the handler chain of a request | `nested`, `middlewares`, `get` and the like, `all`; middlewares, handler, `handler500`, `handler404` | routers copy what their children are when they are nested; errors thrown on the way in, in the handler, on the way out, in the error handler | a request reaches the handler its path has in the tree, behind all the middlewares of the way there; every passed middleware responds once, from the inside out; an error is handled once | RouterTree, Server, RequestLifecycle |
| Schemas | the memo of a schema's translation, its fallbacks; the errors and callbacks of one call | `parse` | requests share a schema while it is first translated | what is accepted is valid, and what is valid is accepted | SchemaTranslation, SchemaParse |
| Logging, client, tests, other adapters | - | - | none | - | - |

### How they interact

The application server loads the domains. Loading the database domain initializes the engines, and
so does the first query of a manager, whichever comes first; loading the events domain calls
`addEventListener` for each event of each domain, without awaiting one before the next
(`packages/events/src/app/utils.ts:24-44`). At a signal the server closes the domains, which close
their engines and listeners, and exits. An `EventEmitter` owns an `Emitter` and may share another
`EventEmitter` as its layer, which carries events between processes; results come back as events of
their own. `makemigrations` compares the models of the project with those it replays from the files,
and writes files; `migrate` runs the files against an engine and keeps its history there. Managers
build query sets, which the engine of the manager runs. The server passes a request through its
middlewares to a handler, which parses the body by schemas all requests share.

## Modules

Operators with a comment "mutant" are wrong on purpose. Each is a bug the code could have had,
written before the definition it would replace, and shows that some property notices it.

### Events

* `EventKeys` - keys as sequences of segments. `ExpandKey` is what the loop of
  `#addListenerWithWildcards` does (events/index.ts 304-345); `Denotes` says, without the loop, what
  the patterns mean.
* `Subscriptions` - the abstract registry: a listener is new, on or off. One step per call.
* `EventRegistry` - the code. JavaScript runs a function up to its next `await` without
  interruption, so each call is as many actions as it has pieces between awaits:

  | code | action |
  |---|---|
  | `addEventListener` up to `await this.#wrap...` (542-548) | `AddBegin`: picks the group of the key or a fresh one |
  | the rest (549-558) | `AddFinish`: files group and handler, hands the callback to the emitter |
  | the unsubscribe function up to `await removeEventListener` (664-673) | `UnsubscribeBegin`: reads `isLastListenerFromGroup` |
  | the rest (675-677), `#unsubscribeGroup` | `UnsubscribeFinish`, `DropGroup` |
  | `unsubscribeAll` up to `await Promise.all` (570-592) | `Clear`, by `UnsubscribeAllOfKey` and `UnsubscribeAll` |
  | `delete this.#groups[groupId]` (594) | `UnsubscribeAllFinish`, once per group |
  | `emitEventToEmitter` (711-725) | `Emit`: one step, for it awaits nothing |

  `groupByKeys[k]` is `{}` where the code has no such key: it never keeps an empty set
  (`#unsubscribeGroup` deletes it at once). The emitter adds and removes a listener when it is
  called, as EventEmitter2 does. `wanted` and `called` are history. A listener counts as subscribed
  once it is filed, since before that its caller has not got its unsubscribe function.
  `Overlap` says which kinds of call on one key the callers leave in flight together; it is the
  model's only assumption about them.
* `EmitContract` - what `emit` promises. `EmitResults` - how the result is gathered: `Deliver` is
  the wrapped callback up to the user's (380-429), `Complete` and `Fail` its two ends, `Report` is
  `emitResult`, `Poll` one turn of `keepAlive` that resolves (a turn that does not changes nothing).
  A local emit and its results travel inside one turn of the event loop (`LoopIsFree`); each emit of
  `Networked` may instead go over a layer, and its copies and results are delivered later.
* `EventLayer` - emitters of several processes, each on the layer of its process; the layers meet in
  Redis.

  | code | action |
  |---|---|
  | `addChannelListeners` (896-904), `RedisEmitter.addEventListener` | `Join`, `Subscribe` |
  | `unsubscribeFromChannel` (614-621), `RedisEmitter.removeEventListener` | `Leave`, `Detach` with `DropsSubscription` |
  | `EventsServer.close` (`packages/events/src/server.ts:69-76`) | `Close`: the listeners of the whole layer |
  | `emitToChannel` (781-796), `RedisEmitter.emit` | `Emit`, `Published` |
  | the layer's listener (860-886) | `ReceiveEvent` |
  | the end of the handler, `emitResult` (836-849) | `Complete`, `Answer` |
  | `resultsListener` (209-262) | `ReceiveAnswer` |

  `silenced` is history: the emitters that were on a layer when a server closed it.

### Databases

* `MigrationHistory` - what `migrate` promises about one database. `Migrate` - the command:
  `Start` is `getLastMigration` with the filter of `_run`, `Operate` and `OperationFails` one
  operation, `Commit`, `CommitFails` and `LateCommit` the end of the transaction, `SaveMigration`
  one turn of the loop of `saveMigration`. `SafeTransactions` chooses between an adapter that
  commits before it reports and the two of the repository, which report from inside the ORM's
  callback and never rethrow there. `NewestFirst` is whether rows come ordered by `-id`: the
  Sequelize adapter obeys the model's `ordering`, the Drizzle adapter does not. `repeated` and
  `atRisk` are history: the files that were run again, and those that a failure or crash left in
  effect without a row, or behind a row that could not be read.
* `ModelState` - operators: the order of the files (`#getMigrations`, `#reorderMigrations` with its
  index arithmetic, `PlaceFile`), and the replay, where each operation's `stateForwards` edits a
  class or an instance (`CreateModelForwards`, `RenameModelForwards`, ...). `ModelDiff` - the diff of
  models and fields, the rename questions with every answer, `#reorderOperations` and the split in
  files. `MakeMigrations` - the life of a project around them: models and fields are added, edited,
  renamed and removed, the command runs, writes its files one after the other, and may be stopped
  between two of them.
* `EngineInit` - `initializeDatabase` in its pieces between awaits (`Begin`, `GetModels`, `Connect`,
  `Register`: databases.ts 170-254), called by `init` (61-112) and by `lazyInitializeEngine`, which
  a query triggers when its manager has no engine (`StartLazily`, `Poll`: models/manager.ts
  107-191).
* `QuerySets` - one query set with joins. `Call` sorts the joins into those queried before and after
  their base (queryset.ts 881-979), `Continue` adds the `in`s of those that came back (981-1004),
  `Query` is the statement of a node (588-690) with what the two adapters answer, `Take` and
  `TakeFor` put rows into each other (702-839, 1008-1065), `Return` ends the node (1068-1085).
  `WritesAreAsked` is about queries whose wheres are kept: `HaveKeysOfTheirOwn` and `KeepsItsWhere`
  name the two ways in which a query set loses what should restrict it. `JoinsRelate` is about reads
  that `Fits` says can be put together, with one join after the root at most. Both go by what
  `__hasSearch` holds when the query starts (`Searchers`), not by the wheres that were given.

### Core, server and schemas

* `AppLifecycle` - extends `EngineInit` with the domains (`initializeDomains`,
  core/domain/utils.ts 127-165), the server, and what a SIGINT starts (core/app/index.ts 75-99).
* `RouterTree` - how routes are declared (server/router/routers.ts).

  | code | action |
  |---|---|
  | `nested`, `appendChildToParentRouter` (177-273) | `Nest`: every router `Above` takes what the child has, by `OwnEntries` and `NestedEntries` |
  | `middlewares` (275-292) | `AddMiddlewares`: last on the router, first in its entries (`Prepend`) |
  | `get`, `post` and the like (584-656, ...) | `AddHandler`: a new object of handlers, the old one loses its `all`; the middlewares of the options |
  | `all` (1083-1118) | `AddHandlerOfAll` |

  An entry refers to the object of handlers a router had when it was nested, and the code both
  replaces that object and deletes keys of the old one: `handlers[r]` lists the objects a router has
  had, and entries name one of them. `BottomUp` is a discipline of the project that declares the
  routes: a router is nested when it is finished. It may still get children if it adds neither path
  nor middlewares and is nested once, and may get its middlewares after its children if it gets them
  in one call.
* `Server` - composes `RouterTree` and `RequestLifecycle`. `Serve` nests the routers of the domains
  in a root router and puts the middlewares of the settings before those of each route
  (server/app/utils.ts 76-111, 796-906), `Receive` is the lookup of the Express adapter
  (`libs/express-adapter/src/router.ts` 17-41) and begins the request, `Request` is a step of it. The
  tree is forgotten once a request has come, since nothing looks at it any more; what it wanted
  for the request stays in the history variable `due`.
* `RequestLifecycle` - one request through `N` middlewares, its handler, `handler500` and
  `handler404` and back (server/app/utils.ts 113-170, 427-601, 951-1015), with everything the user's
  functions may return or throw. A middleware may have a request function, a response function,
  both or neither.
* `SchemaTranslation` - the first translation of a schema to its adapter and what it leaves in the
  schema. A translation is three pieces per schema: `StartMaking` up to the first await (several
  schemas at once, since an object calls the translation of its keys before it waits), `Compose`
  after the keys of an object or the branches of a union, `Translated` when the adapter has answered.
  `Spread` is the loop that combines the translations of keys, with the indexes it computes.
* `SchemaParse` - `__parse` of each schema of a tree, for calls that overlap:

  | code | action |
  |---|---|
  | `parse`, `__parse` up to its first await (schemas/schema/schema.ts 314-357) | `Parse`, and `Enter` for the keys and branches |
  | the wait for the fields of a model schema (schemas/model.ts 417-530) | `IsBuilt`, `Resume` |
  | the fallbacks of a leaf, then the adapter (363-410) | `JudgeLeaf` |
  | `objectValidation`, the adapter on what it leaves (validators/object.ts) | `OpenObject`, `Deliver` for each key, `CloseObject` |
  | `unionValidation` (validators/union.ts) | `OpenUnion`, `BranchFits`, `BranchFails`, `JudgeUnion` |
  | the end of `__parse` (412-443) | `Judged`, `Answer` |

### Checking and proving

`MCEventRegistry`, `MCEmitResults`, `MCEventLayer`, `MCAppLifecycle`, `MCMakeMigrations`,
`MCQuerySets`, `MCServer` and `MCSchemaParse` give the constants small values.
`MCMigrate` lets TLC take commands that run together for one another (`Symmetry`).
`EventRegistryProofs` (with `EventKeys` and the refinement), `EmitResultsProofs`,
`EventLayerProofs`, `MigrateProofs`, `AppLifecycleProofs`, `QuerySetsProofs`, `ServerProofs` (with
`RouterTree` and `RequestLifecycle`) and `SchemaProofs` hold the proofs.

## Runs

| run | what it asks | bounds |
|---|---|---|
| `registry_safe_overlaps` | the invariant of the proofs, exact emits, nothing left behind, no throw, the refinement, with wildcards | 4 handlers, 4 groups, a nested and a flat key; adds of a key overlap, and so do calls of `unsubscribeAll` |
| `registry_adds_together` | violation of `ListenersAreCalled`: two first adds of a key, no wildcards | 3 handlers, 3 groups, 1 key |
| `results` | called once, never missed, no entry left, whole answers, the contract with its liveness | 2 emits, of which one may travel over a network, 2 handlers, 2 copies, one of them on the network |
| `layer` | who stays is called; events keep to their channels; whom a close took off its layer is not called or answered again; answers come back | 3 emitters in 2 processes, 2 channels, 1 emit, 1 departure |
| `migrate_together` | whole files as long as no statement fails of itself and nothing crashes, with the shipped transactions | 2 commands, which are symmetric, 3 files of 2 operations |
| `migrate_alone` | the invariant of the proofs, the refinement, only files at risk run twice, everything is recorded, every file runs | 1 command repeated, 4 files of 2 operations, 2 faults |
| `migrate_shipped_adapters` | violation of `AllOrNothing`: a failed file half applied | 1 command, 2 files, 1 fault |
| `makemigrations` | unedited models are recorded, tables made once, related models first, names settle | 3 models in 2 domains, 2 fields, 3 edits, 3 runs, 1 stop |
| `application` | queries get an adapter they can use, one adapter under `init`, graceful exit, `init` serves queries, signals end the process | 2 managers, 2 engines, 1 query, 2 signals, 2 domains |
| `queries` | objects hold related rows, new rows refer to each other, writes are what was asked | 2 joins, side by side or nested, 2 rows per table, up to 2 rows of data, wheres on keys and other fields |
| `requests` | routers know the routes below them, a handler is found and runs behind its middlewares, errors are handled once, the middlewares passed on the way in respond | 3 routers, 2 of them served, 2 handlers, 2 middlewares in the routers and 2 in the settings, of any shape, 1 request |
| `schemas` | accepted exactly if valid, no fallback missed, `toInternal` in the answer | 2 calls with any data, 4 schemas |

Why these are enough.

* Registry: a handler is one `addEventListener` call and is used once, so a group can be emptied and
  its key be given a new group (two handlers), while others join; groups only have to be as many as
  handlers. Keys interact only through shared patterns: a nested and a flat key share `**` and
  nothing else, and have all the kinds of pattern. The proofs remove these bounds, and cover
  all the safe overlaps and registries without wildcards. With `Overlap <- AllSafe` the invariant,
  exact emits and the refinement hold in TLC as well; `NothingLeftBehind` and
  `UnsubscribeNeverThrows` do not, see below. With `Wildcards = FALSE`, `ListenKeys <- TwoKeys` and
  `Overlap <- Awaited` all of them hold.
* Results: two emits let a handler be busy with another event, two copies let one arrive late.
* Layer: an event can meet its sender's process, the other process, and an emitter that joins or
  leaves while it travels. A third process or a second event adds nothing two do not have, since
  messages do not interact; the proofs are for any number.
* Migrate: the file that creates the table comes first or second, so that a save has to wait for
  it; two operations make "half" possible; one fault is enough for a half-done file and two for a
  fault while recovering. `MaxFaults` bounds crashes and failures, `NumFiles` deployments.
* Makemigrations: a model that refers to another and one in another domain; three edits make a
  rename, an addition and a removal meet; three runs let a run repair what a stopped one left.
* Application: one engine that is the default and one that is not, a query before, during or after
  the initialization, and a second signal during the cleanup.
* Queries: joins queried before their base meet each other in the base's `where`; a nested join is
  base and join at once; two rows tell a lost row from a doubled one; one where on a key meets every
  `in` of a join on that key. That nothing is written but what was asked, and that objects hold the
  rows related to them, is proved for any tree of joins and any database.
* Requests: with three routers a child comes to one that is nested itself, below or above its
  middlewares; one router adds no part to the path, so that two routes can have one path. Routes do
  not otherwise meet, and four routers show nothing more. With four middlewares there is one
  inside, one outside and one between any two; the proofs are for any number of all of them. That
  the handler runs after every middleware that asks, and that the way out goes outwards, is proved
  (`HandlerComesLast`, `OutwardsOnly`) and in no run: `HandlerIsBehindItsRouters` says it of the
  middlewares of the tree.
* Schemas: a limit and a parser the adapter lacks, an optional key, an object in the object, a union
  and a model schema; two calls, since each of the others of a crowd only repeats what one does. The
  data of a call is any combination of a number, one above the limit, a string and nothing.

All runs but `queries` and `schemas`, whose actions end in states that stutter on purpose, say
`CHECK_DEADLOCK FALSE`: handlers, emits, files, edits and requests are used once, so every instance
stops when they are used up.

The type invariants of `AppLifecycle`, `MakeMigrations` and `QuerySets` are stated in the modules and
hold in their runs' instances; the cfgs leave them out, as the deeper properties of these runs
evaluate the same state.

### Fairness

* `EmitResults`: timers fire and the event loop turns (`setTimeout(..., 0)` at 761), and messages
  sent are delivered. No fairness is assumed of the user's callbacks: they may hang. `EmitContract`
  promises that an emit resolves; the results timeout alone must secure it.
* `EventLayer`: Redis delivers what was published to whoever is subscribed, and handlers return.
* `Migrate`: an operator runs the command again until it has nothing to do, and statements settle.
  Faults are not fair and are bounded, so that the command gets a chance between them.
* `AppLifecycle`: the promises of adapters, domains and the server settle, as the event loop
  settles them. Failures and signals are not fair.
* `MakeMigrations`: a run that was started goes on, and developers run the command again until it
  finds nothing to do. Stops and edits are not fair.

## What the code does that it says it does not

Two runs expect a violation:

* `registry_adds_together`: two first listeners of one key added without awaiting (as `loadEvents`
  does when two domains handle one event) get two groups; without wildcards the second is never
  filed and its listener never called (events/index.ts 542, 271). With wildcards both are filed, and
  nothing is lost. With `Overlap <- AddAndUnsubscribe` the same run shows that a listener added
  while the last one of its group is being unsubscribed is dropped with the group (666-677), and
  with `{{"add", "unsubscribeAll"}}` the same of `unsubscribeAll` (594).
* `migrate_shipped_adapters`: the shipped adapters' transactions commit what ran before an operation
  failed (`libs/sequelize-engine/src/engine.ts:91-97`, `libs/drizzle-engine/src/engine.ts:152-158`).
  They also report success before the commit, which is why a row may be written for a file that is
  not in effect.

The rest was met while modelling. Where the model can show it, the way to see it is in brackets.

Events.

* Over a network a second copy of an event that arrives after the handler finished is handled again
  (399), which is why `CalledOnce` is about emits that stay local.
* Overlapping removals of the two last listeners of a group each see a group of two, and the empty
  group stays (666); an unsubscribe that an `unsubscribeAll` overtakes throws. [`Overlap <- AllSafe`]
* An emit that ends by the ping timeout keeps its entry in `#pendingResults` (758);
  `NoEntryAfterResults` names this exception.
* Listening under a key that is a pattern files two groups under one key (315).
* `close` of an events server takes every listener of the layer with it, those of other emitters
  too (`packages/events/src/server.ts:73`); with wildcards the layer forgets no listener at all (601).
* `emitToChannel` of an emitter made without channels throws (787); two emitters of Redis made at
  once both connect (`libs/redis-emitter/src/index.ts:37`).

Databases.

* A failed `init` leaves `isInitializing` set, so later calls return with nothing initialized
  (databases.ts:85); `__isLazyInitializing` is never reset (models/manager.ts:112). A query for an
  engine nobody initializes polls for ever (139). Overlapping lazy initializations make adapters no
  one closes (databases.ts:177); the default engine is whichever was initialized first (174).
  `getInstance` throws on the first lazy query where `docs/consumers/reference/managers.md:109`
  has it initialize (168).
* `ChangeModel` and `CreateField` edit the instance of a replayed model while later readers build
  from its class, so the same change is written by every run (migrations/actions/models.ts:166).
  [`NothingIsLeft` as an invariant of `makemigrations`]
* `RenameModel` writes the old name twice (migrations/actions/models.ts:245), so a rename loses its
  model until the next run; renaming a model and removing one of its fields in one step throws
  (makemigrations/index.ts 498-502). A number that is not among the options of a rename question
  ends the command with a TypeError (asker.ts:34). A stop between a file and the index leaves a file
  no one imports (makemigrations/index.ts 628-648).
* `migrations/actions/operation.ts` 19-25 has the state made "from the first migration to the last",
  and calls the order "crucial". The files are listed by domain and then put after their dependencies
  by `#reorderMigrations` (migrations/index.ts 38-54), which leaves a file in place whose dependency
  comes later or is at index 0 (44), and goes by indexes from before its own insertions. Four files,
  each depending on the one before, of the domains 1, 2, 1, 2 are found as 1, 3, 2, 4 and replayed as
  1, 3, 4, 2. [`FirstToLast` as an invariant of `makemigrations`] `TablesAreMadeOnce` is about files
  that were not mixed up so (`NeverMixedUp`).
* Query sets: two joins queried before one base that go by one key overwrite each other's `in`, so
  rows nobody asked for are updated or removed. [`WritesAreAsked` without `HaveKeysOfTheirOwn`] Of a
  plain where and an `in` on the same key one is lost: a base keeps its where and ignores the join
  (992-997), a join that is read after its parent gets the parent's keys in place of its where
  (1042-1046). Either way more is written than was asked. [`WritesAreAsked` without one of the
  conjuncts of `KeepsItsWhere`] Two
  joins queried after one base query it twice, and create its rows twice. A `where` before a `join` is
  forgotten when the query decides between update and creation: `docs/consumers/reference/querysets.md` 213-215 and
  248-257 promise an update where a row is created. [`Searching # {} => database \subseteq was` as
  an invariant of `queries`] The same way a join of a join loses its search to one that is joined
  later without any: the comment of `where` promises an inner join (queryset.ts 1455-1465), and
  rows come back that have no related one. [three joins, `JoinsRelate` with `Searching` in place of
  `Searchers`] A `select` that leaves out a key which is read again loses the
  relation. No query is run in a transaction, although models/manager.ts 320-324 promises it.

Core and server.

* A router that is nested in one that is nested already is registered at all the routers above,
  but at the outer ones without the path and the middlewares between
  (server/router/routers.ts 234-272): in the example of the comment (217-233), `/handlers` becomes a
  route of `rootRouter`, where `/nested/handlers` is meant. [`BottomUp = FALSE`, `RoutesAreTheTree`]
* The same way one sees that a handler added after its router was nested is not served, or only
  its `all` is lost; `pathNested(parent)(path)` nests the router before it can have handlers
  (server/router/functions.ts 129-136). Middlewares added later do not reach the routers above. A
  second call of `middlewares` after children were nested puts its middlewares before the first's
  in the routes there are (285-290).
* Middlewares in the options of a method become the router's, for every method and child (629);
  those in the options of `all` are dropped (1083). Of two routes with one path the later replaces
  the earlier, other methods included.
* `getAllHandlers` passes `handler500` in the place of the server's instance (server/app/utils.ts
  936), so an adapter that has `parseHandler` gets no error handler.
* A second SIGINT skips the closing of the domains (core/app/index.ts:75),
  which is why `ExitIsGraceful` is about one signal.
* When a middleware answers a request itself, `server/src/middleware/index.ts` 39-42 has it that the
  response functions of those further in "will never be executed". The index that the way out starts
  from counts from 1 (server/app/utils.ts 449, 118), so the next one is; and the loop of the way in
  goes on to ask those further in, whose responses are then called too. [`AnswersTurnBack` as an
  invariant of `requests`] `ThePassedRespond` is therefore about the middlewares up to the outermost
  one that answered.
* A handler that returns nothing leaves the request without a reply (479, 526); a redirect without a
  location rejects after the last catch (546).

Schemas.

* The parsers Palmares runs are known once a schema is translated, but run before
  (schemas/schema/schema.ts 344, 357): a root schema with such a parser rejects valid data the first
  time. [a tree of one leaf with `parser = "palmares"` violates `AcceptedIffValid`; below an object
  the keys are parsed after the translation]
* A leaf with a parser of the adapter's and a validation the adapter lacks is validated by Palmares
  on the data as given (schema.ts 344, 367), before the adapter parses it (394): it refuses what the
  parser would have turned into the right type. [an object with such a key violates
  `AcceptedIffValid`]
* A model schema below an object may be reached before its fields are built; the entries it caches
  then stay empty (schemas/model.ts 417-530, object.ts 54-60), and it accepts anything. [a nested
  object with `lazy = TRUE` violates `AcceptedIffValid`]
* A union looks whether it needs a fallback before its branches are translated
  (schemas/schema/union.ts 78, 95): with an adapter that has unions, validations the adapter lacks
  are never run on the branches, although schemas/utils.ts 63-69 has it that "even if the adapter
  doesn't support that validation our schema will still be able to validate that".
  [`AdapterHasUnion = TRUE`]
* Errors of fallbacks are deduplicated over the whole call by their text (schemas/validators/utils.ts
  171): the second branch of a union that fails with the error of the first counts as valid. [a
  union of two `Limited` leaves]
* With two keys that have a `toInternal`, one may be missing in the answer: one runs at once if
  nobody left one for the end, and those left for the end change the object the caller gave, not the
  copy of the adapter (schema.ts 322-328, 413-441). [two keys with `toInternal`, without the first
  line of `InternalsAreInTheAnswer`] A failing branch of a union removes the callbacks of keys
  parsed beside it (schemas/validators/union.ts 37-43).
* The index of a combination of translations is a product of two counters (schemas/schema/object.ts
  102): with several unions, or a key after a union, combinations are missing or shared.
* A model schema builds its fields again on every call and throws them away, although its doc calls
  them cached (schemas/model.ts 417-530); if building fails, every later call waits for ever.

## Proofs

Those about the registry are for any sets of keys, handlers and groups, from the named assumptions
of `EventRegistry` (listen keys are plain sequences of segments; the null values are none of the
others). Those about `migrate` are for any number of commands, files, operations and faults, those
about emits and layers for any emits, handlers, emitters, layers and channels, those about the
application for any domains, engines, managers, queries and signals, those about query sets for any
tree of joins, any wheres, data and databases, those about routers and the
server for any finite set of routers with any paths, and any number of handlers and middlewares,
those about schemas for any calls and any finite trees of schemas, of which every one is reached from
the root, from the assumptions that give the constants their types (the emitters and channels of
`EventLayer` and the routers of `RouterTree` are finite; a join comes after the query set it is joined
to, and only a `set` is given data, queryset.ts 1849-1974).

* `TypeCorrect` - types of the registry, under any overlap. Its invariant adds `CallsHaveGroups`: a
  call that has begun knows its group and its key.
* `FiledTogether` - `FiledUnderAllOrNone`, under any overlap: even the calls that lose listeners
  never leave a group filed under some of its keys, which is what lets `UnsubscribeFinish` treat a
  throw as all or nothing. Its invariant `FilingInv` ties the keys to the calls rather than to
  `#groups`, whose entries may be gone: a key names only groups some call chose, only where that
  call's key is filed (`FiledWhereChosen`), and everywhere or nowhere (`FiledWhole`). That an add
  chooses well from a key which names several groups rests on listen keys being plain.
* `ExpansionIsDenotation` - for a plain key of any length, `ExpandKey` gives exactly the patterns
  that denote it (among patterns that end in a mark and the plain keys). This connects the loop of
  the code with what users mean by a pattern.
* `RegistryCorrect` - under `SafeOverlap`, `RegistryInv`. `EmitCallsExactlyTheWanted` is not
  inductive: it needs that keys and groups agree (`FiledGroupsLive`, `LiveGroupsFiled`,
  `GroupsKeepTheirKeys`), that a group serves one key (`GroupsServeOneKey`), that the emitter holds
  the wanted listeners of each group (`EmitterHoldsTheWanted`, `WantedAreListed`), and, for the calls
  in flight, that what they read before their await still holds after it: `ChosenGroupsFit` and
  `PlainAddsAreAlone` for adds, `LastIsLast` for removals, `AddsExcludeRemovals` for both. The last
  one is where `SafeOverlap` enters, and `registry_adds_together` shows that it is needed. One lemma
  per action, one step per part.
* `EmitIsExact` - `EmitCallsExactlyTheWanted` from `RegistryInv` and `ExpansionIsDenotation`.
* `UnsubscribeIsSafe`, `NothingIsLeftBehind` - under `TidyOverlap`, which is `SafeOverlap` and no
  `unsubscribe` beside another removal on its key: `UnsubscribeNeverThrows` and `NothingLeftBehind`,
  from `RegistryInv` and three more parts: what an unsubscribe read of its group is still so after
  its await, whether it takes the last listener included (`RemovalsAreAlone`); what a group lists is
  wanted or on its way out (`ListedAreWanted`); a group has a listener (`NoEmptyGroups`). Calls of
  `unsubscribeAll` may overlap each other.
* `RegistryImplementsSubscriptions` - the refinement: `AddFinish`, `UnsubscribeBegin`, the two forms
  of `unsubscribeAll` and `Emit` are the abstract steps; choosing a group and everything after an
  await is invisible.
* `EmitResultsProofs` - `TypesAreKept`, `CopiesCallOnce`, `CopiesNeverMiss`, `EntriesAreRemoved`,
  `LocalAnswersAreWhole` and `EmitImplementsContract`, from one invariant: only calls that were
  started are remembered (`Called`), a completion that is known or reported has happened (`Honest`),
  inside one process the copies of an event arrive while the call they cause is remembered and the
  sender knows how it stands (`Together`, which needs that one event at a time travels there,
  `OneAtATime`), and what an entry may hold at each stage of its emit (`Entry`).
* `EventLayerProofs` - one invariant: types, that messages fit what was sent (`MessagesFit`,
  `HandledAreSent`), that they travel on channels both ends share (`EventsStayOnTheirChannels`),
  that a listener of the layer is subscribed (`AttachedAreSubscribed`), and that whoever has stayed
  is still to be reached or has been (`StayersHear`). From it `StayersCalled`, `OnTheirChannels`
  and `LayerTypeCorrect`. `QuietAfterClose` needs more, that an emitter whose layer was closed stays
  off all its channels whatever the others do (`SilencedAreOff`): no emitter joins twice, and only
  joining attaches.
* `MigrateTypeCorrect` - types, with safe transactions or without.
* `HistoryCorrect` - under `SafeTransactions`, `HistoryInv`. Neither `AllOrNothing` nor the order of
  the files is inductive: a commit extends the files in effect in order only if the command was
  right, when it started, about the files before its own, and still is after others have committed,
  failed or crashed (`RunsFollowEffect`); it started from a row, so rows must be of files in effect
  (`RecordedInEffect`); and rows are written from saves kept across files (`SavesInEffect`). That
  nothing is left to be closed later (`NothingIsClosing`) is where `SafeTransactions` enters;
  `migrate_shipped_adapters` shows that it is needed. No step takes a file out of effect, which is
  why what another command remembers stays true without a lock.
* `MigrateKeepsHistory` - the refinement of `MigrationHistory` from it: `Commit` and `SaveMigration`
  are the abstract steps or repeat them, the rest is invisible. It holds for commands that run
  together; TLC checks it for one.
* `RepeatsWereAtRisk`, `RunsAreRecorded` - `OnlyFilesAtRiskRunTwice` and `EveryRunIsRecorded` of one
  command at a time (`OneCommand`) with safe transactions and rows that come newest first
  (`NewestFirst`), with any failures and crashes. The invariant `RiskInv` follows the files that are
  in effect and not at risk: a run is past them all (`RunsGoOn`); each has a row or a save that waits,
  in this run or in a later turn of its loop (`SavesAreKept`); saves wait in the order of the files,
  after all rows but those of files at risk (`SavesGoOn`); so the newest row is none before theirs,
  which is where the next run starts (`RowsGoOn`).
* `FilesAreWholeUnlessFaulty` - `WholeUnlessFaulty` for any adapter and any overlap: without faults
  an operation fails only where it finds its effects, so what a transaction leaves to be committed
  late is the whole file or a part of one that is in effect (`PartsAreRepeated`).
* `AppLifecycleProofs` - `LifeTypeCorrect`, `QueriesGetAdapters`, `AdaptersAreShared`,
  `ExitsGracefully`, `DomainsAreClosedOnce` and `DefaultsStay`, from `LifeInv`. Its part about the
  engines: what is registered, managed or at work is a connected adapter of that engine
  (`AdaptersFit`), so is what a query got (`AnswersFit`), and while no query initialized by itself,
  `init` finds all models, and what it makes is what they are given (`InitIsAlone`, without which
  `OneAdapterUnderInit` is not inductive). Its part about the process: `init` works only while the
  process waits for it (`InitIsAwaited`), nothing is closed before a signal (`NothingClosesEarly`),
  the close of the databases reaches all that `init` opened (`EnginesAreClosed`), and a signal that
  comes alone closes the server, and exits, only after the domains (`FirstSignalWaits`).
* `QuerySetsProofs` - `OnlyAskedRowsAreWritten`: `WritesAreAsked`, whatever fails and in whatever
  order joins return. It looks at the end of a chain: the rows a statement touches fit the `where` at
  that moment, which must by then hold the wheres of the query and what every join that searches has
  found. `WritesInv` (`QueriesKeepTheirOrder`) says this in two parts. `Order` holds of every query:
  what searched when it was built goes on searching (`SearchersSearch`), so such joins are read
  before their base (`JoinsWaitForParents`), which goes on from a join that returned
  (`ContinuedAreDone`); a base asks once for each join, and calls a join that waits for it once
  (`ThreadsAreOnce`); a query set that created rows has no clause and can get none
  (`CreatorsHaveNoWhere`), and every clause that came later is an `in` (`OthersAreIns`).
  `Restrictions` holds while no where is lost (`WheresAreKept`, the hypothesis of `WritesAreAsked`):
  the clauses of the query stay (`ClausesStay`), a join that searches restricts its parent to what it
  found (`SearchersRestrict`), what it found was asked for (`FoundWereAsked`), and so was what is
  written (`WrittenWereAsked`); an `in` of the parent on the key stops the join that would replace it
  (`InsStop`). `WheresWereKept` has it that the hypothesis never comes true again once it was false,
  without which the implication is not inductive. `HasSearch` and `Asked` are recursive
  functions along the tree: that each has a value that solves its equation is proved once, for trees
  of any depth (`TreeRecursion`).

  `ObjectsHoldTheirRelated`: `JoinsRelate`, for any tree of joins. It says which rows a read returns
  and, of each object, that it holds exactly the related rows that are whole, with a related one in
  every join below (`Asked(JoinSet)`); an object may lack one only at the root, of the join read after it.
  `ReadsInv` (`ReadsKeepTheirJoins`) adds `JoinInv` to `WritesInv`, as long as the read can still be
  put together (`CanStillBeJoined`, which like `WheresAreKept` is only ever lost). A query set that
  asks finds what is `Offered`: the rows it accepts with a whole row in every join read before it,
  all of them, or, if it was read after its parent, those related to the parent's (`OfferedAreFound`).
  That is so because a clause is the query's own or holds just the keys that a join, or the parent,
  found (`FiltersAreFound`, `WheresAreFound`). The objects then wait for each other: those of a join
  read before, in the relations of its parent, and the root's, in its mappings (`ObjectsWait`), which
  reach no query set but the join read after the root and the joins below it (`RootIsHanded`); whoever
  is read second makes the links, all and only those between related objects (`LinksRelate`). The joins
  below are handed the root's mappings as well, for which they have no use, and so they may link the
  root's objects to rows of their own: `LinksRelate` is about the links from objects of the query set
  that has the join. That what is done is done below (`DoneIsWhole`) makes it all true when the root is.
* `ServerProofs`, a request - types, `ErrorsReachOneHandler`, `PassedMiddlewaresRespond`,
  `HandlerIsInnermost` and `WayOutIsOutwards`, from an invariant in three parts: on the way in, who
  was asked, and that a response is set only by a middleware that answered (`WayIn`); when an error
  counts as handled (`Errors`); and who has responded by the time the way out is where it is
  (`WayOut`, which keeps `AllPassedRespond`: more than the comments of the code want, as
  `AnswersTurnBack` shows). `ServerHandlesErrorsOnce` and `ServerSendsWhatPassed` say the same of a
  server, whose requests come over routes that were declared (`ServerLife`).
* `ServerProofs`, the routers - `RoutersKeepTheTree`: under `BottomUp`, `RoutesAreTheTree`, which is
  not inductive: it says nothing of an entry whose path two routes share, which is copied all the
  same when its router is nested. `PathsAreRoutes` says that a router has an entry for the path of
  each route below it, and that every entry is that of some route with its path. When a router is
  nested, the ways down become the old ones and, for each way down to the new parent, one for each
  way down from the child (`NestedWays`); that the routers between the top and the new parent add
  neither a part to the path nor a middleware is where `AddsNothing` enters (`RoutesThrough`). The
  other parts: no router is below itself (`NoCycles`, which the guard `IsBelow` keeps, and which
  makes ways as short as `Branches` has them); the parent of a router is one that uses it, and
  whoever is used has one (`ParentsUse`); middlewares are few and named by their router, objects
  that are replaced leave a handler. Paths and ways are sequences of
  any length: facts about `Above`, `Branches` and `FlattenSeq` are proved by induction in the form
  that a set of numbers has a least member, since the induction theorems cannot be cited.
* `ServerProofs`, the server - `MiddlewaresGuardHandlers`: under `BottomUp`,
  `HandlerIsBehindItsRouters`. A route of the domains whose path no other has is served, behind the
  middlewares of the settings and of its routers (`ServedAreRoutes`, from `PathsAreRoutes` and the
  recursion of `RootRouterCompletePaths`); so the middlewares the tree wants of a request are all
  somewhere in its chain, which is no longer than `N` (`ServerTree`); and the handler comes last
  (`WayIn`).
  `ServerKeepsTheTree` carries `RoutesAreTheTree` through the life of the server. `BottomUp` is
  needed: "Core and server" above has what fails without it.
* `SchemaProofs` - `TranslationIsKept` and `FallbacksComplete`: however many calls share a first
  translation and start it again, and whenever the fields of a model schema come, no call validates
  by a schema whose fallbacks are incomplete (`FallbacksAreComplete`). In its invariant
  `FallbacksInv` a call that translates a schema has reached its entries
  (`EntriesComeAlong`) and finds them as they will stay (`EntriesAreKnown`); what it made is
  transformed (`MadeAreTransformed`); a union gets its fallback when it is reached and an object
  before it goes to the adapter (`UnionsHaveTheirs`, `ObjectsHaveTheirs`); so what is transformed is
  whole, and so is all below it (`TransformedAreWhole`), and a call validates only by what is
  transformed (`ValidatingAreTransformed`). A translation that starts late finds the fallbacks of
  another and adds only the same, which is why no lock is needed.
* `SchemaProofs`, what is accepted - `PlainSchemasAcceptWhatIsValid` and
  `PlainInternalsAreInTheAnswer`: a tree of objects and leaves (`IsPlain`), of any depth and with any
  optional keys, limits and parsers, accepts exactly the data that is valid in every place
  (`AcceptedIffValid`), and answers what `toInternal` made of it (`InternalsAreInTheAnswer`), for any
  number of calls that share translations. The invariant `AcceptInv` has two halves. The translation
  (`PlainInv`) gives every object one combination, of the leaves inside it (`SchemasHoldLeaves`; the
  loops over keys and options come to one), and as keys to parse just those that need a fallback
  (`KeysNeedFallbacks`). A call (`CallInv`) parses keys inside a parent that waits for them, and
  all that need it are over before the parent is judged (`StagesNest`); data is as given, but for
  what a key that is over was parsed to (`ValuesAreParsed`), so the adapter, which judges a whole
  object again after its keys, finds the same; the errors of what is judged are none if and only if
  all the leaves inside fit (`ErrorsTell`). That a leaf is judged by Palmares and then once more, as
  part of each object around it, by the adapter is what makes this need an invariant. What `IsPlain`
  leaves out is what fails: each of its conditions but that on unions stands for a finding under
  "Schemas" above, and so do unions of which there are two.

  Facts about trees (an object's leaves are those of its children; all inside what is translated is
  translated; all inside what is over is over) are proved by naming the set of schemas they hold for
  and showing that it holds the children of its members, which is the induction the prover can use;
  those about the loops over the keys, by a least turn at which they would fail (`LeastNumber`).

Only model-checked. Liveness under fairness is beyond the prover. So is `makemigrations`, whose
diff and replay (`ModelDiff`, `ModelState`) declare RECURSIVE operators, and what folds over data:
of `queries`, that created rows are as many as they should be and refer to each other
(`CreatesAreWhole`, whose counts multiply along the tree), and of `schemas` what a tree with a union
accepts (`AcceptedIffValid`, `InternalsAreInTheAnswer`), for which the combinations of translations
have to be counted.

## Not modelled

The map covers a small part of the lines of the repository, for reasons of what they are: the
greater part are TypeScript types and the typed builders of models, fields, schemas, routers and
query sets (one method that stores one option, and its overloads), doc comments, build scripts, and
adapters that translate one call into another of a library.

* Models and fields: builders, and the translation of one value or field at a time. What migrations,
  engines and queries use of them is in `ModelState`, `EngineInit` and `QuerySets`.
* The models, queries and migrations of the Sequelize and Drizzle adapters: calls of the ORM. What a
  statement answers is in `QuerySets`, what a transaction does in `Migrate`.
* Registry: listening under a key that is a pattern, and listeners that add or remove listeners
  while an emit dispatches to them. Layers: emitters without channels, and the instance Redis caches.
* Discovery: migrations found in a directory instead of listed by the domain (migrations/index.ts
  78-122), whose imports may end in any order; `FoundFiles` has those a domain lists.
* `migrate`: `batchAll`, which no adapter of the repository has; the loop of `buildAndRun` over
  databases, which share nothing there; the models an operation receives.
* `makemigrations`: several databases, empty migrations, answers that are not on the list (which
  end the command before it writes anything), the text of a file but for a rename.
* Engines: fixed and force-translated models.
* Query sets: ordering, limits, parsers of fields, operators other than equality and `in`, query
  sets used twice. The loops over rows are one step, links record every assignment, and an update
  does not change what was searched.
* Requests: the `routerInterceptor` of a domain (server/app/utils.ts 96, 106-109), parameters
  of paths and queries, bodies and headers, the translation to an adapter, and serverless routing with
  the files it generates.
* Schemas: arrays, dates, `data` and `toRepresentation`, refinements, `default` and `toValidate`,
  null, extraneous keys, several adapters, and the compiled form of a schema.
* Logging, the client, the tests package, and the adapters for Express, Vercel, Zod, Node, Jest and
  the console: sequential or stateless, translations of calls, pure I/O.

## Plan

1. Arrays and `data` in `SchemaParse`; a proof of `AcceptedIffValid` for trees with one union.
2. The diff of `ModelDiff` as recursive functions, so that `TablesAreMadeOnce` can be proved.
3. `EventRegistry` with an emit split at each group, for listeners that change the registry while it
   dispatches, and with keys that are patterns.
4. Joins queried after their base more than once, and query sets that are used again.
