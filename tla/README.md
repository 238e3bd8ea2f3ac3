# TLA+ models of entix

entix is a low-code GraphQL engine. A user draws a model of entities and
associations, publishes it as an *application*, and the server creates the MySQL
tables and a GraphQL API of queries, mutations and subscriptions for them. The
server is one Go process; every HTTP request and every event runs in a goroutine
of its own, and MySQL holds everything that outlives the process.

This directory holds TLA+ modules for the parts of the server where state,
order or concurrency matter, the TLC configurations that check them, and proofs
that TLAPS checks. `PROJECT.json` maps every definition to the lines it models.

    tlc -workers 2 -config MCAppCache.cfg MCAppCache.tla     # one run
    tlapm AppCacheProofs.tla                                 # the proofs of one module

## The system: inventory

| Part | State | Operations | Interacts with |
|---|---|---|---|
| Publishing (`modules/app/publish.go`, `orm/migrate.go`, `model/diff.go`, `db/dialect/mysql/migration.go`) | tables of the database, `meta` and `publishedMeta` of the app row | `Publish`, `CreateDiff`, `Migrage`, `rollback` | MySQL DDL, application cache |
| Application cache (`modules/app/app.go`) | `appLoaderCache` (sync.Map), per `AppLoader`: mutex, `loaded`, `app` | `Get`, `load`, `ReLoad`, `NewApp`, `GetSystemApp` | app rows, every request |
| Saving and deleting objects (`service/save.go`, `service/delete.go`, `orm/save.go`, `orm/delete.go`, `model/data`) | rows, pivot rows, one transaction per request | `Save`, `SaveOne`, `DeleteInstance`, `SaveAssociation` with add, delete, update, sync, clear, cascade | MySQL, events |
| Events and notifications (`model/observer`, `modules/notification`, `handler/subscriptionhandler.go`) | observers, subscribers, channels, subscription contexts | `Emit...`, `distributeChanged`, `pushCounts`, subscribe, stop | resolvers, scripts, websocket |
| Module registry (`modules/register`) | module singletons with the app and context of the last `Init` | `GetSchema`, `RegisterModule` | every request, every event |
| Authentication (`modules/authentication`) | `TokenCache`, passwords | login, logout, me, change password; generic mutations of users | every request |
| Installation (`modules/install`) | `Installed`, system tables and rows | install | publishing, saving |
| Scripts (`modules/app/script`, `resolve/method.go`) | session of the script | `$beginTx`, `$commit`, `$save`, `$notice`, ... | saving, events |
| Queries (`orm/query.go`, `db/dialect/mysql/query.go`, `model/graph/args.go`, `resolve/loaders.go`) | data loaders of a request | query, aggregate, batch associations | MySQL |
| Model graph (`model/graph`, `model/domain`, `model/meta`) | none: built from the meta | `New`, `Validate`, table and column construction | all |
| GraphQL schema (`modules/app/schema`) | none: built from the graph | parser | application cache |
| Snapshots (`modules/snapshot`) | module singleton, rows | `makeVersion` | registry, queries, saving |
| Import and export (`modules/imexport`) | module singleton, rows, files | `importApp`, `exportApp` | registry, saving, publishing |
| Websockets (`handler/subscriptionhandler.go`) | `subscribers`, connections, one context each | start, stop, unsubscribe | events, registry |
| Ids, logs, configuration, storage, scalars | files | | |

Hard behaviour: MySQL commits each DDL statement by itself, so a publish is a
sequence of steps that may stop anywhere; a request reads the application cache
without its mutex; saves run beside each other under REPEATABLE READ, without a
unique key in the pivot tables; events run after the request that caused them,
in goroutines whose panics end the process; sends on unbuffered channels block.
`PROJECT.json` lists each such hazard at its line.

What makes each part correct:

* publishing: after a publish the schema is the published model and no attribute
  loses its values; a failed publish is undone; other applications' tables are
  never touched;
* cache: requests never work on an application older than the last finished
  publish; the cache converges to the published one, unless the reload of the
  publish that saved it panics; every `Get` ends;
* saving: a request takes effect at once or not at all; a sync leaves exactly
  what it names; to-one associations have at most one value;
* notifications: a browser ends up with the right count, and is told of every
  notification; events do not end the server;
* registry: a schema and what its resolvers work with are of the application the
  request names, or of one that a concurrent request or event names;
* authentication: a token is given, and `changePassword` replaces a password,
  only for a password the user had while the request ran; a logged out token
  stays out;
* installation: a server that says it is installed has all that install saves,
  the administrator among it when it was given the name of one;
* scripts: what is saved in a transaction is seen if and only if it commits;
* websockets: a subscription that is served is known, one that has ended is
  forgotten;
* graph, tables and schema: what can be drawn can be built, with unique names
  and closed types; queries, loaders and deletes by query: the answer is what
  the where map says; a version holds every part of an object.

## Modules

### SchemaDiff, Migration, MigrationProofs, MigrationSchemaProofs, MigrationRollbackProofs
`SchemaDiff` is the pure part: `CreateDiff` (tables and columns matched by
uuid), the atoms of the MySQL builder with their undo statements, and what MySQL
does with a statement (external). A column is name, type, unsigned, nullable,
index; *type* stands for type and length. The database remembers in each column
the uuid of the attribute whose values it holds, so that a lost or exchanged
column shows. `Migration` executes the plan: one action per statement, refusal
by the schema or for an outside reason, `rollback` in the order of the code,
crash at any point, save of the row. `MCMigration` has eight models: rename of
table and column, retype, dropped and added columns, a column that takes the
name of another, exchanged names, a dropped table whose name is reused, change
of nullability, index and unsigned.

### AppCache, AppCacheProofs
`pc[p]` is where request `p` is in `Get`, `AppLoader.load` or `Publish`; `cache`
is `appLoaderCache`, `owner` the loaders' mutexes, `row` the app table. `Get`
looks up and stores in two steps; `load` locks, queries the row, merges the
system application, installs, unlocks; `Publish` reads the row, migrates (one
step here, `Migration` opens it), saves the whole row and reloads by force. A
load fails because the row is gone (`LoadFails`, which empties the loader) or
for any other reason, a refused SELECT, a content that does not decode, a model
or schema that cannot be built (`LoadPanics`, which leaves the loader as it
was); `missed` remembers the publishes whose reload ended that way. A restart
empties the memory and loads the system application as `init` does. The
unlocked reads of `loaded` and `app` are taken to be atomic and in program order
(amd64); `Lookup` does the `sync.Map` load and the read of `loaded` in one step.

### AssociationModel, Associations, AssociationSession, AssociationProofs
`AssociationModel` holds what a request says about one relation.
`Associations` is the abstract specification: each request changes objects and
links in one step. `AssociationSession` is the code: begin, read, write, remove,
look up and insert, each statement a step, in transactions of concurrent
sessions. MySQL is modelled as external operators: a consistent read takes the
snapshot at the first SELECT, a transaction sees its own changes, writes lock
rows, a DELETE by an indexed column keeps others from inserting that value.
A rollback can come at any statement: an error, a panic (`ClearTx` is deferred),
a lock wait that ends, the death of the server. `Promise` instantiates
`Associations` with the links that have at least one pivot row.
Abstracted: the payload of objects, nested associations of nested objects,
association classes, several objects in one `Save`, soft deletes (no query looks
at `deletedAt`). An object deleted by id has no associations in the code (the
instance is empty), so the cascade of a composition does not happen there and
its pivot rows stay; the model says the same.

### Notification, NotificationProofs
A task is the goroutine of an event; a client is a subscription with the
goroutine that started it and the websocket that reads its channel. The module
singleton's context is `current`: every `GetSchema` moves it, that of an event
too, and a subscription takes it when it starts. `Range` visits what is
registered all the time and may visit what comes or goes. A panic without
recover ends the server; it starts again with an empty memory, scripts' open
transactions are rolled back, browsers subscribe anew.

### ModelGraph, SchemaParser, QueryBuilder, Snapshot, Engine
One chain of pure modules and the state machine that uses them. A *drawing* is
what the editor saves: classes, relations, orchestrations. A name is a sequence
of words, so that `FirstUpper`, `SnakeString` and the suffixes of derived names
are the functions of the code and a clash of two names shows.
`ModelGraph` is `meta.New`, `domain.New`, `graph.New` and the tables: inherited
attributes, a concrete relation for each pair of heirs, pivot tables, and the
panics on the way. `SchemaParser` gives the types and root fields of a graph, as
sets of definitions; `Reachable` is the walk of `graphql.NewSchema` (external).
`QueryBuilder` is a where map as the text that MySQL reads: atoms with their
alias, AND, OR and parentheses, evaluated with MySQL's precedence and NULL; the
LEFT JOINs, order, limit and count; the batch query of a loader and the
distribution of its rows. Tables are created without a collation
(`db/dialect/mysql/migration.go:15`), so they have the one of the database, taken
to be MySQL's default, which ignores case: comparisons, orders and patterns are
of what `Collated` gives, and only `LIKE BINARY` tells upper and lower case apart.
In a database whose owner chose a collation that heeds case, `_iLike` would heed
it too; that is not modelled. `Snapshot` is the tree of a version.
`Engine` publishes one drawing, lets others change the database, and asks: a
list, one object, associations through the loaders of the request, delete by
query (read, then delete), set by query. A list, and the read of a delete or a
set, is two statements without a transaction, the records and then the total
(`Query`, `QueryCount`), between which others write. Its properties compare the
answer with `Matches`, which says directly what a where map asks of an object, in
the database of the statement that read it.
`MCEngine` has some 110 drawings: every kind and arity of a relation, an abstract
class with two heirs that inherits itself, every attribute type, orchestrations,
all compositions of three classes, and eight drawings that the server refuses.
Three of them get five databases and about thirty where maps.

The engine's request is one of a superuser: the conditions that roles add
(`canReadEntity`, `mergeWhereArgs`) are not modelled. `Drawable` and `Sound` say
for which drawings and where maps the properties are claimed; what they leave
out is listed below under *What the code does*.

### Registry, Installation, Authentication, Scripts, Websocket, Server, ServerProofs, ServerSharedProofs
`Server` is one process and its concurrent requests; the other five are its
parts, each with its own variables, and all share `pc`.
`Registry`: a request walks `modules`, one step for the `Init` of a module, one
for each read of its fields, over the singletons all requests share; then its
resolver runs, and `makeVersion` and `importApp` read their singleton again. What
a mutation or a script saves may cause an event (`Emits`), whose goroutine walks
the modules with the values of its request, long after that has ended, and moves
the same singletons (`EventInit`): `event[r]` is the module it is at. One such
goroutine per request is followed at a time; a second takes the place of the
first, which amounts to one that is delayed for good.
`Installation`: the tables one by one, the row, the administrator if it has a
name (`install.go:125`), `Installed`; `Die` and `Start`; `owed` remembers the
users an install was asked for, until a mutation deletes them. `Authentication`:
`TransContext` reads token and user at once;
`CheckPassword`, the update, `GenerateToken` and the read of the user, after which
the token works, are separate; a token is a user and a second. `SaveUser` is a
generic mutation of the entity User, or what a script saves: it creates, replaces
or deletes a user and asks for no old password; a new login name is a delete of
the old one and a save of the new. `Scripts`: the calls of a `ScriptService` in any order, at most
`MaxCalls` of them; an object is written by two statements. `Websocket`: a reader
and one goroutine per start message, which share a context. `Crash` composes the
death of the process: what is in memory is lost, open transactions are rolled
back. What a publish, a save or a query does in detail is in the other modules.
`MCServer` has fifteen mixes of up to three requests; a mix says who asks what, and
the interleaving, the failures, the events and the crashes are TLC's. Requests do
not delete applications here, nor publish the system application, which could
take its tables away from under `InstalledIsWhole`.

## Runs

| Run | Question | Bounds |
|---|---|---|
| migration | does a publish realise its model, leave others alone, and undo itself? | 8 models, 3 publishes, 1 fault: a failed publish between two that succeed |
| migration_undo (violation) | does rollback find the tables it names? | same models |
| app_cache | is the cache fresh, whatever the order of Get and Publish? | 2 requests, 2 publishers, 2 applications, 3 loaders, one publish of each application: two loaders of one application can race a reload, the third is the system application's, and publishing the system application races the load of another. Requests and publishers are symmetric: no property tells two of them apart |
| app_cache_publish | what do an edit, a delete, failures and a restart leave, and does every Get end? | 1 request, 1 publisher, 2 applications, 2 loaders, 1 edit, 1 publish, 1 restart; under fairness, without symmetry. Overlapping publishes of one application are left to the proof of `CacheIsPublished`, which holds for any number |
| association_serial | do the statements of a request implement the promise? | 1 session, 3 of 15 requests from both sides of a composition |
| association_shared | what do two concurrent saves leave? | 2 sessions, 2 sources, 2 targets |
| association_to_one (violation) | has a to-one association one value? | 2 sessions, 2 saves of one owner |
| notification | does a browser end with the right count? | 1 subscriber, 2 users, 2 events at once, 2 notifications, one of a script |
| notification_live | is every notification counted for every subscriber? | 2 subscribers, 1 event at a time |
| notification_found (violation) | is the notification of an event there? | 1 subscriber, 2 events |
| engine | is what the server makes of a drawing closed and unique, and are its answers what was asked? | two owners and two associated objects, titles of which some differ only in case, others in more, NULL titles, shared and dangling pivot rows: enough for a row of another owner, a repeated row and an object without any |
| server | do requests that share singletons, tokens, tables and a connection stay apart, through deaths and restarts? | up to 3 requests, `Seconds` = 1 (two logins within a second and in different ones), `MaxCalls` = 4 (begin, save, commit, save), `MaxStarts` = 2; one event goroutine per request at a time; the server may die at every step, any number of times. Two installs, with and without a name, run at once or beside queries; users are saved and deleted beside logins and password changes; an event outlives its request while another builds its schema |

Every property has a mutant: an operator in the module that replaces a
definition the way a bug would (a guard dropped, a reset forgotten), under which
TLC finds the property violated.

Deadlock is checked in the runs of `Migration`, `AppCache`, `AssociationSession`
and `Notification`, where the end of the bounded work is an explicit stuttering
action. It is not checked in `engine`, where a drawing the server cannot build
ends the story, and in `server`, where all requests may be done or a server that
died between the table and the row of the system application cannot start.

### Fairness
`AppCache`: weak fairness of every step of a request (the Go scheduler runs what
can run) and strong fairness of `Lock`: a Go mutex hands itself to the waiter
that waits longest once that waits a millisecond. A publish need not go on
before its reload. `Notification`: weak fairness of events, pushes and
subscription goroutines; a websocket that is up is read. Requests, subscriptions
and cancellations are never forced. `Server` and `Engine` state no fairness:
their properties are of safety.

## What the violations show

1. `rollback` runs the undo list forwards (`orm/migrate.go:87`); after a rename
   the other undo statements name a table that is gone.
2. Two concurrent saves of a to-one association commit two values: the snapshot
   is older than the lock (`orm/save.go:60`).
3. A notification deleted before its event is looked up ends the server
   (`modules/notification/observer.go:122`); one that a script has not committed
   yet does the same.

## What the code does

What the models state because the code does it, although a reader might expect
otherwise.

Publishing and saving:

* A forced reload of a deleted application leaves `loaded` true and `app` nil
  (`modules/app/app.go:43`), so later Gets answer nil without an error;
  `NilMeansDeleted` says that this is the only way to get nil.
* A publish whose reload panics although the row is there (the SELECT fails, or
  the published model cannot be built) has saved its row; the older application
  stays in the cache, loaded, until the next publish or restart, and nobody
  reloads it (`modules/app/app.go:41`). `CachedIsPublished` says that this is the
  only way for one to stay.
* The `publish` field publishes the application of the request's header, not the
  one its argument names (`modules/publish/publish.go:12`).
* `clear` looks the owner's id up in the column of the other entity
  (`orm/delete.go:54`), so it removes no link; `Associations!Clear` says so.
* `add` on the array side of a one-to-many association links an object that has
  an owner already (`orm/save.go:196`); `Associations!Change` unlinks nothing.

Notifications and websockets:

* A subscription takes the context of the last request of anybody
  (`modules/notification/subscription.go:19`); after a request without a token
  it has no user, and its first count ends the server (`QueryCountsPanics`).
* `destory` closes a channel that an event may be about to send on
  (`modules/notification/subscriber.go:111`); that panic too ends the server
  (`SendPanics`).
* All subscriptions of a websocket share one context, `stop` removes only the
  last one from the map, and a read error cancels them, but leaves the entries
  and the connection (`handler/subscriptionhandler.go:83`).

Server:

* A request without an application gets the fields of the application that the
  singletons hold (`modules/app/module.go:17`); `AppsAreOwnOrMixed` therefore
  speaks of requests that name one. The event of a request that has ended puts its
  application into them too (`modules/notification/observer.go:101`).
* An install with an empty administrator is allowed by `NonNull` and ends with a
  server that is installed and that nobody can log in to
  (`modules/install/install.go:125`).
* Whoever may save the entity User replaces any password without the old one
  (`modules/app/schema/mutation.go:113`, `model/data/instance.go:59`).
* A server that died between the table `App` and its row panics when it starts
  again (`modules/app/app.go:52`), and one that did not die, but whose install
  failed there, fails a second install at the first table. One that died after
  the row and before the administrator starts as installed, without a user.
* `ChangePassword` checks and updates in two statements; two changes at once both
  succeed. Tokens issued before stay good. Two logins of a user in one second
  get the same token, so a logout of one logs the other out, and a login that is
  still reading its user brings a token back that was logged out.
* A method does not clear its transaction: a script that ends or throws between
  `$beginTx` and `$commit` leaves it open, and a second `$beginTx` forgets the
  first (`modules/app/script/service.go:39`). After `$commit` the session keeps
  the finished transaction, so saves fail until `$clearTx`. A Go panic in a call
  is taken to end the script, as goja passes on what is not its own.
* An import saves the row first; if its files fail later, the next import of the
  application is refused with "App is exists!". Two imports at once may both
  find no row and insert two; the model tells applications, not rows, apart.
* `exportApp` numbers plugin folders from one and `importApp` strips them
  counting from zero; `GetCodes` keeps only the last piece of code.
* An id is `service << 52 + inner << 32 + number`; `DecodeEntityInnerId` answers
  1 for every id below `1 << 32` (`utils/id.go:20`).

Graph and schema (left out by `Drawable`):

* A two-way relation of a class with itself gives two fields of one name, which
  panics; a one-way one has a pivot table with two equal columns. A diamond of
  inheritance gives duplicate relations. An entity that inherits from an entity,
  a root abstract class and a third-party class with an enum attribute panic.
* `meta.New` makes room for as many packages as there are relations and panics
  if there are more (`model/meta/meta.go:15`). `Validate` means to count
  attributes besides the id, and counts the id too (`model/graph/graph.go:232`).
* `makeVersion` asks for every attribute and for nothing below it, so the query of
  an entity with a password, which has no output field, or a file, which needs
  a selection, is refused. Of two compositions that lead to the same entity only
  the first is in the version (`modules/snapshot/mutation.go:155`).

Queries (left out by `Sound`):

* `_not` is ignored. `_or` beside other keys is joined to them without
  parentheses, so AND binds more than it. Several operators on one attribute,
  `_notIn` and `_regexp` are statements MySQL refuses. Below an association
  `_isNull` and an empty where map hold for the NULLs of the LEFT JOIN; an
  association named twice is joined once for both.
* `ascNullsFirst` and its kin are put into the SQL as they are and refused;
  `offset` without `limit` is refused; `distinctOn` is ignored; `aggregate` is
  never resolved. `total`, the records and `affectedRows` count joined rows, not
  objects.
* The total is counted by a statement of its own after the records
  (`orm/query.go:175`): what is committed in between is in the one and not in the
  other, so a list may be longer than its total. `TotalCountsNodes` holds the
  total against the database it was counted in.
* `_eq`, `_in`, `_gt` and the orders take texts that differ in case alone for the
  same, as `_iLike` does; only `_like` and `_notLike` tell them apart.
* A list whose first selection is not `nodes` reads nothing. Nodes without their
  id cannot load associations. `setX` reads no attribute and sets none. A to-one
  association with two values fails its whole batch.

## Proofs

TLAPS checks every theorem for all values of the constants that satisfy the
assumptions named below. Each invariant that a run checks is weaker than what
makes it true; the proof module states the strengthening as named parts, proves
that `Init` establishes and every action preserves them, one lemma per part and
one step per action, and draws the properties from it.

Assumptions on constants: the bounds are naturals; `None` is none of the values;
applications, users, sides of a relation and processes are what their names say
(the system application is an application, requests and publishers are distinct,
the two sides of a relation have no object in common); what a request of
`AssociationModel` names are objects of the side it is sent to
(`RequestsAssumption`); what a request of `Server` asks is one of the plans the
handler offers (`MixesAssumption`); models are finite sequences of tables with
finite sequences of columns, and the empty model, which a new application has
published, is one of them (`ModelsAssumption`); the tables of a model have uuids
of their own, and so have the columns of a table (`UuidsAssumption`). The last
one leaves out a relation of an entity with itself, whose pivot table has two
columns of the same name and uuid (`model/graph/table.go`), and an attribute that
is inherited along two paths: MySQL refuses the `CREATE TABLE` of either. TLC
evaluates all of them.

**AppCacheProofs** (`CacheInvariant`, `TypeCorrect`, `CacheIsPublished`; then the
history).
`CachedIsPublished` is not inductive: that a load installs the published
application depends on what it read and when. `IInv` adds *Structure* (a loader
belongs to one application, the holder of a mutex is the process that is past
`lock`, the system application is always loaded) and *Fresh* (what a process
between `query` and `install` holds is the published application, or a reload of
that loader is pending or has panicked). Actions that touch neither rows, loaders nor the control
of a load fall under one lemma (`QuietStep`).

The second part (`TablesArePublished`, `GetIsFresh`, `NilIsDeleted`,
`LoadersAscend`) sees the same model through its history. While an application
is undisturbed, one publish of it is under way at a time (`PublishOrder`).
Requests on one loader, cached or replaced, want the same application
(`SameApp`), and a loader that is loaded and empty is one of a deleted
application (`EmptyMeansDeleted`). Every save of a row stamps it; no loader is
ahead of the row and no load steps back, nor does the system application that is
merged in (`StampsAscend`, `SystemAscends`). `Reached` says how far a finished
publish has come: every loader a Get can find is at least as young. The lemmas
`LoaderStep`, `RequestStep` and `SharedStep` say once what a step can do to one
loader, one process and the shared rows, so that each part is proved against
these and not against every action.

**ServerProofs, ServerSharedProofs.** Types first: they rest
on `Followed` (a request stays on the labels of what it asked) and `CreatedOK`
(an install creates tables that exist). Then what requests share:

* `AppsAreOwn`: once a request has passed the `Init` of a module, the singleton
  holds its application, or one that another request or an event has put there
  since it came (`HoldsOwnOrMixed`);
* `InstallsAreWhole`: at most one request owns the install, the one that created
  the tables (`OwnerInv`), nobody saves users or rows on a server that is not
  installed (`WritersInstalled`), and what is there is nothing, one table, being
  filled by the owner, or all that is owed (`PhaseInv`), unless an install was
  cut off;
* `LoginsAreEarned`, `LogoutsLast`: a token at work was given, a request knows the
  passwords its user has had since it came, and the password that was checked is
  the one it presented (`TokenInv`).

And, in `ServerProofs`, what belongs to one session: `ScriptsAreAtomic` and `ScriptsSaveWhole` tie
the transaction a script is inside of to the open ones and to the two statements
of each save (`TxInv`); `ServedAreKnown` and `ConnectionsEndClean` count the
entries of the handler's map, of which a `stop` forgets one (`SocketInv`).

**NotificationProofs** (`LastCountIsCurrent`). A subscriber whose count is out of
date is owed another: it is about to count, or some event's goroutine will still
visit it (`Owed`). At most one send to a subscriber is under way (`OneSends`).
Subscribers for which the code breaks this are in the history variable `muddled`.

**AssociationProofs** (`SyncsAreExact`, `DuplicatesAreUnseen`,
`SerialRequestsKeepThePromise`). For any number of sessions: a session's snapshot
does not change, it adds only links the snapshot does not show, what a sync found
it has removed, and the gaps of its DELETE keep others from adding to its owner.
With one session the snapshot is the database, and `Progress` says how far a
request has come in terms of the abstract one: the statements of a transaction
together are one step of `Associations`, a rollback is a stutter. The theorem
names the restriction (`OneSession`); with two sessions the refinement is false,
as `association_shared` and `association_to_one` show.

**MigrationProofs** (`OtherTablesStay`). A plan is built by `FlattenSeq`, a
recursive function. The library's induction theorems cannot be instantiated here,
so `Induction` derives induction over a set from the pigeonhole principle;
`FlattenDef`, `FlattenFacts` and `Selected` say with it what flattening and
selecting give for sequences of any length. `PlanWithin` follows: the statements
of a migration and their undo statements name tables of the two models only, and
that no accepted statement gives a table two columns of one name (`Keeps`): what
`rollback` starts from is a schema MySQL could hold (`GoodSchema`).

**MigrationSchemaProofs** (`SchemaIsPublished`, `NoColumnIsStricter`). That MySQL
accepts every statement of a plan is not promised: exchanged names are refused.
What is proved is that a plan whose statements are all accepted leads where it
should. `Runs(d, atoms, e)` says that the atoms are accepted one after the other
and make schema `d` schema `e`; a run of concatenated or flattened atoms falls
apart into runs of the parts (`RunsConcat`, `RunsFlatten`). `Fits` relates one
table to a set of attributes and `HoldsAll` a schema to a set of tables; a column
may be nullable where its attribute is not. One lemma per statement, per column
(`DeleteOne`, `AddOne`, `ModifyOne`: the index is dropped before the column
changes and created after it) and per table (`DropTable`, `CreateTable`,
`ModifyTable`: the rename comes first, and the new name was free) says what it
makes of these sets, an induction over the sequence does the same for all of
them, and `FitsAlike` and `HoldsSame` close the gap of the columns and tables that
did not differ and got no statement. `PlanRuns` is the sum. The invariant
(`RealisedInv`) says that a publish under way has executed a prefix of the plan
of its two models, starting from a schema that held the first; it speaks of
histories in which no publish failed, as the properties do.

**MigrationRollbackProofs** (`RollbackGivesBack`). `rollback` runs the undo
statements in the order in which they were recorded, so the second of two that
share a table starts from what the first made of it; `RollbackRestores` promises
the schema only where no two share one (`Entangled`), and this is proved for all
models, whatever statement fails and however many there were before it. An undo
statement does not restore whatever its statement did: `ADD COLUMN` brings a column
back without the index that went with it. `Restores` is therefore said of an atom
on a *published* schema (`Restorable`), one lemma per kind of atom with the
condition it needs, such as a dropped column having no index. `Sound` is the fact
about the builder this rests on: in every plan an atom is restorable, or its undo
statement shares a table with that of an earlier atom. In the list of a column the
index comes off first, in the list of a table the rename comes first
(`FirstOfTable`), and all others name the table of the new name (`SoundTable`); an
induction over the plan gives `SoundPlan`.

`RollbackRestores` is not inductive, it says nothing before the
rollback has ended. The invariant (`RollbackInv`) says from the start of the
publish what has been recorded (`Progress`) and, in `Restored`, of each recorded
undo statement that it *will* give its tables back, or once executed that it
*has*, and that the tables of no statement are as they were. A statement sees only
the tables it touches (`SameThere`), so what the others do does not matter as
long as they are `Apart`.

Only model-checked:

* liveness, which is out of this prover's reach: `GetEnds`, `EveryPostIsCounted`;
* `Engine` with `ModelGraph`, `SchemaParser`, `QueryBuilder` and `Snapshot`:
  their recursive operators exclude the prover, and that a where map of any depth
  becomes the condition it stands for is an induction over data.

## Plan

Modelled: everything the inventory names, to the depth *Not modelled* says. The
abstract specification of saving (`Associations`) is refined; publishing and
tokens are specified by their properties.

Theorems: the safety and action properties of `AppCache`, `AssociationSession`,
`Notification`, `Server` and `Migration` are proved. What is left are lemmas about
where maps, once the recursion in `QueryBuilder` is written as a function of their
depth.

## Not modelled

* Decoding of HTTP requests, multipart uploads and the GraphiQL pages, logs,
  configuration, storage, scalar types, and the deployment of workflows
  (`modules/camunda`), a call to a service outside: input and output without
  state of their own.
* Access rules: `QueryRoleIds`, `canReadEntity` and the expressions roles add to a
  where map. They filter what the modelled query would return.
* The archive of an application (`imexport`): what files it holds and how urls
  are rewritten. Its steps in the database are in `Registry`. An import with an
  `appId` argument is not modelled.
* Nested associations of nested objects, association classes, several objects in
  one `Save`, and updates of notifications.
* Ids: shifts and an addition, described above; every model takes ids as given.
