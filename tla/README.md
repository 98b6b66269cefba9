# foundation4j: specification and proofs

foundation4j is a Java framework for services built of *operations*. A service
declares commands and queries; the framework resolves the tenant, dispatches the
operation, stores what the operation wants done afterwards in a jobs table, and
talks to other services through a message broker. This directory holds TLA+
models of the parts where order, failure and shared state decide whether it is
correct, the TLC runs that check them, and proofs of the main results.

All paths below are relative to the repository (`src/`). `DATA` stands for
`foundation-starter-data/src/main/java/dev/soffa/foundation/data`, `ST` for
`foundation-starter/src/main/java/dev/soffa/foundation`, `PS` for
`foundation-starter-pubsub/src/main/java/dev/soffa/foundation/pubsub`, `CORE`
for `foundation-core/src/main/java/dev/soffa/foundation`, `COM` and `API` for
the same package of `foundation-commons` and `foundation-api`.

## Inventory

| component | state | operations | interacts with | what is hard |
|---|---|---|---|---|
| Operation dispatch (`ST/spring/service/OperationDispatcher`, `OperationDispatchMessageHandler`, `CORE/config/OperationsMapping`) | cache of default-tenant operations, registry of operations | dispatch, invoke, apply, handle(message) | tenant holder, side effects, broker | two transactions where one is intended; exceptions on every path |
| Side effects (`DATA/spring/service/PlatformSideEffectsHandler`, `SideEffectProcessor`, `DATA/spring/features/PendingJobRepoImpl`) | rows of `f_pending_jobs`; lazily looked-up collaborators | enqueue, bootstrap, handle, consume, updateJob | scheduler, pool threads, database, broker, hooks | partial failure, crash between steps, several workers, lazy initialisation without a lock |
| Scheduler (`ST/spring/service/SimpleExecutorOperationScheduler`) | in-memory queue, six threads | enqueue, run, scheduleRecurrently | dispatcher | tasks vanish with the process |
| Side effects without a database (`ST/spring/service/DefaultSideEffectsHandler`) | looked-up collaborators | bootstrap, enqueue | broker, hooks, activities | same lazy initialisation, no table to fall back on |
| Hooks (`ST/spring/service/HookServiceAdapter`) | hook definitions of the configuration | enqueue, process, process item | scheduler, notification services | one item of several failing |
| Tenant and context of a thread (`CORE/multitenancy/TenantHolder`, `CORE/context/ContextHolder`, `ST/spring/config/RequestFilter`, aspects) | two (inheritable) thread-locals, a default | set, clear, use, useDefault | dispatcher, aspects, message handler, filter, pools | nesting, exceptions, reuse of pool threads |
| Tenant registry and migrations (`DATA/spring/DBImpl`, `DATA/migrations/Migrator`, `DATA/common/ExtDataSource`) | maps of data sources and lock providers, queue, counter and names of the migrator | register, configureTenants, applyMigrations, determineTargetDataSource, isTenantReady | migration threads, configuration, database lock | check-then-act on shared maps, a counter that must return to zero |
| Repositories (`DATA/SimpleRepository`, `SimpleDataStore`, `DATA/jdbi/DBHandleProvider`) | tables | insert, update, delete, find, inTransaction | database | retry of a deadlocked transaction, which tenant's database |
| Broker clients (`PS/AbstractPubSubClient`, `nats/*`, `rabbitmq/*`, `simple/*`, `PubSubMessengerFactory`, `PubSubMessengerImpl`, `PubSubReadiness`) | subscriptions, connections, streams, dead-letter queues | subscribe, publish, request, broadcast, handle | broker, message handler | redelivery, acknowledgement, reply against time-out, error replies |
| Helpers (`COM/commons/*`, `CORE/*`) | none or a cache | id hashing, paging, error unwrapping, durations, tokens, cron expressions | | boundaries of numbers |
| Karate features (`foundation-api/src/main/resources/karate-config.js`, `karate/basic-auth.js`, `KarateTestHelper`, `KarateTester`, `MockMvcHttpClient`, `COM/commons/http/HttpUtil`) | the system property `config`; a scenario's headers and attempts | create, configure, sign, send, retry | the service under test | a property two classes write; what a separator does to credentials |
| Security and tokens (`ST/spring/service/LocalPlatformAuthManager`, `CORE/security/*`) | the application's accounts, tokens until they expire | handle, authenticate, decode | filter, message handler, context | the tenant of an identity against the tenant of a request; authentication repeated at the next service |
| Annotations, HTTP/GraphQL/mail/S3/SFTP/OpenAPI adapters, metrics, other test support, vendored Spring stubs | none of their own | | libraries | input and output only |

## Modules

| module | what it is |
|---|---|
| `SideEffects` | the life of a job: request threads, table, executor queue, workers, crashes |
| `Outbox` | what the jobs table promises, without workers or failures |
| `SideEffectsOutbox` | the refinement mapping from `SideEffects` to `Outbox` |
| `SideEffectsInvariant` | the inductive invariants of `SideEffects` |
| `SideEffectsProofs` | type correctness, the inductive invariant, the safety theorems |
| `SideEffectsDriversProofs` | who drives a job and how often, what that costs, and what `bootstrap()` leaves unset: seven theorems |
| `SideEffectsOutboxProofs` | the refinement theorem |
| `TenantRegistry` | the map of data sources, its constructor, refreshes and callers, the Migrator, restarts |
| `TenantRegistryInvariant`, `TenantRegistryProofs` | its inductive invariants and nine theorems |
| `DataSources` | how a source is made, which pool it shares, which schema a connection is in; transactions and their retries |
| `DataSourcesInvariant`, `DataSourcesProofs` | its inductive invariant and five theorems |
| `TenantContext` | the tenant and the context each thread holds: requests, messages, nested operations, pools |
| `TenantContextInvariant`, `TenantContextProofs` | its inductive invariant and six theorems |
| `FeatureTests` | a Karate scenario, its configuration and credentials, and what two services make of them |
| `FeatureTestsInvariant`, `FeatureTestsProofs` | its inductive invariant and five theorems |
| `PubSub` | requests, events and broadcasts over the three clients, with crashes, redelivery, retries and payloads nobody can read |
| `PubSubInvariant`, `PubSubProofs` | its inductive invariant, three theorems from it, and the safety part of the refinement |
| `RemoteCall` | what the caller of a remote operation can rely on |
| `MCSideEffects`, `MCTenantRegistry`, `MCDataSources`, `MCTenantContext`, `MCFeatureTests`, `MCPubSub` | values of the constants for TLC |

### State and actions against the code

**SideEffects.** A job is identified by its uuid. `row`, `rowData` and `rowErrors`
are its row of `f_pending_jobs` (whether it exists, the kinds of effect not yet
nulled, the error count), `queue` is the executor's memory, `worker` holds a
program counter and a private copy of the row for each pool thread, `sink` the
collaborators that `bootstrap()` found.
`Handle`, `Insert` and `Schedule` are `OperationDispatcher.apply`,
`PlatformSideEffectsHandler.enqueue` and `SimpleExecutorOperationScheduler.enqueue`;
`TakeUp`/`Begin` the pool thread; `Check`, `BootFlag`, `BootField` the unlocked
`bootstrap()`, one assignment per step; `Find`, `SkipBlock`, `Deliver`, `Save`,
`Delete`, `Fail` the loop of `SideEffectProcessor.handle` inside
`PendingJobRepoImpl.consume`. `Crash` ends the process; the table stays. A second
dispatch of the same id (`Redispatch`) is external: another `OperationScheduler`
that delivers at least once, or a message that names the operation. `Handle`
drops the effects of anything that is not a command, as `apply` does.

**Outbox.** A job is accepted with the kinds of effect it owes, settles each once
and is closed after the last. No workers, no failures, no copies, no order.

**TenantRegistry.** `registry` maps an id *as spelled* to a source, `migrated` is the
set of sources with their flag set; `CreateDatasources`, `Walk`, `Constructed` are the constructor,
`Refresh`, `Load`, `PickTenant`, `Finish` the thread of `configureTenants`, `Call`
and `PickName` a caller of `register`, `Check`, `Put`, `Apply` the body of
`register` and `applyMigrations`, and `Enter`, `Migrate`, `Mark`, `Callback`,
`Leave` the synchronized `Migrator` with its `lock`, `pendingJobs` and `counter`.
`SettledOn` is the change log `applyMigrations` checks (the delegate's, the source's,
`true` for the application's), `OwnScript` the one the Migrator runs. `Migrate` ends in
one of three ways: applied, failed, or an exception about an existing changelog, which
is ignored (`Migrator.java:180-187`) and goes on as a success does. `schema` is the
change log each database holds; `failed`, `ignored` and `hindered` record whose
migration failed, whose exception was ignored and which refresh lost which tenant.
`RestartContext` and `RestartProcess` forget what memory
holds (the Migrator is a static singleton and outlives the context).

**DataSources.** A source is `Create`d from its URL: the base URL, the key of the shared
pool, in lower case, the schema in the case of the engine (`Folded`), the URL that is
connected to as written; `OfTenant` puts the tenant, as it is spelled, where the
placeholder is, in the URL and the schema and not in the base URL. `Unquoted` is the
name that `create schema` makes, `Home` the schema that `setSchema` switches to; the
two differ for a tenant with a capital on PostgreSQL. Each thread makes one source. `Lookup`, `CreatePool` and `Record`
are `getDataSource` against the static `UNIQDS`; `CreateSchema` creates the schema;
`Take` takes a connection and `WithSchema` switches it, `Return` gives it back to
the pool in the schema it is in. `OpenHandle` and `CloseHandle` are
`DBHandleProvider.withHandle`; `InTransaction`, `Attempt`, `Commit`, `RollBack`,
`LoseAnswer` its `inTransaction`: `TriedAgain` is its test for a deadlock, the last
two the ways the database can fail an attempt.

**TenantContext.** `tenant` and `context` are `TenantHolder.CURRENT` and
`ContextHolder.CURRENT` of each thread; `stack` the calls it is in, each with the
tenant it is meant to run in and what it would put back. `Admit`, `Refuse`,
`Respond` are `RequestFilter`; `Receive`, `Reject` the message handler;
`Dispatch`, `Use`, `Leave` `OperationDispatcher.invoke` and `TenantHolder.use`;
`WithTenants`, `Visit`, `Visited`, `Abandon` `DBImpl.withTenants`, with a consumer
that throws; `Schedule`, `Start` the scheduler, whose threads are born inside the
operation that schedules; `HandOver`, `Spawn`, `Expire` the cached pool and
`withTenantsAsync`; `Publish` `MessageFactory.create`.

**FeatureTests.** `CreateWithHelper` and `CreateWithTester` are the two classes that
write the property `config`, `Configure` the function of `karate-config.js`,
`SignBasic` `basic-auth.js` with `HttpUtil.createBasicAuthorization`; `SignOtherwise`
is a header the feature writes itself. `Send` is the request through
`MockMvcHttpClient` and `RequestFilter`, again while Karate may retry; `Handle` is
`LocalPlatformAuthManager.handle`, `Pieces` and `HasPieces` what it looks at of its
`split(":")`; `Call` is a message to a second service (`MessageFactory.create`, `OperationDispatchMessageHandler`).
A word is a sequence over letters and the colon, since the property is about what
becomes of the colon; base64 loses nothing and is left out. `Register` and `Expire`
are the world between two attempts.

**PubSub.** `Request`, `Publish`, `Submitted`, `TimeOut`, `ReplyTimeOut`,
`ReceiveReply` are the sender (`sendAndReceive` of each client, the common pool's
task of `AmqpClient`, `get(30 s)` of `PubSubClientFactory`, the null of
`RabbitTemplate`, `unwrapResponse`); `Start` is `PubSubMessengerFactory.create` with
its subscriptions; `Deliver`, `Take`, `Execute`, `FinishNats`, `FinishAmqp` an
instance's listener, `Misread` its `deserialize` of a payload that is no message:
over NATS it is discarded by a normal return, which a stream takes for an
acknowledgement, over AMQP it fails like an operation. After seven tries the retry
advice of `AmqpUtil` drops a message with a warning, as it has no recoverer: nothing
is rejected (`GivenBack` is empty), and the dead-letter exchange stays unused.
`RunRequest` and `RunEvent` are the simple client. The outcome of
an operation is one of eight, as many as the code tells apart (`Results`): a value,
none, a Unit, three sorts of `ManagedException`, an exception with and without a
message. `broker` holds what a queue or a stream keeps, `inbox` what core NATS or a
push consumer has handed to a process.

**RemoteCall.** A request is asked and ends once: with the outcome of an execution
of that very request, or because the caller gave up. It says nothing of when or how
often it is executed, and does not let a caller wait for ever.

### How the modules fit together

The job that `SideEffects` drives is an operation that `TenantContext` starts on
a pool thread (`Schedule`, `Start`) with no tenant held, as
`ProcessSideEffect` is annotated `@DefaultTenant`; the rows it works on are those
of the default source of `TenantRegistry`, whose connections `DataSources` keeps
in the right schema, in transactions that `DataSources` tries again. The identity
and tenant that `TenantContext` takes as an input of a request or a message are what
`FeatureTests` computes, and the messages `TenantContext` exchanges are the events of
`PubSub`. Two modules are instances in others, the abstract specifications: `Outbox`
in `SideEffectsOutbox`, `RemoteCall` in `PubSub`. The rest meet at values (a tenant
id, a source, a message) and are checked apart to stay small.

## Runs

| run | instance | what it shows |
|---|---|---|
| `side_effects_core` | two jobs that ask for a delayed job and two events, two workers, two failing calls, one crash, no time-series provider, fair steps | one worker drives a job at a time; a registered collaborator's block is passed over only while another thread is still in front of its lookup; only a fault orphans a job; each task leaves the executor; without a fault each stored job is completed and its row deleted |
| `side_effects_redispatch` | one job dispatched up to three times, two workers with stale copies, two beans for the data points, whose lookup comes before that of the scheduler for the delayed jobs | no effect is lost from the table or delivered twice by one drive; blocks keep their order; the table implements `Outbox`; rows only progress; after the ambiguous lookup the delayed jobs are silent for good although their collaborator is registered once |
| `side_effects_bootstrap_race` | two workers, no fault | *violated:* an event is passed over although the messenger is registered |
| `side_effects_no_retry` | one failing call | *violated:* a failed job is not driven again |
| `registry_core` | constructor, two refreshes, a caller of `register(names, true)`, two tenants, for one of which the delegate names a change log that is not there and for the other one of its own, a source whose change log is `true`, two calls that fail or are ignored, with and without a template, fair steps | what can be found is migrated and stays so; a zero counter means what it says; a tenant with a change log becomes ready unless its own migration fails, or in both refreshes the query, the loader or its schema does |
| `registry_restart` | a refresh, a caller in both modes, two spellings, a source not migrated, a migration that fails or whose exception is ignored, a restart of context or process | the Migrator's bookkeeping is exact; no name is migrated twice; a migrated flag tells the truth about the database unless the exception was ignored |
| `registry_mixed_case` | a tenant with a capital | *violated:* it never becomes ready |
| `data_sources` | two tenants' schemas on one pool, PostgreSQL and H2, a database and a tenant with a capital, three threads, one of which runs any number of transactions, one failure while a source is made | every connection is in its source's schema, which no other source leads to and which exists; a second pool for a base URL needs the race; a call of `inTransaction` commits at most once, and not at all when a deadlock is reported |
| `database_per_tenant` | the placeholder in the database's name | *violated:* the second tenant works in the first one's database |
| `tenant_context` | a web or listener thread with a listener, worker or asynchronous thread, three calls deep | code runs in its own tenant, context and cause agree, leftovers need a refusal, pools stay clean |
| `feature_tests` | words of up to two characters, null, one of them the secret; every configuration; two accounts, a token; two tenants | every scenario has the test's configuration and a base URL; an AuthManager is asked about the credentials the feature gave just when no colon and no empty pair is among them; the second service sees whom the first saw, in the tenant its thread holds |
| `pubsub` | each client, two instances, one crash; two requests, a request and an event, a broadcast, or an event or a broadcast that cannot be read; a stream delivers up to twice; fair steps | the clients implement `RemoteCall`, liveness included; executions are bounded; what a broker kept is gone only when it is settled; a queued event does not stay at the head for ever |

A property is checked in the run where it is hardest to keep: those of the rows
where workers share them, those of the Migrator's books across a restart. What is
proved is not checked again in a second instance.

Every property of a passing run has a mutant of the code that violates it
(`PROJECT.json`, "mutants"; the mutated operators stand beside the ones they
replace, named `Operator_Change`).

### Bounds, and why they are enough

* `SideEffects`: two workers are enough for one copy to be stale against another,
  three dispatches for a stale copy to write after the row is closed. Four
  kinds, one with two effects, show order, partial progress and, with the data points'
  bean ambiguous and the delayed jobs' looked up after it, what stays silent. Two failing calls make a
  failure of the save in the catch block follow one of an effect.
* `TenantRegistry`: three threads (two loaders, one caller) race for two names;
  a third name would only wait for the same monitor. One restart is enough for
  memory and databases to disagree. Two failures are as many as there are refreshes: a
  tenant that one of them loses, the other must register.
* `DataSources`: two tenants share a pool, a third thread makes and takes while
  two others race. The pool's content is over-approximated: a connection may come
  back in any schema it was left in.
* `DataSources`, transactions: threads share nothing in a transaction but the pool,
  so one thread that runs them (`Transactors`) among three that use connections
  shows the retries and the others' view of the connections; the number of calls is
  not bounded, and the four attempts of a call bound its errors.
* `FeatureTests`: two characters are enough for a colon before, after and between,
  and for two colons; the joined header has up to five. `RetryCount` is the code's.
* `PubSub`: requests are independent but for the instances they share; two of them
  show that answers are not confused, one with an event that an instance divides its
  time, and the broadcast and the messages nobody can read need no company. One
  crash lets another instance, or the same one again, take what was not
  acknowledged; two deliveries of a stream's message overlap a handler at work.
  `MaxExecutions` only stops the count beyond any bound a property states.
* `TenantContext`: holders cross from one thread to another at birth, in a task or
  in a message, so pairs of threads show every crossing (`Pairs`). One tenant, the
  default and null are three values, enough to be in the wrong one. `MaxCalls = 3`
  lets a nested call switch inside a switch. The theorems remove these bounds.

### Fairness

`SideEffects!Fairness` is weak fairness of each request thread after the operation
was handled and of each worker: a JVM thread that can run does, a call returns or
throws, and an idle thread of a `ScheduledThreadPoolExecutor` takes a task that is
due. Nothing is assumed of callers, faults, crashes or second dispatches.
`TenantRegistry!Fairness` is weak fairness of the constructor, of each refresh
and of each caller that is inside `register`. Weak fairness is enough at the
Migrator's monitor because a tenant enters it a bounded number of times, so it is
free for good in the end.
`PubSub!Fairness` is weak fairness of an instance's listener, of a stream's delivery
up to its bound, of the common pool's task and of the caller's time-out. Nothing is
assumed of replies, starts, crashes or of RabbitTemplate's time-out, so a call ends
because its caller gives up if nothing else ends it. `RemoteCall` states the fairness
that the refinement proves of `PubSub`: a call that was made ends. No fairness is
assumed elsewhere.

## Proofs

TLAPS proves the following for every value of the constants that satisfies the
named assumptions (`ConstantsAssumption`, `RegistryAssumption`,
`ContextAssumption`, `DataSourcesAssumption`, `PubSubAssumption`, `FeatureAssumption`,
`AccountsAssumption`, `MapsAssumption`). They say that sets of values do not overlap,
that configured functions have their types and that bounds are numbers; one says
something of the world, `AccountsAssumption`: no credentials and no token belong to
two tenants.

* **SideEffects.** `IInv` relates request threads, rows, queue and private copies:
  a worker's copy lacks only settled kinds, a worker inside a block has settled
  every earlier kind and delivered the earlier effects of this one, what is queued
  or driven has a row, and what has no row has settled nothing. The safety
  properties are not inductive alone, since a worker writes its whole, possibly
  stale, copy back. Theorems: types, `NothingDropped`, `BlocksInOrder`; and `OutboxCorrect`, the refinement, from the same invariant.
* **SideEffects, drivers.** `DInv` adds to `IInv` that, as long as nobody dispatches
  it again, a job that was not scheduled has no driver and the copy of its one driver
  is no older than the row; that the deliveries of an effect and the workers still
  ahead of it are together no more than the drives (the proof counts sets of workers);
  that a worker in the catch block has met a failure; that `bootstrap()` never
  gets past a field of several beans; and that, where the flag is up, a field whose
  bean is registered once is set unless a thread in `bootstrap()` has yet to assign it
  or an earlier lookup throws (`FieldsInv`). From it
  `OneDriver`, `OncePerDrive`, `OrphansNeedAFault`, `AmbiguousBeanSilencesLaterOnes`
  and the action properties `RowsOnlyProgress` and `DiscardsNeedTheRace`, for any
  number of workers, jobs, dispatches and crashes.
* **TenantRegistry.** `RegistryInv` says that whoever is at work in the Migrator
  holds its monitor, that the counter is the number of failed names plus the one
  at work, and that a flag is set only behind the database or an exception that was
  ignored. It is inductive because
  each name is taken once per process. Two theorems (`FoundIsMigrated`,
  `ReadyIsForEver`) need `CalledModes \subseteq {TRUE}`, that nobody calls
  `register(names, false)`, which holds of `src/`; without it TLC finds the race.
  `EmptyIsReady` has the same premise and speaks of a process before its first
  restart; `TakenInv` says that until then a name the Migrator has taken has failed,
  is with the thread at work or is registered and migrated, so that a zero counter
  leaves none between registry and flag.
* **TenantContext.** `ContextInv` says that the frames of a stack are linked (what
  a call would put back is what the call around it runs in, and a call that puts
  nothing back runs in what was there), that the top frame is what the thread
  holds, and what the bottom frame knows: a request's context on a web thread, the
  birth of a pool thread. A step touches one thread, so one lemma (`OneThread`)
  reduces each action to showing that the new holders and stack fit. The five
  properties that the run checks follow from it for any number of threads and any depth.
* **DataSources.** `DSInv` says that whoever is past getDataSource holds a pool made
  for the base URL of its source, that a pool connects where its maker's source
  points, that an attempt of a transaction begins with nothing committed, that a
  second maker of a pool saw no recorded one because the first was still at work, and
  what schemas connections were left in. `CommittedOnce` and `SecondPoolNeedsARace`
  follow for every deployment. `OwnTables` and `SchemaExists` do not hold of all
  (run `database_per_tenant`): they need `SchemasOnly`: the placeholder is in
  the template's schema and URLs do not differ in case alone, so that all sources of a
  base URL agree about the database; on H2 a default source without a schema has a
  base URL of its own, since no step switches its connections back; and the schemas of
  one database differ, on H2 in more than case, so that no two sources lead to the
  same place. `SchemaExists` leaves out the tenant with a capital on PostgreSQL, whose
  schema is created in lower case and used as it is spelled.
* **PubSub.** `PInv` says where a message is: nowhere before it is sent, in one place
  at a time if a queue or a subject carries it, while a stream keeps its copy until an
  acknowledgement. Outside a stream its executions are at most those of earlier
  deliveries, each ended by a crash, and the tries of the one at hand
  (`ExecutionsBounded`); what is gone was executed to an end that the client
  acknowledges, failed seven times over AMQP, or cannot be read
  (`GoneMeansSettled`). An answer
  is the response to a result of that very message, so every step is a step of
  `RemoteCall` or leaves it alone (`ImplementsCallSafely`, for all clients, traffics
  and outcomes).
* **FeatureTests.** `FInv` says that a context that is not anonymous can be had again
  from the header it keeps, which makes `PeerAgrees` inductive whoever registers and
  whatever expires in between; that a configuration is `fn` of what one of the two
  classes wrote, whence `ConfigAsGiven`; and that only the header that holds the
  feature's credentials was asked about. `AskedAsSent` then needs what `split(":")`
  makes of words of any length: the end of a piece is a least number, which exists
  because < is well-founded on Nat, no piece holds a colon, and two words without
  colons come back as they were joined.

The inductive invariants are named definitions of modules that the MC modules extend,
so that TLC can check them on any of the instances before a change is proved; the
runs do not repeat them.

Only model-checked: liveness, that is `StoredJobsComplete`, `EveryTaskEnds`,
`LoadedBecomeReady`, `QueuedEventsSettle` and the fairness half of
`ImplementsRemoteCall`. Liveness under fairness and ENABLED are beyond the prover
and stay with TLC. Every safety property that a passing run checks has a theorem.

## Findings

1. `side_effects_bootstrap_race`: `SideEffectProcessor.java:49` raises
   `initialized` before lines 50-63 assign the collaborators; a second pool thread
   sees null and passes over the events of its job, although a messenger is
   registered and the message at line 53 speaks only of one that is not.
2. `side_effects_no_retry`: the comments and the threshold of ten in
   `PendingJobRepoImpl` speak of further attempts; nothing makes one.
3. `registry_mixed_case`: `DBImpl.java:372` registers under the spelling of the
   loader what every lookup asks for in lower case.
4. `database_per_tenant`: `ExtDataSource.java:206` copies the template's base URL,
   so tenants told apart by the database's name share the first one's pool; a
   configuration in the repository is of that kind.

Seen while modelling and without a run of their own: a second application context
of one process registers no tenants, since the Migrator's names are static
(`Migrator.java:63`); `register(names, false)` can replace a migrated source
(`DBImpl.java:149-169`); a `MigrationDelegate`'s answer is checked but not used
(`DBImpl.java:273`); the migration name `true`, which
`foundation-starter/src/test/resources/application-test.yml:7` gives, passes the check
as the application's change log (`DBHelper.java:108-111`) and fails in the Migrator,
which looks for `true.xml` (`Migrator.java:125`), so a template of that name has no tenant
become ready; an exception about an existing changelog leaves a source marked as
migrated whatever was applied (`Migrator.java:182`); two URLs that differ only in case
share a pool (`ExtDataSource.java:115`); the schema of a tenant with a capital on
PostgreSQL is created in lower case and used as it is spelled
(`ExtDataSource.java:106`, `:285`); an event that fails seven times is dropped and not
dead-lettered, although a dead-letter exchange is declared (`AmqpUtil.java:107`, `:159`),
and one that cannot be read is acknowledged (`NatsMessageHandler.java:43`); an H2 source without a schema does not switch its connection
(`ExtDataSource.java:278`); a failing tenant query ends the refresh thread
silently (`DBImpl.java:347`); a refused request leaves both holders set
(`RequestFilter.java:96`), which `LeftoversNeedARefusal` pins down to that line;
a job's events carry the context its pool thread was born with
(`MessageFactory.java:50`); an operation of the default tenant holds none, so a
repository of the tenant "context" throws there (`SimpleRepository.java:255`)
where a data store falls back on the default (`DBHandleProvider.java:31`); a
Liquibase lock row outlives a process that ends inside a migration
(`Migrator.java:163`); a password with a colon is cut at it and a pair of empty
words is no credentials at all (`LocalPlatformAuthManager.java:90`), and a password
that is null is spelled "null" (`HttpUtil.java:33`), all of which `AskedAsSent` pins
down; `MockMvcHttpClient.setConfig` ignores the time-outs of `karate-config.js`; the
time-out of RabbitTemplate is a null like an operation's own (`AmqpClient.java:58`);
an exception without a message is answered as a success (`MessageResponse.java:37`),
and 409 and 408 become a `TechnicalException` at the caller
(`AbstractPubSubClient.java:72-80`) although `ErrorUtil.getException` knows them;
nobody who calls over NATS hears of an operation that returns nothing or fails
unexpectedly (`NatsMessageHandler.java:55`, `:67`); a disabled test of RabbitMQ says
that messages are attempted twice in test mode, the code attempts them seven times in
every mode (`AmqpUtil.java:159`); a connection that breaks at COMMIT leaves the caller
of `inTransaction` without knowledge whether it was done (`DBHandleProvider.java:74`).

## What is left out, and why

* Reads and writes of bean fields are sequentially consistent; the findings do not
  need a weaker memory.
* `delayedJobs` cannot be filled today (`DefaultOperationContext` has `delayed`
  commented out) but is handled as the processor would.
* Hooks and delayed jobs are handed to the same volatile executor; what happens to
  them there is the planned executor module's.
* A job's row is worked on without the retries of `DBHandleProvider.inTransaction`:
  they are in `DataSources`, and not visible in a single row. Its cache of links is
  left out: it keeps a name's source, and that is never replaced in `src/`.
* A process has one live application context, and it is restarted when its threads
  are done; two processes that migrate at once are left to Liquibase's own lock.
* Configurations whose template lacks the placeholder are not in the runs.
* What HikariCP resets on a returned connection is external; the runs assume the
  least (nothing) and leave H2's default source in a database of its own.
* `TenantContext` identifies a context by its tenant, has a remote broker only,
  excludes code of the application that calls `TenantHolder.set` itself, the id
  "context" in a request's header, and `ServiceWorker.tick`, which is not in `src/`.
* Authentication is an input of `TenantContext`: any tenant or a refusal. In
  `FeatureTests` the application's `AuthManager` answers for the accounts it knows and
  otherwise with null or an exception; permissions are left out.
* `PubSub`: the embedded AMQP broker of tests, `broadcast(Message)` over configured
  channels, the refusal of a second subscription to one subject, an
  AMQP `broadcast` (an event for the default exchange and a queue of that name) and
  the binding of a second instance to a durable push consumer. Replies are matched
  with requests by the brokers' clients. Messages on the way are not lost over a
  connection that stands; a broker connection that breaks while the process lives on is
  left out.

## Plan

Done: `SideEffects`, `Outbox` and the refinement; `TenantRegistry`; `DataSources`
with transactions; `TenantContext`; `FeatureTests`; `PubSub`, `RemoteCall` and the
refinement; a theorem for each safety property of them. Next, in this order:

1. Theorems about the places where modules meet: the tenant of an authenticated
   context (`FeatureTests`) as the input of `TenantContext`; in `TenantRegistry` what
   remains of `EmptyMeansReady` after a restart.
2. `Dispatch`: `OperationsMapping`, the cache of `@DefaultTenant`, validation, the
   order of handle, metrics, effects and errors.
3. `Executor`: `DefaultSideEffectsHandler`, `HookServiceAdapter` (several items, one
   failing; the same uuid twice), recurrent schedules, and their composition with
   `SideEffects`' delivery of hooks.
4. The simple client's handler on the publisher's thread in `TenantContext`.
5. `Locks`: `withLock` with its lease, `ExecutorHelper.await` and
   `PubSubReadiness.await` against their time-outs.
6. Pure algorithms with boundaries: paging, durations, ids; TLC only where they
   recurse.

Runs of one module are merged where their questions allow it.
