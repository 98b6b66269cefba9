--------------------------- MODULE TenantRegistry ---------------------------
(***************************************************************************)
(* The registry of data sources and the migrations of tenants.             *)
(*                                                                         *)
(* DBImpl keeps a map from a data source's id to its ExtDataSource.  Its   *)
(* constructor registers what the configuration names and migrates it;     *)
(* every ContextRefreshedEvent then starts a thread that registers and     *)
(* migrates the tenants of the tenant query and of the TenantsLoader, and  *)
(* register(names, migrate) does the same for a caller.  All migrations go *)
(* through the Migrator, one object for the whole JVM, whose counter is    *)
(* also the monitor that admits one migration at a time.                   *)
(*                                                                         *)
(* The map ignores case by lower-casing what is looked up, not all that is *)
(* stored, so ids keep their spelling here.                                *)
(***************************************************************************)
EXTENDS Naturals, FiniteSets

CONSTANTS
    Names,           \* spellings of ids of data sources
    LowerCase,       \* LowerCase[n] is n in lower case
    Default,         \* the id "default"
    Template,        \* the id "__tenant__" of the data source tenants are made from
    Configurations,  \* the sets of keys of app.db.datasources a process may start with
    Queried,         \* ids the tenant query returns
    Loaded,          \* ids TenantsLoader.getTenantList returns
    Called,          \* ids register(names, migrate) is called with
    CalledModes,     \* the values of its argument migrate
    Scripts,         \* change logs found on the class path
    Disabled,        \* a migration name that turns migrations off
    Automatic,       \* the delegate's answer "auto"
    True,            \* the migration name "true"
    AppScript,       \* the change log named after the application
    Script,          \* Script[n]: the migration name configured for n, in lower case
    Delegate,        \* Delegate[n]: MigrationDelegate.getMigrationName(n)
    Main,            \* the thread that runs the constructor
    Configurers,     \* threads of ExecutorHelper running configureTenantsBlocking
    Callers,         \* threads calling register(names, migrate)
    NoThread, NoSource,
    MaxFailures,     \* bound: statements the database refuses
    MaxRestarts      \* bound: restarts of the context or of the process

Threads == {Main} \cup Configurers \cup Callers

ASSUME RegistryAssumption ==
    /\ LowerCase \in [Names -> Names]
    /\ \A n \in Names : LowerCase[LowerCase[n]] = LowerCase[n]
    /\ {Default, Template} \cup Queried \cup Loaded \cup Called \subseteq Names
    /\ LowerCase[Default] = Default /\ LowerCase[Template] = Template /\ Default # Template
    /\ \A keys \in Configurations :
         /\ keys \subseteq Names
         /\ \A a, b \in keys : LowerCase[a] = LowerCase[b] => a = b
         /\ \E n \in keys : LowerCase[n] = Default
    /\ Disabled \notin Scripts
    /\ CalledModes \subseteq BOOLEAN
    /\ Main \notin Configurers \cup Callers /\ Configurers \cap Callers = {}
    /\ NoThread \notin Threads
    /\ NoSource \notin [id : Names, maker : Threads]
    /\ MaxFailures \in Nat /\ MaxRestarts \in Nat

(* An ExtDataSource: its id, and who made it.  No thread makes two that    *)
(* are both of any use, so that names the object.                          *)
Sources == [id : Names, maker : Threads]

Source(n, p) == [id |-> n, maker |-> p]

VARIABLES
    context,      \* the application: "down", "booting", "up", "refused"
    registry,     \* DBImpl.registry, NoSource where there is no entry
    migrated,     \* the sources whose flag migrated is set
    lock,         \* the thread inside synchronized (counter)
    counter,      \* Migrator.counter
    pendingJobs,  \* Migrator.pendingJobs, by the id in the job's name
    thread,       \* what each thread is doing
    schema,       \* the change log applied to a name's database, Disabled if none
    failed,       \* history: names whose migration failed in this process
    ignored,      \* history: names for which it failed and the Migrator went on
    runs,         \* history: migrations started for a name in this process
    hindered,     \* history: the names a refresh lost to a failure of its own
    failures, restarts

migrator == <<lock, counter, pendingJobs>>
history  == <<failed, ignored, runs, hindered>>
bounds   == <<failures, restarts>>
vars     == <<context, registry, migrated, migrator, thread, schema, history, bounds>>

PCs == {"idle", "walk", "load", "pick", "check", "put", "apply",
        "enter", "migrate", "mark", "callback", "leave", "done"}

InMigrator == {"migrate", "mark", "callback", "leave"}

(* todo are the names still to be treated, mode the argument migrate.      *)
Task(pc, todo, name, source, mode) ==
    [pc |-> pc, todo |-> todo, name |-> name, source |-> source, mode |-> mode]

Tasks == [pc : PCs, todo : SUBSET Names, name : Names,
          source : Sources \cup {NoSource}, mode : BOOLEAN]

Idle == Task("idle", {}, Default, NoSource, TRUE)

TypeOK ==
    /\ context \in {"down", "booting", "up", "refused"}
    /\ registry \in [Names -> Sources \cup {NoSource}]
    /\ migrated \subseteq Sources
    /\ lock \in Threads \cup {NoThread}
    /\ counter \in Nat
    /\ pendingJobs \subseteq Names
    /\ thread \in [Threads -> Tasks]
    /\ schema \in [Names -> Scripts \cup {Disabled}]
    /\ failed \subseteq Names /\ ignored \subseteq Names
    /\ hindered \subseteq Configurers \X Names
    /\ runs \in [Names -> Nat]
    /\ failures \in Nat /\ restarts \in Nat

Init ==
    /\ context = "down"
    /\ registry = [n \in Names |-> NoSource]
    /\ migrated = {}
    /\ lock = NoThread /\ counter = 0 /\ pendingJobs = {}
    /\ thread = [p \in Threads |-> Idle]
    /\ schema = [n \in Names |-> Disabled]
    /\ failed = {} /\ ignored = {} /\ hindered = {} /\ runs = [n \in Names |-> 0]
    /\ failures = 0 /\ restarts = 0

Contains(n) == registry[n] # NoSource

IsTenantReady(n) ==
    /\ Contains(LowerCase[n])
    /\ registry[LowerCase[n]] \in migrated

IsDefault(s) == s.maker = Main /\ LowerCase[s.id] = Default

(* Tenants inherit the migration name of the template.                     *)
OwnScript(s) == IF s.maker = Main THEN Script[LowerCase[s.id]] ELSE Script[Template]

Become(p, t) == thread' = [thread EXCEPT ![p] = t]

Goto(p, pc) == thread' = [thread EXCEPT ![p].pc = pc]

(* The call a thread made for one name has returned: on to the next one.   *)
NextName(p) == Goto(p, IF p = Main THEN "walk" ELSE "pick")

CallFails == failures < MaxFailures /\ failures' = failures + 1

Loses(c, ns) == hindered' = hindered \cup ({c} \X ns)

-----------------------------------------------------------------------------
(* The constructor.                                                        *)

(* The source configured under some spelling of n.                         *)
ConfiguredAs(n, keys) ==
    IF \E k \in keys : LowerCase[k] = n
    THEN Source(CHOOSE k \in keys : LowerCase[k] = n, Main) ELSE NoSource

(* createDatasources registers every configured source, migrate = false.   *)
CreateDatasources ==
    /\ context = "down"
    /\ context' = "booting"
    /\ \E keys \in Configurations :
         /\ registry' = [n \in Names |-> ConfiguredAs(n, keys)]
         /\ Become(Main, Task("walk", {LowerCase[k] : k \in keys}, Default, NoSource, TRUE))
    /\ UNCHANGED <<migrated, migrator, schema, history, bounds>>

(* applyMigrations(keys): the template is passed over.                     *)
Walk ==
    /\ thread[Main].pc = "walk"
    /\ \E n \in thread[Main].todo :
         Become(Main, Task(IF n = Template THEN "walk" ELSE "apply",
                           thread[Main].todo \ {n}, n, registry[n], TRUE))
    /\ UNCHANGED <<context, registry, migrated, migrator, schema, history, bounds>>

Constructed ==
    /\ thread[Main].pc = "walk" /\ thread[Main].todo = {}
    /\ context' = "up"
    /\ Goto(Main, "done")
    /\ UNCHANGED <<registry, migrated, migrator, schema, history, bounds>>

-----------------------------------------------------------------------------
(* Who registers tenants.                                                  *)

(* onApplicationEvent: configureTenantsBlocking on a thread of its own.    *)
Refresh(c) ==
    /\ context = "up" /\ thread[c].pc = "idle"
    /\ Goto(c, "load")
    /\ UNCHANGED <<context, registry, migrated, migrator, schema, history, bounds>>

(* Without a template there is nothing to do.  A query that fails ends the *)
(* thread; a loader that fails leaves the ids of the query.                *)
Load(c) ==
    /\ thread[c].pc = "load"
    /\ \/ /\ Contains(Template)
          /\ Become(c, [thread[c] EXCEPT !.pc = "pick", !.todo = Queried \cup Loaded])
          /\ UNCHANGED <<failures, hindered>>
       \/ /\ Contains(Template) /\ CallFails
          /\ Become(c, [thread[c] EXCEPT !.pc = "pick", !.todo = Queried])
          /\ Loses(c, Loaded \ Queried)
       \/ /\ Contains(Template) /\ CallFails
          /\ Goto(c, "done")
          /\ Loses(c, Queried \cup Loaded)
       \/ /\ ~Contains(Template)
          /\ Goto(c, "done")
          /\ UNCHANGED <<failures, hindered>>
    /\ UNCHANGED <<context, registry, migrated, migrator, schema, failed, ignored, runs, restarts>>

(* register(names, migrate), refused when there is no template.            *)
Call(p) ==
    /\ context = "up" /\ thread[p].pc = "idle"
    /\ IF Contains(Template)
       THEN \E ns \in (SUBSET Called) \ {{}}, mode \in CalledModes :
              Become(p, Task("pick", ns, Default, NoSource, mode))
       ELSE Goto(p, "done")
    /\ UNCHANGED <<context, registry, migrated, migrator, schema, history, bounds>>

(* configureTenants makes the tenant's source under the name it was given, *)
(* before it looks whether the tenant is registered; making it creates the *)
(* tenant's schema, and a tenant for which that fails is passed over.      *)
PickTenant(c) ==
    /\ thread[c].pc = "pick"
    /\ \E n \in thread[c].todo :
         \/ /\ Become(c, Task("check", thread[c].todo \ {n}, n, Source(n, c), TRUE))
            /\ UNCHANGED <<failures, hindered>>
         \/ /\ CallFails
            /\ Become(c, [thread[c] EXCEPT !.todo = @ \ {n}])
            /\ Loses(c, {n})
    /\ UNCHANGED <<context, registry, migrated, migrator, schema, failed, ignored, runs, restarts>>

PickName(p) ==
    /\ thread[p].pc = "pick"
    /\ \E n \in thread[p].todo :
         Become(p, Task("check", thread[p].todo \ {n}, n, NoSource, thread[p].mode))
    /\ UNCHANGED <<context, registry, migrated, migrator, schema, history, bounds>>

Finish(p) ==
    /\ thread[p].pc = "pick" /\ thread[p].todo = {}
    /\ Goto(p, "done")
    /\ UNCHANGED <<context, registry, migrated, migrator, schema, history, bounds>>

(* register(id, config, migrate): look first, put or migrate later.  A     *)
(* caller's tenant gets its source here, under its lower-case name; if     *)
(* that fails the exception ends the caller's call.                        *)
Check(p) ==
    /\ thread[p].pc = "check"
    /\ LET id == LowerCase[thread[p].name]
           pc == IF thread[p].mode THEN "apply" ELSE "put"
       IN \/ /\ Contains(id)
             /\ NextName(p)
             /\ UNCHANGED failures
          \/ /\ ~Contains(id) /\ thread[p].source # NoSource
             /\ Goto(p, pc)
             /\ UNCHANGED failures
          \/ /\ ~Contains(id) /\ thread[p].source = NoSource
             /\ Become(p, [thread[p] EXCEPT !.pc = pc, !.source = Source(id, p)])
             /\ UNCHANGED failures
          \/ /\ ~Contains(id) /\ thread[p].source = NoSource /\ CallFails
             /\ Goto(p, "done")
    /\ UNCHANGED <<context, registry, migrated, migrator, schema, history, restarts>>

(* migrate = false: registered as it is.                                   *)
Put(p) ==
    /\ thread[p].pc = "put"
    /\ registry' = [registry EXCEPT ![LowerCase[thread[p].name]] = thread[p].source]
    /\ NextName(p)
    /\ UNCHANGED <<context, migrated, migrator, schema, history, bounds>>

-----------------------------------------------------------------------------
(* Migrations.                                                             *)

(* The change log applyMigrations settles on for an id and the change log  *)
(* of its source: the delegate is asked under the id, and                  *)
(* findChangeLogPath knows "true".                                         *)
SettledOn(id, own) ==
    LET name == IF id # Default /\ Delegate[id] # Automatic THEN Delegate[id] ELSE own
    IN IF name = True THEN AppScript ELSE name

Chosen(t) == SettledOn(LowerCase[t.name], OwnScript(t.source))

(* Mutant: register lets the exception through.                            *)
Throws_Through(p) ==
    IF p = Main THEN context' = "refused" /\ Goto(Main, "done")
                ELSE Goto(p, "done") /\ UNCHANGED context

(* A missing change log is an exception: the constructor ends with it,     *)
(* register logs it.                                                       *)
Throws(p) ==
    IF p = Main THEN context' = "refused" /\ Goto(Main, "done")
                ELSE NextName(p) /\ UNCHANGED context

(* applyMigrations(datasource, info) up to the call of the Migrator.       *)
Apply(p) ==
    /\ thread[p].pc = "apply"
    /\ \/ /\ thread[p].source \in migrated \/ Chosen(thread[p]) = Disabled
          /\ NextName(p) /\ UNCHANGED context
       \/ /\ thread[p].source \notin migrated
          /\ Chosen(thread[p]) \notin Scripts \cup {Disabled}
          /\ Throws(p)
       \/ /\ thread[p].source \notin migrated /\ Chosen(thread[p]) \in Scripts
          /\ Goto(p, "enter") /\ UNCHANGED context
    /\ UNCHANGED <<registry, migrated, migrator, schema, history, bounds>>

MonitorFree == lock = NoThread

(* Mutant: only the last name is remembered.                               *)
Remembered_Last(n) == {n}

(* A name is taken once, whatever becomes of its migration.                *)
Remembered(n) == pendingJobs \cup {n}

(* Mutant: a name already submitted goes straight to its callback.         *)
AlreadySubmitted_CallsBack(p) ==
    Goto(p, "callback") /\ lock' = p /\ UNCHANGED <<counter, pendingJobs>>

AlreadySubmitted(p) == NextName(p) /\ UNCHANGED migrator

(* execute(job) or submit(job, callback): enter the monitor.               *)
Enter(p) ==
    /\ thread[p].pc = "enter" /\ MonitorFree
    /\ LET n == thread[p].source.id
       IN \/ /\ n \in pendingJobs
             /\ AlreadySubmitted(p)
             /\ UNCHANGED runs
          \/ /\ n \notin pendingJobs
             /\ lock' = p
             /\ counter' = counter + 1
             /\ pendingJobs' = Remembered(n)
             /\ runs' = [runs EXCEPT ![n] = @ + 1]
             /\ Goto(p, "migrate")
    /\ UNCHANGED <<context, registry, migrated, schema, failed, ignored, hindered, bounds>>

(* Mutant: the counter goes down when a migration fails.                   *)
AfterFailure_CountsDown(p) ==
    /\ lock' = NoThread /\ counter' = counter - 1
    /\ IF IsDefault(thread[p].source) THEN Throws(p) ELSE NextName(p) /\ UNCHANGED context

(* Mutant: onNext does not return after a failure.                         *)
AfterFailure_GoesOn(p) == Goto(p, "mark") /\ UNCHANGED <<context, lock, counter>>

(* submit has logged the exception and returns, execute lets it through;   *)
(* neither takes the name back nor counts down.                            *)
AfterFailure(p) ==
    /\ lock' = NoThread /\ UNCHANGED counter
    /\ IF IsDefault(thread[p].source) THEN Throws(p) ELSE NextName(p) /\ UNCHANGED context

(* Liquibase runs the change log the source carries, not the one settled   *)
(* on, which may not be found.  An exception saying that the change log's  *)
(* table already exists is taken for a migration that ran twice: it is     *)
(* ignored, and what follows is what follows a success.                    *)
Migrate(p) ==
    /\ thread[p].pc = "migrate"
    /\ LET s == thread[p].source
       IN \/ /\ OwnScript(s) \in Scripts
             /\ schema' = [schema EXCEPT ![s.id] = OwnScript(s)]
             /\ Goto(p, "mark")
             /\ UNCHANGED <<context, lock, counter, failed, ignored, failures>>
          \/ /\ OwnScript(s) \in Scripts /\ CallFails
             /\ ignored' = ignored \cup {s.id}
             /\ Goto(p, "mark")
             /\ UNCHANGED <<context, lock, counter, failed, schema>>
          \/ /\ \/ OwnScript(s) \in Scripts /\ CallFails
                \/ OwnScript(s) \notin Scripts /\ UNCHANGED failures
             /\ failed' = failed \cup {s.id}
             /\ AfterFailure(p)
             /\ UNCHANGED <<schema, ignored>>
    /\ UNCHANGED <<registry, migrated, pendingJobs, runs, hindered, restarts>>

(* Mutant: the counter goes down before the callback.                      *)
Mark_CountsDown(p) ==
    /\ thread[p].pc = "mark"
    /\ migrated' = migrated \cup {thread[p].source}
    /\ counter' = counter - 1
    /\ Goto(p, "callback")
    /\ UNCHANGED <<context, registry, lock, pendingJobs, schema, history, bounds>>

(* job.setMigrated(true).                                                  *)
Mark(p) ==
    /\ thread[p].pc = "mark"
    /\ migrated' = migrated \cup {thread[p].source}
    /\ Goto(p, "callback")
    /\ UNCHANGED <<context, registry, migrator, schema, history, bounds>>

(* The callback registers the source under its id as it is spelled.        *)
Callback(p) ==
    /\ thread[p].pc = "callback"
    /\ registry' = [registry EXCEPT ![thread[p].source.id] = thread[p].source]
    /\ Goto(p, "leave")
    /\ UNCHANGED <<context, migrated, migrator, schema, history, bounds>>

(* Mutant: the counter goes down twice.                                    *)
Leave_CountsTwice(p) ==
    /\ thread[p].pc = "leave"
    /\ counter' = counter - 2
    /\ lock' = NoThread
    /\ NextName(p)
    /\ UNCHANGED <<context, registry, migrated, pendingJobs, schema, history, bounds>>

Leave(p) ==
    /\ thread[p].pc = "leave"
    /\ counter' = counter - 1
    /\ lock' = NoThread
    /\ NextName(p)
    /\ UNCHANGED <<context, registry, migrated, pendingJobs, schema, history, bounds>>

-----------------------------------------------------------------------------
(* Restarts.                                                               *)

Forget ==
    /\ restarts < MaxRestarts /\ restarts' = restarts + 1
    /\ context' = "down"
    /\ registry' = [n \in Names |-> NoSource]
    /\ migrated' = {}
    /\ thread' = [p \in Threads |-> Idle]
    /\ hindered' = {}
    /\ UNCHANGED <<schema, failures>>

(* A second application context in the same JVM: a new DBImpl, the same    *)
(* Migrator.  Only once the threads of the first one are done.             *)
RestartContext ==
    /\ context \in {"up", "refused"}
    /\ \A p \in Threads : thread[p].pc \in {"idle", "done"}
    /\ Forget
    /\ UNCHANGED <<migrator, failed, ignored, runs>>

(* A new process, at any moment; the databases keep what was applied.      *)
RestartProcess ==
    /\ context # "down"
    /\ Forget
    /\ lock' = NoThread /\ counter' = 0 /\ pendingJobs' = {}
    /\ failed' = {} /\ ignored' = {} /\ runs' = [n \in Names |-> 0]

Registering(p) ==
    Check(p) \/ Put(p) \/ Apply(p) \/ Enter(p) \/ Migrate(p) \/ Mark(p) \/ Callback(p) \/ Leave(p)

Boot == CreateDatasources \/ Walk \/ Constructed \/ Registering(Main)

Configurer(c) == Refresh(c) \/ Load(c) \/ PickTenant(c) \/ Finish(c) \/ Registering(c)

Caller(p) == Call(p) \/ PickName(p) \/ Finish(p) \/ Registering(p)

Next ==
    \/ Boot
    \/ \E c \in Configurers : Configurer(c)
    \/ \E p \in Callers : Caller(p)
    \/ RestartContext
    \/ RestartProcess

Spec == Init /\ [][Next]_vars

(* Every thread of the process that has something to do gets to do it; the *)
(* monitor is free again after every migration.                            *)
Fairness ==
    /\ WF_vars(Boot)
    /\ \A c \in Configurers : WF_vars(Configurer(c))
    /\ \A p \in Callers : WF_vars(Registering(p))

FairSpec == Spec /\ Fairness

-----------------------------------------------------------------------------
(* Properties.                                                             *)

(* One migration runs at a time: whoever works on a database holds the     *)
(* monitor of Migrator.counter, and whoever holds it is at work.           *)
OneMigrationAtATime ==
    \A p \in Threads : thread[p].pc \in InMigrator <=> lock = p

(* The counter says how many taken names have not been dealt with: the one *)
(* being migrated and those whose migration failed, which stay counted.    *)
CounterExact ==
    counter = Cardinality(failed \cup {thread[p].source.id : p \in {q \in Threads : lock = q}})

(* A name is migrated at most once in a process, however many threads      *)
(* found it missing in the registry.                                       *)
OncePerProcess == \A n \in Names : runs[n] <= 1

(* A source marked as migrated has its own change log in its database,     *)
(* across failures and restarts, unless Liquibase could not apply it and   *)
(* the exception was the one the Migrator ignores (Migrator.java:182).     *)
MigratedMeansApplied ==
    \A s \in migrated : s.id \in ignored \/ schema[s.id] = OwnScript(s)

(* A tenant that can be found is migrated, in memory and in its database:  *)
(* after no interleaving of refreshes and callers, and no other failure    *)
(* than the ignored one, does determineTargetDataSource hand out a tenant  *)
(* without its tables (DBImpl.java:198, Migrator.java:182).                *)
FoundMeansMigrated ==
    \A n \in Names :
        Contains(n) /\ registry[n].maker # Main =>
            /\ registry[n] \in migrated
            /\ registry[n].id \in ignored \/ schema[registry[n].id] # Disabled

(* When the Migrator says it is empty, every name it ever took is          *)
(* registered under its spelling and migrated.                             *)
EmptyMeansReady ==
    counter = 0 => \A n \in pendingJobs : Contains(n) /\ registry[n] \in migrated

(* A tenant that is ready stays ready as long as the application runs.     *)
ReadyForEver ==
    [][\A n \in Names : IsTenantReady(n) /\ context' # "down" => IsTenantReady(n)']_vars

(* Where there is a template, every tenant of the loader for which the     *)
(* check finds a change log becomes ready, unless the database fails its   *)
(* own migration, or in every refresh the query or the loader failed or    *)
(* its schema could not be made (DBImpl.java:347, 364, 374): no other      *)
(* tenant keeps it out, whether it fails or has no change log.             *)
LoadedBecomeReady ==
    \A t \in {n \in Loaded : SettledOn(LowerCase[n], Script[Template]) \in Scripts} :
        (context = "up" /\ registry[Template] # NoSource)
            ~> \/ context # "up" \/ IsTenantReady(t)
               \/ t \in failed /\ Script[Template] \in Scripts
               \/ \A c \in Configurers : <<c, t>> \in hindered
=============================================================================
