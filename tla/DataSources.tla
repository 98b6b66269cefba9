----------------------------- MODULE DataSources -----------------------------
(***************************************************************************)
(* ExtDataSource: the data source of a tenant, made from the template, and *)
(* the connection pools it shares with others.                             *)
(*                                                                         *)
(* The configuration's template carries the placeholder in the database's  *)
(* name or in the schema's; ofTenant replaces it in both.  A pool is kept  *)
(* per base URL in the static map UNIQDS, and a connection taken from it   *)
(* is switched to the schema of the source it is taken through.  Through   *)
(* that connection DBHandleProvider runs single statements and whole       *)
(* transactions, the latter again when the database reports a deadlock.    *)
(***************************************************************************)
EXTENDS Naturals, FiniteSets

CONSTANTS
    Tenants,         \* names of tenants, of their databases and of their schemas
    Placeholder,     \* "__tenant__"
    NoSchema,        \* a URL without the parameter schema
    Lower, Upper,    \* Lower[x], Upper[x]: the name x in lower and in upper case
    Public,          \* the schema a connection has by itself
    Deployments,     \* the configurations considered: [engine, default, template]
    Threads,         \* threads that make one source and use it
    Transactors,     \* those among them that run transactions
    NoPool, NoSource, NoConnection,
    MaxFailures      \* bound: refused connections and schemas

(* The case a database gives a name that is not quoted, and create the     *)
(* parameter schema.                                                       *)
Folded(engine, x) == IF engine = "h2" THEN Upper[x] ELSE Lower[x]

(* The part of a URL before "?" and its parameter schema.  The database is *)
(* connected to as written, baseUrl is in lower case.                      *)
Create(engine, db, schema) ==
    [url |-> db, base |-> Lower[db], schema |-> Folded(engine, schema)]

Placeholders == {Placeholder, Upper[Placeholder]}

IsTenantTemplate(s) == s.url \in Placeholders \/ s.schema \in Placeholders

Replace(text, t) == IF text \in Placeholders THEN t ELSE text

(* ofTenant: the tenant as it is spelled; the base URL stays the           *)
(* template's.                                                             *)
OfTenant(s, t) ==
    IF IsTenantTemplate(s)
    THEN [url |-> Replace(s.url, t), base |-> s.base, schema |-> Replace(s.schema, t)] ELSE s

(* The sources of a deployment: the default one and those of its tenants.  *)
SourcesOf(d) == {d.default} \cup {OfTenant(d.template, t) : t \in Tenants}

Sources == UNION {SourcesOf(d) : d \in Deployments}
BaseUrls == {s.base : s \in Sources}
Databases == {s.url : s \in Sources}
Schemas == {s.schema : s \in Sources} \cup {Lower[s.schema] : s \in Sources}
           \cup {Upper[s.schema] : s \in Sources} \cup {Public}

ASSUME DataSourcesAssumption ==
    /\ \A d \in Deployments :
         /\ d.engine \in {"h2", "pg"}
         /\ ~ IsTenantTemplate(d.default) /\ IsTenantTemplate(d.template)
         /\ \A s \in {d.default, d.template} : s = Create(d.engine, s.url, s.schema)
    /\ (Placeholders \cup {NoSchema}) \cap Tenants = {}
    /\ NoSchema \notin Placeholders
    /\ Lower[NoSchema] = NoSchema /\ Upper[NoSchema] = NoSchema
    /\ Transactors \subseteq Threads
    /\ NoPool \notin Threads /\ NoSource \notin Sources
    /\ {NoPool, NoConnection} \cap [db : Databases, schema : Schemas] = {}
    /\ MaxFailures \in Nat

(* int retries = 3.                                                        *)
Retries == 3

VARIABLES
    deployment,   \* the configuration this process runs with
    pc,           \* where each thread is in getDataSource and after it
    source,       \* the source each thread makes
    pool,         \* its field dataSource
    pools,        \* the pool a thread created: its database and its own schema
    UNIQDS,       \* the pool recorded for a base URL
    schemas,      \* the schemas that exist, by database
    idle,         \* schemas that connections of a pool were left in
    connection,   \* the connection each thread holds
    raced,        \* history: two threads made a pool for one base URL at once
    failures,
    retries,      \* inTransaction: its local retries
    commits,      \* times the work of the call at hand was committed
    answer        \* how that call ended

transactionVars == <<retries, commits, answer>>

vars == <<deployment, pc, source, pool, pools, UNIQDS, schemas, idle, connection, raced, failures,
          retries, commits, answer>>

TypeOK ==
    /\ deployment \in Deployments
    /\ pc \in [Threads -> {"new", "lookup", "create", "record", "schema", "ready", "ended",
                        "attempt", "work"}]
    /\ source \in [Threads -> Sources \cup {NoSource}]
    /\ pool \in [Threads -> Threads \cup {NoPool}]
    /\ pools \in [Threads -> [db : Databases, schema : Schemas] \cup {NoPool}]
    /\ UNIQDS \in [BaseUrls -> Threads \cup {NoPool}]
    /\ schemas \subseteq Databases \X Schemas
    /\ idle \in [Threads -> SUBSET Schemas]
    /\ connection \in [Threads -> [db : Databases, schema : Schemas] \cup {NoConnection}]
    /\ raced \in BOOLEAN
    /\ failures \in Nat
    /\ retries \in [Threads -> 0 .. Retries]
    /\ commits \in [Threads -> Nat]
    /\ answer \in [Threads -> {"none", "returned", "deadlock", "error"}]

Init ==
    /\ deployment \in Deployments
    /\ pc = [p \in Threads |-> "new"]
    /\ source = [p \in Threads |-> NoSource]
    /\ pool = [p \in Threads |-> NoPool]
    /\ pools = [p \in Threads |-> NoPool]
    /\ UNIQDS = [b \in BaseUrls |-> NoPool]
    /\ schemas = {<<d, Public>> : d \in Databases}
    /\ idle = [p \in Threads |-> {}]
    /\ connection = [p \in Threads |-> NoConnection]
    /\ raced = FALSE
    /\ failures = 0
    /\ retries = [p \in Threads |-> 0]
    /\ commits = [p \in Threads |-> 0]
    /\ answer = [p \in Threads |-> "none"]

Goto(p, l) == pc' = [pc EXCEPT ![p] = l]

(* An exception ends the making of the source; nobody gets to see it.      *)
Throws(p) == failures < MaxFailures /\ failures' = failures + 1 /\ Goto(p, "ended")

-----------------------------------------------------------------------------
(* create or ofTenant, up to afterPropertiesSet.                           *)
Make(p) ==
    /\ pc[p] = "new"
    /\ \E s \in SourcesOf(deployment) : source' = [source EXCEPT ![p] = s]
    /\ Goto(p, "lookup")
    /\ UNCHANGED <<pool, pools, UNIQDS, schemas, idle, connection, raced, failures>>

MakingPool(p, b) == pc[p] \in {"create", "record"} /\ source[p].base = b

(* getDataSource: UNIQDS.containsKey, then UNIQDS.get.                     *)
Lookup(p) ==
    /\ pc[p] = "lookup"
    /\ LET b == source[p].base
       IN \/ /\ UNIQDS[b] # NoPool
             /\ pool' = [pool EXCEPT ![p] = UNIQDS[b]]
             /\ Goto(p, "schema")
             /\ UNCHANGED raced
          \/ /\ UNIQDS[b] = NoPool
             /\ raced' = (raced \/ \E q \in Threads : MakingPool(q, b))
             /\ Goto(p, "create")
             /\ UNCHANGED pool
    /\ UNCHANGED <<source, pools, UNIQDS, schemas, idle, connection, failures>>

(* DBHelper.createDataSource: the pool connects to the source's own URL.   *)
(* On PostgreSQL it creates the source's schema and starts in it.  (On H2  *)
(* it upper-cases the source's schema, as every use of it there does.)     *)
CreatePool(p) ==
    /\ pc[p] = "create"
    /\ LET s == source[p]
           named == deployment.engine = "pg" /\ s.schema # NoSchema
       IN \/ /\ pools' = [pools EXCEPT ![p] =
                            [db |-> s.url, schema |-> IF named THEN s.schema ELSE Public]]
             /\ pool' = [pool EXCEPT ![p] = p]
             /\ schemas' = IF named THEN schemas \cup {<<s.url, Lower[s.schema]>>} ELSE schemas
             /\ Goto(p, "record")
             /\ UNCHANGED failures
          \/ Throws(p) /\ UNCHANGED <<pools, pool, schemas>>
    /\ UNCHANGED <<source, UNIQDS, idle, connection, raced>>

(* Mutant: the pool is not recorded.                                       *)
Record_Not(p) ==
    /\ pc[p] = "record"
    /\ Goto(p, "schema")
    /\ UNCHANGED <<source, pool, pools, UNIQDS, schemas, idle, connection, raced, failures>>

(* UNIQDS.put.                                                             *)
Record(p) ==
    /\ pc[p] = "record"
    /\ UNIQDS' = [UNIQDS EXCEPT ![source[p].base] = p]
    /\ Goto(p, "schema")
    /\ UNCHANGED <<source, pool, pools, schemas, idle, connection, raced, failures>>

(* The name the statement "create schema if not exists ..." makes.         *)
Unquoted(schema) == Folded(deployment.engine, schema)

(* Mutant: only the source that made the pool creates its schema.          *)
CreateSchema_First(p) ==
    /\ pc[p] = "schema"
    /\ schemas' = IF pool[p] = p THEN schemas \cup {<<pools[p].db, Unquoted(source[p].schema)>>}
                  ELSE schemas
    /\ Goto(p, "ready")
    /\ UNCHANGED <<source, pool, pools, UNIQDS, idle, connection, raced, failures>>

(* createSchema, through the pool, in whatever database that is.           *)
CreateSchema(p) ==
    /\ pc[p] = "schema"
    /\ \/ /\ source[p].schema = NoSchema
          /\ Goto(p, "ready")
          /\ UNCHANGED <<schemas, failures>>
       \/ /\ source[p].schema # NoSchema
          /\ schemas' = schemas \cup {<<pools[pool[p]].db, Unquoted(source[p].schema)>>}
          /\ Goto(p, "ready")
          /\ UNCHANGED failures
       \/ /\ source[p].schema # NoSchema
          /\ Throws(p)
          /\ UNCHANGED schemas
    /\ UNCHANGED <<source, pool, pools, UNIQDS, idle, connection, raced>>

-----------------------------------------------------------------------------
(* Connections.                                                            *)

(* The schema the users of a source are sent to: on H2 in upper case, on   *)
(* PostgreSQL, where the driver quotes it, as it is spelled.               *)
HomeOn(engine, s) ==
    IF s.schema = NoSchema THEN Public
    ELSE IF engine = "h2" THEN Upper[s.schema] ELSE s.schema

Home(s) == HomeOn(deployment.engine, s)

(* Mutant: a connection is switched the first time only.                   *)
WithSchema_Once(s, current) ==
    IF current # Public \/ s.schema = NoSchema THEN current ELSE Home(s)

(* Mutant: the schema of the template.                                     *)
WithSchema_Template(s, current) == Placeholder

(* withSchema: on H2 a source without a schema takes the connection as it  *)
(* comes.                                                                  *)
WithSchema(s, current) ==
    IF s.schema = NoSchema /\ deployment.engine = "h2" THEN current ELSE Home(s)

(* getConnection: a new connection of the pool or one that was given back. *)
Take(p) ==
    /\ connection[p] = NoConnection
    /\ \E current \in {pools[pool[p]].schema} \cup idle[pool[p]] :
         connection' = [connection EXCEPT ![p] =
             [db |-> pools[pool[p]].db, schema |-> WithSchema(source[p], current)]]
    /\ UNCHANGED idle

(* The pool hands the connection on in the schema it was left in, unless   *)
(* the pool has a schema of its own.                                       *)
Return(p) ==
    /\ connection' = [connection EXCEPT ![p] = NoConnection]
    /\ idle' = IF pools[pool[p]].schema = Public
               THEN [idle EXCEPT ![pool[p]] = @ \cup {connection[p].schema}] ELSE idle

(* A connection that broke is not handed on.                               *)
Discard(p) == connection' = [connection EXCEPT ![p] = NoConnection] /\ UNCHANGED idle

(* useHandle and withHandle: one statement, then the handle is closed.     *)
OpenHandle(p) ==
    /\ pc[p] = "ready" /\ Take(p)
    /\ UNCHANGED <<pc, source, pool, pools, UNIQDS, schemas, raced, failures, transactionVars>>

CloseHandle(p) ==
    /\ pc[p] = "ready" /\ connection[p] # NoConnection /\ Return(p)
    /\ UNCHANGED <<pc, source, pool, pools, UNIQDS, schemas, raced, failures, transactionVars>>

-----------------------------------------------------------------------------
(* inTransaction.                                                          *)

InTransaction(p) ==
    /\ p \in Transactors /\ pc[p] = "ready" /\ connection[p] = NoConnection
    /\ retries' = [retries EXCEPT ![p] = Retries]
    /\ commits' = [commits EXCEPT ![p] = 0]
    /\ answer' = [answer EXCEPT ![p] = "none"]
    /\ Goto(p, "attempt")
    /\ UNCHANGED <<source, pool, pools, UNIQDS, schemas, idle, connection, raced, failures>>

(* Jdbi.inTransaction: a handle, BEGIN, the caller's function.             *)
Attempt(p) ==
    /\ pc[p] = "attempt" /\ Take(p)
    /\ Goto(p, "work")
    /\ UNCHANGED <<source, pool, pools, UNIQDS, schemas, raced, failures, transactionVars>>

(* The call ends, by return or by exception.                               *)
Answers(p, a) ==
    /\ answer' = [answer EXCEPT ![p] = a]
    /\ Goto(p, "ready")
    /\ UNCHANGED retries

Commit(p) ==
    /\ pc[p] = "work"
    /\ commits' = [commits EXCEPT ![p] = @ + 1]
    /\ Return(p) /\ Answers(p, "returned")
    /\ UNCHANGED <<source, pool, pools, UNIQDS, schemas, raced, failures>>

(* Mutant: every error of the database is tried again.                     *)
TriedAgain_Always(p, error) == retries[p] > 0

(* The first three times the error's message contains "deadlock"; the      *)
(* fourth attempt is outside the try.                                      *)
TriedAgain(p, error) == error = "deadlock" /\ retries[p] > 0

AfterError(p, error) ==
    \/ /\ TriedAgain(p, error)
       /\ retries' = [retries EXCEPT ![p] = @ - 1]
       /\ Goto(p, "attempt")
       /\ UNCHANGED answer
    \/ ~ TriedAgain(p, error) /\ Answers(p, error)

(* The victim of a deadlock, or a statement that is refused: the           *)
(* transaction is rolled back.                                             *)
RollBack(p) ==
    /\ pc[p] = "work" /\ Return(p)
    /\ \E error \in {"deadlock", "error"} : AfterError(p, error)
    /\ UNCHANGED <<source, pool, pools, UNIQDS, schemas, raced, failures, commits>>

(* The connection breaks at COMMIT, before or after the database has done  *)
(* it: the caller cannot tell.                                             *)
LoseAnswer(p) ==
    /\ pc[p] = "work" /\ Discard(p)
    /\ \E done \in {0, 1} : commits' = [commits EXCEPT ![p] = @ + done]
    /\ AfterError(p, "error")
    /\ UNCHANGED <<source, pool, pools, UNIQDS, schemas, raced, failures>>

Transact(p) ==
    InTransaction(p) \/ Attempt(p) \/ Commit(p) \/ RollBack(p) \/ LoseAnswer(p)

Source(p) == Make(p) \/ Lookup(p) \/ CreatePool(p) \/ Record(p) \/ CreateSchema(p)

Next ==
    /\ \E p \in Threads :
         \/ Source(p) /\ UNCHANGED transactionVars
         \/ OpenHandle(p) \/ CloseHandle(p)
         \/ Transact(p)
    /\ UNCHANGED deployment

Spec == Init /\ [][Next]_vars

-----------------------------------------------------------------------------
(* Properties.                                                             *)

(* Whoever works through a source works in that source's database and      *)
(* schema, whatever the connection was used for before, and two sources    *)
(* never lead to the same place: tenants that share a pool do not see each *)
(* other's tables (ExtDataSource.java:229, 277-287).                       *)
OwnTables ==
    /\ \A p \in Threads : connection[p] # NoConnection =>
         /\ connection[p].db = source[p].url
         /\ connection[p].schema = Home(source[p])
    /\ \A p, q \in Threads :
         /\ connection[p] # NoConnection /\ connection[q] # NoConnection
         /\ source[p] # source[q]
         => connection[p] # connection[q]

(* Nobody works in a schema that does not exist.  A tenant with a capital  *)
(* on PostgreSQL is the exception: its schema is created in lower case and *)
(* used as it is spelled (ExtDataSource.java:106, 285).                    *)
SchemaExists ==
    \A p \in Threads :
        connection[p] # NoConnection /\ Home(source[p]) \in {Public, Unquoted(source[p].schema)}
        => <<connection[p].db, connection[p].schema>> \in schemas

(* A call of inTransaction commits its work at most once, whatever fails   *)
(* and however often it is tried: just once when it returns, never when    *)
(* the caller is told of a deadlock.  Only an error at COMMIT leaves open  *)
(* whether it was.                                                         *)
CommittedOnce ==
    \A p \in Threads :
        /\ commits[p] <= 1
        /\ answer[p] = "returned" => commits[p] = 1
        /\ answer[p] = "deadlock" => commits[p] = 0

(* A base URL gets a second pool only if two threads made theirs at the    *)
(* same moment: once one is recorded, every later source shares it.        *)
SecondPoolNeedsARace ==
    \A p, q \in Threads :
        p # q /\ pools[p] # NoPool /\ pools[q] # NoPool /\ source[p].base = source[q].base
        => raced
=============================================================================
