-------------------------- MODULE DataSourcesProofs --------------------------
(***************************************************************************)
(* Proofs about DataSources, for any number of threads, tenants, failures  *)
(* and transactions.                                                       *)
(***************************************************************************)
EXTENDS DataSourcesInvariant, TLAPS

-----------------------------------------------------------------------------
(* Sources.                                                                *)

(* The parts of a deployment's sources are names the variables may hold,   *)
(* and so are the schema a database makes of a source's and the one its    *)
(* users are sent to.                                                      *)
LEMMA SourceParts ==
  ASSUME NEW d \in Deployments, NEW s \in SourcesOf(d)
  PROVE  /\ s \in Sources
         /\ s.base \in BaseUrls /\ s.url \in Databases
         /\ s.schema \in Schemas /\ Lower[s.schema] \in Schemas
         /\ Folded(d.engine, s.schema) \in Schemas /\ HomeOn(d.engine, s) \in Schemas
         /\ Public \in Schemas
<1>1. s \in Sources
  BY DEF Sources
<1>2. {s.schema, Lower[s.schema], Upper[s.schema], Public} \subseteq Schemas
  BY <1>1 DEF Schemas
<1> QED BY <1>1, <1>2 DEF BaseUrls, Databases, Folded, HomeOn

(* What the assumption says of one deployment.                             *)
LEMMA DeploymentParts ==
  ASSUME NEW d \in Deployments
  PROVE  /\ IsTenantTemplate(d.template)
         /\ NoSchema \notin Tenants /\ NoSchema \notin Placeholders
         /\ \A t \in Tenants : t \notin Placeholders
BY DataSourcesAssumption DEF DataSourcesAssumption

(* With the placeholder in the schema, ofTenant replaces nothing else.     *)
LEMMA TenantSource ==
  ASSUME SchemasOnly, NEW d \in Deployments, NEW t \in Tenants
  PROVE  OfTenant(d.template, t) = [url |-> d.template.url, base |-> d.template.base, schema |-> t]
<1> DEFINE s == d.template
<1>1. s.url \notin Placeholders
  BY DEF SchemasOnly
<1>2. s.schema \in Placeholders /\ IsTenantTemplate(s)
  BY <1>1, DeploymentParts DEF IsTenantTemplate
<1>3. Replace(s.url, t) = s.url /\ Replace(s.schema, t) = t
  BY <1>1, <1>2 DEF Replace
<1> QED BY <1>2, <1>3 DEF OfTenant

(* Then a base URL stands for one database, and where connections are not  *)
(* switched nobody else does.                                              *)
LEMMA SourcesApart ==
  ASSUME SchemasOnly, NEW d \in Deployments, NEW s \in SourcesOf(d), NEW u \in SourcesOf(d),
         u.base = s.base
  PROVE  /\ u.url = s.url
         /\ d.engine = "h2" /\ s.schema = NoSchema => u.schema = NoSchema
<1>1. \A v \in SourcesOf(d) : \/ v = d.default
                              \/ \E t \in Tenants : v = OfTenant(d.template, t)
  BY DEF SourcesOf
<1>2. \A t \in Tenants : /\ OfTenant(d.template, t).url = d.template.url
                         /\ OfTenant(d.template, t).base = d.template.base
                         /\ OfTenant(d.template, t).schema # NoSchema
  <2> SUFFICES ASSUME NEW t \in Tenants
               PROVE  /\ OfTenant(d.template, t).url = d.template.url
                      /\ OfTenant(d.template, t).base = d.template.base
                      /\ OfTenant(d.template, t).schema # NoSchema
    OBVIOUS
  <2>1. OfTenant(d.template, t) = [url |-> d.template.url, base |-> d.template.base, schema |-> t]
    BY TenantSource
  <2> QED BY <2>1, DeploymentParts
<1>3. d.default.base = d.template.base => d.default.url = d.template.url
  BY DEF SchemasOnly
<1>4. u.url = s.url
  BY <1>1, <1>2, <1>3
<1>5. ASSUME d.engine = "h2", s.schema = NoSchema
      PROVE  u.schema = NoSchema
  <2>1. s = d.default
    BY <1>1, <1>2, <1>5
  <2>2. d.default.base # d.template.base
    BY <2>1, <1>5 DEF SchemasOnly
  <2> QED BY <1>1, <1>2, <1>5, <2>1, <2>2
<1> QED BY <1>4, <1>5

(* What a thread at work knows of its source and its pool.                 *)
LEMMA AtWork ==
  ASSUME PoolInv, NEW p \in Threads
  PROVE  /\ pc[p] # "new" =>
              /\ source[p] \in Sources /\ source[p].base \in BaseUrls
              /\ source[p].url \in Databases /\ source[p].schema \in Schemas
              /\ Lower[source[p].schema] \in Schemas
              /\ Unquoted(source[p].schema) \in Schemas /\ Home(source[p]) \in Schemas
         /\ Public \in Schemas
         /\ pools[p] # NoPool =>
              pools[p].db \in Databases /\ pools[p].schema \in Schemas
         /\ connection[p] # NoConnection =>
              connection[p].db \in Databases /\ connection[p].schema \in Schemas
<1>1. deployment \in Deployments
  BY DEF PoolInv, TypeOK
<1>2. pc[p] # "new" => source[p] \in SourcesOf(deployment)
  BY DEF PoolInv, ThreadsAtWork
<1>3. Public \in Schemas
  BY DEF Schemas
<1> QED BY <1>1, <1>2, <1>3, SourceParts DEF PoolInv, TypeOK, Unquoted, Home

-----------------------------------------------------------------------------
(* Initially everything holds: nobody has made anything.                   *)
LEMMA PoolInit == Init => PoolInv
<1> SUFFICES ASSUME Init PROVE PoolInv
  OBVIOUS
<1>1. TypeOK
  <2>1. schemas \subseteq Databases \X Schemas
    BY DEF Init, Schemas
  <2>2. retries \in [Threads -> 0 .. Retries] /\ commits \in [Threads -> Nat]
    BY DEF Init, Retries
  <2>4. /\ answer \in [Threads -> {"none", "returned", "deadlock", "error"}]
        /\ failures \in Nat
    BY DEF Init
  <2>5. raced \in BOOLEAN
    BY DEF Init
  <2>3. /\ pc \in [Threads -> {"new", "lookup", "create", "record", "schema", "ready", "ended",
                              "attempt", "work"}]
        /\ source \in [Threads -> Sources \cup {NoSource}]
        /\ pool \in [Threads -> Threads \cup {NoPool}]
        /\ pools \in [Threads -> [db : Databases, schema : Schemas] \cup {NoPool}]
        /\ UNIQDS \in [BaseUrls -> Threads \cup {NoPool}]
        /\ idle \in [Threads -> SUBSET Schemas]
        /\ connection \in [Threads -> [db : Databases, schema : Schemas] \cup {NoConnection}]
        /\ deployment \in Deployments
    BY DEF Init
  <2> QED BY <2>1, <2>2, <2>3, <2>4, <2>5 DEF TypeOK
<1>2. PoolsAsMade /\ RecordedPools /\ ThreadsAtWork /\ PublicEverywhere
  BY DEF Init, PoolsAsMade, RecordedPools, ThreadsAtWork, PublicEverywhere
<1> QED BY <1>1, <1>2 DEF PoolInv

-----------------------------------------------------------------------------
(* The making of a source.                                                 *)

(* A source is made by a thread that has no pool, so it is nobody's.       *)
LEMMA MakeKeeps ==
  ASSUME PoolInv, NEW p \in Threads, Make(p), UNCHANGED <<deployment, transactionVars>>
  PROVE  PoolInv'
<1>1. PICK s \in SourcesOf(deployment) : source' = [source EXCEPT ![p] = s]
  BY DEF Make
<1>2. s \in Sources /\ deployment \in Deployments
  BY SourceParts DEF PoolInv, TypeOK
<1>3. pools[p] = NoPool /\ NoPool \notin Threads /\ connection[p] = NoConnection
  BY DataSourcesAssumption DEF PoolInv, PoolsAsMade, ThreadsAtWork, Make, DataSourcesAssumption
<1>4. /\ pc' = [pc EXCEPT ![p] = "lookup"] /\ pc[p] = "new"
      /\ UNCHANGED <<pool, pools, UNIQDS, schemas, idle, connection, deployment>>
  BY DEF Make, Goto
<1>5. TypeOK'
  BY <1>1, <1>2 DEF PoolInv, TypeOK, Make, Goto, transactionVars
<1>6. PoolsAsMade'
  BY <1>1, <1>3, <1>4 DEF PoolInv, TypeOK, PoolsAsMade
<1>7. RecordedPools'
  BY <1>1, <1>3, <1>4 DEF PoolInv, TypeOK, RecordedPools
<1>8. ThreadsAtWork'
  <2>1. \A q \in Threads : q # p /\ HasPool(q) => HasPool(q)'
    BY <1>1, <1>3, <1>4 DEF PoolInv, TypeOK, HasPool
  <2> QED BY <1>1, <1>3, <1>4, <2>1 DEF PoolInv, TypeOK, ThreadsAtWork, Unquoted
<1>9. PublicEverywhere'
  BY <1>4 DEF PoolInv, PublicEverywhere
<1> QED BY <1>5, <1>6, <1>7, <1>8, <1>9 DEF PoolInv

(* The pool that getDataSource finds was made for the same base URL.       *)
LEMMA LookupKeeps ==
  ASSUME PoolInv, NEW p \in Threads, Lookup(p), UNCHANGED <<deployment, transactionVars>>
  PROVE  PoolInv'
<1> DEFINE b == source[p].base
<1>1. b \in BaseUrls /\ pc[p] = "lookup" /\ connection[p] = NoConnection
  BY AtWork DEF Lookup, PoolInv, ThreadsAtWork
<1>2. /\ UNCHANGED <<source, pools, UNIQDS, schemas, idle, connection, deployment>>
      /\ \/ UNIQDS[b] # NoPool /\ pool' = [pool EXCEPT ![p] = UNIQDS[b]]
            /\ pc' = [pc EXCEPT ![p] = "schema"]
         \/ UNCHANGED pool /\ pc' = [pc EXCEPT ![p] = "create"]
  BY DEF Lookup, Goto
<1>3. TypeOK'
  <2>1. pool' \in [Threads -> Threads \cup {NoPool}]
    BY <1>1, <1>2 DEF PoolInv, TypeOK
  <2>2. pc' \in [Threads -> {"new", "lookup", "create", "record", "schema", "ready", "ended",
                            "attempt", "work"}]
    BY <1>2 DEF PoolInv, TypeOK
  <2>3. raced' \in BOOLEAN /\ failures' = failures
    BY DEF Lookup, PoolInv, TypeOK
  <2> QED BY <1>2, <2>1, <2>2, <2>3 DEF PoolInv, TypeOK, transactionVars
<1>4. PoolsAsMade'
  BY <1>1, <1>2 DEF PoolInv, TypeOK, PoolsAsMade
<1>5. RecordedPools'
  BY <1>2 DEF PoolInv, RecordedPools
<1>6. ThreadsAtWork'
  <2>1. \A q \in Threads : q # p /\ HasPool(q) => HasPool(q)'
    BY <1>2 DEF PoolInv, TypeOK, HasPool
  <2>2. pc'[p] = "schema" => HasPool(p)'
    BY <1>1, <1>2 DEF PoolInv, TypeOK, RecordedPools, HasPool
  <2>3. pc'[p] \in {"schema", "create"} /\ connection'[p] = NoConnection
    BY <1>1, <1>2 DEF PoolInv, TypeOK
  <2>4. \A q \in Threads : q # p => pc'[q] = pc[q] /\ pool'[q] = pool[q]
    BY <1>2 DEF PoolInv, TypeOK
  <2>5. source[p] \in SourcesOf(deployment)
    BY <1>1 DEF PoolInv, ThreadsAtWork
  <2> SUFFICES ASSUME NEW q \in Threads
               PROVE  /\ pc'[q] # "new" => source[q] \in SourcesOf(deployment)
                      /\ pc'[q] \in {"record", "schema", "ready", "attempt", "work"} => HasPool(q)'
                      /\ pc'[q] \in {"ready", "attempt", "work"} /\ source[q].schema # NoSchema =>
                             <<pools[pool'[q]].db, Unquoted(source[q].schema)>> \in schemas
                      /\ connection'[q] # NoConnection =>
                             /\ pc'[q] \in {"ready", "work"}
                             /\ connection[q].db = pools[pool'[q]].db
                      /\ pc'[q] = "work" => connection[q] # NoConnection
                      /\ pc'[q] = "record" => pool'[q] = q
    BY <1>2 DEF ThreadsAtWork, Unquoted
  <2>6. CASE q = p
    BY <2>2, <2>3, <2>5, <2>6
  <2>7. CASE q # p
    BY <1>2, <2>1, <2>4, <2>7 DEF PoolInv, ThreadsAtWork
  <2> QED BY <2>6, <2>7
<1>7. PublicEverywhere'
  BY <1>2 DEF PoolInv, PublicEverywhere
<1> QED BY <1>3, <1>4, <1>5, <1>6, <1>7 DEF PoolInv

(* A pool is made for the source of the thread that makes it.              *)
LEMMA CreatePoolKeeps ==
  ASSUME PoolInv, NEW p \in Threads, CreatePool(p), UNCHANGED <<deployment, transactionVars>>
  PROVE  PoolInv'
<1> DEFINE s == source[p]
           named == deployment.engine = "pg" /\ s.schema # NoSchema
           made == [db |-> s.url, schema |-> IF named THEN s.schema ELSE Public]
<1>1. /\ pc[p] = "create" /\ connection[p] = NoConnection
      /\ s.url \in Databases /\ s.schema \in Schemas /\ Public \in Schemas
      /\ Lower[s.schema] \in Schemas
  BY AtWork DEF CreatePool, PoolInv, ThreadsAtWork
<1>2. /\ UNCHANGED <<source, UNIQDS, idle, connection, raced, deployment, transactionVars>>
      /\ \/ /\ pools' = [pools EXCEPT ![p] = made] /\ pool' = [pool EXCEPT ![p] = p]
            /\ schemas' \in {schemas, schemas \cup {<<s.url, Lower[s.schema]>>}}
            /\ pc' = [pc EXCEPT ![p] = "record"] /\ failures' = failures
         \/ /\ UNCHANGED <<pools, pool, schemas>>
            /\ pc' = [pc EXCEPT ![p] = "ended"] /\ failures' = failures + 1
  BY DEF CreatePool, Goto, Throws
<1>3. /\ made \in [db : Databases, schema : Schemas] /\ made # NoPool
      /\ made.db = s.url
      /\ deployment.engine = "h2" => made.schema = Public
      /\ s.schema = NoSchema => made.schema = Public
  BY <1>1, DataSourcesAssumption DEF DataSourcesAssumption
<1> HIDE DEF made
<1>4. TypeOK'
  <2>1. pools' \in [Threads -> [db : Databases, schema : Schemas] \cup {NoPool}]
    BY <1>2, <1>3 DEF PoolInv, TypeOK
  <2>2. /\ pool' \in [Threads -> Threads \cup {NoPool}] /\ failures' \in Nat
        /\ pc' \in [Threads -> {"new", "lookup", "create", "record", "schema", "ready",
                               "ended", "attempt", "work"}]
    BY <1>2 DEF PoolInv, TypeOK
  <2>3. schemas' \subseteq Databases \X Schemas
    BY <1>1, <1>2 DEF PoolInv, TypeOK
  <2> QED BY <1>2, <2>1, <2>2, <2>3 DEF PoolInv, TypeOK, transactionVars
<1>5. /\ \A q \in Threads : pools[q] # NoPool =>
            pools'[q] # NoPool /\ pools'[q].db = pools[q].db
      /\ \A q \in Threads : pools'[q] = NoPool => pools[q] = NoPool
  BY <1>2, <1>3 DEF PoolInv, TypeOK, PoolsAsMade
<1>6. PoolsAsMade'
  <2>1. CASE UNCHANGED pools
    BY <1>1, <1>2, <2>1 DEF PoolInv, TypeOK, PoolsAsMade
  <2>2. CASE pools' = [pools EXCEPT ![p] = made]
    BY <1>1, <1>2, <1>3, <2>2 DEF PoolInv, TypeOK, PoolsAsMade
  <2> QED BY <1>2, <2>1, <2>2
<1>7. RecordedPools'
  BY <1>2, <1>5 DEF PoolInv, TypeOK, RecordedPools
<1>8. ThreadsAtWork'
  <2>1. \A q \in Threads : q # p =>
          pool'[q] = pool[q] /\ pc'[q] = pc[q] /\ connection'[q] = connection[q]
    BY <1>2 DEF PoolInv, TypeOK
  <2>2. \A q \in Threads : q # p /\ HasPool(q) =>
          HasPool(q)' /\ pools'[pool[q]].db = pools[pool[q]].db
    BY <1>2, <1>5, <2>1 DEF HasPool
  <2>3. pc'[p] = "record" => HasPool(p)' /\ pool'[p] = p
    BY <1>2, <1>3 DEF PoolInv, TypeOK, HasPool
  <2>4. pc'[p] \in {"record", "ended"}
    BY <1>2 DEF PoolInv, TypeOK
  <2>5. schemas \subseteq schemas'
    BY <1>2
  <2>6. \A q \in Threads : q # p /\ connection[q] # NoConnection => HasPool(q)
    BY DEF PoolInv, ThreadsAtWork
  <2>7. connection'[p] = NoConnection /\ source'[p] \in SourcesOf(deployment')
    BY <1>1, <1>2 DEF PoolInv, ThreadsAtWork
  <2>8. ASSUME NEW q \in Threads, q # p
        PROVE  /\ pc'[q] # "new" => source'[q] \in SourcesOf(deployment')
               /\ pc'[q] \in {"record", "schema", "ready", "attempt", "work"} => HasPool(q)'
               /\ pc'[q] \in {"ready", "attempt", "work"} /\ source'[q].schema # NoSchema =>
                      <<pools'[pool'[q]].db, Unquoted(source[q].schema)'>> \in schemas'
               /\ connection'[q] # NoConnection =>
                      pc'[q] \in {"ready", "work"} /\ connection'[q].db = pools'[pool'[q]].db
               /\ pc'[q] = "work" => connection'[q] # NoConnection
               /\ pc'[q] = "record" => pool'[q] = q
    BY <1>2, <2>1, <2>2, <2>5, <2>6, <2>8 DEF PoolInv, ThreadsAtWork, Unquoted
  <2> QED BY <2>3, <2>4, <2>7, <2>8 DEF ThreadsAtWork
<1>9. PublicEverywhere'
  BY <1>2 DEF PoolInv, PublicEverywhere
<1> QED BY <1>4, <1>6, <1>7, <1>8, <1>9 DEF PoolInv

(* The pool recorded for a base URL is the thread's own.                   *)
LEMMA RecordKeeps ==
  ASSUME PoolInv, NEW p \in Threads, Record(p), UNCHANGED <<deployment, transactionVars>>
  PROVE  PoolInv'
<1> DEFINE b == source[p].base
<1>1. /\ b \in BaseUrls /\ pc[p] = "record" /\ connection[p] = NoConnection /\ HasPool(p)
      /\ pool[p] = p
  BY AtWork DEF Record, PoolInv, ThreadsAtWork
<1>2. /\ UNIQDS' = [UNIQDS EXCEPT ![b] = p] /\ pc' = [pc EXCEPT ![p] = "schema"]
      /\ UNCHANGED <<source, pool, pools, schemas, idle, connection, raced, failures, deployment>>
  BY DEF Record, Goto
<1>3. TypeOK'
  BY <1>1, <1>2 DEF PoolInv, TypeOK, transactionVars
<1>4. PoolsAsMade'
  BY <1>1, <1>2 DEF PoolInv, TypeOK, PoolsAsMade
<1>5. RecordedPools'
  BY <1>1, <1>2 DEF PoolInv, TypeOK, RecordedPools, HasPool
<1>6. ThreadsAtWork'
  <2>1. \A q \in Threads : HasPool(q) => HasPool(q)'
    BY <1>2 DEF HasPool
  <2> QED BY <1>1, <1>2, <2>1 DEF PoolInv, TypeOK, ThreadsAtWork, Unquoted
<1>7. PublicEverywhere'
  BY <1>2 DEF PoolInv, PublicEverywhere
<1> QED BY <1>3, <1>4, <1>5, <1>6, <1>7 DEF PoolInv

(* A thread that goes on has created its schema in its pool's database.    *)
LEMMA CreateSchemaKeeps ==
  ASSUME PoolInv, NEW p \in Threads, CreateSchema(p), UNCHANGED <<deployment, transactionVars>>
  PROVE  PoolInv'
<1> DEFINE s == source[p]
           there == <<pools[pool[p]].db, Unquoted(s.schema)>>
<1>1. /\ pc[p] = "schema" /\ connection[p] = NoConnection /\ HasPool(p)
      /\ Unquoted(s.schema) \in Schemas /\ pools[pool[p]].db \in Databases
  <2>1. pc[p] = "schema" /\ connection[p] = NoConnection /\ HasPool(p)
    BY DEF CreateSchema, PoolInv, ThreadsAtWork
  <2>2. pool[p] \in Threads /\ pools[pool[p]] # NoPool
    BY <2>1 DEF HasPool
  <2> QED BY <2>1, <2>2, AtWork
<1>2. /\ UNCHANGED <<source, pool, pools, UNIQDS, idle, connection, raced, deployment,
                     transactionVars>>
      /\ \/ /\ schemas' = schemas /\ s.schema = NoSchema
            /\ pc' = [pc EXCEPT ![p] = "ready"] /\ failures' = failures
         \/ /\ schemas' = schemas \cup {there}
            /\ pc' = [pc EXCEPT ![p] = "ready"] /\ failures' = failures
         \/ /\ schemas' = schemas
            /\ pc' = [pc EXCEPT ![p] = "ended"] /\ failures' = failures + 1
  BY DEF CreateSchema, Goto, Throws
<1>3. TypeOK'
  <2>1. schemas' \subseteq Databases \X Schemas
    BY <1>1, <1>2 DEF PoolInv, TypeOK
  <2>2. /\ failures' \in Nat
        /\ pc' \in [Threads -> {"new", "lookup", "create", "record", "schema", "ready",
                               "ended", "attempt", "work"}]
    BY <1>2 DEF PoolInv, TypeOK
  <2> QED BY <1>2, <2>1, <2>2 DEF PoolInv, TypeOK, transactionVars
<1>4. PoolsAsMade'
  BY <1>1, <1>2 DEF PoolInv, TypeOK, PoolsAsMade
<1>5. RecordedPools'
  BY <1>2 DEF PoolInv, TypeOK, RecordedPools
<1>6. ThreadsAtWork'
  <2>1. \A q \in Threads : HasPool(q) => HasPool(q)'
    BY <1>2 DEF HasPool
  <2>2. /\ schemas \subseteq schemas'
        /\ pc'[p] = "ready" /\ s.schema # NoSchema => there \in schemas'
    BY <1>2 DEF PoolInv, TypeOK
  <2>3. /\ pc'[p] \in {"ready", "ended"}
        /\ \A q \in Threads : q # p => pc'[q] = pc[q]
    BY <1>2 DEF PoolInv, TypeOK
  <2> QED BY <1>1, <1>2, <2>1, <2>2, <2>3 DEF PoolInv, ThreadsAtWork, Unquoted
<1>7. PublicEverywhere'
  BY <1>2 DEF PoolInv, PublicEverywhere
<1> QED BY <1>3, <1>4, <1>5, <1>6, <1>7 DEF PoolInv

-----------------------------------------------------------------------------
(* Connections and transactions.                                           *)

(* A thread at work has a pool, and what the pool lends is a connection to *)
(* the pool's database.                                                    *)
LEMMA TakeLends ==
  ASSUME PoolInv, NEW p \in Threads, HasPool(p), Home(source[p]) \in Schemas, Take(p)
  PROVE  \E current \in {pools[pool[p]].schema} \cup idle[pool[p]] :
           LET lent == [db |-> pools[pool[p]].db, schema |-> WithSchema(source[p], current)]
           IN /\ connection' = [connection EXCEPT ![p] = lent]
              /\ lent \in [db : Databases, schema : Schemas] /\ lent # NoConnection
<1>1. /\ pool[p] \in Threads
      /\ pools[pool[p]].db \in Databases /\ pools[pool[p]].schema \in Schemas
      /\ Public \in Schemas /\ idle[pool[p]] \subseteq Schemas
  BY AtWork DEF HasPool, PoolInv, TypeOK
<1>2. PICK current \in {pools[pool[p]].schema} \cup idle[pool[p]] :
        connection' = [connection EXCEPT ![p] =
            [db |-> pools[pool[p]].db, schema |-> WithSchema(source[p], current)]]
  BY DEF Take
<1>3. WithSchema(source[p], current) \in Schemas
  BY <1>1, <1>2 DEF WithSchema
<1>4. [db |-> pools[pool[p]].db, schema |-> WithSchema(source[p], current)]
        \in [db : Databases, schema : Schemas]
  BY <1>1, <1>3
<1>5. [db |-> pools[pool[p]].db, schema |-> WithSchema(source[p], current)] # NoConnection
  BY <1>4, DataSourcesAssumption DEF DataSourcesAssumption
<1> QED BY <1>2, <1>4, <1>5

(* What a step with a handle changes: the thread's place, its connection,  *)
(* and what its pool has idle.                                             *)
LEMMA HandleSteps ==
  ASSUME PoolInv, NEW p \in Threads, OpenHandle(p) \/ CloseHandle(p) \/ Transact(p)
  PROVE  /\ UNCHANGED <<source, pool, pools, UNIQDS, schemas, raced, failures>>
         /\ pc[p] \in {"ready", "attempt", "work"}
         /\ \/ pc' = [pc EXCEPT ![p] = "attempt"] /\ UNCHANGED <<connection, idle>>
               /\ connection[p] = NoConnection
            \/ Take(p) /\ ((pc' = pc /\ pc[p] = "ready") \/ pc' = [pc EXCEPT ![p] = "work"])
            \/ /\ Return(p) \/ Discard(p)
               /\ connection[p] # NoConnection
               /\ \E l \in {"ready", "attempt"} : pc' = [pc EXCEPT ![p] = l]
<1>0. /\ pc \in [Threads -> {"new", "lookup", "create", "record", "schema", "ready", "ended",
                             "attempt", "work"}]
      /\ pc[p] = "work" => connection[p] # NoConnection
  BY DEF PoolInv, TypeOK, ThreadsAtWork
<1>1. CASE OpenHandle(p)
  BY <1>1 DEF OpenHandle
<1>2. CASE CloseHandle(p)
  <2>1. pc[p] = "ready" /\ pc' = [pc EXCEPT ![p] = "ready"]
    BY <1>0, <1>2 DEF CloseHandle
  <2> QED BY <1>2, <2>1 DEF CloseHandle
<1>3. CASE InTransaction(p)
  BY <1>3 DEF InTransaction, Goto
<1>4. CASE Attempt(p)
  BY <1>4 DEF Attempt, Goto
<1>5. CASE Commit(p)
  BY <1>0, <1>5 DEF Commit, Answers, Goto
<1>6. CASE RollBack(p)
  BY <1>0, <1>6 DEF RollBack, AfterError, Answers, Goto
<1>7. CASE LoseAnswer(p)
  BY <1>0, <1>7 DEF LoseAnswer, AfterError, Answers, Goto
<1> QED BY <1>1, <1>2, <1>3, <1>4, <1>5, <1>6, <1>7 DEF Transact

(* The counters of a transaction stay in their ranges.                     *)
LEMMA TransactTypes ==
  ASSUME PoolInv, NEW p \in Threads, OpenHandle(p) \/ CloseHandle(p) \/ Transact(p)
  PROVE  /\ retries' \in [Threads -> 0 .. Retries] /\ commits' \in [Threads -> Nat]
         /\ answer' \in [Threads -> {"none", "returned", "deadlock", "error"}]
<1>0. /\ retries \in [Threads -> 0 .. Retries] /\ commits \in [Threads -> Nat]
      /\ answer \in [Threads -> {"none", "returned", "deadlock", "error"}]
  BY DEF PoolInv, TypeOK
<1>1. CASE OpenHandle(p) \/ CloseHandle(p) \/ Attempt(p)
  BY <1>0, <1>1 DEF OpenHandle, CloseHandle, Attempt, transactionVars
<1>2. CASE InTransaction(p)
  BY <1>0, <1>2 DEF InTransaction, Retries
<1>3. CASE Commit(p)
  BY <1>0, <1>3 DEF Commit, Answers
<1>4. ASSUME NEW e \in {"deadlock", "error"}, AfterError(p, e)
      PROVE  /\ retries' \in [Threads -> 0 .. Retries]
             /\ answer' \in [Threads -> {"none", "returned", "deadlock", "error"}]
  BY <1>0, <1>4 DEF AfterError, TriedAgain, Answers, Retries
<1>5. CASE RollBack(p)
  BY <1>0, <1>4, <1>5 DEF RollBack
<1>6. CASE LoseAnswer(p)
  <2>1. PICK done \in {0, 1} : commits' = [commits EXCEPT ![p] = @ + done]
    BY <1>6 DEF LoseAnswer
  <2>2. commits' \in [Threads -> Nat]
    BY <1>0, <2>1
  <2> QED BY <1>4, <1>6, <2>2 DEF LoseAnswer
<1> QED BY <1>1, <1>2, <1>3, <1>5, <1>6 DEF Transact

(* Giving a connection back leaves its schema with a pool, or nothing.     *)
LEMMA ReturnLeaves ==
  ASSUME PoolInv, NEW p \in Threads, HasPool(p), connection[p] # NoConnection,
         Return(p) \/ Discard(p)
  PROVE  /\ connection' = [connection EXCEPT ![p] = NoConnection]
         /\ connection[p].schema \in Schemas
         /\ \/ idle' = idle
            \/ idle' = [idle EXCEPT ![pool[p]] = idle[pool[p]] \cup {connection[p].schema}]
<1>1. connection[p].schema \in Schemas
  BY AtWork
<1>2. CASE Discard(p)
  BY <1>1, <1>2 DEF Discard
<1>3. CASE Return(p)
  <2>1. CASE pools[pool[p]].schema = Public
    BY <1>1, <1>3, <2>1 DEF Return
  <2>2. CASE pools[pool[p]].schema # Public
    BY <1>1, <1>3, <2>2 DEF Return
  <2> QED BY <2>1, <2>2
<1> QED BY <1>2, <1>3

(* Using a source disturbs no pool.                                        *)
LEMMA HandleKeeps ==
  ASSUME PoolInv, NEW p \in Threads, OpenHandle(p) \/ CloseHandle(p) \/ Transact(p),
         UNCHANGED deployment
  PROVE  PoolInv'
<1> DEFINE PCs == {"new", "lookup", "create", "record", "schema", "ready", "ended", "attempt",
                   "work"}
           Connections == [db : Databases, schema : Schemas] \cup {NoConnection}
<1>1. UNCHANGED <<source, pool, pools, UNIQDS, schemas, raced, failures, deployment>>
  BY HandleSteps
<1>2. /\ HasPool(p) /\ pc[p] \in {"ready", "attempt", "work"}
      /\ Home(source[p]) \in Schemas /\ pool[p] \in Threads
  <2>1. pc[p] \in {"ready", "attempt", "work"}
    BY HandleSteps
  <2> QED BY <2>1, AtWork DEF PoolInv, ThreadsAtWork, HasPool
<1>3. /\ pc' \in [Threads -> PCs] /\ connection' \in [Threads -> Connections]
      /\ idle' \in [Threads -> SUBSET Schemas]
      /\ \A q \in Threads : q # p => pc'[q] = pc[q] /\ connection'[q] = connection[q]
      /\ pc'[p] \in {"ready", "attempt", "work"}
      /\ connection'[p] # NoConnection =>
              pc'[p] \in {"ready", "work"} /\ connection'[p].db = pools[pool[p]].db
      /\ pc'[p] = "work" => connection'[p] # NoConnection
      /\ \A q \in Threads : q # pool[p] => idle'[q] = idle[q]
  <2>0. /\ pc \in [Threads -> PCs] /\ connection \in [Threads -> Connections]
        /\ idle \in [Threads -> SUBSET Schemas]
    BY DEF PoolInv, TypeOK
  <2>1. CASE /\ pc' = [pc EXCEPT ![p] = "attempt"] /\ UNCHANGED <<connection, idle>>
             /\ connection[p] = NoConnection
    BY <2>0, <2>1
  <2>2. CASE Take(p) /\ ((pc' = pc /\ pc[p] = "ready") \/ pc' = [pc EXCEPT ![p] = "work"])
    <3>1. PICK current :
            LET lent == [db |-> pools[pool[p]].db, schema |-> WithSchema(source[p], current)]
            IN /\ connection' = [connection EXCEPT ![p] = lent]
               /\ lent \in [db : Databases, schema : Schemas] /\ lent # NoConnection
      BY <1>2, <2>2, TakeLends
    <3>2. /\ pc' \in [Threads -> PCs] /\ pc'[p] \in {"ready", "work"}
          /\ \A q \in Threads : q # p => pc'[q] = pc[q]
      BY <2>0, <2>2
    <3>3. idle' = idle
      BY <2>2 DEF Take
    <3>4. /\ connection' \in [Threads -> Connections]
          /\ \A q \in Threads : q # p => connection'[q] = connection[q]
          /\ connection'[p] # NoConnection /\ connection'[p].db = pools[pool[p]].db
      BY <2>0, <3>1
    <3> QED BY <2>0, <3>2, <3>3, <3>4
  <2>3. CASE /\ Return(p) \/ Discard(p)
             /\ connection[p] # NoConnection
             /\ \E l \in {"ready", "attempt"} : pc' = [pc EXCEPT ![p] = l]
    BY <1>2, <2>0, <2>3, ReturnLeaves
  <2> QED BY <2>1, <2>2, <2>3, HandleSteps
<1>4. TypeOK'
  BY <1>1, <1>3, TransactTypes DEF PoolInv, TypeOK
<1>5. PoolsAsMade'
  <2>1. pools[pool[p]] # NoPool
    BY <1>2 DEF HasPool
  <2>2. \A q \in Threads : pc[q] # "new" => pc'[q] # "new"
    BY <1>3
  <2> QED BY <1>1, <1>3, <2>1, <2>2 DEF PoolInv, PoolsAsMade
<1>6. RecordedPools'
  BY <1>1 DEF PoolInv, RecordedPools
<1>7. ThreadsAtWork'
  <2>1. \A q \in Threads : HasPool(q) => HasPool(q)'
    BY <1>1 DEF HasPool
  <2>2. pc[p] \in {"ready", "attempt", "work"} /\ HasPool(p)'
    BY <1>2, <2>1
  <2> QED BY <1>1, <1>3, <2>1, <2>2 DEF PoolInv, ThreadsAtWork, Unquoted
<1>8. PublicEverywhere'
  BY <1>1 DEF PoolInv, PublicEverywhere
<1> QED BY <1>4, <1>5, <1>6, <1>7, <1>8 DEF PoolInv

(* Every step keeps the pools in order.                                    *)
LEMMA PoolStep == PoolInv /\ [Next]_vars => PoolInv'
<1> SUFFICES ASSUME PoolInv, [Next]_vars PROVE PoolInv'
  OBVIOUS
<1>1. CASE UNCHANGED vars
  BY <1>1 DEF vars, PoolInv, TypeOK, PoolsAsMade, RecordedPools, ThreadsAtWork, HasPool,
              PublicEverywhere, Unquoted
<1>2. ASSUME NEW p \in Threads, Source(p), UNCHANGED <<deployment, transactionVars>>
      PROVE  PoolInv'
  BY <1>2, MakeKeeps, LookupKeeps, CreatePoolKeeps, RecordKeeps, CreateSchemaKeeps DEF Source
<1>3. ASSUME NEW p \in Threads, OpenHandle(p) \/ CloseHandle(p) \/ Transact(p),
             UNCHANGED deployment
      PROVE  PoolInv'
  BY <1>3, HandleKeeps
<1> QED BY <1>1, <1>2, <1>3 DEF Next

-----------------------------------------------------------------------------
(* The properties of a step.                                               *)

(* An attempt that fails before COMMIT is the only one that is repeated,   *)
(* and it has committed nothing.                                           *)
LEMMA AttemptsStep ==
  ASSUME PoolInv, Attempts, CommittedOnce, [Next]_vars
  PROVE  Attempts' /\ CommittedOnce'
<1>0. /\ retries \in [Threads -> 0 .. Retries] /\ commits \in [Threads -> Nat]
      /\ answer \in [Threads -> {"none", "returned", "deadlock", "error"}]
      /\ pc \in [Threads -> {"new", "lookup", "create", "record", "schema", "ready", "ended",
                             "attempt", "work"}]
  BY DEF PoolInv, TypeOK
<1>1. CASE UNCHANGED vars
  BY <1>1 DEF vars, Attempts, CommittedOnce
<1>2. ASSUME NEW p \in Threads, Source(p), UNCHANGED transactionVars
      PROVE  Attempts' /\ CommittedOnce'
  <2>1. \E l \in {"lookup", "create", "record", "schema", "ready", "ended"} :
          pc' = [pc EXCEPT ![p] = l]
    BY <1>2 DEF Source, Make, Lookup, CreatePool, Record, CreateSchema, Throws, Goto
  <2> QED BY <1>0, <1>2, <2>1 DEF Attempts, CommittedOnce, transactionVars
<1>3. ASSUME NEW p \in Threads, OpenHandle(p) \/ CloseHandle(p)
      PROVE  Attempts' /\ CommittedOnce'
  BY <1>3 DEF OpenHandle, CloseHandle, transactionVars, Attempts, CommittedOnce
<1>4. ASSUME NEW p \in Threads, Transact(p)
      PROVE  Attempts' /\ CommittedOnce'
  <2>1. CASE InTransaction(p)
    BY <1>0, <2>1 DEF InTransaction, Goto, Attempts, CommittedOnce
  <2>2. CASE Attempt(p)
    BY <1>0, <2>2 DEF Attempt, Goto, transactionVars, Attempts, CommittedOnce
  <2>3. CASE Commit(p)
    BY <1>0, <2>3 DEF Commit, Answers, Goto, Attempts, CommittedOnce
  <2>4. CASE RollBack(p)
    BY <1>0, <2>4 DEF RollBack, AfterError, Answers, Goto, Attempts, CommittedOnce
  <2>5. CASE LoseAnswer(p)
    <3>1. /\ pc' = [pc EXCEPT ![p] = "ready"] /\ answer' = [answer EXCEPT ![p] = "error"]
          /\ pc[p] = "work"
      BY <2>5 DEF LoseAnswer, AfterError, TriedAgain, Answers, Goto
    <3>2. PICK done \in {0, 1} : commits' = [commits EXCEPT ![p] = @ + done]
      BY <2>5 DEF LoseAnswer
    <3> QED BY <1>0, <3>1, <3>2 DEF Attempts, CommittedOnce
  <2> QED BY <1>4, <2>1, <2>2, <2>3, <2>4, <2>5 DEF Transact
<1> QED BY <1>1, <1>2, <1>3, <1>4 DEF Next

(* Who finds no pool recorded either is the first to make one or makes it  *)
(* while another thread is making one.                                     *)
LEMMA OneMakerStep ==
  ASSUME PoolInv, PoolInv', OneMaker, [Next]_vars
  PROVE  OneMaker'
<1>1. CASE UNCHANGED vars
  BY <1>1 DEF vars, OneMaker, Makes
<1>2. ASSUME NEW p \in Threads, Make(p)
      PROVE  OneMaker'
  <2>1. /\ pc[p] = "new" /\ pools[p] = NoPool
        /\ pc' = [pc EXCEPT ![p] = "lookup"] /\ UNCHANGED <<pools, UNIQDS, raced>>
        /\ \A q \in Threads : q # p => source'[q] = source[q]
    BY <1>2 DEF Make, Goto, PoolInv, TypeOK, PoolsAsMade
  <2>2. \A q \in Threads : Makes(q)' => q # p /\ Makes(q)
    BY <2>1 DEF Makes, PoolInv, TypeOK
  <2> QED BY <2>1, <2>2 DEF OneMaker, PoolInv, TypeOK
<1>3. ASSUME NEW p \in Threads, Lookup(p)
      PROVE  OneMaker'
  <2> DEFINE b == source[p].base
  <2>0. /\ pc[p] = "lookup" /\ UNCHANGED <<source, pools, UNIQDS>>
        /\ pc \in [Threads -> {"new", "lookup", "create", "record", "schema", "ready", "ended",
                               "attempt", "work"}]
    BY <1>3 DEF Lookup, PoolInv, TypeOK
  <2>1. CASE pc' = [pc EXCEPT ![p] = "schema"] /\ UNCHANGED raced
    BY <2>0, <2>1 DEF OneMaker, Makes
  <2>2. CASE /\ UNIQDS[b] = NoPool /\ pc' = [pc EXCEPT ![p] = "create"]
             /\ raced' = (raced \/ \E q \in Threads : MakingPool(q, b))
    <3>1. \A q \in Threads : q # p /\ Makes(q) /\ source[q].base = b => raced'
      BY <2>2 DEF OneMaker, Makes, MakingPool
    <3>2. \A q \in Threads : q # p /\ Makes(q)' => Makes(q)
      BY <2>0, <2>2 DEF Makes
    <3> QED BY <2>0, <2>2, <3>1, <3>2 DEF OneMaker
  <2> QED BY <1>3, <2>1, <2>2 DEF Lookup, Goto
<1>4. ASSUME NEW p \in Threads, CreatePool(p)
      PROVE  OneMaker'
  <2>0. /\ pc[p] = "create" /\ Makes(p) /\ UNCHANGED <<source, UNIQDS, raced>>
        /\ pc'[p] \in {"record", "ended"} /\ \A q \in Threads : q # p => pc'[q] = pc[q]
        /\ pc'[p] = "ended" => pools' = pools
        /\ \A q \in Threads : q # p => pools'[q] = pools[q]
    BY <1>4 DEF CreatePool, Makes, Goto, Throws, PoolInv, TypeOK
  <2>1. \A q \in Threads : Makes(q)' => Makes(q)
    BY <2>0 DEF Makes
  <2> QED BY <2>0, <2>1 DEF OneMaker
<1>5. ASSUME NEW p \in Threads, Record(p)
      PROVE  OneMaker'
  <2>0. /\ pc[p] = "record" /\ UNCHANGED <<source, pools, raced>> /\ source[p].base \in BaseUrls
        /\ UNIQDS' = [UNIQDS EXCEPT ![source[p].base] = p] /\ p # NoPool
        /\ pc'[p] = "schema" /\ \A q \in Threads : q # p => pc'[q] = pc[q]
    BY <1>5, AtWork, DataSourcesAssumption
       DEF Record, Goto, PoolInv, TypeOK, DataSourcesAssumption
  <2>1. \A q \in Threads : Makes(q)' => Makes(q)
    BY <2>0 DEF Makes
  <2>2. \A b \in BaseUrls : UNIQDS[b] # NoPool => UNIQDS'[b] # NoPool
    BY <2>0 DEF PoolInv, TypeOK
  <2>3. UNIQDS'[source[p].base] # NoPool
    BY <2>0 DEF PoolInv, TypeOK
  <2>4. \A q \in Threads : pools[q] # NoPool => source[q].base \in BaseUrls
    BY AtWork DEF PoolInv, PoolsAsMade
  <2> QED BY <2>0, <2>1, <2>2, <2>3, <2>4 DEF OneMaker
<1>6. ASSUME NEW p \in Threads, CreateSchema(p)
      PROVE  OneMaker'
  <2>0. /\ pc[p] = "schema" /\ UNCHANGED <<source, pools, UNIQDS, raced>>
        /\ pc'[p] \in {"ready", "ended"} /\ \A q \in Threads : q # p => pc'[q] = pc[q]
    BY <1>6 DEF CreateSchema, Goto, Throws, PoolInv, TypeOK
  <2> QED BY <2>0 DEF OneMaker, Makes
<1>7. ASSUME NEW p \in Threads, OpenHandle(p) \/ CloseHandle(p) \/ Transact(p)
      PROVE  OneMaker'
  <2>0. /\ UNCHANGED <<source, pools, UNIQDS, raced>>
        /\ pc[p] \in {"ready", "attempt", "work"} /\ pc'[p] \in {"ready", "attempt", "work"}
        /\ \A q \in Threads : q # p => pc'[q] = pc[q]
    BY <1>7, HandleSteps DEF PoolInv, TypeOK
  <2> QED BY <2>0 DEF OneMaker, Makes
<1> QED BY <1>1, <1>2, <1>3, <1>4, <1>5, <1>6, <1>7 DEF Next, Source

(* A connection is switched to its user's schema, or comes from a pool     *)
(* that nobody with a schema uses.                                         *)
LEMMA SwitchedStep ==
  ASSUME SchemasOnly, PoolInv, Switched, [Next]_vars
  PROVE  Switched'
<1> DEFINE Plain(q) == deployment.engine = "h2" /\ pools[q] # NoPool /\ source[q].schema = NoSchema
<1>0. /\ connection \in [Threads -> [db : Databases, schema : Schemas] \cup {NoConnection}]
      /\ idle \in [Threads -> SUBSET Schemas] /\ source \in [Threads -> Sources \cup {NoSource}]
      /\ pools \in [Threads -> [db : Databases, schema : Schemas] \cup {NoPool}]
      /\ deployment \in Deployments
  BY DEF PoolInv, TypeOK
<1>1. CASE UNCHANGED vars
  BY <1>1 DEF vars, Switched, Home, HomeOn
<1>2. ASSUME NEW p \in Threads, Make(p), UNCHANGED deployment
      PROVE  Switched'
  <2>1. pools[p] = NoPool /\ connection[p] = NoConnection
    BY <1>2 DEF Make, PoolInv, PoolsAsMade, ThreadsAtWork
  <2>2. /\ UNCHANGED <<pools, idle, connection, deployment>>
        /\ \A q \in Threads : q # p => source'[q] = source[q]
    BY <1>0, <1>2 DEF Make
  <2> QED BY <2>1, <2>2 DEF Switched, Home, HomeOn
<1>3. ASSUME NEW p \in Threads, CreatePool(p), UNCHANGED deployment
      PROVE  Switched'
  <2>1. /\ UNCHANGED <<source, idle, connection, deployment>>
        /\ \A q \in Threads : q # p => pools'[q] = pools[q]
    BY <1>0, <1>3 DEF CreatePool
  <2>2. pools[p] = NoPool => idle[p] = {}
    BY DEF PoolInv, PoolsAsMade
  <2> QED BY <2>1, <2>2 DEF Switched, Home, HomeOn
<1>4. ASSUME NEW p \in Threads, Lookup(p) \/ Record(p) \/ CreateSchema(p), UNCHANGED deployment
      PROVE  Switched'
  BY <1>4 DEF Lookup, Record, CreateSchema, Switched, Home, HomeOn
<1>5. ASSUME NEW p \in Threads, OpenHandle(p) \/ CloseHandle(p) \/ Transact(p),
             UNCHANGED deployment
      PROVE  Switched'
  <2> DEFINE q == pool[p]
  <2>1. /\ UNCHANGED <<source, pools, deployment>> /\ HasPool(p)
        /\ source[p] \in SourcesOf(deployment) /\ Home(source[p]) \in Schemas
    <3>1. pc[p] \in {"ready", "attempt", "work"}
      BY <1>5, HandleSteps
    <3> QED BY <1>5, <3>1, HandleSteps, AtWork DEF PoolInv, ThreadsAtWork
  <2>2. /\ q \in Threads /\ pools[q] # NoPool /\ source[q].base = source[p].base
        /\ source[q] \in SourcesOf(deployment)
    BY <2>1 DEF HasPool, PoolInv, PoolsAsMade, ThreadsAtWork
  <2>3. /\ deployment.engine = "h2" /\ source[p].schema = NoSchema => source[q].schema = NoSchema
        /\ deployment.engine = "h2" /\ source[q].schema = NoSchema => source[p].schema = NoSchema
    BY <1>0, <2>1, <2>2, SourcesApart
  <2>4. CASE UNCHANGED <<connection, idle>>
    BY <2>1, <2>4 DEF Switched, Home, HomeOn
  <2>5. CASE Take(p)
    <3>1. PICK current \in {pools[q].schema} \cup idle[q] :
            LET lent == [db |-> pools[q].db, schema |-> WithSchema(source[p], current)]
            IN connection' = [connection EXCEPT ![p] = lent]
      BY <2>1, <2>5, TakeLends
    <3>2. WithSchema(source[p], current) = Home(source[p])
      <4>1. CASE source[p].schema = NoSchema /\ deployment.engine = "h2"
        <5>1. pools[q].schema = Public
          BY <2>2, <4>1 DEF PoolInv, PoolsAsMade
        <5>2. idle[q] \subseteq {Public}
          BY <2>2, <2>3, <4>1 DEF Switched
        <5> QED BY <3>1, <4>1, <5>1, <5>2 DEF WithSchema, Home, HomeOn
      <4>2. CASE ~ (source[p].schema = NoSchema /\ deployment.engine = "h2")
        BY <4>2 DEF WithSchema
      <4> QED BY <4>1, <4>2
    <3>3. connection'[p].schema = Home(source[p])
      BY <1>0, <3>1, <3>2
    <3>4. /\ \A r \in Threads : r # p => connection'[r] = connection[r]
          /\ idle' = idle
      BY <1>0, <2>5, <3>1 DEF Take
    <3> QED BY <2>1, <3>3, <3>4 DEF Switched, Home, HomeOn
  <2>6. CASE (Return(p) \/ Discard(p)) /\ connection[p] # NoConnection
    <3>1. /\ connection' = [connection EXCEPT ![p] = NoConnection]
          /\ \/ idle' = idle
             \/ idle' = [idle EXCEPT ![q] = idle[q] \cup {connection[p].schema}]
      BY <2>1, <2>6, ReturnLeaves
    <3>2. Plain(q) => connection[p].schema = Public
      BY <2>3, <2>6 DEF Switched, Home, HomeOn
    <3>3. \A r \in Threads : Plain(r) => idle'[r] \subseteq {Public}
      BY <1>0, <2>2, <3>1, <3>2 DEF Switched
    <3>4. \A r \in Threads : connection'[r] # NoConnection => connection'[r] = connection[r]
      BY <1>0, <3>1
    <3> QED BY <2>1, <3>3, <3>4 DEF Switched, Home, HomeOn
  <2> QED BY <1>5, <2>4, <2>5, <2>6, HandleSteps
<1> QED BY <1>1, <1>2, <1>3, <1>4, <1>5 DEF Next, Source

-----------------------------------------------------------------------------
(* Theorems.                                                               *)

(* DSInv is an invariant.                                                  *)
LEMMA DSInvHolds == Spec => []DSInv
<1>1. Init => DSInv
  <2>1. ASSUME Init PROVE OneMaker /\ Attempts /\ CommittedOnce /\ Switched
    BY <2>1 DEF Init, OneMaker, Makes, Attempts, CommittedOnce, Switched
  <2> QED BY <2>1, PoolInit DEF DSInv
<1>2. DSInv /\ [Next]_vars => DSInv'
  <2> SUFFICES ASSUME DSInv, [Next]_vars PROVE DSInv'
    OBVIOUS
  <2>1. PoolInv /\ PoolInv'
    BY PoolStep DEF DSInv
  <2>2. OneMaker' /\ Attempts' /\ CommittedOnce'
    BY <2>1, OneMakerStep, AttemptsStep DEF DSInv
  <2>3. SchemasOnly => Switched'
    BY <2>1, SwitchedStep DEF DSInv
  <2> QED BY <2>1, <2>2, <2>3 DEF DSInv, SchemasOnly
<1> QED BY <1>1, <1>2, PTL DEF Spec

(* The variables hold what the code puts there: no thread works through a  *)
(* pool that was never made.                                               *)
THEOREM DataSourcesTypes == Spec => []TypeOK
<1>1. DSInv => TypeOK
  BY DEF DSInv, PoolInv
<1> QED BY <1>1, DSInvHolds, PTL

(* inTransaction commits at most once, whatever fails and however often    *)
(* it tries again, and its answer says what became of the work.            *)
THEOREM TransactionsCommitOnce == Spec => []CommittedOnce
<1>1. DSInv => CommittedOnce
  BY DEF DSInv
<1> QED BY <1>1, DSInvHolds, PTL

(* A second pool for a base URL takes two threads at once.                 *)
THEOREM PoolsAreShared == Spec => []SecondPoolNeedsARace
<1>1. DSInv => SecondPoolNeedsARace
  BY DEF DSInv, OneMaker, Makes, SecondPoolNeedsARace
<1> QED BY <1>1, DSInvHolds, PTL

(* Where tenants are kept apart by schemas, whoever works through a source *)
(* works in that source's database and schema, and nobody else's source    *)
(* leads there.                                                            *)
THEOREM TenantsKeptApart ==
    ASSUME SchemasOnly
    PROVE  Spec => []OwnTables
<1>1. ASSUME DSInv, NEW p \in Threads, connection[p] # NoConnection
      PROVE  /\ connection[p].db = source[p].url /\ connection[p].schema = Home(source[p])
             /\ source[p] \in SourcesOf(deployment) /\ deployment \in Deployments
  <2>1. /\ HasPool(p) /\ source[p] \in SourcesOf(deployment) /\ deployment \in Deployments
        /\ connection[p].db = pools[pool[p]].db
    BY <1>1 DEF DSInv, PoolInv, ThreadsAtWork, TypeOK
  <2>2. /\ source[pool[p]] \in SourcesOf(deployment) /\ source[pool[p]].base = source[p].base
        /\ pools[pool[p]].db = source[pool[p]].url
    BY <1>1, <2>1 DEF HasPool, DSInv, PoolInv, ThreadsAtWork, PoolsAsMade
  <2>3. source[pool[p]].url = source[p].url
    BY <2>1, <2>2, SourcesApart
  <2>4. connection[p].schema = Home(source[p])
    BY <1>1 DEF DSInv, Switched
  <2> QED BY <2>1, <2>2, <2>3, <2>4
<1>2. ASSUME DSInv, NEW p \in Threads, NEW q \in Threads,
             connection[p] # NoConnection, connection[q] # NoConnection, source[p] # source[q]
      PROVE  connection[p] # connection[q]
  <2>1. source[p].url = source[q].url => Home(source[p]) # Home(source[q])
    BY <1>1, <1>2 DEF SchemasOnly, Home
  <2> QED BY <1>1, <1>2, <2>1
<1>3. DSInv => OwnTables
  BY <1>1, <1>2 DEF OwnTables
<1> QED BY <1>3, DSInvHolds, PTL

(* There too, the schema somebody works in exists.                         *)
THEOREM SchemasExist ==
    ASSUME SchemasOnly
    PROVE  Spec => []SchemaExists
<1>1. DSInv => SchemaExists
  <2> SUFFICES ASSUME DSInv, NEW p \in Threads, connection[p] # NoConnection,
                      Home(source[p]) \in {Public, Unquoted(source[p].schema)}
               PROVE  <<connection[p].db, connection[p].schema>> \in schemas
    BY DEF SchemaExists
  <2>1. /\ connection[p].db = pools[pool[p]].db /\ connection[p].db \in Databases
        /\ pc[p] \in {"ready", "work"} /\ connection[p].schema = Home(source[p])
    BY AtWork DEF DSInv, PoolInv, ThreadsAtWork, Switched
  <2>2. CASE Home(source[p]) = Public
    BY <2>1, <2>2 DEF DSInv, PoolInv, PublicEverywhere
  <2>3. CASE Home(source[p]) = Unquoted(source[p].schema) /\ source[p].schema # NoSchema
    BY <2>1, <2>3 DEF DSInv, PoolInv, ThreadsAtWork
  <2>4. source[p].schema = NoSchema => Home(source[p]) = Public
    BY DEF Home, HomeOn
  <2> QED BY <2>2, <2>3, <2>4
<1> QED BY <1>1, DSInvHolds, PTL

=============================================================================
