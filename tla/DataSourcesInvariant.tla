------------------------ MODULE DataSourcesInvariant ------------------------
(***************************************************************************)
(* The inductive invariant of DataSources.                                 *)
(***************************************************************************)
EXTENDS DataSources

(* The deployments for which tenants are kept apart: the placeholder is in *)
(* the template's schema; URLs that differ do not differ in case only,     *)
(* since their base URLs would be the same; an H2 default source without a *)
(* schema has a database of its own, since nothing switches its            *)
(* connections back; and the schemas in one database differ, on H2 in more *)
(* than case.                                                              *)
SchemasOnly ==
    \A d \in Deployments :
        /\ d.template.url \notin Placeholders
        /\ d.default.base = d.template.base => d.default.url = d.template.url
        /\ d.engine = "h2" /\ d.default.schema = NoSchema => d.default.base # d.template.base
        /\ \A s, u \in SourcesOf(d) :
             s # u /\ s.url = u.url => HomeOn(d.engine, s) # HomeOn(d.engine, u)

(* A pool belongs to the thread that made it and is as that thread's       *)
(* source wants it; what has no pool has lent no connection.               *)
PoolsAsMade ==
    \A q \in Threads :
        /\ pools[q] # NoPool => /\ pc[q] # "new"
                                /\ pools[q].db = source[q].url
                                /\ deployment.engine = "h2" => pools[q].schema = Public
                                /\ source[q].schema = NoSchema => pools[q].schema = Public
        /\ pools[q] = NoPool => idle[q] = {}

(* UNIQDS leads to a pool made for the base URL.                           *)
RecordedPools ==
    \A b \in BaseUrls : UNIQDS[b] # NoPool =>
        pools[UNIQDS[b]] # NoPool /\ source[UNIQDS[b]].base = b

(* Whoever has come past getDataSource has a source and a pool made for    *)
(* its base URL, and from "ready" on its schema is in that pool's database.*)
HasPool(p) == pool[p] \in Threads /\ pools[pool[p]] # NoPool /\ source[pool[p]].base = source[p].base

ThreadsAtWork ==
    \A p \in Threads :
        /\ pc[p] # "new" => source[p] \in SourcesOf(deployment)
        /\ pc[p] \in {"record", "schema", "ready", "attempt", "work"} => HasPool(p)
        /\ pc[p] \in {"ready", "attempt", "work"} /\ source[p].schema # NoSchema =>
               <<pools[pool[p]].db, Unquoted(source[p].schema)>> \in schemas
        /\ connection[p] # NoConnection =>
               pc[p] \in {"ready", "work"} /\ connection[p].db = pools[pool[p]].db
        /\ pc[p] = "work" => connection[p] # NoConnection
        /\ pc[p] = "record" => pool[p] = p

PublicEverywhere == \A d \in Databases : <<d, Public>> \in schemas

(* The connections, and those given back to a pool whose users have no     *)
(* schema on H2.                                                           *)
Switched ==
    /\ \A p \in Threads : connection[p] # NoConnection => connection[p].schema = Home(source[p])
    /\ \A q \in Threads :
         deployment.engine = "h2" /\ pools[q] # NoPool /\ source[q].schema = NoSchema
             => idle[q] \subseteq {Public}

(* An attempt begins with nothing committed and nothing answered.          *)
Attempts ==
    \A p \in Threads : pc[p] \in {"attempt", "work"} => commits[p] = 0 /\ answer[p] = "none"

(* A pool is recorded as soon as its maker has gone on, so two threads     *)
(* that make one for the same base URL were there at once.                 *)
Makes(p) == pools[p] # NoPool \/ pc[p] = "create"

OneMaker ==
    /\ \A p \in Threads : pools[p] # NoPool /\ pc[p] # "record" => UNIQDS[source[p].base] # NoPool
    /\ \A p, q \in Threads :
         p # q /\ Makes(p) /\ Makes(q) /\ source[p].base = source[q].base => raced

PoolInv == TypeOK /\ PoolsAsMade /\ RecordedPools /\ ThreadsAtWork /\ PublicEverywhere

DSInv == PoolInv /\ OneMaker /\ Attempts /\ CommittedOnce /\ (SchemasOnly => Switched)
=============================================================================
