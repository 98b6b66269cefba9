--------------------------- MODULE MCDataSources ---------------------------
(***************************************************************************)
(* Instances of DataSources for TLC.                                       *)
(***************************************************************************)
EXTENDS DataSourcesInvariant, TLC

(* The names and their cases: the database "Main" and the tenant "T2" have *)
(* a capital.                                                              *)
InLower ==
    ("main" :> "main") @@ ("Main" :> "main") @@ ("tenants" :> "tenants") @@ ("none" :> "none")
    @@ ("__tenant__" :> "__tenant__") @@ ("__TENANT__" :> "__tenant__")
    @@ ("t1" :> "t1") @@ ("T1" :> "t1") @@ ("T2" :> "t2") @@ ("t2" :> "t2")
InUpper ==
    ("none" :> "none") @@ ("__tenant__" :> "__TENANT__") @@ ("__TENANT__" :> "__TENANT__")
    @@ ("t1" :> "T1") @@ ("T1" :> "T1") @@ ("T2" :> "T2") @@ ("t2" :> "T2")

(* One PostgreSQL database for the default source and the tenants' schemas *)
(* (EntityRepositoryIntegrationTest); an H2 database each for the default  *)
(* source and for the tenants' schemas (application-default.yml).          *)
SchemaPerTenant == {
    [engine |-> "pg", default |-> Create("pg", "Main", NoSchema),
                      template |-> Create("pg", "Main", Placeholder)],
    [engine |-> "h2", default |-> Create("h2", "main", NoSchema),
                      template |-> Create("h2", "tenants", Placeholder)]}

(* A database per tenant (application-test2.yml).                          *)
DatabasePerTenant == {
    [engine |-> "h2", default |-> Create("h2", "main", NoSchema),
                      template |-> Create("h2", Placeholder, NoSchema)]}

(* Threads that run no transactions are alike.                             *)
Symmetry == Permutations(Threads \ Transactors)
=============================================================================
