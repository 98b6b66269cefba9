----------------------- MODULE TenantRegistryInvariant -----------------------
(***************************************************************************)
(* The inductive invariant behind the theorems about TenantRegistry.       *)
(***************************************************************************)
EXTENDS TenantRegistry

AtWork(p) == thread[p].pc \in InMigrator

(* A thread that registers or migrates has a source to do it with, and the *)
(* constructor only walks over registered ids.                             *)
SourcesAtHand ==
    /\ \A p \in Threads : thread[p].pc \in {"put", "apply", "enter"} \cup InMigrator =>
         thread[p].source \in Sources
    /\ \A n \in thread[Main].todo : Contains(n)

(* Nothing happens before the constructor.                                 *)
DownIsEmpty ==
    context = "down" =>
        /\ \A n \in Names : ~ Contains(n)
        /\ \A p \in Threads : thread[p].pc = "idle"

(* The Migrator's books: the counter stands for the failed names and the   *)
(* one at work, whose name is taken and has not failed.                    *)
Books ==
    /\ IsFiniteSet(failed) /\ failed \subseteq pendingJobs
    /\ counter = Cardinality(failed) + (IF lock = NoThread THEN 0 ELSE 1)
    /\ \A n \in Names : runs[n] = IF n \in pendingJobs THEN 1 ELSE 0
    /\ \A p \in Threads : AtWork(p) => thread[p].source.id \in pendingJobs \ failed

HasOwnScript(s) ==
    OwnScript(s) \in Scripts /\ (s.id \in ignored \/ schema[s.id] = OwnScript(s))

(* The flag is set only after the change log was applied or its exception  *)
(* ignored, for a name taken once, so no second source of that name can    *)
(* change the database again.                                              *)
FlagsHonest ==
    /\ \A s \in migrated : s.id \in pendingJobs /\ HasOwnScript(s)
    /\ \A p \in Threads :
         /\ thread[p].pc = "migrate" => \A s \in migrated : s.id # thread[p].source.id
         /\ thread[p].pc \in {"mark", "callback", "leave"} => HasOwnScript(thread[p].source)
         /\ thread[p].pc \in {"callback", "leave"} => thread[p].source \in migrated

RegistryInv ==
    /\ TypeOK
    /\ OneMigrationAtATime
    /\ SourcesAtHand
    /\ DownIsEmpty
    /\ Books
    /\ FlagsHonest

(* As long as register is only called to migrate, nothing is registered    *)
(* unmigrated after the constructor.                                       *)
NothingPutUnmigrated ==
    \A p \in Threads : thread[p].mode = TRUE /\ thread[p].pc # "put"

(* And then the tenants that can be found have their flag.                 *)
FoundAreFlagged ==
    \A n \in Names : Contains(n) /\ registry[n].maker # Main => registry[n] \in migrated

MigratingInv == RegistryInv /\ NothingPutUnmigrated /\ FoundAreFlagged

(* In the first context of the first process, a taken name has failed, is  *)
(* at work up to its callback, or is registered and migrated.              *)
TakenAreKnown ==
    restarts = 0 =>
        /\ context = "down" => pendingJobs = {}
        /\ \A n \in pendingJobs :
             \/ n \in failed
             \/ \E p \in Threads : AtWork(p) /\ thread[p].pc # "leave" /\ thread[p].source.id = n
             \/ Contains(n) /\ registry[n] \in migrated

TakenInv == MigratingInv /\ TakenAreKnown
=============================================================================
