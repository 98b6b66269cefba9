------------------------ MODULE TenantRegistryProofs ------------------------
(***************************************************************************)
(* Proofs about TenantRegistry: its inductive invariant RegistryInv, and   *)
(* what follows from it for every number of threads, names and restarts.   *)
(***************************************************************************)
EXTENDS TenantRegistryInvariant, FiniteSetTheorems, TLAPS

-----------------------------------------------------------------------------
(* Sources and tasks.                                                      *)

(* What a thread makes is a source.                                        *)
LEMMA SourceType ==
    ASSUME NEW n \in Names, NEW p \in Threads
    PROVE  Source(n, p) \in Sources /\ Source(n, p).id = n /\ Source(n, p).maker = p
BY DEF Source, Sources

(* No source is the missing one.                                           *)
LEMMA SourceThere == NoSource \notin Sources
BY RegistryAssumption DEF RegistryAssumption, Sources

(* What createDatasources registers is a source made by the constructor.   *)
LEMMA ConfiguredType ==
    ASSUME NEW n \in Names, NEW keys \in Configurations
    PROVE  /\ ConfiguredAs(n, keys) \in Sources \cup {NoSource}
           /\ (\E k \in keys : LowerCase[k] = n) => ConfiguredAs(n, keys) # NoSource
           /\ ConfiguredAs(n, keys) # NoSource => ConfiguredAs(n, keys).maker = Main
<1>1. Main \in Threads /\ keys \subseteq Names
  BY RegistryAssumption DEF RegistryAssumption, Threads
<1>2. CASE \E k \in keys : LowerCase[k] = n
  <2> DEFINE key == CHOOSE k \in keys : LowerCase[k] = n
  <2>1. key \in keys
    BY <1>2
  <2>2. Source(key, Main) \in Sources /\ Source(key, Main).maker = Main
    BY <2>1, <1>1, SourceType
  <2>3. ConfiguredAs(n, keys) = Source(key, Main)
    BY <1>2 DEF ConfiguredAs
  <2> QED
    BY <2>2, <2>3, SourceThere
<1>3. CASE ~ \E k \in keys : LowerCase[k] = n
  BY <1>3 DEF ConfiguredAs
<1> QED
  BY <1>2, <1>3

(* The record Task builds is a task, field by field.                       *)
LEMMA TaskType ==
    ASSUME NEW pc \in PCs, NEW todo \in SUBSET Names, NEW n \in Names,
           NEW s \in Sources \cup {NoSource}, NEW mode \in BOOLEAN
    PROVE  /\ Task(pc, todo, n, s, mode) \in Tasks
           /\ Task(pc, todo, n, s, mode).pc = pc /\ Task(pc, todo, n, s, mode).todo = todo
           /\ Task(pc, todo, n, s, mode).source = s /\ Task(pc, todo, n, s, mode).mode = mode
BY DEF Task, Tasks

(* A thread that only moves on keeps the rest of its task.                 *)
LEMMA GotoType ==
    ASSUME TypeOK, NEW p \in Threads, NEW pc \in PCs, Goto(p, pc)
    PROVE  /\ thread' = [thread EXCEPT ![p] = [thread[p] EXCEPT !.pc = pc]]
           /\ [thread[p] EXCEPT !.pc = pc] \in Tasks
           /\ [thread[p] EXCEPT !.pc = pc].pc = pc
           /\ [thread[p] EXCEPT !.pc = pc].todo = thread[p].todo
           /\ [thread[p] EXCEPT !.pc = pc].source = thread[p].source
           /\ [thread[p] EXCEPT !.pc = pc].mode = thread[p].mode
BY DEF TypeOK, Goto, Tasks
-----------------------------------------------------------------------------
(* Steps outside the Migrator.                                             *)

(* A thread outside the Migrator goes on to another place outside it, and  *)
(* nothing else changes but the context's state.                           *)
LEMMA MovesOn ==
    ASSUME RegistryInv, NEW p \in Threads, NEW t \in Tasks,
           thread' = [thread EXCEPT ![p] = t],
           thread[p].pc \notin InMigrator, t.pc \notin InMigrator,
           t.pc \in {"put", "apply", "enter"} => t.source \in Sources,
           t.todo \subseteq thread[p].todo \/ p # Main,
           context # "down", context' \in {"booting", "up", "refused"},
           failures' \in Nat, hindered' \subseteq Configurers \X Names,
           UNCHANGED <<registry, migrated, migrator, schema, failed, ignored, runs, restarts>>
    PROVE  RegistryInv'
<1>1. /\ \A q \in Threads : thread'[q] = IF q = p THEN t ELSE thread[q]
      /\ Main \in Threads
  BY DEF RegistryInv, TypeOK, Threads
<1>2. UNCHANGED <<registry, migrated, lock, counter, pendingJobs, schema, failed, ignored, runs, restarts>>
  BY DEF migrator
<1>3. TypeOK'
  BY <1>2 DEF RegistryInv, TypeOK
<1>4. OneMigrationAtATime'
  BY <1>1, <1>2 DEF RegistryInv, OneMigrationAtATime
<1>5. SourcesAtHand'
  <2>1. ASSUME NEW q \in Threads, thread'[q].pc \in {"put", "apply", "enter"} \cup InMigrator
        PROVE  thread'[q].source \in Sources
    BY <2>1, <1>1 DEF RegistryInv, SourcesAtHand
  <2>2. ASSUME NEW n \in thread'[Main].todo
        PROVE  Contains(n)'
    BY <2>2, <1>1, <1>2 DEF RegistryInv, SourcesAtHand, Contains
  <2> QED
    BY <2>1, <2>2 DEF SourcesAtHand
<1>6. DownIsEmpty'
  BY DEF DownIsEmpty
<1>7. Books'
  BY <1>1, <1>2 DEF RegistryInv, Books, AtWork
<1>8. FlagsHonest'
  BY <1>1, <1>2 DEF RegistryInv, FlagsHonest, HasOwnScript, OwnScript, InMigrator
<1> QED
  BY <1>3, <1>4, <1>5, <1>6, <1>7, <1>8 DEF RegistryInv
(* A thread that is doing something lives in an application that has been  *)
(* started.                                                                *)
LEMMA NotDown ==
    ASSUME RegistryInv, NEW p \in Threads, thread[p].pc # "idle"
    PROVE  context \in {"booting", "up", "refused"}
BY DEF RegistryInv, DownIsEmpty, TypeOK

(* The same, when the thread keeps all of its task but the place.          *)
LEMMA GoesTo ==
    ASSUME RegistryInv, NEW p \in Threads, NEW pc \in PCs, Goto(p, pc),
           thread[p].pc \notin InMigrator, pc \notin InMigrator,
           pc \in {"put", "apply", "enter"} => thread[p].source \in Sources,
           context # "down", context' \in {"booting", "up", "refused"},
           failures' \in Nat, hindered' \subseteq Configurers \X Names,
           UNCHANGED <<registry, migrated, migrator, schema, failed, ignored, runs, restarts>>
    PROVE  RegistryInv'
<1>1. TypeOK
  BY DEF RegistryInv
<1> DEFINE t == [thread[p] EXCEPT !.pc = pc]
<1>2. thread' = [thread EXCEPT ![p] = t] /\ t \in Tasks
  BY <1>1, GotoType
<1>3. t.pc = pc /\ t.todo = thread[p].todo /\ t.source = thread[p].source
  BY <1>1, GotoType
<1> HIDE DEF t
<1> QED
  BY <1>2, <1>3, MovesOn

LEMMA InvWalk ==
    ASSUME RegistryInv, Walk
    PROVE  RegistryInv'
<1>1. Main \in Threads /\ TypeOK /\ Default \in Names
  BY RegistryAssumption DEF Threads, RegistryInv, RegistryAssumption
<1>2. PICK n \in thread[Main].todo :
        Become(Main, Task(IF n = Template THEN "walk" ELSE "apply",
                          thread[Main].todo \ {n}, n, registry[n], TRUE))
  BY DEF Walk
<1>3. thread[Main].todo \in SUBSET Names /\ n \in Names
  BY <1>1 DEF TypeOK, Tasks
<1>4. registry[n] \in Sources
  BY <1>1, <1>3 DEF RegistryInv, SourcesAtHand, Contains, TypeOK
<1> DEFINE pc == IF n = Template THEN "walk" ELSE "apply"
           t == Task(pc, thread[Main].todo \ {n}, n, registry[n], TRUE)
<1>5. pc \in PCs /\ pc \notin InMigrator
  BY DEF PCs, InMigrator
<1>6. t \in Tasks /\ t.pc = pc /\ t.todo = thread[Main].todo \ {n} /\ t.source = registry[n]
  <2>1. thread[Main].todo \ {n} \in SUBSET Names /\ registry[n] \in Sources \cup {NoSource}
    BY <1>3, <1>4
  <2> DEFINE migrate == TRUE
  <2>2. migrate \in BOOLEAN /\ t = Task(pc, thread[Main].todo \ {n}, n, registry[n], migrate)
    OBVIOUS
  <2> HIDE DEF pc, t, migrate
  <2> QED
    BY <2>1, <2>2, <1>3, <1>5, TaskType
<1>7. thread' = [thread EXCEPT ![Main] = t]
  BY <1>2 DEF Become
<1>8. thread[Main].pc \notin InMigrator /\ context \in {"booting", "up", "refused"}
  BY <1>1, NotDown DEF Walk, InMigrator
<1>9. /\ UNCHANGED <<context, registry, migrated, migrator, schema, failed, ignored, runs, restarts>>
      /\ failures' \in Nat /\ hindered' \subseteq Configurers \X Names
  BY <1>1 DEF Walk, TypeOK, history, bounds
<1> HIDE DEF t, pc
<1> QED
  BY <1>1, <1>4, <1>5, <1>6, <1>7, <1>8, <1>9, MovesOn

LEMMA InvConstructed ==
    ASSUME RegistryInv, Constructed
    PROVE  RegistryInv'
<1>1. Main \in Threads /\ TypeOK
  BY DEF Threads, RegistryInv
<1>2. Goto(Main, "done") /\ context' = "up" /\ thread[Main].pc = "walk"
  BY DEF Constructed
<1>3. "done" \in PCs /\ "done" \notin InMigrator /\ thread[Main].pc \notin InMigrator
  BY <1>2 DEF PCs, InMigrator
<1>4. context # "down"
  BY <1>1, <1>2, NotDown
<1>5. /\ UNCHANGED <<registry, migrated, migrator, schema, failed, ignored, runs, restarts>>
      /\ failures' \in Nat /\ hindered' \subseteq Configurers \X Names
  BY <1>1 DEF Constructed, TypeOK, history, bounds
<1> QED
  BY <1>1, <1>2, <1>3, <1>4, <1>5, GoesTo

LEMMA InvRefresh ==
    ASSUME RegistryInv, NEW c \in Configurers, Refresh(c)
    PROVE  RegistryInv'
<1>1. c \in Threads /\ TypeOK
  BY DEF Threads, RegistryInv
<1>2. Goto(c, "load") /\ context' = "up" /\ context = "up" /\ thread[c].pc = "idle"
  BY DEF Refresh
<1>3. "load" \in PCs /\ "load" \notin InMigrator /\ thread[c].pc \notin InMigrator
  BY <1>2 DEF PCs, InMigrator
<1>4. /\ UNCHANGED <<registry, migrated, migrator, schema, failed, ignored, runs, restarts>>
      /\ failures' \in Nat /\ hindered' \subseteq Configurers \X Names
  BY <1>1 DEF Refresh, TypeOK, history, bounds
<1> QED
  BY <1>1, <1>2, <1>3, <1>4, GoesTo
LEMMA InvLoad ==
    ASSUME RegistryInv, NEW c \in Configurers, Load(c)
    PROVE  RegistryInv'
<1>1. c \in Threads /\ TypeOK /\ Queried \subseteq Names /\ Loaded \subseteq Names /\ c # Main
  BY RegistryAssumption DEF Threads, RegistryInv, RegistryAssumption
<1>2. thread[c] \in Tasks /\ thread[c].pc \notin InMigrator /\ thread[c].pc # "idle"
  BY <1>1 DEF Load, TypeOK, InMigrator
<1>3. context \in {"booting", "up", "refused"} /\ context' = context
  BY <1>1, <1>2, NotDown DEF Load
<1>4. /\ UNCHANGED <<registry, migrated, migrator, schema, failed, ignored, runs, restarts>>
      /\ failures' \in Nat /\ hindered' \subseteq Configurers \X Names
  <2>1. UNCHANGED hindered \/ Loses(c, Loaded \ Queried) \/ Loses(c, Queried \cup Loaded)
    BY DEF Load
  <2>2. hindered' \subseteq Configurers \X Names
    BY <1>1, <2>1 DEF TypeOK, Loses
  <2> QED
    BY <1>1, <2>2 DEF Load, TypeOK, CallFails
<1>5. ASSUME NEW ns \in SUBSET Names, Become(c, [thread[c] EXCEPT !.pc = "pick", !.todo = ns])
      PROVE  RegistryInv'
  <2> DEFINE t == [thread[c] EXCEPT !.pc = "pick", !.todo = ns]
  <2>1. t \in Tasks /\ t.pc = "pick"
    BY <1>2 DEF Tasks, PCs
  <2>2. thread' = [thread EXCEPT ![c] = t]
    BY <1>5 DEF Become
  <2>3. t.pc \notin InMigrator /\ t.pc \notin {"put", "apply", "enter"}
    BY <2>1 DEF InMigrator
  <2> HIDE DEF t
  <2> QED
    BY <1>1, <1>2, <1>3, <1>4, <2>1, <2>2, <2>3, MovesOn
<1>6. ASSUME Goto(c, "done")
      PROVE  RegistryInv'
  <2>1. "done" \in PCs /\ "done" \notin InMigrator
    BY DEF PCs, InMigrator
  <2> QED
    BY <1>1, <1>2, <1>3, <1>4, <1>6, <2>1, GoesTo
<1>7. \/ Become(c, [thread[c] EXCEPT !.pc = "pick", !.todo = Queried \cup Loaded])
      \/ Become(c, [thread[c] EXCEPT !.pc = "pick", !.todo = Queried])
      \/ Goto(c, "done")
  BY DEF Load
<1> QED
  BY <1>1, <1>5, <1>6, <1>7

LEMMA InvCall ==
    ASSUME RegistryInv, NEW p \in Callers, Call(p)
    PROVE  RegistryInv'
<1>1. /\ p \in Threads /\ p # Main /\ TypeOK /\ Called \subseteq Names
      /\ Default \in Names /\ CalledModes \subseteq BOOLEAN
  BY RegistryAssumption DEF Threads, RegistryInv, RegistryAssumption
<1>2. context = "up" /\ context' = "up" /\ thread[p].pc = "idle" /\ thread[p].pc \notin InMigrator
  BY DEF Call, InMigrator
<1>3. /\ UNCHANGED <<registry, migrated, migrator, schema, failed, ignored, runs, restarts>>
      /\ failures' \in Nat /\ hindered' \subseteq Configurers \X Names
  BY <1>1 DEF Call, TypeOK, history, bounds
<1>4. CASE Goto(p, "done")
  <2>1. "done" \in PCs /\ "done" \notin InMigrator
    BY DEF PCs, InMigrator
  <2> QED
    BY <1>1, <1>2, <1>3, <1>4, <2>1, GoesTo
<1>5. ASSUME NEW ns \in SUBSET Called, NEW mode \in CalledModes,
             Become(p, Task("pick", ns, Default, NoSource, mode))
      PROVE  RegistryInv'
  <2> DEFINE t == Task("pick", ns, Default, NoSource, mode)
  <2>1. "pick" \in PCs /\ ns \in SUBSET Names /\ NoSource \in Sources \cup {NoSource} /\ mode \in BOOLEAN
    BY <1>1 DEF PCs
  <2>2. t \in Tasks /\ t.pc = "pick"
    BY <1>1, <2>1, TaskType
  <2>3. thread' = [thread EXCEPT ![p] = t]
    BY <1>5 DEF Become
  <2>4. t.pc \notin InMigrator /\ t.pc \notin {"put", "apply", "enter"}
    BY <2>2 DEF InMigrator
  <2> HIDE DEF t
  <2> QED
    BY <1>1, <1>2, <1>3, <2>2, <2>3, <2>4, MovesOn
<1> QED
  BY <1>4, <1>5 DEF Call

LEMMA InvPickTenant ==
    ASSUME RegistryInv, NEW c \in Configurers, PickTenant(c)
    PROVE  RegistryInv'
<1>1. c \in Threads /\ c # Main /\ TypeOK
  BY RegistryAssumption DEF Threads, RegistryInv, RegistryAssumption
<1>2. thread[c] \in Tasks /\ thread[c].pc = "pick" /\ thread[c].pc \notin InMigrator
  BY <1>1 DEF PickTenant, TypeOK, InMigrator
<1>3. context \in {"booting", "up", "refused"} /\ context' = context
  BY <1>1, <1>2, NotDown DEF PickTenant
<1>4. /\ UNCHANGED <<registry, migrated, migrator, schema, failed, ignored, runs, restarts>>
      /\ failures' \in Nat /\ hindered' \subseteq Configurers \X Names
  <2>1. UNCHANGED <<registry, migrated, migrator, schema, failed, ignored, runs, restarts>>
    BY DEF PickTenant
  <2>2. UNCHANGED failures \/ CallFails
    BY DEF PickTenant
  <2>3. UNCHANGED hindered \/ \E n \in Names : Loses(c, {n})
    BY <1>2 DEF PickTenant, Tasks
  <2>4. hindered' \subseteq Configurers \X Names
    BY <1>1, <2>3 DEF TypeOK, Loses
  <2> QED
    BY <1>1, <2>1, <2>2, <2>4 DEF TypeOK, CallFails
<1>5. PICK n \in thread[c].todo :
        \/ Become(c, Task("check", thread[c].todo \ {n}, n, Source(n, c), TRUE))
        \/ Become(c, [thread[c] EXCEPT !.todo = @ \ {n}])
  BY DEF PickTenant
<1>6. n \in Names /\ thread[c].todo \ {n} \in SUBSET Names
  BY <1>2 DEF Tasks
<1>7. CASE Become(c, Task("check", thread[c].todo \ {n}, n, Source(n, c), TRUE))
  <2> DEFINE t == Task("check", thread[c].todo \ {n}, n, Source(n, c), TRUE)
         migrate == TRUE
  <2>1. "check" \in PCs /\ Source(n, c) \in Sources \cup {NoSource} /\ migrate \in BOOLEAN
    BY <1>1, <1>6, SourceType DEF PCs
  <2>2. t \in Tasks /\ t.pc = "check"
    <3>1. t = Task("check", thread[c].todo \ {n}, n, Source(n, c), migrate)
      OBVIOUS
    <3> HIDE DEF t, migrate
    <3> QED
      BY <1>6, <2>1, <3>1, TaskType
  <2>3. thread' = [thread EXCEPT ![c] = t]
    BY <1>7 DEF Become
  <2>4. t.pc \notin InMigrator /\ t.pc \notin {"put", "apply", "enter"}
    BY <2>2 DEF InMigrator
  <2> HIDE DEF t
  <2> QED
    BY <1>1, <1>2, <1>3, <1>4, <2>2, <2>3, <2>4, MovesOn
<1>8. CASE Become(c, [thread[c] EXCEPT !.todo = @ \ {n}])
  <2> DEFINE t == [thread[c] EXCEPT !.todo = @ \ {n}]
  <2>1. t \in Tasks /\ t.pc = "pick"
    BY <1>2, <1>6 DEF Tasks
  <2>2. thread' = [thread EXCEPT ![c] = t]
    BY <1>8 DEF Become
  <2>3. t.pc \notin InMigrator /\ t.pc \notin {"put", "apply", "enter"}
    BY <2>1 DEF InMigrator
  <2> HIDE DEF t
  <2> QED
    BY <1>1, <1>2, <1>3, <1>4, <2>1, <2>2, <2>3, MovesOn
<1> QED
  BY <1>5, <1>7, <1>8

LEMMA InvPickName ==
    ASSUME RegistryInv, NEW p \in Callers, PickName(p)
    PROVE  RegistryInv'
<1>1. p \in Threads /\ p # Main /\ TypeOK
  BY RegistryAssumption DEF Threads, RegistryInv, RegistryAssumption
<1>2. thread[p] \in Tasks /\ thread[p].pc = "pick" /\ thread[p].pc \notin InMigrator
  BY <1>1 DEF PickName, TypeOK, InMigrator
<1>3. context \in {"booting", "up", "refused"} /\ context' = context
  BY <1>1, <1>2, NotDown DEF PickName
<1>4. /\ UNCHANGED <<registry, migrated, migrator, schema, failed, ignored, runs, restarts>>
      /\ failures' \in Nat /\ hindered' \subseteq Configurers \X Names
  BY <1>1 DEF PickName, TypeOK, history, bounds
<1>5. PICK n \in thread[p].todo :
        Become(p, Task("check", thread[p].todo \ {n}, n, NoSource, thread[p].mode))
  BY DEF PickName
<1>6. n \in Names /\ thread[p].todo \ {n} \in SUBSET Names /\ thread[p].mode \in BOOLEAN
  BY <1>2 DEF Tasks
<1> DEFINE t == Task("check", thread[p].todo \ {n}, n, NoSource, thread[p].mode)
<1>7. "check" \in PCs /\ NoSource \in Sources \cup {NoSource}
  BY DEF PCs
<1>8. t \in Tasks /\ t.pc = "check"
  BY <1>6, <1>7, TaskType
<1>9. thread' = [thread EXCEPT ![p] = t]
  BY <1>5 DEF Become
<1>10. t.pc \notin InMigrator /\ t.pc \notin {"put", "apply", "enter"}
  BY <1>8 DEF InMigrator
<1> HIDE DEF t
<1> QED
  BY <1>1, <1>2, <1>3, <1>4, <1>8, <1>9, <1>10, MovesOn

LEMMA InvFinish ==
    ASSUME RegistryInv, NEW p \in Threads, Finish(p)
    PROVE  RegistryInv'
<1>1. TypeOK /\ thread[p].pc = "pick" /\ Goto(p, "done")
  BY DEF RegistryInv, Finish
<1>2. "done" \in PCs /\ "done" \notin InMigrator /\ thread[p].pc \notin InMigrator
  BY <1>1 DEF PCs, InMigrator
<1>3. context \in {"booting", "up", "refused"} /\ context' = context
  BY <1>1, NotDown DEF Finish
<1>4. /\ UNCHANGED <<registry, migrated, migrator, schema, failed, ignored, runs, restarts>>
      /\ failures' \in Nat /\ hindered' \subseteq Configurers \X Names
  BY <1>1 DEF Finish, TypeOK, history, bounds
<1> QED
  BY <1>1, <1>2, <1>3, <1>4, GoesTo

(* The call for one name has returned, inside or outside the Migrator.     *)
LEMMA NextNameGoes ==
    ASSUME NEW p \in Threads, NextName(p)
    PROVE  \E pc \in {"walk", "pick", "done"} : Goto(p, pc)
<1>1. Goto(p, "walk") \/ Goto(p, "pick")
  BY DEF NextName
<1> QED
  BY <1>1

(* An exception ends the constructor, and is logged elsewhere.             *)
LEMMA ThrowsGoes ==
    ASSUME NEW p \in Threads, Throws(p)
    PROVE  /\ \E pc \in {"walk", "pick", "done"} : Goto(p, pc)
           /\ context' \in {context, "refused"}
<1>1. CASE p = Main
  BY <1>1 DEF Throws
<1>2. CASE p # Main
  <2>1. NextName(p) /\ context' = context
    BY <1>2 DEF Throws
  <2> QED
    BY <2>1, NextNameGoes
<1> QED
  BY <1>1, <1>2

(* A step of a thread that is through with a name, outside the Migrator.   *)
LEMMA IsThrough ==
    ASSUME RegistryInv, NEW p \in Threads, NEW pc \in {"walk", "pick", "done"}, Goto(p, pc),
           thread[p].pc \notin InMigrator,
           context # "down", context' \in {"booting", "up", "refused"},
           failures' \in Nat, hindered' \subseteq Configurers \X Names,
           UNCHANGED <<registry, migrated, migrator, schema, failed, ignored, runs, restarts>>
    PROVE  RegistryInv'
<1>1. pc \in PCs /\ pc \notin InMigrator /\ pc \notin {"put", "apply", "enter"}
  BY DEF PCs, InMigrator
<1> QED
  BY <1>1, GoesTo

LEMMA InvCheck ==
    ASSUME RegistryInv, NEW p \in Threads, Check(p)
    PROVE  RegistryInv'
<1> DEFINE id == LowerCase[thread[p].name]
           next == IF thread[p].mode THEN "apply" ELSE "put"
<1>1. /\ TypeOK /\ thread[p] \in Tasks /\ thread[p].pc = "check" /\ thread[p].pc \notin InMigrator
      /\ id \in Names
  BY RegistryAssumption DEF RegistryInv, Check, TypeOK, Tasks, InMigrator, RegistryAssumption
<1>2. context \in {"booting", "up", "refused"} /\ context' = context
  BY <1>1, NotDown DEF Check
<1>3. /\ UNCHANGED <<registry, migrated, migrator, schema, failed, ignored, runs, restarts>>
      /\ failures' \in Nat /\ hindered' \subseteq Configurers \X Names
  <2>1. UNCHANGED <<registry, migrated, migrator, schema, failed, ignored, runs, restarts>> /\ UNCHANGED hindered
    BY DEF Check, history
  <2>2. UNCHANGED failures \/ CallFails
    BY DEF Check
  <2> QED
    BY <1>1, <2>1, <2>2 DEF TypeOK, CallFails
<1>4. next \in PCs /\ next \notin InMigrator
  BY DEF PCs, InMigrator
<1>5. \/ NextName(p)
      \/ Goto(p, "done")
      \/ thread[p].source # NoSource /\ Goto(p, next)
      \/ Become(p, [thread[p] EXCEPT !.pc = next, !.source = Source(id, p)])
  BY DEF Check
<1> HIDE DEF id, next
<1>6. CASE NextName(p)
  BY <1>1, <1>2, <1>3, <1>6, NextNameGoes, IsThrough
<1>7. CASE Goto(p, "done")
  BY <1>1, <1>2, <1>3, <1>7, IsThrough
<1>8. CASE thread[p].source # NoSource /\ Goto(p, next)
  <2>1. thread[p].source \in Sources
    BY <1>1, <1>8 DEF Tasks
  <2> QED
    BY <1>1, <1>2, <1>3, <1>4, <1>8, <2>1, GoesTo
<1>9. CASE Become(p, [thread[p] EXCEPT !.pc = next, !.source = Source(id, p)])
  <2> DEFINE t == [thread[p] EXCEPT !.pc = next, !.source = Source(id, p)]
  <2>1. Source(id, p) \in Sources
    BY <1>1, SourceType
  <2>2. t \in Tasks /\ t.pc = next /\ t.source = Source(id, p) /\ t.todo = thread[p].todo
    BY <1>1, <1>4, <2>1 DEF Tasks
  <2>3. thread' = [thread EXCEPT ![p] = t]
    BY <1>9 DEF Become
  <2> HIDE DEF t
  <2> QED
    BY <1>1, <1>2, <1>3, <1>4, <2>1, <2>2, <2>3, MovesOn
<1> QED
  BY <1>5, <1>6, <1>7, <1>8, <1>9

LEMMA InvApply ==
    ASSUME RegistryInv, NEW p \in Threads, Apply(p)
    PROVE  RegistryInv'
<1>1. TypeOK /\ thread[p].pc = "apply" /\ thread[p].pc \notin InMigrator
  BY DEF RegistryInv, Apply, InMigrator
<1>2. context \in {"booting", "up", "refused"}
  BY <1>1, NotDown
<1>3. /\ UNCHANGED <<registry, migrated, migrator, schema, failed, ignored, runs, restarts>>
      /\ failures' \in Nat /\ hindered' \subseteq Configurers \X Names
  BY <1>1 DEF Apply, TypeOK, history, bounds
<1>4. \/ NextName(p) /\ context' = context
      \/ Throws(p)
      \/ Goto(p, "enter") /\ context' = context
  BY DEF Apply
<1>5. CASE NextName(p) /\ context' = context
  BY <1>1, <1>2, <1>3, <1>5, NextNameGoes, IsThrough
<1>6. CASE Throws(p)
  <2>1. context' \in {"booting", "up", "refused"}
    BY <1>2, <1>6, ThrowsGoes
  <2> QED
    BY <1>1, <1>2, <1>3, <1>6, <2>1, ThrowsGoes, IsThrough
<1>7. CASE Goto(p, "enter") /\ context' = context
  <2>1. "enter" \in PCs /\ "enter" \notin InMigrator
    BY DEF PCs, InMigrator
  <2>2. thread[p].source \in Sources
    BY <1>1 DEF RegistryInv, SourcesAtHand
  <2> QED
    BY <1>1, <1>2, <1>3, <1>7, <2>1, <2>2, GoesTo
<1> QED
  BY <1>4, <1>5, <1>6, <1>7

-----------------------------------------------------------------------------
(* Steps that write the registry or hold the monitor.                      *)

(* What a move of one thread does to all of them.                          *)
LEMMA Moved ==
    ASSUME TypeOK, NEW p \in Threads, NEW pc \in PCs, Goto(p, pc)
    PROVE  /\ thread' \in [Threads -> Tasks]
           /\ thread'[p].pc = pc
           /\ \A q \in Threads : q # p => thread'[q] = thread[q]
           /\ \A q \in Threads : /\ thread'[q].source = thread[q].source
                                 /\ thread'[q].todo = thread[q].todo
                                 /\ thread'[q].mode = thread[q].mode
<1> DEFINE t == [thread[p] EXCEPT !.pc = pc]
<1>1. /\ thread' = [thread EXCEPT ![p] = t]
      /\ t \in Tasks /\ t.pc = pc /\ t.todo = thread[p].todo
      /\ t.source = thread[p].source /\ t.mode = thread[p].mode
  BY GotoType
<1> HIDE DEF t
<1> QED
  BY <1>1 DEF TypeOK

(* The holder of the monitor is the only one at work.                      *)
LEMMA Alone ==
    ASSUME RegistryInv, NEW p \in Threads, AtWork(p)
    PROVE  /\ lock = p /\ lock # NoThread
           /\ \A q \in Threads : q # p => ~ AtWork(q)
           /\ TypeOK /\ thread[p].source \in Sources /\ thread[p].source.id \in Names
           /\ context \in {"booting", "up", "refused"}
           /\ thread[p].source.id \in pendingJobs \ failed
<1>1. lock = p /\ \A q \in Threads : q # p => ~ AtWork(q)
  BY DEF RegistryInv, OneMigrationAtATime, AtWork
<1>2. lock # NoThread
  BY <1>1, RegistryAssumption DEF RegistryAssumption
<1>3. TypeOK /\ thread[p].source \in Sources
  BY DEF RegistryInv, SourcesAtHand, AtWork
<1>4. thread[p].source.id \in Names
  BY <1>3 DEF Sources
<1>5. thread[p].pc # "idle"
  BY DEF AtWork, InMigrator
<1>6. context \in {"booting", "up", "refused"}
  BY <1>5, NotDown
<1>7. thread[p].source.id \in pendingJobs \ failed
  BY DEF RegistryInv, Books
<1> QED
  BY <1>1, <1>2, <1>3, <1>4, <1>6, <1>7

(* Registering a source takes no entry away.                               *)
LEMMA Registers ==
    ASSUME TypeOK, NEW n \in Names, NEW s \in Sources,
           registry' = [registry EXCEPT ![n] = s]
    PROVE  /\ registry' \in [Names -> Sources \cup {NoSource}]
           /\ \A m \in Names : Contains(m) => Contains(m)'
BY SourceThere DEF TypeOK, Contains

LEMMA InvPut ==
    ASSUME RegistryInv, NEW p \in Threads, Put(p)
    PROVE  RegistryInv'
<1>1. /\ TypeOK /\ thread[p] \in Tasks /\ thread[p].pc = "put" /\ thread[p].pc \notin InMigrator
      /\ LowerCase[thread[p].name] \in Names
  BY RegistryAssumption DEF RegistryInv, Put, TypeOK, Tasks, InMigrator, RegistryAssumption
<1>2. thread[p].source \in Sources
  BY <1>1 DEF RegistryInv, SourcesAtHand
<1>3. context \in {"booting", "up", "refused"} /\ context' = context
  BY <1>1, NotDown DEF Put
<1>4. UNCHANGED <<migrated, lock, counter, pendingJobs, schema, failed, ignored, runs, hindered,
                failures, restarts>>
  BY DEF Put, migrator, history, bounds
<1>5. PICK pc \in {"walk", "pick", "done"} : Goto(p, pc)
  BY NextNameGoes DEF Put
<1>6. pc \in PCs /\ pc \notin InMigrator /\ pc \notin {"put", "apply", "enter"}
  BY DEF PCs, InMigrator
<1>7. /\ thread' \in [Threads -> Tasks]
      /\ thread'[p].pc = pc
      /\ \A q \in Threads : q # p => thread'[q] = thread[q]
      /\ \A q \in Threads : thread'[q].source = thread[q].source /\ thread'[q].todo = thread[q].todo
  BY <1>1, <1>5, <1>6, Moved
<1>8. /\ registry' \in [Names -> Sources \cup {NoSource}]
      /\ \A m \in Names : Contains(m) => Contains(m)'
  BY <1>1, <1>2, Registers DEF Put
<1>9. TypeOK'
  BY <1>1, <1>3, <1>4, <1>7, <1>8 DEF TypeOK
<1>10. OneMigrationAtATime'
  BY <1>1, <1>4, <1>6, <1>7 DEF RegistryInv, OneMigrationAtATime
<1>11. SourcesAtHand'
  <2>1. ASSUME NEW q \in Threads, thread'[q].pc \in {"put", "apply", "enter"} \cup InMigrator
        PROVE  thread'[q].source \in Sources
    BY <2>1, <1>6, <1>7 DEF RegistryInv, SourcesAtHand
  <2>2. ASSUME NEW n \in thread'[Main].todo
        PROVE  Contains(n)'
    <3>1. Main \in Threads /\ thread[Main].todo \subseteq Names
      BY <1>1 DEF Threads, TypeOK, Tasks
    <3>2. n \in Names /\ Contains(n)
      BY <2>2, <3>1, <1>7 DEF RegistryInv, SourcesAtHand
    <3> QED
      BY <3>2, <1>8
  <2> QED
    BY <2>1, <2>2 DEF SourcesAtHand
<1>12. DownIsEmpty'
  BY <1>3 DEF DownIsEmpty
<1>13. Books'
  BY <1>4, <1>6, <1>7 DEF RegistryInv, Books, AtWork
<1>14. FlagsHonest'
  BY <1>4, <1>6, <1>7 DEF RegistryInv, FlagsHonest, HasOwnScript, OwnScript, InMigrator
<1> QED
  BY <1>9, <1>10, <1>11, <1>12, <1>13, <1>14 DEF RegistryInv

LEMMA InvEnter ==
    ASSUME RegistryInv, NEW p \in Threads, Enter(p)
    PROVE  RegistryInv'
<1> DEFINE n == thread[p].source.id
<1>1. TypeOK /\ thread[p].pc = "enter" /\ thread[p].pc \notin InMigrator /\ lock = NoThread
  BY DEF RegistryInv, Enter, InMigrator, MonitorFree
<1>2. thread[p].source \in Sources /\ n \in Names
  <2>1. thread[p].source \in Sources
    BY <1>1 DEF RegistryInv, SourcesAtHand
  <2> QED
    BY <2>1 DEF Sources
<1>3. context \in {"booting", "up", "refused"} /\ context' = context
  BY <1>1, NotDown DEF Enter
<1>4. UNCHANGED <<registry, migrated, schema, failed, ignored, hindered, failures, restarts>>
  BY DEF Enter, bounds
<1>5. CASE n \in pendingJobs
  <2>1. NextName(p) /\ UNCHANGED migrator /\ UNCHANGED runs
    BY <1>5 DEF Enter, AlreadySubmitted
  <2>2. /\ UNCHANGED <<registry, migrated, migrator, schema, failed, ignored, runs, restarts>>
        /\ failures' \in Nat /\ hindered' \subseteq Configurers \X Names
    BY <2>1, <1>1, <1>4 DEF TypeOK
  <2> QED
    BY <2>1, <2>2, <1>1, <1>3, NextNameGoes, IsThrough
<1>6. CASE n \notin pendingJobs
  <2>1. /\ lock' = p /\ counter' = counter + 1 /\ pendingJobs' = pendingJobs \cup {n}
        /\ runs' = [runs EXCEPT ![n] = @ + 1] /\ Goto(p, "migrate")
    BY <1>6 DEF Enter, Remembered
  <2>2. "migrate" \in PCs
    BY DEF PCs
  <2>3. /\ thread' \in [Threads -> Tasks]
        /\ thread'[p].pc = "migrate"
        /\ \A q \in Threads : q # p => thread'[q] = thread[q]
        /\ \A q \in Threads : thread'[q].source = thread[q].source /\ thread'[q].todo = thread[q].todo
    BY <1>1, <2>1, <2>2, Moved
  <2>4. \A q \in Threads : ~ AtWork(q)
    BY <1>1, RegistryAssumption DEF RegistryInv, OneMigrationAtATime, AtWork, RegistryAssumption
  <2>5. \A q \in Threads : q # p => thread'[q].pc = thread[q].pc /\ thread[q].pc \notin InMigrator
    BY <2>3, <2>4 DEF AtWork
  <2>6. TypeOK'
    BY <1>1, <1>2, <1>3, <1>4, <2>1, <2>3 DEF TypeOK
  <2>7. OneMigrationAtATime'
    BY <2>1, <2>3, <2>5 DEF OneMigrationAtATime, InMigrator
  <2>8. SourcesAtHand'
    <3>1. \A q \in Threads : thread'[q].pc \in {"put", "apply", "enter"} \cup InMigrator =>
            thread'[q].source \in Sources
      BY <1>2, <2>3 DEF RegistryInv, SourcesAtHand
    <3>2. thread'[Main].todo = thread[Main].todo
      BY <2>3 DEF Threads
    <3>3. \A m \in thread'[Main].todo : Contains(m)'
      BY <3>2, <1>4 DEF RegistryInv, SourcesAtHand, Contains
    <3> QED
      BY <3>1, <3>3 DEF SourcesAtHand
  <2>9. DownIsEmpty'
    BY <1>3 DEF DownIsEmpty
  <2>10. Books'
    <3>1. IsFiniteSet(failed') /\ failed' \subseteq pendingJobs'
      BY <1>4, <2>1 DEF RegistryInv, Books
    <3>2. counter = Cardinality(failed) /\ lock' # NoThread
      BY <1>1, <2>1, RegistryAssumption, FS_CardinalityType DEF RegistryInv, Books, RegistryAssumption
    <3>3. counter' = Cardinality(failed') + 1
      BY <3>2, <1>4, <2>1
    <3>4. ASSUME NEW m \in Names
          PROVE  runs'[m] = IF m \in pendingJobs' THEN 1 ELSE 0
      BY <1>1, <1>2, <1>6, <2>1 DEF RegistryInv, Books, TypeOK
    <3>5. ASSUME NEW q \in Threads, AtWork(q)'
          PROVE  thread'[q].source.id \in pendingJobs' \ failed'
      <4>1. q = p
        BY <3>5, <2>5 DEF AtWork
      <4> QED
        BY <4>1, <2>1, <2>3, <1>4, <1>6 DEF RegistryInv, Books
    <3> QED
      BY <3>1, <3>2, <3>3, <3>4, <3>5 DEF Books
  <2>11. FlagsHonest'
    <3>1. ASSUME NEW s \in migrated'
          PROVE  s.id \in pendingJobs' /\ HasOwnScript(s)'
      BY <1>4, <2>1 DEF RegistryInv, FlagsHonest, HasOwnScript, OwnScript
    <3>2. \A s \in migrated' : s.id # thread'[p].source.id
      BY <1>4, <1>6, <2>3 DEF RegistryInv, FlagsHonest
    <3> QED
      BY <3>1, <3>2, <2>3, <2>5 DEF FlagsHonest, InMigrator
  <2> QED
    BY <2>6, <2>7, <2>8, <2>9, <2>10, <2>11 DEF RegistryInv
<1> QED
  BY <1>5, <1>6

(* Letting go of the monitor: whatever becomes of the name, nobody is at   *)
(* work any more.                                                          *)
LEMMA LetsGo ==
    ASSUME RegistryInv, NEW p \in Threads, AtWork(p),
           NEW pc \in {"walk", "pick", "done"}, Goto(p, pc), lock' = NoThread,
           context' \in {"booting", "up", "refused"}, failures' \in Nat, counter' \in Nat,
           failed' \subseteq pendingJobs, IsFiniteSet(failed'), counter' = Cardinality(failed'),
           UNCHANGED <<registry, migrated, pendingJobs, schema, ignored, runs, hindered, restarts>>
    PROVE  RegistryInv'
<1>1. /\ TypeOK /\ \A q \in Threads : q # p => ~ AtWork(q)
  BY Alone
<1>2. pc \in PCs /\ pc \notin InMigrator /\ pc \notin {"put", "apply", "enter"}
  BY DEF PCs, InMigrator
<1>3. /\ thread' \in [Threads -> Tasks]
      /\ thread'[p].pc = pc
      /\ \A q \in Threads : q # p => thread'[q] = thread[q]
      /\ \A q \in Threads : thread'[q].source = thread[q].source /\ thread'[q].todo = thread[q].todo
  BY <1>1, <1>2, Moved
<1>4. \A q \in Threads : thread'[q].pc \notin InMigrator
  BY <1>1, <1>2, <1>3 DEF AtWork
<1>5. TypeOK'
  BY <1>1, <1>3 DEF TypeOK
<1>6. OneMigrationAtATime'
  BY <1>4, RegistryAssumption DEF OneMigrationAtATime, RegistryAssumption
<1>7. SourcesAtHand'
  <2>1. thread'[Main].todo = thread[Main].todo
    BY <1>3 DEF Threads
  <2>2. \A q \in Threads : thread'[q].pc \in {"put", "apply", "enter"} => q # p
    BY <1>2, <1>3
  <2>3. \A q \in Threads : thread'[q].pc \in {"put", "apply", "enter"} \cup InMigrator =>
          thread'[q].source \in Sources
    BY <2>2, <1>3, <1>4 DEF RegistryInv, SourcesAtHand
  <2>4. \A n \in thread'[Main].todo : Contains(n)'
    BY <2>1 DEF RegistryInv, SourcesAtHand, Contains
  <2> QED
    BY <2>3, <2>4 DEF SourcesAtHand
<1>8. DownIsEmpty'
  BY DEF DownIsEmpty
<1>9. Books'
  BY <1>4, FS_CardinalityType DEF RegistryInv, Books, AtWork
<1>10. FlagsHonest'
  BY <1>4 DEF RegistryInv, FlagsHonest, HasOwnScript, OwnScript, InMigrator
<1> QED
  BY <1>5, <1>6, <1>7, <1>8, <1>9, <1>10 DEF RegistryInv

(* Going on inside the monitor.                                            *)
LEMMA GoesOn ==
    ASSUME RegistryInv, NEW p \in Threads, AtWork(p),
           NEW pc \in InMigrator, Goto(p, pc),
           registry' \in [Names -> Sources \cup {NoSource}],
           \A m \in Names : Contains(m) => Contains(m)',
           UNCHANGED <<context, lock, counter, pendingJobs, failed, runs, restarts>>
    PROVE  /\ OneMigrationAtATime' /\ SourcesAtHand' /\ DownIsEmpty' /\ Books'
           /\ thread' \in [Threads -> Tasks]
           /\ thread'[p].pc = pc /\ thread'[p].source = thread[p].source
           /\ \A q \in Threads : q # p => thread'[q] = thread[q] /\ thread'[q].pc \notin InMigrator
<1>1. /\ TypeOK /\ \A q \in Threads : q # p => ~ AtWork(q)
      /\ context # "down" /\ thread[p].source \in Sources /\ lock = p
  BY Alone
<1>2. pc \in PCs /\ thread[p].pc \in InMigrator
  BY DEF PCs, InMigrator, AtWork
<1>3. /\ thread' \in [Threads -> Tasks]
      /\ thread'[p].pc = pc
      /\ \A q \in Threads : q # p => thread'[q] = thread[q]
      /\ \A q \in Threads : thread'[q].source = thread[q].source /\ thread'[q].todo = thread[q].todo
  BY <1>1, <1>2, Moved
<1>4. \A q \in Threads : q # p => thread'[q].pc \notin InMigrator
  BY <1>1, <1>3 DEF AtWork
<1>5. OneMigrationAtATime'
  BY <1>1, <1>3, <1>4 DEF OneMigrationAtATime
<1>6. SourcesAtHand'
  <2>1. \A q \in Threads : thread'[q].pc \in {"put", "apply", "enter"} \cup InMigrator =>
          thread'[q].source \in Sources
    BY <1>1, <1>3 DEF RegistryInv, SourcesAtHand
  <2>2. thread'[Main].todo = thread[Main].todo /\ thread[Main].todo \subseteq Names
    BY <1>1, <1>3 DEF Threads, TypeOK, Tasks
  <2>3. \A n \in thread'[Main].todo : Contains(n)'
    BY <2>2 DEF RegistryInv, SourcesAtHand
  <2> QED
    BY <2>1, <2>3 DEF SourcesAtHand
<1>7. DownIsEmpty'
  BY <1>1 DEF DownIsEmpty
<1>8. Books'
  BY <1>2, <1>3, <1>4 DEF RegistryInv, Books, AtWork
<1> QED
  BY <1>3, <1>4, <1>5, <1>6, <1>7, <1>8

LEMMA InvMigrate ==
    ASSUME RegistryInv, NEW p \in Threads, Migrate(p)
    PROVE  RegistryInv'
<1> DEFINE s == thread[p].source
<1>1. AtWork(p) /\ thread[p].pc = "migrate"
  BY DEF Migrate, AtWork, InMigrator
<1>2. /\ TypeOK /\ lock = p /\ lock # NoThread /\ s \in Sources /\ s.id \in Names
      /\ context \in {"booting", "up", "refused"} /\ s.id \in pendingJobs \ failed
  BY <1>1, Alone
<1>3. UNCHANGED <<registry, migrated, pendingJobs, runs, hindered, restarts>>
  BY DEF Migrate
<1>4. CASE /\ OwnScript(s) \in Scripts
           /\ schema' = [schema EXCEPT ![s.id] = OwnScript(s)]
           /\ Goto(p, "mark")
           /\ UNCHANGED <<context, lock, counter, failed, ignored, failures>>
  <2>1. "mark" \in InMigrator
    BY DEF InMigrator
  <2>2. /\ registry' \in [Names -> Sources \cup {NoSource}]
        /\ \A m \in Names : Contains(m) => Contains(m)'
    BY <1>2, <1>3 DEF TypeOK, Contains
  <2>3. /\ OneMigrationAtATime' /\ SourcesAtHand' /\ DownIsEmpty' /\ Books'
        /\ thread' \in [Threads -> Tasks]
        /\ thread'[p].pc = "mark" /\ thread'[p].source = s
        /\ \A q \in Threads : q # p => thread'[q].pc \notin InMigrator
    BY <1>1, <1>3, <1>4, <2>1, <2>2, GoesOn
  <2>4. schema' \in [Names -> Scripts \cup {Disabled}] /\ schema'[s.id] = OwnScript(s)
    BY <1>2, <1>4 DEF TypeOK
  <2>5. TypeOK'
    BY <1>2, <1>3, <1>4, <2>3, <2>4 DEF TypeOK
  <2>6. FlagsHonest'
    <3>1. ASSUME NEW t \in migrated'
          PROVE  t.id \in pendingJobs' /\ HasOwnScript(t)'
      <4>1. t \in migrated /\ t.id \in Names /\ t.id # s.id
        BY <1>1, <1>2, <1>3 DEF RegistryInv, FlagsHonest, TypeOK, Sources
      <4>2. schema'[t.id] = schema[t.id]
        BY <4>1, <1>2, <1>4 DEF TypeOK
      <4> QED
        BY <4>1, <4>2, <1>3, <1>4 DEF RegistryInv, FlagsHonest, HasOwnScript, OwnScript
    <3>2. HasOwnScript(s)'
      BY <1>4, <2>3, <2>4 DEF HasOwnScript, OwnScript
    <3> QED
      BY <3>1, <3>2, <2>3 DEF FlagsHonest, InMigrator, HasOwnScript, OwnScript
  <2> QED
    BY <2>3, <2>5, <2>6 DEF RegistryInv
<1>5. CASE /\ OwnScript(s) \in Scripts /\ CallFails
           /\ ignored' = ignored \cup {s.id}
           /\ Goto(p, "mark")
           /\ UNCHANGED <<context, lock, counter, failed, schema>>
  <2>1. "mark" \in InMigrator
    BY DEF InMigrator
  <2>2. /\ registry' \in [Names -> Sources \cup {NoSource}]
        /\ \A m \in Names : Contains(m) => Contains(m)'
    BY <1>2, <1>3 DEF TypeOK, Contains
  <2>3. /\ OneMigrationAtATime' /\ SourcesAtHand' /\ DownIsEmpty' /\ Books'
        /\ thread' \in [Threads -> Tasks]
        /\ thread'[p].pc = "mark" /\ thread'[p].source = s
        /\ \A q \in Threads : q # p => thread'[q].pc \notin InMigrator
    BY <1>1, <1>3, <1>5, <2>1, <2>2, GoesOn
  <2>4. ignored' \subseteq Names /\ failures' \in Nat
    BY <1>2, <1>5 DEF TypeOK, CallFails
  <2>5. TypeOK'
    BY <1>2, <1>3, <1>5, <2>3, <2>4 DEF TypeOK
  <2>6. FlagsHonest'
    <3>1. ASSUME NEW t \in migrated'
          PROVE  t.id \in pendingJobs' /\ HasOwnScript(t)'
      <4>1. t \in migrated /\ t.id \in pendingJobs /\ HasOwnScript(t)
        BY <1>3 DEF RegistryInv, FlagsHonest
      <4>2. ignored \subseteq ignored' /\ schema' = schema
        BY <1>5
      <4> QED
        BY <4>1, <4>2, <1>3 DEF HasOwnScript, OwnScript
    <3>2. HasOwnScript(s)'
      BY <1>5, <2>3 DEF HasOwnScript, OwnScript
    <3> QED
      BY <3>1, <3>2, <2>3 DEF FlagsHonest, InMigrator, HasOwnScript, OwnScript
  <2> QED
    BY <2>3, <2>5, <2>6 DEF RegistryInv
<1>6. CASE /\ CallFails \/ UNCHANGED failures
           /\ failed' = failed \cup {s.id}
           /\ AfterFailure(p)
           /\ UNCHANGED <<schema, ignored>>
  <2>1. /\ IsFiniteSet(failed) /\ failed \subseteq pendingJobs
        /\ counter = Cardinality(failed) + 1
    BY <1>2 DEF RegistryInv, Books
  <2>2. IsFiniteSet(failed') /\ Cardinality(failed') = Cardinality(failed) + 1
    BY <1>2, <1>6, <2>1, FS_AddElement
  <2>3. failed' \subseteq pendingJobs /\ failures' \in Nat
    BY <1>2, <1>6, <2>1 DEF TypeOK, CallFails
  <2>4. lock' = NoThread /\ counter' = counter
    BY <1>6 DEF AfterFailure
  <2>5. counter' \in Nat /\ counter' = Cardinality(failed')
    BY <1>2, <2>1, <2>2, <2>4 DEF TypeOK
  <2>6. Throws(p) \/ (NextName(p) /\ context' = context)
    BY <1>6 DEF AfterFailure
  <2>7. /\ \E pc \in {"walk", "pick", "done"} : Goto(p, pc)
        /\ context' \in {"booting", "up", "refused"}
    BY <2>6, <1>2, ThrowsGoes, NextNameGoes
  <2> QED
    BY <1>1, <1>3, <1>6, <2>2, <2>3, <2>4, <2>5, <2>7, LetsGo
<1> QED
  BY <1>4, <1>5, <1>6 DEF Migrate

LEMMA InvMark ==
    ASSUME RegistryInv, NEW p \in Threads, Mark(p)
    PROVE  RegistryInv'
<1> DEFINE s == thread[p].source
<1>1. AtWork(p) /\ thread[p].pc = "mark" /\ "callback" \in InMigrator
  BY DEF Mark, AtWork, InMigrator
<1>2. TypeOK /\ s \in Sources /\ s.id \in pendingJobs
  BY <1>1, Alone
<1>3. /\ UNCHANGED <<context, registry, lock, counter, pendingJobs, schema, failed, ignored,
                    runs, hindered, failures, restarts>>
      /\ migrated' = migrated \cup {s} /\ Goto(p, "callback")
  BY DEF Mark, migrator, history, bounds
<1>4. /\ registry' \in [Names -> Sources \cup {NoSource}]
      /\ \A m \in Names : Contains(m) => Contains(m)'
  BY <1>2, <1>3 DEF TypeOK, Contains
<1>5. /\ OneMigrationAtATime' /\ SourcesAtHand' /\ DownIsEmpty' /\ Books'
      /\ thread' \in [Threads -> Tasks]
      /\ thread'[p].pc = "callback" /\ thread'[p].source = s
      /\ \A q \in Threads : q # p => thread'[q].pc \notin InMigrator
  BY <1>1, <1>3, <1>4, GoesOn
<1>6. TypeOK'
  BY <1>2, <1>3, <1>5 DEF TypeOK
<1>7. FlagsHonest'
  <2>1. HasOwnScript(s)
    BY <1>1 DEF RegistryInv, FlagsHonest
  <2>2. ASSUME NEW t \in migrated'
        PROVE  t.id \in pendingJobs' /\ HasOwnScript(t)'
    BY <2>1, <1>2, <1>3 DEF RegistryInv, FlagsHonest, HasOwnScript, OwnScript
  <2>3. HasOwnScript(s)'
    BY <2>1, <1>3, <1>5 DEF HasOwnScript, OwnScript
  <2> QED
    BY <2>2, <2>3, <1>3, <1>5 DEF FlagsHonest, InMigrator, HasOwnScript, OwnScript
<1> QED
  BY <1>5, <1>6, <1>7 DEF RegistryInv

LEMMA InvCallback ==
    ASSUME RegistryInv, NEW p \in Threads, Callback(p)
    PROVE  RegistryInv'
<1> DEFINE s == thread[p].source
<1>1. AtWork(p) /\ thread[p].pc = "callback" /\ "leave" \in InMigrator
  BY DEF Callback, AtWork, InMigrator
<1>2. TypeOK /\ s \in Sources /\ s.id \in Names
  BY <1>1, Alone
<1>3. /\ UNCHANGED <<context, migrated, lock, counter, pendingJobs, schema, failed, ignored,
                    runs, hindered, failures, restarts>>
      /\ registry' = [registry EXCEPT ![s.id] = s] /\ Goto(p, "leave")
  BY DEF Callback, migrator, history, bounds
<1>4. /\ registry' \in [Names -> Sources \cup {NoSource}]
      /\ \A m \in Names : Contains(m) => Contains(m)'
  BY <1>2, <1>3, Registers
<1>5. /\ OneMigrationAtATime' /\ SourcesAtHand' /\ DownIsEmpty' /\ Books'
      /\ thread' \in [Threads -> Tasks]
      /\ thread'[p].pc = "leave" /\ thread'[p].source = s
      /\ \A q \in Threads : q # p => thread'[q].pc \notin InMigrator
  BY <1>1, <1>3, <1>4, GoesOn
<1>6. TypeOK'
  BY <1>2, <1>3, <1>4, <1>5 DEF TypeOK
<1>7. FlagsHonest'
  <2>1. HasOwnScript(s) /\ s \in migrated
    BY <1>1 DEF RegistryInv, FlagsHonest
  <2>2. ASSUME NEW t \in migrated'
        PROVE  t.id \in pendingJobs' /\ HasOwnScript(t)'
    BY <1>3 DEF RegistryInv, FlagsHonest, HasOwnScript, OwnScript
  <2>3. HasOwnScript(s)'
    BY <2>1, <1>3, <1>5 DEF HasOwnScript, OwnScript
  <2> QED
    BY <2>1, <2>2, <2>3, <1>3, <1>5 DEF FlagsHonest, InMigrator, HasOwnScript, OwnScript
<1> QED
  BY <1>5, <1>6, <1>7 DEF RegistryInv

LEMMA InvLeave ==
    ASSUME RegistryInv, NEW p \in Threads, Leave(p)
    PROVE  RegistryInv'
<1>1. AtWork(p) /\ thread[p].pc = "leave"
  BY DEF Leave, AtWork, InMigrator
<1>2. TypeOK /\ lock # NoThread /\ context \in {"booting", "up", "refused"}
  BY <1>1, Alone
<1>3. /\ UNCHANGED <<context, registry, migrated, pendingJobs, schema, failed, ignored,
                    runs, hindered, failures, restarts>>
      /\ lock' = NoThread /\ counter' = counter - 1
  BY DEF Leave, history, bounds
<1>4. IsFiniteSet(failed) /\ failed \subseteq pendingJobs /\ counter = Cardinality(failed) + 1
  BY <1>2 DEF RegistryInv, Books
<1>5. IsFiniteSet(failed') /\ counter' = Cardinality(failed') /\ counter' \in Nat
  BY <1>3, <1>4, FS_CardinalityType
<1>6. failures' \in Nat /\ failed' \subseteq pendingJobs
  BY <1>2, <1>3, <1>4 DEF TypeOK
<1>7. \E pc \in {"walk", "pick", "done"} : Goto(p, pc)
  BY NextNameGoes DEF Leave
<1> QED
  BY <1>1, <1>2, <1>3, <1>5, <1>6, <1>7, LetsGo

-----------------------------------------------------------------------------
(* The constructor's first step, and restarts.                             *)

LEMMA IdleType == Idle \in Tasks /\ Idle.pc = "idle" /\ Idle.todo = {} /\ Idle.mode = TRUE
<1> DEFINE migrate == TRUE
<1>1. "idle" \in PCs /\ {} \in SUBSET Names /\ Default \in Names /\ migrate \in BOOLEAN
  BY RegistryAssumption DEF RegistryAssumption, PCs
<1>2. Idle = Task("idle", {}, Default, NoSource, migrate)
  BY DEF Idle
<1>3. Idle.mode = migrate
  BY DEF Idle, Task
<1> HIDE DEF migrate
<1>4. Idle \in Tasks /\ Idle.pc = "idle" /\ Idle.todo = {}
  BY <1>1, <1>2, TaskType
<1> QED
  BY <1>3, <1>4 DEF migrate

LEMMA InvCreateDatasources ==
    ASSUME RegistryInv, CreateDatasources
    PROVE  RegistryInv'
<1>1. /\ TypeOK /\ context = "down" /\ context' = "booting" /\ Main \in Threads
      /\ \A q \in Threads : thread[q].pc = "idle"
  BY DEF RegistryInv, DownIsEmpty, CreateDatasources, Threads
<1>2. UNCHANGED <<migrated, lock, counter, pendingJobs, schema, failed, ignored, runs, hindered,
                failures, restarts>>
  BY DEF CreateDatasources, migrator, history, bounds
<1>3. PICK keys \in Configurations :
        /\ registry' = [n \in Names |-> ConfiguredAs(n, keys)]
        /\ Become(Main, Task("walk", {LowerCase[k] : k \in keys}, Default, NoSource, TRUE))
  BY DEF CreateDatasources
<1> DEFINE migrate == TRUE
           ids == {LowerCase[k] : k \in keys}
           t == Task("walk", ids, Default, NoSource, migrate)
<1>4. thread' = [thread EXCEPT ![Main] = t]
  BY <1>3 DEF Become
<1>5. ids \in SUBSET Names /\ "walk" \in PCs /\ Default \in Names /\ migrate \in BOOLEAN
  BY RegistryAssumption DEF RegistryAssumption, PCs
<1>6. \A n \in ids : n \in Names /\ \E k \in keys : LowerCase[k] = n
  BY <1>5
<1>7. t \in Tasks /\ t.pc = "walk" /\ t.todo = ids
  <2> HIDE DEF ids, migrate
  <2> QED
    BY <1>5, TaskType
<1> HIDE DEF t, ids
<1>8. /\ registry' \in [Names -> Sources \cup {NoSource}]
      /\ \A n \in ids : registry'[n] # NoSource
  BY <1>3, <1>6, ConfiguredType
<1>9. /\ thread' \in [Threads -> Tasks]
      /\ thread'[Main].todo = ids
      /\ \A q \in Threads : thread'[q].pc \in {"walk", "idle"}
  BY <1>1, <1>4, <1>7 DEF TypeOK
<1>10. \A q \in Threads : /\ thread[q].pc \notin InMigrator
                          /\ thread'[q].pc \notin {"put", "apply", "enter"} \cup InMigrator
  BY <1>1, <1>9 DEF InMigrator
<1>11. TypeOK'
  BY <1>1, <1>2, <1>8, <1>9 DEF TypeOK
<1>12. OneMigrationAtATime'
  BY <1>2, <1>10 DEF RegistryInv, OneMigrationAtATime
<1>13. SourcesAtHand'
  BY <1>8, <1>9, <1>10 DEF SourcesAtHand, Contains
<1>14. DownIsEmpty'
  BY <1>1 DEF DownIsEmpty
<1>15. Books'
  BY <1>2, <1>10 DEF RegistryInv, Books, AtWork
<1>16. FlagsHonest'
  BY <1>2, <1>10 DEF RegistryInv, FlagsHonest, HasOwnScript, OwnScript, InMigrator
<1> QED
  BY <1>11, <1>12, <1>13, <1>14, <1>15, <1>16 DEF RegistryInv

(* What a new context starts from, whatever the Migrator remembers.        *)
LEMMA Forgets ==
    ASSUME TypeOK, Forget
    PROVE  /\ context' = "down" /\ registry' = [n \in Names |-> NoSource] /\ migrated' = {}
           /\ thread' \in [Threads -> Tasks]
           /\ \A q \in Threads : thread'[q].pc = "idle" /\ thread'[q].todo = {} /\ thread'[q].mode = TRUE
           /\ schema' = schema /\ failures' \in Nat /\ restarts' \in Nat /\ hindered' = {}
<1>1. thread' = [q \in Threads |-> Idle]
  BY DEF Forget
<1>2. restarts' \in Nat /\ failures' \in Nat
  BY RegistryAssumption DEF Forget, TypeOK, RegistryAssumption
<1>3. /\ thread' \in [Threads -> Tasks]
      /\ \A q \in Threads : thread'[q].pc = "idle" /\ thread'[q].todo = {} /\ thread'[q].mode = TRUE
  <2> HIDE DEF Idle
  <2> QED
    BY <1>1, IdleType
<1> QED
  BY <1>2, <1>3 DEF Forget

LEMMA InvRestart ==
    ASSUME RegistryInv, Forget,
           lock' = NoThread, pendingJobs' \subseteq Names, failed' \subseteq pendingJobs',
           ignored' \subseteq Names, IsFiniteSet(failed'), counter' = Cardinality(failed'),
           runs' \in [Names -> Nat], \A n \in Names : runs'[n] = IF n \in pendingJobs' THEN 1 ELSE 0
    PROVE  RegistryInv'
<1>1. TypeOK /\ Main \in Threads
  BY DEF RegistryInv, Threads
<1>2. /\ context' = "down" /\ registry' = [n \in Names |-> NoSource] /\ migrated' = {}
      /\ thread' \in [Threads -> Tasks]
      /\ \A q \in Threads : thread'[q].pc = "idle" /\ thread'[q].todo = {}
      /\ schema' = schema /\ failures' \in Nat /\ restarts' \in Nat /\ hindered' = {}
  BY <1>1, Forgets
<1>3. counter' \in Nat
  BY FS_CardinalityType
<1>4. TypeOK'
  BY <1>1, <1>2, <1>3 DEF TypeOK
<1>5. OneMigrationAtATime'
  BY <1>2, RegistryAssumption DEF OneMigrationAtATime, InMigrator, RegistryAssumption
<1>6. SourcesAtHand'
  BY <1>1, <1>2 DEF SourcesAtHand, InMigrator
<1>7. DownIsEmpty'
  BY <1>2 DEF DownIsEmpty, Contains
<1>8. Books'
  BY <1>2, <1>3 DEF Books, AtWork, InMigrator
<1>9. FlagsHonest'
  BY <1>2 DEF FlagsHonest
<1> QED
  BY <1>4, <1>5, <1>6, <1>7, <1>8, <1>9 DEF RegistryInv

LEMMA InvRestartContext ==
    ASSUME RegistryInv, RestartContext
    PROVE  RegistryInv'
<1>1. TypeOK /\ Forget /\ UNCHANGED <<lock, counter, pendingJobs, failed, ignored, runs>>
  BY DEF RegistryInv, RestartContext, migrator, history
<1>2. lock = NoThread
  BY DEF RegistryInv, RestartContext, OneMigrationAtATime, InMigrator, TypeOK
<1>3. /\ pendingJobs \subseteq Names /\ ignored \subseteq Names /\ failed \subseteq pendingJobs /\ IsFiniteSet(failed)
      /\ runs \in [Names -> Nat] /\ \A n \in Names : runs[n] = IF n \in pendingJobs THEN 1 ELSE 0
  BY <1>1 DEF RegistryInv, Books, TypeOK
<1>4. counter = Cardinality(failed)
  BY <1>2, FS_CardinalityType DEF RegistryInv, Books
<1> QED
  BY <1>1, <1>2, <1>3, <1>4, InvRestart

LEMMA InvRestartProcess ==
    ASSUME RegistryInv, RestartProcess
    PROVE  RegistryInv'
<1>1. /\ Forget /\ lock' = NoThread /\ counter' = 0 /\ pendingJobs' = {} /\ failed' = {}
      /\ ignored' = {} /\ runs' = [n \in Names |-> 0]
  BY DEF RestartProcess
<1>2. IsFiniteSet({}) /\ Cardinality({}) = 0
  BY FS_EmptySet
<1> QED
  BY <1>1, <1>2, InvRestart

LEMMA InvInit ==
    ASSUME Init
    PROVE  RegistryInv
<1>1. /\ thread \in [Threads -> Tasks]
      /\ \A q \in Threads : thread[q].pc = "idle" /\ thread[q].todo = {}
  <2>1. thread = [q \in Threads |-> Idle]
    BY DEF Init
  <2> HIDE DEF Idle
  <2> QED
    BY <2>1, IdleType
<1>2. IsFiniteSet({}) /\ Cardinality({}) = 0
  BY FS_EmptySet
<1>3. TypeOK
  BY <1>1 DEF Init, TypeOK
<1>4. OneMigrationAtATime
  BY <1>1, RegistryAssumption DEF Init, OneMigrationAtATime, InMigrator, RegistryAssumption
<1>5. SourcesAtHand
  BY <1>1 DEF SourcesAtHand, InMigrator, Threads
<1>6. DownIsEmpty
  BY <1>1 DEF Init, DownIsEmpty, Contains
<1>7. Books
  BY <1>1, <1>2 DEF Init, Books, AtWork, InMigrator
<1>8. FlagsHonest
  BY <1>1 DEF Init, FlagsHonest
<1> QED
  BY <1>3, <1>4, <1>5, <1>6, <1>7, <1>8 DEF RegistryInv

-----------------------------------------------------------------------------
(* The theorems.                                                           *)

(* Every step keeps the invariant.                                         *)
LEMMA InvNext ==
    ASSUME RegistryInv, [Next]_vars
    PROVE  RegistryInv'
<1>1. ASSUME NEW p \in Threads, Registering(p)
      PROVE  RegistryInv'
  BY <1>1, InvCheck, InvPut, InvApply, InvEnter, InvMigrate, InvMark, InvCallback, InvLeave
     DEF Registering
<1>2. Main \in Threads /\ Configurers \subseteq Threads /\ Callers \subseteq Threads
  BY DEF Threads
<1>3. CASE Boot
  BY <1>1, <1>2, <1>3, InvCreateDatasources, InvWalk, InvConstructed DEF Boot
<1>4. ASSUME NEW c \in Configurers, Configurer(c)
      PROVE  RegistryInv'
  BY <1>1, <1>2, <1>4, InvRefresh, InvLoad, InvPickTenant, InvFinish DEF Configurer
<1>5. ASSUME NEW p \in Callers, Caller(p)
      PROVE  RegistryInv'
  BY <1>1, <1>2, <1>5, InvCall, InvPickName, InvFinish DEF Caller
<1>6. CASE RestartContext \/ RestartProcess
  BY <1>6, InvRestartContext, InvRestartProcess
<1>7. CASE UNCHANGED vars
  <2>1. UNCHANGED <<context, registry, migrated, lock, counter, pendingJobs, thread, schema,
                    failed, ignored, runs, hindered, failures, restarts>>
    BY <1>7 DEF vars, migrator, history, bounds
  <2>2. TypeOK' /\ OneMigrationAtATime' /\ SourcesAtHand'
    BY <2>1 DEF RegistryInv, TypeOK, OneMigrationAtATime, SourcesAtHand, Contains
  <2>3. DownIsEmpty' /\ Books'
    BY <2>1 DEF RegistryInv, DownIsEmpty, Contains, Books, AtWork
  <2>4. FlagsHonest'
    BY <2>1 DEF RegistryInv, FlagsHonest, HasOwnScript, OwnScript
  <2> QED
    BY <2>2, <2>3, <2>4 DEF RegistryInv
<1> QED
  BY <1>3, <1>4, <1>5, <1>6, <1>7 DEF Next

(* RegistryInv holds of DBImpl and the Migrator in every reachable state.  *)
THEOREM RegistryInvHolds == Spec => []RegistryInv
<1>1. Init => RegistryInv
  BY InvInit
<1>2. RegistryInv /\ [Next]_vars => RegistryInv'
  BY InvNext
<1> QED
  BY <1>1, <1>2, PTL DEF Spec

(* Type correctness of the registry, the Migrator and their threads.       *)
THEOREM RegistryTypeCorrect == Spec => []TypeOK
<1>1. RegistryInv => TypeOK
  BY DEF RegistryInv
<1> QED
  BY <1>1, RegistryInvHolds, PTL

(* The monitor of Migrator.counter admits one migration at a time.         *)
THEOREM MigratorIsMonitor == Spec => []OneMigrationAtATime
<1>1. RegistryInv => OneMigrationAtATime
  BY DEF RegistryInv
<1> QED
  BY <1>1, RegistryInvHolds, PTL

(* No name is migrated twice in a process.                                 *)
THEOREM MigratesOnce == Spec => []OncePerProcess
<1>1. RegistryInv => OncePerProcess
  BY DEF RegistryInv, Books, OncePerProcess
<1> QED
  BY <1>1, RegistryInvHolds, PTL

(* A source marked as migrated has its change log in the database, unless  *)
(* the exception Migrator.java:182 ignores came of it.                     *)
THEOREM FlagNeverLies == Spec => []MigratedMeansApplied
<1>1. RegistryInv => MigratedMeansApplied
  BY DEF RegistryInv, FlagsHonest, HasOwnScript, MigratedMeansApplied
<1> QED
  BY <1>1, RegistryInvHolds, PTL

(* The Migrator's counter is exact: one for each name that failed, one for *)
(* the migration under way.                                                *)
THEOREM CounterIsExact == Spec => []CounterExact
<1>1. ASSUME RegistryInv
      PROVE  CounterExact
  <2> DEFINE working == {thread[p].source.id : p \in {q \in Threads : lock = q}}
  <2>1. IsFiniteSet(failed) /\ Cardinality(failed) \in Nat
    BY <1>1, FS_CardinalityType DEF RegistryInv, Books
  <2>2. CASE lock = NoThread
    <3>1. working = {}
      BY <2>2, RegistryAssumption DEF RegistryAssumption
    <3>2. failed \cup working = failed
      BY <3>1
    <3>3. counter = Cardinality(failed)
      BY <1>1, <2>1, <2>2 DEF RegistryInv, Books
    <3> HIDE DEF working
    <3>4. counter = Cardinality(failed \cup working)
      BY <3>2, <3>3
    <3> QED
      BY <3>4 DEF working, CounterExact
  <2>3. CASE lock # NoThread
    <3>1. lock \in Threads
      BY <1>1, <2>3 DEF RegistryInv, TypeOK
    <3>2. working = {thread[lock].source.id}
      BY <3>1
    <3>3. AtWork(lock)
      BY <1>1, <3>1 DEF RegistryInv, OneMigrationAtATime, AtWork
    <3>4. thread[lock].source.id \notin failed
      BY <1>1, <3>1, <3>3 DEF RegistryInv, Books
    <3>5. Cardinality(failed \cup {thread[lock].source.id}) = Cardinality(failed) + 1
      BY <2>1, <3>4, FS_AddElement
    <3>6. counter = Cardinality(failed) + 1
      BY <1>1, <2>3 DEF RegistryInv, Books
    <3> HIDE DEF working
    <3>7. counter = Cardinality(failed \cup working)
      BY <3>2, <3>5, <3>6
    <3> QED
      BY <3>7 DEF working, CounterExact
  <2> QED
    BY <2>2, <2>3
<1>2. RegistryInv => CounterExact
  BY <1>1
<1> QED
  BY <1>2, RegistryInvHolds, PTL

-----------------------------------------------------------------------------
(* When register is only called to migrate.                                *)

LEMMA GotoKeepsMode ==
    ASSUME TypeOK, NothingPutUnmigrated, NEW p \in Threads, NEW pc \in PCs \ {"put"}, Goto(p, pc)
    PROVE  NothingPutUnmigrated'
<1>1. pc \in PCs /\ pc # "put"
  OBVIOUS
<1> QED
  BY <1>1, Moved DEF NothingPutUnmigrated

LEMMA BecomeKeepsMode ==
    ASSUME TypeOK, NothingPutUnmigrated, NEW p \in Threads, NEW t, Become(p, t),
           t.mode = TRUE, t.pc # "put"
    PROVE  NothingPutUnmigrated'
<1>1. thread' = [thread EXCEPT ![p] = t] /\ thread \in [Threads -> Tasks]
  BY DEF Become, TypeOK
<1>2. \A q \in Threads : thread'[q] = IF q = p THEN t ELSE thread[q]
  BY <1>1
<1> QED
  BY <1>2 DEF NothingPutUnmigrated

LEMMA RegisteringKeepsMode ==
    ASSUME TypeOK, NothingPutUnmigrated, NEW p \in Threads, Registering(p)
    PROVE  NothingPutUnmigrated'
<1>1. thread[p].mode = TRUE /\ thread[p].pc # "put" /\ thread[p] \in Tasks
  BY DEF NothingPutUnmigrated, TypeOK
<1>2. {"walk", "pick", "done", "apply", "enter", "migrate", "mark", "callback", "leave"}
          \subseteq PCs \ {"put"}
  BY DEF PCs
<1>3. ASSUME NEW pc \in {"walk", "pick", "done", "apply", "enter", "migrate", "mark", "callback", "leave"},
             Goto(p, pc)
      PROVE  NothingPutUnmigrated'
  BY <1>2, <1>3, GotoKeepsMode
<1>4. CASE Check(p)
  <2> DEFINE id == LowerCase[thread[p].name]
             t == [thread[p] EXCEPT !.pc = "apply", !.source = Source(id, p)]
  <2>1. \/ NextName(p)
        \/ Goto(p, "done")
        \/ Goto(p, "apply")
        \/ Become(p, t)
    BY <1>1, <1>4 DEF Check
  <2>2. t.mode = TRUE /\ t.pc # "put"
    BY <1>1 DEF Tasks
  <2> HIDE DEF t
  <2>3. CASE Become(p, t)
    BY <2>2, <2>3, BecomeKeepsMode
  <2> QED
    BY <1>3, <2>1, <2>3, NextNameGoes
<1>5. CASE Put(p)
  BY <1>1, <1>5 DEF Put
<1>6. CASE Apply(p)
  <2>1. NextName(p) \/ Throws(p) \/ Goto(p, "enter")
    BY <1>6 DEF Apply
  <2> QED
    BY <2>1, <1>3, NextNameGoes, ThrowsGoes
<1>7. CASE Enter(p)
  <2>1. NextName(p) \/ Goto(p, "migrate")
    BY <1>7 DEF Enter, AlreadySubmitted
  <2> QED
    BY <2>1, <1>3, NextNameGoes
<1>8. CASE Migrate(p)
  <2>1. Goto(p, "mark") \/ NextName(p) \/ Throws(p)
    BY <1>8 DEF Migrate, AfterFailure
  <2> QED
    BY <2>1, <1>3, NextNameGoes, ThrowsGoes
<1>9. CASE Mark(p)
  BY <1>3, <1>9 DEF Mark
<1>10. CASE Callback(p)
  BY <1>3, <1>10 DEF Callback
<1>11. CASE Leave(p)
  BY <1>3, <1>11, NextNameGoes DEF Leave
<1> QED
  BY <1>4, <1>5, <1>6, <1>7, <1>8, <1>9, <1>10, <1>11 DEF Registering

(* No thread ever puts an unmigrated source.                               *)
LEMMA ModeKept ==
    ASSUME RegistryInv, NothingPutUnmigrated, CalledModes \subseteq {TRUE}, [Next]_vars
    PROVE  NothingPutUnmigrated'
<1>1. /\ TypeOK /\ Main \in Threads /\ Configurers \subseteq Threads /\ Callers \subseteq Threads
      /\ {"walk", "pick", "done", "load"} \subseteq PCs \ {"put"}
  BY DEF RegistryInv, Threads, PCs
<1>2. ASSUME NEW p \in Threads, NEW pc, pc # "put", NEW todo, NEW n, NEW s, NEW mode, mode = TRUE,
             Become(p, Task(pc, todo, n, s, mode))
      PROVE  NothingPutUnmigrated'
  <2> DEFINE t == Task(pc, todo, n, s, mode)
  <2>1. t.mode = mode /\ t.pc = pc
    BY DEF Task
  <2>2. t.mode = TRUE /\ t.pc # "put" /\ Become(p, t)
    BY <1>2, <2>1
  <2> HIDE DEF t
  <2> QED
    BY <1>1, <2>2, BecomeKeepsMode
<1>3. CASE CreateDatasources
  <2>1. PICK keys \in Configurations :
          Become(Main, Task("walk", {LowerCase[k] : k \in keys}, Default, NoSource, TRUE))
    BY <1>3 DEF CreateDatasources
  <2> QED
    BY <1>1, <1>2, <2>1
<1>4. CASE Walk
  <2>1. PICK n \in thread[Main].todo :
          Become(Main, Task(IF n = Template THEN "walk" ELSE "apply",
                            thread[Main].todo \ {n}, n, registry[n], TRUE))
    BY <1>4 DEF Walk
  <2>2. (IF n = Template THEN "walk" ELSE "apply") # "put"
    OBVIOUS
  <2> QED
    BY <1>1, <1>2, <2>1, <2>2
<1>5. CASE Constructed
  BY <1>1, <1>5, GotoKeepsMode DEF Constructed
<1>6. ASSUME NEW c \in Configurers, Configurer(c)
      PROVE  NothingPutUnmigrated'
  <2>1. c \in Threads /\ thread[c] \in Tasks /\ thread[c].mode = TRUE /\ thread[c].pc # "put"
    BY <1>1 DEF TypeOK, NothingPutUnmigrated
  <2>2. ASSUME NEW ns, Become(c, [thread[c] EXCEPT !.pc = "pick", !.todo = ns])
        PROVE  NothingPutUnmigrated'
    <3> DEFINE t == [thread[c] EXCEPT !.pc = "pick", !.todo = ns]
    <3>1. t.mode = TRUE /\ t.pc # "put"
      BY <2>1 DEF Tasks
    <3> QED
      BY <1>1, <2>1, <2>2, <3>1, BecomeKeepsMode
  <2>3. CASE Refresh(c) \/ Finish(c)
    BY <1>1, <2>1, <2>3, GotoKeepsMode DEF Refresh, Finish
  <2>4. CASE Load(c)
    <3>1. \/ Become(c, [thread[c] EXCEPT !.pc = "pick", !.todo = Queried \cup Loaded])
          \/ Become(c, [thread[c] EXCEPT !.pc = "pick", !.todo = Queried])
          \/ Goto(c, "done")
      BY <2>4 DEF Load
    <3> QED
      BY <1>1, <2>1, <2>2, <3>1, GotoKeepsMode
  <2>5. CASE PickTenant(c)
    <3>1. PICK n \in thread[c].todo :
            \/ Become(c, Task("check", thread[c].todo \ {n}, n, Source(n, c), TRUE))
            \/ Become(c, [thread[c] EXCEPT !.todo = @ \ {n}])
      BY <2>5 DEF PickTenant
    <3>2. CASE Become(c, [thread[c] EXCEPT !.todo = @ \ {n}])
      <4> DEFINE t == [thread[c] EXCEPT !.todo = @ \ {n}]
      <4>1. t.mode = TRUE /\ t.pc # "put"
        BY <2>1 DEF Tasks
      <4> QED
        BY <1>1, <2>1, <3>2, <4>1, BecomeKeepsMode
    <3> QED
      BY <1>2, <2>1, <3>1, <3>2
  <2>6. CASE Registering(c)
    BY <1>1, <2>1, <2>6, RegisteringKeepsMode
  <2> QED
    BY <1>6, <2>3, <2>4, <2>5, <2>6 DEF Configurer
<1>7. ASSUME NEW p \in Callers, Caller(p)
      PROVE  NothingPutUnmigrated'
  <2>1. p \in Threads /\ thread[p].mode = TRUE
    BY <1>1 DEF NothingPutUnmigrated
  <2>2. CASE Call(p)
    <3>1. Goto(p, "done") \/ \E ns \in SUBSET Called, mode \in CalledModes :
                                Become(p, Task("pick", ns, Default, NoSource, mode))
      BY <2>2 DEF Call
    <3>2. ASSUME NEW ns \in SUBSET Called, NEW mode \in CalledModes,
                 Become(p, Task("pick", ns, Default, NoSource, mode))
          PROVE  NothingPutUnmigrated'
      BY <1>2, <2>1, <3>2
    <3> QED
      BY <1>1, <2>1, <3>1, <3>2, GotoKeepsMode
  <2>3. CASE PickName(p)
    <3>1. PICK n \in thread[p].todo :
            Become(p, Task("check", thread[p].todo \ {n}, n, NoSource, thread[p].mode))
      BY <2>3 DEF PickName
    <3> QED
      BY <1>2, <2>1, <3>1
  <2>4. CASE Finish(p)
    BY <1>1, <2>1, <2>4, GotoKeepsMode DEF Finish
  <2>5. CASE Registering(p)
    BY <1>1, <2>1, <2>5, RegisteringKeepsMode
  <2> QED
    BY <1>7, <2>2, <2>3, <2>4, <2>5 DEF Caller
<1>8. CASE RestartContext \/ RestartProcess
  <2>1. Forget
    BY <1>8 DEF RestartContext, RestartProcess
  <2>2. \A q \in Threads : thread'[q].pc = "idle" /\ thread'[q].mode = TRUE
    BY <1>1, <2>1, Forgets
  <2> QED
    BY <2>2 DEF NothingPutUnmigrated
<1>9. CASE UNCHANGED vars
  <2>1. thread' = thread
    BY <1>9 DEF vars
  <2> QED
    BY <2>1 DEF NothingPutUnmigrated
<1>10. CASE Registering(Main)
  BY <1>1, <1>10, RegisteringKeepsMode
<1> QED
  BY <1>3, <1>4, <1>5, <1>6, <1>7, <1>8, <1>9, <1>10 DEF Next, Boot

(* Who changes the registry.                                               *)
LEMMA RegistrySteps ==
    ASSUME [Next]_vars
    PROVE  \/ UNCHANGED registry /\ migrated \subseteq migrated'
           \/ CreateDatasources
           \/ \E p \in Threads : Put(p) \/ Callback(p)
           \/ Forget
<1>1. Main \in Threads /\ Configurers \subseteq Threads /\ Callers \subseteq Threads
  BY DEF Threads
<1>2. ASSUME NEW p \in Threads, Registering(p)
      PROVE  (UNCHANGED registry /\ migrated \subseteq migrated') \/ Put(p) \/ Callback(p)
  <2>1. CASE Check(p) \/ Apply(p) \/ Enter(p) \/ Migrate(p) \/ Leave(p)
    BY <2>1 DEF Check, Apply, Enter, Migrate, Leave
  <2>2. CASE Mark(p)
    BY <2>2 DEF Mark
  <2> QED
    BY <1>2, <2>1, <2>2 DEF Registering
<1>3. CASE Walk \/ Constructed
  BY <1>3 DEF Walk, Constructed
<1>4. ASSUME NEW c \in Configurers, Refresh(c) \/ Load(c) \/ PickTenant(c) \/ Finish(c)
      PROVE  UNCHANGED registry /\ migrated \subseteq migrated'
  BY <1>4 DEF Refresh, Load, PickTenant, Finish
<1>5. ASSUME NEW p \in Callers, Call(p) \/ PickName(p) \/ Finish(p)
      PROVE  UNCHANGED registry /\ migrated \subseteq migrated'
  BY <1>5 DEF Call, PickName, Finish
<1>6. CASE RestartContext \/ RestartProcess
  BY <1>6 DEF RestartContext, RestartProcess
<1>7. CASE UNCHANGED vars
  BY <1>7 DEF vars
<1>8. CASE Boot
  BY <1>1, <1>2, <1>3, <1>8 DEF Boot
<1>9. CASE \E c \in Configurers : Configurer(c)
  BY <1>1, <1>2, <1>4, <1>9 DEF Configurer
<1>10. CASE \E p \in Callers : Caller(p)
  BY <1>1, <1>2, <1>5, <1>10 DEF Caller
<1> QED
  BY <1>6, <1>7, <1>8, <1>9, <1>10 DEF Next

(* The callback registers a source that has its flag.                      *)
LEMMA CallbackRegisters ==
    ASSUME RegistryInv, NEW p \in Threads, Callback(p)
    PROVE  \E s \in migrated : /\ registry' = [registry EXCEPT ![s.id] = s]
                               /\ s.id \in Names /\ s \in Sources /\ migrated' = migrated
<1>1. thread[p].pc = "callback" /\ AtWork(p)
  BY DEF Callback, AtWork, InMigrator
<1>2. thread[p].source \in migrated
  BY <1>1 DEF RegistryInv, FlagsHonest
<1>3. thread[p].source.id \in Names /\ thread[p].source \in Sources
  BY <1>1, Alone
<1> QED
  BY <1>2, <1>3 DEF Callback

LEMMA FoundStaysFlagged ==
    ASSUME MigratingInv, [Next]_vars
    PROVE  FoundAreFlagged'
<1>1. RegistryInv /\ TypeOK
  BY DEF MigratingInv, RegistryInv
<1>2. CASE UNCHANGED registry /\ migrated \subseteq migrated'
  BY <1>2 DEF MigratingInv, FoundAreFlagged, Contains
<1>3. CASE CreateDatasources
  <2>1. PICK keys \in Configurations : registry' = [n \in Names |-> ConfiguredAs(n, keys)]
    BY <1>3 DEF CreateDatasources
  <2>2. \A n \in Names : registry'[n] # NoSource => registry'[n].maker = Main
    BY <2>1, ConfiguredType
  <2> QED
    BY <2>2 DEF FoundAreFlagged, Contains
<1>4. ASSUME NEW p \in Threads, Put(p)
      PROVE  FALSE
  BY <1>4 DEF MigratingInv, NothingPutUnmigrated, Put
<1>5. ASSUME NEW p \in Threads, Callback(p)
      PROVE  FoundAreFlagged'
  <2>1. PICK s \in migrated : /\ registry' = [registry EXCEPT ![s.id] = s]
                              /\ s.id \in Names /\ s \in Sources /\ migrated' = migrated
    BY <1>1, <1>5, CallbackRegisters
  <2>2. \A n \in Names : registry'[n] = s \/ registry'[n] = registry[n]
    BY <1>1, <2>1 DEF TypeOK
  <2> QED
    BY <2>1, <2>2 DEF MigratingInv, FoundAreFlagged, Contains
<1>6. CASE Forget
  BY <1>6 DEF Forget, FoundAreFlagged, Contains
<1> QED
  BY <1>2, <1>3, <1>4, <1>5, <1>6, RegistrySteps

(* The invariant when register is only called to migrate.                  *)
THEOREM MigratingInvHolds ==
    ASSUME CalledModes \subseteq {TRUE}
    PROVE  Spec => []MigratingInv
<1>1. Init => MigratingInv
  <2>1. ASSUME Init
        PROVE  NothingPutUnmigrated /\ FoundAreFlagged
    <3>1. thread = [q \in Threads |-> Idle]
      BY <2>1 DEF Init
    <3>2. \A q \in Threads : thread[q].mode = TRUE /\ thread[q].pc = "idle"
      BY <3>1, IdleType
    <3>3. NothingPutUnmigrated
      BY <3>2 DEF NothingPutUnmigrated
    <3>4. FoundAreFlagged
      BY <2>1 DEF Init, FoundAreFlagged, Contains
    <3> QED
      BY <3>3, <3>4
  <2> QED
    BY <2>1, InvInit DEF MigratingInv
<1>2. MigratingInv /\ [Next]_vars => MigratingInv'
  BY InvNext, ModeKept, FoundStaysFlagged DEF MigratingInv
<1> QED
  BY <1>1, <1>2, PTL DEF Spec

(* A tenant that determineTargetDataSource finds is migrated, in memory    *)
(* and, unless the exception of its migration was ignored                  *)
(* (Migrator.java:182), in its database.                                   *)
THEOREM FoundIsMigrated ==
    ASSUME CalledModes \subseteq {TRUE}
    PROVE  Spec => []FoundMeansMigrated
<1>1. MigratingInv => FoundMeansMigrated
  <2>1. ASSUME MigratingInv, NEW n \in Names, Contains(n), registry[n].maker # Main
        PROVE  /\ registry[n] \in migrated
               /\ registry[n].id \in ignored \/ schema[registry[n].id] # Disabled
    <3>1. registry[n] \in migrated
      BY <2>1 DEF MigratingInv, FoundAreFlagged
    <3>2. registry[n].id \in ignored \/ schema[registry[n].id] \in Scripts
      BY <2>1, <3>1 DEF MigratingInv, RegistryInv, FlagsHonest, HasOwnScript
    <3> QED
      BY <3>1, <3>2, RegistryAssumption DEF RegistryAssumption
  <2> QED
    BY <2>1 DEF FoundMeansMigrated
<1> QED
  BY <1>1, MigratingInvHolds, PTL

(* No step of an application that goes on makes a ready tenant unready.    *)
THEOREM ReadyIsForEver ==
    ASSUME CalledModes \subseteq {TRUE}
    PROVE  Spec => ReadyForEver
<1>1. ASSUME MigratingInv, [Next]_vars, NEW n \in Names, IsTenantReady(n), context' # "down"
      PROVE  IsTenantReady(n)'
  <2> DEFINE id == LowerCase[n]
  <2>1. RegistryInv /\ TypeOK /\ id \in Names /\ registry[id] # NoSource /\ registry[id] \in migrated
    BY <1>1, RegistryAssumption DEF MigratingInv, RegistryInv, IsTenantReady, Contains, RegistryAssumption
  <2>2. registry'[id] # NoSource /\ registry'[id] \in migrated'
    <3>1. CASE UNCHANGED registry /\ migrated \subseteq migrated'
      BY <2>1, <3>1
    <3>2. CASE CreateDatasources
      <4>1. ~ Contains(id)
        BY <2>1, <3>2 DEF RegistryInv, DownIsEmpty, CreateDatasources
      <4> QED
        BY <4>1, <2>1 DEF Contains
    <3>3. ASSUME NEW p \in Threads, Put(p)
          PROVE  FALSE
      BY <1>1, <3>3 DEF MigratingInv, NothingPutUnmigrated, Put
    <3>4. ASSUME NEW p \in Threads, Callback(p)
          PROVE  registry'[id] # NoSource /\ registry'[id] \in migrated'
      <4>1. PICK s \in migrated : /\ registry' = [registry EXCEPT ![s.id] = s]
                                  /\ s.id \in Names /\ s \in Sources /\ migrated' = migrated
        BY <2>1, <3>4, CallbackRegisters
      <4>2. registry'[id] = s \/ registry'[id] = registry[id]
        BY <2>1, <4>1 DEF TypeOK
      <4> QED
        BY <2>1, <4>1, <4>2, SourceThere
    <3>5. CASE Forget
      BY <1>1, <3>5 DEF Forget
    <3> QED
      BY <1>1, <3>1, <3>2, <3>3, <3>4, <3>5, RegistrySteps
  <2> QED
    BY <2>2 DEF IsTenantReady, Contains
<1>2. MigratingInv /\ [Next]_vars =>
        [\A n \in Names : IsTenantReady(n) /\ context' # "down" => IsTenantReady(n)']_vars
  BY <1>1
<1> QED
  BY <1>2, MigratingInvHolds, PTL DEF Spec, ReadyForEver

-----------------------------------------------------------------------------
(* What becomes of the names the Migrator takes.                           *)

(* A step outside the Migrator leaves the threads in it and its books      *)
(* alone.                                                                  *)
Aside ==
    /\ UNCHANGED <<registry, migrated, pendingJobs, failed, restarts>>
    /\ \A q \in Threads : AtWork(q) => thread'[q] = thread[q]
    /\ context' = "down" => context = "down"

LEMMA OneMoves ==
    ASSUME TypeOK, NEW p \in Threads, ~ AtWork(p),
           (\E t : Become(p, t)) \/ (\E pc : Goto(p, pc))
    PROVE  \A q \in Threads : AtWork(q) => thread'[q] = thread[q]
<1>1. \A q \in Threads : q # p => thread'[q] = thread[q]
  BY DEF TypeOK, Become, Goto
<1> QED
  BY <1>1

LEMMA RegisteringSteps ==
    ASSUME TypeOK, NEW p \in Threads, Registering(p)
    PROVE  Aside \/ Put(p) \/ Enter(p) \/ Migrate(p) \/ Mark(p) \/ Callback(p) \/ Leave(p)
<1>1. CASE Check(p)
  <2>1. /\ UNCHANGED <<context, registry, migrated, pendingJobs, failed, restarts>>
        /\ ~ AtWork(p)
        /\ (\E t : Become(p, t)) \/ (\E pc : Goto(p, pc))
    BY <1>1 DEF Check, NextName, migrator, history, AtWork, InMigrator
  <2> QED
    BY <2>1, OneMoves DEF Aside
<1>2. CASE Apply(p)
  <2>1. /\ UNCHANGED <<registry, migrated, pendingJobs, failed, restarts>>
        /\ context' = context \/ context' = "refused"
        /\ ~ AtWork(p)
        /\ \E pc : Goto(p, pc)
    BY <1>2 DEF Apply, NextName, Throws, migrator, history, bounds, AtWork, InMigrator
  <2> QED
    BY <2>1, OneMoves DEF Aside
<1> QED
  BY <1>1, <1>2 DEF Registering

LEMMA StepsAside ==
    ASSUME TypeOK, [Next]_vars
    PROVE  \/ Aside
           \/ CreateDatasources \/ Forget
           \/ \E p \in Threads :
                Put(p) \/ Enter(p) \/ Migrate(p) \/ Mark(p) \/ Callback(p) \/ Leave(p)
<1>1. Main \in Threads /\ Configurers \subseteq Threads /\ Callers \subseteq Threads
  BY DEF Threads
<1>2. CASE Walk \/ Constructed
  <2>1. /\ UNCHANGED <<registry, migrated, pendingJobs, failed, restarts>>
        /\ context' = context \/ context' = "up"
        /\ ~ AtWork(Main)
        /\ (\E t : Become(Main, t)) \/ (\E pc : Goto(Main, pc))
    BY <1>2 DEF Walk, Constructed, migrator, history, bounds, AtWork, InMigrator
  <2> QED
    BY <1>1, <2>1, OneMoves DEF Aside
<1>3. ASSUME NEW p \in Threads,
             Refresh(p) \/ Load(p) \/ PickTenant(p) \/ Finish(p) \/ Call(p) \/ PickName(p)
      PROVE  Aside
  <2>1. /\ UNCHANGED <<context, registry, migrated, pendingJobs, failed, restarts>>
        /\ ~ AtWork(p)
        /\ (\E t : Become(p, t)) \/ (\E pc : Goto(p, pc))
    BY <1>3 DEF Refresh, Load, PickTenant, Finish, Call, PickName, migrator, history, bounds,
                AtWork, InMigrator
  <2> QED
    BY <2>1, OneMoves DEF Aside
<1>4. CASE RestartContext \/ RestartProcess
  BY <1>4 DEF RestartContext, RestartProcess
<1>5. CASE UNCHANGED vars
  BY <1>5 DEF vars, migrator, history, bounds, Aside
<1>6. CASE Boot
  BY <1>1, <1>2, <1>6, RegisteringSteps DEF Boot
<1>7. CASE \E c \in Configurers : Configurer(c)
  BY <1>1, <1>3, <1>7, RegisteringSteps DEF Configurer
<1>8. CASE \E p \in Callers : Caller(p)
  BY <1>1, <1>3, <1>8, RegisteringSteps DEF Caller
<1> QED
  BY <1>4, <1>5, <1>6, <1>7, <1>8 DEF Next

LEMMA TakenStayKnown ==
    ASSUME TakenInv, [Next]_vars
    PROVE  TakenAreKnown'
<1> DEFINE OnItsWay(n) == \E p \in Threads :
                            AtWork(p) /\ thread[p].pc # "leave" /\ thread[p].source.id = n
           Registered(n) == Contains(n) /\ registry[n] \in migrated
           Known(n) == n \in failed \/ OnItsWay(n) \/ Registered(n)
<1>1. RegistryInv /\ TypeOK
  BY DEF TakenInv, MigratingInv, RegistryInv
<1>2. restarts = 0 => (context = "down" => pendingJobs = {}) /\ \A n \in pendingJobs : Known(n)
  BY DEF TakenInv, TakenAreKnown
<1>3. CASE Aside
  <2>1. \A n : OnItsWay(n) => OnItsWay(n)'
    BY <1>3 DEF Aside, AtWork
  <2>2. \A n : Registered(n) => Registered(n)'
    BY <1>3 DEF Aside, Contains
  <2> QED
    BY <1>2, <1>3, <2>1, <2>2 DEF Aside, TakenAreKnown
<1>4. CASE CreateDatasources
  <2>1. context = "down" /\ UNCHANGED <<pendingJobs, restarts>>
    BY <1>4 DEF CreateDatasources, migrator, bounds
  <2> QED
    BY <1>2, <2>1 DEF TakenAreKnown
<1>5. CASE Forget
  <2>1. restarts' # 0
    BY <1>1, <1>5 DEF Forget, TypeOK
  <2> QED
    BY <2>1 DEF TakenAreKnown
<1>6. ASSUME NEW p \in Threads, Put(p)
      PROVE  FALSE
  BY <1>6 DEF TakenInv, MigratingInv, NothingPutUnmigrated, Put
<1>7. ASSUME NEW p \in Threads,
             Enter(p) \/ Migrate(p) \/ Mark(p) \/ Callback(p) \/ Leave(p)
      PROVE  TakenAreKnown'
  <2> DEFINE s == thread[p].source
  <2>0. PICK i : i = s.id
    OBVIOUS
  <2>1. context \in {"booting", "up", "refused"} /\ thread[p] \in Tasks
    <3>1. thread[p].pc # "idle"
      BY <1>7 DEF Enter, Migrate, Mark, Callback, Leave
    <3> QED
      BY <1>1, <3>1, NotDown DEF TypeOK
  <2>2. context' # "down"
    BY <1>7, <2>1 DEF Enter, Migrate, Mark, Callback, Leave, AfterFailure, Throws
  <2>3. UNCHANGED restarts
    BY <1>7 DEF Enter, Migrate, Mark, Callback, Leave, bounds
  <2> SUFFICES ASSUME restarts = 0, NEW n \in pendingJobs'
               PROVE  Known(n)'
    BY <2>2, <2>3 DEF TakenAreKnown
  <2>4. ~ Enter(p) => AtWork(p)
    BY <1>7 DEF Migrate, Mark, Callback, Leave, AtWork, InMigrator
  <2>5. AtWork(p) => /\ \A q \in Threads : q # p => ~ AtWork(q)
                     /\ s \in Sources /\ s.id \in Names
    BY <1>1, Alone
  <2>6. AtWork(p) => (OnItsWay(n) => n = i /\ thread[p].pc # "leave")
    BY <2>0, <2>5
  <2>7. \A pc : Goto(p, pc) => thread'[p].pc = pc /\ thread'[p].source.id = i
    BY <1>1, <2>0, <2>1 DEF TypeOK, Tasks, Goto
  <2>8. CASE Enter(p)
    <3>1. UNCHANGED <<registry, migrated, failed>> /\ \A q \in Threads : ~ AtWork(q)
      BY <1>1, <2>8, RegistryAssumption
         DEF Enter, MonitorFree, RegistryInv, OneMigrationAtATime, AtWork, RegistryAssumption
    <3>2. CASE n \in pendingJobs
      BY <1>2, <3>1, <3>2 DEF Contains
    <3>3. CASE n \notin pendingJobs
      <4>1. n = i /\ Goto(p, "migrate")
        BY <2>0, <2>8, <3>3 DEF Enter, AlreadySubmitted, Remembered, migrator
      <4> QED
        BY <2>7, <4>1 DEF AtWork, InMigrator
    <3> QED
      BY <3>2, <3>3
  <2>9. CASE Migrate(p)
    <3>1. UNCHANGED <<registry, migrated, pendingJobs>> /\ failed \subseteq failed'
      BY <2>9 DEF Migrate
    <3>2. i \in failed' \/ Goto(p, "mark")
      BY <2>0, <2>9 DEF Migrate
    <3>3. Known(i)'
      BY <2>7, <3>2 DEF AtWork, InMigrator
    <3> QED
      BY <1>2, <2>4, <2>6, <2>9, <3>1, <3>3 DEF Enter, Migrate, Contains
  <2>10. CASE Mark(p)
    <3>1. /\ UNCHANGED <<registry, pendingJobs, failed>> /\ migrated \subseteq migrated'
          /\ Goto(p, "callback") /\ AtWork(p)
      BY <2>10 DEF Mark, migrator, history, AtWork, InMigrator
    <3>2. Known(i)'
      BY <2>7, <3>1 DEF AtWork, InMigrator
    <3> QED
      BY <1>2, <2>6, <3>1, <3>2 DEF Contains
  <2>11. CASE Callback(p)
    <3>1. /\ UNCHANGED <<migrated, pendingJobs, failed>> /\ AtWork(p)
          /\ registry' = [registry EXCEPT ![s.id] = s] /\ thread[p].pc = "callback"
      BY <2>11 DEF Callback, migrator, history, AtWork, InMigrator
    <3>2. s \in migrated
      BY <1>1, <3>1 DEF RegistryInv, FlagsHonest
    <3>3. Registered(i)'
      BY <1>1, <2>0, <2>5, <3>1, <3>2, SourceThere DEF TypeOK, Contains
    <3>4. n # i => registry'[n] = registry[n]
      BY <1>1, <2>0, <3>1 DEF TypeOK
    <3> QED
      BY <1>2, <2>6, <3>1, <3>3, <3>4 DEF Contains
  <2>12. CASE Leave(p)
    <3>1. /\ UNCHANGED <<registry, migrated, pendingJobs, failed>>
          /\ AtWork(p) /\ thread[p].pc = "leave"
      BY <2>12 DEF Leave, history, AtWork, InMigrator
    <3> QED
      BY <1>2, <2>6, <3>1 DEF Contains
  <2> QED
    BY <1>7, <2>8, <2>9, <2>10, <2>11, <2>12
<1> QED
  BY <1>1, <1>3, <1>4, <1>5, <1>6, <1>7, StepsAside

(* What the Migrator says of itself: in the first context of the           *)
(* process its counter is zero only when every tenant it ever took is      *)
(* registered and migrated, if register is only called to migrate.  (A     *)
(* second context starts with an empty registry and the old counter.)      *)
THEOREM EmptyIsReady ==
    ASSUME CalledModes \subseteq {TRUE}
    PROVE  Spec => [](restarts = 0 => EmptyMeansReady)
<1>1. Init => TakenAreKnown
  BY DEF Init, TakenAreKnown
<1>2. MigratingInv /\ TakenAreKnown /\ [Next]_vars => TakenAreKnown'
  BY TakenStayKnown DEF TakenInv
<1>3. MigratingInv /\ TakenAreKnown => (restarts = 0 => EmptyMeansReady)
  <2> SUFFICES ASSUME RegistryInv, TakenAreKnown, restarts = 0, counter = 0, NEW n \in pendingJobs
               PROVE  Contains(n) /\ registry[n] \in migrated
    BY DEF MigratingInv, EmptyMeansReady
  <2>1. IsFiniteSet(failed) /\ counter = Cardinality(failed) + (IF lock = NoThread THEN 0 ELSE 1)
    BY DEF RegistryInv, Books
  <2>2. Cardinality(failed) \in Nat
    BY <2>1, FS_CardinalityType
  <2>3. Cardinality(failed) = 0 /\ lock = NoThread
    BY <2>1, <2>2
  <2>4. failed = {}
    BY <2>1, <2>3, FS_EmptySet
  <2>5. \A p \in Threads : ~ AtWork(p)
    BY <2>3, Alone
  <2> QED
    BY <2>4, <2>5 DEF TakenAreKnown
<1> QED
  BY <1>1, <1>2, <1>3, MigratingInvHolds, PTL DEF Spec
=============================================================================
