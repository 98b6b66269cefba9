----------------------- MODULE SideEffectsDriversProofs -----------------------
(***************************************************************************)
(* Proofs about who drives the jobs of SideEffects, how often and how far, *)
(* for any number of jobs, workers, effects, failures and crashes.         *)
(***************************************************************************)
EXTENDS SideEffectsProofs, FiniteSetTheorems

-----------------------------------------------------------------------------
(* What steps do to the workers.                                           *)

(* A worker that was at a job goes on with it or is done with it, and has  *)
(* no effect ahead that was not ahead before.                              *)
Continues(w, u) ==
    /\ u \in Tasks /\ Become(w, u)
    /\ worker[w] \in ActiveTask
    /\ u = Idle \/ u.job = worker[w].job
    /\ \A s \in Slots : Ahead(u, s) => Ahead(worker[w], s)

(* Each step of a worker at a job.                                         *)
Drives(w) ==
    \/ Check(w) \/ BootFlag(w) \/ BootField(w) \/ Find(w)
    \/ SkipBlock(w) \/ Deliver(w) \/ Save(w) \/ Delete(w) \/ Fail(w)

(* What the constructors of tasks put where.                               *)
LEMMA WorkParts ==
    /\ \A p, j, m, e, n, i :
         /\ Work(p, j, m, e, n, i).pc = p /\ Work(p, j, m, e, n, i).job = j
         /\ Work(p, j, m, e, n, i).mem = m /\ Work(p, j, m, e, n, i).errors = e
         /\ Work(p, j, m, e, n, i).step = n /\ Work(p, j, m, e, n, i).item = i
    /\ \A p, j, n :
         /\ Before(p, j, n).pc = p /\ Before(p, j, n).job = j /\ Before(p, j, n).step = n
    /\ \A p, t, m, n, i :
         /\ At(p, t, m, n, i).pc = p /\ At(p, t, m, n, i).job = t.job
         /\ At(p, t, m, n, i).mem = m /\ At(p, t, m, n, i).errors = t.errors
         /\ At(p, t, m, n, i).step = n /\ At(p, t, m, n, i).item = i
<1>1. \A p, j, m, e, n, i :
         /\ Work(p, j, m, e, n, i).pc = p /\ Work(p, j, m, e, n, i).job = j
         /\ Work(p, j, m, e, n, i).mem = m /\ Work(p, j, m, e, n, i).errors = e
         /\ Work(p, j, m, e, n, i).step = n /\ Work(p, j, m, e, n, i).item = i
  BY DEF Work
<1> QED BY <1>1 DEF Before, At

LEMMA IdleLemma ==
    /\ Idle \in Tasks /\ Idle.pc = "idle" /\ Idle.job = NoJob /\ NoJob \notin Jobs
    /\ \A s : ~ Ahead(Idle, s)
  BY TaskLemma, ConstantsAssumption DEF Tasks, Ahead

(* The end of a block leaves only later kinds ahead.                       *)
LEMMA AfterBlockAhead ==
  ASSUME NEW t \in ActiveTask, NEW m \in SUBSET Kinds, t.pc \in {"block", "save"}, t.step \in Kinds
  PROVE  /\ AfterBlock(t, m) \in Tasks /\ AfterBlock(t, m).job = t.job
         /\ \A s \in Slots : Ahead(AfterBlock(t, m), s) => Ahead(t, s)
<1>1. AfterBlock(t, m) \in Tasks
  BY AfterLemma DEF Tasks
<1>2. AfterBlock(t, m).job = t.job
  BY WorkParts DEF AfterBlock
<1>3. ASSUME NEW s \in Slots, Ahead(AfterBlock(t, m), s)
      PROVE  Ahead(t, s)
  <2>1. s[1] \in Nat /\ s[2] \in Nat /\ t.step \in Nat
    BY SlotsLemma, ConstantsAssumption DEF Kinds
  <2>2. CASE t.step < 5
    <3>1. AfterBlock(t, m) = At("block", t, m, t.step + 1, 1)
      BY <2>2 DEF AfterBlock
    <3>2. t.step + 1 <= s[1]
      BY <1>3, <2>1, <3>1, WorkParts DEF Ahead
    <3> QED BY <2>1, <3>2 DEF Ahead
  <2>3. CASE ~ (t.step < 5)
    BY <1>3, <2>3, WorkParts DEF AfterBlock, Ahead
  <2> QED BY <2>2, <2>3
<1> QED BY <1>1, <1>2, <1>3

(* So does the end of a delivery, whose own slot is passed.                *)
LEMMA AfterItemAhead ==
  ASSUME NEW t \in ActiveTask, t.pc = "block", t.step \in Kinds, t.item \in 1..Items[t.step],
         NEW u, u = AfterItem(t) \/ u = At("fail", t, t.mem, t.step, t.item)
  PROVE  /\ u \in Tasks /\ u.job = t.job
         /\ \A s \in Slots : Ahead(u, s) => Ahead(t, s) /\ s # <<t.step, t.item>>
         /\ Ahead(t, <<t.step, t.item>>)
<1>1. u \in Tasks
  BY AfterLemma, TaskLemma DEF Tasks
<1>2. u.job = t.job
  BY WorkParts DEF AfterItem
<1>3. t.step \in Nat /\ t.item \in Nat
  BY ConstantsAssumption DEF Kinds
<1>4. ASSUME NEW s \in Slots, Ahead(u, s)
      PROVE  Ahead(t, s) /\ s # <<t.step, t.item>>
  <2>1. s[1] \in Nat /\ s[2] \in Nat
    BY SlotsLemma, ConstantsAssumption DEF Kinds
  <2>2. CASE u = At("block", t, t.mem, t.step, t.item + 1)
    BY <1>3, <1>4, <2>1, <2>2, WorkParts DEF Ahead
  <2>3. CASE u = At("save", t, t.mem, t.step, t.item)
    BY <1>3, <1>4, <2>1, <2>3, WorkParts DEF Ahead
  <2>4. CASE u = At("fail", t, t.mem, t.step, t.item)
    BY <1>4, <2>4, WorkParts DEF Ahead
  <2> QED BY <2>2, <2>3, <2>4 DEF AfterItem
<1>5. Ahead(t, <<t.step, t.item>>)
  BY <1>3 DEF Ahead
<1> QED BY <1>1, <1>2, <1>4, <1>5

(* Every step of a worker at a job continues it.                           *)
LEMMA DrivesContinue ==
  ASSUME IInv, NEW w \in Workers, Drives(w)
  PROVE  \E u : Continues(w, u)
<1> DEFINE t == worker[w]
<1>1. t.pc # "idle"
  BY DEF Drives, Check, BootFlag, BootField, Find, SkipBlock, Deliver, Save, Delete, Fail
<1>2. t \in ActiveTask /\ t.job \in Jobs /\ t.step \in 0..5 /\ t.mem \in SUBSET Kinds
  BY <1>1, BusyLemma, TaskLemma DEF IInv
<1>3. t.pc \in {"block", "save"} => t.step \in Kinds /\ t.item \in 1..Items[t.step]
  BY DEF IInv, WorkerInv, TaskInv, BlockInv
<1>4. Left(t) \in SUBSET Kinds
  BY <1>2, AfterLemma
<1>5. ASSUME NEW p \in {"boot", "find"}, NEW n \in 0..5, Become(w, Before(p, t.job, n)),
             t.pc \in {"check", "boot"}
      PROVE  \E u : Continues(w, u)
  <2>1. Before(p, t.job, n) \in Tasks
    BY <1>2 DEF Before, Work, ActiveTask, Tasks, ActivePCs
  <2>2. \A s \in Slots : Ahead(t, s)
    BY <1>5 DEF Ahead
  <2> QED BY <1>2, <1>5, <2>1, <2>2, WorkParts DEF Continues
<1>6. ASSUME Become(w, Idle)
      PROVE  \E u : Continues(w, u)
  BY <1>2, <1>6, IdleLemma DEF Continues
<1>7. ASSUME NEW m \in SUBSET Kinds, Become(w, AfterBlock(t, m)), t.pc \in {"block", "save"}
      PROVE  \E u : Continues(w, u)
  <2>1. PICK u : u = AfterBlock(t, m)
    OBVIOUS
  <2>2. u \in Tasks /\ u.job = t.job /\ \A s \in Slots : Ahead(u, s) => Ahead(t, s)
    BY <1>2, <1>3, <1>7, <2>1, AfterBlockAhead
  <2> QED BY <1>2, <1>7, <2>1, <2>2 DEF Continues
<1>8. ASSUME NEW m \in SUBSET Kinds, Become(w, At("fail", t, m, t.step, t.item))
      PROVE  \E u : Continues(w, u)
  <2>1. PICK u : u = At("fail", t, m, t.step, t.item)
    OBVIOUS
  <2>2. u \in Tasks
    BY <1>2, <2>1, AfterLemma DEF Tasks
  <2>3. u.job = t.job /\ u.pc = "fail"
    BY <2>1, WorkParts
  <2> QED BY <1>2, <1>8, <2>1, <2>2, <2>3 DEF Continues, Ahead
<1>9. CASE Check(w)
  <2>1. 0 \in 0..5
    OBVIOUS
  <2> QED BY <1>5, <1>9, <2>1 DEF Check
<1>10. CASE BootFlag(w)
  <2>1. 1 \in 0..5
    OBVIOUS
  <2> QED BY <1>5, <1>10, <2>1 DEF BootFlag
<1>11. CASE BootField(w)
  <2>1. t.step < 5 => t.step + 1 \in 0..5
    BY <1>2
  <2>2. 0 \in 0..5
    OBVIOUS
  <2>3. \/ Become(w, Idle)
        \/ t.step < 5 /\ Become(w, Before("boot", t.job, t.step + 1))
        \/ Become(w, Before("find", t.job, 0))
    BY <1>11 DEF BootField
  <2> QED BY <1>5, <1>6, <1>11, <2>1, <2>2, <2>3 DEF BootField
<1>12. CASE Find(w)
  <2>1. CASE Become(w, Work("block", t.job, rowData[t.job], rowErrors[t.job], 1, 1))
    <3>1. PICK u : u = Work("block", t.job, rowData[t.job], rowErrors[t.job], 1, 1)
      OBVIOUS
    <3>2. u \in Tasks
      <4>1. rowData[t.job] \in SUBSET Kinds /\ rowErrors[t.job] \in Nat
        BY <1>2 DEF IInv, TypeOK
      <4> QED BY <1>2, <3>1, <4>1 DEF Work, ActiveTask, Tasks, ActivePCs
    <3>3. u.job = t.job
      BY <3>1, WorkParts
    <3>4. \A s : Ahead(t, s)
      BY <1>12 DEF Find, Ahead
    <3> QED BY <1>2, <2>1, <3>1, <3>2, <3>3, <3>4 DEF Continues
  <2> QED BY <1>6, <1>12, <2>1 DEF Find
<1>13. CASE SkipBlock(w)
  BY <1>2, <1>7, <1>13 DEF SkipBlock
<1>14. CASE Deliver(w)
  <2>1. PICK u : Become(w, u) /\ (u = AfterItem(t) \/ u = At("fail", t, t.mem, t.step, t.item))
    BY <1>14 DEF Deliver
  <2>2. u \in Tasks /\ u.job = t.job /\ \A s \in Slots : Ahead(u, s) => Ahead(t, s)
    BY <1>2, <1>3, <1>14, <2>1, AfterItemAhead DEF Deliver
  <2> QED BY <1>2, <2>1, <2>2 DEF Continues
<1>15. CASE Save(w)
  BY <1>4, <1>7, <1>8, <1>15 DEF Save
<1>16. CASE Delete(w)
  BY <1>2, <1>6, <1>8, <1>16 DEF Delete
<1>17. CASE Fail(w)
  BY <1>6, <1>17 DEF Fail
<1> QED BY <1>9, <1>10, <1>11, <1>12, <1>13, <1>14, <1>15, <1>16, <1>17 DEF Drives

(* What those steps leave alone.                                           *)
LEMMA DrivesFrame ==
  ASSUME NEW w \in Workers, Drives(w)
  PROVE  UNCHANGED <<request, wanted, queue, drives, crashes, redispatches>>
  BY DEF Drives, Check, BootFlag, BootField, Find, SkipBlock, Deliver, Save, Delete, Fail,
         volatile, history, bounds

(* The steps of the system, sorted by what they do to the workers.         *)
LEMMA StepKinds ==
  ASSUME [Next]_vars
  PROVE  \/ UNCHANGED vars
         \/ \E j \in Jobs : Handle(j) \/ Insert(j) \/ Schedule(j)
         \/ \E w \in Workers : Begin(w) \/ Redispatch(w)
         \/ \E w \in Workers : Drives(w)
         \/ Crash
  BY DEF Next, RequestStep, WorkerStep, Drives

(* A worker's job after a step: its own, a new one, or none.               *)
LEMMA ContinuesJobs ==
  ASSUME TypeOK, NEW w \in Workers, NEW u, Continues(w, u)
  PROVE  /\ \A v \in Workers : worker'[v] = IF v = w THEN u ELSE worker[v]
         /\ \A v \in Workers : \A j \in Jobs : worker'[v].job = j => worker[v].job = j
         /\ \A j \in Jobs : Driven(j)' => Driven(j)
<1>1. \A v \in Workers : worker'[v] = IF v = w THEN u ELSE worker[v]
  BY BecomeLemma DEF Continues
<1>2. \A v \in Workers : \A j \in Jobs : worker'[v].job = j => worker[v].job = j
  <2>1. u = Idle \/ u.job = worker[w].job
    BY DEF Continues
  <2> QED BY <1>1, <2>1, IdleLemma
<1> QED BY <1>1, <1>2 DEF Driven

LEMMA TakeUpJobs ==
  ASSUME TypeOK, NEW w \in Workers, NEW j \in Jobs, TakeUp(w, j)
  PROVE  /\ worker[w] = Idle /\ worker'[w] = Before("check", j, 0)
         /\ \A v \in Workers : v # w => worker'[v] = worker[v]
         /\ \A i \in Jobs : Driven(i)' <=> Driven(i) \/ i = j
         /\ drives' = [drives EXCEPT ![j] = drives[j] + 1]
<1>1. worker[w] = Idle /\ Become(w, Before("check", j, 0))
      /\ drives' = [drives EXCEPT ![j] = drives[j] + 1]
  BY DEF TakeUp
<1>2. Before("check", j, 0) \in Tasks
  BY DEF Before, Work, ActiveTask, Tasks, ActivePCs
<1>3. \A v \in Workers : worker'[v] = IF v = w THEN Before("check", j, 0) ELSE worker[v]
  BY <1>1, <1>2, BecomeLemma
<1> QED BY <1>1, <1>3, IdleLemma, WorkParts DEF Driven

(* A job is queued or driven by one worker, after its request has handed   *)
(* it over.                                                                *)
LEMMA OneDriverStep ==
  ASSUME IInv, NotScheduledInv, OneDriver, [Next]_vars
  PROVE  NotScheduledInv' /\ OneDriver'
<1>0. TypeOK /\ redispatches \in Nat
  BY DEF IInv, TypeOK
<1> DEFINE Early(j) == request[j] \in {"idle", "handled", "stored"}
<1>1. CASE UNCHANGED vars
  BY <1>1 DEF vars, volatile, bounds, NotScheduledInv, OneDriver, Driven
<1>2. ASSUME NEW j \in Jobs, Handle(j) \/ Insert(j)
      PROVE  NotScheduledInv' /\ OneDriver'
  <2>1. UNCHANGED <<queue, worker, redispatches>>
    BY <1>2 DEF Handle, Insert, volatile, bounds
  <2>2. \A i \in Jobs : Early(i)' => Early(i)
    <3>1. Early(j)
      BY <1>2 DEF Handle, Insert
    <3>2. \A i \in Jobs : i # j => request'[i] = request[i]
      BY <1>0, <1>2 DEF Handle, Insert, TypeOK
    <3> QED BY <3>1, <3>2
  <2> QED BY <2>1, <2>2 DEF NotScheduledInv, OneDriver, Driven
<1>3. ASSUME NEW j \in Jobs, Schedule(j)
      PROVE  NotScheduledInv' /\ OneDriver'
  <2>1. UNCHANGED <<worker, redispatches>> /\ queue' = queue \cup {j} /\ Early(j)
    BY <1>3 DEF Schedule, bounds
  <2>2. \A i \in Jobs : Early(i)' => Early(i) /\ i # j
    BY <1>0, <1>3 DEF Schedule, TypeOK
  <2> QED BY <2>1, <2>2 DEF NotScheduledInv, OneDriver, Driven
<1>4. ASSUME NEW w \in Workers, Begin(w)
      PROVE  NotScheduledInv' /\ OneDriver'
  <2>1. PICK j \in queue : TakeUp(w, j) /\ queue' = queue \ {j} /\ UNCHANGED <<request, redispatches>>
    BY <1>4 DEF Begin, bounds
  <2>2. j \in Jobs
    BY <1>0 DEF TypeOK
  <2>3. /\ worker[w] = Idle /\ worker'[w].job = j
        /\ \A v \in Workers : v # w => worker'[v] = worker[v]
        /\ \A i \in Jobs : Driven(i)' <=> Driven(i) \/ i = j
    BY <1>0, <2>1, <2>2, TakeUpJobs, WorkParts
  <2>4. NotScheduledInv'
    BY <2>1, <2>2, <2>3 DEF NotScheduledInv
  <2>5. OneDriver'
    BY <2>1, <2>2, <2>3 DEF OneDriver, Driven
  <2> QED BY <2>4, <2>5
<1>5. ASSUME NEW w \in Workers, Redispatch(w)
      PROVE  NotScheduledInv' /\ OneDriver'
  <2>1. redispatches' # 0
    BY <1>0, <1>5 DEF Redispatch
  <2> QED BY <2>1 DEF NotScheduledInv, OneDriver
<1>6. ASSUME NEW w \in Workers, Drives(w)
      PROVE  NotScheduledInv' /\ OneDriver'
  <2>1. PICK u : Continues(w, u)
    BY <1>6, DrivesContinue
  <2>2. UNCHANGED <<request, queue, redispatches>>
    BY <1>6, DrivesFrame
  <2>3. /\ \A v \in Workers : \A j \in Jobs : worker'[v].job = j => worker[v].job = j
        /\ \A j \in Jobs : Driven(j)' => Driven(j)
    BY <1>0, <2>1, ContinuesJobs
  <2> QED BY <2>2, <2>3 DEF NotScheduledInv, OneDriver
<1>7. CASE Crash
  <2>1. queue' = {} /\ worker' = [w \in Workers |-> Idle]
    BY <1>7 DEF Crash
  <2>2. \A j \in Jobs : ~ Driven(j)'
    BY <2>1, IdleLemma DEF Driven
  <2>3. \A j \in Jobs : \A w \in Workers : worker'[w].job # j
    BY <2>1, IdleLemma
  <2> QED BY <2>1, <2>2, <2>3 DEF NotScheduledInv, OneDriver
<1> QED BY <1>1, <1>2, <1>3, <1>4, <1>5, <1>6, <1>7, StepKinds

(* What the table does: only the insert makes a row, only a delete ends    *)
(* one, and an update touches a present row.                               *)
LEMMA TableSteps ==
  ASSUME TypeOK, NEW w \in Workers, Drives(w)
  PROVE  \A j \in Jobs : \/ row'[j] = row[j]
                         \/ j = worker[w].job /\ row'[j] = "deleted" /\ Delete(w)
<1>1. CASE Delete(w)
  BY <1>1 DEF Delete, durable, TypeOK
<1>2. CASE ~ Delete(w)
  BY <1>2 DEF Drives, Check, BootFlag, BootField, Find, SkipBlock, Deliver, Save, Fail, durable,
              UpdateRow
<1> QED BY <1>1, <1>2

-----------------------------------------------------------------------------
(* Rows and the copies of them.                                            *)

Fresh(t) ==
    t.pc \in Loaded /\ row[t.job] = "present" =>
        t.mem \subseteq rowData[t.job] /\ t.errors >= rowErrors[t.job]

RowSame(j) == row'[j] = row[j] /\ rowData'[j] = rowData[j] /\ rowErrors'[j] = rowErrors[j]

(* A worker at a job writes its own copy, or less of it, and no other row. *)
RowWritten(w) ==
    LET t == worker[w]
    IN /\ \A j \in Jobs : j # t.job => RowSame(j)
       /\ \/ RowSame(t.job)
          \/ row'[t.job] = "deleted"
          \/ /\ t.pc \in Loaded /\ row[t.job] = "present" /\ row'[t.job] = "present"
             /\ rowData'[t.job] \subseteq t.mem /\ rowErrors'[t.job] >= t.errors

LEMMA UpdateWrites ==
  ASSUME TypeOK, NEW w \in Workers, worker[w].pc \in Loaded, worker[w].job \in Jobs,
         NEW data \in SUBSET worker[w].mem, NEW errors \in Nat, errors >= worker[w].errors,
         UpdateRow(worker[w].job, data, errors)
  PROVE  /\ RowWritten(w)
         /\ row'[worker[w].job] = "present" =>
              rowData'[worker[w].job] = data /\ rowErrors'[worker[w].job] = errors
<1> DEFINE j == worker[w].job
<1>1. CASE row[j] = "present"
  <2>1. /\ rowData' = [rowData EXCEPT ![j] = data] /\ rowErrors' = [rowErrors EXCEPT ![j] = errors]
        /\ row' = row
    BY <1>1 DEF UpdateRow
  <2> QED BY <1>1, <2>1 DEF TypeOK, RowWritten, RowSame
<1>2. CASE row[j] # "present"
  BY <1>2 DEF UpdateRow, durable, RowWritten, RowSame
<1> QED BY <1>1, <1>2

(* It keeps a copy that is fresh fresh.                                    *)
LEMMA FreshDrive ==
  ASSUME IInv, NEW w \in Workers, Drives(w)
  PROVE  RowWritten(w) /\ (Fresh(worker[w]) => Fresh(worker[w])')
<1> DEFINE t == worker[w]
<1>0. TypeOK
  BY DEF IInv
<1>1. t.pc # "idle"
  BY DEF Drives, Check, BootFlag, BootField, Find, SkipBlock, Deliver, Save, Delete, Fail
<1>2. /\ t.job \in Jobs /\ t.mem \in SUBSET Kinds /\ t.errors \in Nat
      /\ rowErrors[t.job] \in Nat
  BY <1>0, <1>1, BusyLemma, TaskLemma DEF TypeOK
<1>3. \A u : Become(w, u) => worker'[w] = u
  BY <1>0 DEF TypeOK, Become
<1>4. CASE UNCHANGED durable
  <2>1. RowWritten(w)
    BY <1>4 DEF durable, RowWritten, RowSame
  <2>2. ASSUME NEW u, Become(w, u), u.pc \notin Loaded
        PROVE  Fresh(worker[w])'
    BY <1>3, <2>2 DEF Fresh
  <2>3. ASSUME NEW u, Become(w, u), Fresh(t), t.pc \in Loaded, u.job = t.job, u.errors = t.errors,
               u.mem \subseteq t.mem
        PROVE  Fresh(worker[w])'
    BY <1>3, <1>4, <2>3 DEF Fresh, durable
  <2>4. CASE Check(w) \/ BootFlag(w) \/ BootField(w) \/ Fail(w)
    <3>1. PICK u : Become(w, u) /\ u.pc \in {"boot", "find", "idle"}
      BY <2>4, WorkParts, IdleLemma DEF Check, BootFlag, BootField, Fail
    <3>2. u.pc \notin Loaded
      BY <3>1 DEF Loaded
    <3> QED BY <2>1, <2>2, <3>1, <3>2
  <2>5. CASE Find(w)
    <3>1. CASE Become(w, Idle)
      BY <2>1, <2>2, <3>1, IdleLemma DEF Loaded
    <3>2. CASE Become(w, Work("block", t.job, rowData[t.job], rowErrors[t.job], 1, 1))
      <4>1. PICK u : u = Work("block", t.job, rowData[t.job], rowErrors[t.job], 1, 1)
        OBVIOUS
      <4>2. u.job = t.job /\ u.mem = rowData[t.job] /\ u.errors = rowErrors[t.job] /\ worker'[w] = u
        BY <1>3, <3>2, <4>1, WorkParts
      <4> QED BY <1>2, <1>4, <2>1, <4>2 DEF Fresh, durable
    <3> QED BY <2>5, <3>1, <3>2 DEF Find
  <2>6. CASE SkipBlock(w) \/ Deliver(w) \/ Save(w) \/ Delete(w)
    <3>1. Left(t) \subseteq t.mem
      BY DEF Left
    <3>2. /\ t.pc \in Loaded
          /\ \/ \E m \in {t.mem, Left(t)} : Become(w, AfterBlock(t, m))
             \/ \E m \in {t.mem, Left(t)} : Become(w, At("fail", t, m, t.step, t.item))
             \/ Become(w, AfterItem(t))
             \/ Become(w, Idle)
      BY <2>6 DEF SkipBlock, Deliver, Save, Delete, Loaded
    <3>3. \A m : /\ AfterBlock(t, m).job = t.job /\ AfterBlock(t, m).mem = m
                 /\ AfterBlock(t, m).errors = t.errors
      BY WorkParts DEF AfterBlock
    <3>4. AfterItem(t).job = t.job /\ AfterItem(t).mem = t.mem /\ AfterItem(t).errors = t.errors
      BY WorkParts DEF AfterItem
    <3>5. PICK u : /\ Become(w, u)
                   /\ \/ u.job = t.job /\ u.errors = t.errors /\ u.mem \subseteq t.mem
                      \/ u.pc = "idle"
      BY <3>1, <3>2, <3>3, <3>4, WorkParts, IdleLemma
    <3> QED BY <2>1, <2>2, <2>3, <3>2, <3>5 DEF Loaded
  <2> QED BY <2>4, <2>5, <2>6 DEF Drives
<1>5. CASE Save(w) /\ UpdateRow(t.job, Left(t), t.errors) /\ Become(w, AfterBlock(t, Left(t)))
  <2>1. t.pc \in Loaded /\ Left(t) \in SUBSET t.mem /\ t.errors >= t.errors
    BY <1>2, <1>5 DEF Save, Loaded, Left
  <2>2. /\ RowWritten(w)
        /\ row'[t.job] = "present" => rowData'[t.job] = Left(t) /\ rowErrors'[t.job] = t.errors
    BY <1>0, <1>2, <1>5, <2>1, UpdateWrites
  <2>3. PICK u : u = AfterBlock(t, Left(t))
    OBVIOUS
  <2>4. worker'[w] = u /\ u.job = t.job /\ u.mem = Left(t) /\ u.errors = t.errors
    BY <1>3, <1>5, <2>3, WorkParts DEF AfterBlock
  <2> QED BY <1>2, <2>2, <2>4 DEF Fresh
<1>6. CASE Delete(w) /\ row' = [row EXCEPT ![t.job] = "deleted"]
  <2>1. /\ \A j \in Jobs : j # t.job => RowSame(j)
        /\ row'[t.job] = "deleted"
    BY <1>0, <1>2, <1>6 DEF Delete, durable, TypeOK, RowSame
  <2>2. CASE Become(w, Idle)
    BY <1>3, <2>1, <2>2, IdleLemma DEF Fresh, Loaded, RowWritten, RowSame
  <2>3. CASE UNCHANGED durable
    BY <1>4, <2>3
  <2> QED BY <1>6, <2>2, <2>3 DEF Delete
<1>7. CASE Fail(w) /\ UpdateRow(t.job, t.mem, t.errors + 1)
  <2>1. t.pc \in Loaded /\ t.mem \in SUBSET t.mem /\ t.errors + 1 \in Nat /\ t.errors + 1 >= t.errors
    BY <1>2, <1>7 DEF Fail, Loaded
  <2>2. RowWritten(w)
    BY <1>0, <1>2, <1>7, <2>1, UpdateWrites
  <2>3. worker'[w].pc = "idle"
    BY <1>3, <1>7, IdleLemma DEF Fail
  <2> QED BY <2>2, <2>3 DEF Fresh, Loaded
<1>8. \/ UNCHANGED durable
      \/ Save(w) /\ UpdateRow(t.job, Left(t), t.errors) /\ Become(w, AfterBlock(t, Left(t)))
      \/ Delete(w) /\ row' = [row EXCEPT ![t.job] = "deleted"]
      \/ Fail(w) /\ UpdateRow(t.job, t.mem, t.errors + 1)
  BY DEF Drives, Check, BootFlag, BootField, Find, SkipBlock, Deliver, Save, Delete, Fail
<1> QED BY <1>4, <1>5, <1>6, <1>7, <1>8

(* A second dispatch, once made, is never forgotten.                       *)
LEMMA RedispatchesGrow ==
  ASSUME TypeOK, [Next]_vars, redispatches' = 0
  PROVE  redispatches = 0
<1>1. redispatches \in Nat
  BY DEF TypeOK
<1>2. ASSUME NEW w \in Workers, Drives(w) PROVE redispatches' = redispatches
  BY <1>2, DrivesFrame
<1>3. \A w \in Workers : ~ Redispatch(w)
  BY <1>1 DEF Redispatch
<1> QED BY <1>2, <1>3, StepKinds DEF vars, bounds, Handle, Insert, Schedule, Begin, Crash

(* While there is only one driver, its copy is fresh.                      *)
LEMMA FreshCopyStep ==
  ASSUME IInv, NotScheduledInv, OneDriver, FreshCopyInv, [Next]_vars
  PROVE  FreshCopyInv'
<1> SUFFICES ASSUME redispatches' = 0, NEW v \in Workers
             PROVE  Fresh(worker[v])'
  BY DEF FreshCopyInv, Fresh
<1>0. TypeOK /\ redispatches = 0
  BY RedispatchesGrow DEF IInv
<1>1. Fresh(worker[v])
  BY <1>0 DEF FreshCopyInv, Fresh
<1>2. worker[v].pc \in Loaded => worker[v].job \in Jobs
  BY <1>0, BusyLemma, TaskLemma DEF Loaded
<1>3. CASE UNCHANGED vars
  BY <1>1, <1>3 DEF vars, durable, Fresh
<1>4. ASSUME NEW j \in Jobs, Handle(j) \/ Insert(j) \/ Schedule(j)
      PROVE  Fresh(worker[v])'
  <2>1. worker' = worker
    BY <1>4 DEF Handle, Insert, Schedule
  <2>2. CASE UNCHANGED durable
    BY <1>1, <2>1, <2>2 DEF durable, Fresh
  <2>3. CASE Insert(j)
    <3>1. ~ Driven(j)
      BY <1>0, <2>3 DEF Insert, NotScheduledInv
    <3>2. \A i \in Jobs : i # j => RowSame(i)
      BY <1>0, <2>3 DEF Insert, durable, TypeOK, RowSame
    <3> QED BY <1>1, <1>2, <2>1, <3>1, <3>2 DEF Driven, Fresh, RowSame
  <2> QED BY <1>4, <2>2, <2>3 DEF Handle, Schedule
<1>5. ASSUME NEW w \in Workers, Begin(w) \/ Redispatch(w)
      PROVE  Fresh(worker[v])'
  <2>1. PICK j \in Jobs : TakeUp(w, j) /\ UNCHANGED durable
    BY <1>0, <1>5 DEF Begin, Redispatch, TypeOK
  <2>2. worker'[v] = worker[v] \/ worker'[v].pc = "check"
    BY <1>0, <2>1, TakeUpJobs, WorkParts
  <2> QED BY <1>1, <2>1, <2>2 DEF durable, Fresh, Loaded
<1>6. ASSUME NEW w \in Workers, Drives(w)
      PROVE  Fresh(worker[v])'
  <2>1. RowWritten(w) /\ (Fresh(worker[w]) => Fresh(worker[w])')
    BY <1>6, FreshDrive
  <2>2. CASE v = w
    BY <1>1, <2>1, <2>2
  <2>3. CASE v # w
    <3>1. PICK u : Continues(w, u)
      BY <1>6, DrivesContinue
    <3>2. worker'[v] = worker[v]
      BY <1>0, <2>3, <3>1, ContinuesJobs
    <3>3. worker[w].job \in Jobs
      BY <3>1 DEF Continues, ActiveTask
    <3>4. worker[v].pc \in Loaded => RowSame(worker[v].job)
      BY <1>0, <1>2, <2>1, <2>3, <3>3 DEF OneDriver, RowWritten
    <3> QED BY <1>1, <3>2, <3>4 DEF Fresh, RowSame
  <2> QED BY <2>2, <2>3
<1>7. CASE Crash
  BY <1>7, IdleLemma DEF Crash, Fresh, Loaded
<1> QED BY <1>3, <1>4, <1>5, <1>6, <1>7, StepKinds

(* Rows progress: what a step of RowsOnlyProgress asks for.                *)
LEMMA RowsStep ==
  ASSUME IInv, FreshCopyInv, [Next]_vars, NEW j \in Jobs
  PROVE  /\ row[j] = "deleted" => row'[j] = "deleted"
         /\ row[j] = "present" /\ redispatches' = 0
              => /\ rowData'[j] \subseteq rowData[j]
                 /\ row'[j] = "present" => rowErrors'[j] >= rowErrors[j]
<1>0. TypeOK /\ rowErrors[j] \in Nat
  BY DEF IInv, TypeOK
<1>1. CASE UNCHANGED durable
  BY <1>0, <1>1 DEF durable
<1>2. ASSUME NEW i \in Jobs, Insert(i)
      PROVE  \/ UNCHANGED durable
             \/ row[i] = "none" /\ (j # i => RowSame(j))
  BY <1>0, <1>2 DEF Insert, IInv, RequestInv, TypeOK, RowSame, durable
<1>3. ASSUME NEW w \in Workers, Drives(w), row[j] # "none"
      PROVE  /\ row[j] = "deleted" => row'[j] = "deleted"
             /\ row[j] = "present" /\ redispatches' = 0
                  => /\ rowData'[j] \subseteq rowData[j]
                     /\ row'[j] = "present" => rowErrors'[j] >= rowErrors[j]
  <2>1. RowWritten(w)
    BY <1>3, FreshDrive
  <2>2. redispatches' = 0 => Fresh(worker[w])
    BY <1>0, RedispatchesGrow DEF FreshCopyInv, Fresh
  <2>3. CASE RowSame(j)
    BY <1>0, <2>3 DEF RowSame
  <2>4. CASE j = worker[w].job /\ row'[j] = "deleted"
    <3>1. rowData'[j] \subseteq rowData[j]
      BY <1>0, <1>3, <2>4 DEF Drives, Check, BootFlag, BootField, Find, SkipBlock, Deliver, Save,
                             Delete, Fail, durable, UpdateRow, TypeOK
    <3> QED BY <2>4, <3>1
  <2>5. CASE /\ j = worker[w].job /\ worker[w].pc \in Loaded
             /\ row[j] = "present" /\ row'[j] = "present"
             /\ rowData'[j] \subseteq worker[w].mem /\ rowErrors'[j] >= worker[w].errors
    <3>1. worker[w].errors \in Nat /\ rowErrors'[j] \in Nat
      <4>1. TypeOK'
        BY <1>0, TypeNext
      <4> QED BY <1>0, <2>5, <4>1, BusyLemma, TaskLemma DEF Loaded, TypeOK
    <3> QED BY <1>0, <2>2, <2>5, <3>1 DEF Fresh
  <2> QED BY <2>1, <2>3, <2>4, <2>5 DEF RowWritten
<1>4. \/ UNCHANGED durable
      \/ \E i \in Jobs : Insert(i)
      \/ \E w \in Workers : Drives(w)
  BY StepKinds DEF vars, Handle, Schedule, Begin, Redispatch, Crash
<1>5. CASE row[j] = "none"
  BY <1>5
<1> QED BY <1>0, <1>1, <1>2, <1>3, <1>4, <1>5 DEF RowSame

-----------------------------------------------------------------------------
(* How often an effect is delivered.                                       *)

(* Once a worker with the slot ahead has passed it, one fewer is coming.   *)
LEMMA OneFewer ==
  ASSUME NEW S, NEW T, IsFiniteSet(S), T \subseteq S
  PROVE  /\ IsFiniteSet(T) /\ Cardinality(T) \in Nat /\ Cardinality(S) \in Nat
         /\ Cardinality(T) <= Cardinality(S)
         /\ \A w \in S : w \notin T => Cardinality(T) + 1 <= Cardinality(S)
<1>1. /\ IsFiniteSet(T) /\ Cardinality(T) \in Nat /\ Cardinality(S) \in Nat
      /\ Cardinality(T) <= Cardinality(S)
  BY FS_Subset, FS_CardinalityType
<1>2. ASSUME NEW w \in S, w \notin T
      PROVE  Cardinality(T) + 1 <= Cardinality(S)
  <2>1. T # S
    BY <1>2
  <2>2. Cardinality(T) < Cardinality(S)
    BY <2>1, FS_Subset, FS_CardinalityType
  <2> QED BY <1>1, <2>2
<1> QED BY <1>1, <1>2

LEMMA OneMore ==
  ASSUME NEW S, NEW x, x \notin S, IsFiniteSet(S), NEW T, T = S \cup {x}
  PROVE  IsFiniteSet(T) /\ Cardinality(T) <= Cardinality(S) + 1
<1>1. IsFiniteSet(S \cup {x}) /\ Cardinality(S \cup {x}) = Cardinality(S) + 1
  BY FS_AddElement
<1>2. Cardinality(S) \in Nat
  BY FS_CardinalityType
<1> QED BY <1>1, <1>2

(* A step that adds no worker to those coming, delivers an effect at most  *)
(* once, and that only when one of them passes it.                         *)
LEMMA Counted ==
  ASSUME NEW S, NEW T, IsFiniteSet(S), T \subseteq S,
         NEW d \in Nat, NEW e \in Nat, NEW n \in Nat, d + Cardinality(S) <= n,
         e = d \/ (e = d + 1 /\ \E w \in S : w \notin T)
  PROVE  IsFiniteSet(T) /\ e + Cardinality(T) <= n
<1>1. /\ IsFiniteSet(T) /\ Cardinality(T) \in Nat /\ Cardinality(S) \in Nat
      /\ Cardinality(T) <= Cardinality(S)
      /\ (\E w \in S : w \notin T) => Cardinality(T) + 1 <= Cardinality(S)
  BY OneFewer
<1> QED BY <1>1

(* Deliveries are counted in one slot, that of the worker's task.          *)
LEMMA DeliverCounts ==
  ASSUME TypeOK, NEW w \in Workers, Drives(w), NEW j \in Jobs, NEW s \in Slots
  PROVE  \/ delivered'[j][s] = delivered[j][s]
         \/ /\ delivered'[j][s] = delivered[j][s] + 1
            /\ Deliver(w) /\ j = worker[w].job /\ s = <<worker[w].step, worker[w].item>>
<1>1. delivered[j] \in [Slots -> Nat] /\ delivered[j][s] \in Nat
  BY DEF TypeOK
<1>2. CASE Deliver(w)
  <2> DEFINE t == worker[w]
  <2>1. PICK n \in {0, 1} :
          delivered' = [delivered EXCEPT ![t.job][<<t.step, t.item>>] = @ + n]
    BY <1>2 DEF Deliver
  <2>2. CASE j = t.job
    <3>1. delivered'[j] = [delivered[j] EXCEPT ![<<t.step, t.item>>] = @ + n]
      BY <2>1, <2>2 DEF TypeOK
    <3> QED BY <1>1, <1>2, <2>2, <3>1
  <2>3. CASE j # t.job
    BY <2>1, <2>3 DEF TypeOK
  <2> QED BY <2>2, <2>3
<1>3. CASE ~ Deliver(w)
  BY <1>3 DEF Drives, Check, BootFlag, BootField, Find, SkipBlock, Save, Delete, Fail, history
<1> QED BY <1>2, <1>3

(* Each drive delivers an effect at most once.                             *)
LEMMA DriveStep ==
  ASSUME IInv, DriveInv, [Next]_vars
  PROVE  DriveInv'
<1> SUFFICES ASSUME NEW j \in Jobs, NEW s \in Slots
             PROVE  /\ IsFiniteSet(Coming(j, s)')
                    /\ delivered'[j][s] + Cardinality(Coming(j, s)') <= drives'[j]
  BY DEF DriveInv
<1>0. /\ TypeOK /\ drives[j] \in Nat /\ delivered[j][s] \in Nat
      /\ delivered'[j][s] \in Nat /\ drives'[j] \in Nat
  BY TypeNext DEF IInv, TypeOK
<1>1. IsFiniteSet(Coming(j, s)) /\ delivered[j][s] + Cardinality(Coming(j, s)) <= drives[j]
  BY DEF DriveInv
<1>2. ASSUME UNCHANGED <<worker, delivered, drives>>
      PROVE  /\ IsFiniteSet(Coming(j, s)')
             /\ delivered'[j][s] + Cardinality(Coming(j, s)') <= drives'[j]
  BY <1>1, <1>2 DEF Coming, Ahead
<1>3. ASSUME NEW i \in Jobs, Handle(i) \/ Insert(i) \/ Schedule(i)
      PROVE  UNCHANGED <<worker, delivered, drives>>
  BY <1>3 DEF Handle, Insert, Schedule, history
<1>4. ASSUME NEW w \in Workers, Begin(w) \/ Redispatch(w)
      PROVE  /\ IsFiniteSet(Coming(j, s)')
             /\ delivered'[j][s] + Cardinality(Coming(j, s)') <= drives'[j]
  <2>1. PICK i \in Jobs : TakeUp(w, i) /\ UNCHANGED delivered
    BY <1>0, <1>4 DEF Begin, Redispatch, TypeOK
  <2>2. /\ worker[w] = Idle /\ worker'[w] = Before("check", i, 0)
        /\ \A v \in Workers : v # w => worker'[v] = worker[v]
        /\ drives' = [drives EXCEPT ![i] = drives[i] + 1]
    BY <1>0, <2>1, TakeUpJobs
  <2>3. Cardinality(Coming(j, s)) \in Nat
    BY <1>1, FS_CardinalityType
  <2>4. CASE i = j
    <3>1. Coming(j, s)' = Coming(j, s) \cup {w}
      BY <2>2, <2>4, WorkParts, IdleLemma DEF Coming, Ahead
    <3>2. IsFiniteSet(Coming(j, s)') /\ Cardinality(Coming(j, s)') <= Cardinality(Coming(j, s)) + 1
      <4>1. w \notin Coming(j, s)
        BY <2>2, IdleLemma DEF Coming
      <4> QED BY <1>1, <3>1, <4>1, OneMore
    <3>3. drives'[j] = drives[j] + 1
      BY <1>0, <2>2, <2>4 DEF TypeOK
    <3>4. Cardinality(Coming(j, s)') \in Nat
      BY <3>2, FS_CardinalityType
    <3> QED BY <1>0, <1>1, <2>1, <2>3, <3>2, <3>3, <3>4
  <2>5. CASE i # j
    <3>1. Coming(j, s)' = Coming(j, s)
      BY <2>2, <2>5, WorkParts, IdleLemma DEF Coming, Ahead
    <3>2. drives'[j] = drives[j]
      BY <1>0, <2>2, <2>5 DEF TypeOK
    <3> QED BY <1>1, <2>1, <3>1, <3>2
  <2> QED BY <2>4, <2>5
<1>5. ASSUME NEW w \in Workers, Drives(w)
      PROVE  /\ IsFiniteSet(Coming(j, s)')
             /\ delivered'[j][s] + Cardinality(Coming(j, s)') <= drives'[j]
  <2> DEFINE t == worker[w]
  <2>1. drives' = drives
    BY <1>5, DrivesFrame
  <2>2. PICK u : Continues(w, u)
    BY <1>5, DrivesContinue
  <2>3. /\ \A v \in Workers : worker'[v] = IF v = w THEN u ELSE worker[v]
        /\ \A v \in Workers : worker'[v].job = j => worker[v].job = j
    BY <1>0, <2>2, ContinuesJobs
  <2>4. Ahead(u, s) => Ahead(worker[w], s)
    BY <2>2 DEF Continues
  <2>5. Coming(j, s)' \subseteq Coming(j, s)
    BY <2>3, <2>4 DEF Coming, Ahead
  <2>6. \/ delivered'[j][s] = delivered[j][s]
        \/ /\ delivered'[j][s] = delivered[j][s] + 1
           /\ \E v \in Coming(j, s) : v \notin Coming(j, s)'
    <3>1. ASSUME Deliver(w), j = t.job, s = <<t.step, t.item>>
          PROVE  w \in Coming(j, s) /\ w \notin Coming(j, s)'
      <4>1. t \in ActiveTask /\ t.pc = "block"
        BY <2>2, <3>1 DEF Continues, Deliver
      <4>2. t.step \in Kinds /\ t.item \in 1..Items[t.step]
        BY <4>1 DEF IInv, WorkerInv, TaskInv, BlockInv
      <4>3. PICK x : Become(w, x) /\ (x = AfterItem(t) \/ x = At("fail", t, t.mem, t.step, t.item))
        BY <3>1 DEF Deliver
      <4>4. ~ Ahead(x, s) /\ Ahead(t, s)
        BY <3>1, <4>1, <4>2, <4>3, AfterItemAhead
      <4>5. worker'[w] = x
        BY <1>0, <4>3 DEF Become, TypeOK
      <4>6. ~ Ahead(worker[w], s)'
        BY <4>4, <4>5 DEF Ahead
      <4> QED BY <3>1, <4>4, <4>6 DEF Coming
    <3> QED BY <1>0, <1>5, <3>1, DeliverCounts
  <2> QED BY <1>0, <1>1, <2>1, <2>5, <2>6, Counted
<1>6. CASE Crash
  <2>1. UNCHANGED <<delivered, drives>>
    BY <1>6 DEF Crash, history
  <2>2. Coming(j, s)' \subseteq Coming(j, s)
    BY <1>6, IdleLemma DEF Crash, Coming
  <2> QED BY <1>0, <1>1, <2>1, <2>2, Counted
<1>7. UNCHANGED vars => UNCHANGED <<worker, delivered, drives>>
  BY DEF vars, history
<1> QED BY <1>2, <1>3, <1>4, <1>5, <1>6, <1>7, StepKinds

-----------------------------------------------------------------------------
(* What is left undone.                                                    *)

(* The counters of faults only grow.                                       *)
LEMMA FaultsGrow ==
  ASSUME TypeOK, [Next]_vars
  PROVE  /\ failures' >= failures /\ crashes' >= crashes
         /\ failures' \in Nat /\ crashes' \in Nat /\ failures \in Nat /\ crashes \in Nat
<1>1. TypeOK'
  BY TypeNext
<1>2. failures' = failures \/ failures' = failures + 1
  BY StepKinds DEF vars, bounds, Handle, Insert, Schedule, Begin, Redispatch, Drives, Check,
       BootFlag, BootField, Find, SkipBlock, Deliver, Save, Delete, Fail, Crash, CallFails
<1>3. crashes' = crashes \/ crashes' = crashes + 1
  BY StepKinds DEF vars, bounds, Handle, Insert, Schedule, Begin, Redispatch, Drives, Check,
       BootFlag, BootField, Find, SkipBlock, Deliver, Save, Delete, Fail, Crash
<1> QED BY <1>1, <1>2, <1>3 DEF TypeOK

(* A worker that drives comes to the catch block by a call that fails.     *)
LEMMA FailsByCall ==
  ASSUME IInv, NEW w \in Workers, Drives(w), worker'[w].pc = "fail"
  PROVE  CallFails
<1> DEFINE t == worker[w]
<1>1. \A u : Become(w, u) => worker'[w] = u
  BY DEF IInv, TypeOK, Become
<1>2. CASE Check(w) \/ BootFlag(w) \/ BootField(w) \/ Find(w)
  <2>1. PICK u : Become(w, u) /\ u.pc \in {"boot", "find", "idle", "block"}
    BY <1>2, WorkParts, IdleLemma DEF Check, BootFlag, BootField, Find
  <2> QED BY <1>1, <2>1
<1>3. AfterItem(t).pc # "fail" /\ \A m : AfterBlock(t, m).pc # "fail"
  <2>1. \A m, n, i : At("block", t, m, n, i).pc # "fail"
                     /\ At("save", t, m, n, i).pc # "fail" /\ At("delete", t, m, n, i).pc # "fail"
    BY WorkParts
  <2> QED BY <2>1 DEF AfterItem, AfterBlock
<1>4. CASE SkipBlock(w)
  BY <1>1, <1>3, <1>4 DEF SkipBlock
<1>5. CASE Deliver(w)
  BY <1>1, <1>3, <1>5 DEF Deliver
<1>6. CASE Save(w)
  BY <1>1, <1>3, <1>6 DEF Save
<1>7. CASE Delete(w)
  BY <1>1, <1>7, IdleLemma DEF Delete
<1>8. CASE Fail(w)
  BY <1>1, <1>8, IdleLemma DEF Fail
<1> QED BY <1>2, <1>4, <1>5, <1>6, <1>7, <1>8 DEF Drives

LEMMA FailStep ==
  ASSUME IInv, FailInv, [Next]_vars
  PROVE  FailInv'
<1> SUFFICES ASSUME NEW v \in Workers, worker'[v].pc = "fail"
             PROVE  failures' > 0
  BY DEF FailInv
<1>0. TypeOK /\ failures' >= failures /\ failures' \in Nat /\ failures \in Nat
  BY FaultsGrow DEF IInv
<1>1. worker[v].pc = "fail" => failures' > 0
  BY <1>0 DEF FailInv
<1>2. CASE worker' = worker
  BY <1>1, <1>2
<1>3. ASSUME NEW w \in Workers, Begin(w) \/ Redispatch(w)
      PROVE  worker'[v] = worker[v]
  <2>1. PICK j \in Jobs : TakeUp(w, j)
    BY <1>0, <1>3 DEF Begin, Redispatch, TypeOK
  <2> QED BY <1>0, <2>1, TakeUpJobs, WorkParts
<1>4. ASSUME NEW w \in Workers, Drives(w)
      PROVE  failures' > 0
  <2>1. PICK u : Continues(w, u)
    BY <1>4, DrivesContinue
  <2>2. v # w => worker'[v] = worker[v]
    BY <1>0, <2>1, ContinuesJobs
  <2>3. v = w => failures' > 0
    BY <1>0, <1>4, FailsByCall DEF CallFails
  <2> QED BY <1>1, <2>2, <2>3
<1>5. ~ Crash
  BY IdleLemma DEF Crash
<1> QED BY <1>1, <1>2, <1>3, <1>4, <1>5, StepKinds DEF vars, Handle, Insert, Schedule

LEMMA BootOrderLemma ==
    /\ \A n \in 1..5 : BootOrder[n] \in Kinds
    /\ \A m, n \in 1..5 : BootOrder[m] = BootOrder[n] => m = n
<1>1. /\ BootOrder[1] = 5 /\ BootOrder[2] = 3 /\ BootOrder[3] = 4
      /\ BootOrder[4] = 1 /\ BootOrder[5] = 2
  BY DEF BootOrder, Activities, Events, Hooks, DataPoints, DelayedJobs
<1>2. \A n \in 1..5 : n \in {1, 2, 3, 4, 5}
  OBVIOUS
<1> QED BY <1>1, <1>2 DEF Kinds

(* The last worker at a row does not leave it behind without a fault.      *)
LEMMA OrphansStep ==
  ASSUME IInv, FailInv, OrphansNeedAFault, [Next]_vars
  PROVE  OrphansNeedAFault'
<1> DEFINE Faulty == failures + crashes > 0 \/ \E k \in Kinds : Beans[k] = 2
           Orphan(j) == row[j] = "present" /\ request[j] # "stored" /\ j \notin queue /\ ~ Driven(j)
<1> SUFFICES ASSUME NEW j \in Jobs, Orphan(j)', ~ Faulty'
             PROVE  FALSE
  BY DEF OrphansNeedAFault
<1>0. TypeOK
  BY DEF IInv
<1>1. ~ Faulty /\ failures' = 0 /\ crashes' = 0
  BY <1>0, FaultsGrow
<1>2. ~ Orphan(j)
  BY <1>1 DEF OrphansNeedAFault
<1>3. CASE UNCHANGED vars
  BY <1>2, <1>3 DEF vars, durable, volatile, Driven
<1>4. ASSUME NEW i \in Jobs, Handle(i) \/ Insert(i) \/ Schedule(i)
      PROVE  FALSE
  <2>1. worker' = worker
    BY <1>4 DEF Handle, Insert, Schedule
  <2>2. i # j => row'[j] = row[j] /\ request'[j] = request[j]
    BY <1>0, <1>4 DEF Handle, Insert, Schedule, durable, TypeOK
  <2>3. queue' = queue \/ (queue' = queue \cup {i} /\ Schedule(i))
    BY <1>4 DEF Handle, Insert, Schedule, volatile
  <2>4. i # j
    <3>1. ~ Handle(j)
      BY <1>0 DEF Handle, durable, IInv, RequestInv
    <3>2. ~ Insert(j)
      BY <1>0, <1>1 DEF Insert, CallFails, TypeOK
    <3>3. ~ Schedule(j)
      BY DEF Schedule
    <3> QED BY <1>4, <3>1, <3>2, <3>3
  <2> QED BY <1>2, <2>1, <2>2, <2>3, <2>4 DEF Driven
<1>5. ASSUME NEW w \in Workers, Begin(w) \/ Redispatch(w)
      PROVE  FALSE
  <2>1. PICK i \in Jobs : /\ TakeUp(w, i) /\ UNCHANGED <<row, request>>
                          /\ queue' = queue \/ queue' = queue \ {i}
    BY <1>0, <1>5 DEF Begin, Redispatch, TypeOK, durable, volatile
  <2>2. \A k \in Jobs : Driven(k)' <=> Driven(k) \/ k = i
    BY <1>0, <2>1, TakeUpJobs
  <2> QED BY <1>2, <2>1, <2>2
<1>6. ASSUME NEW w \in Workers, Drives(w)
      PROVE  FALSE
  <2> DEFINE t == worker[w]
  <2>1. PICK u : Continues(w, u)
    BY <1>6, DrivesContinue
  <2>2. \A v \in Workers : worker'[v] = IF v = w THEN u ELSE worker[v]
    BY <1>0, <2>1, ContinuesJobs
  <2>3. UNCHANGED <<request, queue>>
    BY <1>6, DrivesFrame
  <2>4. row'[j] = row[j] /\ ~ (j = t.job /\ row'[j] = "deleted")
    BY <1>0, <1>6, TableSteps
  <2>5. t.job = j /\ u = Idle
    BY <1>2, <2>1, <2>2, <2>3, <2>4, IdleLemma DEF Driven, Continues
  <2>6. worker'[w] = Idle /\ t.pc # "fail" /\ ~ CallFails
    <3>1. failures = 0
      BY <1>0, <1>1 DEF TypeOK
    <3> QED BY <1>1, <2>2, <2>5, <3>1 DEF FailInv, CallFails
  <2>7. \A v : Become(w, v) => v = Idle
    BY <1>0, <2>6 DEF TypeOK, Become
  <2>8. t \in ActiveTask
    BY <2>1 DEF Continues
  <2>9. ~ (Check(w) \/ BootFlag(w))
    BY <2>7, WorkParts, IdleLemma DEF Check, BootFlag
  <2>10. ~ BootField(w)
    <3>1. ASSUME BootField(w)
          PROVE  FALSE
      <4>1. t.step \in 1..5 /\ BootOrder[t.step] \in Kinds
        BY <2>8, <3>1, TaskLemma, BootOrderLemma DEF BootField
      <4>2. ~ Ambiguous(BootOrder[t.step])
        BY <1>1, <4>1, ConstantsAssumption DEF Ambiguous
      <4> QED BY <2>7, <3>1, <4>2, WorkParts, IdleLemma DEF BootField
    <3> QED BY <3>1
  <2>11. ~ Find(w)
    BY <2>4, <2>5, <2>6, <2>7, WorkParts, IdleLemma DEF Find
  <2>12. \A m : AfterBlock(t, m) # Idle /\ AfterItem(t) # Idle
    BY WorkParts, IdleLemma DEF AfterBlock, AfterItem
  <2>13. ~ (SkipBlock(w) \/ Deliver(w) \/ Save(w))
    BY <2>6, <2>7, <2>12 DEF SkipBlock, Deliver, Save
  <2>14. ~ Delete(w)
    BY <1>0, <2>4, <2>5, <2>6 DEF Delete, TypeOK
  <2>15. ~ Fail(w)
    BY <2>6 DEF Fail
  <2> QED BY <1>6, <2>9, <2>10, <2>11, <2>13, <2>14, <2>15 DEF Drives
<1>7. ~ Crash
  BY <1>0, <1>1 DEF Crash, TypeOK
<1> QED BY <1>3, <1>4, <1>5, <1>6, <1>7, StepKinds

-----------------------------------------------------------------------------
(* What bootstrap() looks up.                                              *)

(* A worker that drives comes to a later field only past one that is not   *)
(* ambiguous.                                                              *)
LEMMA BootAdvances ==
  ASSUME IInv, NEW w \in Workers, Drives(w), worker'[w].pc = "boot",
         NEW m \in 1..5, m < worker'[w].step
  PROVE  \/ m < worker[w].step /\ worker[w].pc = "boot"
         \/ m = worker[w].step /\ ~ Ambiguous(BootOrder[m]) /\ worker[w].pc = "boot"
<1> DEFINE t == worker[w]
<1>1. \A u : Become(w, u) => worker'[w] = u
  BY DEF IInv, TypeOK, Become
<1>2. t.step \in 0..5
  <2>1. t.pc # "idle"
    BY DEF Drives, Check, BootFlag, BootField, Find, SkipBlock, Deliver, Save, Delete, Fail
  <2> QED BY <2>1, BusyLemma, TaskLemma DEF IInv
<1>3. CASE BootField(w)
  <2>1. PICK u : /\ Become(w, u)
                 /\ \/ u.pc # "boot"
                    \/ u.step = t.step + 1 /\ ~ Ambiguous(BootOrder[t.step])
    BY <1>3, WorkParts, IdleLemma DEF BootField
  <2>2. worker'[w].step = t.step + 1 /\ ~ Ambiguous(BootOrder[t.step])
    BY <1>1, <2>1
  <2> QED BY <1>2, <1>3, <2>2 DEF BootField
<1>4. CASE Check(w)
  <2>1. Become(w, Before("find", t.job, 0)) \/ Become(w, Before("boot", t.job, 0))
    BY <1>4 DEF Check
  <2>2. worker'[w].step = 0
    BY <1>1, <2>1, WorkParts
  <2> QED BY <2>2
<1>5. CASE BootFlag(w)
  <2>1. worker'[w].step = 1
    BY <1>1, <1>5, WorkParts DEF BootFlag
  <2> QED BY <2>1
<1>6. CASE Find(w) \/ SkipBlock(w) \/ Deliver(w) \/ Save(w) \/ Delete(w) \/ Fail(w)
  <2>1. AfterItem(t).pc # "boot" /\ \A d : AfterBlock(t, d).pc # "boot"
    BY WorkParts DEF AfterItem, AfterBlock
  <2>2. PICK u : Become(w, u) /\ u.pc # "boot"
    BY <1>6, <2>1, WorkParts, IdleLemma DEF Find, SkipBlock, Deliver, Save, Delete, Fail
  <2> QED BY <1>1, <2>2
<1> QED BY <1>3, <1>4, <1>5, <1>6 DEF Drives

LEMMA BootStep ==
  ASSUME IInv, BootInv, [Next]_vars
  PROVE  BootInv'
<1>0. TypeOK
  BY DEF IInv
<1>1. \A k \in Kinds : Ambiguous(k) <=> Beans[k] = 2
  BY ConstantsAssumption DEF Ambiguous
<1>2. ASSUME NEW v \in Workers, worker'[v].pc = "boot", NEW m \in 1..5, m < worker'[v].step
      PROVE  Beans[BootOrder[m]] # 2
  <2>1. worker'[v] = worker[v] => Beans[BootOrder[m]] # 2
    BY <1>2 DEF BootInv
  <2>2. ASSUME NEW w \in Workers, Begin(w) \/ Redispatch(w)
        PROVE  worker'[v] = worker[v]
    <3>1. PICK j \in Jobs : TakeUp(w, j)
      BY <1>0, <2>2 DEF Begin, Redispatch, TypeOK
    <3> QED BY <1>0, <1>2, <3>1, TakeUpJobs, WorkParts
  <2>3. ASSUME NEW w \in Workers, Drives(w)
        PROVE  Beans[BootOrder[m]] # 2
    <3>1. PICK u : Continues(w, u)
      BY <2>3, DrivesContinue
    <3>2. v # w => worker'[v] = worker[v]
      BY <1>0, <3>1, ContinuesJobs
    <3>3. CASE v = w
      <4>1. \/ m < worker[w].step /\ worker[w].pc = "boot"
            \/ ~ Ambiguous(BootOrder[m])
        BY <1>2, <2>3, <3>3, BootAdvances
      <4> QED BY <1>1, <4>1, BootOrderLemma DEF BootInv
    <3> QED BY <2>1, <3>2, <3>3
  <2>4. ~ Crash
    BY <1>2, IdleLemma DEF Crash
  <2> QED BY <2>1, <2>2, <2>3, <2>4, StepKinds DEF vars, Handle, Insert, Schedule
<1>3. ASSUME NEW m \in 1..5, NEW n \in 1..5, m <= n, Beans[BootOrder[m]] = 2
      PROVE  ~ sink'[BootOrder[n]]
  <2>1. ~ sink[BootOrder[n]] /\ BootOrder[n] \in Kinds /\ BootOrder[m] \in Kinds
    BY <1>3, BootOrderLemma DEF BootInv
  <2>2. ASSUME NEW w \in Workers, Drives(w)
        PROVE  ~ sink'[BootOrder[n]]
    <3>1. CASE BootField(w)
      <4> DEFINE t == worker[w]
      <4>1. t.step \in 1..5
        BY <1>0, <3>1, BusyLemma, TaskLemma DEF BootField
      <4>2. \/ sink' = sink
            \/ /\ ~ Ambiguous(BootOrder[t.step])
               /\ sink' = [sink EXCEPT ![BootOrder[t.step]] = (Beans[BootOrder[t.step]] = 1)]
        BY <3>1 DEF BootField
      <4>3. CASE sink' # sink /\ t.step = n
        <5>1. m # n
          BY <1>1, <1>3, <2>1, <4>2, <4>3
        <5>2. m < t.step
          BY <1>3, <4>3, <5>1
        <5> QED BY <1>3, <3>1, <5>2 DEF BootField, BootInv
      <4>4. CASE t.step # n
        BY <1>0, <2>1, <4>1, <4>2, <4>4, BootOrderLemma DEF TypeOK
      <4> QED BY <2>1, <4>3, <4>4
    <3>2. CASE ~ BootField(w)
      BY <2>1, <2>2, <3>2 DEF Drives, Check, BootFlag, Find, SkipBlock, Deliver, Save, Delete, Fail,
                             volatile
    <3> QED BY <3>1, <3>2
  <2>3. CASE Crash
    BY <2>1, <2>3 DEF Crash
  <2> QED BY <2>1, <2>2, <2>3, StepKinds
          DEF vars, volatile, Handle, Insert, Schedule, Begin, Redispatch
<1> QED BY <1>2, <1>3 DEF BootInv

(* An effect leaves only through a field that is set.                      *)
LEMMA SilenceStep ==
  ASSUME IInv, BootInv, AmbiguousBeanSilencesLaterOnes, [Next]_vars
  PROVE  AmbiguousBeanSilencesLaterOnes'
<1> SUFFICES ASSUME NEW m \in 1..5, NEW n \in 1..5, m <= n, Beans[BootOrder[m]] = 2,
                    NEW j \in Jobs, NEW s \in Slots, s[1] = BootOrder[n]
             PROVE  delivered'[j][s] = 0
  BY DEF AmbiguousBeanSilencesLaterOnes
<1>0. TypeOK
  BY DEF IInv
<1>1. delivered[j][s] = 0 /\ ~ sink[BootOrder[n]]
  BY DEF AmbiguousBeanSilencesLaterOnes, BootInv
<1>2. ASSUME NEW w \in Workers, Drives(w)
      PROVE  delivered'[j][s] = delivered[j][s]
  <2>1. \/ delivered'[j][s] = delivered[j][s]
        \/ Deliver(w) /\ s = <<worker[w].step, worker[w].item>>
    BY <1>0, <1>2, DeliverCounts
  <2>2. Deliver(w) => sink[worker[w].step]
    BY DEF Deliver, Runs
  <2> QED BY <1>1, <2>1, <2>2
<1>3. delivered' = delivered \/ \E w \in Workers : Drives(w)
  BY StepKinds DEF vars, history, Handle, Insert, Schedule, Begin, Redispatch, Crash
<1> QED BY <1>1, <1>2, <1>3

(* A worker gets past the flag only where it is up.                        *)
LEMMA PastFlagStep ==
  ASSUME IInv, NEW w \in Workers, Drives(w), PastFlag(worker'[w])
  PROVE  PastFlag(worker[w]) \/ initialized'
<1> DEFINE t == worker[w]
<1>1. \A u : Become(w, u) => worker'[w] = u
  BY DEF IInv, TypeOK, Become
<1>2. CASE Check(w)
  <2>1. CASE initialized
    BY <1>2, <2>1 DEF Check, volatile
  <2>2. CASE Become(w, Before("boot", t.job, 0))
    <3>1. worker'[w].pc = "boot" /\ worker'[w].step = 0
      BY <1>1, <2>2, WorkParts
    <3> QED BY <3>1 DEF PastFlag, Loaded
  <2> QED BY <1>2, <2>1, <2>2 DEF Check
<1>3. CASE BootFlag(w)
  BY <1>3 DEF BootFlag
<1>4. CASE ~ Check(w) /\ ~ BootFlag(w)
  BY <1>4 DEF Drives, BootField, Find, SkipBlock, Deliver, Save, Delete, Fail, PastFlag, Loaded
<1> QED BY <1>2, <1>3, <1>4

(* A field that bootstrap() assigns is set or somebody else's still.       *)
LEMMA FieldStep ==
  ASSUME IInv, FieldsInv, NEW w \in Workers, BootField(w), NEW n \in 1..5,
         Beans[BootOrder[n]] = 1, ~ LookupThrows(n)
  PROVE  sink'[BootOrder[n]] \/ LookupPending(n)'
<1> DEFINE t == worker[w]
<1>0. TypeOK
  BY DEF IInv
<1>1. t.step \in 1..5 /\ t.pc = "boot" /\ BootOrder[n] \in Kinds
  BY <1>0, BusyLemma, TaskLemma, BootOrderLemma DEF BootField
<1>2. PICK u : Continues(w, u)
  BY DrivesContinue DEF Drives
<1>3. \A v \in Workers : worker'[v] = IF v = w THEN u ELSE worker[v]
  BY <1>0, <1>2, ContinuesJobs
<1>4. \/ Ambiguous(BootOrder[t.step]) /\ sink' = sink
      \/ /\ sink' = [sink EXCEPT ![BootOrder[t.step]] = (Beans[BootOrder[t.step]] = 1)]
         /\ \/ t.step < 5 /\ Become(w, Before("boot", t.job, t.step + 1))
            \/ t.step = 5
  BY DEF BootField
<1>5. sink[BootOrder[n]] => sink'[BootOrder[n]]
  BY <1>0, <1>1, <1>4 DEF TypeOK
<1>6. t.step = n => sink'[BootOrder[n]]
  <2>1. ~ Ambiguous(BootOrder[n])
    BY DEF Ambiguous
  <2> QED BY <1>0, <1>1, <1>4, <2>1 DEF TypeOK
<1>7. initialized
  BY <1>1 DEF FieldsInv, PastFlag
<1>8. CASE ~ sink[BootOrder[n]]
  <2>1. PICK v \in Workers : worker[v].pc = "boot" /\ worker[v].step \in 1..n
    BY <1>7, <1>8 DEF FieldsInv, LookupPending
  <2>2. CASE v # w
    BY <1>3, <2>1, <2>2 DEF LookupPending
  <2>3. CASE v = w /\ t.step < n
    <3>1. ~ Ambiguous(BootOrder[t.step])
      <4>1. Beans[BootOrder[t.step]] # 2
        BY <1>1, <2>3 DEF LookupThrows
      <4>2. BootOrder[t.step] \in Kinds
        BY <1>1, BootOrderLemma
      <4> QED BY <4>1, <4>2, ConstantsAssumption DEF Ambiguous
    <3>2. Become(w, Before("boot", t.job, t.step + 1))
      BY <1>1, <1>4, <2>3, <3>1
    <3>3. worker'[w].pc = "boot" /\ worker'[w].step = t.step + 1
      <4>1. worker'[w] = Before("boot", t.job, t.step + 1)
        BY <1>0, <3>2 DEF Become, TypeOK
      <4> QED BY <4>1, WorkParts
    <3>4. worker'[w].step \in 1..n
      BY <1>1, <2>3, <3>3
    <3> QED BY <3>3, <3>4 DEF LookupPending
  <2>4. CASE v = w /\ t.step = n
    BY <1>6, <2>4
  <2> QED BY <2>1, <2>2, <2>3, <2>4
<1> QED BY <1>5, <1>8

LEMMA FieldsStep ==
  ASSUME IInv, FieldsInv, [Next]_vars
  PROVE  FieldsInv'
<1>0. TypeOK
  BY DEF IInv
<1>1. initialized /\ ~ Crash => initialized'
  BY StepKinds DEF vars, volatile, Handle, Insert, Schedule, Begin, Redispatch, Drives,
       Check, BootFlag, BootField, Find, SkipBlock, Deliver, Save, Delete, Fail
<1>2. ASSUME NEW w \in Workers, Begin(w) \/ Redispatch(w)
      PROVE  /\ worker[w] = Idle /\ worker'[w].pc = "check"
             /\ \A v \in Workers : v # w => worker'[v] = worker[v]
  <2>1. PICK j \in Jobs : TakeUp(w, j)
    BY <1>0, <1>2 DEF Begin, Redispatch, TypeOK
  <2> QED BY <1>0, <2>1, TakeUpJobs, WorkParts
<1>3. ASSUME NEW v \in Workers, PastFlag(worker'[v])
      PROVE  initialized'
  <2>1. CASE worker'[v] = worker[v] /\ ~ Crash
    BY <1>1, <1>3, <2>1 DEF FieldsInv
  <2>2. ASSUME NEW w \in Workers, Begin(w) \/ Redispatch(w)
        PROVE  worker'[v] = worker[v]
    BY <1>2, <1>3, <2>2 DEF PastFlag, Loaded
  <2>3. ASSUME NEW w \in Workers, Drives(w)
        PROVE  worker'[v] = worker[v] \/ initialized' \/ PastFlag(worker[v])
    <3>1. PICK u : Continues(w, u)
      BY <2>3, DrivesContinue
    <3>2. v # w => worker'[v] = worker[v]
      BY <1>0, <3>1, ContinuesJobs
    <3> QED BY <1>3, <2>3, <3>2, PastFlagStep
  <2>4. ~ Crash
    BY <1>3, IdleLemma DEF Crash, PastFlag, Loaded
  <2> QED BY <1>1, <2>1, <2>2, <2>3, <2>4, StepKinds DEF vars, Handle, Insert, Schedule, FieldsInv
<1>4. ASSUME NEW n \in 1..5, initialized', Beans[BootOrder[n]] = 1, ~ LookupThrows(n)
      PROVE  sink'[BootOrder[n]] \/ LookupPending(n)'
  <2>1. initialized => sink[BootOrder[n]] \/ LookupPending(n)
    BY <1>4 DEF FieldsInv
  <2>2. ~ Crash
    BY <1>4 DEF Crash
  <2>3. ASSUME NEW w \in Workers, Begin(w) \/ Redispatch(w)
        PROVE  sink' = sink /\ initialized' = initialized /\ (LookupPending(n) => LookupPending(n)')
    <3>1. worker[w].pc # "boot" /\ \A v \in Workers : v # w => worker'[v] = worker[v]
      BY <1>2, <2>3, IdleLemma
    <3> QED BY <2>3, <3>1 DEF Begin, Redispatch, volatile, LookupPending
  <2>4. ASSUME NEW w \in Workers, Drives(w)
        PROVE  sink'[BootOrder[n]] \/ LookupPending(n)'
    <3>1. CASE BootFlag(w)
      <4>1. worker'[w] = Before("boot", worker[w].job, 1)
        BY <1>0, <3>1 DEF BootFlag, Become, TypeOK
      <4>2. worker'[w].pc = "boot" /\ worker'[w].step \in 1..n
        BY <4>1, WorkParts
      <4> QED BY <4>2 DEF LookupPending
    <3>2. CASE BootField(w)
      BY <1>4, <3>2, FieldStep
    <3>3. CASE ~ BootFlag(w) /\ ~ BootField(w)
      <4>1. worker[w].pc # "boot" /\ sink' = sink /\ initialized' = initialized
        BY <2>4, <3>3 DEF Drives, Check, Find, SkipBlock, Deliver, Save, Delete, Fail, volatile
      <4>2. PICK u : Continues(w, u)
        BY <2>4, DrivesContinue
      <4>3. \A v \in Workers : v # w => worker'[v] = worker[v]
        BY <1>0, <4>2, ContinuesJobs
      <4>4. LookupPending(n) => LookupPending(n)'
        BY <4>1, <4>3 DEF LookupPending
      <4> QED BY <1>4, <2>1, <4>1, <4>4
    <3> QED BY <3>1, <3>2, <3>3
  <2>5. ASSUME sink' = sink, initialized' = initialized, LookupPending(n) => LookupPending(n)'
        PROVE  sink'[BootOrder[n]] \/ LookupPending(n)'
    BY <1>4, <2>1, <2>5
  <2>6. CASE UNCHANGED vars \/ \E j \in Jobs : Handle(j) \/ Insert(j) \/ Schedule(j)
    <3>1. sink' = sink /\ initialized' = initialized /\ worker' = worker
      BY <2>6 DEF vars, volatile, Handle, Insert, Schedule
    <3> QED BY <2>5, <3>1 DEF LookupPending
  <2> QED BY <2>2, <2>3, <2>4, <2>5, <2>6, StepKinds
<1>5. \A n \in 1..5 : LookupThrows(n)' <=> LookupThrows(n)
  BY DEF LookupThrows
<1> QED BY <1>3, <1>4, <1>5 DEF FieldsInv

(* A block is passed over because its field is null, by a worker that is   *)
(* past the flag.                                                          *)
LEMMA SkipStep ==
  ASSUME IInv, FieldsInv, [Next]_vars, NEW j \in Jobs, NEW k \in skipped'[j], k \notin skipped[j]
  PROVE  initialized /\ ~ sink[k]
<1>0. TypeOK
  BY DEF IInv
<1>1. PICK w \in Workers : SkipBlock(w)
  <2>1. skipped' = skipped \/ \E w \in Workers : SkipBlock(w)
    BY StepKinds DEF vars, history, Handle, Insert, Schedule, Begin, Redispatch, Crash, Drives,
         Check, BootFlag, BootField, Find, Deliver, Save, Delete, Fail
  <2> QED BY <2>1
<1> DEFINE t == worker[w]
<1>2. skipped' = [skipped EXCEPT ![t.job] = @ \cup ({t.step} \cap t.mem)]
  BY <1>1 DEF SkipBlock
<1>3. k = t.step /\ t.step \in t.mem
  BY <1>0, <1>2 DEF TypeOK
<1>4. initialized
  BY <1>1 DEF SkipBlock, FieldsInv, PastFlag, Loaded
<1> QED BY <1>1, <1>3, <1>4 DEF SkipBlock, Runs

-----------------------------------------------------------------------------
(* The invariant and what it gives.                                        *)

LEMMA DInit == Init => DInv
<1> SUFFICES ASSUME Init PROVE DInv
  OBVIOUS
<1>0. IInv
  BY InvInit
<1>1. /\ \A w \in Workers : worker[w] = Idle
      /\ \A j \in Jobs : row[j] = "none" /\ drives[j] = 0 /\ \A s \in Slots : delivered[j][s] = 0
      /\ queue = {} /\ \A k \in Kinds : ~ sink[k]
  BY DEF Init
<1>2. \A j \in Jobs : ~ Driven(j) /\ \A w \in Workers : worker[w].job # j
  BY <1>1, IdleLemma DEF Driven
<1>3. NotScheduledInv /\ OneDriver /\ FreshCopyInv
  BY <1>1, <1>2, IdleLemma DEF NotScheduledInv, OneDriver, FreshCopyInv, Loaded
<1>4. DriveInv
  <2> SUFFICES ASSUME NEW j \in Jobs, NEW s \in Slots
               PROVE  /\ IsFiniteSet(Coming(j, s))
                      /\ delivered[j][s] + Cardinality(Coming(j, s)) <= drives[j]
    BY DEF DriveInv
  <2>1. Coming(j, s) = {}
    BY <1>2 DEF Coming
  <2>2. IsFiniteSet(Coming(j, s)) /\ Cardinality(Coming(j, s)) = 0
    BY <2>1, FS_EmptySet
  <2>3. delivered[j][s] = 0 /\ drives[j] = 0
    BY <1>1
  <2> QED BY <2>2, <2>3
<1>5. FailInv /\ OrphansNeedAFault
  BY <1>1, IdleLemma DEF FailInv, OrphansNeedAFault
<1>6. BootInv /\ AmbiguousBeanSilencesLaterOnes
  BY <1>1, IdleLemma, BootOrderLemma DEF BootInv, AmbiguousBeanSilencesLaterOnes
<1>7. FieldsInv
  BY <1>1, IdleLemma DEF FieldsInv, PastFlag, Loaded, Init
<1> QED BY <1>0, <1>3, <1>4, <1>5, <1>6, <1>7 DEF DInv

LEMMA DNext == DInv /\ [Next]_vars => DInv'
<1> SUFFICES ASSUME DInv, [Next]_vars PROVE DInv'
  OBVIOUS
<1>1. IInv'
  BY InvNext DEF DInv
<1>2. NotScheduledInv' /\ OneDriver'
  BY OneDriverStep DEF DInv
<1>3. FreshCopyInv'
  BY FreshCopyStep DEF DInv
<1>4. DriveInv'
  BY DriveStep DEF DInv
<1>5. FailInv' /\ OrphansNeedAFault'
  BY FailStep, OrphansStep DEF DInv
<1>6. BootInv' /\ AmbiguousBeanSilencesLaterOnes'
  BY BootStep, SilenceStep DEF DInv
<1>7. FieldsInv'
  BY FieldsStep DEF DInv
<1> QED BY <1>1, <1>2, <1>3, <1>4, <1>5, <1>6, <1>7 DEF DInv

(* DInv holds in every reachable state of the system: after any failures,  *)
(* crashes and extra dispatches of SideEffectProcessor.                    *)
THEOREM DriversInvariant == Spec => []DInv
  BY DInit, DNext, PTL DEF Spec

(* As long as nobody dispatches ProcessSideEffect again, a job is queued   *)
(* or driven by one worker: the scheduler's task is the only way to a row. *)
THEOREM JobsHaveOneDriver == Spec => []OneDriver
<1>1. DInv => OneDriver
  BY DEF DInv
<1> QED BY <1>1, DriversInvariant, PTL

(* An effect reaches its sink at most once per drive of SideEffectProcessor *)
(* over its job, whatever fails and whoever else works on the row.         *)
THEOREM DeliveredOncePerDrive == Spec => []OncePerDrive
<1>1. DInv => OncePerDrive
  <2> SUFFICES ASSUME DInv, NEW j \in Jobs, NEW s \in Slots
               PROVE  delivered[j][s] <= drives[j]
    BY DEF OncePerDrive
  <2>1. delivered[j][s] \in Nat /\ drives[j] \in Nat
    BY DEF DInv, IInv, TypeOK
  <2>2. IsFiniteSet(Coming(j, s)) /\ delivered[j][s] + Cardinality(Coming(j, s)) <= drives[j]
    BY DEF DInv, DriveInv
  <2>3. Cardinality(Coming(j, s)) \in Nat
    BY <2>2, FS_CardinalityType
  <2> QED BY <2>1, <2>2, <2>3
<1> QED BY <1>1, DriversInvariant, PTL

(* A stored job that nobody will look at again was left behind by a failed *)
(* call, a crash or a bootstrap() that threw.                              *)
THEOREM OrphansHaveACause == Spec => []OrphansNeedAFault
<1>1. DInv => OrphansNeedAFault
  BY DEF DInv
<1> QED BY <1>1, DriversInvariant, PTL

(* A collaborator with two beans keeps every collaborator that bootstrap() *)
(* looks up after it from ever being called.                               *)
THEOREM AmbiguousBeansSilence == Spec => []AmbiguousBeanSilencesLaterOnes
<1>1. DInv => AmbiguousBeanSilencesLaterOnes
  BY DEF DInv
<1> QED BY <1>1, DriversInvariant, PTL

(* No UPDATE brings a deleted row of f_pending_jobs back, and those of a   *)
(* job's only driver shrink its data and raise its errorsCount.            *)
THEOREM RowsProgress == Spec => RowsOnlyProgress
<1>1. DInv /\ [Next]_vars =>
        \A j \in Jobs :
          /\ row[j] = "deleted" => row'[j] = "deleted"
          /\ row[j] = "present" /\ redispatches' = 0
               => /\ rowData'[j] \subseteq rowData[j]
                  /\ row'[j] = "present" => rowErrors'[j] >= rowErrors[j]
  BY RowsStep DEF DInv
<1> QED BY <1>1, DriversInvariant, PTL DEF Spec, RowsOnlyProgress

(* bootstrap() leaves no registered collaborator unset behind it: a block  *)
(* of handle() that has one is passed over only while another thread is in *)
(* front of its assignment, or because an earlier lookup throws.           *)
THEOREM DiscardsHaveACause == Spec => DiscardsNeedTheRace
<1>1. DInv /\ [Next]_vars =>
        \A j \in Jobs : \A n \in 1..5 :
          (BootOrder[n] \in skipped'[j] \ skipped[j] /\ Beans[BootOrder[n]] = 1)
              => LookupPending(n) \/ LookupThrows(n)
  <2> SUFFICES ASSUME DInv, [Next]_vars, NEW j \in Jobs, NEW n \in 1..5,
                      BootOrder[n] \in skipped'[j], BootOrder[n] \notin skipped[j],
                      Beans[BootOrder[n]] = 1
               PROVE  LookupPending(n) \/ LookupThrows(n)
    OBVIOUS
  <2>1. IInv /\ FieldsInv
    BY DEF DInv
  <2>2. initialized /\ ~ sink[BootOrder[n]]
    BY <2>1, SkipStep
  <2> QED BY <2>1, <2>2 DEF FieldsInv
<1> QED BY <1>1, DriversInvariant, PTL DEF Spec, DiscardsNeedTheRace
=============================================================================
