------------------------- MODULE SideEffectsProofs -------------------------
(***************************************************************************)
(* Proofs about SideEffects, for any number of jobs, workers, effects,     *)
(* failures, crashes and second dispatches.                                *)
(***************************************************************************)
EXTENDS SideEffectsInvariant, SideEffectsOutbox, TLAPS

-----------------------------------------------------------------------------
(* Type correctness.                                                       *)

(* A slot is a kind and an index of one of its effects (get<Kind>()).      *)
LEMMA SlotsLemma ==
    /\ \A k \in Kinds : \A i \in 1..Items[k] : <<k, i>> \in Slots
    /\ \A s \in Slots : s[1] \in Kinds /\ s[2] \in 1..Items[s[1]] /\ s = <<s[1], s[2]>>
  BY ConstantsAssumption DEF Slots

(* A worker is idle or works on a job, at one of the places of ActivePCs.  *)
LEMMA TaskLemma ==
    /\ Idle.pc = "idle" /\ Idle.job = NoJob
    /\ \A t \in ActiveTask :
        /\ t.pc \in ActivePCs /\ t.pc # "idle" /\ t.job \in Jobs /\ t.mem \in SUBSET Kinds
        /\ t.errors \in Nat /\ t.step \in 0..5 /\ t.item \in Nat \ {0}
    /\ \A t \in Tasks : t.pc # "idle" => t \in ActiveTask
  BY DEF Tasks, Idle, Before, Work, ActiveTask, ActivePCs

(* What Work builds is a task.                                             *)
LEMMA WorkLemma ==
  ASSUME NEW pc \in ActivePCs, NEW j \in Jobs, NEW m \in SUBSET Kinds,
         NEW e \in Nat, NEW s \in 0..5, NEW n \in Nat \ {0}
  PROVE  Work(pc, j, m, e, s, n) \in ActiveTask
  BY DEF Work, ActiveTask

(* So is what the moves inside and between the blocks lead to.             *)
LEMMA AfterLemma ==
  ASSUME NEW t \in ActiveTask, NEW m \in SUBSET Kinds
  PROVE  /\ AfterBlock(t, m) \in ActiveTask
         /\ AfterItem(t) \in ActiveTask
         /\ At("fail", t, m, t.step, t.item) \in ActiveTask
         /\ Left(t) \in SUBSET Kinds
<1>0. /\ t.job \in Jobs /\ t.errors \in Nat /\ t.mem \in SUBSET Kinds
      /\ t.step \in 0..5 /\ t.item \in Nat \ {0}
      /\ \A p \in {"block", "save", "delete", "fail"} : p \in ActivePCs
  BY TaskLemma DEF ActivePCs
<1>1. \A p \in {"block", "save", "delete", "fail"} : \A mm \in SUBSET Kinds :
        \A s \in 0..5 : \A n \in Nat \ {0} : At(p, t, mm, s, n) \in ActiveTask
  BY <1>0, WorkLemma DEF At
<1>2. AfterBlock(t, m) \in ActiveTask
  <2>1. CASE t.step < 5
    <3>1. t.step + 1 \in 0..5
      BY <1>0, <2>1
    <3>2. At("block", t, m, t.step + 1, 1) \in ActiveTask
      BY <1>0, <3>1 DEF At, Work, ActiveTask, ActivePCs
    <3> QED BY <2>1, <3>2 DEF AfterBlock
  <2>2. CASE ~ (t.step < 5)
    <3>1. At("delete", t, m, 5, 1) \in ActiveTask
      BY <1>1
    <3> QED BY <2>2, <3>1 DEF AfterBlock
  <2> QED BY <2>1, <2>2
<1>3. AfterItem(t) \in ActiveTask
  <2>1. t.item + 1 \in Nat \ {0}
    BY <1>0
  <2>2. /\ At("block", t, t.mem, t.step, t.item + 1) \in ActiveTask
        /\ At("save", t, t.mem, t.step, t.item) \in ActiveTask
    BY <1>0, <1>1, <2>1
  <2> QED BY <2>2 DEF AfterItem
<1>4. Left(t) \in SUBSET Kinds
  BY <1>0 DEF Left
<1> QED BY <1>0, <1>1, <1>2, <1>3, <1>4

(* Initially the state is well typed.                                      *)
LEMMA TypeInit == Init => TypeOK
<1> SUFFICES ASSUME Init PROVE TypeOK
  OBVIOUS
<1>1. /\ request \in [Jobs -> {"idle", "handled", "stored", "answered", "failed"}]
      /\ row \in [Jobs -> {"none", "present", "deleted"}]
  BY DEF Init
<1>2. /\ wanted \in [Jobs -> SUBSET Kinds] /\ rowData \in [Jobs -> SUBSET Kinds]
      /\ skipped \in [Jobs -> SUBSET Kinds]
  BY DEF Init
<1>3. /\ rowErrors \in [Jobs -> Nat] /\ drives \in [Jobs -> Nat]
      /\ failures \in Nat /\ crashes \in Nat /\ redispatches \in Nat
  BY DEF Init
<1>4. delivered \in [Jobs -> [Slots -> Nat]]
  BY DEF Init
<1>5. worker \in [Workers -> Tasks] /\ queue \subseteq Jobs
  BY DEF Init, Tasks
<1>6. initialized \in BOOLEAN /\ sink \in [Kinds -> BOOLEAN]
  BY DEF Init
<1> QED BY <1>1, <1>2, <1>3, <1>4, <1>5, <1>6 DEF TypeOK

(* Whether or not a call fails, the number of failures is one.             *)
LEMMA FailureLemma ==
  ASSUME TypeOK, CallFails \/ UNCHANGED failures
  PROVE  failures' \in Nat
  BY DEF TypeOK, CallFails

(* A request thread's step keeps the state well typed.                     *)
LEMMA TypeRequest ==
  ASSUME TypeOK, NEW j \in Jobs, Handle(j) \/ RequestStep(j)
  PROVE  TypeOK'
<1>1. CASE Handle(j)
  <2>1. wanted' \in [Jobs -> SUBSET Kinds]
    BY <1>1, ConstantsAssumption DEF TypeOK, Handle
  <2>2. request' \in [Jobs -> {"idle", "handled", "stored", "answered", "failed"}]
    BY <1>1 DEF TypeOK, Handle
  <2> QED BY <1>1, <2>1, <2>2 DEF TypeOK, Handle, durable, volatile, history, bounds
<1>2. CASE Insert(j)
  <2>1. request' \in [Jobs -> {"idle", "handled", "stored", "answered", "failed"}]
    BY <1>2 DEF TypeOK, Insert
  <2>4. failures' \in Nat
    BY <1>2, FailureLemma DEF Insert
  <2>2. /\ row' \in [Jobs -> {"none", "present", "deleted"}]
        /\ rowData' \in [Jobs -> SUBSET Kinds] /\ rowErrors' \in [Jobs -> Nat]
    BY <1>2 DEF TypeOK, Insert, durable
  <2>3. UNCHANGED <<wanted, volatile, worker, history, crashes, redispatches>>
    BY <1>2 DEF Insert
  <2> QED BY <2>1, <2>2, <2>3, <2>4 DEF TypeOK, volatile, history
<1>3. CASE Schedule(j)
  <2>1. /\ request' \in [Jobs -> {"idle", "handled", "stored", "answered", "failed"}]
        /\ queue' \subseteq Jobs
    BY <1>3 DEF TypeOK, Schedule
  <2> QED BY <1>3, <2>1 DEF TypeOK, Schedule, durable, history, bounds
<1> QED BY <1>1, <1>2, <1>3 DEF RequestStep

(* A worker's record is replaced by a task.                                *)
LEMMA BecomeLemma ==
  ASSUME TypeOK, NEW w \in Workers, NEW t \in Tasks, Become(w, t)
  PROVE  /\ worker' \in [Workers -> Tasks]
         /\ \A v \in Workers : worker'[v] = IF v = w THEN t ELSE worker[v]
  BY DEF TypeOK, Become

(* A worker that is not idle has a job.                                    *)
LEMMA BusyLemma ==
  ASSUME TypeOK, NEW w \in Workers, worker[w].pc # "idle"
  PROVE  worker[w] \in ActiveTask
  BY TaskLemma DEF TypeOK

(* Taking a job up, from the queue or by a second dispatch.                *)
LEMMA TypeTakeUp ==
  ASSUME TypeOK, NEW w \in Workers, Begin(w) \/ Redispatch(w)
  PROVE  TypeOK'
<1>1. PICK j \in Jobs : TakeUp(w, j)
  BY DEF TypeOK, Begin, Redispatch
<1>2. worker' \in [Workers -> Tasks]
  <2>1. Before("check", j, 0) \in Tasks
    BY DEF Before, Work, ActiveTask, Tasks, ActivePCs
  <2> QED BY <1>1, <2>1, BecomeLemma DEF TakeUp
<1>3. drives' \in [Jobs -> Nat]
  BY <1>1 DEF TypeOK, TakeUp
<1>4. CASE Begin(w)
  BY <1>4, <1>2, <1>3 DEF TypeOK, Begin, durable, bounds
<1>5. CASE Redispatch(w)
  BY <1>5, <1>2, <1>3 DEF TypeOK, Redispatch, durable, volatile
<1> QED BY <1>4, <1>5

(* Bootstrapping.                                                          *)
LEMMA TypeBoot ==
  ASSUME TypeOK, NEW w \in Workers, Check(w) \/ BootFlag(w) \/ BootField(w)
  PROVE  TypeOK'
<1> DEFINE t == worker[w]
<1>0. t \in ActiveTask /\ t.job \in Jobs /\ t.step \in 0..5
  BY BusyLemma, TaskLemma DEF Check, BootFlag, BootField
<1>1. \A p \in {"boot", "find"} : \A n \in 0..5 : Before(p, t.job, n) \in Tasks
  BY <1>0 DEF Before, Work, ActiveTask, Tasks, ActivePCs
<1>2. CASE Check(w)
  <2>1. worker' \in [Workers -> Tasks]
    BY <1>1, <1>2, BecomeLemma DEF Check
  <2>2. UNCHANGED <<request, wanted, durable, volatile, history, bounds>>
    BY <1>2 DEF Check
  <2> QED BY <2>1, <2>2 DEF TypeOK, durable, volatile, history, bounds
<1>3. CASE BootFlag(w)
  <2>1. worker' \in [Workers -> Tasks]
    BY <1>1, <1>3, BecomeLemma DEF BootFlag
  <2>2. initialized' = TRUE /\ UNCHANGED <<request, wanted, durable, queue, sink, history, bounds>>
    BY <1>3 DEF BootFlag
  <2> QED BY <2>1, <2>2 DEF TypeOK, durable, history, bounds
<1>4. CASE BootField(w)
  <2>1. worker' \in [Workers -> Tasks]
    <3>1. \/ Become(w, Idle)
          \/ t.step + 1 \in 0..5 /\ Become(w, Before("boot", t.job, t.step + 1))
          \/ Become(w, Before("find", t.job, 0))
      BY <1>0, <1>4 DEF BootField
    <3>2. Idle \in Tasks
      BY DEF Tasks
    <3> QED BY <1>1, <3>1, <3>2, BecomeLemma
  <2>2. sink' \in [Kinds -> BOOLEAN]
    <3>1. CASE sink' = sink
      BY <3>1 DEF TypeOK
    <3>2. CASE sink' = [sink EXCEPT ![BootOrder[t.step]] = (Beans[BootOrder[t.step]] = 1)]
      <4> DEFINE b == Beans[BootOrder[t.step]] = 1
      <4>1. b \in BOOLEAN
        OBVIOUS
      <4>2. sink' = [sink EXCEPT ![BootOrder[t.step]] = b]
        BY <3>2
      <4> HIDE DEF b
      <4> QED BY <4>1, <4>2 DEF TypeOK
    <3> QED BY <1>4, <3>1, <3>2 DEF BootField
  <2>3. UNCHANGED <<request, wanted, durable, queue, initialized, history, bounds>>
    BY <1>4 DEF BootField
  <2> QED BY <2>1, <2>2, <2>3 DEF TypeOK, durable, history, bounds
<1> QED BY <1>2, <1>3, <1>4

(* Loading the row.                                                        *)
LEMMA TypeFind ==
  ASSUME TypeOK, NEW w \in Workers, Find(w)
  PROVE  TypeOK'
<1> DEFINE t == worker[w]
<1>0. t \in ActiveTask /\ t.job \in Jobs
  BY BusyLemma, TaskLemma DEF Find
<1>1. Work("block", t.job, rowData[t.job], rowErrors[t.job], 1, 1) \in Tasks
  <2>1. rowData[t.job] \in SUBSET Kinds /\ rowErrors[t.job] \in Nat
    BY <1>0 DEF TypeOK
  <2> QED BY <1>0, <2>1 DEF Work, ActiveTask, Tasks, ActivePCs
<1>2. worker' \in [Workers -> Tasks]
  <2>1. Idle \in Tasks
    BY DEF Tasks
  <2> QED BY <1>1, <2>1, BecomeLemma DEF Find
<1>3. failures' \in Nat
  BY FailureLemma DEF Find
<1>4. UNCHANGED <<request, wanted, durable, volatile, history, crashes, redispatches>>
  BY DEF Find
<1> QED BY <1>2, <1>3, <1>4 DEF TypeOK, durable, volatile, history

(* Passing over a block, or delivering one of its effects.                 *)
LEMMA TypeBlock ==
  ASSUME TypeOK, NEW w \in Workers, SkipBlock(w) \/ Deliver(w)
  PROVE  TypeOK'
<1> DEFINE t == worker[w]
<1>0. t \in ActiveTask /\ t.job \in Jobs /\ t.mem \in SUBSET Kinds
  BY BusyLemma, TaskLemma DEF SkipBlock, Deliver
<1>1. CASE SkipBlock(w)
  <2>1. worker' \in [Workers -> Tasks]
    BY <1>0, <1>1, AfterLemma, BecomeLemma DEF SkipBlock, Tasks
  <2>2. skipped' \in [Jobs -> SUBSET Kinds]
    BY <1>0, <1>1 DEF TypeOK, SkipBlock
  <2>3. UNCHANGED <<request, wanted, durable, volatile, delivered, drives, bounds>>
    BY <1>1 DEF SkipBlock
  <2> QED BY <2>1, <2>2, <2>3 DEF TypeOK, durable, volatile, bounds
<1>2. CASE Deliver(w)
  <2>1. worker' \in [Workers -> Tasks]
    <3>1. AfterItem(t) \in Tasks /\ At("fail", t, t.mem, t.step, t.item) \in Tasks
      BY <1>0, AfterLemma DEF Tasks
    <3> QED BY <1>2, <3>1, BecomeLemma DEF Deliver
  <2>2. delivered' \in [Jobs -> [Slots -> Nat]]
    <3>1. PICK n \in {0, 1} :
            delivered' = [delivered EXCEPT ![t.job][<<t.step, t.item>>] = @ + n]
      BY <1>2 DEF Deliver
    <3>2. ASSUME NEW f \in [Slots -> Nat], NEW x
          PROVE  [f EXCEPT ![x] = f[x] + n] \in [Slots -> Nat]
      <4>1. \A y \in Slots : [f EXCEPT ![x] = f[x] + n][y] \in Nat
        OBVIOUS
      <4> QED BY <4>1
    <3>3. [delivered[t.job] EXCEPT ![<<t.step, t.item>>] = @ + n] \in [Slots -> Nat]
      BY <1>0, <3>2 DEF TypeOK
    <3> QED BY <1>0, <3>1, <3>3 DEF TypeOK
  <2>3. failures' \in Nat
    BY <1>2, FailureLemma DEF Deliver
  <2>4. UNCHANGED <<request, wanted, durable, volatile, skipped, drives, crashes, redispatches>>
    BY <1>2 DEF Deliver
  <2> QED BY <2>1, <2>2, <2>3, <2>4 DEF TypeOK, durable, volatile
<1> QED BY <1>1, <1>2

(* The UPDATE leaves a typed table.                                        *)
LEMMA UpdateLemma ==
  ASSUME TypeOK, NEW j \in Jobs, NEW d \in SUBSET Kinds, NEW e \in Nat,
         UpdateRow(j, d, e) \/ UNCHANGED durable
  PROVE  /\ row' = row
         /\ rowData' \in [Jobs -> SUBSET Kinds]
         /\ rowErrors' \in [Jobs -> Nat]
         /\ \A i \in Jobs : \/ rowData'[i] = rowData[i]
                            \/ (i = j /\ row[j] = "present" /\ rowData'[i] = d)
<1>1. CASE UpdateRow(j, d, e) /\ row[j] = "present"
  <2>1. /\ rowData' = [rowData EXCEPT ![j] = d]
        /\ rowErrors' = [rowErrors EXCEPT ![j] = e]
        /\ row' = row
    BY <1>1 DEF UpdateRow
  <2>2. rowErrors' \in [Jobs -> Nat]
    BY <2>1 DEF TypeOK
  <2>3. rowData' \in [Jobs -> SUBSET Kinds]
    BY <2>1 DEF TypeOK
  <2>4. \A i \in Jobs : rowData'[i] = rowData[i] \/ (i = j /\ rowData'[i] = d)
    BY <2>1 DEF TypeOK
  <2> QED BY <1>1, <2>1, <2>2, <2>3, <2>4
<1>2. CASE UNCHANGED durable
  BY <1>2 DEF TypeOK, durable
<1> QED BY <1>1, <1>2 DEF UpdateRow, durable

(* Writing the progress, deleting the row, and the catch block.            *)
LEMMA TypeWrite ==
  ASSUME TypeOK, NEW w \in Workers, Save(w) \/ Delete(w) \/ Fail(w)
  PROVE  TypeOK'
<1> DEFINE t == worker[w]
<1>0. /\ t \in ActiveTask /\ t.job \in Jobs /\ t.mem \in SUBSET Kinds /\ t.errors \in Nat
      /\ Left(t) \in SUBSET Kinds /\ t.errors + 1 \in Nat
  <2>1. t.pc # "idle"
    BY DEF Save, Delete, Fail
  <2>2. t \in ActiveTask
    BY <2>1, BusyLemma
  <2>3. /\ t.job \in Jobs /\ t.mem \in SUBSET Kinds /\ t.errors \in Nat
        /\ t.errors + 1 \in Nat
    BY <2>2, TaskLemma
  <2>4. Left(t) \in SUBSET Kinds
    BY <2>2, <2>3, AfterLemma
  <2> QED BY <2>2, <2>3, <2>4
<1>1. worker' \in [Workers -> Tasks]
  <2>1. /\ Idle \in Tasks
        /\ AfterBlock(t, Left(t)) \in Tasks
        /\ At("fail", t, Left(t), t.step, t.item) \in Tasks
        /\ At("fail", t, t.mem, t.step, t.item) \in Tasks
    BY <1>0, AfterLemma DEF Tasks
  <2>2. \E u \in Tasks : Become(w, u)
    BY <2>1 DEF Save, Delete, Fail
  <2> QED BY <2>2, BecomeLemma
<1>2. /\ row' \in [Jobs -> {"none", "present", "deleted"}]
      /\ rowData' \in [Jobs -> SUBSET Kinds] /\ rowErrors' \in [Jobs -> Nat]
  <2>1. CASE Save(w)
    <3>1. UpdateRow(t.job, Left(t), t.errors) \/ UNCHANGED durable
      BY <2>1 DEF Save
    <3> QED BY <1>0, <3>1, UpdateLemma DEF TypeOK
  <2>2. CASE Delete(w)
    <3>1. CASE UNCHANGED durable
      BY <3>1 DEF TypeOK, durable
    <3>2. CASE /\ row' = [row EXCEPT ![t.job] = "deleted"]
               /\ rowData' = [rowData EXCEPT ![t.job] = {}]
               /\ rowErrors' = [rowErrors EXCEPT ![t.job] = 0]
      <4>1. row' \in [Jobs -> {"none", "present", "deleted"}]
        BY <3>2 DEF TypeOK
      <4>2. rowData' \in [Jobs -> SUBSET Kinds]
        BY <3>2 DEF TypeOK
      <4>3. rowErrors' \in [Jobs -> Nat]
        BY <3>2 DEF TypeOK
      <4> QED BY <4>1, <4>2, <4>3
    <3> QED BY <2>2, <3>1, <3>2 DEF Delete
  <2>3. CASE Fail(w)
    <3>1. UpdateRow(t.job, t.mem, t.errors + 1) \/ UNCHANGED durable
      BY <2>3 DEF Fail
    <3> QED BY <1>0, <3>1, UpdateLemma DEF TypeOK
  <2> QED BY <2>1, <2>2, <2>3
<1>3. failures' \in Nat
  BY FailureLemma DEF Save, Delete, Fail
<1>4. UNCHANGED <<request, wanted, volatile, history, crashes, redispatches>>
  BY DEF Save, Delete, Fail
<1> QED BY <1>1, <1>2, <1>3, <1>4 DEF TypeOK, volatile, history

(* A crash leaves a typed state.                                           *)
LEMMA TypeCrash == TypeOK /\ Crash => TypeOK'
<1> SUFFICES ASSUME TypeOK, Crash PROVE TypeOK'
  OBVIOUS
<1>1. /\ request' \in [Jobs -> {"idle", "handled", "stored", "answered", "failed"}]
      /\ queue' \subseteq Jobs /\ crashes' \in Nat
  BY DEF TypeOK, Crash
<1>2. worker' \in [Workers -> Tasks] /\ initialized' \in BOOLEAN
  BY DEF Crash, Tasks
<1>3. sink' \in [Kinds -> BOOLEAN]
  BY DEF Crash
<1>4. UNCHANGED <<wanted, durable, history, failures, redispatches>>
  BY DEF Crash
<1> QED BY <1>1, <1>2, <1>3, <1>4 DEF TypeOK, durable, history

(* Every step keeps the state well typed.                                  *)
LEMMA TypeNext == TypeOK /\ [Next]_vars => TypeOK'
<1> SUFFICES ASSUME TypeOK, [Next]_vars PROVE TypeOK'
  OBVIOUS
<1>1. ASSUME NEW j \in Jobs, Handle(j) \/ RequestStep(j) PROVE TypeOK'
  BY <1>1, TypeRequest
<1>2. ASSUME NEW w \in Workers, WorkerStep(w) \/ Redispatch(w) PROVE TypeOK'
  BY <1>2, TypeTakeUp, TypeBoot, TypeFind, TypeBlock, TypeWrite DEF WorkerStep
<1>3. CASE UNCHANGED vars
  BY <1>3 DEF TypeOK, vars, durable, volatile, history, bounds
<1> QED BY <1>1, <1>2, <1>3, TypeCrash DEF Next

(* The variables of the model keep their types.                            *)
THEOREM TypeCorrect == Spec => []TypeOK
  BY TypeInit, TypeNext, PTL DEF Spec

-----------------------------------------------------------------------------
(* The inductive invariant: nothing that a job, a row or a worker relies   *)
(* on is ever taken back.                                                  *)

(* A stored job stays stored and keeps its effects; what was delivered or  *)
(* passed over stays so.                                                   *)
Grows ==
    /\ \A j \in Jobs : row[j] # "none" => row'[j] # "none" /\ wanted'[j] = wanted[j]
    /\ \A j \in Jobs : skipped[j] \subseteq skipped'[j]
    /\ \A j \in Jobs : \A s \in Slots : delivered[j][s] > 0 => delivered'[j][s] > 0

(* A settled kind stays settled.                                           *)
LEMMA SettledGrows ==
  ASSUME Grows, NEW j \in Jobs, NEW k \in Kinds
  PROVE  /\ AllDelivered(j, k) => AllDelivered(j, k)'
         /\ Settled(j, k) => Settled(j, k)'
  BY SlotsLemma DEF Grows, AllDelivered, Settled

(* What holds of a worker's task goes on holding while others work.        *)
LEMMA TaskGrows ==
  ASSUME TypeOK, Grows, NEW t \in Tasks, TaskInv(t)
  PROVE  TaskInv(t)'
<1>1. CASE t.pc = "idle"
  BY <1>1 DEF TaskInv, CopyInv, BlockInv, DoneInv, Loaded
<1>2. CASE t.pc # "idle"
  <2>1. t.job \in Jobs /\ row[t.job] # "none"
    BY <1>2 DEF TaskInv
  <2>2. row'[t.job] # "none" /\ wanted'[t.job] = wanted[t.job] /\ wanted[t.job] \subseteq Kinds
    BY <2>1 DEF Grows, TypeOK
  <2>3. \A k \in wanted[t.job] : Settled(t.job, k) => Settled(t.job, k)'
    BY <2>1, <2>2, SettledGrows
  <2>4. \A k \in Kinds : AllDelivered(t.job, k) => AllDelivered(t.job, k)'
    BY <2>1, SettledGrows
  <2>5. CopyInv(t)'
    BY <2>2, <2>3 DEF TaskInv, CopyInv
  <2>6. BlockInv(t)'
    <3> SUFFICES ASSUME t.pc \in {"block", "save"}
                 PROVE  /\ t.step \in Kinds
                        /\ t.item \in 1..Items[t.step]
                        /\ \A k \in wanted[t.job] : k < t.step => Settled(t.job, k)'
                        /\ \A i \in 1..Items[t.step] :
                               i < t.item => delivered'[t.job][<<t.step, i>>] > 0
      BY <2>2 DEF BlockInv
    <3>1. BlockInv(t)
      BY DEF TaskInv
    <3>2. /\ t.step \in Kinds
          /\ t.item \in 1..Items[t.step]
          /\ \A k \in wanted[t.job] : k < t.step => Settled(t.job, k)
          /\ \A i \in 1..Items[t.step] :
                 i < t.item => delivered[t.job][<<t.step, i>>] > 0
      BY <3>1 DEF BlockInv
    <3>3. \A i \in 1..Items[t.step] : i < t.item => delivered'[t.job][<<t.step, i>>] > 0
      BY <2>1, <3>2, SlotsLemma DEF Grows
    <3>4. \A k \in wanted[t.job] : k < t.step => Settled(t.job, k)'
      BY <2>3, <3>2
    <3> QED BY <3>2, <3>3, <3>4
  <2>7. DoneInv(t)'
    <3>1. t.pc = "save" => t.step \in Kinds /\ AllDelivered(t.job, t.step)
      BY DEF TaskInv, BlockInv, DoneInv
    <3>2. t.pc = "delete" => \A k \in wanted[t.job] : Settled(t.job, k)
      BY DEF TaskInv, DoneInv
    <3>3. t.pc = "save" => AllDelivered(t.job, t.step)'
      BY <2>4, <3>1
    <3>4. t.pc = "delete" => \A k \in wanted'[t.job] : Settled(t.job, k)'
      BY <2>2, <2>3, <3>2
    <3> QED BY <3>3, <3>4 DEF DoneInv
  <2> QED BY <2>1, <2>2, <2>5, <2>6, <2>7 DEF TaskInv
<1> QED BY <1>1, <1>2

(* So the workers' invariant survives a step that gives one of them a task *)
(* of which it holds.                                                      *)
LEMMA WorkersGrow ==
  ASSUME TypeOK, WorkerInv, Grows,
         NEW w \in Workers, NEW t \in Tasks, Become(w, t), TaskInv(t)'
  PROVE  WorkerInv'
<1> SUFFICES ASSUME NEW v \in Workers PROVE TaskInv(worker[v])'
  BY DEF WorkerInv
<1>1. PICK u \in Tasks : worker[v] = u
  BY DEF TypeOK
<1>2. TaskInv(u)'
  <2>1. TaskInv(worker[v])
    BY DEF WorkerInv
  <2>2. TaskInv(u)
    BY <1>1, <2>1
  <2> QED BY <2>2, TaskGrows
<1>3. PICK x \in Tasks : worker'[v] = x /\ (x = t \/ x = u)
  BY <1>1, BecomeLemma
<1>4. TaskInv(x)'
  BY <1>2, <1>3
<1> QED BY <1>3, <1>4 DEF TaskInv, CopyInv, BlockInv, DoneInv, Settled, AllDelivered

(* The same when no worker changes.                                        *)
LEMMA WorkersKept ==
  ASSUME TypeOK, WorkerInv, Grows, UNCHANGED worker
  PROVE  WorkerInv'
<1> SUFFICES ASSUME NEW v \in Workers PROVE TaskInv(worker[v])'
  BY DEF WorkerInv
<1>1. PICK u \in Tasks : worker[v] = u
  BY DEF TypeOK
<1>2. TaskInv(u)
  BY <1>1 DEF WorkerInv
<1>3. TaskInv(u)' /\ worker'[v] = u
  BY <1>1, <1>2, TaskGrows
<1> QED BY <1>3 DEF TaskInv, CopyInv, BlockInv, DoneInv, Settled, AllDelivered

(* The table: a step that leaves the rows' existence alone, and writes in  *)
(* a data column only what keeps every unsettled effect.                   *)
LEMMA TableKept ==
  ASSUME IInv, Grows, row' = row,
         \A i \in Jobs :
            \/ rowData'[i] = rowData[i]
            \/ /\ rowData'[i] \subseteq wanted[i]
               /\ \A k \in wanted[i] : k \in rowData'[i] \/ Settled(i, k)
  PROVE  RowInv' /\ NothingDropped' /\ ClosedInv'
<1> SUFFICES ASSUME NEW i \in Jobs, row[i] # "none"
             PROVE  /\ rowData'[i] \subseteq wanted[i]
                    /\ \A k \in wanted[i] : k \in rowData'[i] \/ Settled(i, k)'
                    /\ row[i] = "deleted" => \A k \in wanted[i] : Settled(i, k)'
  BY DEF Grows, RowInv, NothingDropped, ClosedInv
<1>1. \A k \in wanted[i] : Settled(i, k) => Settled(i, k)'
  <2>1. wanted[i] \subseteq Kinds
    BY DEF IInv, TypeOK
  <2> QED BY <2>1, SettledGrows
<1>2. /\ rowData'[i] \subseteq wanted[i]
      /\ \A k \in wanted[i] : k \in rowData'[i] \/ Settled(i, k)
  BY DEF IInv, RowInv, NothingDropped
<1>3. row[i] = "deleted" => \A k \in wanted[i] : Settled(i, k)
  BY DEF IInv, ClosedInv
<1>4. \A k \in wanted[i] : k \in rowData'[i] \/ Settled(i, k)'
  BY <1>1, <1>2
<1>5. row[i] = "deleted" => \A k \in wanted[i] : Settled(i, k)'
  BY <1>1, <1>3
<1> QED BY <1>2, <1>4, <1>5

(* The order of the deliveries: a step that delivers nothing.              *)
LEMMA OrderKept ==
  ASSUME IInv, Grows, UNCHANGED delivered
  PROVE  BlocksInOrder'
<1> SUFFICES ASSUME NEW j \in Jobs, NEW s \in Slots, delivered[j][s] > 0
             PROVE  /\ s[1] \in wanted'[j]
                    /\ \A k \in wanted'[j] : k < s[1] => Settled(j, k)'
  BY DEF BlocksInOrder
<1>1. /\ s[1] \in wanted[j]
      /\ \A k \in wanted[j] : k < s[1] => Settled(j, k)
  BY DEF IInv, BlocksInOrder
<1>2. wanted'[j] = wanted[j] /\ wanted[j] \subseteq Kinds
  <2>1. row[j] # "none"
    BY DEF IInv, UnbornInv
  <2> QED BY <2>1 DEF Grows, IInv, TypeOK
<1>3. \A k \in wanted[j] : Settled(j, k) => Settled(j, k)'
  BY <1>2, SettledGrows
<1>4. \A k \in wanted[j] : k < s[1] => Settled(j, k)'
  BY <1>1, <1>3
<1> QED BY <1>1, <1>2, <1>4

(* A step that leaves the requests, the rows' existence and the history    *)
(* alone, and puts nothing in the queue.                                   *)
LEMMA QuietKept ==
  ASSUME IInv, UNCHANGED <<request, wanted, row, delivered, skipped>>, queue' \subseteq queue
  PROVE  Grows /\ RequestInv' /\ UnbornInv' /\ QueueInv' /\ BlocksInOrder'
<1>1. Grows
  BY DEF Grows
<1>2. RequestInv' /\ UnbornInv' /\ QueueInv'
  BY DEF IInv, RequestInv, UnbornInv, QueueInv
<1> QED BY <1>1, <1>2, OrderKept

(* The invariant holds initially.                                          *)
LEMMA InvInit == Init => IInv
<1> SUFFICES ASSUME Init PROVE IInv
  OBVIOUS
<1>1. TypeOK
  BY TypeInit
<1>2. RequestInv /\ UnbornInv /\ QueueInv /\ RowInv
  BY DEF Init, RequestInv, UnbornInv, QueueInv, RowInv
<1>3. WorkerInv
  <2> SUFFICES ASSUME NEW w \in Workers PROVE TaskInv(worker[w])
    BY DEF WorkerInv
  <2>1. worker[w].pc = "idle"
    BY TaskLemma DEF Init
  <2> QED BY <2>1 DEF TaskInv, CopyInv, BlockInv, DoneInv, Loaded
<1>4. NothingDropped /\ ClosedInv
  BY DEF Init, NothingDropped, ClosedInv
<1>5. BlocksInOrder
  <2> SUFFICES ASSUME NEW j \in Jobs, NEW s \in Slots PROVE ~ (delivered[j][s] > 0)
    BY DEF BlocksInOrder
  <2>1. delivered[j][s] = 0
    BY DEF Init
  <2> QED BY <2>1
<1> QED BY <1>1, <1>2, <1>3, <1>4, <1>5 DEF IInv

(* The request threads.                                                    *)
LEMMA InvRequest ==
  ASSUME IInv, NEW j \in Jobs, Handle(j) \/ RequestStep(j)
  PROVE  IInv'
<1>1. TypeOK'
  BY TypeRequest DEF IInv
<1>2. UNCHANGED <<worker, delivered, skipped>>
  BY DEF Handle, RequestStep, Insert, Schedule, history
<1>3. Grows
  <2>1. \A i \in Jobs : row[i] # "none" => row'[i] # "none" /\ wanted'[i] = wanted[i]
    <3>1. CASE Handle(j)
      <4>1. row[j] = "none"
        BY <3>1 DEF Handle, IInv, RequestInv
      <4> QED BY <3>1, <4>1 DEF Handle, durable, IInv, TypeOK
    <3>2. CASE Insert(j)
      BY <3>2 DEF Insert, durable, IInv, TypeOK
    <3>3. CASE Schedule(j)
      BY <3>3 DEF Schedule, durable
    <3> QED BY <3>1, <3>2, <3>3 DEF RequestStep
  <2> QED BY <1>2, <2>1 DEF Grows
<1>4. WorkerInv' /\ BlocksInOrder'
  BY <1>2, <1>3, WorkersKept, OrderKept DEF IInv
<1>5. RequestInv' /\ UnbornInv' /\ QueueInv'
  <2>1. CASE Handle(j)
    <3>1. UNCHANGED <<row, queue>>
      BY <2>1 DEF Handle, durable, volatile
    <3>2. RequestInv'
      <4>1. row[j] = "none"
        BY <2>1 DEF Handle, IInv, RequestInv
      <4>2. \A i \in Jobs : i # j => request'[i] = request[i] /\ wanted'[i] = wanted[i]
        BY <2>1 DEF Handle, IInv, TypeOK
      <4>3. \/ request'[j] = "answered"
            \/ request'[j] = "handled" /\ wanted'[j] # {}
        <5>1. CASE request' = [request EXCEPT ![j] = "answered"]
          BY <5>1 DEF IInv, TypeOK
        <5>2. ASSUME NEW ks, ks # {}, request' = [request EXCEPT ![j] = "handled"],
                     wanted' = [wanted EXCEPT ![j] = ks]
              PROVE  request'[j] = "handled" /\ wanted'[j] # {}
          BY <5>2 DEF IInv, TypeOK
        <5> QED BY <2>1, <5>1, <5>2 DEF Handle
      <4> QED BY <3>1, <4>1, <4>2, <4>3 DEF IInv, RequestInv
    <3> QED BY <1>2, <3>1, <3>2 DEF IInv, UnbornInv, QueueInv
  <2>2. CASE Insert(j)
    <3>1. UNCHANGED <<wanted, queue>>
      BY <2>2 DEF Insert, volatile
    <3>2. \A i \in Jobs : i # j => request'[i] = request[i] /\ row'[i] = row[i]
      BY <2>2 DEF Insert, durable, IInv, TypeOK
    <3>3. \/ request'[j] = "stored" /\ row'[j] = "present"
          \/ request'[j] = "failed" /\ row'[j] = row[j]
      BY <2>2 DEF Insert, durable, IInv, TypeOK
    <3>4. RequestInv' /\ UnbornInv'
      BY <1>2, <3>1, <3>2, <3>3 DEF IInv, RequestInv, UnbornInv
    <3> QED BY <1>3, <3>1, <3>4 DEF IInv, QueueInv, Grows, TypeOK
  <2>3. CASE Schedule(j)
    <3>1. UNCHANGED <<wanted, row>> /\ queue' = queue \cup {j} /\ request[j] = "stored"
      BY <2>3 DEF Schedule, durable
    <3>2. \A i \in Jobs : request'[i] = IF i = j THEN "answered" ELSE request[i]
      BY <2>3 DEF Schedule, IInv, TypeOK
    <3> QED BY <1>2, <3>1, <3>2 DEF IInv, RequestInv, UnbornInv, QueueInv
  <2> QED BY <2>1, <2>2, <2>3 DEF RequestStep
<1>6. RowInv' /\ NothingDropped' /\ ClosedInv'
  <2>1. CASE Insert(j) /\ row' = [row EXCEPT ![j] = "present"]
    <3>1. rowData' = [rowData EXCEPT ![j] = wanted[j]] /\ wanted' = wanted /\ row[j] = "none"
      <4>1. row[j] = "none" /\ wanted' = wanted
        BY <2>1 DEF Insert, IInv, RequestInv
      <4>2. row' # row
        BY <2>1, <4>1 DEF IInv, TypeOK
      <4> QED BY <2>1, <4>1, <4>2 DEF Insert, durable
    <3>2. \A i \in Jobs : i # j => rowData'[i] = rowData[i] /\ row'[i] = row[i]
      BY <2>1, <3>1 DEF IInv, TypeOK
    <3>3. rowData'[j] = wanted[j] /\ row'[j] = "present"
      BY <2>1, <3>1 DEF IInv, TypeOK
    <3>4. \A i \in Jobs : \A k \in Kinds : Settled(i, k) => Settled(i, k)'
      BY <1>3, SettledGrows
    <3>5. \A i \in Jobs : wanted[i] \subseteq Kinds
      BY DEF IInv, TypeOK
    <3>6. RowInv'
      BY <3>1, <3>2, <3>3 DEF IInv, RowInv
    <3>7. NothingDropped'
      BY <3>1, <3>2, <3>3, <3>4, <3>5 DEF IInv, NothingDropped
    <3>8. ClosedInv'
      BY <3>1, <3>2, <3>3, <3>4, <3>5 DEF IInv, ClosedInv
    <3> QED BY <3>6, <3>7, <3>8
  <2>2. CASE UNCHANGED <<row, rowData>>
    BY <1>3, <2>2, TableKept
  <2> QED BY <2>1, <2>2 DEF Handle, RequestStep, Insert, Schedule, durable
<1> QED BY <1>1, <1>4, <1>5, <1>6 DEF IInv

(* A worker's record has no effects to care for yet: it is idle, or before *)
(* its row is loaded.                                                      *)
LEMMA EmptyTask ==
  ASSUME NEW t, t.pc \in {"idle", "check", "boot", "find"},
         t.pc # "idle" => t.job \in Jobs /\ row'[t.job] # "none"
  PROVE  TaskInv(t)'
  BY DEF TaskInv, CopyInv, BlockInv, DoneInv, Loaded

(* Taking a job up, bootstrapping, and finding no row.                     *)
LEMMA InvQuiet ==
  ASSUME IInv, NEW w \in Workers,
         Begin(w) \/ Redispatch(w) \/ Check(w) \/ BootFlag(w) \/ BootField(w)
  PROVE  IInv'
<1>1. TypeOK'
  BY TypeTakeUp, TypeBoot DEF IInv
<1>2. /\ UNCHANGED <<request, wanted, row, rowData, delivered, skipped>>
      /\ queue' \subseteq queue
  BY DEF Begin, Redispatch, Check, BootFlag, BootField, durable, volatile, history
<1>3. Grows /\ RequestInv' /\ UnbornInv' /\ QueueInv' /\ BlocksInOrder'
  BY <1>2, QuietKept
<1>4. RowInv' /\ NothingDropped' /\ ClosedInv'
  BY <1>2, <1>3, TableKept
<1>5. PICK p \in {"check", "boot", "find"}, j \in Jobs, n \in 0..5 :
        /\ row[j] # "none"
        /\ Become(w, Idle) \/ Become(w, Before(p, j, n))
  <2>1. ASSUME NEW j \in Jobs, row[j] # "none", TakeUp(w, j)
        PROVE  \E p \in {"check", "boot", "find"}, i \in Jobs, n \in 0..5 :
                 /\ row[i] # "none"
                 /\ Become(w, Idle) \/ Become(w, Before(p, i, n))
    BY <2>1 DEF TakeUp
  <2>2. CASE Begin(w) \/ Redispatch(w)
    BY <2>1, <2>2 DEF Begin, Redispatch, IInv, QueueInv, TypeOK
  <2>3. CASE Check(w) \/ BootFlag(w) \/ BootField(w)
    <3> DEFINE t == worker[w]
    <3>1. t.pc # "idle"
      BY <2>3 DEF Check, BootFlag, BootField
    <3>2. t.job \in Jobs /\ t.step \in 0..5
      BY <3>1, BusyLemma, TaskLemma DEF IInv
    <3>3. row[t.job] # "none"
      BY <3>1 DEF IInv, WorkerInv, TaskInv
    <3>4. \/ Become(w, Idle)
          \/ \E p \in {"boot", "find"} : \E n \in 0..5 : Become(w, Before(p, t.job, n))
      <4>1. t.step < 5 => t.step + 1 \in 0..5
        BY <3>2
      <4> QED BY <2>3, <4>1 DEF Check, BootFlag, BootField
    <3> QED BY <3>2, <3>3, <3>4
  <2> QED BY <2>2, <2>3
<1>6. WorkerInv'
  <2>1. ASSUME NEW t \in Tasks, Become(w, t), t.pc \in {"idle", "check", "boot", "find"},
               t.pc # "idle" => t.job = j
        PROVE  WorkerInv'
    <3>1. TaskInv(t)'
      BY <1>2, <1>5, <2>1, EmptyTask
    <3> QED BY <1>3, <2>1, <3>1, WorkersGrow DEF IInv
  <2>2. Idle \in Tasks /\ Idle.pc = "idle"
    BY TaskLemma DEF Tasks
  <2>3. /\ Before(p, j, n) \in Tasks
        /\ Before(p, j, n).pc = p /\ Before(p, j, n).job = j
    BY DEF Before, Work, ActiveTask, Tasks, ActivePCs
  <2> QED BY <1>5, <2>1, <2>2, <2>3
<1> QED BY <1>1, <1>3, <1>4, <1>6 DEF IInv

(* The task that has loaded its row.                                       *)
LEMMA InvFind ==
  ASSUME IInv, NEW w \in Workers, Find(w)
  PROVE  IInv'
<1>1. TypeOK'
  BY TypeFind DEF IInv
<1>2. UNCHANGED <<request, wanted, row, rowData, queue, delivered, skipped>>
  BY DEF Find, durable, volatile, history
<1>3. Grows /\ RequestInv' /\ UnbornInv' /\ QueueInv' /\ BlocksInOrder'
  BY <1>2, QuietKept
<1>4. RowInv' /\ NothingDropped' /\ ClosedInv'
  BY <1>2, <1>3, TableKept
<1>5. PICK j \in Jobs : j = worker[w].job /\ row[j] # "none"
  <2>1. worker[w].pc # "idle"
    BY DEF Find
  <2> QED BY <2>1, BusyLemma, TaskLemma DEF IInv, WorkerInv, TaskInv
<1>6. CASE Become(w, Idle)
  <2>1. Idle \in Tasks /\ TaskInv(Idle)'
    BY TaskLemma, EmptyTask DEF Tasks
  <2> QED BY <1>1, <1>3, <1>4, <1>6, <2>1, WorkersGrow DEF IInv
<1>7. CASE Become(w, Work("block", j, rowData[j], rowErrors[j], 1, 1))
  <2>1. PICK m \in SUBSET Kinds, e \in Nat : m = rowData[j] /\ e = rowErrors[j]
    BY DEF IInv, TypeOK
  <2>2. PICK t \in Tasks : t = Work("block", j, m, e, 1, 1)
    BY WorkLemma DEF Tasks, ActivePCs
  <2>3. t.pc = "block" /\ t.job = j /\ t.mem = m /\ t.step = 1 /\ t.item = 1
    BY <2>2 DEF Work
  <2>4. m \subseteq wanted[j] /\ \A k \in wanted[j] : k \in m \/ Settled(j, k)
    BY <1>5, <2>1 DEF IInv, RowInv, NothingDropped
  <2>5. wanted[j] \subseteq Kinds
    BY DEF IInv, TypeOK
  <2>6. CopyInv(t)
    BY <2>3, <2>4 DEF CopyInv
  <2>7. BlockInv(t)
    <3>1. 1 \in Kinds /\ \A k \in Kinds : ~ (k < 1)
      BY DEF Kinds
    <3>2. Items[1] \in Nat \ {0}
      BY <3>1, ConstantsAssumption
    <3> QED BY <2>3, <2>5, <3>1, <3>2 DEF BlockInv
  <2>8. TaskInv(t)
    BY <1>5, <2>3, <2>6, <2>7 DEF TaskInv, DoneInv
  <2>9. TaskInv(t)' /\ Become(w, t)
    BY <1>3, <1>7, <2>1, <2>2, <2>8, TaskGrows DEF IInv
  <2> QED BY <1>1, <1>3, <1>4, <2>9, WorkersGrow DEF IInv
<1> QED BY <1>5, <1>6, <1>7 DEF Find

(* What the invariant says of a worker inside the blocks.                  *)
LEMMA LoadedLemma ==
  ASSUME IInv, NEW w \in Workers, NEW t, t = worker[w], t.pc \in Loaded
  PROVE  /\ t \in ActiveTask /\ t.job \in Jobs /\ row[t.job] # "none"
         /\ t.mem \in SUBSET Kinds /\ wanted[t.job] \subseteq Kinds
         /\ t.mem \subseteq wanted[t.job]
         /\ \A k \in wanted[t.job] : k \in t.mem \/ Settled(t.job, k)
         /\ TaskInv(t)
<1>1. t.pc # "idle"
  BY DEF Loaded
<1>2. /\ t \in ActiveTask /\ t.job \in Jobs /\ t.mem \in SUBSET Kinds
      /\ wanted[t.job] \subseteq Kinds
  BY <1>1, BusyLemma, TaskLemma DEF IInv, TypeOK
<1>3. TaskInv(t)
  BY DEF IInv, WorkerInv
<1>4. row[t.job] # "none" /\ CopyInv(t)
  BY <1>1, <1>3 DEF TaskInv
<1> QED BY <1>2, <1>3, <1>4 DEF CopyInv

(* The end of a block: its kind and the earlier ones are settled.          *)
LEMMA AfterBlockInv ==
  ASSUME NEW t \in ActiveTask, NEW m \in SUBSET Kinds,
         t.job \in Jobs, row'[t.job] # "none", t.step \in Kinds,
         wanted'[t.job] \subseteq Kinds, m \subseteq wanted'[t.job],
         \A k \in wanted'[t.job] : k \in m \/ Settled(t.job, k)',
         \A k \in wanted'[t.job] : k <= t.step => Settled(t.job, k)'
  PROVE  TaskInv(AfterBlock(t, m))'
<1>1. CASE t.step < 5
  <2>1. PICK u : u = At("block", t, m, t.step + 1, 1)
    OBVIOUS
  <2>2. /\ u.pc = "block" /\ u.job = t.job /\ u.mem = m
        /\ u.step = t.step + 1 /\ u.item = 1
    BY <2>1 DEF At, Work
  <2>3. CopyInv(u)'
    BY <2>2 DEF CopyInv
  <2>4. BlockInv(u)'
    <3>1. u.step \in Kinds /\ \A k \in Kinds : k < u.step => k <= t.step
      BY <1>1, <2>2 DEF Kinds
    <3>2. u.item \in 1..Items[u.step]
      BY <2>2, <3>1, ConstantsAssumption
    <3>3. \A k \in wanted'[t.job] : k < u.step => Settled(t.job, k)'
      BY <3>1
    <3> QED BY <2>2, <3>1, <3>2, <3>3 DEF BlockInv
  <2>5. TaskInv(u)'
    BY <2>2, <2>3, <2>4 DEF TaskInv, DoneInv
  <2> QED BY <1>1, <2>1, <2>5 DEF AfterBlock
<1>2. CASE ~ (t.step < 5)
  <2>1. PICK u : u = At("delete", t, m, 5, 1)
    OBVIOUS
  <2>2. u.pc = "delete" /\ u.job = t.job /\ u.mem = m
    BY <2>1 DEF At, Work
  <2>3. \A k \in Kinds : k <= t.step
    BY <1>2 DEF Kinds
  <2>4. \A k \in wanted'[t.job] : Settled(t.job, k)'
    BY <2>3
  <2>5. CopyInv(u)' /\ BlockInv(u)'
    BY <2>2 DEF CopyInv, BlockInv
  <2>6. DoneInv(u)'
    BY <2>2, <2>4 DEF DoneInv
  <2>7. TaskInv(u)'
    BY <2>2, <2>5, <2>6 DEF TaskInv
  <2> QED BY <1>2, <2>1, <2>7 DEF AfterBlock
<1> QED BY <1>1, <1>2

(* The catch block: the copy of the row is all that counts.                *)
LEMMA FailTask ==
  ASSUME NEW t, NEW m, t.job \in Jobs, row'[t.job] # "none", m \subseteq wanted'[t.job],
         \A k \in wanted'[t.job] : k \in m \/ Settled(t.job, k)'
  PROVE  TaskInv(At("fail", t, m, t.step, t.item))'
<1>1. PICK u : u = At("fail", t, m, t.step, t.item)
  OBVIOUS
<1>2. u.pc = "fail" /\ u.job = t.job /\ u.mem = m
  BY <1>1 DEF At, Work
<1>3. CopyInv(u)'
  BY <1>2 DEF CopyInv
<1>4. BlockInv(u)' /\ DoneInv(u)'
  BY <1>2 DEF BlockInv, DoneInv
<1>5. TaskInv(u)'
  BY <1>2, <1>3, <1>4 DEF TaskInv
<1> QED BY <1>1, <1>5

(* A block passed over.                                                    *)
LEMMA InvSkip ==
  ASSUME IInv, NEW w \in Workers, SkipBlock(w)
  PROVE  IInv'
<1>1. TypeOK'
  BY TypeBlock DEF IInv
<1>2. UNCHANGED <<request, wanted, row, rowData, queue, delivered>>
  BY DEF SkipBlock, durable, volatile
<1>3. PICK t : t = worker[w]
  OBVIOUS
<1>4. /\ t.pc = "block" /\ ~ Runs(t) /\ Become(w, AfterBlock(t, t.mem))
      /\ skipped' = [skipped EXCEPT ![t.job] = @ \cup ({t.step} \cap t.mem)]
  BY <1>3 DEF SkipBlock
<1>5. /\ t \in ActiveTask /\ t.job \in Jobs /\ row[t.job] # "none"
      /\ t.mem \in SUBSET Kinds /\ wanted[t.job] \subseteq Kinds
      /\ t.mem \subseteq wanted[t.job]
      /\ \A k \in wanted[t.job] : k \in t.mem \/ Settled(t.job, k)
      /\ TaskInv(t)
  BY <1>3, <1>4, LoadedLemma DEF Loaded
<1>6. /\ \A j \in Jobs : j # t.job => skipped'[j] = skipped[j]
      /\ skipped'[t.job] = skipped[t.job] \cup ({t.step} \cap t.mem)
  BY <1>4, <1>5 DEF IInv, TypeOK
<1>7. Grows
  BY <1>2, <1>6 DEF Grows
<1>8. RequestInv' /\ QueueInv' /\ UnbornInv'
  <2>1. RequestInv' /\ QueueInv'
    BY <1>2 DEF IInv, RequestInv, QueueInv
  <2>2. UnbornInv'
    BY <1>2, <1>5, <1>6 DEF IInv, UnbornInv
  <2> QED BY <2>1, <2>2
<1>9. BlocksInOrder' /\ RowInv' /\ NothingDropped' /\ ClosedInv'
  BY <1>2, <1>7, OrderKept, TableKept
<1>10. WorkerInv'
  <2>1. \A k \in wanted[t.job] : Settled(t.job, k) => Settled(t.job, k)'
    BY <1>5, <1>7, SettledGrows
  <2>2. t.step \in Kinds /\ \A k \in wanted[t.job] : k < t.step => Settled(t.job, k)
    BY <1>4, <1>5 DEF TaskInv, BlockInv
  <2>3. \A k \in wanted'[t.job] : k <= t.step => Settled(t.job, k)'
    <3> SUFFICES ASSUME NEW k \in wanted[t.job], k <= t.step PROVE Settled(t.job, k)'
      BY <1>2
    <3>1. CASE k < t.step
      BY <2>1, <2>2, <3>1
    <3>2. CASE k = t.step /\ k \in t.mem
      BY <1>6, <3>2 DEF Settled
    <3>3. CASE k \notin t.mem
      BY <1>5, <2>1, <3>3
    <3>4. k < t.step \/ k = t.step
      BY <1>5, <2>2 DEF Kinds
    <3> QED BY <3>1, <3>2, <3>3, <3>4
  <2>4. /\ row'[t.job] # "none" /\ wanted'[t.job] \subseteq Kinds
        /\ t.mem \subseteq wanted'[t.job]
    BY <1>2, <1>5
  <2>5. \A k \in wanted'[t.job] : k \in t.mem \/ Settled(t.job, k)'
    BY <1>2, <1>5, <2>1
  <2>6. PICK u : u = AfterBlock(t, t.mem)
    OBVIOUS
  <2>7. TaskInv(u)' /\ u \in Tasks
    BY <1>5, <2>2, <2>3, <2>4, <2>5, <2>6, AfterBlockInv, AfterLemma DEF Tasks
  <2> QED BY <1>4, <1>7, <2>6, <2>7, WorkersGrow DEF IInv
<1> QED BY <1>1, <1>8, <1>9, <1>10 DEF IInv

(* The loop of a block moves on.                                           *)
LEMMA AfterItemInv ==
  ASSUME NEW t \in ActiveTask, t.job \in Jobs, row'[t.job] # "none", t.step \in Kinds,
         t.item \in 1..Items[t.step], t.mem \subseteq wanted'[t.job],
         \A k \in wanted'[t.job] : k \in t.mem \/ Settled(t.job, k)',
         \A k \in wanted'[t.job] : k < t.step => Settled(t.job, k)',
         \A i \in 1..Items[t.step] : i <= t.item => delivered'[t.job][<<t.step, i>>] > 0
  PROVE  TaskInv(AfterItem(t))'
<1>0. Items[t.step] \in Nat \ {0}
  BY ConstantsAssumption
<1>1. CASE t.item < Items[t.step]
  <2>1. PICK u : u = At("block", t, t.mem, t.step, t.item + 1)
    OBVIOUS
  <2>2. /\ u.pc = "block" /\ u.job = t.job /\ u.mem = t.mem
        /\ u.step = t.step /\ u.item = t.item + 1
    BY <2>1 DEF At, Work
  <2>3. CopyInv(u)'
    BY <2>2 DEF CopyInv
  <2>4. BlockInv(u)'
    <3>1. u.item \in 1..Items[t.step]
      BY <1>0, <1>1, <2>2
    <3>2. \A i \in 1..Items[t.step] : i < u.item => delivered'[t.job][<<t.step, i>>] > 0
      BY <1>0, <2>2
    <3> QED BY <2>2, <3>1, <3>2 DEF BlockInv
  <2>5. TaskInv(u)'
    BY <2>2, <2>3, <2>4 DEF TaskInv, DoneInv
  <2> QED BY <1>1, <2>1, <2>5 DEF AfterItem
<1>2. CASE ~ (t.item < Items[t.step])
  <2>1. PICK u : u = At("save", t, t.mem, t.step, t.item)
    OBVIOUS
  <2>2. /\ u.pc = "save" /\ u.job = t.job /\ u.mem = t.mem
        /\ u.step = t.step /\ u.item = t.item
    BY <2>1 DEF At, Work
  <2>3. CopyInv(u)'
    BY <2>2 DEF CopyInv
  <2>4. BlockInv(u)'
    <3>1. \A i \in 1..Items[t.step] : i < t.item => delivered'[t.job][<<t.step, i>>] > 0
      BY <1>0
    <3> QED BY <2>2, <3>1 DEF BlockInv
  <2>5. DoneInv(u)'
    <3>1. \A i \in 1..Items[t.step] : delivered'[t.job][<<t.step, i>>] > 0
      BY <1>0, <1>2
    <3> QED BY <2>2, <3>1 DEF DoneInv, AllDelivered
  <2>6. TaskInv(u)'
    BY <2>2, <2>3, <2>4, <2>5 DEF TaskInv
  <2> QED BY <1>2, <2>1, <2>6 DEF AfterItem
<1> QED BY <1>1, <1>2

(* One effect delivered, or one call to a sink that throws.                *)
LEMMA InvDeliver ==
  ASSUME IInv, NEW w \in Workers, Deliver(w)
  PROVE  IInv'
<1>1. TypeOK'
  BY TypeBlock DEF IInv
<1>2. UNCHANGED <<request, wanted, row, rowData, queue, skipped>>
  BY DEF Deliver, durable, volatile
<1>3. PICK t : t = worker[w]
  OBVIOUS
<1>4. t.pc = "block" /\ Runs(t)
  BY <1>3 DEF Deliver
<1>5. /\ t \in ActiveTask /\ t.job \in Jobs /\ row[t.job] # "none"
      /\ t.mem \in SUBSET Kinds /\ wanted[t.job] \subseteq Kinds
      /\ t.mem \subseteq wanted[t.job]
      /\ \A k \in wanted[t.job] : k \in t.mem \/ Settled(t.job, k)
      /\ TaskInv(t)
  BY <1>3, <1>4, LoadedLemma DEF Loaded
<1>6. /\ t.step \in Kinds /\ t.item \in 1..Items[t.step]
      /\ \A k \in wanted[t.job] : k < t.step => Settled(t.job, k)
      /\ \A i \in 1..Items[t.step] : i < t.item => delivered[t.job][<<t.step, i>>] > 0
  BY <1>4, <1>5 DEF TaskInv, BlockInv
<1> DEFINE slot == <<t.step, t.item>>
<1>7. slot \in Slots /\ slot[1] = t.step
  BY <1>6, SlotsLemma
<1>8. PICK n \in {0, 1} :
        /\ delivered' = [delivered EXCEPT ![t.job][slot] = @ + n]
        /\ \/ n = 1 /\ Become(w, AfterItem(t))
           \/ Become(w, At("fail", t, t.mem, t.step, t.item))
  BY <1>3 DEF Deliver
<1> HIDE DEF slot
<1>9. \A j \in Jobs : \A s \in Slots :
        /\ delivered[j][s] \in Nat
        /\ delivered'[j][s] = IF j = t.job /\ s = slot THEN delivered[j][s] + n
                                                      ELSE delivered[j][s]
  BY <1>5, <1>7, <1>8 DEF IInv, TypeOK
<1>10. Grows
  <2>1. \A j \in Jobs : \A s \in Slots : delivered[j][s] > 0 => delivered'[j][s] > 0
    BY <1>9
  <2> QED BY <1>2, <2>1 DEF Grows
<1>11. RequestInv' /\ QueueInv'
  BY <1>2 DEF IInv, RequestInv, QueueInv
<1>12. UnbornInv'
  <2> SUFFICES ASSUME NEW j \in Jobs, row[j] = "none"
               PROVE  skipped[j] = {} /\ \A s \in Slots : delivered'[j][s] = 0
    BY <1>2 DEF UnbornInv
  <2>1. skipped[j] = {} /\ \A s \in Slots : delivered[j][s] = 0
    BY DEF IInv, UnbornInv
  <2>2. j # t.job
    BY <1>5
  <2> QED BY <1>9, <2>1, <2>2
<1>13. RowInv' /\ NothingDropped' /\ ClosedInv'
  BY <1>2, <1>10, TableKept
<1>14. \A k \in wanted[t.job] : Settled(t.job, k) => Settled(t.job, k)'
  BY <1>5, <1>10, SettledGrows
<1>15. BlocksInOrder'
  <2> SUFFICES ASSUME NEW j \in Jobs, NEW s \in Slots, delivered'[j][s] > 0
               PROVE  /\ s[1] \in wanted[j]
                      /\ \A k \in wanted[j] : k < s[1] => Settled(j, k)'
    BY <1>2 DEF BlocksInOrder
  <2>1. CASE j = t.job /\ s = slot
    <3>1. t.step \in wanted[t.job]
      BY <1>4, <1>5 DEF Runs
    <3>2. \A k \in wanted[t.job] : k < t.step => Settled(t.job, k)'
      BY <1>6, <1>14
    <3> QED BY <1>7, <2>1, <3>1, <3>2
  <2>2. CASE ~ (j = t.job /\ s = slot)
    <3>1. delivered[j][s] > 0
      BY <1>9, <2>2
    <3>2. s[1] \in wanted[j] /\ \A k \in wanted[j] : k < s[1] => Settled(j, k)
      BY <3>1 DEF IInv, BlocksInOrder
    <3>3. wanted[j] \subseteq Kinds
      BY DEF IInv, TypeOK
    <3>4. \A k \in wanted[j] : Settled(j, k) => Settled(j, k)'
      BY <1>10, <3>3, SettledGrows
    <3>5. \A k \in wanted[j] : k < s[1] => Settled(j, k)'
      BY <3>2, <3>4
    <3> QED BY <3>2, <3>5
  <2> QED BY <2>1, <2>2
<1>16. WorkerInv'
  <2>1. /\ row'[t.job] # "none" /\ wanted'[t.job] \subseteq Kinds
        /\ t.mem \subseteq wanted'[t.job]
    BY <1>2, <1>5
  <2>2. \A k \in wanted'[t.job] : k \in t.mem \/ Settled(t.job, k)'
    BY <1>2, <1>5, <1>14
  <2>3. \A k \in wanted'[t.job] : k < t.step => Settled(t.job, k)'
    BY <1>2, <1>6, <1>14
  <2>4. CASE n = 1 /\ Become(w, AfterItem(t))
    <3>1. \A i \in 1..Items[t.step] : i <= t.item => delivered'[t.job][<<t.step, i>>] > 0
      <4> SUFFICES ASSUME NEW i \in 1..Items[t.step], i <= t.item
                   PROVE  delivered'[t.job][<<t.step, i>>] > 0
        OBVIOUS
      <4>1. <<t.step, i>> \in Slots
        BY <1>6, SlotsLemma
      <4>2. CASE i = t.item
        <5>1. <<t.step, i>> = slot
          BY <4>2 DEF slot
        <5>2. delivered'[t.job][slot] = delivered[t.job][slot] + 1 /\ delivered[t.job][slot] \in Nat
          BY <1>5, <1>7, <1>9, <2>4
        <5> QED BY <5>1, <5>2
      <4>3. CASE i < t.item
        <5>1. delivered[t.job][<<t.step, i>>] > 0
          BY <1>6, <4>3
        <5> QED BY <1>5, <1>10, <4>1, <5>1 DEF Grows
      <4>4. i < t.item \/ i = t.item
        BY <1>6
      <4> QED BY <4>2, <4>3, <4>4
    <3>2. PICK u : u = AfterItem(t)
      OBVIOUS
    <3>3. TaskInv(u)' /\ u \in Tasks
      BY <1>5, <1>6, <2>1, <2>2, <2>3, <3>1, <3>2, AfterItemInv, AfterLemma DEF Tasks
    <3> QED BY <1>10, <2>4, <3>2, <3>3, WorkersGrow DEF IInv
  <2>5. CASE Become(w, At("fail", t, t.mem, t.step, t.item))
    <3>1. PICK u : u = At("fail", t, t.mem, t.step, t.item)
      OBVIOUS
    <3>2. TaskInv(u)' /\ u \in Tasks
      BY <1>5, <2>1, <2>2, <3>1, FailTask, AfterLemma DEF Tasks
    <3> QED BY <1>10, <2>5, <3>1, <3>2, WorkersGrow DEF IInv
  <2> QED BY <1>8, <2>4, <2>5
<1> QED BY <1>1, <1>11, <1>12, <1>13, <1>15, <1>16 DEF IInv

(* Writing the row: the progress, the catch block, and the deletion.       *)
LEMMA InvWrite ==
  ASSUME IInv, NEW w \in Workers, Save(w) \/ Delete(w) \/ Fail(w)
  PROVE  IInv'
<1>1. TypeOK'
  BY TypeWrite DEF IInv
<1>2. UNCHANGED <<request, wanted, queue, delivered, skipped>>
  BY DEF Save, Delete, Fail, volatile, history
<1>3. PICK t : t = worker[w]
  OBVIOUS
<1>4. t.pc \in Loaded
  BY <1>3 DEF Save, Delete, Fail, Loaded
<1>5. /\ t \in ActiveTask /\ t.job \in Jobs /\ row[t.job] # "none"
      /\ t.mem \in SUBSET Kinds /\ wanted[t.job] \subseteq Kinds
      /\ t.mem \subseteq wanted[t.job]
      /\ \A k \in wanted[t.job] : k \in t.mem \/ Settled(t.job, k)
      /\ TaskInv(t)
  BY <1>3, <1>4, LoadedLemma
<1>6. Left(t) \in SUBSET Kinds /\ t.errors \in Nat /\ t.errors + 1 \in Nat
  <2>1. t.errors \in Nat
    BY <1>5, TaskLemma
  <2> QED BY <1>5, <2>1 DEF Left
<1>7. t.pc = "save" => /\ t.step \in Kinds
                       /\ \A k \in wanted[t.job] : k <= t.step => Settled(t.job, k)
                       /\ Left(t) \subseteq wanted[t.job]
                       /\ \A k \in wanted[t.job] : k \in Left(t) \/ Settled(t.job, k)
  <2> SUFFICES ASSUME t.pc = "save"
               PROVE  /\ t.step \in Kinds
                      /\ \A k \in wanted[t.job] : k <= t.step => Settled(t.job, k)
                      /\ Left(t) \subseteq wanted[t.job]
                      /\ \A k \in wanted[t.job] : k \in Left(t) \/ Settled(t.job, k)
    OBVIOUS
  <2>1. /\ t.step \in Kinds
        /\ \A k \in wanted[t.job] : k < t.step => Settled(t.job, k)
        /\ AllDelivered(t.job, t.step)
    BY <1>5 DEF TaskInv, BlockInv, DoneInv
  <2>2. Settled(t.job, t.step)
    BY <2>1 DEF Settled
  <2>3. \A k \in Kinds : k <= t.step => k < t.step \/ k = t.step
    BY <2>1 DEF Kinds
  <2>4. \A k \in wanted[t.job] : k <= t.step => Settled(t.job, k)
    BY <1>5, <2>1, <2>2, <2>3
  <2>5. \A k \in wanted[t.job] : k \in Left(t) \/ Settled(t.job, k)
    BY <1>5, <2>2 DEF Left
  <2> QED BY <1>5, <2>1, <2>4, <2>5 DEF Left
<1>8. \/ /\ row' = row
         /\ \A i \in Jobs :
              \/ rowData'[i] = rowData[i]
              \/ /\ rowData'[i] \subseteq wanted[i]
                 /\ \A k \in wanted[i] : k \in rowData'[i] \/ Settled(i, k)
      \/ /\ t.pc = "delete"
         /\ row' = [row EXCEPT ![t.job] = "deleted"]
         /\ rowData' = [rowData EXCEPT ![t.job] = {}]
  <2>1. CASE UNCHANGED durable
    BY <2>1 DEF durable
  <2>2. ASSUME NEW m \in SUBSET Kinds, NEW e \in Nat, UpdateRow(t.job, m, e),
               m \subseteq wanted[t.job],
               \A k \in wanted[t.job] : k \in m \/ Settled(t.job, k)
        PROVE  /\ row' = row
               /\ \A i \in Jobs :
                    \/ rowData'[i] = rowData[i]
                    \/ /\ rowData'[i] \subseteq wanted[i]
                       /\ \A k \in wanted[i] : k \in rowData'[i] \/ Settled(i, k)
    <3>1. /\ row' = row
          /\ \A i \in Jobs : rowData'[i] = rowData[i] \/ (i = t.job /\ rowData'[i] = m)
      <4>1. TypeOK /\ t.job \in Jobs
        BY <1>5 DEF IInv
      <4>2. UpdateRow(t.job, m, e) \/ UNCHANGED durable
        BY <2>2
      <4> QED BY <4>1, <4>2, UpdateLemma
    <3> QED BY <2>2, <3>1
  <2>3. CASE Delete(w)
    BY <1>3, <2>1, <2>3 DEF Delete
  <2>4. CASE Save(w)
    <3>1. CASE t.pc = "save" /\ UpdateRow(t.job, Left(t), t.errors)
      <4>1. /\ Left(t) \subseteq wanted[t.job]
            /\ \A k \in wanted[t.job] : k \in Left(t) \/ Settled(t.job, k)
        BY <1>7, <3>1, Zenon
      <4> QED BY <1>6, <2>2, <3>1, <4>1
    <3> QED BY <1>3, <2>1, <2>4, <3>1 DEF Save
  <2>5. CASE Fail(w)
    <3>1. CASE UpdateRow(t.job, t.mem, t.errors + 1)
      BY <1>5, <1>6, <2>2, <3>1
    <3> QED BY <1>3, <2>1, <2>5, <3>1 DEF Fail
  <2> QED BY <2>3, <2>4, <2>5
<1>9. \A i \in Jobs : row'[i] = row[i] \/ (i = t.job /\ row'[i] = "deleted")
  BY <1>8 DEF IInv, TypeOK
<1>10. Grows
  BY <1>2, <1>9 DEF Grows
<1>11. RequestInv' /\ QueueInv' /\ UnbornInv'
  <2>1. \A i \in Jobs : row'[i] = "none" <=> row[i] = "none"
    BY <1>5, <1>9
  <2> QED BY <1>2, <2>1 DEF IInv, RequestInv, QueueInv, UnbornInv, TypeOK
<1>12. BlocksInOrder'
  BY <1>2, <1>10, OrderKept
<1>13. RowInv' /\ NothingDropped' /\ ClosedInv'
  <2>1. CASE /\ row' = row
             /\ \A i \in Jobs :
                  \/ rowData'[i] = rowData[i]
                  \/ /\ rowData'[i] \subseteq wanted[i]
                     /\ \A k \in wanted[i] : k \in rowData'[i] \/ Settled(i, k)
    BY <1>10, <2>1, TableKept
  <2>2. CASE /\ t.pc = "delete"
             /\ row' = [row EXCEPT ![t.job] = "deleted"]
             /\ rowData' = [rowData EXCEPT ![t.job] = {}]
    <3>1. \A k \in wanted[t.job] : Settled(t.job, k)
      BY <1>5, <2>2 DEF TaskInv, DoneInv
    <3>2. \A i \in Jobs : \A k \in Kinds : Settled(i, k) <=> Settled(i, k)'
      BY <1>2 DEF Settled, AllDelivered
    <3>3. \A i \in Jobs : i # t.job => row'[i] = row[i] /\ rowData'[i] = rowData[i]
      BY <2>2 DEF IInv, TypeOK
    <3>4. rowData'[t.job] = {}
      BY <1>5, <2>2 DEF IInv, TypeOK
    <3>5. \A i \in Jobs : wanted[i] \subseteq Kinds
      BY DEF IInv, TypeOK
    <3>6. RowInv'
      BY <1>2, <3>3, <3>4 DEF IInv, RowInv
    <3>7. NothingDropped'
      BY <1>2, <3>1, <3>2, <3>3, <3>5 DEF IInv, NothingDropped
    <3>8. ClosedInv'
      BY <1>2, <3>1, <3>2, <3>3, <3>5 DEF IInv, ClosedInv
    <3> QED BY <3>6, <3>7, <3>8
  <2> QED BY <1>8, <2>1, <2>2
<1>14. WorkerInv'
  <2>1. row'[t.job] # "none" /\ wanted' = wanted
    BY <1>2, <1>5, <1>9
  <2>2. \A k \in wanted[t.job] : Settled(t.job, k) => Settled(t.job, k)'
    BY <1>5, <1>10, SettledGrows
  <2>3. TaskInv(Idle)' /\ Idle \in Tasks
    BY TaskLemma, EmptyTask DEF Tasks
  <2>4. ASSUME NEW m \in SUBSET Kinds, m \subseteq wanted[t.job],
               \A k \in wanted[t.job] : k \in m \/ Settled(t.job, k)
        PROVE  /\ TaskInv(At("fail", t, m, t.step, t.item))'
               /\ At("fail", t, m, t.step, t.item) \in Tasks
    <3>1. \A k \in wanted'[t.job] : k \in m \/ Settled(t.job, k)'
      BY <2>1, <2>2, <2>4
    <3> QED BY <1>5, <2>1, <2>4, <3>1, FailTask, AfterLemma DEF Tasks
  <2>5. t.pc = "save" => /\ TaskInv(AfterBlock(t, Left(t)))'
                         /\ AfterBlock(t, Left(t)) \in Tasks
    <3> SUFFICES ASSUME t.pc = "save"
                 PROVE  /\ TaskInv(AfterBlock(t, Left(t)))'
                        /\ AfterBlock(t, Left(t)) \in Tasks
      OBVIOUS
    <3>0. /\ t.step \in Kinds /\ Left(t) \subseteq wanted[t.job]
          /\ \A k \in wanted[t.job] : k \in Left(t) \/ Settled(t.job, k)
          /\ \A k \in wanted[t.job] : k <= t.step => Settled(t.job, k)
      BY <1>7, Zenon
    <3>1. \A k \in wanted[t.job] : k \in Left(t) \/ Settled(t.job, k)'
      BY <2>2, <3>0
    <3>2. \A k \in wanted[t.job] : k <= t.step => Settled(t.job, k)'
      BY <2>2, <3>0
    <3>3. TaskInv(AfterBlock(t, Left(t)))'
      BY <1>5, <1>6, <2>1, <3>0, <3>1, <3>2, AfterBlockInv
    <3> QED BY <1>5, <1>6, <3>3, AfterLemma DEF Tasks
  <2>6. PICK u \in Tasks : Become(w, u) /\ TaskInv(u)'
    <3>1. CASE Delete(w) \/ Fail(w)
      BY <1>3, <1>5, <2>3, <2>4, <3>1 DEF Delete, Fail
    <3>2. CASE Save(w)
      <4>1. t.pc = "save"
        BY <1>3, <3>2 DEF Save
      <4>2. /\ TaskInv(At("fail", t, Left(t), t.step, t.item))'
            /\ At("fail", t, Left(t), t.step, t.item) \in Tasks
        <5>1. /\ Left(t) \subseteq wanted[t.job]
              /\ \A k \in wanted[t.job] : k \in Left(t) \/ Settled(t.job, k)
          BY <1>7, <4>1, Zenon
        <5> QED BY <1>6, <2>4, <5>1
      <4>3. \/ Become(w, AfterBlock(t, Left(t)))
            \/ Become(w, At("fail", t, Left(t), t.step, t.item))
        BY <1>3, <3>2 DEF Save
      <4> QED BY <2>5, <4>1, <4>2, <4>3
    <3> QED BY <3>1, <3>2
  <2> QED BY <1>10, <2>6, WorkersGrow DEF IInv
<1> QED BY <1>1, <1>11, <1>12, <1>13, <1>14 DEF IInv

(* A crash takes away only what the invariant does not need.               *)
LEMMA InvCrash ==
  ASSUME IInv, Crash
  PROVE  IInv'
<1>1. TypeOK'
  BY TypeCrash DEF IInv
<1>2. /\ UNCHANGED <<wanted, row, rowData, delivered, skipped>>
      /\ queue' = {}
  BY DEF Crash, durable, history
<1>3. Grows
  BY <1>2 DEF Grows
<1>4. UnbornInv' /\ QueueInv'
  BY <1>2 DEF IInv, UnbornInv, QueueInv
<1>5. RequestInv'
  <2>1. \A j \in Jobs : request'[j] = request[j] \/ request'[j] = "failed"
    BY DEF Crash
  <2> QED BY <1>2, <2>1 DEF IInv, RequestInv
<1>6. RowInv' /\ NothingDropped' /\ ClosedInv' /\ BlocksInOrder'
  BY <1>2, <1>3, TableKept, OrderKept
<1>7. WorkerInv'
  <2> SUFFICES ASSUME NEW w \in Workers PROVE TaskInv(worker[w])'
    BY DEF WorkerInv
  <2>1. worker'[w].pc = "idle"
    BY TaskLemma DEF Crash
  <2> QED BY <2>1 DEF TaskInv, CopyInv, BlockInv, DoneInv, Loaded
<1> QED BY <1>1, <1>4, <1>5, <1>6, <1>7 DEF IInv

(* Every step preserves the invariant.                                     *)
LEMMA InvNext == IInv /\ [Next]_vars => IInv'
<1> SUFFICES ASSUME IInv, [Next]_vars PROVE IInv'
  OBVIOUS
<1>1. ASSUME NEW j \in Jobs, Handle(j) \/ RequestStep(j) PROVE IInv'
  BY <1>1, InvRequest
<1>2. ASSUME NEW w \in Workers, WorkerStep(w) \/ Redispatch(w) PROVE IInv'
  BY <1>2, InvQuiet, InvFind, InvSkip, InvDeliver, InvWrite DEF WorkerStep
<1>3. CASE UNCHANGED vars
  <2>1. TypeOK'
    BY <1>3, TypeNext DEF IInv
  <2>2. UNCHANGED <<request, wanted, row, rowData, queue, worker, delivered, skipped>>
    BY <1>3 DEF vars, durable, volatile, history
  <2>3. Grows /\ RequestInv' /\ UnbornInv' /\ QueueInv' /\ BlocksInOrder'
    BY <2>2, QuietKept
  <2>4. RowInv' /\ NothingDropped' /\ ClosedInv' /\ WorkerInv'
    BY <2>2, <2>3, TableKept, WorkersKept DEF IInv
  <2> QED BY <2>1, <2>3, <2>4 DEF IInv
<1> QED BY <1>1, <1>2, <1>3, InvCrash DEF Next

(* The inductive invariant holds in every reachable state.                 *)
THEOREM InvCorrect == Spec => []IInv
  BY InvInit, InvNext, PTL DEF Spec

(* An effect that an operation asked for is settled or still in its row's  *)
(* data column, whatever fails, crashes or runs twice.                     *)
THEOREM NothingDroppedCorrect == Spec => []NothingDropped
<1>1. IInv => NothingDropped
  BY DEF IInv
<1> QED BY <1>1, InvCorrect, PTL

(* The blocks of handle() deliver in their order, across drives, crashes   *)
(* and workers that share a row.                                           *)
THEOREM BlocksInOrderCorrect == Spec => []BlocksInOrder
<1>1. IInv => BlocksInOrder
  BY DEF IInv
<1> QED BY <1>1, InvCorrect, PTL
=============================================================================
