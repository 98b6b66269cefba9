---------------------- MODULE SideEffectsOutboxProofs ----------------------
(***************************************************************************)
(* SideEffects implements Outbox, for all values of the constants.         *)
(***************************************************************************)
EXTENDS SideEffectsProofs

(* Nothing is settled of a job that has no row.                            *)
LEMMA UnbornUnsettled ==
  ASSUME TypeOK, UnbornInv, NEW j \in Jobs, row[j] = "none", NEW k \in Kinds
  PROVE  ~ Settled(j, k)
<1>1. 1 \in 1..Items[k]
  BY ConstantsAssumption
<1>2. delivered[j][<<k, 1>>] = 0
  BY <1>1, SlotsLemma DEF UnbornInv
<1> QED BY <1>1, <1>2 DEF UnbornInv, Settled, AllDelivered

(* A step that touches neither rows nor history is invisible.              *)
LEMMA Invisible ==
  ASSUME UNCHANGED <<row, wanted, delivered, skipped>>
  PROVE  UNCHANGED O!vars
  BY DEF O!vars, statusBar, owedBar, settledBar, Settled, AllDelivered

(* Handle gives effects only to a job that has no row.                     *)
LEMMA RefHandle ==
  ASSUME IInv, NEW j \in Jobs, Handle(j)
  PROVE  UNCHANGED O!vars
<1>1. UNCHANGED <<row, delivered, skipped>> /\ row[j] = "none"
  BY DEF Handle, durable, history, IInv, RequestInv
<1>2. \A i \in Jobs : i # j => wanted'[i] = wanted[i]
  BY DEF Handle, IInv, TypeOK
<1>3. \A i \in Jobs : wanted[i] \subseteq Kinds /\ wanted'[i] \subseteq Kinds
  <2>1. TypeOK /\ TypeOK'
    BY TypeRequest DEF IInv
  <2> QED BY <2>1 DEF TypeOK
<1>4. statusBar' = statusBar
  BY <1>1 DEF statusBar
<1>5. owedBar' = owedBar
  BY <1>1, <1>2 DEF owedBar
<1>6. settledBar' = settledBar
  <2> SUFFICES ASSUME NEW i \in Jobs
               PROVE  {k \in wanted'[i] : Settled(i, k)'} = {k \in wanted[i] : Settled(i, k)}
    BY DEF settledBar
  <2>1. \A k \in Kinds : Settled(i, k)' <=> Settled(i, k)
    BY <1>1 DEF Settled, AllDelivered
  <2>2. CASE i = j
    <3>1. \A k \in Kinds : ~ Settled(i, k)
      BY <1>1, <2>2, UnbornUnsettled DEF IInv
    <3> QED BY <1>3, <2>1, <3>1
  <2>3. CASE i # j
    BY <1>2, <1>3, <2>1, <2>3
  <2> QED BY <2>2, <2>3
<1> QED BY <1>4, <1>5, <1>6 DEF O!vars

(* The insert accepts the job.                                             *)
LEMMA RefInsert ==
  ASSUME IInv, NEW j \in Jobs, Insert(j)
  PROVE  O!Accept(j, wanted[j]) \/ UNCHANGED O!vars
<1>1. UNCHANGED <<wanted, delivered, skipped>> /\ row[j] = "none" /\ wanted[j] # {}
  BY DEF Insert, history, IInv, RequestInv
<1>2. CASE row' = [row EXCEPT ![j] = "present"]
  <2>1. \A i \in Jobs : row'[i] = IF i = j THEN "present" ELSE row[i]
    BY <1>2 DEF IInv, TypeOK
  <2>2. statusBar[j] = "none"
    BY <1>1 DEF statusBar
  <2>3. statusBar' = [statusBar EXCEPT ![j] = "open"]
    BY <2>1 DEF statusBar
  <2>4. owedBar' = [owedBar EXCEPT ![j] = wanted[j]]
    BY <1>1, <2>1 DEF owedBar
  <2>5. settledBar' = settledBar
    BY <1>1 DEF settledBar, Settled, AllDelivered
  <2> QED BY <1>1, <2>2, <2>3, <2>4, <2>5 DEF O!Accept
<1>3. CASE UNCHANGED row
  BY <1>1, <1>3, Invisible
<1> QED BY <1>2, <1>3 DEF Insert, durable

(* A step that can settle only kind k of job j.                            *)
LEMMA RefSettle ==
  ASSUME IInv, IInv', UNCHANGED <<row, wanted>>, Grows,
         NEW j \in Jobs, NEW k \in Kinds, row[j] # "none",
         \A i \in Jobs : \A m \in Kinds :
            (i # j \/ m # k) => (Settled(i, m)' => Settled(i, m))
  PROVE  O!Settle(j, k) \/ UNCHANGED O!vars
<1>1. statusBar' = statusBar /\ owedBar' = owedBar
  BY DEF statusBar, owedBar
<1>2. \A i \in Jobs : wanted[i] \subseteq Kinds
  BY DEF IInv, TypeOK
<1>3. \A i \in Jobs : \A m \in Kinds : Settled(i, m) => Settled(i, m)'
  BY SettledGrows
<1>4. CASE k \in wanted[j] /\ Settled(j, k)' /\ ~ Settled(j, k)
  <2>1. row[j] = "present"
    <3>1. row[j] # "deleted"
      BY <1>4 DEF IInv, ClosedInv
    <3> QED BY <3>1 DEF IInv, TypeOK
  <2>2. statusBar[j] = "open" /\ owedBar[j] = wanted[j]
    BY <2>1 DEF statusBar, owedBar
  <2>3. k \notin settledBar[j]
    BY <1>4 DEF settledBar
  <2>4. settledBar' = [settledBar EXCEPT ![j] = @ \cup {k}]
    <3>1. \A i \in Jobs : {m \in wanted[i] : Settled(i, m)'}
             = IF i = j THEN {m \in wanted[i] : Settled(i, m)} \cup {k}
                        ELSE {m \in wanted[i] : Settled(i, m)}
      <4> SUFFICES ASSUME NEW i \in Jobs, NEW m \in wanted[i]
                   PROVE  Settled(i, m)' <=> Settled(i, m) \/ (i = j /\ m = k)
        BY <1>4
      <4>1. m \in Kinds
        BY <1>2
      <4>2. CASE i = j /\ m = k
        BY <1>4, <4>2
      <4>3. CASE i # j \/ m # k
        BY <1>3, <4>1, <4>3
      <4> QED BY <4>2, <4>3
    <3> QED BY <3>1 DEF settledBar
  <2> QED BY <1>1, <1>4, <2>2, <2>3, <2>4 DEF O!Settle
<1>5. CASE ~ (k \in wanted[j] /\ Settled(j, k)' /\ ~ Settled(j, k))
  <2>1. \A i \in Jobs : \A m \in wanted[i] : Settled(i, m)' <=> Settled(i, m)
    <3> SUFFICES ASSUME NEW i \in Jobs, NEW m \in wanted[i]
                 PROVE  Settled(i, m)' <=> Settled(i, m)
      OBVIOUS
    <3>1. m \in Kinds
      BY <1>2
    <3>2. CASE i = j /\ m = k
      BY <1>3, <1>5, <3>2
    <3>3. CASE i # j \/ m # k
      BY <1>3, <3>1, <3>3
    <3> QED BY <3>2, <3>3
  <2>2. settledBar' = settledBar
    BY <2>1 DEF settledBar
  <2> QED BY <1>1, <2>2 DEF O!vars
<1> QED BY <1>4, <1>5

(* Passing over a block settles at most its kind.                          *)
LEMMA RefSkip ==
  ASSUME IInv, NEW w \in Workers, SkipBlock(w)
  PROVE  O!Next \/ UNCHANGED O!vars
<1>1. IInv'
  BY InvSkip
<1>2. UNCHANGED <<row, wanted, delivered>>
  BY DEF SkipBlock, durable
<1>3. PICK t : t = worker[w]
  OBVIOUS
<1>4. /\ t.pc = "block" /\ ~ Runs(t)
      /\ skipped' = [skipped EXCEPT ![t.job] = @ \cup ({t.step} \cap t.mem)]
  BY <1>3 DEF SkipBlock
<1>5. /\ t \in ActiveTask /\ t.job \in Jobs /\ row[t.job] # "none" /\ t.step \in Kinds
  BY <1>3, <1>4, LoadedLemma DEF Loaded, TaskInv, BlockInv
<1>6. /\ \A i \in Jobs : i # t.job => skipped'[i] = skipped[i]
      /\ skipped'[t.job] = skipped[t.job] \cup ({t.step} \cap t.mem)
  BY <1>4, <1>5 DEF IInv, TypeOK
<1>7. Grows
  BY <1>2, <1>6 DEF Grows
<1>8. \A i \in Jobs : \A m \in Kinds :
        (i # t.job \/ m # t.step) => (Settled(i, m)' => Settled(i, m))
  BY <1>2, <1>6 DEF Settled, AllDelivered
<1>9. O!Settle(t.job, t.step) \/ UNCHANGED O!vars
  BY <1>1, <1>2, <1>5, <1>7, <1>8, RefSettle
<1> QED BY <1>5, <1>9 DEF O!Next

(* A delivery settles at most the kind of its block.                       *)
LEMMA RefDeliver ==
  ASSUME IInv, NEW w \in Workers, Deliver(w)
  PROVE  O!Next \/ UNCHANGED O!vars
<1>1. IInv'
  BY InvDeliver
<1>2. UNCHANGED <<row, wanted, skipped>>
  BY DEF Deliver, durable
<1>3. PICK t : t = worker[w]
  OBVIOUS
<1>4. t.pc = "block" /\ Runs(t)
  BY <1>3 DEF Deliver
<1>5. /\ t \in ActiveTask /\ t.job \in Jobs /\ row[t.job] # "none"
      /\ t.step \in Kinds /\ t.item \in 1..Items[t.step]
  BY <1>3, <1>4, LoadedLemma DEF Loaded, TaskInv, BlockInv
<1> DEFINE slot == <<t.step, t.item>>
<1>6. slot \in Slots
  BY <1>5, SlotsLemma
<1>7. PICK n \in {0, 1} : delivered' = [delivered EXCEPT ![t.job][slot] = @ + n]
  BY <1>3 DEF Deliver
<1>8. \A m \in Kinds : \A i \in 1..Items[m] : <<m, i>> = slot => m = t.step
  OBVIOUS
<1> HIDE DEF slot
<1>9. \A j \in Jobs : \A s \in Slots :
        /\ delivered[j][s] \in Nat
        /\ delivered'[j][s] = IF j = t.job /\ s = slot THEN delivered[j][s] + n
                                                      ELSE delivered[j][s]
  BY <1>5, <1>6, <1>7 DEF IInv, TypeOK
<1>10. Grows
  <2>1. \A j \in Jobs : \A s \in Slots : delivered[j][s] > 0 => delivered'[j][s] > 0
    BY <1>9
  <2> QED BY <1>2, <2>1 DEF Grows
<1>11. \A i \in Jobs : \A m \in Kinds :
         (i # t.job \/ m # t.step) => (Settled(i, m)' => Settled(i, m))
  <2> SUFFICES ASSUME NEW i \in Jobs, NEW m \in Kinds, i # t.job \/ m # t.step
               PROVE  Settled(i, m)' => Settled(i, m)
    OBVIOUS
  <2>1. \A x \in 1..Items[m] : delivered'[i][<<m, x>>] = delivered[i][<<m, x>>]
    <3> SUFFICES ASSUME NEW x \in 1..Items[m]
                 PROVE  delivered'[i][<<m, x>>] = delivered[i][<<m, x>>]
      OBVIOUS
    <3>1. <<m, x>> \in Slots
      BY SlotsLemma
    <3>2. ~ (i = t.job /\ <<m, x>> = slot)
      BY <1>8
    <3> QED BY <1>9, <3>1, <3>2
  <2> QED BY <1>2, <2>1 DEF Settled, AllDelivered
<1>12. O!Settle(t.job, t.step) \/ UNCHANGED O!vars
  BY <1>1, <1>2, <1>5, <1>10, <1>11, RefSettle
<1> QED BY <1>5, <1>12 DEF O!Next

(* The DELETE closes the job, unless another worker already did.           *)
LEMMA RefDelete ==
  ASSUME IInv, NEW w \in Workers, Delete(w)
  PROVE  O!Next \/ UNCHANGED O!vars
<1>1. UNCHANGED <<wanted, delivered, skipped>>
  BY DEF Delete, history
<1>2. PICK t : t = worker[w]
  OBVIOUS
<1>3. t.pc = "delete"
  BY <1>2 DEF Delete
<1>4. t.job \in Jobs /\ row[t.job] # "none" /\ TaskInv(t)
  BY <1>2, <1>3, LoadedLemma DEF Loaded
<1>5. \A k \in wanted[t.job] : Settled(t.job, k)
  BY <1>3, <1>4 DEF TaskInv, DoneInv
<1>6. CASE row' = [row EXCEPT ![t.job] = "deleted"] /\ row[t.job] = "present"
  <2>1. \A i \in Jobs : row'[i] = IF i = t.job THEN "deleted" ELSE row[i]
    BY <1>6 DEF IInv, TypeOK
  <2>2. statusBar[t.job] = "open" /\ owedBar[t.job] = wanted[t.job]
    BY <1>4, <1>6 DEF statusBar, owedBar
  <2>3. owedBar[t.job] \subseteq settledBar[t.job]
    BY <1>4, <1>5, <2>2 DEF settledBar
  <2>4. statusBar' = [statusBar EXCEPT ![t.job] = "closed"]
    BY <2>1 DEF statusBar
  <2>5. owedBar' = owedBar
    BY <1>1, <1>6, <2>1 DEF owedBar
  <2>6. settledBar' = settledBar
    BY <1>1 DEF settledBar, Settled, AllDelivered
  <2>7. O!Close(t.job)
    BY <2>2, <2>3, <2>4, <2>5, <2>6 DEF O!Close
  <2> QED BY <1>4, <2>7 DEF O!Next
<1>7. CASE row' = row
  BY <1>1, <1>7, Invisible
<1>8. \/ row' = row
      \/ row' = [row EXCEPT ![t.job] = "deleted"] /\ row[t.job] = "present"
  <2>1. row[t.job] = "present" \/ row[t.job] = "deleted"
    BY <1>4 DEF IInv, TypeOK
  <2>2. row' = row \/ row' = [row EXCEPT ![t.job] = "deleted"]
    BY <1>2 DEF Delete, durable
  <2> QED BY <2>1, <2>2 DEF IInv, TypeOK
<1> QED BY <1>6, <1>7, <1>8

(* The initial states are initial states of the outbox.                    *)
LEMMA RefInit == Init => O!Init
<1> SUFFICES ASSUME Init PROVE O!Init
  OBVIOUS
<1>1. statusBar = [j \in Jobs |-> "none"] /\ owedBar = [j \in Jobs |-> {}]
  BY DEF Init, statusBar, owedBar
<1>2. settledBar = [j \in Jobs |-> {}]
  BY DEF Init, settledBar
<1> QED BY <1>1, <1>2 DEF O!Init

(* Every step is a step of the outbox, or invisible to it.                 *)
LEMMA RefNext == IInv /\ [Next]_vars => [O!Next]_(O!vars)
<1> SUFFICES ASSUME IInv, [Next]_vars PROVE O!Next \/ UNCHANGED O!vars
  OBVIOUS
<1>1. ASSUME NEW j \in Jobs, Handle(j) PROVE UNCHANGED O!vars
  BY <1>1, RefHandle
<1>2. ASSUME NEW j \in Jobs, RequestStep(j) PROVE O!Next \/ UNCHANGED O!vars
  <2>1. CASE Insert(j)
    <3>1. wanted[j] \in SUBSET Kinds
      BY DEF IInv, TypeOK
    <3> QED BY <2>1, <3>1, RefInsert DEF O!Next
  <2>2. CASE Schedule(j)
    <3>1. UNCHANGED <<row, wanted, delivered, skipped>>
      BY <2>2 DEF Schedule, durable, history
    <3> QED BY <3>1, Invisible
  <2> QED BY <1>2, <2>1, <2>2 DEF RequestStep
<1>3. ASSUME NEW w \in Workers, WorkerStep(w) \/ Redispatch(w)
      PROVE  O!Next \/ UNCHANGED O!vars
  <2>1. CASE SkipBlock(w) \/ Deliver(w) \/ Delete(w)
    BY <2>1, RefSkip, RefDeliver, RefDelete
  <2>2. CASE \/ Begin(w) \/ Redispatch(w) \/ Check(w) \/ BootFlag(w)
            \/ BootField(w) \/ Find(w)
    <3>1. UNCHANGED <<row, wanted, delivered, skipped>>
      BY <2>2 DEF Begin, Redispatch, Check, BootFlag, BootField, Find, durable, history
    <3> QED BY <3>1, Invisible
  <2>3. CASE Save(w) \/ Fail(w)
    <3>1. UNCHANGED <<wanted, delivered, skipped>>
      BY <2>3 DEF Save, Fail, history
    <3>2. UNCHANGED row
      BY <2>3 DEF Save, Fail, UpdateRow, durable
    <3> QED BY <3>1, <3>2, Invisible
  <2> QED BY <1>3, <2>1, <2>2, <2>3 DEF WorkerStep
<1>4. CASE Crash \/ UNCHANGED vars
  <2>1. UNCHANGED <<row, wanted, delivered, skipped>>
    BY <1>4 DEF Crash, vars, durable, history
  <2> QED BY <2>1, Invisible
<1> QED BY <1>1, <1>2, <1>3, <1>4 DEF Next

(* The jobs table and its workers implement the outbox: a job is accepted  *)
(* once, each effect settles at most once and before the job is closed,    *)
(* and a closed job never changes again.                                   *)
THEOREM OutboxCorrect == Spec => ImplementsOutbox
<1>1. Spec => O!Init /\ [][O!Next]_(O!vars)
  BY RefInit, RefNext, InvCorrect, PTL DEF Spec
<1> QED BY <1>1 DEF ImplementsOutbox, O!Spec
=============================================================================
