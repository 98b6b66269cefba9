---------------------------- MODULE SideEffects ----------------------------
(***************************************************************************)
(* The side effects of a command: the jobs table, its scheduler and the    *)
(* workers that drive a stored job.                                        *)
(*                                                                         *)
(* A command handler collects data points, delayed jobs, events, hooks and *)
(* activities in its context.  OperationDispatcher.apply hands them, after *)
(* the handler returned, to PlatformSideEffectsHandler.enqueue, which      *)
(* inserts a row into f_pending_jobs and then asks the scheduler to run    *)
(* ProcessSideEffect for it.  A pool thread runs SideEffectProcessor,      *)
(* which looks its collaborators up once (bootstrap), loads the row,       *)
(* executes the five blocks in a fixed order, rewrites the row after each  *)
(* block, and deletes it after the last one.  The table survives a crash;  *)
(* the scheduler's queue, the pool and the looked-up beans do not.         *)
(***************************************************************************)
EXTENDS Naturals, FiniteSets

CONSTANTS
    Jobs,            \* one per executed operation, the id of its row
    Workers,         \* threads that can run ProcessSideEffect (six in the code)
    NoJob,           \* the job of an idle worker
    AskedKinds,      \* kinds of effect an operation of the model may ask for
    Items,           \* how many effects of a kind an operation asks for
    Beans,           \* how many beans of a kind's sink type are registered: 0, 1, 2 (several)
    MaxFailures,     \* bound: database and sink calls that throw
    MaxCrashes,      \* bound: crashes of the JVM
    MaxRedispatches  \* bound: extra dispatches of ProcessSideEffect for a stored id

(* The kinds of effect, numbered in the order of the blocks of handle().   *)
DataPoints  == 1
DelayedJobs == 2
Events      == 3
Hooks       == 4
Activities  == 5
Kinds       == 1..5

(* The order in which bootstrap() assigns the fields the blocks read.      *)
BootOrder == <<Activities, Events, Hooks, DataPoints, DelayedJobs>>

ASSUME ConstantsAssumption ==
    /\ NoJob \notin Jobs
    /\ AskedKinds \subseteq Kinds
    /\ Items \in [Kinds -> Nat \ {0}]
    /\ Beans \in [Kinds -> 0..2]
    /\ MaxFailures \in Nat /\ MaxCrashes \in Nat /\ MaxRedispatches \in Nat

(* A slot is the i-th effect of kind k; one write covers all data points.  *)
Slots == UNION {{k} \X (1..Items[k]) : k \in Kinds}

VARIABLES
    request,      \* progress of the request thread that runs the operation
    wanted,       \* the kinds of effect the operation collected
    row,          \* the job's row of f_pending_jobs: "none", "present", "deleted"
    rowData,      \* its data column: the kinds not yet set to null
    rowErrors,    \* its errorsCount column
    queue,        \* jobs whose ProcessSideEffect waits in the executor
    worker,       \* what each worker is doing
    initialized,  \* SideEffectProcessor.initialized
    sink,         \* sink[k]: the field block k reads is not null
    delivered,    \* history: deliveries of each effect to its sink
    skipped,      \* history: blocks with work passed over because of a null field
    drives,       \* history: how often a worker took the job up
    failures, crashes, redispatches

durable  == <<row, rowData, rowErrors>>
volatile == <<queue, initialized, sink>>
history  == <<delivered, skipped, drives>>
bounds   == <<failures, crashes, redispatches>>
vars     == <<request, wanted, durable, volatile, worker, history, bounds>>

ActivePCs == {"check", "boot", "find", "block", "save", "delete", "fail"}

(* step is the field being assigned in "boot", the block's kind in "block" *)
(* and "save"; mem and errors are the loaded row's data and errorsCount.   *)
Work(pc, job, mem, errors, step, item) ==
    [pc |-> pc, job |-> job, mem |-> mem, errors |-> errors, step |-> step, item |-> item]

Before(pc, job, step) == Work(pc, job, {}, 0, step, 1)

Idle == Before("idle", NoJob, 0)

(* The task t, whose copy of the row has the data mem, is now at pc.       *)
At(pc, t, mem, step, item) == Work(pc, t.job, mem, t.errors, step, item)

ActiveTask == [pc : ActivePCs, job : Jobs, mem : SUBSET Kinds, errors : Nat,
               step : 0..5, item : Nat \ {0}]

Tasks == ActiveTask \cup {Idle}

TypeOK ==
    /\ request \in [Jobs -> {"idle", "handled", "stored", "answered", "failed"}]
    /\ wanted \in [Jobs -> SUBSET Kinds]
    /\ row \in [Jobs -> {"none", "present", "deleted"}]
    /\ rowData \in [Jobs -> SUBSET Kinds]
    /\ rowErrors \in [Jobs -> Nat]
    /\ queue \subseteq Jobs
    /\ worker \in [Workers -> Tasks]
    /\ initialized \in BOOLEAN
    /\ sink \in [Kinds -> BOOLEAN]
    /\ delivered \in [Jobs -> [Slots -> Nat]]
    /\ skipped \in [Jobs -> SUBSET Kinds]
    /\ drives \in [Jobs -> Nat]
    /\ failures \in Nat /\ crashes \in Nat /\ redispatches \in Nat

Init ==
    /\ request = [j \in Jobs |-> "idle"]
    /\ wanted = [j \in Jobs |-> {}]
    /\ row = [j \in Jobs |-> "none"]
    /\ rowData = [j \in Jobs |-> {}]
    /\ rowErrors = [j \in Jobs |-> 0]
    /\ queue = {}
    /\ worker = [w \in Workers |-> Idle]
    /\ initialized = FALSE
    /\ sink = [k \in Kinds |-> FALSE]
    /\ delivered = [j \in Jobs |-> [s \in Slots |-> 0]]
    /\ skipped = [j \in Jobs |-> {}]
    /\ drives = [j \in Jobs |-> 0]
    /\ failures = 0 /\ crashes = 0 /\ redispatches = 0

(* A call to the database or to a sink throws.                             *)
CallFails == failures < MaxFailures /\ failures' = failures + 1

-----------------------------------------------------------------------------
(* The request thread.                                                     *)

(* operation.handle() has returned and its own writes are committed.  With *)
(* no effect, or when the operation is no command (or a ServiceWorker or   *)
(* OnServiceStarted), the call is over and whatever it collected is        *)
(* dropped; otherwise enqueue() is next.                                   *)
Handle(j) ==
    /\ request[j] = "idle"
    /\ \/ request' = [request EXCEPT ![j] = "answered"] /\ UNCHANGED wanted
       \/ \E ks \in (SUBSET AskedKinds) \ {{}} :
            /\ request' = [request EXCEPT ![j] = "handled"]
            /\ wanted' = [wanted EXCEPT ![j] = ks]
    /\ UNCHANGED <<durable, volatile, worker, history, bounds>>

(* pendingJobs.insert(DEFAULT, job).  An exception reaches the caller.     *)
Insert(j) ==
    /\ request[j] = "handled"
    /\ \/ /\ request' = [request EXCEPT ![j] = "stored"]
          /\ row' = [row EXCEPT ![j] = "present"]
          /\ rowData' = [rowData EXCEPT ![j] = wanted[j]]
          /\ UNCHANGED <<rowErrors, failures>>
       \/ /\ CallFails
          /\ request' = [request EXCEPT ![j] = "failed"]
          /\ UNCHANGED durable
    /\ UNCHANGED <<wanted, volatile, worker, history, crashes, redispatches>>

(* Mutant: the scheduler keeps only the last task it was given.            *)
Schedule_KeepsLast(j) ==
    /\ request[j] = "stored"
    /\ request' = [request EXCEPT ![j] = "answered"]
    /\ queue' = {j}
    /\ UNCHANGED <<wanted, durable, initialized, sink, worker, history, bounds>>

(* scheduler.enqueue(uuid, ProcessSideEffect, id, context): an in-memory   *)
(* task of the executor; the request is answered.                          *)
Schedule(j) ==
    /\ request[j] = "stored"
    /\ request' = [request EXCEPT ![j] = "answered"]
    /\ queue' = queue \cup {j}
    /\ UNCHANGED <<wanted, durable, initialized, sink, worker, history, bounds>>

-----------------------------------------------------------------------------
(* The worker threads.                                                     *)

Become(w, t) == worker' = [worker EXCEPT ![w] = t]

TakeUp(w, j) ==
    /\ worker[w] = Idle
    /\ Become(w, Before("check", j, 0))
    /\ drives' = [drives EXCEPT ![j] = @ + 1]

(* Mutant: the task is looked at, not taken out.                           *)
Begin_Peeks(w) ==
    \E j \in queue :
        /\ TakeUp(w, j)
        /\ UNCHANGED <<request, wanted, durable, volatile, delivered, skipped, bounds>>

(* The executor hands a due task to a pool thread.                         *)
Begin(w) ==
    \E j \in queue :
        /\ TakeUp(w, j)
        /\ queue' = queue \ {j}
        /\ UNCHANGED <<request, wanted, durable, initialized, sink, delivered, skipped, bounds>>

(* ProcessSideEffect is dispatched for an id once more: by an             *)
(* OperationScheduler that delivers at least once, or by a message naming  *)
(* the operation.  Nothing under src/ does it; see MaxRedispatches.        *)
Redispatch(w) ==
    /\ redispatches < MaxRedispatches
    /\ redispatches' = redispatches + 1
    /\ \E j \in Jobs : row[j] # "none" /\ TakeUp(w, j)
    /\ UNCHANGED <<request, wanted, durable, volatile, delivered, skipped, failures, crashes>>

(* bootstrap(): if (!initialized) ...                                      *)
Check(w) ==
    /\ worker[w].pc = "check"
    /\ \/ initialized /\ Become(w, Before("find", worker[w].job, 0))
       \/ ~ initialized /\ Become(w, Before("boot", worker[w].job, 0))
    /\ UNCHANGED <<request, wanted, durable, volatile, history, bounds>>

(* ... { initialized = true;                                               *)
BootFlag(w) ==
    /\ worker[w].pc = "boot" /\ worker[w].step = 0
    /\ initialized' = TRUE
    /\ Become(w, Before("boot", worker[w].job, 1))
    /\ UNCHANGED <<request, wanted, durable, queue, sink, history, bounds>>

(* Mutants: several beans are like none; none is like several.             *)
Ambiguous_Never(k) == Beans[k] > 2
Ambiguous_OrMissing(k) == Beans[k] # 1

(* findBean: hasMoreThanOne.                                               *)
Ambiguous(k) == Beans[k] > 1

(* this.<field> = findBean(...).orElse(null), one field after another.     *)
(* Several beans of a type make findBean throw: the dispatch ends, and     *)
(* initialized stays true.                                                 *)
BootField(w) ==
    /\ worker[w].pc = "boot" /\ worker[w].step > 0
    /\ LET t == worker[w]
           k == BootOrder[t.step]
       IN  \/ /\ Ambiguous(k)
              /\ Become(w, Idle)
              /\ UNCHANGED sink
           \/ /\ ~ Ambiguous(k)
              /\ sink' = [sink EXCEPT ![k] = (Beans[k] = 1)]
              /\ \/ t.step < 5 /\ Become(w, Before("boot", t.job, t.step + 1))
                 \/ t.step = 5 /\ Become(w, Before("find", t.job, 0))
    /\ UNCHANGED <<request, wanted, durable, queue, initialized, history, bounds>>

(* consume(): findById.  A missing row is a warning; an exception is not   *)
(* caught here and ends the task.                                          *)
Find(w) ==
    /\ worker[w].pc = "find"
    /\ LET t == worker[w]
       IN  \/ /\ row[t.job] = "present"
              /\ Become(w, Work("block", t.job, rowData[t.job], rowErrors[t.job], 1, 1))
              /\ UNCHANGED failures
           \/ row[t.job] # "present" /\ Become(w, Idle) /\ UNCHANGED failures
           \/ CallFails /\ Become(w, Idle)
    /\ UNCHANGED <<request, wanted, durable, volatile, history, crashes, redispatches>>

(* Mutants: one block too many; the step is not advanced.                  *)
AfterBlock_OneMore(t, mem) ==
    IF t.step <= 5 THEN At("block", t, mem, t.step + 1, 1) ELSE At("delete", t, mem, 5, 1)
AfterBlock_Stays(t, mem) ==
    IF t.step < 5 THEN At("block", t, mem, t.step, 1) ELSE At("delete", t, mem, 5, 1)

(* The block is over: go on with the next one, or delete the row.          *)
AfterBlock(t, mem) ==
    IF t.step < 5 THEN At("block", t, mem, t.step + 1, 1) ELSE At("delete", t, mem, 5, 1)

(* if (<sink> != null && sideEffects.has<Kind>())                          *)
Runs(t) == sink[t.step] /\ t.step \in t.mem

(* The block is passed over.                                               *)
SkipBlock(w) ==
    LET t == worker[w]
    IN  /\ t.pc = "block"
        /\ ~ Runs(t)
        /\ Become(w, AfterBlock(t, t.mem))
        /\ skipped' = [skipped EXCEPT ![t.job] = @ \cup ({t.step} \cap t.mem)]
        /\ UNCHANGED <<request, wanted, durable, volatile, delivered, drives, bounds>>

(* Mutants: the loop ends after its first effect; it does not advance.     *)
AfterItem_First(t) == At("save", t, t.mem, t.step, t.item)
AfterItem_Again(t) ==
    IF t.item < Items[t.step] THEN t ELSE At("save", t, t.mem, t.step, t.item)

(* for (x : sideEffects.get<Kind>()): the next effect, or the loop's end.  *)
AfterItem(t) ==
    IF t.item < Items[t.step] THEN At("block", t, t.mem, t.step, t.item + 1)
                              ELSE At("save", t, t.mem, t.step, t.item)

(* One call to the sink inside the block's loop.  A call that throws may   *)
(* have had its effect (a broker took the message and the reply was lost). *)
Deliver(w) ==
    LET t == worker[w]
        Count(n) == delivered' = [delivered EXCEPT ![t.job][<<t.step, t.item>>] = @ + n]
    IN  /\ t.pc = "block"
        /\ Runs(t)
        /\ \/ /\ Count(1)
              /\ Become(w, AfterItem(t))
              /\ UNCHANGED failures
           \/ /\ CallFails
              /\ Count(0) \/ Count(1)
              /\ Become(w, At("fail", t, t.mem, t.step, t.item))
        /\ UNCHANGED <<request, wanted, durable, volatile, skipped, drives, crashes, redispatches>>

(* Mutant: the UPDATE inserts a missing row.                               *)
UpdateRow_Upserts(j, data, errors) ==
    /\ row' = [row EXCEPT ![j] = "present"]
    /\ rowData' = [rowData EXCEPT ![j] = data]
    /\ rowErrors' = [rowErrors EXCEPT ![j] = errors]

(* UPDATE f_pending_jobs SET all columns WHERE id: no row, no change.      *)
UpdateRow(j, data, errors) ==
    IF row[j] = "present"
    THEN /\ rowData' = [rowData EXCEPT ![j] = data]
         /\ rowErrors' = [rowErrors EXCEPT ![j] = errors]
         /\ UNCHANGED row
    ELSE UNCHANGED durable

(* Mutant: the wrong setter nulls the next list as well.                   *)
Left_NullsNext(t) == t.mem \ {t.step, t.step + 1}

(* sideEffects.set<Kind>(null)                                             *)
Left(t) == t.mem \ {t.step}

(* updateJob(): setData on the loaded job, then the UPDATE.                *)
Save(w) ==
    LET t == worker[w]
    IN  /\ t.pc = "save"
        /\ \/ /\ UpdateRow(t.job, Left(t), t.errors)
              /\ Become(w, AfterBlock(t, Left(t)))
              /\ UNCHANGED failures
           \/ /\ CallFails
              /\ Become(w, At("fail", t, Left(t), t.step, t.item))
              /\ UNCHANGED durable
        /\ UNCHANGED <<request, wanted, volatile, history, crashes, redispatches>>

(* The consumer returned true: DELETE the row.                             *)
Delete(w) ==
    LET t == worker[w]
    IN  /\ t.pc = "delete"
        /\ \/ /\ row' = [row EXCEPT ![t.job] = "deleted"]
              /\ rowData' = [rowData EXCEPT ![t.job] = {}]
              /\ rowErrors' = [rowErrors EXCEPT ![t.job] = 0]
              /\ Become(w, Idle)
              /\ UNCHANGED failures
           \/ /\ CallFails
              /\ Become(w, At("fail", t, t.mem, t.step, t.item))
              /\ UNCHANGED durable
        /\ UNCHANGED <<request, wanted, volatile, history, crashes, redispatches>>

(* catch (Exception e): job.failed(), then the UPDATE with the progress    *)
(* made in memory.  If it throws too the scheduler logs the exception.     *)
Fail(w) ==
    LET t == worker[w]
    IN  /\ t.pc = "fail"
        /\ \/ UpdateRow(t.job, t.mem, t.errors + 1) /\ UNCHANGED failures
           \/ CallFails /\ UNCHANGED durable
        /\ Become(w, Idle)
        /\ UNCHANGED <<request, wanted, volatile, history, crashes, redispatches>>

-----------------------------------------------------------------------------
(* The JVM stops and starts again: only the table is kept, and no code     *)
(* looks at the rows it finds there.                                       *)
Crash ==
    /\ crashes < MaxCrashes
    /\ crashes' = crashes + 1
    /\ request' = [j \in Jobs |-> IF request[j] \in {"handled", "stored"}
                                  THEN "failed" ELSE request[j]]
    /\ queue' = {}
    /\ worker' = [w \in Workers |-> Idle]
    /\ initialized' = FALSE
    /\ sink' = [k \in Kinds |-> FALSE]
    /\ UNCHANGED <<wanted, durable, history, failures, redispatches>>

RequestStep(j) == Insert(j) \/ Schedule(j)

WorkerStep(w) ==
    \/ Begin(w) \/ Check(w) \/ BootFlag(w) \/ BootField(w) \/ Find(w)
    \/ SkipBlock(w) \/ Deliver(w) \/ Save(w) \/ Delete(w) \/ Fail(w)

Next ==
    \/ \E j \in Jobs : Handle(j) \/ RequestStep(j)
    \/ \E w \in Workers : WorkerStep(w) \/ Redispatch(w)
    \/ Crash

Spec == Init /\ [][Next]_vars

(* Threads that can run do run; nobody has to call an operation, and       *)
(* nothing has to crash or to dispatch a job again.                        *)
Fairness ==
    /\ \A j \in Jobs : WF_vars(RequestStep(j))
    /\ \A w \in Workers : WF_vars(WorkerStep(w))

FairSpec == Spec /\ Fairness

-----------------------------------------------------------------------------
(* Properties.                                                             *)

AllDelivered(j, k) == \A i \in 1..Items[k] : delivered[j][<<k, i>>] > 0

(* A kind is settled when each of its effects reached its sink, or when    *)
(* its block was passed over for want of a sink.                           *)
Settled(j, k) == k \in skipped[j] \/ AllDelivered(j, k)

(* Whatever fails, crashes or runs twice: an effect the operation asked    *)
(* for is settled or still in the data column of its row, so the rewriting *)
(* of the row between blocks and its deletion never drop one.              *)
NothingDropped ==
    \A j \in Jobs : row[j] # "none" =>
        \A k \in wanted[j] : k \in rowData[j] \/ Settled(j, k)

(* The blocks run in the order of handle(): no event leaves before all the *)
(* job's data points are written, no hook before all its events are, ...   *)
BlocksInOrder ==
    \A j \in Jobs : \A s \in Slots : delivered[j][s] > 0 =>
        /\ s[1] \in wanted[j]
        /\ \A k \in wanted[j] : k < s[1] => Settled(j, k)

(* No effect is delivered more often than its job was taken up; without a  *)
(* second dispatch that is at most once, whatever fails or crashes.        *)
OncePerDrive == \A j \in Jobs : \A s \in Slots : delivered[j][s] <= drives[j]

Driven(j) == \E w \in Workers : worker[w].job = j

(* A stored job that nobody will look at again was hit by a failed call or *)
(* a crash (or by a bootstrap that threw): in a quiet run none is orphaned.*)
OrphansNeedAFault ==
    \A j \in Jobs :
        (row[j] = "present" /\ request[j] # "stored" /\ j \notin queue /\ ~ Driven(j))
            => failures + crashes > 0 \/ \E k \in Kinds : Beans[k] = 2

(* A job waits in the executor's queue or is driven by at most one worker, *)
(* so without a second dispatch no two workers ever share a row.           *)
OneDriver ==
    redispatches = 0 =>
        \A j \in Jobs :
            /\ \A w1, w2 \in Workers : worker[w1].job = j /\ worker[w2].job = j => w1 = w2
            /\ j \in queue => ~ Driven(j)

(* A row's work only shrinks and its error count only grows, and a deleted *)
(* row stays deleted although other workers may still update it.  (The     *)
(* first two need that the job is dispatched only once.)                   *)
RowsOnlyProgress ==
    [][\A j \in Jobs :
        /\ row[j] = "deleted" => row'[j] = "deleted"
        /\ row[j] = "present" /\ redispatches' = 0
             => /\ rowData'[j] \subseteq rowData[j]
                /\ row'[j] = "present" => rowErrors'[j] >= rowErrors[j]]_vars

(* A thread is inside bootstrap(), at the n-th field or in front of it.    *)
LookupPending(n) == \E w \in Workers : worker[w].pc = "boot" /\ worker[w].step \in 1..n

(* bootstrap() throws before it has assigned the n-th field.               *)
LookupThrows(n) == \E m \in 1..n : Beans[BootOrder[m]] = 2

(* The effects of a collaborator that is registered once are passed over   *)
(* only during the race, while some thread that saw the flag down has yet  *)
(* to assign the field (SideEffectProcessor.java:49-64), or because an     *)
(* earlier lookup throws: bootstrap() leaves no registered field null      *)
(* behind it, also when two threads run it at once and when a crash of the *)
(* JVM makes a third one start again.                                      *)
DiscardsNeedTheRace ==
    [][\A j \in Jobs : \A n \in 1..5 :
        (BootOrder[n] \in skipped'[j] \ skipped[j] /\ Beans[BootOrder[n]] = 1)
            => LookupPending(n) \/ LookupThrows(n)]_vars

(* Effects are discarded only when nobody registered a bean for them: what *)
(* the messages logged by bootstrap() announce.                            *)
OnlyUnregisteredDiscarded ==
    \A j \in Jobs : \A k \in skipped[j] : Beans[k] = 0

(* Because the flag is raised before the lookups, a collaborator that is   *)
(* registered twice silences for good every collaborator that bootstrap()  *)
(* looks up after it: their effects never leave, in any life of the JVM.   *)
AmbiguousBeanSilencesLaterOnes ==
    \A m, n \in 1..5 : (m <= n /\ Beans[BootOrder[m]] = 2) =>
        \A j \in Jobs : \A s \in Slots : s[1] = BootOrder[n] => delivered[j][s] = 0

(* A task given to the executor is run to its end, one way or another.     *)
EveryTaskEnds ==
    \A j \in Jobs : (j \in queue \/ Driven(j)) ~> (j \notin queue /\ ~ Driven(j))

(* Until the first call fails or the JVM crashes, every stored job is      *)
(* completed and its row deleted.                                          *)
StoredJobsComplete ==
    \A j \in Jobs : row[j] = "present" ~> (row[j] = "deleted" \/ failures + crashes > 0)

(* A job whose drive failed is driven again, until it is completed: what   *)
(* the saved progress and the counter of failures are for.                 *)
FailedJobsAreRetried ==
    \A j \in Jobs : (row[j] = "present" /\ rowErrors[j] = 1)
        ~> (row[j] = "deleted" \/ rowErrors[j] > 1)
=============================================================================
