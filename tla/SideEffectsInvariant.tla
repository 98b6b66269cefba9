------------------------ MODULE SideEffectsInvariant ------------------------
(***************************************************************************)
(* The inductive strengthening of NothingDropped and BlocksInOrder: what   *)
(* the request threads, the rows, the queue and the workers' private       *)
(* copies of a row know about one another.  Then that of OneDriver,        *)
(* OncePerDrive, RowsOnlyProgress, OrphansNeedAFault, DiscardsNeedTheRace  *)
(* and AmbiguousBeanSilencesLaterOnes: who drives a job, and how far, and  *)
(* which fields bootstrap() has left.                                      *)
(***************************************************************************)
EXTENDS SideEffects

(* The request thread: the row does not exist before the insert, and from  *)
(* the insert on it always did.                                            *)
RequestInv ==
    \A j \in Jobs :
        /\ request[j] \in {"idle", "handled"} => row[j] = "none"
        /\ request[j] = "handled" => wanted[j] # {}
        /\ request[j] = "stored" => row[j] # "none"

(* Nothing has happened to the effects of a job that has no row.           *)
UnbornInv ==
    \A j \in Jobs : row[j] = "none" =>
        /\ skipped[j] = {}
        /\ \A s \in Slots : delivered[j][s] = 0

(* What is queued or driven is a stored job.                               *)
QueueInv == \A j \in queue : row[j] # "none"

Loaded == {"block", "save", "delete", "fail"}

(* A worker's copy of the row lacks only settled kinds.                    *)
CopyInv(t) ==
    t.pc \in Loaded =>
        /\ t.mem \subseteq wanted[t.job]
        /\ \A k \in wanted[t.job] : k \in t.mem \/ Settled(t.job, k)

(* A worker in a block has settled every earlier kind, and delivered the   *)
(* earlier effects of this one.                                            *)
BlockInv(t) ==
    t.pc \in {"block", "save"} =>
        /\ t.step \in Kinds
        /\ t.item \in 1..Items[t.step]
        /\ \A k \in wanted[t.job] : k < t.step => Settled(t.job, k)
        /\ \A i \in 1..Items[t.step] : i < t.item => delivered[t.job][<<t.step, i>>] > 0

(* After a block's loop its kind is delivered; after the last block every  *)
(* kind is settled.                                                        *)
DoneInv(t) ==
    /\ t.pc = "save" => AllDelivered(t.job, t.step)
    /\ t.pc = "delete" => \A k \in wanted[t.job] : Settled(t.job, k)

TaskInv(t) ==
    /\ t.pc # "idle" => t.job \in Jobs /\ row[t.job] # "none"
    /\ CopyInv(t) /\ BlockInv(t) /\ DoneInv(t)

WorkerInv == \A w \in Workers : TaskInv(worker[w])

(* A row is deleted only when nothing is left to do for it.                *)
ClosedInv ==
    \A j \in Jobs : row[j] = "deleted" => \A k \in wanted[j] : Settled(j, k)

RowInv == \A j \in Jobs : row[j] # "none" => rowData[j] \subseteq wanted[j]

IInv ==
    /\ TypeOK
    /\ RequestInv /\ UnbornInv /\ QueueInv /\ RowInv /\ WorkerInv
    /\ NothingDropped /\ ClosedInv /\ BlocksInOrder

-----------------------------------------------------------------------------
(* A job that its request has not handed to the scheduler yet is neither   *)
(* queued nor driven.                                                      *)
NotScheduledInv ==
    redispatches = 0 =>
        \A j \in Jobs : request[j] \in {"idle", "handled", "stored"} => j \notin queue /\ ~ Driven(j)

(* The only driver's copy is no older than the row.                        *)
FreshCopyInv ==
    redispatches = 0 =>
        \A w \in Workers :
            LET t == worker[w]
            IN t.pc \in Loaded /\ row[t.job] = "present" =>
                   t.mem \subseteq rowData[t.job] /\ t.errors >= rowErrors[t.job]

(* The slot s is still ahead of a worker at t.                             *)
Ahead(t, s) ==
    \/ t.pc \in {"check", "boot", "find"}
    \/ t.pc = "block" /\ (t.step < s[1] \/ (t.step = s[1] /\ t.item <= s[2]))
    \/ t.pc = "save" /\ t.step < s[1]

(* Each drive delivers an effect once, and those that have not come to it  *)
(* yet are still to be counted.                                            *)
Coming(j, s) == {w \in Workers : worker[w].job = j /\ Ahead(worker[w], s)}

DriveInv ==
    \A j \in Jobs : \A s \in Slots :
        /\ IsFiniteSet(Coming(j, s))
        /\ delivered[j][s] + Cardinality(Coming(j, s)) <= drives[j]

(* A worker is in the catch block because a call has failed.               *)
FailInv == \A w \in Workers : worker[w].pc = "fail" => failures > 0

(* bootstrap() never gets past a field of several beans.                   *)
BootInv ==
    /\ \A w \in Workers : worker[w].pc = "boot" =>
         \A m \in 1..5 : m < worker[w].step => Beans[BootOrder[m]] # 2
    /\ \A m, n \in 1..5 : m <= n /\ Beans[BootOrder[m]] = 2 => ~ sink[BootOrder[n]]

(* A worker that found the flag raised, or has raised it.                  *)
PastFlag(t) == t.pc \in Loaded \cup {"find"} \/ (t.pc = "boot" /\ t.step > 0)

(* Who is past the flag left it up, and a registered field is null only in *)
(* front of a thread that will assign it, or behind a lookup that throws.  *)
FieldsInv ==
    /\ \A w \in Workers : PastFlag(worker[w]) => initialized
    /\ \A n \in 1..5 : (initialized /\ Beans[BootOrder[n]] = 1)
            => sink[BootOrder[n]] \/ LookupPending(n) \/ LookupThrows(n)

DInv ==
    /\ IInv
    /\ NotScheduledInv /\ OneDriver /\ FreshCopyInv
    /\ DriveInv
    /\ FailInv /\ OrphansNeedAFault
    /\ BootInv /\ FieldsInv /\ AmbiguousBeanSilencesLaterOnes
=============================================================================
