------------------------- MODULE SideEffectsOutbox -------------------------
(***************************************************************************)
(* SideEffects implements Outbox: a job is accepted when its row is        *)
(* inserted, a kind is settled when its last effect is, and the job is     *)
(* closed when its row is deleted.                                         *)
(***************************************************************************)
EXTENDS SideEffects

statusBar  == [j \in Jobs |-> IF row[j] = "none" THEN "none"
                              ELSE IF row[j] = "present" THEN "open" ELSE "closed"]
owedBar    == [j \in Jobs |-> IF row[j] = "none" THEN {} ELSE wanted[j]]
settledBar == [j \in Jobs |-> {k \in wanted[j] : Settled(j, k)}]

O == INSTANCE Outbox WITH status <- statusBar, owed <- owedBar, settled <- settledBar

(* Every behaviour of the code, with its failures, crashes, races and      *)
(* second dispatches, is a behaviour the abstract outbox allows.           *)
ImplementsOutbox == O!Spec
=============================================================================
