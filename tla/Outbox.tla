------------------------------- MODULE Outbox -------------------------------
(***************************************************************************)
(* What the jobs table promises, whoever executes it: once a job is        *)
(* accepted each effect it owes is settled (handed to its sink, or given   *)
(* up because it has none), and the job is closed, once, after the last of *)
(* them.                                                                   *)
(***************************************************************************)
CONSTANTS Jobs, Kinds

VARIABLES status,   \* "none", "open", "closed"
          owed,     \* the kinds of effect the job was accepted with
          settled   \* those of them that are settled

vars == <<status, owed, settled>>

Init ==
    /\ status = [j \in Jobs |-> "none"]
    /\ owed = [j \in Jobs |-> {}]
    /\ settled = [j \in Jobs |-> {}]

(* A job is accepted with the effects it owes, none of them settled.       *)
Accept(j, ks) ==
    /\ status[j] = "none"
    /\ ks # {}
    /\ status' = [status EXCEPT ![j] = "open"]
    /\ owed' = [owed EXCEPT ![j] = ks]
    /\ UNCHANGED settled

(* The last effect of kind k is settled.                                   *)
Settle(j, k) ==
    /\ status[j] = "open"
    /\ k \in owed[j] \ settled[j]
    /\ settled' = [settled EXCEPT ![j] = @ \cup {k}]
    /\ UNCHANGED <<status, owed>>

Close(j) ==
    /\ status[j] = "open"
    /\ owed[j] \subseteq settled[j]
    /\ status' = [status EXCEPT ![j] = "closed"]
    /\ UNCHANGED <<owed, settled>>

Next ==
    \E j \in Jobs :
        \/ \E ks \in SUBSET Kinds : Accept(j, ks)
        \/ \E k \in Kinds : Settle(j, k)
        \/ Close(j)

Spec == Init /\ [][Next]_vars
=============================================================================
