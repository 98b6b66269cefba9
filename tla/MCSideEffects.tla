--------------------------- MODULE MCSideEffects ---------------------------
(***************************************************************************)
(* Instances of SideEffects for TLC, and its refinement of Outbox.         *)
(***************************************************************************)
EXTENDS SideEffectsOutbox, SideEffectsInvariant, TLC

(* Two events, one effect of every other kind.                             *)
TwoEvents == [k \in Kinds |-> IF k = Events THEN 2 ELSE 1]

OneEach == [k \in Kinds |-> 1]

(* Every collaborator is registered once.                                  *)
AllRegistered == [k \in Kinds |-> 1]

(* No time series provider, as in the default configuration.               *)
NoTimeSeries == [AllRegistered EXCEPT ![DataPoints] = 0]

(* Two beans for the data points: findBean throws, and the lookup of the   *)
(* scheduler, for the delayed jobs, comes after it.                        *)
TwoTimeSeries == [AllRegistered EXCEPT ![DataPoints] = 2]

AskAllButActivities == {DataPoints, DelayedJobs, Events, Hooks}
AskDelayedEvents == {DelayedJobs, Events}
AskEventsHooks == {Events, Hooks}
AskEvents == {Events}

JobSymmetry == Permutations(Jobs)
WorkerSymmetry == Permutations(Workers)
Symmetry == JobSymmetry \cup WorkerSymmetry
=============================================================================
