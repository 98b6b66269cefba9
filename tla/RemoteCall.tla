----------------------------- MODULE RemoteCall -----------------------------
(***************************************************************************)
(* What a caller of a remote operation (PubSubClientFactory.of) can rely   *)
(* on, without a broker, instances or crashes: its answer is the outcome   *)
(* of an execution of that very request, or the caller gave up; once it    *)
(* has one it keeps it, whatever arrives later; and it has one in the end. *)
(* A request may well be executed after its caller gave up.                *)
(***************************************************************************)
CONSTANTS Requests, Results, NoAnswer

VARIABLES
    asked,      \* the requests made
    results,    \* what the executions of each request came to
    answer,     \* what the caller got
    timesOutAsNull \* an unanswered request may end with null

vars == <<asked, results, answer, timesOutAsNull>>

Init == /\ asked = {}
        /\ results = [m \in Requests |-> {}]
        /\ answer = [m \in Requests |-> NoAnswer]
        /\ timesOutAsNull \in BOOLEAN

Ask(m) == /\ m \notin asked
          /\ asked' = asked \cup {m}
          /\ UNCHANGED <<results, answer, timesOutAsNull>>

Execute(m, r) == /\ m \in asked
                 /\ results' = [results EXCEPT ![m] = @ \cup {r}]
                 /\ UNCHANGED <<asked, answer, timesOutAsNull>>

(* The outcomes of an execution behind each answer; giving up needs none.  *)
Behind(a) ==
    CASE a = "value"     -> {"value", "unit"}
      [] a = "null"      -> {"nothing", "silent", "mute"}
      [] a = "denied"    -> {"denied"}
      [] a = "technical" -> {"conflict", "fault"}
      [] a = "raised"    -> {"denied", "conflict", "silent", "fault", "mute"}
GivenUp == {"timeout", "cancelled", "refused"}

End(m, a) ==
    /\ m \in asked /\ answer[m] = NoAnswer
    /\ \/ a \in GivenUp
       \/ a = "null" /\ timesOutAsNull
       \/ a \notin GivenUp /\ results[m] \cap Behind(a) # {}
    /\ answer' = [answer EXCEPT ![m] = a]
    /\ UNCHANGED <<asked, results, timesOutAsNull>>

Answers == {"value", "null", "denied", "technical", "raised"} \cup GivenUp

(* The simple client executes and answers in one step.                     *)
ExecuteAndEnd(m, r, a) ==
    /\ m \in asked /\ answer[m] = NoAnswer
    /\ r \in Behind(a)
    /\ results' = [results EXCEPT ![m] = @ \cup {r}]
    /\ answer' = [answer EXCEPT ![m] = a]
    /\ UNCHANGED <<asked, timesOutAsNull>>

(* A call nobody can take ends when it is made.                            *)
Refuse(m, a) == /\ m \notin asked
                /\ asked' = asked \cup {m}
                /\ answer' = [answer EXCEPT ![m] = a]
                /\ UNCHANGED <<results, timesOutAsNull>>

Next == \E m \in Requests :
            \/ Ask(m) \/ \E a \in {"refused", "cancelled"} : Refuse(m, a)
            \/ \E r \in Results : Execute(m, r)
            \/ \E a \in Answers : End(m, a)
            \/ \E r \in Results, a \in Answers \ GivenUp : ExecuteAndEnd(m, r, a)

SafeSpec == Init /\ [][Next]_vars

Spec == /\ SafeSpec
        /\ \A m \in Requests : WF_vars(\E a \in Answers : End(m, a))
=============================================================================
