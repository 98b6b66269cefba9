--------------------------- MODULE PubSubInvariant ---------------------------
(***************************************************************************)
(* The inductive invariant behind the theorems about PubSub: where a       *)
(* message is, how often its operation has run, and what became of it.     *)
(***************************************************************************)
EXTENDS PubSub

Unsent(m) == phase[m] \in {"new", "submitted"}

Handles(i, m) == handling[i].message = m
Has(i, m)     == m \in inbox[i] \/ Handles(i, m)
Nowhere(m)    == m \notin broker /\ \A i \in Instances : ~ Has(i, m)

(* A message that is not sent yet is nowhere and was not executed.         *)
UnsentInv ==
    \A m \in Messages :
        /\ Unsent(m) => Nowhere(m) /\ executions[m] = 0
        /\ phase[m] = "new" => answer[m] = NoAnswer
        /\ phase[m] = "submitted" => m \in Requests /\ client # "nats"

(* A queue's or a subject's message is in one place.                       *)
OnePlace ==
    \A m \in Messages : ~InStream(m) =>
        /\ m \in broker => \A i \in Instances : ~ Has(i, m)
        /\ \A i, k \in Instances : Has(i, m) /\ Has(k, m) => i = k
        /\ \A i \in Instances : ~ (m \in inbox[i] /\ Handles(i, m))

(* The tries an operation has for one delivery.                            *)
TriesOf(m) == IF client = "amqp" /\ m \notin Requests THEN MaxAttempts ELSE 1

(* An instance at a message has tries left as long as there is no result,  *)
(* and each try was an execution, if the payload could be read.            *)
HandlingInv ==
    \A i \in Instances :
        LET h == handling[i]  m == h.message
        IN  /\ m = NoMessage => h.result = NoResult
            /\ m # NoMessage =>
                 /\ client # "simple"
                 /\ h.tries <= TriesOf(m)
                 /\ m \notin Garbled => executions[m] >= h.tries
                 /\ h.result = NoResult => h.tries < TriesOf(m)
                 /\ h.result # NoResult =>
                      /\ h.tries > 0
                      /\ IF m \in Garbled THEN h.result = "garbled" ELSE h.result \in results[m]

(* Executions of earlier deliveries, each ended by a crash, and of this.   *)
ExecutionsInv ==
    \A m \in Messages : ~InStream(m) =>
        /\ executions[m] <= AtMost(m)
        /\ client = "amqp" /\ m \in broker => executions[m] <= crashes * TriesOf(m)
        /\ \A i \in Instances :
             /\ m \in inbox[i] => executions[m] = 0
             /\ Handles(i, m) => executions[m] <= handling[i].tries
                                   + (IF client = "amqp" THEN crashes * TriesOf(m) ELSE 0)

(* A reply is that of an execution of its request.                         *)
RepliesInv ==
    \A p \in replies :
        /\ ~ Unsent(p.message)
        /\ \E r \in results[p.message] : p.response = Response(r)

(* A stream loses a message only by an acknowledgement.                    *)
StreamInv ==
    \A m \in Messages \ Requests :
        InStream(m) /\ phase[m] = "sent" /\ m \notin broker =>
            m \in Garbled \/ results[m] \cap (Successes \cup Managed) # {}

PInv ==
    /\ TypeOK
    /\ UnsentInv /\ OnePlace /\ HandlingInv /\ ExecutionsInv /\ RepliesInv
    /\ StreamInv /\ GoneMeansSettled
=============================================================================
