------------------------------- MODULE PubSub -------------------------------
(***************************************************************************)
(* Requests, events and broadcasts between a sender and the instances of   *)
(* one service, over the client the configuration names: NATS (core and    *)
(* JetStream), AMQP, or the simple client inside one JVM.                  *)
(*                                                                         *)
(* The brokers are external.  Core NATS delivers at most once, to one      *)
(* instance of a queue group, and keeps nothing; JetStream delivers again  *)
(* what is not acknowledged in five seconds; an AMQP queue takes back what *)
(* a lost instance had not acknowledged.  Replies are matched with their   *)
(* requests by the brokers' clients.                                       *)
(***************************************************************************)
EXTENDS Naturals, FiniteSets

CONSTANTS
    Clients,        \* the clients the configuration may name
    Requests,       \* calls through PubSubClientFactory.of
    Events,         \* publish(subject, message)
    Broadcasts,     \* broadcast(subject, message)
    Garbled,        \* those whose payload cannot be read as a Message
    Traffics,       \* sets of messages, one of which is sent
    Outcomes,       \* what the operation of each message may come to
    Instances,
    NoMessage, NoResult, NoAnswer,
    MaxCrashes, MaxDeliveries   \* bounds

Messages == Requests \cup Events \cup Broadcasts

(* What an operation comes to: a result, none, a Unit; a ManagedException  *)
(* that is mapped (400, 401, 403), that is not, that has no message; any   *)
(* other exception, with a message and without.                            *)
Successes == {"value", "nothing", "unit"}
Managed   == {"denied", "conflict", "silent"}
Results   == Successes \cup Managed \cup {"fault", "mute"}

(* What a sender may get.                                                  *)
Answers == {"sent", "value", "null", "denied", "technical", "raised",
            "timeout", "cancelled", "refused"}

ASSUME PubSubAssumption ==
    /\ Clients \subseteq {"nats", "amqp", "simple"}
    /\ Requests \cap (Events \cup Broadcasts) = {}
    /\ Garbled \subseteq Events \cup Broadcasts
    /\ Traffics \subseteq SUBSET Messages
    /\ Outcomes \in [Messages -> SUBSET Results]
    /\ NoMessage \notin Messages /\ NoAnswer \notin Answers
    /\ NoResult \notin Results \cup {"garbled"}
    /\ MaxCrashes \in Nat /\ MaxDeliveries \in Nat

VARIABLES
    client, traffic,
    up,         \* instances that run and have subscribed
    declared,   \* the queue or the durable consumer exists
    crashes,
    phase,      \* of a message on the sender's side: new, submitted, sent,
                \* or lost, when nothing took it
    answer,     \* what the sender got
    broker,     \* messages in the queue, or not acknowledged in the stream
    deliveries, \* of a stream's message
    inbox,      \* messages in an instance's memory
    handling,   \* the message an instance is at, its tries and its result
    replies,    \* replies on their way
    executions, results

sender   == <<phase, answer>>
receiver == <<up, declared, crashes, inbox, handling>>
ghosts   == <<executions, results>>
vars == <<client, traffic, sender, receiver, broker, deliveries, replies, ghosts>>

Idle == [message |-> NoMessage, tries |-> 0, result |-> NoResult]

Init ==
    /\ client \in Clients /\ traffic \in Traffics
    /\ up = {} /\ declared = FALSE /\ crashes = 0
    /\ phase = [m \in Messages |-> "new"]
    /\ answer = [m \in Messages |-> NoAnswer]
    /\ broker = {} /\ deliveries = [m \in Messages |-> 0]
    /\ inbox = [i \in Instances |-> {}]
    /\ handling = [i \in Instances |-> Idle]
    /\ replies = {}
    /\ executions = [m \in Messages |-> 0]
    /\ results = [m \in Messages |-> {}]

-----------------------------------------------------------------------------
(* Instances start and stop.                                               *)

(* PubSubMessengerFactory.create: the client connects, declares its queue  *)
(* or the stream, and subscribes.                                          *)
Start(i) ==
    /\ i \notin up
    /\ client = "simple" => up = {}
    /\ up' = up \cup {i} /\ declared' = TRUE
    /\ UNCHANGED <<client, traffic, sender, broker, deliveries, inbox, handling, crashes,
                   replies, ghosts>>

InStream(m) == client = "nats" /\ m \in Broadcasts

(* A process ends.  AMQP puts back what it had not acknowledged.  With the *)
(* simple client it would be the sender's process.                         *)
Requeued(i) == IF client = "amqp" /\ handling[i].message # NoMessage
               THEN {handling[i].message} ELSE {}

Crash(i) ==
    /\ i \in up /\ client # "simple"
    /\ crashes < MaxCrashes /\ crashes' = crashes + 1
    /\ up' = up \ {i}
    /\ broker' = broker \cup Requeued(i)
    /\ inbox' = [inbox EXCEPT ![i] = {}]
    /\ handling' = [handling EXCEPT ![i] = Idle]
    /\ UNCHANGED <<client, traffic, sender, declared, deliveries, replies, ghosts>>

-----------------------------------------------------------------------------
(* The sender.                                                             *)

End(m, a) == answer' = [answer EXCEPT ![m] = IF @ = NoAnswer THEN a ELSE @]
Phase(m, p) == phase' = [phase EXCEPT ![m] = p]

(* Where a message goes that is sent now: a queue or a stream, a member of *)
(* the group, or nowhere.                                                  *)
Kept(m) == client = "amqp" \/ InStream(m)
Transmit(m) ==
    \/ /\ IF Kept(m) THEN ~declared ELSE up = {}
       /\ Phase(m, "lost")
       /\ UNCHANGED <<broker, inbox>>
    \/ /\ Kept(m) /\ declared
       /\ Phase(m, "sent")
       /\ broker' = broker \cup {m}
       /\ UNCHANGED inbox
    \/ /\ ~Kept(m)
       /\ Phase(m, "sent")
       /\ \E i \in up : inbox' = [inbox EXCEPT ![i] = @ \cup {m}]
       /\ UNCHANGED broker

(* publish and broadcast; a stream that does not exist gives no ack.       *)
Publish(m) ==
    /\ client # "simple"
    /\ m \in traffic \ Requests /\ phase[m] = "new"
    /\ Transmit(m)
    /\ End(m, IF InStream(m) /\ ~declared THEN "refused" ELSE "sent")
    /\ UNCHANGED <<client, traffic, up, declared, crashes, deliveries, handling,
                   replies, ghosts>>

(* NatsClient sends at once; without a subscriber the future is cancelled. *)
(* AmqpClient and SimplePubSubClient submit a task to the common pool.     *)
Request(m) ==
    /\ m \in traffic \cap Requests /\ phase[m] = "new"
    /\ \/ /\ client = "nats"
          /\ Transmit(m)
          /\ IF up = {} THEN End(m, "cancelled") ELSE UNCHANGED answer
       \/ /\ client = "amqp" \/ (client = "simple" /\ up # {})
          /\ Phase(m, "submitted")
          /\ UNCHANGED <<answer, broker, inbox>>
       \/ /\ client = "simple" /\ up = {}
          /\ Phase(m, "lost") /\ End(m, "refused")
          /\ UNCHANGED <<broker, inbox>>
    /\ UNCHANGED <<client, traffic, up, declared, crashes, deliveries, handling,
                   replies, ghosts>>

Submitted(m) ==
    /\ client = "amqp" /\ phase[m] = "submitted"
    /\ Transmit(m)
    /\ UNCHANGED <<client, traffic, answer, up, declared, crashes, deliveries, handling,
                   replies, ghosts>>

(* PubSubClientFactory: get(30 seconds).                                   *)
TimeOut(m) ==
    /\ m \in Requests /\ phase[m] # "new" /\ answer[m] = NoAnswer
    /\ End(m, "timeout")
    /\ UNCHANGED <<client, traffic, phase, receiver, broker, deliveries, replies, ghosts>>

(* RabbitTemplate's own time-out is a null.                                *)
ReplyTimeOut(m) ==
    /\ client = "amqp"
    /\ m \in Requests /\ phase[m] \in {"sent", "lost"} /\ answer[m] = NoAnswer
    /\ End(m, "null")
    /\ UNCHANGED <<client, traffic, phase, receiver, broker, deliveries, replies, ghosts>>

(* MessageResponse.of, and AbstractPubSubClient.unwrapResponse, for which  *)
(* an error is an error with a message.                                    *)
Response(r) == [data  |-> r \in {"value", "unit"},
                error |-> r \in {"denied", "conflict", "fault"},
                code  |-> r]

(* Mutant: an error is answered with null.                                 *)
Unwrap_Swallows(response) ==
    IF response.data THEN "value"
    ELSE IF response.code = "denied" THEN "denied" ELSE "null"

Unwrap(response) ==
    IF ~response.error THEN IF response.data THEN "value" ELSE "null"
    ELSE IF response.code = "denied" THEN "denied" ELSE "technical"

(* A reply that comes too late finds no future to complete.                *)
ReceiveReply(p) ==
    /\ p \in replies
    /\ replies' = replies \ {p}
    /\ End(p.message, Unwrap(p.response))
    /\ UNCHANGED <<client, traffic, phase, receiver, broker, deliveries, ghosts>>

-----------------------------------------------------------------------------
(* The instances.                                                          *)

(* Executions are counted up to a bound that no property reaches.          *)
MaxExecutions == 7 * (MaxCrashes + 1) + 1
Ran(m, r) == /\ executions' = [executions EXCEPT ![m] = IF @ < MaxExecutions THEN @ + 1 ELSE @]
             /\ results' = [results EXCEPT ![m] = @ \cup {r}]

(* A stream delivers what is not acknowledged, again and again, also while *)
(* the handler is at it.                                                   *)
Deliver(i, m) ==
    /\ InStream(m) /\ m \in broker /\ i \in up
    /\ deliveries[m] < MaxDeliveries
    /\ deliveries' = [deliveries EXCEPT ![m] = @ + 1]
    /\ inbox' = [inbox EXCEPT ![i] = @ \cup {m}]
    /\ UNCHANGED <<client, traffic, sender, up, declared, crashes, handling, broker,
                   replies, ghosts>>

(* A listener takes one message at a time (a dispatcher's thread, prefetch *)
(* of one); the queue gives a message to one consumer.                     *)
Take(i, m) ==
    /\ i \in up /\ handling[i] = Idle
    /\ \/ /\ client = "nats" /\ m \in inbox[i]
          /\ inbox' = [inbox EXCEPT ![i] = @ \ {m}]
          /\ UNCHANGED broker
       \/ /\ client = "amqp" /\ m \in broker
          /\ broker' = broker \ {m}
          /\ UNCHANGED inbox
    /\ handling' = [handling EXCEPT ![i] = [Idle EXCEPT !.message = m]]
    /\ UNCHANGED <<client, traffic, sender, up, declared, crashes, deliveries, replies,
                   ghosts>>

(* The operation returns or throws.                                        *)
Execute(i, r) ==
    LET m == handling[i].message
    IN  /\ m \notin {NoMessage} \cup Garbled /\ handling[i].result = NoResult
        /\ r \in Outcomes[m]
        /\ handling' = [handling EXCEPT ![i] =
               [message |-> m, tries |-> handling[i].tries + 1, result |-> r]]
        /\ Ran(m, r)
        /\ UNCHANGED <<client, traffic, sender, up, declared, crashes, inbox, broker,
                       deliveries, replies>>

(* A payload that is not a Message: deserialize throws, or returns null,   *)
(* and no operation runs.                                                  *)
Misread(i) ==
    LET m == handling[i].message
    IN  /\ m \in Garbled /\ handling[i].result = NoResult
        /\ handling' = [handling EXCEPT ![i] =
               [message |-> m, tries |-> handling[i].tries + 1, result |-> "garbled"]]
        /\ UNCHANGED <<client, traffic, sender, up, declared, crashes, inbox, broker,
                       deliveries, replies, ghosts>>

(* The reply, where there is one.  NatsMessageHandler sends none for an    *)
(* empty result, a Unit or an exception that is not managed.               *)
Replies(m, r) ==
    IF m \notin Requests \/ (client = "nats" /\ r \notin {"value"} \cup Managed) THEN {}
    ELSE {[message |-> m, response |-> Response(r)]}

(* Mutant: a message is acknowledged however its handler ends.             *)
Acknowledges_Always(r) == TRUE

(* NatsMessageHandler.onMessage ends; JetStream acknowledges a normal      *)
(* return: that of an operation, of a swallowed ManagedException and of    *)
(* the discarding of a payload that cannot be read.                        *)
Acknowledges(r) == r \in Successes \cup Managed \cup {"garbled"}

FinishNats(i) ==
    LET m == handling[i].message  r == handling[i].result
    IN  /\ client = "nats" /\ r # NoResult
        /\ replies' = replies \cup Replies(m, r)
        /\ broker' = IF Acknowledges(r) THEN broker \ {m} ELSE broker
        /\ handling' = [handling EXCEPT ![i] = Idle]
        /\ UNCHANGED <<client, traffic, sender, up, declared, crashes, inbox, deliveries,
                       ghosts>>

(* InternalMessageHandler answers a request whatever happened.  What       *)
(* throws is tried up to seven times by the retry advice; having no        *)
(* recoverer it then drops the message with a warning and returns, and     *)
(* the container acknowledges: nothing is rejected, so nothing goes to     *)
(* the dead letters that createBindings declares.                          *)
MaxAttempts == 7

(* Mutant: an eighth attempt.                                              *)
MayRetry_AtLimit(tries) == tries <= MaxAttempts

MayRetry(tries) == tries < MaxAttempts

(* Mutant: the last failure is thrown on to the container, which gives the *)
(* message back to its queue.                                              *)
GivenBack_LastFailure(m, failed) == IF failed THEN {m} ELSE {}

(* What the queue gets back when the advice returns.                       *)
GivenBack(m, failed) == {}

FinishAmqp(i) ==
    LET m == handling[i].message  r == handling[i].result
        failed == m \notin Requests /\ r \notin Successes
    IN  /\ client = "amqp" /\ r # NoResult
        /\ replies' = replies \cup Replies(m, r)
        /\ IF failed /\ MayRetry(handling[i].tries)
           THEN /\ handling' = [handling EXCEPT ![i].result = NoResult]
                /\ UNCHANGED broker
           ELSE /\ handling' = [handling EXCEPT ![i] = Idle]
                /\ broker' = broker \cup GivenBack(m, failed)
        /\ UNCHANGED <<client, traffic, sender, up, declared, crashes, inbox,
                       deliveries, ghosts>>

(* The simple client: a request's task runs the handler and completes the  *)
(* future; an event's handler runs inside publish and throws out of it.    *)
(* A message is handed on as an object: there is no payload to misread.    *)
RunRequest(m, r) ==
    /\ client = "simple" /\ phase[m] = "submitted"
    /\ Phase(m, "sent")
    /\ Ran(m, r)
    /\ End(m, IF r \in {"value", "unit"} THEN "value"
              ELSE IF r = "nothing" THEN "null" ELSE "raised")
    /\ UNCHANGED <<client, traffic, receiver, broker, deliveries, replies>>

RunEvent(m, r) ==
    /\ client = "simple" /\ m \in traffic \ (Requests \cup Garbled) /\ phase[m] = "new"
    /\ IF up = {}
       THEN Phase(m, "lost") /\ End(m, "refused") /\ UNCHANGED ghosts
       ELSE /\ Phase(m, "sent")
            /\ Ran(m, r)
            /\ End(m, IF r \in Successes THEN "sent" ELSE "raised")
    /\ UNCHANGED <<client, traffic, receiver, broker, deliveries, replies>>

-----------------------------------------------------------------------------
InstanceStep(i) ==
    \/ \E m \in Messages : Take(i, m)
    \/ \E r \in Results : Execute(i, r)
    \/ Misread(i) \/ FinishNats(i) \/ FinishAmqp(i)

Next ==
    \/ \E i \in Instances :
           \/ Start(i) \/ Crash(i) \/ InstanceStep(i)
           \/ \E m \in Messages : Deliver(i, m)
    \/ \E m \in Messages :
           \/ Publish(m) \/ Request(m) \/ Submitted(m) \/ TimeOut(m) \/ ReplyTimeOut(m)
           \/ \E r \in Outcomes[m] : RunRequest(m, r) \/ RunEvent(m, r)
    \/ \E p \in replies : ReceiveReply(p)

Spec == Init /\ [][Next]_vars

(* A listener's thread runs, an operation returns or throws, the common    *)
(* pool takes its tasks, a time-out expires, a stream delivers.            *)
Fairness ==
    /\ \A i \in Instances :
           /\ WF_vars(InstanceStep(i))
           /\ \A m \in Messages : WF_vars(Deliver(i, m))
    /\ \A m \in Messages : WF_vars(Submitted(m)) /\ WF_vars(TimeOut(m))

FairSpec == Spec /\ Fairness

-----------------------------------------------------------------------------
(* The variables have their types.                                         *)
TypeOK ==
    /\ client \in Clients /\ traffic \in Traffics
    /\ up \subseteq Instances /\ declared \in BOOLEAN /\ crashes \in 0..MaxCrashes
    /\ phase \in [Messages -> {"new", "submitted", "sent", "lost"}]
    /\ answer \in [Messages -> Answers \cup {NoAnswer}]
    /\ broker \subseteq Messages
    /\ deliveries \in [Messages -> 0..MaxDeliveries]
    /\ inbox \in [Instances -> SUBSET Messages]
    /\ handling \in [Instances -> [message : Messages \cup {NoMessage}, tries : 0..MaxAttempts,
                                   result : Results \cup {"garbled", NoResult}]]
    /\ replies \subseteq [message : Requests,
                         response : [data : BOOLEAN, error : BOOLEAN, code : Results]]
    /\ executions \in [Messages -> 0..MaxExecutions]
    /\ results \in [Messages -> SUBSET Results]

(* The remote call every client implements; AMQP's null may be a time-out. *)
Call == INSTANCE RemoteCall WITH
            asked   <- {m \in Requests : phase[m] # "new"},
            results <- [m \in Requests |-> results[m]],
            answer  <- [m \in Requests |-> answer[m]],
            timesOutAsNull <- client = "amqp"

(* Whatever the client, the interleaving, crashes and late replies, a      *)
(* caller sees an outcome of its own request or gives up, once, and every  *)
(* call ends (AbstractPubSubClient.java:59, PubSubClientFactory.java:49).  *)
ImplementsRemoteCall == Call!Spec

(* A request or an event of core NATS, and anything of the simple client,  *)
(* is executed at most once, time-out or not.  Over AMQP each crash of an  *)
(* instance allows it once more: seven more times if it fails as an event  *)
(* (AmqpUtil.java:159).                                                    *)
AtMost(m) == CASE client = "simple" -> 1
               [] client = "nats"   -> 1
               [] client = "amqp"   -> (1 + crashes) * (IF m \in Requests THEN 1 ELSE MaxAttempts)
ExecutionsBounded == \A m \in Messages : ~InStream(m) => executions[m] <= AtMost(m)

(* What a broker accepted to keep is gone only when it was handled, when   *)
(* over AMQP its operation failed seven times at least, when a stream's    *)
(* handler swallowed a managed error, or when no instance can read it: a   *)
(* crash, a redelivery or a retry loses nothing (AmqpUtil.java:159,        *)
(* NatsMessageHandler.java:67 and 41).                                     *)
Somewhere(m) == m \in broker \/ \E i \in Instances : handling[i].message = m
GoneMeansSettled ==
    \A m \in Messages \ Requests :
        Kept(m) /\ phase[m] = "sent" /\ ~Somewhere(m) =>
            \/ results[m] \cap Successes # {}
            \/ client = "nats" /\ results[m] \cap Managed # {}
            \/ client = "amqp" /\ executions[m] >= MaxAttempts
            \/ m \in Garbled

(* An event in the queue leaves it for good, unless no instance is left:   *)
(* no message that fails, or cannot be read, is handled for ever and keeps *)
(* those behind it waiting (AmqpUtil.java:159).                            *)
QueuedEventsSettle ==
    \A m \in Events :
        (client = "amqp" /\ m \in broker) ~> (~Somewhere(m) \/ up = {})
=============================================================================
