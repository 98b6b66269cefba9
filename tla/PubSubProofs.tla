----------------------------- MODULE PubSubProofs -----------------------------
(***************************************************************************)
(* Proofs about PubSub: its inductive invariant PInv, what follows from it *)
(* for any number of messages, instances and crashes, and that every step  *)
(* is one that RemoteCall allows.                                          *)
(***************************************************************************)
EXTENDS PubSubInvariant, TLAPS

-----------------------------------------------------------------------------
(* Types.                                                                  *)

LEMMA ResultsLemma ==
    /\ \A r \in Results : r # NoResult /\ Response(r) \in [data : BOOLEAN, error : BOOLEAN, code : Results]
    /\ Successes \subseteq Results /\ Managed \subseteq Results /\ "garbled" # NoResult
<1>1. "garbled" # NoResult /\ \A r \in Results : r # NoResult
  BY PubSubAssumption
<1>2. ASSUME NEW r \in Results
      PROVE  Response(r) \in [data : BOOLEAN, error : BOOLEAN, code : Results]
  BY <1>2 DEF Response
<1> QED
  BY <1>1, <1>2 DEF Results

(* The first answer stays.                                                 *)
LEMMA EndLemma ==
    ASSUME TypeOK, NEW m \in Messages, NEW a \in Answers, End(m, a)
    PROVE  /\ answer' \in [Messages -> Answers \cup {NoAnswer}]
           /\ \A n \in Messages : \/ answer'[n] = answer[n]
                                  \/ n = m /\ answer[n] = NoAnswer /\ answer'[n] = a
           /\ answer[m] = NoAnswer => answer' = [answer EXCEPT ![m] = a]
           /\ answer[m] # NoAnswer => answer' = answer
BY DEF TypeOK, End

LEMMA PhaseLemma ==
    ASSUME TypeOK, NEW m \in Messages, NEW p \in {"new", "submitted", "sent", "lost"}, Phase(m, p)
    PROVE  /\ phase' \in [Messages -> {"new", "submitted", "sent", "lost"}]
           /\ phase'[m] = p /\ \A n \in Messages : n # m => phase'[n] = phase[n]
BY DEF TypeOK, Phase

(* What is sent goes to one place or nowhere.                              *)
LEMMA TransmitLemma ==
    ASSUME TypeOK, NEW m \in Messages, Transmit(m)
    PROVE  \E p \in {"sent", "lost"} :
             /\ Phase(m, p)
             /\ \/ p = "lost" /\ broker' = broker /\ inbox' = inbox
                \/ p = "sent" /\ Kept(m) /\ broker' = broker \cup {m} /\ inbox' = inbox
                \/ /\ p = "sent" /\ ~Kept(m) /\ broker' = broker
                   /\ \E i \in Instances : inbox' = [inbox EXCEPT ![i] = @ \cup {m}]
BY DEF TypeOK, Transmit

LEMMA TransmitType ==
    ASSUME TypeOK, NEW m \in Messages, Transmit(m)
    PROVE  /\ phase' \in [Messages -> {"new", "submitted", "sent", "lost"}]
           /\ broker' \subseteq Messages
           /\ inbox' \in [Instances -> SUBSET Messages]
<1>1. PICK p \in {"sent", "lost"} :
             /\ Phase(m, p)
             /\ \/ broker' = broker /\ inbox' = inbox
                \/ broker' = broker \cup {m} /\ inbox' = inbox
                \/ /\ broker' = broker
                   /\ \E i \in Instances : inbox' = [inbox EXCEPT ![i] = @ \cup {m}]
  BY TransmitLemma
<1>2. phase' \in [Messages -> {"new", "submitted", "sent", "lost"}]
  BY <1>1, PhaseLemma
<1>3. broker' \subseteq Messages
  BY <1>1 DEF TypeOK
<1>4. inbox' \in [Instances -> SUBSET Messages]
  BY <1>1 DEF TypeOK
<1> QED
  BY <1>2, <1>3, <1>4

(* One execution more, up to the bound.                                    *)
LEMMA RanLemma ==
    ASSUME TypeOK, NEW m \in Messages, NEW r \in Results, Ran(m, r)
    PROVE  /\ executions' \in [Messages -> 0..MaxExecutions]
           /\ results' \in [Messages -> SUBSET Results]
           /\ \A n \in Messages : n # m => executions'[n] = executions[n] /\ results'[n] = results[n]
           /\ results'[m] = results[m] \cup {r} /\ executions[m] \in 0..MaxExecutions
           /\ executions'[m] = IF executions[m] < MaxExecutions THEN executions[m] + 1 ELSE executions[m]
           /\ MaxExecutions \in Nat /\ MaxExecutions > MaxAttempts
<1>1. MaxExecutions \in Nat /\ MaxExecutions > MaxAttempts
  BY PubSubAssumption DEF MaxExecutions, MaxAttempts
<1>2. results' \in [Messages -> SUBSET Results] /\ results'[m] = results[m] \cup {r}
      /\ \A n \in Messages : n # m => results'[n] = results[n]
  BY DEF TypeOK, Ran
<1>3. executions' = [executions EXCEPT ![m] = IF executions[m] < MaxExecutions
                                              THEN executions[m] + 1 ELSE executions[m]]
  BY DEF Ran
<1>4. executions \in [Messages -> 0..MaxExecutions] /\ executions[m] \in 0..MaxExecutions
  BY DEF TypeOK
<1>5. (IF executions[m] < MaxExecutions THEN executions[m] + 1 ELSE executions[m]) \in 0..MaxExecutions
  BY <1>1, <1>4
<1> HIDE DEF MaxExecutions
<1> QED
  BY <1>1, <1>2, <1>3, <1>4, <1>5

Handlings == [message : Messages \cup {NoMessage}, tries : 0..MaxAttempts,
              result : Results \cup {"garbled", NoResult}]

LEMMA IdleLemma ==
    /\ Idle \in Handlings /\ Idle.message = NoMessage /\ Idle.tries = 0 /\ Idle.result = NoResult
    /\ \A m \in Messages :
         /\ [Idle EXCEPT !.message = m] \in Handlings
         /\ [Idle EXCEPT !.message = m].message = m
         /\ [Idle EXCEPT !.message = m].tries = 0
         /\ [Idle EXCEPT !.message = m].result = NoResult
BY DEF Idle, Handlings, MaxAttempts

(* What an instance does with the message it is at.                        *)
LEMMA ExecuteLemma ==
    ASSUME TypeOK, HandlingInv, NEW i \in Instances, NEW r \in Results, Execute(i, r)
    PROVE  /\ handling[i].message \in Messages \ Garbled /\ handling[i].result = NoResult
           /\ handling[i].tries \in Nat /\ handling[i].tries < MaxAttempts
           /\ handling' \in [Instances -> Handlings]
           /\ handling'[i].message = handling[i].message /\ handling'[i].result = r
           /\ handling'[i].tries = handling[i].tries + 1
           /\ \A k \in Instances : k # i => handling'[k] = handling[k]
<1> DEFINE h == handling[i]
           g == [message |-> h.message, tries |-> h.tries + 1, result |-> r]
<1>1. handling \in [Instances -> Handlings] /\ h \in Handlings
  BY DEF TypeOK, Handlings
<1>2. h.message \in Messages \ Garbled /\ h.result = NoResult /\ h.message # NoMessage
  BY <1>1 DEF Execute, Handlings
<1>3. h.tries \in Nat /\ h.tries < MaxAttempts
  <2>1. h.tries \in Nat /\ h.tries < TriesOf(h.message)
    BY <1>1, <1>2 DEF HandlingInv, Handlings
  <2>2. TriesOf(h.message) \in {1, 7}
    BY DEF TriesOf, MaxAttempts
  <2> QED
    BY <2>1, <2>2 DEF MaxAttempts
<1>4. handling' = [handling EXCEPT ![i] = g]
  BY DEF Execute
<1>5. /\ g \in Handlings /\ g.message = h.message /\ g.result = r /\ g.tries = h.tries + 1
  BY <1>1, <1>3 DEF Handlings, MaxAttempts
<1> HIDE DEF g
<1> QED
  BY <1>1, <1>2, <1>3, <1>4, <1>5

(* An instance at a message it cannot read.                                *)
LEMMA MisreadLemma ==
    ASSUME TypeOK, HandlingInv, NEW i \in Instances, Misread(i)
    PROVE  /\ handling[i].message \in Messages \cap Garbled /\ handling[i].result = NoResult
           /\ handling[i].tries \in Nat /\ handling[i].tries < MaxAttempts
           /\ handling' \in [Instances -> Handlings]
           /\ handling'[i].message = handling[i].message /\ handling'[i].result = "garbled"
           /\ handling'[i].tries = handling[i].tries + 1
           /\ \A k \in Instances : k # i => handling'[k] = handling[k]
<1> DEFINE h == handling[i]
           g == [message |-> h.message, tries |-> h.tries + 1, result |-> "garbled"]
<1>1. handling \in [Instances -> Handlings] /\ h \in Handlings
  BY DEF TypeOK, Handlings
<1>2. h.message \in Messages \cap Garbled /\ h.result = NoResult /\ h.message # NoMessage
  BY PubSubAssumption DEF Misread, Messages
<1>3. h.tries \in Nat /\ h.tries < MaxAttempts
  <2>1. h.tries \in Nat /\ h.tries < TriesOf(h.message)
    BY <1>1, <1>2 DEF HandlingInv, Handlings
  <2>2. TriesOf(h.message) \in {1, 7}
    BY DEF TriesOf, MaxAttempts
  <2> QED
    BY <2>1, <2>2 DEF MaxAttempts
<1>4. handling' = [handling EXCEPT ![i] = g]
  BY DEF Misread
<1>5. /\ g \in Handlings /\ g.message = h.message /\ g.result = "garbled" /\ g.tries = h.tries + 1
  BY <1>1, <1>3 DEF Handlings, MaxAttempts
<1> HIDE DEF g
<1> QED
  BY <1>1, <1>2, <1>3, <1>4, <1>5

LEMMA BecomesLemma ==
    ASSUME TypeOK, NEW i \in Instances, NEW h \in Handlings, handling' = [handling EXCEPT ![i] = h]
    PROVE  /\ handling' \in [Instances -> Handlings] /\ handling'[i] = h
           /\ \A k \in Instances : k # i => handling'[k] = handling[k]
BY DEF TypeOK, Handlings

LEMMA RetryLemma ==
    ASSUME TypeOK, NEW i \in Instances
    PROVE  LET h == [handling[i] EXCEPT !.result = NoResult]
           IN  /\ h \in Handlings /\ h.message = handling[i].message
               /\ h.tries = handling[i].tries /\ h.result = NoResult
BY DEF TypeOK, Handlings

LEMMA TypeInit == Init => TypeOK
<1> SUFFICES ASSUME Init
             PROVE  TypeOK
  OBVIOUS
<1>1. handling \in [Instances -> Handlings]
  BY IdleLemma DEF Init
<1>2. 0 \in 0..MaxCrashes /\ 0 \in 0..MaxDeliveries /\ 0 \in 0..MaxExecutions
  BY PubSubAssumption DEF MaxExecutions
<1> HIDE DEF MaxExecutions
<1> QED
  BY <1>1, <1>2 DEF Init, TypeOK, Handlings

LEMMA TypeInstances ==
    ASSUME TypeOK, NEW i \in Instances,
           Start(i) \/ Crash(i) \/ \E m \in Messages : Deliver(i, m) \/ Take(i, m)
    PROVE  TypeOK'
<1>1. CASE Start(i)
  BY <1>1 DEF Start, TypeOK, sender, ghosts
<1>2. CASE Crash(i)
  <2>1. crashes' \in 0..MaxCrashes /\ broker' \subseteq Messages
    <3>1. Requeued(i) \subseteq Messages
      BY DEF Requeued, TypeOK
    <3> QED
      BY <1>2, <3>1, PubSubAssumption DEF Crash, TypeOK
  <2>2. handling' \in [Instances -> Handlings] /\ inbox' \in [Instances -> SUBSET Messages]
    BY <1>2, IdleLemma, BecomesLemma DEF Crash, TypeOK
  <2>3. up' \subseteq Instances
    BY <1>2 DEF Crash, TypeOK
  <2>4. UNCHANGED <<client, traffic, phase, answer, declared, deliveries, replies,
                    executions, results>>
    BY <1>2 DEF Crash, sender, ghosts
  <2> QED
    BY <2>1, <2>2, <2>3, <2>4 DEF TypeOK, Handlings
<1>3. ASSUME NEW m \in Messages, Deliver(i, m)
      PROVE  TypeOK'
  <2>1. deliveries' \in [Messages -> 0..MaxDeliveries]
    <3>1. deliveries[m] + 1 \in 0..MaxDeliveries
      BY <1>3, PubSubAssumption DEF Deliver, TypeOK
    <3> QED
      BY <1>3, <3>1 DEF Deliver, TypeOK
  <2>2. inbox' \in [Instances -> SUBSET Messages]
    BY <1>3 DEF Deliver, TypeOK
  <2>3. UNCHANGED <<client, traffic, phase, answer, up, declared, crashes, handling, broker, replies,
                    executions, results>>
    BY <1>3 DEF Deliver, sender, ghosts
  <2> QED
    BY <2>1, <2>2, <2>3 DEF TypeOK
<1>4. ASSUME NEW m \in Messages, Take(i, m)
      PROVE  TypeOK'
  <2>1. handling' \in [Instances -> Handlings]
    BY <1>4, IdleLemma, BecomesLemma DEF Take
  <2>2. inbox' \in [Instances -> SUBSET Messages] /\ broker' \subseteq Messages
    BY <1>4 DEF Take, TypeOK
  <2>3. UNCHANGED <<client, traffic, phase, answer, up, declared, crashes, deliveries, replies,
                    executions, results>>
    BY <1>4 DEF Take, sender, ghosts
  <2> QED
    BY <2>1, <2>2, <2>3 DEF TypeOK, Handlings
<1> QED
  BY <1>1, <1>2, <1>3, <1>4

LEMMA TypeSender ==
    ASSUME TypeOK, NEW m \in Messages,
           Publish(m) \/ Request(m) \/ Submitted(m) \/ TimeOut(m) \/ ReplyTimeOut(m)
    PROVE  TypeOK'
<1>1. UNCHANGED <<client, traffic, up, declared, crashes, deliveries, handling, replies,
                  executions, results>>
  BY DEF Publish, Request, Submitted, TimeOut, ReplyTimeOut, receiver, ghosts
<1>2. answer' \in [Messages -> Answers \cup {NoAnswer}]
  <2>1. answer' = answer \/ \E a \in Answers : End(m, a)
    BY DEF Publish, Request, Submitted, TimeOut, ReplyTimeOut, Answers
  <2> QED
    BY <2>1, EndLemma DEF TypeOK
<1>3. /\ phase' \in [Messages -> {"new", "submitted", "sent", "lost"}]
      /\ broker' \subseteq Messages
      /\ inbox' \in [Instances -> SUBSET Messages]
  <2>1. CASE Transmit(m)
    BY <2>1, TransmitType
  <2>2. CASE ~ Transmit(m)
    <3>1. UNCHANGED <<broker, inbox>> /\ (phase' = phase \/ Phase(m, "submitted") \/ Phase(m, "lost"))
      BY <2>2 DEF Publish, Request, Submitted, TimeOut, ReplyTimeOut, receiver
    <3> QED
      BY <3>1, PhaseLemma DEF TypeOK
  <2> QED
    BY <2>1, <2>2
<1> QED
  BY <1>1, <1>2, <1>3 DEF TypeOK

LEMMA RepliesType ==
    ASSUME NEW m \in Messages, NEW r, m \in Requests => r \in Results
    PROVE  Replies(m, r) \subseteq [message : Requests,
                                    response : [data : BOOLEAN, error : BOOLEAN, code : Results]]
<1>1. m \in Requests => Response(r) \in [data : BOOLEAN, error : BOOLEAN, code : Results]
  BY ResultsLemma
<1> HIDE DEF Response
<1> QED
  BY <1>1 DEF Replies

(* The message of an instance that is done with it, and its result.        *)
LEMMA FinishLemma ==
    ASSUME TypeOK, HandlingInv, NEW i \in Instances, FinishNats(i) \/ FinishAmqp(i)
    PROVE  /\ handling[i].message \in Messages /\ handling[i].tries \in Nat
           /\ handling[i].result \in Results \cup {"garbled"}
           /\ handling[i].message \in Requests => handling[i].result \in Results
<1>1. /\ handling[i].message \in Messages /\ handling[i].tries \in Nat
      /\ handling[i].result \in Results \cup {"garbled"} /\ handling[i].result # NoResult
  BY DEF TypeOK, HandlingInv, FinishNats, FinishAmqp
<1>2. ASSUME handling[i].message \in Requests
      PROVE  handling[i].result \in Results
  <2>1. handling[i].message \notin Garbled /\ handling[i].message # NoMessage
    BY <1>1, <1>2, PubSubAssumption
  <2>2. handling[i].result \in results[handling[i].message]
    BY <1>1, <2>1 DEF HandlingInv
  <2> QED
    BY <1>1, <2>2 DEF TypeOK
<1> QED
  BY <1>1, <1>2

LEMMA TypeWork ==
    ASSUME TypeOK, HandlingInv, NEW i \in Instances,
           (\E r \in Results : Execute(i, r)) \/ Misread(i) \/ FinishNats(i) \/ FinishAmqp(i)
    PROVE  TypeOK'
<1> DEFINE m == handling[i].message  r == handling[i].result
<1>1. ASSUME NEW x \in Results, Execute(i, x)
      PROVE  TypeOK'
  <2>1. m \in Messages /\ handling' \in [Instances -> Handlings]
    BY <1>1, ExecuteLemma
  <2>2. executions' \in [Messages -> 0..MaxExecutions] /\ results' \in [Messages -> SUBSET Results]
    <3>1. Ran(m, x)
      BY <1>1 DEF Execute
    <3> QED
      BY <2>1, <3>1, RanLemma
  <2>3. UNCHANGED <<client, traffic, phase, answer, up, declared, crashes, inbox, broker, deliveries,
                    replies>>
    BY <1>1 DEF Execute, sender
  <2> QED
    BY <2>1, <2>2, <2>3 DEF TypeOK, Handlings
<1>2. CASE FinishNats(i) \/ FinishAmqp(i)
  <2>1. m \in Messages /\ (m \in Requests => r \in Results)
    BY <1>2, FinishLemma
  <2>2. \E h \in Handlings : handling' = [handling EXCEPT ![i] = h]
    <3>1. \/ handling' = [handling EXCEPT ![i] = Idle]
          \/ handling' = [handling EXCEPT ![i] = [handling[i] EXCEPT !.result = NoResult]]
      BY <1>2 DEF FinishNats, FinishAmqp
    <3>2. Idle \in Handlings /\ [handling[i] EXCEPT !.result = NoResult] \in Handlings
      BY IdleLemma, RetryLemma
    <3> QED
      BY <3>1, <3>2
  <2>3. handling' \in [Instances -> Handlings]
    BY <2>2, BecomesLemma
  <2>4. replies' \subseteq
            [message : Requests, response : [data : BOOLEAN, error : BOOLEAN, code : Results]]
    <3>1. replies' = replies \cup Replies(m, r)
      BY <1>2 DEF FinishNats, FinishAmqp
    <3> QED
      BY <2>1, <3>1, RepliesType DEF TypeOK
  <2>5. broker' \subseteq Messages
    BY <1>2, <2>1 DEF FinishNats, FinishAmqp, GivenBack, TypeOK
  <2>6. UNCHANGED <<client, traffic, phase, answer, up, declared, crashes, inbox, deliveries,
                    executions, results>>
    BY <1>2 DEF FinishNats, FinishAmqp, sender, ghosts
  <2> QED
    BY <2>3, <2>4, <2>5, <2>6 DEF TypeOK, Handlings
<1>3. CASE Misread(i)
  <2>1. handling' \in [Instances -> Handlings]
    BY <1>3, MisreadLemma
  <2>2. UNCHANGED <<client, traffic, phase, answer, up, declared, crashes, inbox, broker, deliveries,
                    replies, executions, results>>
    BY <1>3 DEF Misread, sender, ghosts
  <2> QED
    BY <2>1, <2>2 DEF TypeOK, Handlings
<1> QED
  BY <1>1, <1>2, <1>3

(* What the simple client answers.                                         *)
SimpleAnswer(r) ==
    IF r \in {"value", "unit"} THEN "value" ELSE IF r = "nothing" THEN "null" ELSE "raised"

LEMMA TypeSimple ==
    ASSUME TypeOK, NEW m \in Messages, NEW r \in Outcomes[m], RunRequest(m, r) \/ RunEvent(m, r)
    PROVE  TypeOK'
<1>1. r \in Results
  BY PubSubAssumption
<1>2. UNCHANGED <<client, traffic, up, declared, crashes, inbox, handling, broker, deliveries,
                  replies>>
  BY DEF RunRequest, RunEvent, receiver
<1>3. \E a \in Answers : End(m, a)
  BY DEF RunRequest, RunEvent, Answers
<1>4. Phase(m, "sent") \/ Phase(m, "lost")
  BY DEF RunRequest, RunEvent
<1>5. Ran(m, r) \/ UNCHANGED <<executions, results>>
  BY DEF RunRequest, RunEvent, ghosts
<1>6. executions' \in [Messages -> 0..MaxExecutions] /\ results' \in [Messages -> SUBSET Results]
  BY <1>1, <1>5, RanLemma DEF TypeOK
<1>7. phase' \in [Messages -> {"new", "submitted", "sent", "lost"}]
  BY <1>4, PhaseLemma
<1>8. answer' \in [Messages -> Answers \cup {NoAnswer}]
  BY <1>3, EndLemma
<1> HIDE DEF MaxExecutions
<1> QED
  BY <1>2, <1>6, <1>7, <1>8 DEF TypeOK

LEMMA TypeReply ==
    ASSUME TypeOK, NEW p \in replies, ReceiveReply(p)
    PROVE  TypeOK'
<1>1. /\ UNCHANGED <<client, traffic, phase, up, declared, crashes, inbox, handling, broker,
                     deliveries, executions, results>>
      /\ replies' \subseteq replies
  BY DEF ReceiveReply, receiver, ghosts
<1>2. p.message \in Messages
  BY DEF TypeOK, Messages
<1>3. Unwrap(p.response) \in Answers
  BY DEF Unwrap, Answers
<1>4. answer' \in [Messages -> Answers \cup {NoAnswer}]
  BY <1>2, <1>3, EndLemma DEF ReceiveReply
<1> QED
  BY <1>1, <1>4 DEF TypeOK

-----------------------------------------------------------------------------
(* Where messages are and how often they were executed.                    *)

(* The numbers of the counting invariants.                                 *)
LEMMA TriesLemma ==
    ASSUME TypeOK, NEW m \in Messages
    PROVE  /\ TriesOf(m) \in {1, 7} /\ crashes \in Nat
           /\ crashes * TriesOf(m) \in Nat
           /\ (1 + crashes) * TriesOf(m) = crashes * TriesOf(m) + TriesOf(m)
           /\ AtMost(m) = IF client = "amqp" THEN crashes * TriesOf(m) + TriesOf(m) ELSE 1
           /\ executions[m] \in Nat
<1>1. TriesOf(m) \in {1, 7}
  BY DEF TriesOf, MaxAttempts
<1>2. crashes \in Nat /\ executions[m] \in Nat
  <2>1. MaxCrashes \in Nat /\ MaxExecutions \in Nat
    BY PubSubAssumption DEF MaxExecutions
  <2> HIDE DEF MaxExecutions
  <2> QED
    BY <2>1 DEF TypeOK
<1>3. ASSUME NEW c \in Nat, NEW t \in {1, 7}
      PROVE  c * t \in Nat /\ (1 + c) * t = c * t + t
  <2>1. c * 1 = c /\ (1 + c) * 1 = c + 1 /\ c * 7 \in Nat /\ (1 + c) * 7 = c * 7 + 7
    OBVIOUS
  <2> QED
    BY <2>1
<1>5. (1 + crashes) * TriesOf(m) = crashes * TriesOf(m) + TriesOf(m) /\ crashes * TriesOf(m) \in Nat
  BY <1>1, <1>2, <1>3
<1>6. client \in {"nats", "amqp", "simple"}
  BY PubSubAssumption DEF TypeOK
<1>7. CASE client = "amqp"
  <2>1. AtMost(m) = (1 + crashes) * TriesOf(m)
    BY <1>7 DEF AtMost, TriesOf
  <2> QED
    BY <1>1, <1>2, <1>5, <1>7, <2>1
<1>8. CASE client # "amqp"
  BY <1>1, <1>2, <1>5, <1>6, <1>8 DEF AtMost
<1> QED
  BY <1>7, <1>8

(* HandlingInv of one instance, of which the client is known.              *)
HandlingAt(g, n, x, s) ==
    /\ n = NoMessage => g.result = NoResult
    /\ n # NoMessage =>
         /\ client # "simple"
         /\ g.tries <= TriesOf(n)
         /\ n \notin Garbled => x[n] >= g.tries
         /\ g.result = NoResult => g.tries < TriesOf(n)
         /\ g.result # NoResult =>
              /\ g.tries > 0
              /\ IF n \in Garbled THEN g.result = "garbled" ELSE g.result \in s[n]

LEMMA HandlingNext ==
    ASSUME client' = client,
           \A k \in Instances : HandlingAt(handling'[k], handling'[k].message, executions', results')
    PROVE  HandlingInv'
BY DEF HandlingInv, HandlingAt, TriesOf

LEMMA HandlingNow ==
    ASSUME HandlingInv, NEW k \in Instances
    PROVE  HandlingAt(handling[k], handling[k].message, executions, results)
BY DEF HandlingInv, HandlingAt

(* Executions that were counted stay counted.                              *)
LEMMA HandlingGrows ==
    ASSUME NEW x \in [Messages -> Nat], NEW y \in [Messages -> Nat], NEW s, NEW t,
           NEW g \in Handlings, HandlingAt(g, g.message, x, s),
           \A n \in Messages : x[n] <= y[n] /\ s[n] \subseteq t[n]
    PROVE  HandlingAt(g, g.message, y, t)
<1> DEFINE n == g.message
<1>1. n \in Messages \cup {NoMessage} /\ g.tries \in Nat
  BY DEF Handlings
<1>2. CASE n = NoMessage
  BY <1>2 DEF HandlingAt
<1>3. CASE n \in Messages
  <2>1. x[n] \in Nat /\ y[n] \in Nat /\ x[n] <= y[n] /\ s[n] \subseteq t[n] /\ n # NoMessage
    BY <1>3, PubSubAssumption
  <2>2. x[n] >= g.tries => y[n] >= g.tries
    BY <1>1, <2>1
  <2> QED
    BY <2>1, <2>2 DEF HandlingAt
<1> QED
  BY <1>1, <1>2, <1>3

Places == UnsentInv /\ OnePlace /\ HandlingInv /\ ExecutionsInv

(* Answers and replies do not matter to them.                              *)
LEMMA PlacesQuiet ==
    ASSUME PInv, UNCHANGED <<client, phase, crashes, broker, inbox, handling, executions, results>>,
           \A m \in Messages : phase[m] = "new" => answer'[m] = answer[m]
    PROVE  Places'
<1>1. UnsentInv'
  BY DEF PInv, UnsentInv, Unsent, Nowhere, Has, Handles
<1>2. OnePlace'
  BY DEF PInv, OnePlace, InStream, Has, Handles
<1>3. HandlingInv'
  BY DEF PInv, HandlingInv, TriesOf
<1>4. ExecutionsInv'
  BY DEF PInv, ExecutionsInv, InStream, AtMost, TriesOf, Handles
<1> QED
  BY <1>1, <1>2, <1>3, <1>4 DEF Places

(* Sending or submitting a message that is nowhere yet.                    *)
LEMMA PlacesSending ==
    ASSUME PInv, NEW m \in Messages, Unsent(m), NEW p \in {"submitted", "sent", "lost"}, Phase(m, p),
           p = "submitted" => m \in Requests /\ client # "nats",
           \A n \in Messages : n # m => answer'[n] = answer[n],
           UNCHANGED <<client, crashes, handling, executions, results>>,
           \/ broker' = broker /\ inbox' = inbox
           \/ p = "sent" /\ client \in {"amqp", "nats"} /\ broker' = broker \cup {m} /\ inbox' = inbox
           \/ /\ p = "sent" /\ broker' = broker
              /\ \E i \in Instances : inbox' = [inbox EXCEPT ![i] = @ \cup {m}]
    PROVE  Places'
<1>0. TypeOK /\ Nowhere(m) /\ executions[m] = 0
  BY DEF PInv, UnsentInv
<1>1. /\ phase'[m] = p /\ \A n \in Messages : n # m => phase'[n] = phase[n]
  BY <1>0, PhaseLemma
<1>2. PICK I \in SUBSET Instances :
        /\ \A i \in Instances : inbox'[i] = IF i \in I THEN inbox[i] \cup {m} ELSE inbox[i]
        /\ \A i, k \in I : i = k
        /\ broker' = broker \/ (broker' = broker \cup {m} /\ I = {} /\ p = "sent")
        /\ I # {} => p = "sent"
  <2>1. CASE inbox' = inbox
    <3>1. {} \in SUBSET Instances
      OBVIOUS
    <3> QED
      BY <2>1, <3>1
  <2>2. ASSUME NEW i \in Instances, inbox' = [inbox EXCEPT ![i] = @ \cup {m}], broker' = broker, p = "sent"
        PROVE  /\ \A k \in Instances : inbox'[k] = IF k \in {i} THEN inbox[k] \cup {m} ELSE inbox[k]
               /\ {i} \in SUBSET Instances
    BY <1>0, <2>2 DEF TypeOK
  <2> QED
    BY <2>1, <2>2
<1>3. \A n \in Messages, i \in Instances :
        /\ n # m => (Has(i, n)' <=> Has(i, n)) /\ (n \in broker' <=> n \in broker)
                    /\ (n \in inbox'[i] <=> n \in inbox[i])
        /\ Handles(i, n)' <=> Handles(i, n)
        /\ Has(i, m)' <=> i \in I
        /\ m \in inbox'[i] <=> i \in I
        /\ ~ Handles(i, m)
  BY <1>0, <1>2 DEF Nowhere, Has, Handles
<1>4. m \notin broker /\ (m \in broker' => I = {} /\ p = "sent")
  BY <1>0, <1>2 DEF Nowhere
<1>5. UnsentInv'
  <2> SUFFICES ASSUME NEW n \in Messages
               PROVE  /\ Unsent(n)' => Nowhere(n)' /\ executions'[n] = 0
                      /\ phase'[n] = "new" => answer'[n] = NoAnswer
                      /\ phase'[n] = "submitted" => n \in Requests /\ client' # "nats"
    BY DEF UnsentInv
  <2>1. CASE n = m
    BY <1>0, <1>1, <1>2, <1>3, <1>4, <2>1 DEF Unsent, Nowhere
  <2>2. CASE n # m
    BY <1>1, <1>3, <2>2 DEF PInv, UnsentInv, Unsent, Nowhere
  <2> QED
    BY <2>1, <2>2
<1>6. OnePlace'
  <2> SUFFICES ASSUME NEW n \in Messages, ~InStream(n)
               PROVE  /\ n \in broker' => \A i \in Instances : ~ Has(i, n)'
                      /\ \A i, k \in Instances : Has(i, n)' /\ Has(k, n)' => i = k
                      /\ \A i \in Instances : ~ (n \in inbox'[i] /\ Handles(i, n)')
    BY DEF OnePlace, InStream
  <2>1. CASE n = m
    BY <1>2, <1>3, <1>4, <2>1
  <2>2. CASE n # m
    BY <1>3, <2>2 DEF PInv, OnePlace
  <2> QED
    BY <2>1, <2>2
<1>7. HandlingInv'
  BY DEF PInv, HandlingInv, TriesOf
<1>8. ExecutionsInv'
  <2> SUFFICES ASSUME NEW n \in Messages, ~InStream(n)
               PROVE  /\ executions'[n] <= AtMost(n)'
                      /\ client' = "amqp" /\ n \in broker' => executions'[n] <= crashes' * TriesOf(n)'
                      /\ \A i \in Instances :
                           /\ n \in inbox'[i] => executions'[n] = 0
                           /\ Handles(i, n)' => executions'[n] <= handling'[i].tries
                                 + (IF client' = "amqp" THEN crashes' * TriesOf(n)' ELSE 0)
    BY DEF ExecutionsInv, InStream
  <2>1. AtMost(n)' = AtMost(n) /\ TriesOf(n)' = TriesOf(n)
    BY DEF AtMost, TriesOf
  <2>2. executions[n] <= AtMost(n) /\ crashes * TriesOf(n) \in Nat
    BY <1>0, TriesLemma DEF PInv, ExecutionsInv
  <2>3. CASE n = m
    BY <1>0, <1>3, <2>1, <2>2, <2>3
  <2>4. CASE n # m
    BY <1>3, <2>1, <2>2, <2>4 DEF PInv, ExecutionsInv
  <2> QED
    BY <2>3, <2>4
<1> QED
  BY <1>5, <1>6, <1>7, <1>8 DEF Places

(* A stream's delivery.                                                    *)
LEMMA PlacesDeliver ==
    ASSUME PInv, NEW i \in Instances, NEW m \in Messages, Deliver(i, m)
    PROVE  Places'
<1>0. TypeOK /\ InStream(m) /\ m \in broker /\ ~ Unsent(m)
  BY DEF PInv, UnsentInv, Nowhere, Deliver
<1>1. UNCHANGED <<client, phase, answer, crashes, broker, handling, executions, results>>
  BY DEF Deliver, sender, ghosts
<1>2. \A n \in Messages, k \in Instances :
        n # m => (Has(k, n)' <=> Has(k, n)) /\ (n \in inbox'[k] <=> n \in inbox[k])
  BY <1>0, <1>1 DEF Deliver, Has, Handles, TypeOK
<1>3. UnsentInv'
  BY <1>0, <1>1, <1>2 DEF PInv, UnsentInv, Unsent, Nowhere
<1>4. \A n \in Messages : ~InStream(n)' => n # m /\ ~InStream(n)
  BY <1>0, <1>1 DEF InStream
<1>5. OnePlace'
  BY <1>1, <1>2, <1>4 DEF PInv, OnePlace, Handles
<1>6. HandlingInv'
  BY <1>1 DEF PInv, HandlingInv, TriesOf
<1>7. ExecutionsInv'
  BY <1>1, <1>2, <1>4 DEF PInv, ExecutionsInv, AtMost, TriesOf, Handles
<1> QED
  BY <1>3, <1>5, <1>6, <1>7 DEF Places

(* Taking a message from memory or from the queue.                         *)
LEMMA PlacesTake ==
    ASSUME PInv, NEW i \in Instances, NEW m \in Messages, Take(i, m)
    PROVE  Places'
<1> DEFINE h == [Idle EXCEPT !.message = m]
<1>0. /\ TypeOK /\ NoMessage \notin Messages /\ client # "simple"
      /\ UNCHANGED <<client, phase, answer, crashes, executions, results>>
  BY PubSubAssumption DEF PInv, Take, sender, ghosts
<1>1. /\ handling'[i] = h /\ \A k \in Instances : k # i => handling'[k] = handling[k]
      /\ handling[i].message = NoMessage
      /\ h.message = m /\ h.tries = 0 /\ h.result = NoResult
  BY <1>0, IdleLemma, BecomesLemma DEF Take
<1> HIDE DEF h
<1>2. \/ /\ client = "nats" /\ m \in inbox[i] /\ broker' = broker
         /\ m \notin inbox'[i] /\ \A n \in Messages : n # m => (n \in inbox'[i] <=> n \in inbox[i])
         /\ \A k \in Instances : k # i => inbox'[k] = inbox[k]
      \/ client = "amqp" /\ m \in broker /\ broker' = broker \ {m} /\ inbox' = inbox
  BY <1>0 DEF Take, TypeOK
<1>3. \A k \in Instances, n \in Messages :
        /\ n \in inbox'[k] => n \in inbox[k]
        /\ Handles(k, n)' <=> Handles(k, n) \/ (k = i /\ n = m)
        /\ ~ Handles(i, n)
  BY <1>0, <1>1, <1>2 DEF Handles
<1>4. \A k \in Instances, n \in Messages :
        /\ n # m \/ k # i => (Has(k, n)' => Has(k, n))
        /\ Has(i, m)'
  BY <1>3 DEF Has
<1>5. broker' \subseteq broker /\ ~ Unsent(m)
  BY <1>2 DEF PInv, UnsentInv, Nowhere, Has
<1>6. UnsentInv'
  BY <1>0, <1>4, <1>5 DEF PInv, UnsentInv, Unsent, Nowhere
<1>7. OnePlace'
  <2> SUFFICES ASSUME NEW n \in Messages, ~InStream(n)
               PROVE  /\ n \in broker' => \A k \in Instances : ~ Has(k, n)'
                      /\ \A j, k \in Instances : Has(j, n)' /\ Has(k, n)' => j = k
                      /\ \A k \in Instances : ~ (n \in inbox'[k] /\ Handles(k, n)')
    BY <1>0 DEF OnePlace, InStream
  <2>1. CASE n # m
    BY <1>3, <1>4, <1>5, <2>1 DEF PInv, OnePlace
  <2>2. CASE n = m /\ client = "amqp"
    <3>1. m \in broker /\ m \notin broker' /\ \A k \in Instances : ~ Has(k, m)
      BY <1>2, <2>2 DEF PInv, OnePlace
    <3> QED
      BY <1>3, <1>4, <2>2, <3>1 DEF Has
  <2>3. CASE n = m /\ client # "amqp"
    <3>1. Has(i, m) /\ m \notin inbox'[i] /\ broker' = broker
      BY <1>2, <2>3 DEF Has
    <3>2. m \notin broker /\ \A k \in Instances : Has(k, m) => k = i
      BY <2>3, <3>1 DEF PInv, OnePlace
    <3>3. \A k \in Instances : Handles(k, m)' => k = i
      BY <1>3, <3>2 DEF Has
    <3> QED
      BY <1>3, <1>4, <2>3, <3>1, <3>2, <3>3
  <2> QED
    BY <2>1, <2>2, <2>3
<1>8. HandlingInv'
  <2>1. TriesOf(m) \in {1, 7} /\ executions[m] \in Nat
    BY <1>0, TriesLemma
  <2> SUFFICES ASSUME NEW k \in Instances
               PROVE  HandlingAt(handling'[k], handling'[k].message, executions', results')
    BY <1>0, HandlingNext
  <2>2. CASE k = i
    BY <1>0, <1>1, <2>1, <2>2 DEF HandlingAt
  <2>3. CASE k # i
    BY <1>0, <1>1, <2>3, HandlingNow DEF PInv
  <2> QED
    BY <2>2, <2>3
<1>9. ExecutionsInv'
  <2> SUFFICES ASSUME NEW n \in Messages, ~InStream(n)
               PROVE  /\ executions'[n] <= AtMost(n)'
                      /\ client' = "amqp" /\ n \in broker' => executions'[n] <= crashes' * TriesOf(n)'
                      /\ \A k \in Instances :
                           /\ n \in inbox'[k] => executions'[n] = 0
                           /\ Handles(k, n)' => executions'[n] <= handling'[k].tries
                                 + (IF client' = "amqp" THEN crashes' * TriesOf(n)' ELSE 0)
    BY <1>0 DEF ExecutionsInv, InStream
  <2>1. AtMost(n)' = AtMost(n) /\ TriesOf(n)' = TriesOf(n) /\ crashes * TriesOf(n) \in Nat
    BY <1>0, TriesLemma DEF AtMost, TriesOf
  <2>2. /\ executions[n] <= AtMost(n)
        /\ client = "amqp" /\ n \in broker => executions[n] <= crashes * TriesOf(n)
        /\ \A k \in Instances :
             /\ n \in inbox[k] => executions[n] = 0
             /\ Handles(k, n) => executions[n] <= handling[k].tries
                                   + (IF client = "amqp" THEN crashes * TriesOf(n) ELSE 0)
    BY DEF PInv, ExecutionsInv
  <2>3. ASSUME NEW k \in Instances, Handles(k, n)'
        PROVE  executions'[n] <= handling'[k].tries
                 + (IF client' = "amqp" THEN crashes' * TriesOf(n)' ELSE 0)
    <3>1. CASE k = i
      <4>1. n = m /\ handling'[k].tries = 0
        BY <1>1, <1>3, <2>3, <3>1
      <4> QED
        BY <1>0, <1>2, <2>1, <2>2, <4>1
    <3>2. CASE k # i
      BY <1>0, <1>1, <1>3, <2>1, <2>2, <2>3, <3>2
    <3> QED
      BY <3>1, <3>2
  <2> QED
    BY <1>0, <1>3, <1>5, <2>1, <2>2, <2>3
<1> QED
  BY <1>6, <1>7, <1>8, <1>9 DEF Places

(* Executing it.                                                           *)
LEMMA PlacesExecute ==
    ASSUME PInv, NEW i \in Instances, NEW r \in Results, Execute(i, r)
    PROVE  Places'
<1> DEFINE m == handling[i].message
<1>0. /\ TypeOK /\ HandlingInv /\ UNCHANGED <<client, phase, answer, crashes, broker, inbox>>
  BY DEF PInv, Execute, sender
<1>1. /\ m \in Messages /\ m \notin Garbled
      /\ handling[i].result = NoResult /\ handling[i].tries \in Nat
      /\ handling[i].tries < MaxAttempts
      /\ handling'[i].message = m /\ handling'[i].result = r
      /\ handling'[i].tries = handling[i].tries + 1
      /\ \A k \in Instances : k # i => handling'[k] = handling[k]
  BY <1>0, ExecuteLemma
<1>2. /\ \A n \in Messages : n # m => executions'[n] = executions[n] /\ results'[n] = results[n]
      /\ results'[m] = results[m] \cup {r} /\ executions[m] \in 0..MaxExecutions
      /\ executions'[m] = IF executions[m] < MaxExecutions THEN executions[m] + 1 ELSE executions[m]
      /\ MaxExecutions \in Nat /\ MaxExecutions > MaxAttempts /\ MaxAttempts = 7
  <2>1. Ran(m, r)
    BY DEF Execute
  <2> QED
    BY <1>0, <1>1, <2>1, RanLemma DEF MaxAttempts
<1> HIDE DEF MaxExecutions
<1>3. executions'[m] \in Nat /\ executions[m] <= executions'[m] /\ executions'[m] <= executions[m] + 1
  BY <1>2
<1>4. \A k \in Instances, n \in Messages :
        (Handles(k, n)' <=> Handles(k, n)) /\ (Has(k, n)' <=> Has(k, n))
  BY <1>0, <1>1 DEF Handles, Has
<1>5. Handles(i, m) /\ Has(i, m) /\ ~ Unsent(m)
  BY <1>1 DEF PInv, UnsentInv, Nowhere, Handles, Has
<1>6. UnsentInv'
  BY <1>0, <1>2, <1>4, <1>5 DEF PInv, UnsentInv, Unsent, Nowhere
<1>7. OnePlace'
  BY <1>0, <1>4 DEF PInv, OnePlace, InStream
<1>8. NoMessage \notin Messages /\ r # NoResult
  BY PubSubAssumption
<1>9. HandlingInv'
  <2>1. /\ client # "simple" /\ executions[m] >= handling[i].tries
        /\ handling[i].tries < TriesOf(m)
    BY <1>0, <1>1, <1>8 DEF HandlingInv
  <2>2. TriesOf(m) \in Nat /\ TriesOf(m) <= MaxAttempts
    BY <1>0, <1>1, <1>2, TriesLemma
  <2>3. executions'[m] >= handling[i].tries + 1 /\ handling[i].tries + 1 <= TriesOf(m)
    <3>1. executions[m] \in Nat
      BY <1>2
    <3>2. CASE executions[m] < MaxExecutions
      BY <1>1, <1>2, <2>1, <2>2, <3>1, <3>2
    <3>3. CASE executions[m] = MaxExecutions
      BY <1>1, <1>2, <2>1, <2>2, <3>1, <3>3
    <3> QED
      BY <1>2, <3>2, <3>3
  <2> SUFFICES ASSUME NEW k \in Instances
               PROVE  HandlingAt(handling'[k], handling'[k].message, executions', results')
    BY <1>0, HandlingNext
  <2>4. CASE k = i
    BY <1>1, <1>2, <1>8, <2>1, <2>3, <2>4 DEF HandlingAt
  <2>5. CASE k # i
    <3>1. handling'[k] = handling[k] /\ handling[k] \in Handlings
      BY <1>0, <1>1, <2>5 DEF TypeOK, Handlings
    <3>2. \A n \in Messages : executions[n] <= executions'[n] /\ results[n] \subseteq results'[n]
      BY <1>0, <1>2, <1>3, TriesLemma
    <3>3. executions \in [Messages -> Nat] /\ executions' \in [Messages -> Nat]
      BY <1>0, <1>1, <1>2, RanLemma DEF TypeOK, Execute
    <3> QED
      BY <1>0, <3>1, <3>2, <3>3, HandlingNow, HandlingGrows
  <2> QED
    BY <2>4, <2>5
<1>10. ExecutionsInv'
  <2> SUFFICES ASSUME NEW n \in Messages, ~InStream(n)
               PROVE  /\ executions'[n] <= AtMost(n)'
                      /\ client' = "amqp" /\ n \in broker' => executions'[n] <= crashes' * TriesOf(n)'
                      /\ \A k \in Instances :
                           /\ n \in inbox'[k] => executions'[n] = 0
                           /\ Handles(k, n)' => executions'[n] <= handling'[k].tries
                                 + (IF client' = "amqp" THEN crashes' * TriesOf(n)' ELSE 0)
    BY <1>0 DEF ExecutionsInv, InStream
  <2>1. /\ AtMost(n)' = AtMost(n) /\ TriesOf(n)' = TriesOf(n) /\ crashes * TriesOf(n) \in Nat
        /\ AtMost(n) = IF client = "amqp" THEN crashes * TriesOf(n) + TriesOf(n) ELSE 1
        /\ TriesOf(n) \in {1, 7}
    BY <1>0, TriesLemma DEF AtMost, TriesOf
  <2>2. /\ executions[n] <= AtMost(n)
        /\ client = "amqp" /\ n \in broker => executions[n] <= crashes * TriesOf(n)
        /\ \A k \in Instances :
             /\ n \in inbox[k] => executions[n] = 0
             /\ Handles(k, n) => executions[n] <= handling[k].tries
                                   + (IF client = "amqp" THEN crashes * TriesOf(n) ELSE 0)
    BY DEF PInv, ExecutionsInv
  <2>3. CASE n # m
    <3>1. \A k \in Instances : Handles(k, n) => k # i
      BY <1>5, <2>3 DEF Handles
    <3> QED
      BY <1>0, <1>1, <1>2, <1>4, <2>1, <2>2, <2>3, <3>1
  <2>4. CASE n = m
    <3>1. /\ m \notin broker /\ \A k \in Instances : Has(k, m) => k = i
          /\ m \notin inbox[i]
      BY <1>5, <2>4 DEF PInv, OnePlace
    <3>2. \A k \in Instances : m \notin inbox[k] /\ (Handles(k, m) => k = i)
      BY <3>1 DEF Has
    <3>3. executions'[m] <= handling[i].tries + 1
                              + (IF client = "amqp" THEN crashes * TriesOf(m) ELSE 0)
      BY <1>1, <1>2, <1>3, <1>5, <2>1, <2>2, <2>4
    <3>4. handling[i].tries + 1 <= TriesOf(m) /\ (client # "amqp" => TriesOf(m) = 1)
      BY <1>0, <1>1, <1>8, <2>1, <2>4 DEF HandlingInv, TriesOf
    <3>5. executions'[m] <= AtMost(m)
      BY <1>1, <1>3, <2>1, <2>4, <3>3, <3>4
    <3> QED
      BY <1>0, <1>1, <1>4, <2>1, <2>4, <3>1, <3>2, <3>3, <3>5
  <2> QED
    BY <2>3, <2>4
<1> QED
  BY <1>6, <1>7, <1>9, <1>10 DEF Places

(* Failing to read it.                                                     *)
LEMMA PlacesMisread ==
    ASSUME PInv, NEW i \in Instances, Misread(i)
    PROVE  Places'
<1> DEFINE m == handling[i].message
<1>0. /\ TypeOK /\ HandlingInv /\ NoMessage \notin Messages
      /\ UNCHANGED <<client, phase, answer, crashes, broker, inbox, executions, results>>
  BY PubSubAssumption DEF PInv, Misread, sender, ghosts
<1>1. /\ m \in Messages /\ m \in Garbled /\ m # NoMessage
      /\ handling[i].result = NoResult /\ handling[i].tries \in Nat
      /\ handling'[i].message = m /\ handling'[i].result = "garbled"
      /\ handling'[i].tries = handling[i].tries + 1
      /\ \A k \in Instances : k # i => handling'[k] = handling[k]
  BY <1>0, MisreadLemma
<1>2. \A k \in Instances, n \in Messages :
        (Handles(k, n)' <=> Handles(k, n)) /\ (Has(k, n)' <=> Has(k, n))
  BY <1>0, <1>1 DEF Handles, Has
<1>3. UnsentInv'
  BY <1>0, <1>2 DEF PInv, UnsentInv, Unsent, Nowhere
<1>4. OnePlace'
  BY <1>0, <1>2 DEF PInv, OnePlace, InStream
<1>5. HandlingInv'
  <2> SUFFICES ASSUME NEW k \in Instances
               PROVE  HandlingAt(handling'[k], handling'[k].message, executions', results')
    BY <1>0, HandlingNext
  <2>1. CASE k = i
    <3>1. HandlingAt(handling[i], m, executions, results)
      BY <1>0, HandlingNow
    <3>2. TriesOf(m) \in {1, 7}
      BY DEF TriesOf, MaxAttempts
    <3>3. client # "simple" /\ handling[i].tries < TriesOf(m)
      BY <1>1, <3>1 DEF HandlingAt
    <3>4. handling[i].tries + 1 <= TriesOf(m) /\ handling[i].tries + 1 > 0
      BY <1>1, <3>2, <3>3
    <3>5. "garbled" # NoResult
      BY ResultsLemma
    <3> QED
      BY <1>1, <2>1, <3>3, <3>4, <3>5 DEF HandlingAt
  <2>2. CASE k # i
    BY <1>0, <1>1, <2>2, HandlingNow
  <2> QED
    BY <2>1, <2>2
<1>6. ExecutionsInv'
  <2> SUFFICES ASSUME NEW n \in Messages, ~InStream(n)
               PROVE  /\ executions[n] <= AtMost(n)
                      /\ client = "amqp" /\ n \in broker => executions[n] <= crashes * TriesOf(n)
                      /\ \A k \in Instances :
                           /\ n \in inbox[k] => executions[n] = 0
                           /\ Handles(k, n) => executions[n] <= handling'[k].tries
                                 + (IF client = "amqp" THEN crashes * TriesOf(n) ELSE 0)
    BY <1>0, <1>2 DEF ExecutionsInv, InStream, AtMost, TriesOf
  <2>1. /\ executions[n] <= AtMost(n)
        /\ client = "amqp" /\ n \in broker => executions[n] <= crashes * TriesOf(n)
        /\ \A k \in Instances :
             /\ n \in inbox[k] => executions[n] = 0
             /\ Handles(k, n) => executions[n] <= handling[k].tries
                                   + (IF client = "amqp" THEN crashes * TriesOf(n) ELSE 0)
    BY DEF PInv, ExecutionsInv
  <2>2. crashes * TriesOf(n) \in Nat /\ executions[n] \in Nat
    BY <1>0, TriesLemma
  <2>3. \A k \in Instances : /\ handling[k].tries \in Nat /\ handling'[k].tries \in Nat
                            /\ handling[k].tries <= handling'[k].tries
    BY <1>0, <1>1 DEF TypeOK
  <2> QED
    BY <2>1, <2>2, <2>3
<1> QED
  BY <1>3, <1>4, <1>5, <1>6 DEF Places

(* An instance lets go of its message: it is done with it, or it crashes.  *)
LEMMA PlacesLeaves ==
    ASSUME PInv, NEW i \in Instances, UNCHANGED <<client, phase, answer, executions, results>>,
           handling' = [handling EXCEPT ![i] = Idle],
           \A k \in Instances : inbox'[k] \subseteq inbox[k],
           \/ crashes' = crashes /\ broker' \subseteq broker
           \/ crashes' = crashes + 1 /\ broker' = broker \cup Requeued(i) /\ inbox'[i] = {}
    PROVE  Places'
<1> DEFINE m == handling[i].message
<1>0. /\ TypeOK /\ HandlingInv /\ NoMessage \notin Messages /\ m \in Messages \cup {NoMessage}
      /\ crashes \in Nat
  BY PubSubAssumption DEF PInv, TypeOK
<1>1. /\ handling'[i] = Idle /\ \A k \in Instances : k # i => handling'[k] = handling[k]
      /\ Idle.message = NoMessage /\ Idle.result = NoResult
  BY <1>0, IdleLemma, BecomesLemma
<1>2. \A k \in Instances, n \in Messages :
        /\ Handles(k, n)' => k # i /\ Handles(k, n) /\ handling'[k] = handling[k]
        /\ n \in inbox'[k] => n \in inbox[k]
        /\ Has(k, n)' => Has(k, n)
  BY <1>0, <1>1 DEF Handles, Has
<1>3. \A n \in Messages : n \in broker' =>
        \/ n \in broker
        \/ n = m /\ client = "amqp" /\ crashes' = crashes + 1 /\ inbox'[i] = {}
  BY DEF Requeued
<1>4. m \in Messages => Handles(i, m) /\ Has(i, m) /\ ~ Unsent(m)
  BY <1>0 DEF PInv, UnsentInv, Nowhere, Handles, Has
<1>5. UnsentInv'
  <2> SUFFICES ASSUME NEW n \in Messages
               PROVE  /\ Unsent(n)' => Nowhere(n)' /\ executions'[n] = 0
                      /\ phase'[n] = "new" => answer'[n] = NoAnswer
                      /\ phase'[n] = "submitted" => n \in Requests /\ client' # "nats"
    BY DEF UnsentInv
  <2>1. Unsent(n)' <=> Unsent(n)
    BY DEF Unsent
  <2>2. Unsent(n) => Nowhere(n)'
    <3>1. Unsent(n) => Nowhere(n) /\ n # m
      BY <1>4 DEF PInv, UnsentInv
    <3> QED
      BY <1>2, <1>3, <3>1 DEF Nowhere
  <2> QED
    BY <2>1, <2>2 DEF PInv, UnsentInv
<1>6. OnePlace'
  <2> SUFFICES ASSUME NEW n \in Messages, ~InStream(n)
               PROVE  /\ n \in broker' => \A k \in Instances : ~ Has(k, n)'
                      /\ \A j, k \in Instances : Has(j, n)' /\ Has(k, n)' => j = k
                      /\ \A k \in Instances : ~ (n \in inbox'[k] /\ Handles(k, n)')
    BY DEF OnePlace, InStream
  <2>1. CASE n \in broker \/ n \notin broker'
    BY <1>2, <2>1 DEF PInv, OnePlace
  <2>2. CASE n \notin broker /\ n \in broker'
    <3>1. n = m /\ inbox'[i] = {}
      BY <1>3, <2>2
    <3>2. \A k \in Instances : Has(k, m) => k = i
      BY <1>4, <3>1 DEF PInv, OnePlace
    <3>3. ~ Has(i, n)'
      BY <1>2, <3>1 DEF Has
    <3> QED
      BY <1>2, <3>1, <3>2, <3>3 DEF Has
  <2> QED
    BY <2>1, <2>2
<1>7. HandlingInv'
  <2> SUFFICES ASSUME NEW k \in Instances
               PROVE  HandlingAt(handling'[k], handling'[k].message, executions', results')
    BY <1>0, HandlingNext
  <2>1. CASE k = i
    BY <1>0, <1>1, <2>1 DEF HandlingAt
  <2>2. CASE k # i
    BY <1>0, <1>1, <2>2, HandlingNow
  <2> QED
    BY <2>1, <2>2
<1>8. ExecutionsInv'
  <2> SUFFICES ASSUME NEW n \in Messages, ~InStream(n)
               PROVE  /\ executions'[n] <= AtMost(n)'
                      /\ client' = "amqp" /\ n \in broker' => executions'[n] <= crashes' * TriesOf(n)'
                      /\ \A k \in Instances :
                           /\ n \in inbox'[k] => executions'[n] = 0
                           /\ Handles(k, n)' => executions'[n] <= handling'[k].tries
                                 + (IF client' = "amqp" THEN crashes' * TriesOf(n)' ELSE 0)
    BY DEF ExecutionsInv, InStream
  <2> DEFINE T == TriesOf(n)
  <2>1. /\ T \in {1, 7} /\ executions[n] \in Nat /\ crashes * T \in Nat
        /\ AtMost(n) = IF client = "amqp" THEN crashes * T + T ELSE 1
        /\ (1 + crashes) * T = crashes * T + T
    BY <1>0, TriesLemma
  <2>2. TriesOf(n)' = T
    BY DEF TriesOf
  <2>3. AtMost(n)' = IF client = "amqp" THEN (1 + crashes') * T ELSE 1
    <3>1. client \in {"nats", "amqp", "simple"}
      BY <1>0, PubSubAssumption DEF TypeOK
    <3> QED
      BY <3>1 DEF AtMost, TriesOf
  <2>4. /\ crashes' * T \in Nat /\ crashes * T <= crashes' * T
        /\ (1 + crashes') * T = crashes' * T + T
        /\ crashes' = crashes + 1 => crashes' * T = crashes * T + T
    <3>1. CASE crashes' = crashes
      <4>1. crashes' # crashes + 1
        BY <1>0, <3>1
      <4> QED
        BY <2>1, <3>1, <4>1
    <3>2. CASE crashes' = crashes + 1
      <4>1. crashes' * T = crashes * T + T
        BY <1>0, <2>1, <3>2
      <4>2. (1 + crashes') * T = crashes' * T + T /\ crashes' * T \in Nat
        BY <1>0, <2>1, <3>2
      <4> HIDE DEF T
      <4> QED
        BY <2>1, <4>1, <4>2
    <3> QED
      BY <3>1, <3>2
  <2> HIDE DEF T
  <2>5. /\ executions[n] <= AtMost(n)
        /\ client = "amqp" /\ n \in broker => executions[n] <= crashes * T
        /\ \A k \in Instances :
             /\ n \in inbox[k] => executions[n] = 0
             /\ Handles(k, n) => executions[n] <= handling[k].tries
                                   + (IF client = "amqp" THEN crashes * T ELSE 0)
    BY DEF PInv, ExecutionsInv, T
  <2>6. executions'[n] <= AtMost(n)'
    BY <2>1, <2>3, <2>4, <2>5
  <2>7. client = "amqp" /\ n \in broker' => executions[n] <= crashes' * T
    <3>1. CASE n \in broker
      BY <2>1, <2>4, <2>5, <3>1
    <3>2. CASE n \notin broker /\ n \in broker' /\ client = "amqp"
      <4>1. n = m /\ crashes' = crashes + 1 /\ Handles(i, n) /\ n # NoMessage
        BY <1>0, <1>3, <1>4, <3>2
      <4>2. handling[i].tries \in Nat /\ handling[i].tries <= T
        BY <1>0, <4>1 DEF HandlingInv, TypeOK, T
      <4> QED
        BY <2>1, <2>4, <2>5, <3>2, <4>1, <4>2
    <3> QED
      BY <3>1, <3>2
  <2>8. ASSUME NEW k \in Instances, Handles(k, n)'
        PROVE  executions[n] <= handling'[k].tries + (IF client = "amqp" THEN crashes' * T ELSE 0)
    <3>1. handling'[k] = handling[k] /\ handling[k].tries \in Nat
          /\ executions[n] <= handling[k].tries + (IF client = "amqp" THEN crashes * T ELSE 0)
      BY <1>0, <1>2, <2>5, <2>8 DEF TypeOK
    <3> QED
      BY <2>1, <2>4, <3>1
  <2> QED
    BY <1>2, <2>2, <2>5, <2>6, <2>7, <2>8
<1> QED
  BY <1>5, <1>6, <1>7, <1>8 DEF Places

(* The retry advice.                                                       *)
LEMMA PlacesRetry ==
    ASSUME PInv, NEW i \in Instances, FinishAmqp(i),
           handling' = [handling EXCEPT ![i].result = NoResult], broker' = broker,
           handling[i].message \notin Requests, handling[i].tries < MaxAttempts
    PROVE  Places'
<1> DEFINE m == handling[i].message
<1>0. /\ TypeOK /\ HandlingInv /\ NoMessage \notin Messages /\ m \in Messages /\ m # NoMessage
      /\ UNCHANGED <<client, phase, answer, crashes, inbox, executions, results>>
  BY FinishLemma, PubSubAssumption DEF PInv, FinishAmqp, sender, ghosts
<1>1. /\ handling'[i].message = m /\ handling'[i].tries = handling[i].tries
      /\ handling'[i].result = NoResult
      /\ \A k \in Instances : k # i => handling'[k] = handling[k]
  <2>1. handling' = [handling EXCEPT ![i] = [handling[i] EXCEPT !.result = NoResult]]
    OBVIOUS
  <2> QED
    BY <1>0, <2>1, RetryLemma, BecomesLemma
<1>2. \A k \in Instances, n \in Messages :
        /\ (Handles(k, n)' <=> Handles(k, n)) /\ (Has(k, n)' <=> Has(k, n))
        /\ handling'[k].tries = handling[k].tries
  BY <1>0, <1>1 DEF Handles, Has
<1>3. UnsentInv'
  BY <1>0, <1>2 DEF PInv, UnsentInv, Unsent, Nowhere
<1>4. OnePlace'
  BY <1>0, <1>2 DEF PInv, OnePlace, InStream
<1>5. HandlingInv'
  <2> SUFFICES ASSUME NEW k \in Instances
               PROVE  HandlingAt(handling'[k], handling'[k].message, executions', results')
    BY <1>0, HandlingNext
  <2>1. CASE k = i
    <3>1. HandlingAt(handling[i], m, executions, results)
      BY <1>0, HandlingNow
    <3>2. TriesOf(m) = MaxAttempts
      BY DEF FinishAmqp, TriesOf
    <3> QED
      BY <1>0, <1>1, <2>1, <3>1, <3>2 DEF HandlingAt
  <2>2. CASE k # i
    BY <1>0, <1>1, <2>2, HandlingNow
  <2> QED
    BY <2>1, <2>2
<1>6. ExecutionsInv'
  BY <1>0, <1>2 DEF PInv, ExecutionsInv, InStream, AtMost, TriesOf
<1> QED
  BY <1>3, <1>4, <1>5, <1>6 DEF Places

(* The simple client has no instance at a message.                         *)
LEMMA PlacesSimple ==
    ASSUME PInv, NEW m \in Messages, NEW r \in Outcomes[m], RunRequest(m, r) \/ RunEvent(m, r)
    PROVE  Places'
<1>0. /\ TypeOK /\ client = "simple" /\ Unsent(m) /\ r \in Results
      /\ UNCHANGED <<client, crashes, broker, inbox, handling>>
  BY PubSubAssumption DEF PInv, RunRequest, RunEvent, receiver, Unsent
<1>1. phase'[m] \in {"sent", "lost"} /\ \A n \in Messages : n # m => phase'[n] = phase[n]
  <2>1. Phase(m, "sent") \/ Phase(m, "lost")
    BY DEF RunRequest, RunEvent
  <2> QED
    BY <1>0, <2>1, PhaseLemma
<1>2. \A n \in Messages : n # m => answer'[n] = answer[n]
  <2>1. \E a \in Answers : End(m, a)
    BY DEF RunRequest, RunEvent, Answers
  <2> QED
    BY <1>0, <2>1, EndLemma
<1>3. /\ \A n \in Messages : n # m => executions'[n] = executions[n]
      /\ executions'[m] \in {0, 1} /\ executions[m] = 0
  <2>1. executions[m] = 0
    BY <1>0 DEF PInv, UnsentInv
  <2>2. Ran(m, r) \/ executions' = executions
    BY DEF RunRequest, RunEvent, ghosts
  <2> QED
    BY <1>0, <2>1, <2>2, RanLemma
<1>4. \A k \in Instances, n \in Messages : ~ Handles(k, n) /\ ~ Handles(k, n)'
  BY <1>0, PubSubAssumption DEF PInv, HandlingInv, Handles
<1>5. Nowhere(m)
  BY <1>0 DEF PInv, UnsentInv
<1>6. UnsentInv'
  BY <1>0, <1>1, <1>2, <1>3 DEF PInv, UnsentInv, Unsent, Nowhere, Has, Handles
<1>7. OnePlace'
  BY <1>0 DEF PInv, OnePlace, InStream, Has, Handles
<1>8. HandlingInv'
  <2> SUFFICES ASSUME NEW k \in Instances
               PROVE  HandlingAt(handling'[k], handling'[k].message, executions', results')
    BY <1>0, HandlingNext
  <2>1. handling[k].message = NoMessage /\ handling[k].result = NoResult
    BY <1>0 DEF PInv, HandlingInv
  <2> QED
    BY <1>0, <2>1 DEF HandlingAt
<1>9. ExecutionsInv'
  <2>1. \A n \in Messages : AtMost(n) = 1 /\ AtMost(n)' = 1
    BY <1>0 DEF AtMost
  <2> QED
    BY <1>0, <1>3, <1>4, <1>5, <2>1 DEF PInv, ExecutionsInv, InStream, Nowhere, Has
<1> QED
  BY <1>6, <1>7, <1>8, <1>9 DEF Places

-----------------------------------------------------------------------------
(* What became of messages and requests.                                   *)

Ends == RepliesInv /\ StreamInv /\ GoneMeansSettled

(* In a stream it is StreamInv that says what became of a message.         *)
LEMMA GoneLemma ==
    ASSUME StreamInv',
           \A m \in Messages \ Requests :
               client' = "amqp" /\ phase'[m] = "sent" /\ ~Somewhere(m)' =>
                   \/ results'[m] \cap Successes # {}
                   \/ executions'[m] >= MaxAttempts \/ m \in Garbled
    PROVE  GoneMeansSettled'
<1> SUFFICES ASSUME NEW m \in Messages \ Requests, Kept(m)', phase'[m] = "sent", ~Somewhere(m)'
             PROVE  \/ results'[m] \cap Successes # {}
                    \/ client' = "nats" /\ results'[m] \cap Managed # {}
                    \/ client' = "amqp" /\ executions'[m] >= MaxAttempts
                    \/ m \in Garbled
  BY DEF GoneMeansSettled
<1>1. CASE InStream(m)'
  <2>1. /\ client' = "nats"
        /\ m \in Garbled \/ results'[m] \cap (Successes \cup Managed) # {}
    BY <1>1 DEF StreamInv, InStream, Somewhere
  <2> QED
    BY <2>1
<1>2. CASE client' = "amqp"
  BY <1>2
<1> QED
  BY <1>1, <1>2 DEF Kept

(* Steps that neither answer a message nor lose one.                       *)
LEMMA EndsKept ==
    ASSUME PInv, TypeOK', client' = client, replies' \subseteq replies,
           \A m \in Messages : executions[m] <= executions'[m] /\ results[m] \subseteq results'[m],
           \A m \in Messages : ~ Unsent(m) => phase'[m] = phase[m],
           \A m \in Messages \ Requests : Kept(m) /\ Unsent(m) /\ phase'[m] = "sent" => m \in broker',
           \A m \in Messages : InStream(m) /\ m \in broker => m \in broker',
           \A m \in Messages : client = "amqp" /\ Somewhere(m) => Somewhere(m)'
    PROVE  Ends'
<1>0. TypeOK /\ RepliesInv /\ StreamInv /\ GoneMeansSettled
  BY DEF PInv
<1>1. RepliesInv'
  <2> SUFFICES ASSUME NEW p \in replies
               PROVE  ~ Unsent(p.message)' /\ \E r \in results'[p.message] : p.response = Response(r)
    BY DEF RepliesInv
  <2>1. p.message \in Messages
    BY <1>0 DEF TypeOK, Messages
  <2>2. ~ Unsent(p.message) /\ \E r \in results[p.message] : p.response = Response(r)
    BY <1>0 DEF RepliesInv
  <2> QED
    BY <2>1, <2>2 DEF Unsent
<1>3. \A m \in Messages \ Requests : Kept(m) /\ phase'[m] = "sent" /\ m \notin broker' => phase[m] = "sent"
  BY DEF Unsent
<1>4. StreamInv'
  <2> SUFFICES ASSUME NEW m \in Messages \ Requests, InStream(m), phase'[m] = "sent", m \notin broker'
               PROVE  m \in Garbled \/ results'[m] \cap (Successes \cup Managed) # {}
    BY DEF StreamInv, InStream
  <2>1. phase[m] = "sent" /\ m \notin broker
    BY <1>3 DEF Kept
  <2> QED
    BY <1>0, <2>1 DEF StreamInv
<1>5. \A m \in Messages \ Requests :
         client' = "amqp" /\ phase'[m] = "sent" /\ ~Somewhere(m)' =>
             \/ results'[m] \cap Successes # {}
             \/ executions'[m] >= MaxAttempts \/ m \in Garbled
  <2> SUFFICES ASSUME NEW m \in Messages \ Requests, client = "amqp", phase'[m] = "sent", ~Somewhere(m)'
               PROVE  \/ results'[m] \cap Successes # {}
                      \/ executions'[m] >= MaxAttempts \/ m \in Garbled
    OBVIOUS
  <2>1. phase[m] = "sent" /\ ~ Somewhere(m)
    BY <1>3 DEF Kept, Somewhere
  <2>2. \/ results[m] \cap Successes # {}
        \/ executions[m] >= MaxAttempts \/ m \in Garbled
    BY <1>0, <2>1 DEF GoneMeansSettled, Kept
  <2>3. executions[m] \in Nat /\ executions'[m] \in Nat /\ MaxAttempts \in Nat
    <3>1. MaxExecutions \in Nat
      BY PubSubAssumption DEF MaxExecutions
    <3> HIDE DEF MaxExecutions
    <3> QED
      BY <1>0, <3>1 DEF TypeOK, MaxAttempts
  <2> QED
    BY <2>2, <2>3
<1>6. GoneMeansSettled'
  BY <1>4, <1>5, GoneLemma
<1> QED
  BY <1>1, <1>4, <1>6 DEF Ends

(* An instance is done with its message, or tries it again.                *)
LEMMA EndsFinish ==
    ASSUME PInv, TypeOK', NEW i \in Instances, FinishNats(i) \/ FinishAmqp(i)
    PROVE  Ends'
<1> PICK m \in Messages, r \in Results \cup {"garbled"} :
      m = handling[i].message /\ r = handling[i].result
  BY FinishLemma DEF PInv
<1> DEFINE failed == m \notin Requests /\ r \notin Successes
<1>0. /\ TypeOK /\ HandlingInv /\ RepliesInv /\ StreamInv /\ GoneMeansSettled
      /\ NoMessage \notin Messages /\ m # NoMessage /\ r # NoResult
      /\ handling[i].tries \in Nat /\ Garbled \cap Requests = {}
      /\ UNCHANGED <<client, phase, executions, results>>
  BY FinishLemma, PubSubAssumption DEF PInv, FinishNats, FinishAmqp, sender, ghosts
<1>1. /\ m \notin Garbled => r \in results[m] /\ executions[m] >= handling[i].tries
      /\ m \in Garbled => r = "garbled"
      /\ ~ Unsent(m) /\ executions[m] \in Nat
  <2>1. ~ Unsent(m)
    BY <1>0 DEF PInv, UnsentInv, Nowhere, Has, Handles
  <2> QED
    BY <1>0, <2>1, TriesLemma DEF HandlingInv
<1>2. \A n \in Messages, k \in Instances : k # i => (Handles(k, n)' <=> Handles(k, n))
  <2>1. \E h : handling' = [handling EXCEPT ![i] = h]
    BY DEF FinishNats, FinishAmqp
  <2> QED
    BY <1>0, <2>1 DEF Handles, TypeOK
<1>3. \A n \in Messages : Handles(i, n) => n = m
  BY DEF Handles
<1>4. replies' = replies \cup Replies(m, r)
  BY DEF FinishNats, FinishAmqp
<1>5. RepliesInv'
  <2>1. \A p \in Replies(m, r) : p.message = m /\ p.response = Response(r) /\ m \in Requests
    BY DEF Replies
  <2> QED
    BY <1>0, <1>1, <1>4, <2>1 DEF RepliesInv, Unsent
<1>6. CASE FinishNats(i)
  <2>1. /\ client = "nats"
        /\ broker' = broker \/ (r \in Successes \cup Managed \cup {"garbled"} /\ broker' = broker \ {m})
    BY <1>6 DEF FinishNats, Acknowledges
  <2>2. m \notin Garbled => r # "garbled"
    <3>1. m \notin Garbled => r \in Results
      BY <1>0, <1>1 DEF TypeOK
    <3> QED
      BY <3>1 DEF Results, Successes, Managed
  <2>3. StreamInv'
    <3> SUFFICES ASSUME NEW n \in Messages \ Requests, InStream(n), phase[n] = "sent", n \notin broker'
                 PROVE  n \in Garbled \/ results[n] \cap (Successes \cup Managed) # {}
      BY <1>0 DEF StreamInv, InStream
    <3>1. CASE n \notin broker
      BY <1>0, <3>1 DEF StreamInv
    <3>2. CASE n \in broker
      <4>1. n = m /\ r \in Successes \cup Managed \cup {"garbled"}
        BY <2>1, <3>2
      <4> QED
        BY <1>1, <2>2, <4>1
    <3> QED
      BY <3>1, <3>2
  <2>4. GoneMeansSettled'
    BY <1>0, <2>1, <2>3, GoneLemma
  <2> QED
    BY <1>5, <2>3, <2>4 DEF Ends
<1>7. CASE FinishAmqp(i)
  <2>1. /\ client = "amqp" /\ broker' = broker
        /\ \/ handling' = [handling EXCEPT ![i].result = NoResult]
           \/ ~ (failed /\ MayRetry(handling[i].tries))
    BY <1>7 DEF FinishAmqp, GivenBack
  <2>3. StreamInv'
    BY <1>0, <2>1 DEF StreamInv, InStream
  <2>4. \A n \in Messages : n # m => (Somewhere(n)' <=> Somewhere(n))
    <3>1. \A n \in Messages : n # m => ~ Handles(i, n) /\ ~ Handles(i, n)'
      <4>1. handling'[i].message \in {m, NoMessage}
        <5>1. \/ handling' = [handling EXCEPT ![i] = Idle]
              \/ handling' = [handling EXCEPT ![i] = [handling[i] EXCEPT !.result = NoResult]]
          BY <1>7 DEF FinishAmqp
        <5> QED
          BY <1>0, <5>1, RetryLemma, IdleLemma, BecomesLemma
      <4> QED
        BY <1>0, <1>3, <4>1 DEF Handles
    <3> QED
      BY <1>2, <2>1, <3>1 DEF Somewhere, Handles
  <2>5. m \notin Requests /\ ~ Somewhere(m)' =>
            \/ results[m] \cap Successes # {}
            \/ executions[m] >= MaxAttempts \/ m \in Garbled
    <3> SUFFICES ASSUME m \notin Requests, ~ Somewhere(m)', m \notin Garbled, r \notin Successes
                 PROVE  executions[m] >= MaxAttempts
      BY <1>1
    <3>1. handling' # [handling EXCEPT ![i].result = NoResult]
      <4>1. SUFFICES ASSUME handling' = [handling EXCEPT ![i] = [handling[i] EXCEPT !.result = NoResult]]
                     PROVE  FALSE
        OBVIOUS
      <4>2. handling'[i].message = m
        BY <1>0, <4>1, RetryLemma, BecomesLemma
      <4> QED
        BY <4>2 DEF Somewhere
    <3>2. failed
      OBVIOUS
    <3>3. ~ MayRetry(handling[i].tries)
      BY <2>1, <3>1, <3>2
    <3> QED
      BY <1>0, <1>1, <3>3 DEF MayRetry, MaxAttempts
  <2>6. \A n \in Messages \ Requests :
           client' = "amqp" /\ phase'[n] = "sent" /\ ~Somewhere(n)' =>
               \/ results'[n] \cap Successes # {}
               \/ executions'[n] >= MaxAttempts \/ n \in Garbled
    BY <1>0, <2>1, <2>4, <2>5 DEF GoneMeansSettled, Kept
  <2>7. GoneMeansSettled'
    BY <2>3, <2>6, GoneLemma
  <2> QED
    BY <1>5, <2>3, <2>7 DEF Ends
<1> QED
  BY <1>6, <1>7

-----------------------------------------------------------------------------
(* The inductive invariant.                                                *)

LEMMA PInvInit == Init => PInv
<1> SUFFICES ASSUME Init
             PROVE  PInv
  OBVIOUS
<1>1. TypeOK
  BY TypeInit
<1>2. \A m \in Messages : Nowhere(m) /\ phase[m] = "new"
  BY PubSubAssumption, IdleLemma DEF Init, Nowhere, Has, Handles
<1>3. UnsentInv
  BY <1>2 DEF Init, UnsentInv, Unsent
<1>4. OnePlace
  BY <1>2 DEF OnePlace, Nowhere, Has
<1>5. HandlingInv
  BY IdleLemma DEF Init, HandlingInv
<1>6. ExecutionsInv
  <2> SUFFICES ASSUME NEW m \in Messages
               PROVE  executions[m] <= AtMost(m) /\ executions[m] = 0 /\ Nowhere(m)
    BY <1>2 DEF ExecutionsInv, Nowhere, Has, Init
  <2> QED
    BY <1>1, <1>2, TriesLemma DEF Init
<1>7. Ends
  BY <1>2 DEF Init, Ends, RepliesInv, StreamInv, GoneMeansSettled
<1> QED
  BY <1>1, <1>3, <1>4, <1>5, <1>6, <1>7 DEF PInv, Places, Ends

(* What grows.                                                             *)
Grows == \A m \in Messages : executions[m] <= executions'[m] /\ results[m] \subseteq results'[m]

LEMMA GrowsLemma ==
    ASSUME TypeOK, NEW m \in Messages, NEW r \in Results,
           Ran(m, r) \/ UNCHANGED <<executions, results>>
    PROVE  Grows
<1>1. \A n \in Messages : executions[n] \in Nat
  BY TriesLemma
<1>2. CASE Ran(m, r)
  <2>1. /\ \A n \in Messages : n # m => executions'[n] = executions[n] /\ results'[n] = results[n]
        /\ results'[m] = results[m] \cup {r}
        /\ executions'[m] = executions[m] + 1 \/ executions'[m] = executions[m]
    BY <1>2, RanLemma
  <2> QED
    BY <1>1, <2>1 DEF Grows
<1>3. CASE UNCHANGED <<executions, results>>
  BY <1>1, <1>3 DEF Grows
<1> QED
  BY <1>2, <1>3

LEMMA SameGrows ==
    ASSUME TypeOK, UNCHANGED <<executions, results>>
    PROVE  Grows
BY TriesLemma DEF Grows

LEMMA InstancesKeep ==
    ASSUME PInv, NEW i \in Instances,
           Start(i) \/ Crash(i) \/ \E m \in Messages : Deliver(i, m) \/ Take(i, m)
    PROVE  PInv'
<1>0. TypeOK /\ NoMessage \notin Messages
  BY PubSubAssumption DEF PInv
<1>1. TypeOK'
  BY <1>0, TypeInstances
<1>2. Places'
  <2>1. CASE Start(i)
    <3>1. UNCHANGED <<client, phase, answer, crashes, broker, inbox, handling, executions, results>>
      BY <2>1 DEF Start, sender, ghosts
    <3> QED
      BY <3>1, PlacesQuiet
  <2>2. CASE Crash(i)
    <3>1. /\ UNCHANGED <<client, phase, answer, executions, results>>
          /\ handling' = [handling EXCEPT ![i] = Idle]
          /\ crashes' = crashes + 1 /\ broker' = broker \cup Requeued(i)
      BY <2>2 DEF Crash, sender, ghosts
    <3>2. inbox'[i] = {} /\ \A k \in Instances : inbox'[k] \subseteq inbox[k]
      BY <1>0, <2>2 DEF Crash, TypeOK
    <3> QED
      BY <3>1, <3>2, PlacesLeaves
  <2> QED
    BY <2>1, <2>2, PlacesDeliver, PlacesTake
<1>3. Ends'
  <2>1. UNCHANGED <<client, replies, phase, executions, results>>
    BY DEF Start, Crash, Deliver, Take, sender, ghosts
  <2>2. \A m \in Messages : InStream(m) /\ m \in broker => m \in broker'
    BY DEF Start, Crash, Deliver, Take, InStream
  <2>3. ASSUME NEW n \in Messages, client = "amqp", Somewhere(n)
        PROVE  Somewhere(n)'
    <3>1. CASE Start(i) \/ \E m \in Messages : Deliver(i, m)
      BY <2>3, <3>1 DEF Start, Deliver, Somewhere
    <3>2. CASE Crash(i)
      <4>1. \A k \in Instances : k # i => handling'[k] = handling[k]
        BY <1>0, <3>2, IdleLemma, BecomesLemma DEF Crash
      <4>2. broker' = broker \cup (IF handling[i].message # NoMessage THEN {handling[i].message} ELSE {})
        BY <2>3, <3>2 DEF Crash, Requeued
      <4> QED
        BY <1>0, <2>3, <4>1, <4>2 DEF Somewhere
    <3>3. ASSUME NEW m \in Messages, Take(i, m)
          PROVE  Somewhere(n)'
      <4>1. /\ handling'[i].message = m /\ handling[i].message = NoMessage
            /\ \A k \in Instances : k # i => handling'[k] = handling[k]
        BY <1>0, <3>3, IdleLemma, BecomesLemma DEF Take
      <4>2. broker' = broker \ {m}
        BY <2>3, <3>3 DEF Take
      <4> QED
        BY <1>0, <2>3, <4>1, <4>2 DEF Somewhere
    <3> QED
      BY <3>1, <3>2, <3>3
  <2>4. Grows
    BY <1>0, <2>1, SameGrows
  <2>5. /\ \A m \in Messages : ~ Unsent(m) => phase'[m] = phase[m]
        /\ \A m \in Messages \ Requests :
             Kept(m) /\ Unsent(m) /\ phase'[m] = "sent" => m \in broker'
    BY <2>1 DEF Unsent
  <2>6. client' = client /\ replies' \subseteq replies
    BY <2>1
  <2> QED
    BY <1>1, <2>2, <2>3, <2>4, <2>5, <2>6, EndsKept DEF Grows
<1> QED
  BY <1>1, <1>2, <1>3 DEF PInv, Places, Ends

(* Steps of the sender that send nothing.                                  *)
LEMMA QuietKeeps ==
    ASSUME PInv, TypeOK', replies' \subseteq replies,
           UNCHANGED <<client, phase, crashes, broker, inbox, handling, executions, results>>,
           \A m \in Messages : phase[m] = "new" => answer'[m] = answer[m]
    PROVE  PInv'
<1>1. Places'
  BY PlacesQuiet
<1>2. Ends'
  <2>1. Grows
    BY SameGrows DEF PInv
  <2>2. /\ \A m \in Messages : ~ Unsent(m) => phase'[m] = phase[m]
        /\ \A m \in Messages \ Requests :
             Kept(m) /\ Unsent(m) /\ phase'[m] = "sent" => m \in broker'
    BY DEF Unsent
  <2>3. /\ \A m \in Messages : InStream(m) /\ m \in broker => m \in broker'
        /\ \A m \in Messages : client = "amqp" /\ Somewhere(m) => Somewhere(m)'
    BY DEF Somewhere
  <2> QED
    BY <2>1, <2>2, <2>3, EndsKept DEF Grows
<1> QED
  BY <1>1, <1>2 DEF PInv, Places, Ends

(* Sending or submitting.                                                  *)
LEMMA SendingKeeps ==
    ASSUME PInv, TypeOK', NEW m \in Messages, Unsent(m),
           NEW p \in {"submitted", "sent", "lost"}, Phase(m, p),
           p = "submitted" => m \in Requests /\ client # "nats",
           \A n \in Messages : n # m => answer'[n] = answer[n],
           UNCHANGED <<client, crashes, handling, executions, results, replies>>,
           \/ p \in {"submitted", "lost"} /\ broker' = broker /\ inbox' = inbox
           \/ p = "sent" /\ Kept(m) /\ broker' = broker \cup {m} /\ inbox' = inbox
           \/ /\ p = "sent" /\ ~Kept(m) /\ broker' = broker
              /\ \E i \in Instances : inbox' = [inbox EXCEPT ![i] = @ \cup {m}]
    PROVE  PInv'
<1>0. TypeOK
  BY DEF PInv
<1>1. phase'[m] = p /\ \A n \in Messages : n # m => phase'[n] = phase[n]
  BY <1>0, PhaseLemma
<1>2. Places'
  BY PlacesSending DEF Kept, InStream
<1>3. Ends'
  <2>1. Grows
    BY <1>0, SameGrows
  <2>2. /\ \A n \in Messages : ~ Unsent(n) => phase'[n] = phase[n]
        /\ \A n \in Messages \ Requests :
             Kept(n) /\ Unsent(n) /\ phase'[n] = "sent" => n \in broker'
    BY <1>1 DEF Unsent
  <2>3. /\ \A n \in Messages : InStream(n) /\ n \in broker => n \in broker'
        /\ \A n \in Messages : client = "amqp" /\ Somewhere(n) => Somewhere(n)'
    BY DEF Somewhere
  <2> QED
    BY <2>1, <2>2, <2>3, EndsKept DEF Grows
<1> QED
  BY <1>2, <1>3 DEF PInv, Places, Ends

LEMMA SenderKeeps ==
    ASSUME PInv, NEW m \in Messages,
           Publish(m) \/ Request(m) \/ Submitted(m) \/ TimeOut(m) \/ ReplyTimeOut(m)
    PROVE  PInv'
<1>0. TypeOK /\ TypeOK'
  BY TypeSender DEF PInv
<1>1. UNCHANGED <<client, crashes, handling, executions, results, replies>>
  BY DEF Publish, Request, Submitted, TimeOut, ReplyTimeOut, receiver, ghosts
<1>2. \A n \in Messages : n # m => answer'[n] = answer[n]
  <2>1. answer' = answer \/ \E a \in Answers : End(m, a)
    BY DEF Publish, Request, Submitted, TimeOut, ReplyTimeOut, Answers
  <2> QED
    BY <1>0, <2>1, EndLemma
<1>3. CASE TimeOut(m) \/ ReplyTimeOut(m)
  <2>1. UNCHANGED <<client, phase, crashes, broker, inbox, handling, executions, results, replies>>
        /\ phase[m] # "new"
    BY <1>3 DEF TimeOut, ReplyTimeOut, receiver, ghosts
  <2>2. \A n \in Messages : phase[n] = "new" => answer'[n] = answer[n]
    BY <1>2, <2>1
  <2> QED
    BY <1>0, <2>1, <2>2, QuietKeeps
<1>4. CASE ~ (TimeOut(m) \/ ReplyTimeOut(m))
  <2>1. Unsent(m)
    BY <1>4 DEF Publish, Request, Submitted, Unsent
  <2>2. CASE Transmit(m)
    <3>1. PICK p \in {"sent", "lost"} :
             /\ Phase(m, p)
             /\ \/ p = "lost" /\ broker' = broker /\ inbox' = inbox
                \/ p = "sent" /\ Kept(m) /\ broker' = broker \cup {m} /\ inbox' = inbox
                \/ /\ p = "sent" /\ ~Kept(m) /\ broker' = broker
                   /\ \E i \in Instances : inbox' = [inbox EXCEPT ![i] = @ \cup {m}]
      BY <1>0, <2>2, TransmitLemma
    <3>2. p \in {"submitted", "sent", "lost"} /\ p # "submitted"
      OBVIOUS
    <3>3. \/ p \in {"submitted", "lost"} /\ broker' = broker /\ inbox' = inbox
          \/ p = "sent" /\ Kept(m) /\ broker' = broker \cup {m} /\ inbox' = inbox
          \/ /\ p = "sent" /\ ~Kept(m) /\ broker' = broker
             /\ \E i \in Instances : inbox' = [inbox EXCEPT ![i] = @ \cup {m}]
      BY <3>1
    <3> QED
      BY <1>0, <1>1, <1>2, <2>1, <3>1, <3>2, <3>3, SendingKeeps
  <2>3. CASE ~ Transmit(m)
    <3>1. /\ UNCHANGED <<broker, inbox>>
          /\ Phase(m, "lost") \/ (Phase(m, "submitted") /\ m \in Requests /\ client # "nats")
      BY <1>4, <2>3 DEF Publish, Request, Submitted
    <3> QED
      BY <1>0, <1>1, <1>2, <2>1, <3>1, SendingKeeps
  <2> QED
    BY <2>2, <2>3
<1> QED
  BY <1>3, <1>4

LEMMA WorkKeeps ==
    ASSUME PInv, NEW i \in Instances,
           (\E r \in Results : Execute(i, r)) \/ Misread(i) \/ FinishNats(i) \/ FinishAmqp(i)
    PROVE  PInv'
<1>0. TypeOK /\ TypeOK'
  BY TypeWork DEF PInv
<1>1. ASSUME NEW r \in Results, Execute(i, r)
      PROVE  PInv'
  <2>1. Places'
    BY <1>1, PlacesExecute
  <2>2. UNCHANGED <<client, phase, broker, replies>>
    BY <1>1 DEF Execute, sender
  <2>3. Grows
    <3>1. handling[i].message \in Messages
      BY <1>0, <1>1, ExecuteLemma DEF PInv
    <3>2. Ran(handling[i].message, r)
      BY <1>1 DEF Execute
    <3> QED
      BY <1>0, <3>1, <3>2, GrowsLemma
  <2>4. \A n \in Messages : Somewhere(n) => Somewhere(n)'
    <3>1. \A k \in Instances : handling'[k].message = handling[k].message
      BY <1>0, <1>1, ExecuteLemma DEF PInv
    <3> QED
      BY <2>2, <3>1 DEF Somewhere
  <2>5. /\ \A m \in Messages : ~ Unsent(m) => phase'[m] = phase[m]
        /\ \A m \in Messages \ Requests :
             Kept(m) /\ Unsent(m) /\ phase'[m] = "sent" => m \in broker'
    BY <2>2 DEF Unsent
  <2>6. Ends'
    BY <1>0, <2>2, <2>3, <2>4, <2>5, EndsKept DEF Grows
  <2> QED
    BY <1>0, <2>1, <2>6 DEF PInv, Places, Ends
<1>2. CASE FinishNats(i) \/ FinishAmqp(i)
  <2>1. Ends'
    BY <1>0, <1>2, EndsFinish
  <2>2. UNCHANGED <<client, phase, answer, crashes, inbox, executions, results>>
    BY <1>2 DEF FinishNats, FinishAmqp, sender, ghosts
  <2>3. \/ handling' = [handling EXCEPT ![i] = Idle] /\ broker' \subseteq broker
        \/ /\ FinishAmqp(i) /\ handling' = [handling EXCEPT ![i].result = NoResult]
           /\ broker' = broker /\ handling[i].message \notin Requests
           /\ handling[i].tries < MaxAttempts
    BY <1>2 DEF FinishNats, FinishAmqp, GivenBack, MayRetry
  <2>4. \A k \in Instances : inbox'[k] \subseteq inbox[k]
    BY <2>2
  <2>5. Places'
    BY <2>2, <2>3, <2>4, PlacesLeaves, PlacesRetry
  <2> QED
    BY <1>0, <2>1, <2>5 DEF PInv, Places, Ends
<1>3. CASE Misread(i)
  <2>1. Places'
    BY <1>3, PlacesMisread
  <2>2. UNCHANGED <<client, phase, broker, replies, executions, results>>
    BY <1>3 DEF Misread, sender, ghosts
  <2>3. \A n \in Messages : Somewhere(n) => Somewhere(n)'
    <3>1. \A k \in Instances : handling'[k].message = handling[k].message
      BY <1>0, <1>3, MisreadLemma DEF PInv
    <3> QED
      BY <2>2, <3>1 DEF Somewhere
  <2>4. Grows
    BY <1>0, <2>2, SameGrows
  <2>5. /\ \A m \in Messages : ~ Unsent(m) => phase'[m] = phase[m]
        /\ \A m \in Messages \ Requests :
             Kept(m) /\ Unsent(m) /\ phase'[m] = "sent" => m \in broker'
    BY <2>2 DEF Unsent
  <2>6. Ends'
    BY <1>0, <2>2, <2>3, <2>4, <2>5, EndsKept DEF Grows
  <2> QED
    BY <1>0, <2>1, <2>6 DEF PInv, Places, Ends
<1> QED
  BY <1>1, <1>2, <1>3

LEMMA SimpleKeeps ==
    ASSUME PInv, NEW m \in Messages, NEW r \in Outcomes[m], RunRequest(m, r) \/ RunEvent(m, r)
    PROVE  PInv'
<1>0. TypeOK /\ TypeOK' /\ r \in Results
  BY TypeSimple, PubSubAssumption DEF PInv
<1>1. UNCHANGED <<client, broker, handling, replies>> /\ client = "simple" /\ Unsent(m)
  BY DEF RunRequest, RunEvent, receiver, Unsent
<1>2. Places'
  BY PlacesSimple
<1>3. Grows
  <2>1. Ran(m, r) \/ UNCHANGED <<executions, results>>
    BY DEF RunRequest, RunEvent, ghosts
  <2> QED
    BY <1>0, <2>1, GrowsLemma
<1>4. /\ \A n \in Messages : ~ Unsent(n) => phase'[n] = phase[n]
      /\ \A n \in Messages \ Requests :
           Kept(n) /\ Unsent(n) /\ phase'[n] = "sent" => n \in broker'
  <2>1. Phase(m, "sent") \/ Phase(m, "lost")
    BY DEF RunRequest, RunEvent
  <2> QED
    BY <1>0, <1>1, <2>1, PhaseLemma DEF Kept, InStream
<1>5. Ends'
  BY <1>0, <1>1, <1>3, <1>4, EndsKept DEF Grows
<1> QED
  BY <1>0, <1>2, <1>5 DEF PInv, Places, Ends

LEMMA ReplyKeeps ==
    ASSUME PInv, NEW p \in replies, ReceiveReply(p)
    PROVE  PInv'
<1>0. TypeOK /\ TypeOK' /\ p.message \in Messages /\ ~ Unsent(p.message)
  BY TypeReply DEF PInv, TypeOK, Messages, RepliesInv
<1>1. /\ UNCHANGED <<client, phase, crashes, broker, inbox, handling, executions, results>>
      /\ replies' \subseteq replies
  BY DEF ReceiveReply, receiver, ghosts
<1>2. \A n \in Messages : phase[n] = "new" => answer'[n] = answer[n]
  <2>1. Unwrap(p.response) \in Answers /\ End(p.message, Unwrap(p.response))
    BY DEF ReceiveReply, Unwrap, Answers
  <2> QED
    BY <1>0, <2>1, EndLemma DEF Unsent
<1> QED
  BY <1>0, <1>1, <1>2, QuietKeeps

LEMMA PInvNext == PInv /\ [Next]_vars => PInv'
<1> SUFFICES ASSUME PInv, [Next]_vars
             PROVE  PInv'
  OBVIOUS
<1>1. CASE Next
  <2>1. ASSUME NEW i \in Instances,
               Start(i) \/ Crash(i) \/ InstanceStep(i) \/ \E m \in Messages : Deliver(i, m)
        PROVE  PInv'
    BY <2>1, InstancesKeep, WorkKeeps DEF InstanceStep
  <2>2. ASSUME NEW m \in Messages,
               \/ Publish(m) \/ Request(m) \/ Submitted(m) \/ TimeOut(m) \/ ReplyTimeOut(m)
               \/ \E r \in Outcomes[m] : RunRequest(m, r) \/ RunEvent(m, r)
        PROVE  PInv'
    BY <2>2, SenderKeeps, SimpleKeeps
  <2>3. ASSUME NEW p \in replies, ReceiveReply(p)
        PROVE  PInv'
    BY <2>3, ReplyKeeps
  <2> QED
    BY <1>1, <2>1, <2>2, <2>3 DEF Next
<1>2. CASE UNCHANGED vars
  <2>1. UNCHANGED <<client, traffic, phase, answer, up, declared, crashes, inbox, handling, broker,
                    deliveries, replies, executions, results>>
    BY <1>2 DEF vars, sender, receiver, ghosts
  <2>2. TypeOK'
    BY <2>1 DEF PInv, TypeOK
  <2> QED
    BY <2>1, <2>2, QuietKeeps
<1> QED
  BY <1>1, <1>2

(* PInv holds in every reachable state of the three clients, over any      *)
(* crashes, redeliveries and time-outs.                                    *)
THEOREM ClientsInvariant == Spec => []PInv
<1>1. PInv /\ [Next]_vars => PInv'
  BY PInvNext
<1> QED
  BY <1>1, PInvInit, PTL DEF Spec

-----------------------------------------------------------------------------
(* The remote call.  What RemoteCall sees of the variables: *)

Asked     == {m \in Requests : phase[m] # "new"}
ResultsOf == [m \in Requests |-> results[m]]
AnswerOf  == [m \in Requests |-> answer[m]]

LEMMA CallInit == Init => Call!Init
BY DEF Init, Call!Init, Messages

(* A step that does nothing to requests.                                   *)
LEMMA CallStutters ==
    ASSUME client' = client,
           \A n \in Requests : /\ phase'[n] = "new" <=> phase[n] = "new"
                               /\ results'[n] = results[n] /\ answer'[n] = answer[n]
    PROVE  UNCHANGED Call!vars
<1>1. Asked' = Asked
  BY DEF Asked
<1>2. ResultsOf' = ResultsOf /\ AnswerOf' = AnswerOf
  BY DEF ResultsOf, AnswerOf
<1> QED
  BY <1>1, <1>2 DEF Call!vars, Asked, ResultsOf, AnswerOf

(* A step that answers one request.                                        *)
LEMMA CallEnds ==
    ASSUME TypeOK, NEW m \in Requests, NEW a \in Answers \ {"sent"}, End(m, a), phase[m] # "new",
           client' = client, \A n \in Requests : phase'[n] = phase[n] /\ results'[n] = results[n],
           \/ a \in Call!GivenUp
           \/ a = "null" /\ client = "amqp"
           \/ a \notin Call!GivenUp /\ results[m] \cap Call!Behind(a) # {}
    PROVE  [Call!Next]_(Call!vars)
<1>0. m \in Messages /\ a \in Call!Answers /\ Requests \subseteq Messages
  BY DEF Messages, Answers, Call!Answers, Call!GivenUp
<1>1. CASE answer[m] # NoAnswer
  <2>1. answer' = answer
    BY <1>0, <1>1, EndLemma
  <2> QED
    BY <2>1, CallStutters
<1>2. CASE answer[m] = NoAnswer
  <2>1. AnswerOf' = [AnswerOf EXCEPT ![m] = a]
    <3>1. answer' = [answer EXCEPT ![m] = a] /\ answer \in [Messages -> Answers \cup {NoAnswer}]
      BY <1>0, <1>2, EndLemma DEF TypeOK
    <3>2. \A n \in Requests : answer'[n] = IF n = m THEN a ELSE answer[n]
      BY <1>0, <3>1
    <3> QED
      BY <3>2 DEF AnswerOf
  <2>2. Asked' = Asked /\ ResultsOf' = ResultsOf
    BY DEF Asked, ResultsOf
  <2>3. m \in Asked /\ AnswerOf[m] = NoAnswer /\ ResultsOf[m] = results[m]
    BY <1>2 DEF Asked, AnswerOf, ResultsOf
  <2>4. Call!End(m, a)
    BY <2>1, <2>2, <2>3 DEF Call!End, Asked, AnswerOf, ResultsOf
  <2> QED
    BY <1>0, <2>4 DEF Call!Next
<1> QED
  BY <1>1, <1>2

(* A step that makes one request, and perhaps ends it at once.             *)
LEMMA CallAsks ==
    ASSUME TypeOK, NEW m \in Requests, NEW p \in {"submitted", "sent", "lost"}, Phase(m, p),
           phase[m] = "new", answer[m] = NoAnswer, UNCHANGED <<client, results>>,
           answer' = answer \/ \E a \in {"refused", "cancelled"} : End(m, a)
    PROVE  Call!Next
<1>0. m \in Messages /\ Requests \subseteq Messages
  BY DEF Messages
<1>1. Asked' = Asked \cup {m} /\ m \notin Asked
  <2>1. phase'[m] = p /\ \A n \in Messages : n # m => phase'[n] = phase[n]
    BY <1>0, PhaseLemma
  <2> QED
    BY <1>0, <2>1 DEF Asked
<1>2. ResultsOf' = ResultsOf
  BY DEF ResultsOf
<1>3. CASE answer' = answer
  <2>1. Call!Ask(m)
    BY <1>1, <1>2, <1>3 DEF Call!Ask, Asked, ResultsOf
  <2> QED
    BY <2>1 DEF Call!Next
<1>4. ASSUME NEW a \in {"refused", "cancelled"}, End(m, a)
      PROVE  Call!Next
  <2>1. AnswerOf' = [AnswerOf EXCEPT ![m] = a]
    <3>1. a \in Answers
      BY DEF Answers
    <3>2. answer' = [answer EXCEPT ![m] = a] /\ answer \in [Messages -> Answers \cup {NoAnswer}]
      BY <1>0, <1>4, <3>1, EndLemma DEF TypeOK
    <3>3. \A n \in Requests : answer'[n] = IF n = m THEN a ELSE answer[n]
      BY <1>0, <3>2
    <3> QED
      BY <3>3 DEF AnswerOf
  <2>2. Call!Refuse(m, a)
    BY <1>1, <1>2, <2>1 DEF Call!Refuse, Asked, ResultsOf, AnswerOf
  <2> QED
    BY <2>2 DEF Call!Next
<1> QED
  BY <1>3, <1>4

(* What an execution does to the outcomes.                                 *)
LEMMA CallRuns ==
    ASSUME TypeOK, NEW m \in Messages, NEW r \in Results, Ran(m, r)
    PROVE  /\ m \in Requests => ResultsOf' = [ResultsOf EXCEPT ![m] = @ \cup {r}]
           /\ m \notin Requests => \A n \in Requests : results'[n] = results[n]
<1>1. /\ \A n \in Messages : n # m => results'[n] = results[n]
      /\ results'[m] = results[m] \cup {r}
  BY RanLemma
<1> QED
  BY <1>1 DEF ResultsOf, Messages

LEMMA CallExecutes ==
    ASSUME PInv, NEW i \in Instances, NEW r \in Results, Execute(i, r)
    PROVE  [Call!Next]_(Call!vars)
<1> PICK m \in Messages : m = handling[i].message
  BY ExecuteLemma DEF PInv
<1>1. TypeOK /\ Ran(m, r) /\ UNCHANGED <<client, phase, answer>>
  BY DEF PInv, Execute, sender
<1>2. CASE m \in Requests
  <2>1. m \in Asked
    BY <1>2 DEF PInv, UnsentInv, Unsent, Nowhere, Has, Handles, Asked
  <2>2. ResultsOf' = [ResultsOf EXCEPT ![m] = @ \cup {r}]
    BY <1>1, <1>2, CallRuns
  <2>3. Call!Execute(m, r)
    BY <1>1, <2>1, <2>2 DEF Call!Execute, Asked, ResultsOf
  <2> QED
    BY <1>2, <2>3 DEF Call!Next
<1>3. CASE m \notin Requests
  BY <1>1, <1>3, CallRuns, CallStutters
<1> QED
  BY <1>2, <1>3

(* The simple client's task.                                               *)
LEMMA CallRunsRequest ==
    ASSUME PInv, NEW m \in Messages, NEW r \in Outcomes[m], RunRequest(m, r)
    PROVE  [Call!Next]_(Call!vars)
<1> DEFINE a == SimpleAnswer(r)
<1>0. /\ TypeOK /\ r \in Results /\ m \in Requests /\ phase[m] = "submitted" /\ client' = client
      /\ Ran(m, r) /\ End(m, a) /\ a \in Answers /\ Requests \subseteq Messages
  BY PubSubAssumption DEF PInv, UnsentInv, RunRequest, SimpleAnswer, Answers, Messages
<1>1. Asked' = Asked /\ m \in Asked
  <2>1. phase'[m] = "sent" /\ \A n \in Messages : n # m => phase'[n] = phase[n]
    BY <1>0, PhaseLemma DEF RunRequest
  <2> QED
    BY <1>0, <2>1 DEF Asked
<1>2. ResultsOf' = [ResultsOf EXCEPT ![m] = @ \cup {r}]
  BY <1>0, CallRuns
<1>3. r \in Call!Behind(a) /\ a \in Call!Answers \ Call!GivenUp
  <2>1. r \in {"value", "nothing", "unit", "denied", "conflict", "silent", "fault", "mute"}
    BY <1>0 DEF Results, Successes, Managed
  <2>2. CASE r \in {"value", "unit"}
    BY <2>2 DEF SimpleAnswer, Call!Behind, Call!Answers, Call!GivenUp
  <2>3. CASE r = "nothing"
    BY <2>3 DEF SimpleAnswer, Call!Behind, Call!Answers, Call!GivenUp
  <2>4. CASE r \in {"denied", "conflict", "silent", "fault", "mute"}
    BY <2>4 DEF SimpleAnswer, Call!Behind, Call!Answers, Call!GivenUp
  <2> QED
    BY <2>1, <2>2, <2>3, <2>4
<1> HIDE DEF a
<1>4. CASE answer[m] # NoAnswer
  <2>1. answer' = answer
    BY <1>0, <1>4, EndLemma
  <2>2. Call!Execute(m, r)
    BY <1>0, <1>1, <1>2, <2>1 DEF Call!Execute, Asked, ResultsOf
  <2> QED
    BY <1>0, <2>2 DEF Call!Next
<1>5. CASE answer[m] = NoAnswer
  <2>1. AnswerOf' = [AnswerOf EXCEPT ![m] = a] /\ AnswerOf[m] = NoAnswer
    <3>1. answer' = [answer EXCEPT ![m] = a] /\ answer \in [Messages -> Answers \cup {NoAnswer}]
      BY <1>0, <1>5, EndLemma DEF TypeOK
    <3>2. \A n \in Requests : answer'[n] = IF n = m THEN a ELSE answer[n]
      BY <1>0, <3>1
    <3> QED
      BY <1>0, <1>5, <3>2 DEF AnswerOf
  <2>2. Call!ExecuteAndEnd(m, r, a)
    BY <1>0, <1>1, <1>2, <1>3, <2>1 DEF Call!ExecuteAndEnd, Asked, ResultsOf, AnswerOf
  <2> QED
    BY <1>0, <1>3, <2>2 DEF Call!Next
<1> QED
  BY <1>4, <1>5

(* A reply is that of an execution of its request.                         *)
LEMMA CallReplies ==
    ASSUME PInv, NEW p \in replies, ReceiveReply(p)
    PROVE  [Call!Next]_(Call!vars)
<1> DEFINE a == Unwrap(p.response)
<1>1. PICK m \in Requests : m = p.message
  BY DEF PInv, TypeOK
<1>2. PICK r \in results[m] : p.response = Response(r)
  BY <1>1 DEF PInv, RepliesInv
<1>3. /\ TypeOK /\ m \in Messages /\ phase[m] # "new" /\ End(m, a)
      /\ UNCHANGED <<client, phase, results>>
  BY <1>1 DEF PInv, RepliesInv, Unsent, ReceiveReply, ghosts, Messages
<1>4. r \in {"value", "nothing", "unit", "denied", "conflict", "silent", "fault", "mute"}
  <2>1. r \in Results
    BY <1>2, <1>3 DEF TypeOK
  <2> QED
    BY <2>1 DEF Results, Successes, Managed
<1>5. /\ Response(r).data <=> r \in {"value", "unit"}
      /\ Response(r).error <=> r \in {"denied", "conflict", "fault"}
      /\ Response(r).code = r
  BY DEF Response
<1>6. a \in Answers \ {"sent"} /\ a \notin Call!GivenUp /\ r \in Call!Behind(a)
  <2>1. CASE r \in {"value", "unit"}
    BY <1>2, <1>5, <2>1 DEF Unwrap, Answers, Call!GivenUp, Call!Behind
  <2>2. CASE r \in {"nothing", "silent", "mute"}
    BY <1>2, <1>5, <2>2 DEF Unwrap, Answers, Call!GivenUp, Call!Behind
  <2>3. CASE r = "denied"
    BY <1>2, <1>5, <2>3 DEF Unwrap, Answers, Call!GivenUp, Call!Behind
  <2>4. CASE r \in {"conflict", "fault"}
    BY <1>2, <1>5, <2>4 DEF Unwrap, Answers, Call!GivenUp, Call!Behind
  <2> QED
    BY <1>4, <2>1, <2>2, <2>3, <2>4
<1>7. results[m] \cap Call!Behind(a) # {}
  BY <1>2, <1>6
<1> HIDE DEF a
<1> QED
  BY <1>3, <1>6, <1>7, CallEnds DEF Messages

LEMMA CallSends ==
    ASSUME PInv, NEW m \in Messages, Publish(m) \/ Request(m) \/ Submitted(m)
    PROVE  [Call!Next]_(Call!vars)
<1>0. TypeOK /\ UNCHANGED <<client, results>> /\ Requests \subseteq Messages
  BY DEF PInv, Publish, Request, Submitted, ghosts, Messages
<1>1. \E p \in {"submitted", "sent", "lost"} : Phase(m, p)
  <2>1. CASE Transmit(m)
    BY <1>0, <2>1, TransmitLemma
  <2>2. CASE ~ Transmit(m)
    BY <2>2 DEF Publish, Request, Submitted
  <2> QED
    BY <2>1, <2>2
<1>2. PICK p \in {"submitted", "sent", "lost"} : Phase(m, p)
  BY <1>1
<1>3. phase'[m] = p /\ \A n \in Messages : n # m => phase'[n] = phase[n]
  <2>1. p \in {"new", "submitted", "sent", "lost"}
    OBVIOUS
  <2> QED
    BY <1>0, <1>2, <2>1, PhaseLemma
<1>4. CASE Publish(m)
  <2>1. m \notin Requests /\ \E a \in Answers : End(m, a)
    BY <1>4 DEF Publish, Answers
  <2>2. \A n \in Requests : phase'[n] = phase[n] /\ answer'[n] = answer[n]
    BY <1>0, <1>3, <2>1, EndLemma
  <2> QED
    BY <1>0, <2>2, CallStutters
<1>5. CASE Request(m)
  <2>1. /\ m \in Requests /\ phase[m] = "new"
        /\ answer' = answer \/ \E a \in {"refused", "cancelled"} : End(m, a)
    BY <1>5 DEF Request
  <2>2. answer[m] = NoAnswer
    BY <2>1 DEF PInv, UnsentInv
  <2> QED
    BY <1>0, <1>2, <2>1, <2>2, CallAsks
<1>6. CASE Submitted(m)
  <2>1. phase[m] = "submitted" /\ answer' = answer
    BY <1>6 DEF Submitted
  <2>2. \A n \in Requests : phase'[n] = "new" <=> phase[n] = "new"
    BY <1>0, <1>3, <2>1
  <2> QED
    BY <1>0, <2>1, <2>2, CallStutters
<1> QED
  BY <1>4, <1>5, <1>6

LEMMA CallTimesOut ==
    ASSUME PInv, NEW m \in Messages, TimeOut(m) \/ ReplyTimeOut(m)
    PROVE  [Call!Next]_(Call!vars)
<1>1. TypeOK /\ m \in Requests /\ phase[m] # "new" /\ UNCHANGED <<client, phase, results>>
  BY DEF PInv, TimeOut, ReplyTimeOut, ghosts
<1>2. CASE TimeOut(m)
  BY <1>1, <1>2, CallEnds DEF TimeOut, Answers, Call!GivenUp
<1>3. CASE ReplyTimeOut(m)
  BY <1>1, <1>3, CallEnds DEF ReplyTimeOut, Answers
<1> QED
  BY <1>2, <1>3

LEMMA CallRunsEvent ==
    ASSUME PInv, NEW m \in Messages, NEW r \in Outcomes[m], RunEvent(m, r)
    PROVE  [Call!Next]_(Call!vars)
<1>1. /\ TypeOK /\ m \notin Requests /\ r \in Results /\ client' = client
      /\ Requests \subseteq Messages
  BY PubSubAssumption DEF PInv, RunEvent, Messages
<1>2. \A n \in Requests : phase'[n] = phase[n]
  <2>1. Phase(m, "sent") \/ Phase(m, "lost")
    BY DEF RunEvent
  <2> QED
    BY <1>1, <2>1, PhaseLemma
<1>3. \A n \in Requests : answer'[n] = answer[n]
  <2>1. \E a \in Answers : End(m, a)
    BY DEF RunEvent, Answers
  <2> QED
    BY <1>1, <2>1, EndLemma
<1>4. \A n \in Requests : results'[n] = results[n]
  <2>1. Ran(m, r) \/ results' = results
    BY DEF RunEvent, ghosts
  <2> QED
    BY <1>1, <2>1, CallRuns
<1> QED
  BY <1>1, <1>2, <1>3, <1>4, CallStutters

LEMMA CallNext == PInv /\ [Next]_vars => [Call!Next]_(Call!vars)
<1> SUFFICES ASSUME PInv, [Next]_vars
             PROVE  [Call!Next]_(Call!vars)
  OBVIOUS
<1>1. ASSUME UNCHANGED <<client, phase, answer, results>>
      PROVE  [Call!Next]_(Call!vars)
  BY <1>1, CallStutters
<1>2. CASE Next
  <2>1. ASSUME NEW i \in Instances,
               Start(i) \/ Crash(i) \/ InstanceStep(i) \/ \E m \in Messages : Deliver(i, m)
        PROVE  [Call!Next]_(Call!vars)
    <3>1. CASE \E r \in Results : Execute(i, r)
      BY <3>1, CallExecutes
    <3>2. CASE ~ \E r \in Results : Execute(i, r)
      <4>1. UNCHANGED <<client, phase, answer, results>>
        BY <2>1, <3>2 DEF InstanceStep, Start, Crash, Take, Misread, FinishNats, FinishAmqp, Deliver,
                          sender, ghosts
      <4> QED
        BY <1>1, <4>1
    <3> QED
      BY <3>1, <3>2
  <2>2. ASSUME NEW m \in Messages,
               \/ Publish(m) \/ Request(m) \/ Submitted(m) \/ TimeOut(m) \/ ReplyTimeOut(m)
               \/ \E r \in Outcomes[m] : RunRequest(m, r) \/ RunEvent(m, r)
        PROVE  [Call!Next]_(Call!vars)
    BY <2>2, CallSends, CallTimesOut, CallRunsRequest, CallRunsEvent
  <2>3. ASSUME NEW p \in replies, ReceiveReply(p)
        PROVE  [Call!Next]_(Call!vars)
    BY <2>3, CallReplies
  <2> QED
    BY <1>2, <2>1, <2>2, <2>3 DEF Next
<1>3. CASE UNCHANGED vars
  <2>1. UNCHANGED <<client, phase, answer, results>>
    BY <1>3 DEF vars, sender, ghosts
  <2> QED
    BY <1>1, <2>1
<1> QED
  BY <1>2, <1>3

-----------------------------------------------------------------------------
(* The theorems.                                                           *)

(* The variables keep their types, for any messages, instances, crashes    *)
(* and deliveries: the tries of an instance never exceed the seven of the  *)
(* retry advice (AmqpUtil.java:159), and what is answered is always the    *)
(* answer to a request.                                                    *)
THEOREM ClientsTypes == Spec => []TypeOK
<1>1. PInv => TypeOK
  BY DEF PInv
<1> QED
  BY <1>1, ClientsInvariant, PTL

(* Whatever the number of crashes, an operation behind the simple client   *)
(* or core NATS runs at most once for a message, and behind AMQP at most   *)
(* once, or seven times for an event, for each time its instance was lost. *)
THEOREM ExecutionsAreBounded == Spec => []ExecutionsBounded
<1>1. PInv => ExecutionsBounded
  BY DEF PInv, ExecutionsInv, ExecutionsBounded
<1> QED
  BY <1>1, ClientsInvariant, PTL

(* No event or broadcast that a queue or a stream took vanishes with a     *)
(* crash, a redelivery or a retry: it is there, with an instance, executed *)
(* successfully, acknowledged with a managed exception                     *)
(* (NatsMessageHandler.java:67), dropped after seven executions failed     *)
(* (AmqpUtil.java:159), or not readable (NatsMessageHandler.java:41).      *)
THEOREM GoneEventsAreSettled == Spec => []GoneMeansSettled
<1>1. PInv => GoneMeansSettled
  BY DEF PInv
<1> QED
  BY <1>1, ClientsInvariant, PTL

(* Every step of the clients is a step of the remote call: an answer is    *)
(* the outcome of an execution of that request or a given-up call, and the *)
(* first one stays (AbstractPubSubClient.java:59).  This is the safety     *)
(* part of ImplementsRemoteCall.                                           *)
THEOREM ImplementsCallSafely == Spec => Call!SafeSpec
<1>1. Init => Call!Init
  BY CallInit
<1>2. PInv /\ [Next]_vars => [Call!Next]_(Call!vars)
  BY CallNext
<1> QED
  BY <1>1, <1>2, ClientsInvariant, PTL DEF Spec, Call!SafeSpec
=============================================================================
