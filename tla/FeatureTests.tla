---------------------------- MODULE FeatureTests ----------------------------
(***************************************************************************)
(* A Karate feature that runs against a service over MockMvc, and the way  *)
(* of its credentials: karate-config.js and basic-auth.js build the        *)
(* configuration and the Authorization header, RequestFilter and           *)
(* LocalPlatformAuthManager turn the header into an identity and a tenant, *)
(* a message takes both to a second service, whose listener does the same  *)
(* again.  Accounts appear and tokens expire while a scenario retries.     *)
(*                                                                         *)
(* A word is a sequence over Letters and Colon; Base64 is external and     *)
(* loses nothing, so a header holds the word it encodes.                   *)
(***************************************************************************)
EXTENDS Naturals, Sequences, FiniteSetsExt, SequencesExt

CONSTANTS
    Letters, Colon, MaxLength,
    Null,               \* Java's null, JavaScript's undefined
    Urls, MockMvc,      \* base URLs of tests, 'http://mockmvc'
    Empty,              \* an empty string as a base URL
    Accounts,           \* [user, password, tenant] of the AuthManager
    Secret,             \* the platform's secret, a word, or Null
    Tokens,             \* [value, tenant] that verify until they expire
    Tenants,
    None, Anonymous, Refused, NoAnswer

Words == BoundedSeq(Letters \cup {Colon}, MaxLength)

ASSUME FeatureAssumption ==
    /\ Colon \notin Letters
    /\ MaxLength \in Nat
    /\ Null \notin Letters \cup Tenants \cup Urls
    /\ Secret \in Words \cup {Null}

(* Nobody's credentials, and no token, are those of two tenants.           *)
ASSUME AccountsAssumption ==
    /\ \A x \in Accounts \cup Tokens : x.tenant \in Tenants \cup {Null}
    /\ \A x, y \in Accounts :
          x.user = y.user /\ x.password = y.password => x.tenant = y.tenant
    /\ \A k, l \in Tokens : k.value = l.value => k.tenant = l.tenant

(* karate-config.js configures up to five attempts of a request that is    *)
(* retried; its time-outs do not reach MockMvcHttpClient, whose setConfig  *)
(* is empty.                                                               *)
RetryCount == 5

(* Mutant: a sixth attempt.                                                *)
MayRetry_AtLimit(n) == n <= RetryCount

MayRetry(n) == n < RetryCount

(* What a test may pass: null, or a map with a base URL (which may be null *)
(* or empty), with another entry, with both or neither.                    *)
Entries == [baseUrl : Urls \cup {Empty, Null}, user : {"someone"}]
Restricted(f, S) == [k \in S |-> f[k]]
Maps == {Restricted(e, S) : e \in Entries, S \in SUBSET {"baseUrl", "user"}}
Configs == {Null} \cup Maps

ASSUME MapsAssumption == Null \notin Maps

VARIABLES
    given,      \* the map the test passed to create
    property,   \* karate.properties['config'], a JSON object
    config,     \* the result of karate-config.js in the scenario
    tenantId,   \* the scenario's X-TenantId
    sent,       \* the credentials given to basic-auth.js
    header,     \* the scenario's Authorization
    attempts,   \* requests of the scenario so far
    registered, \* accounts the services know
    live,       \* tokens that have not expired
    asked,      \* credentials the AuthManagers were asked about
    front, peer \* what the two services made of it

scenario == <<config, tenantId, sent, header, attempts, asked, front, peer>>
vars == <<given, property, scenario, registered, live>>

-----------------------------------------------------------------------------
(* The test.                                                               *)

(* Gson and Jackson (NON_NULL) both leave null entries out.                *)
Json(m) == Restricted(m, {k \in DOMAIN m : m[k] # Null})

EmptyMap == Restricted([baseUrl |-> Null], {})

Idle == /\ config' = None /\ tenantId' = Null /\ sent' = None /\ header' = None
        /\ attempts' = 0 /\ asked' = {} /\ front' = NoAnswer /\ peer' = NoAnswer

Init == /\ given = None /\ property = None
        /\ config = None /\ tenantId = Null /\ sent = None /\ header = None
        /\ attempts = 0 /\ asked = {} /\ front = NoAnswer /\ peer = NoAnswer
        /\ registered = {} /\ live = Tokens

(* KarateTestHelper.create, which replaces null by an empty map.           *)
CreateWithHelper(m) ==
    /\ given = None
    /\ given' = m
    /\ property' = IF m = Null THEN EmptyMap ELSE Json(m)
    /\ UNCHANGED <<scenario, registered, live>>

(* KarateTester.create: serialize(null) is null, and so is the property.   *)
CreateWithTester(m) ==
    /\ given = None
    /\ given' = m
    /\ property' = IF m = Null THEN Null ELSE Json(m)
    /\ UNCHANGED <<scenario, registered, live>>

(* fn of karate-config.js, called anew for each scenario.                  *)
Usable(c) == "baseUrl" \in DOMAIN c /\ c["baseUrl"] # Empty

(* Mutant: the default base URL is forgotten.                              *)
Fn_NoDefault(p) == IF p = Null THEN EmptyMap ELSE p

Fn(p) ==
    LET parsed == IF p = Null THEN EmptyMap ELSE p
    IN  IF Usable(parsed) THEN parsed
        ELSE [k \in DOMAIN parsed \cup {"baseUrl"} |->
                  IF k = "baseUrl" THEN MockMvc ELSE parsed[k]]

Configure ==
    /\ given # None /\ config = None
    /\ config' = Fn(property)
    /\ UNCHANGED <<given, property, tenantId, sent, header, attempts, asked,
                   front, peer, registered, live>>

(* basic-auth.js and HttpUtil.createBasicAuthorization; null is spelled.   *)
Spelled(w) == IF w = Null THEN <<Null>> ELSE w
BasicAuthorization(u, p) ==
    [scheme |-> "basic", value |-> Spelled(u) \o <<Colon>> \o Spelled(p)]

Prepare(t, c, h) ==
    /\ config # None /\ header = None
    /\ tenantId' = t /\ sent' = c /\ header' = h
    /\ UNCHANGED <<given, property, config, attempts, asked, front, peer,
                   registered, live>>

SignBasic(t, u, p) ==
    Prepare(t, <<Spelled(u), Spelled(p)>>, BasicAuthorization(u, p))

(* A header the feature writes itself.                                     *)
SignOtherwise(t, h) == Prepare(t, None, h)

-----------------------------------------------------------------------------
(* The services.                                                           *)

(* String.split(":"): the piece that begins at i ends before the next      *)
(* colon, and the empty ones at the end are dropped, so that a word of     *)
(* colons alone has none.  handle looks at two, a missing one is empty.    *)
PieceEnd(w, i) == Min({k \in i..Len(w) : w[k] = Colon} \cup {Len(w) + 1})

Pieces(w) ==
    LET first  == PieceEnd(w, 1)
        second == PieceEnd(w, first + 1)
    IN  <<SubSeq(w, 1, first - 1), SubSeq(w, first + 1, second - 1)>>

(* Mutant: empty pieces at the end are kept.                               *)
HasPieces_Always(w) == TRUE

HasPieces(w) == w = <<>> \/ \E i \in DOMAIN w : w[i] # Colon

Credentials(w) == IF HasPieces(w) THEN {Pieces(w)} ELSE {}

(* The answers of the application's AuthManager: an authentication with    *)
(* the account's tenant, or null, or an exception.                         *)
Authenticate(c) ==
    LET found == {a \in registered : <<a.user, a.password>> = c}
    IN  IF found # {} THEN {[by |-> "account", name |-> a.user, tenant |-> a.tenant] : a \in found}
        ELSE {Anonymous, Refused}

(* Bearer tokens: AuthManager or TokenProvider.decode.                     *)
Decode(v) ==
    LET valid == {k \in live : k.value = v}
    IN  IF valid # {} THEN {[by |-> "token", name |-> v, tenant |-> k.tenant] : k \in valid}
        ELSE {Anonymous, Refused}

(* LocalPlatformAuthManager.handle.                                        *)
Asks(h) == IF h # None /\ h.scheme = "basic"
           THEN {c \in Credentials(h.value) : c[2] # Secret} ELSE {}

Answers(context, h) ==
    CASE h.scheme = "bearer" -> Decode(h.value)
      [] h.scheme = "other"  -> {Anonymous}
      [] h.scheme = "basic"  ->
            IF Credentials(h.value) = {} THEN {Anonymous}
            ELSE UNION {IF c[2] = Secret
                        THEN {[by |-> "secret", name |-> c[1], tenant |-> context.tenant]}
                        ELSE Authenticate(c) : c \in Credentials(h.value)}

(* Mutant: the header is kept unchecked.                                   *)
Authenticated_KeepsHeader(context, h, a) ==
    IF a \in {Anonymous, Refused} THEN [context EXCEPT !.authorization = h]
    ELSE [context EXCEPT !.identity = a, !.tenant = a.tenant, !.authorization = h]

(* setAuthentication overwrites the tenant, and only an authenticated      *)
(* context keeps the header.                                               *)
Authenticated(context, h, a) ==
    IF a \in {Anonymous, Refused} THEN context
    ELSE [context EXCEPT !.identity = a, !.tenant = a.tenant, !.authorization = h]

Handle(context, h) ==
    IF h = None THEN {context}
    ELSE {IF a = Refused THEN Refused ELSE Authenticated(context, h, a) : a \in Answers(context, h)}

Context(t) == [identity |-> Anonymous, tenant |-> t, authorization |-> None]

(* RequestFilter: the tenant's holder is set again after handle.           *)
Send ==
    /\ header # None
    /\ attempts = 0 \/ (front = Refused /\ MayRetry(attempts))
    /\ attempts' = attempts + 1
    /\ asked' = asked \cup Asks(header)
    /\ front' \in Handle(Context(tenantId), header)
    /\ UNCHANGED <<given, property, config, tenantId, sent, header, peer, registered, live>>

(* The operation sends a message; MessageFactory takes tenant and          *)
(* authorization from the context, and OperationDispatchMessageHandler     *)
(* sets the tenant's holder before handle.                                 *)
Held(t, c) == IF c = Refused THEN Refused ELSE [context |-> c, holder |-> t]
Call ==
    /\ front \notin {NoAnswer, Refused} /\ peer = NoAnswer
    /\ asked' = asked \cup Asks(front.authorization)
    /\ \E c \in Handle(Context(front.tenant), front.authorization) :
           peer' = Held(front.tenant, c)
    /\ UNCHANGED <<given, property, config, tenantId, sent, header, attempts, front,
                   registered, live>>

(* Another client creates an account; time passes.                         *)
Register(a) == /\ a \notin registered
               /\ registered' = registered \cup {a}
               /\ UNCHANGED <<given, property, scenario, live>>
Expire(k) == /\ k \in live
             /\ live' = live \ {k}
             /\ UNCHANGED <<given, property, scenario, registered>>

(* The scenario ends, passed or failed; the run goes on with the next.     *)
NextScenario == /\ attempts > 0
                /\ Idle
                /\ UNCHANGED <<given, property, registered, live>>

Next ==
    \/ \E m \in Configs : CreateWithHelper(m) \/ CreateWithTester(m)
    \/ Configure
    \/ \E t \in Tenants \cup {Null} :
           \/ \E u, p \in Words \cup {Null} : SignBasic(t, u, p)
           \/ \E k \in Tokens : SignOtherwise(t, [scheme |-> "bearer", value |-> k.value])
           \/ SignOtherwise(t, [scheme |-> "other", value |-> <<>>])
           \/ \E w \in Words : SignOtherwise(t, [scheme |-> "basic", value |-> w])
    \/ Send \/ Call
    \/ \E a \in Accounts : Register(a)
    \/ \E k \in Tokens : Expire(k)
    \/ NextScenario

Spec == Init /\ [][Next]_vars

-----------------------------------------------------------------------------
Headers == [scheme : {"basic", "other"}, value : Seq(Letters \cup {Colon, Null})]
               \cup [scheme : {"bearer"}, value : {k.value : k \in Tokens}]
IsContext(c) == /\ DOMAIN c = {"identity", "tenant", "authorization"}
                /\ c.tenant \in Tenants \cup {Null}
                /\ c.authorization \in Headers \cup {None}

(* The variables have their types.                                         *)
TypeOK ==
    /\ given \in Configs \cup {None}
    /\ tenantId \in Tenants \cup {Null}
    /\ header \in Headers \cup {None}
    /\ attempts \in 0..RetryCount
    /\ registered \subseteq Accounts
    /\ live \subseteq Tokens
    /\ front \in {NoAnswer, Refused} \/ IsContext(front)
    /\ peer \in {NoAnswer, Refused} \/ IsContext(peer.context)

(* Every scenario finds the entries the test passed, and a base URL it can *)
(* call: karate-config.js looks at a property that two different classes   *)
(* write (karate-config.js:5-8).                                           *)
ConfigAsGiven ==
    config # None =>
        LET kept == IF given = Null THEN {} ELSE {k \in DOMAIN given : given[k] # Null}
        IN  /\ DOMAIN config = kept \cup {"baseUrl"}
            /\ config["baseUrl"] \in Urls \cup {MockMvc}
            /\ \A k \in kept : config[k] = given[k] \/ (k = "baseUrl" /\ given[k] = Empty)

(* An AuthManager is asked about the very credentials the feature gave     *)
(* exactly when neither contains a colon and they are not both empty:      *)
(* what createBasicAuthorization joins, split(":") takes apart, and drops  *)
(* what follows a second colon and every empty piece at the end            *)
(* (HttpUtil.java:31, LocalPlatformAuthManager.java:90).                   *)
Plain(w) == Colon \notin ToSet(w)
AskedAsSent ==
    sent # None /\ attempts > 0 =>
        LET whole == Plain(sent[1]) /\ Plain(sent[2]) /\ sent # <<<<>>, <<>>>>
        IN  /\ whole /\ sent[2] # Secret => asked = {sent}
            /\ ~whole => sent \notin asked

(* The second service sees whom the first one saw, in the same tenant, and *)
(* its thread's holder agrees with its context although the listener sets  *)
(* the holder before it authenticates (OperationDispatchMessageHandler     *)
(* .java:71); only a token that expired on the way may be lost.            *)
PeerAgrees ==
    peer \notin {NoAnswer, Refused} =>
        /\ peer.holder = front.tenant
        /\ peer.context.tenant = peer.holder
        /\ \/ peer.context.identity = front.identity
           \/ peer.context.identity = Anonymous /\ front.identity.by = "token"
=============================================================================
