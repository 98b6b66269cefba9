------------------------ MODULE FeatureTestsInvariant ------------------------
(***************************************************************************)
(* The inductive invariant behind the theorems about FeatureTests.         *)
(***************************************************************************)
EXTENDS FeatureTests

(* A scenario's configuration is what fn makes of the property, and the    *)
(* property what a class made of the test's map.                           *)
ConfigInv ==
    /\ config # None => given # None /\ config = Fn(property)
    /\ given # None => property \in IF given = Null THEN {Null, EmptyMap} ELSE {Json(given)}

(* Whom a context's header names: the platform, an account of both         *)
(* services, or the holder of a token.                                     *)
BySecret(f, c) ==
    c[2] = Secret /\ f.identity = [by |-> "secret", name |-> c[1], tenant |-> f.tenant]
ByAccount(f, c) ==
    /\ c[2] # Secret
    /\ \E x \in registered :
         /\ <<x.user, x.password>> = c /\ f.tenant = x.tenant
         /\ f.identity = [by |-> "account", name |-> x.user, tenant |-> x.tenant]
ByToken(f, v) ==
    \E k \in Tokens :
       /\ k.value = v /\ f.tenant = k.tenant
       /\ f.identity = [by |-> "token", name |-> v, tenant |-> k.tenant]

(* A context that is not anonymous can be had again from its header.       *)
Repeatable(f) ==
    IF f.authorization = None THEN f.identity = Anonymous
    ELSE \/ /\ f.authorization.scheme = "basic"
            /\ \E c \in Credentials(f.authorization.value) : BySecret(f, c) \/ ByAccount(f, c)
         \/ /\ f.authorization.scheme = "bearer"
            /\ ByToken(f, f.authorization.value)

FrontInv == front \notin {NoAnswer, Refused} => Repeatable(front)

(* The second service is called after the first has answered, once.        *)
OrderInv ==
    /\ attempts = 0 => front = NoAnswer
    /\ front \in {NoAnswer, Refused} => peer = NoAnswer

(* The AuthManagers are asked about the credentials in the header, which   *)
(* holds those that the feature gave, and no other header exists.          *)
Joined(c) == [scheme |-> "basic", value |-> c[1] \o <<Colon>> \o c[2]]
AskedInv ==
    /\ sent # None =>
         /\ header = Joined(sent) /\ sent = <<sent[1], sent[2]>>
         /\ sent[1] \in Seq(Letters \cup {Colon, Null}) /\ sent[2] \in Seq(Letters \cup {Colon, Null})
    /\ attempts = 0 => asked = {}
    /\ attempts # 0 => header # None /\ asked = Asks(header)
    /\ front \notin {NoAnswer, Refused} => front.authorization \in {None, header}

FInv == TypeOK /\ ConfigInv /\ FrontInv /\ OrderInv /\ AskedInv /\ PeerAgrees
=============================================================================
