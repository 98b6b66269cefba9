-------------------------- MODULE FeatureTestsProofs --------------------------
(***************************************************************************)
(* Proofs about FeatureTests: its inductive invariant FInv and what        *)
(* follows from it for any words, accounts, tokens and tenants.            *)
(***************************************************************************)
EXTENDS FeatureTestsInvariant, WellFoundedInduction, TLAPS

-----------------------------------------------------------------------------
(* The configuration.                                                      *)

LEMMA MapsLemma ==
    ASSUME NEW m \in Maps
    PROVE  /\ DOMAIN m \subseteq {"baseUrl", "user"}
           /\ "baseUrl" \in DOMAIN m => m["baseUrl"] \in Urls \cup {Empty, Null}
           /\ Json(m) \in Maps
           /\ DOMAIN Json(m) = {k \in DOMAIN m : m[k] # Null}
           /\ \A k \in DOMAIN Json(m) : Json(m)[k] = m[k]
<1>1. PICK e \in Entries, S \in SUBSET {"baseUrl", "user"} : m = [k \in S |-> e[k]]
  BY DEF Maps, Restricted
<1> DEFINE T == {k \in DOMAIN m : m[k] # Null}
<1>2. Json(m) = [k \in T |-> m[k]]
  BY DEF Json, Restricted
<1>3. T \subseteq S /\ \A k \in T : m[k] = e[k]
  BY <1>1
<1>4. Json(m) = [k \in T |-> e[k]] /\ T \in SUBSET {"baseUrl", "user"}
  BY <1>2, <1>3
<1>5. Json(m) \in Maps
  BY <1>4 DEF Maps, Restricted
<1>6. e["baseUrl"] \in Urls \cup {Empty, Null}
  BY DEF Entries
<1> QED
  BY <1>1, <1>2, <1>5, <1>6

LEMMA EmptyMapLemma == DOMAIN EmptyMap = {}
BY DEF EmptyMap, Restricted

(* What fn makes of a property is what the test gave, and a base URL.      *)
LEMMA FnLemma ==
    ASSUME NEW g \in Configs,
           NEW p \in IF g = Null THEN {Null, EmptyMap} ELSE {Json(g)}
    PROVE  LET c    == Fn(p)
               kept == IF g = Null THEN {} ELSE {k \in DOMAIN g : g[k] # Null}
           IN  /\ DOMAIN c = kept \cup {"baseUrl"}
               /\ c["baseUrl"] \in Urls \cup {MockMvc}
               /\ \A k \in kept : c[k] = g[k] \/ (k = "baseUrl" /\ g[k] = Empty)
<1> DEFINE parsed == IF p = Null THEN EmptyMap ELSE p
           kept == IF g = Null THEN {} ELSE {k \in DOMAIN g : g[k] # Null}
<1>1. DOMAIN parsed = kept /\ \A k \in kept : parsed[k] = g[k] /\ g[k] # Null
  <2>1. CASE g = Null
    BY <2>1, EmptyMapLemma
  <2>2. CASE g # Null
    <3>1. g \in Maps /\ p = Json(g)
      BY <2>2 DEF Configs
    <3>2. p # Null /\ DOMAIN Json(g) = kept /\ \A k \in kept : Json(g)[k] = g[k]
      BY <2>2, <3>1, MapsLemma, MapsAssumption
    <3> QED
      BY <2>2, <3>1, <3>2
  <2> QED
    BY <2>1, <2>2
<1>2. "baseUrl" \in kept => g["baseUrl"] \in Urls \cup {Empty}
  <2>1. CASE g = Null
    BY <2>1
  <2>2. CASE g # Null
    BY <2>2, MapsLemma DEF Configs
  <2> QED
    BY <2>1, <2>2
<1>3. CASE Usable(parsed)
  <2>1. Fn(p) = parsed
    BY <1>3 DEF Fn
  <2>2. "baseUrl" \in kept /\ parsed["baseUrl"] # Empty
    BY <1>1, <1>3 DEF Usable
  <2> HIDE DEF parsed, kept
  <2>3. kept = kept \cup {"baseUrl"}
    BY <2>2
  <2>4. parsed["baseUrl"] \in Urls
    BY <1>1, <1>2, <2>2
  <2>5. /\ DOMAIN Fn(p) = kept \cup {"baseUrl"}
        /\ Fn(p)["baseUrl"] \in Urls \cup {MockMvc}
        /\ \A k \in kept : Fn(p)[k] = g[k]
    BY <1>1, <2>1, <2>3, <2>4
  <2> QED
    BY <2>5 DEF kept
<1>4. CASE ~ Usable(parsed)
  <2>1. Fn(p) = [k \in DOMAIN parsed \cup {"baseUrl"} |-> IF k = "baseUrl" THEN MockMvc ELSE parsed[k]]
    BY <1>4 DEF Fn
  <2>2. "baseUrl" \in kept => g["baseUrl"] = Empty
    BY <1>1, <1>4 DEF Usable
  <2> HIDE DEF parsed, kept
  <2>3. /\ DOMAIN Fn(p) = kept \cup {"baseUrl"}
        /\ Fn(p)["baseUrl"] = MockMvc
        /\ \A k \in kept : k # "baseUrl" => Fn(p)[k] = g[k]
    BY <1>1, <2>1
  <2>4. \A k \in kept : Fn(p)[k] = g[k] \/ (k = "baseUrl" /\ g[k] = Empty)
    BY <2>2, <2>3
  <2> QED
    BY <2>3, <2>4 DEF kept
<1> QED
  BY <1>3, <1>4

LEMMA ConfigLemma == TypeOK /\ ConfigInv => ConfigAsGiven
<1> SUFFICES ASSUME TypeOK, ConfigInv, config # None
             PROVE  ConfigAsGiven
  BY DEF ConfigAsGiven
<1>1. /\ given \in Configs /\ config = Fn(property)
      /\ property \in IF given = Null THEN {Null, EmptyMap} ELSE {Json(given)}
  BY DEF TypeOK, ConfigInv
<1> QED
  BY <1>1, FnLemma DEF ConfigAsGiven

-----------------------------------------------------------------------------
(* Headers and contexts.                                                   *)

LEMMA WordsLemma ==
    ASSUME NEW w \in Words \cup {Null}
    PROVE  /\ Spelled(w) \in Seq(Letters \cup {Colon, Null})
           /\ w \in Words => w \in Seq(Letters \cup {Colon, Null})
<1> DEFINE L == Letters \cup {Colon, Null}
<1>1. ASSUME w \in Words
      PROVE  w \in Seq(L)
  <2>1. PICK n \in 0..MaxLength : w \in [1..n -> Letters \cup {Colon}]
    BY <1>1 DEF Words, BoundedSeq, SeqOf
  <2>2. n \in Nat
    BY FeatureAssumption
  <2>3. w \in [1..n -> L]
    BY <2>1
  <2> QED
    BY <2>2, <2>3
<1>2. <<Null>> \in Seq(L)
  OBVIOUS
<1> QED
  BY <1>1, <1>2 DEF Spelled

LEMMA HeadersLemma ==
    /\ \A u, p \in Words \cup {Null} : BasicAuthorization(u, p) \in Headers
    /\ \A k \in Tokens : [scheme |-> "bearer", value |-> k.value] \in Headers
    /\ [scheme |-> "other", value |-> <<>>] \in Headers
    /\ \A w \in Words : [scheme |-> "basic", value |-> w] \in Headers
<1> DEFINE L == Letters \cup {Colon, Null}
<1>1. ASSUME NEW u \in Words \cup {Null}, NEW p \in Words \cup {Null}
      PROVE  BasicAuthorization(u, p) \in Headers
  <2>1. Spelled(u) \in Seq(L) /\ Spelled(p) \in Seq(L) /\ <<Colon>> \in Seq(L)
    BY WordsLemma
  <2>2. ASSUME NEW a \in Seq(L), NEW b \in Seq(L), NEW c \in Seq(L)
        PROVE  a \o b \o c \in Seq(L)
    OBVIOUS
  <2> HIDE DEF L
  <2>3. Spelled(u) \o <<Colon>> \o Spelled(p) \in Seq(L)
    BY <2>1, <2>2
  <2> QED
    BY <2>3 DEF BasicAuthorization, Headers, L
<1>2. \A k \in Tokens : [scheme |-> "bearer", value |-> k.value] \in Headers
  BY DEF Headers
<1>3. [scheme |-> "other", value |-> <<>>] \in Headers
  <2>1. <<>> \in Seq(L)
    OBVIOUS
  <2> QED
    BY <2>1 DEF Headers
<1>4. \A w \in Words : [scheme |-> "basic", value |-> w] \in Headers
  BY WordsLemma DEF Headers
<1> QED
  BY <1>1, <1>2, <1>3, <1>4

(* The schemes are told apart.                                             *)
LEMMA SchemesLemma ==
    ASSUME NEW h \in Headers
    PROVE  h.scheme \in {"basic", "bearer", "other"}
BY DEF Headers

LEMMA ContextLemma ==
    ASSUME NEW t \in Tenants \cup {Null}
    PROVE  /\ IsContext(Context(t)) /\ Context(t).tenant = t
           /\ Context(t).identity = Anonymous /\ Context(t).authorization = None
BY DEF Context, IsContext

LEMMA AuthenticatedLemma ==
    ASSUME NEW t \in Tenants \cup {Null}, NEW h \in Headers, NEW a, a \notin {Anonymous, Refused},
           a.tenant \in Tenants \cup {Null}
    PROVE  LET f == Authenticated(Context(t), h, a)
           IN  /\ IsContext(f) /\ f.identity = a /\ f.tenant = a.tenant /\ f.authorization = h
<1>1. Authenticated(Context(t), h, a) = [identity |-> a, tenant |-> a.tenant, authorization |-> h]
  BY DEF Authenticated, Context
<1> QED
  BY <1>1 DEF IsContext

(* A header holds the credentials of one person at most.                   *)
LEMMA CredentialsLemma ==
    ASSUME NEW w, NEW c \in Credentials(w)
    PROVE  Credentials(w) = {c} /\ c = <<c[1], c[2]>>
<1>1. Credentials(w) = {Pieces(w)}
  BY DEF Credentials
<1>2. Pieces(w) = <<Pieces(w)[1], Pieces(w)[2]>>
  BY DEF Pieces
<1> QED
  BY <1>1, <1>2

(* Who may answer to a header: nobody, or somebody that is found again.    *)
LEMMA AnswersLemma ==
    ASSUME TypeOK, NEW t \in Tenants \cup {Null}, NEW h \in Headers, NEW a \in Answers(Context(t), h),
           a \notin {Anonymous, Refused}
    PROVE  \/ /\ h.scheme = "basic"
              /\ \E c \in Credentials(h.value) :
                   \/ c[2] = Secret /\ a = [by |-> "secret", name |-> c[1], tenant |-> t]
                   \/ /\ c[2] # Secret
                      /\ \E x \in registered :
                           /\ <<x.user, x.password>> = c
                           /\ a = [by |-> "account", name |-> x.user, tenant |-> x.tenant]
           \/ /\ h.scheme = "bearer"
              /\ \E k \in live : k.value = h.value
                    /\ a = [by |-> "token", name |-> h.value, tenant |-> k.tenant]
<1>1. CASE h.scheme = "basic"
  <2>1. a \in IF Credentials(h.value) = {} THEN {Anonymous}
             ELSE UNION {IF c[2] = Secret
                         THEN {[by |-> "secret", name |-> c[1], tenant |-> t]}
                         ELSE Authenticate(c) : c \in Credentials(h.value)}
    BY <1>1, ContextLemma DEF Answers
  <2>2. PICK c \in Credentials(h.value) :
           a \in IF c[2] = Secret THEN {[by |-> "secret", name |-> c[1], tenant |-> t]} ELSE Authenticate(c)
    BY <2>1
  <2>3. CASE c[2] = Secret
    BY <1>1, <2>2, <2>3
  <2>4. CASE c[2] # Secret
    <3>1. a \in Authenticate(c)
      BY <2>2, <2>4
    <3>2. \E x \in registered : <<x.user, x.password>> = c
               /\ a = [by |-> "account", name |-> x.user, tenant |-> x.tenant]
      BY <3>1 DEF Authenticate
    <3> QED
      BY <1>1, <2>4, <3>2
  <2> QED
    BY <2>3, <2>4
<1>2. CASE h.scheme = "bearer"
  <2>1. a \in Decode(h.value)
    BY <1>2 DEF Answers
  <2> QED
    BY <1>2, <2>1 DEF Decode
<1>3. CASE h.scheme = "other"
  BY <1>3 DEF Answers
<1> QED
  BY <1>1, <1>2, <1>3, SchemesLemma

(* A service makes of a request nothing, or somebody the header names.     *)
LEMMA HandleLemma ==
    ASSUME TypeOK, NEW t \in Tenants \cup {Null}, NEW h \in Headers, NEW f \in Handle(Context(t), h),
           f # Refused
    PROVE  IsContext(f) /\ Repeatable(f) /\ f.authorization \in {None, h}
<1>1. CASE f = Context(t)
  BY <1>1, ContextLemma DEF Repeatable
<1>2. CASE f # Context(t)
  <2>1. h # None
    BY <1>2 DEF Handle
  <2>2. PICK a \in Answers(Context(t), h) :
           f = IF a = Refused THEN Refused ELSE Authenticated(Context(t), h, a)
    BY <2>1 DEF Handle
  <2>3. a \notin {Anonymous, Refused} /\ f = Authenticated(Context(t), h, a)
    BY <1>2, <2>2 DEF Authenticated
  <2>4. a.tenant \in Tenants \cup {Null}
    <3>1. \A x \in registered : x.tenant \in Tenants \cup {Null}
      BY AccountsAssumption DEF TypeOK
    <3>2. \A k \in live : k.tenant \in Tenants \cup {Null}
      BY AccountsAssumption DEF TypeOK
    <3> QED
      BY <2>3, <3>1, <3>2, AnswersLemma
  <2>5. IsContext(f) /\ f.identity = a /\ f.tenant = a.tenant /\ f.authorization = h
    BY <2>3, <2>4, AuthenticatedLemma
  <2>6. \/ /\ h.scheme = "basic"
           /\ \E c \in Credentials(h.value) : BySecret(f, c) \/ ByAccount(f, c)
        \/ h.scheme = "bearer" /\ ByToken(f, h.value)
    <3>1. CASE h.scheme = "basic"
      <4>1. PICK c \in Credentials(h.value) :
                   \/ c[2] = Secret /\ a = [by |-> "secret", name |-> c[1], tenant |-> t]
                   \/ /\ c[2] # Secret
                      /\ \E x \in registered :
                           /\ <<x.user, x.password>> = c
                           /\ a = [by |-> "account", name |-> x.user, tenant |-> x.tenant]
        BY <2>3, <3>1, AnswersLemma
      <4>2. BySecret(f, c) \/ ByAccount(f, c)
        BY <2>5, <4>1 DEF BySecret, ByAccount
      <4> QED
        BY <3>1, <4>2
    <3>2. CASE h.scheme # "basic"
      <4>1. h.scheme = "bearer" /\ \E k \in live : k.value = h.value
                    /\ a = [by |-> "token", name |-> h.value, tenant |-> k.tenant]
        BY <2>3, <3>2, AnswersLemma
      <4> QED
        BY <2>5, <4>1 DEF ByToken, TypeOK
    <3> QED
      BY <3>1, <3>2
  <2> QED
    BY <2>1, <2>5, <2>6 DEF Repeatable
<1> QED
  BY <1>1, <1>2

(* The second service answers to the same header as the first did, unless  *)
(* the token has expired.                                                  *)
LEMMA SameAnswer ==
    ASSUME TypeOK, NEW f, IsContext(f), Repeatable(f), f.authorization # None,
           NEW a \in Answers(Context(f.tenant), f.authorization)
    PROVE  \/ a = f.identity /\ a.tenant = f.tenant
           \/ a \in {Anonymous, Refused} /\ f.identity.by = "token"
<1> DEFINE h == f.authorization
<1>0. h \in Headers /\ f.tenant \in Tenants \cup {Null} /\ Context(f.tenant).tenant = f.tenant
  BY ContextLemma DEF IsContext
<1>1. CASE h.scheme = "basic"
  <2>1. PICK c \in Credentials(h.value) : BySecret(f, c) \/ ByAccount(f, c)
    BY <1>1 DEF Repeatable
  <2>2. Credentials(h.value) = {c} /\ c = <<c[1], c[2]>>
    BY CredentialsLemma
  <2>3. a \in IF c[2] = Secret THEN {[by |-> "secret", name |-> c[1], tenant |-> f.tenant]}
             ELSE Authenticate(c)
    BY <1>0, <1>1, <2>2 DEF Answers
  <2>4. CASE BySecret(f, c)
    BY <2>3, <2>4 DEF BySecret
  <2>5. CASE ByAccount(f, c)
    <3>1. PICK x \in registered :
             /\ <<x.user, x.password>> = c /\ f.tenant = x.tenant
             /\ f.identity = [by |-> "account", name |-> x.user, tenant |-> x.tenant]
      BY <2>5 DEF ByAccount
    <3>2. a \in Authenticate(c)
      BY <2>3, <2>5 DEF ByAccount
    <3>3. PICK y \in registered :
             /\ <<y.user, y.password>> = c
             /\ a = [by |-> "account", name |-> y.user, tenant |-> y.tenant]
      BY <3>1, <3>2 DEF Authenticate
    <3>4. y.user = x.user /\ y.password = x.password
      BY <3>1, <3>3
    <3>5. y.tenant = x.tenant
      BY <3>4, AccountsAssumption DEF TypeOK
    <3> QED
      BY <3>1, <3>3, <3>4, <3>5
  <2> QED
    BY <2>1, <2>4, <2>5
<1>2. CASE h.scheme # "basic"
  <2>1. h.scheme = "bearer" /\ ByToken(f, h.value)
    BY <1>2 DEF Repeatable
  <2>2. PICK k \in Tokens :
           /\ k.value = h.value /\ f.tenant = k.tenant
           /\ f.identity = [by |-> "token", name |-> h.value, tenant |-> k.tenant]
    BY <2>1 DEF ByToken
  <2>3. a \in Decode(h.value)
    BY <2>1 DEF Answers
  <2>4. \/ \E l \in live : l.value = h.value
              /\ a = [by |-> "token", name |-> h.value, tenant |-> l.tenant]
        \/ a \in {Anonymous, Refused}
    BY <2>3 DEF Decode
  <2>5. \A l \in live : l.value = h.value => l.tenant = k.tenant
    BY <2>2, AccountsAssumption DEF TypeOK
  <2> QED
    BY <2>2, <2>4, <2>5
<1> QED
  BY <1>1, <1>2

LEMMA PeerLemma ==
    ASSUME TypeOK, NEW f, IsContext(f), Repeatable(f),
           NEW c \in Handle(Context(f.tenant), f.authorization), c # Refused
    PROVE  /\ IsContext(c) /\ c.tenant = f.tenant
           /\ c.identity = f.identity \/ (c.identity = Anonymous /\ f.identity.by = "token")
<1> DEFINE h == f.authorization  x == Context(f.tenant)
<1>0. f.tenant \in Tenants \cup {Null} /\ IsContext(x) /\ x.tenant = f.tenant /\ x.identity = Anonymous
  BY ContextLemma DEF IsContext
<1>1. CASE h = None
  BY <1>0, <1>1 DEF Handle, Repeatable
<1>2. CASE h # None
  <2>1. h \in Headers
    BY <1>2 DEF IsContext
  <2>2. PICK a \in Answers(x, h) : c = IF a = Refused THEN Refused ELSE Authenticated(x, h, a)
    BY <1>2 DEF Handle
  <2>3. /\ a # Refused /\ c = Authenticated(x, h, a)
        /\ \/ a = f.identity /\ a.tenant = f.tenant
           \/ a \in {Anonymous, Refused} /\ f.identity.by = "token"
    BY <1>2, <2>2, SameAnswer
  <2>4. CASE a = Anonymous
    BY <1>0, <2>3, <2>4 DEF Authenticated
  <2>5. CASE a # Anonymous
    <3>1. a \notin {Anonymous, Refused} /\ a = f.identity /\ a.tenant = f.tenant
      BY <2>3, <2>5
    <3> QED
      BY <1>0, <2>1, <2>3, <3>1, AuthenticatedLemma
  <2> QED
    BY <2>4, <2>5
<1> QED
  BY <1>1, <1>2

-----------------------------------------------------------------------------
(* What split(":") makes of the credentials.                               *)

L == Letters \cup {Colon, Null}

LEMMA Least ==
    ASSUME NEW S, S \subseteq Nat, S # {}
    PROVE  Min(S) \in S /\ \A y \in S : Min(S) <= y
<1> DEFINE R == {ss \in Nat \X Nat : ss[1] < ss[2]}
<1>1. IsWellFoundedOn(R, Nat)
  BY NatLessThanWellFounded DEF OpToRel
<1>2. \A x, y \in Nat : y < x => <<y, x>> \in R
  OBVIOUS
<1> HIDE DEF R
<1>3. \E x \in S : \A y \in S : ~ (<<y, x>> \in R)
  BY <1>1, WFMin
<1>4. PICK x \in S : \A y \in S : ~ (<<y, x>> \in R)
  BY <1>3
<1>5. ASSUME NEW y \in S
      PROVE  x <= y
  <2>1. x \in Nat /\ y \in Nat
    OBVIOUS
  <2>2. ~ (y < x)
    BY <1>2, <1>4, <2>1
  <2> QED
    BY <2>1, <2>2
<1>6. \E z \in S : \A y \in S : z <= y
  BY <1>5
<1> QED
  BY <1>6 DEF Min

LEMMA PieceEndLemma ==
    ASSUME NEW w \in Seq(L), NEW i \in Nat \ {0}
    PROVE  LET e == PieceEnd(w, i)
           IN  /\ e \in Nat /\ e <= Len(w) + 1
               /\ e = Len(w) + 1 \/ (i <= e /\ w[e] = Colon)
               /\ \A k \in i..Len(w) : k < e => w[k] # Colon
<1> DEFINE S == {k \in i..Len(w) : w[k] = Colon} \cup {Len(w) + 1}
<1>1. S \subseteq Nat /\ S # {} /\ \A x \in S : x <= Len(w) + 1
  OBVIOUS
<1>2. PieceEnd(w, i) = Min(S)
  BY DEF PieceEnd
<1> HIDE DEF S
<1>3. S \subseteq Nat /\ S # {}
  BY <1>1
<1>4. Min(S) \in S /\ \A y \in S : Min(S) <= y
  BY <1>3, Least
<1> DEFINE e == Min(S)
<1> HIDE DEF e
<1>5. e \in Nat /\ e <= Len(w) + 1
  BY <1>1, <1>4 DEF e
<1>6. e = Len(w) + 1 \/ (i <= e /\ w[e] = Colon)
  <2>1. e \in S
    BY <1>4 DEF e
  <2> QED
    BY <2>1 DEF S
<1>7. ASSUME NEW k \in i..Len(w), k < e
      PROVE  w[k] # Colon
  <2>1. \A y \in S : ~ (y < e)
    BY <1>1, <1>4, <1>5 DEF e
  <2>2. w[k] = Colon => k \in S
    BY DEF S
  <2> QED
    BY <1>7, <2>1, <2>2
<1> QED
  BY <1>2, <1>5, <1>6, <1>7 DEF e

(* The end of a piece is where the first colon is.                         *)
LEMMA PieceEndIs ==
    ASSUME NEW w \in Seq(L), NEW i \in Nat \ {0}, NEW n \in Nat, i <= n, n <= Len(w) + 1,
           n = Len(w) + 1 \/ w[n] = Colon, \A k \in i..n - 1 : w[k] # Colon
    PROVE  PieceEnd(w, i) = n
<1> DEFINE e == PieceEnd(w, i)
<1>1. /\ e \in Nat /\ e <= Len(w) + 1
      /\ e = Len(w) + 1 \/ (i <= e /\ w[e] = Colon)
      /\ \A k \in i..Len(w) : k < e => w[k] # Colon
  BY PieceEndLemma
<1> HIDE DEF e
<1>2. ~ (e < n)
  BY <1>1
<1>3. ~ (n < e)
  BY <1>1
<1> QED
  BY <1>1, <1>2, <1>3 DEF e

LEMMA PlainLemma ==
    ASSUME NEW w \in Seq(L)
    PROVE  Plain(w) <=> \A k \in 1..Len(w) : w[k] # Colon
BY DEF Plain, ToSet

(* No piece holds a colon.                                                 *)
LEMMA PiecesArePlain ==
    ASSUME NEW w \in Seq(L), NEW i \in Nat \ {0}
    PROVE  Plain(SubSeq(w, i, PieceEnd(w, i) - 1))
<1> DEFINE e == PieceEnd(w, i)
           s == SubSeq(w, i, e - 1)
<1>1. e \in Nat /\ e <= Len(w) + 1 /\ \A k \in i..Len(w) : k < e => w[k] # Colon
  BY PieceEndLemma
<1> HIDE DEF e
<1>2. CASE i <= e
  <2>1. /\ s \in Seq(L) /\ Len(s) = e - i /\ \A k \in 1..Len(s) : s[k] = w[i + k - 1]
    BY <1>1, <1>2
  <2>2. \A k \in 1..Len(s) : s[k] # Colon
    <3> SUFFICES ASSUME NEW k \in 1..Len(s)
                 PROVE  s[k] # Colon
      OBVIOUS
    <3>1. i + k - 1 \in i..Len(w) /\ i + k - 1 < e
      BY <1>1, <1>2, <2>1
    <3> QED
      BY <1>1, <2>1, <3>1
  <2> HIDE DEF s
  <2>3. Plain(s)
    BY <2>1, <2>2, PlainLemma
  <2> QED
    BY <2>3 DEF s, e
<1>3. CASE i > e
  <2>1. s = <<>>
    BY <1>1, <1>3
  <2>2. Plain(<<>>)
    BY DEF Plain, ToSet
  <2> QED
    BY <2>1, <2>2 DEF e
<1> QED
  BY <1>1, <1>2, <1>3

LEMMA TwoWords ==
    ASSUME NEW s \in Seq(L), NEW t \in Seq(L)
    PROVE  /\ s \o t \in Seq(L) /\ Len(s \o t) = Len(s) + Len(t)
           /\ \A k \in 1..Len(s) : (s \o t)[k] = s[k]
           /\ \A k \in 1..Len(t) : (s \o t)[Len(s) + k] = t[k]
<1>1. s \o t \in Seq(L)
  OBVIOUS
<1>2. Len(s \o t) = Len(s) + Len(t)
  OBVIOUS
<1>3. ASSUME NEW k \in 1..Len(s)
      PROVE  (s \o t)[k] = s[k]
  OBVIOUS
<1>4. ASSUME NEW k \in 1..Len(t)
      PROVE  (s \o t)[Len(s) + k] = t[k]
  OBVIOUS
<1> QED
  BY <1>1, <1>2, <1>3, <1>4

LEMMA JoinLemma ==
    ASSUME NEW u \in Seq(L), NEW p \in Seq(L)
    PROVE  LET w == u \o <<Colon>> \o p
           IN  /\ w \in Seq(L) /\ Len(w) = Len(u) + 1 + Len(p)
               /\ w[Len(u) + 1] = Colon
               /\ \A k \in 1..Len(u) : w[k] = u[k]
               /\ \A k \in 1..Len(p) : w[Len(u) + 1 + k] = p[k]
<1>1. <<Colon>> \in Seq(L) /\ Len(<<Colon>>) = 1 /\ <<Colon>>[1] = Colon
  BY DEF L
<1>2. ASSUME NEW c \in Seq(L), Len(c) = 1, c[1] = Colon
      PROVE  LET w == u \o c \o p
             IN  /\ w \in Seq(L) /\ Len(w) = Len(u) + 1 + Len(p)
                 /\ w[Len(u) + 1] = Colon
                 /\ \A k \in 1..Len(u) : w[k] = u[k]
                 /\ \A k \in 1..Len(p) : w[Len(u) + 1 + k] = p[k]
  <2> DEFINE v == u \o c
             w == v \o p
  <2>1. /\ v \in Seq(L) /\ Len(v) = Len(u) + 1 /\ v[Len(u) + 1] = Colon
        /\ \A k \in 1..Len(u) : v[k] = u[k]
    <3>1. 1 \in 1..Len(c)
      BY <1>2
    <3> HIDE DEF L
    <3>2. \A k \in 1..Len(c) : v[Len(u) + k] = c[k]
      BY TwoWords
    <3>3. v \in Seq(L) /\ Len(v) = Len(u) + Len(c) /\ \A k \in 1..Len(u) : v[k] = u[k]
      BY TwoWords
    <3> HIDE DEF v
    <3> QED
      BY <1>2, <3>1, <3>2, <3>3
  <2> HIDE DEF v, L
  <2>2. /\ w \in Seq(L) /\ Len(w) = Len(v) + Len(p)
        /\ \A k \in 1..Len(v) : w[k] = v[k]
        /\ \A k \in 1..Len(p) : w[Len(v) + k] = p[k]
    BY <2>1, TwoWords
  <2>3. Len(u) \in Nat /\ Len(u) + 1 \in 1..Len(v) /\ \A k \in 1..Len(u) : k \in 1..Len(v)
    BY <2>1
  <2> HIDE DEF w
  <2> QED
    BY <2>1, <2>2, <2>3 DEF w, v
<1> HIDE DEF L
<1> QED
  BY <1>1, <1>2

(* Credentials without colons arrive, unless there is nothing in them.     *)
LEMMA WholeArrives ==
    ASSUME NEW u \in Seq(L), NEW p \in Seq(L), Plain(u), Plain(p)
    PROVE  Credentials(u \o <<Colon>> \o p) = IF u = <<>> /\ p = <<>> THEN {} ELSE {<<u, p>>}
<1> DEFINE w == u \o <<Colon>> \o p
<1>1. /\ w \in Seq(L) /\ Len(w) = Len(u) + 1 + Len(p)
      /\ w[Len(u) + 1] = Colon
      /\ \A k \in 1..Len(u) : w[k] = u[k]
      /\ \A k \in 1..Len(p) : w[Len(u) + 1 + k] = p[k]
  BY JoinLemma
<1> HIDE DEF w
<1>2. /\ \A k \in 1..Len(u) : u[k] # Colon
      /\ \A k \in 1..Len(p) : p[k] # Colon
  BY PlainLemma
<1>3. Len(u) \in Nat /\ Len(p) \in Nat
  OBVIOUS
<1>4. PieceEnd(w, 1) = Len(u) + 1
  <2> DEFINE n == Len(u) + 1
  <2>1. 1 \in Nat \ {0} /\ n \in Nat /\ 1 <= n /\ n <= Len(w) + 1 /\ w[n] = Colon
    BY <1>1, <1>3
  <2>2. \A k \in 1..n - 1 : w[k] # Colon
    BY <1>1, <1>2, <1>3
  <2> HIDE DEF n
  <2>3. PieceEnd(w, 1) = n
    BY <1>1, <2>1, <2>2, PieceEndIs
  <2> QED
    BY <2>3 DEF n
<1>5. PieceEnd(w, Len(u) + 2) = Len(w) + 1
  <2>1. \A k \in Len(u) + 2..Len(w) : w[k] # Colon
    <3> SUFFICES ASSUME NEW k \in Len(u) + 2..Len(w)
                 PROVE  w[k] # Colon
      OBVIOUS
    <3>1. k - Len(u) - 1 \in 1..Len(p) /\ Len(u) + 1 + (k - Len(u) - 1) = k
      BY <1>1, <1>3
    <3> QED
      BY <1>1, <1>2, <3>1
  <2> DEFINE i == Len(u) + 2
             n == Len(w) + 1
  <2>2. i \in Nat \ {0} /\ n \in Nat /\ i <= n /\ n <= Len(w) + 1
    BY <1>1, <1>3
  <2>3. \A k \in i..n - 1 : w[k] # Colon
    BY <1>1, <1>3, <2>1
  <2>4. n = Len(w) + 1 \/ w[n] = Colon
    OBVIOUS
  <2> HIDE DEF i, n
  <2>5. PieceEnd(w, i) = n
    BY <1>1, <2>2, <2>3, <2>4, PieceEndIs
  <2> QED
    BY <2>5 DEF i, n
<1>6. SubSeq(w, 1, Len(u)) = u
  BY <1>1, <1>3
<1>7. SubSeq(w, Len(u) + 2, Len(w)) = p
  BY <1>1, <1>3
<1>8. Pieces(w) = <<u, p>>
  <2>1. Len(u) + 1 - 1 = Len(u) /\ Len(u) + 1 + 1 = Len(u) + 2 /\ Len(w) + 1 - 1 = Len(w)
    BY <1>1, <1>3
  <2> QED
    BY <1>4, <1>5, <1>6, <1>7, <2>1 DEF Pieces
<1>9. HasPieces(w) <=> ~ (u = <<>> /\ p = <<>>)
  <2>1. w # <<>> /\ DOMAIN w = 1..Len(w)
    BY <1>1, <1>3
  <2>2. CASE u # <<>>
    <3>1. 1 \in 1..Len(u) /\ 1 \in 1..Len(w)
      BY <1>1, <1>3, <2>2
    <3> QED
      BY <1>1, <1>2, <2>1, <2>2, <3>1 DEF HasPieces
  <2>3. CASE p # <<>>
    <3>1. 1 \in 1..Len(p) /\ Len(u) + 2 \in 1..Len(w) /\ Len(u) + 1 + 1 = Len(u) + 2
      BY <1>1, <1>3, <2>3
    <3> QED
      BY <1>1, <1>2, <2>1, <2>3, <3>1 DEF HasPieces
  <2>4. CASE u = <<>> /\ p = <<>>
    <3>1. Len(w) = 1 /\ w[1] = Colon
      BY <1>1, <2>4
    <3> QED
      BY <2>1, <2>4, <3>1 DEF HasPieces
  <2> QED
    BY <2>2, <2>3, <2>4
<1> QED
  BY <1>8, <1>9 DEF Credentials, w

(* Credentials with a colon do not.                                        *)
LEMMA BrokenDoNot ==
    ASSUME NEW u \in Seq(L), NEW p \in Seq(L), ~ (Plain(u) /\ Plain(p))
    PROVE  <<u, p>> \notin Credentials(u \o <<Colon>> \o p)
<1> DEFINE w == u \o <<Colon>> \o p
           e == PieceEnd(w, 1)
<1>1. w \in Seq(L)
  BY JoinLemma
<1> HIDE DEF w
<1>2. e + 1 \in Nat \ {0}
  BY <1>1, PieceEndLemma
<1>3. Plain(SubSeq(w, 1, e - 1)) /\ Plain(SubSeq(w, e + 1, PieceEnd(w, e + 1) - 1))
  BY <1>1, <1>2, PiecesArePlain
<1>4. Pieces(w) # <<u, p>>
  BY <1>3 DEF Pieces
<1> QED
  BY <1>4 DEF Credentials, w

-----------------------------------------------------------------------------
(* The inductive invariant.                                                *)

LEMMA FInvInit == Init => FInv
<1> SUFFICES ASSUME Init
             PROVE  FInv
  OBVIOUS
<1>1. TypeOK
  BY DEF Init, TypeOK, RetryCount
<1>2. ConfigInv /\ FrontInv /\ OrderInv /\ AskedInv /\ PeerAgrees
  BY DEF Init, ConfigInv, FrontInv, OrderInv, AskedInv, PeerAgrees
<1> QED
  BY <1>1, <1>2 DEF FInv

(* Steps that leave a scenario's answers as they are, while accounts may   *)
(* come and tokens go.                                                     *)
LEMMA AnswersStay ==
    ASSUME FInv, UNCHANGED <<front, peer, attempts>>, registered \subseteq registered'
    PROVE  FrontInv' /\ OrderInv' /\ PeerAgrees'
<1>1. FrontInv'
  <2> SUFFICES ASSUME front \notin {NoAnswer, Refused}
               PROVE  Repeatable(front)'
    BY DEF FrontInv
  <2>1. Repeatable(front)
    BY DEF FInv, FrontInv
  <2>2. ASSUME NEW c, BySecret(front, c) \/ ByAccount(front, c)
        PROVE  (BySecret(front, c) \/ ByAccount(front, c))'
    BY <2>2 DEF BySecret, ByAccount
  <2>3. ASSUME NEW v, ByToken(front, v)
        PROVE  ByToken(front, v)'
    BY <2>3 DEF ByToken
  <2> QED
    BY <2>1, <2>2, <2>3 DEF Repeatable
<1>2. OrderInv' /\ PeerAgrees'
  BY DEF FInv, OrderInv, PeerAgrees
<1> QED
  BY <1>1, <1>2

(* The questions of a scenario stay what they are.                         *)
LEMMA QuestionsStay ==
    ASSUME FInv, UNCHANGED <<sent, header, attempts, asked, front>>
    PROVE  AskedInv'
BY DEF FInv, AskedInv, Joined, Asks

LEMMA CreateKeeps ==
    ASSUME FInv, NEW m \in Configs, CreateWithHelper(m) \/ CreateWithTester(m)
    PROVE  FInv'
<1>1. /\ given = None /\ config = None /\ given' = m
      /\ UNCHANGED <<config, tenantId, sent, header, attempts, asked, front, peer, registered, live>>
  BY DEF FInv, ConfigInv, CreateWithHelper, CreateWithTester, scenario
<1>2. property' \in IF m = Null THEN {Null, EmptyMap} ELSE {Json(m)}
  BY DEF CreateWithHelper, CreateWithTester
<1>3. TypeOK'
  BY <1>1 DEF FInv, TypeOK
<1>4. ConfigInv'
  BY <1>1, <1>2 DEF ConfigInv
<1> QED
  BY <1>1, <1>3, <1>4, AnswersStay, QuestionsStay DEF FInv

LEMMA ConfigureKeeps ==
    ASSUME FInv, Configure
    PROVE  FInv'
<1>1. TypeOK'
  BY DEF FInv, TypeOK, Configure
<1>2. ConfigInv'
  BY DEF FInv, ConfigInv, Configure
<1> QED
  BY <1>1, <1>2, AnswersStay, QuestionsStay DEF FInv, Configure

LEMMA PrepareKeeps ==
    ASSUME FInv, NEW t \in Tenants \cup {Null}, NEW c, NEW h \in Headers, Prepare(t, c, h),
           c # None => /\ h = Joined(c) /\ c = <<c[1], c[2]>>
                       /\ c[1] \in Seq(Letters \cup {Colon, Null})
                       /\ c[2] \in Seq(Letters \cup {Colon, Null})
    PROVE  FInv'
<1>1. TypeOK'
  BY DEF FInv, TypeOK, Prepare
<1>2. ConfigInv'
  BY DEF FInv, ConfigInv, Prepare
<1>3. AskedInv'
  <2>1. attempts = 0 /\ asked = {} /\ front = NoAnswer
    BY DEF FInv, AskedInv, OrderInv, Prepare
  <2>2. /\ sent' = c /\ header' = h
        /\ UNCHANGED <<attempts, asked, front>>
    BY DEF Prepare
  <2>3. (sent # None =>
           /\ header = Joined(sent) /\ sent = <<sent[1], sent[2]>>
           /\ sent[1] \in Seq(Letters \cup {Colon, Null})
           /\ sent[2] \in Seq(Letters \cup {Colon, Null}))'
    BY <2>2 DEF Joined
  <2> QED
    BY <2>1, <2>2, <2>3 DEF AskedInv
<1> QED
  BY <1>1, <1>2, <1>3, AnswersStay DEF FInv, Prepare

LEMMA SignBasicKeeps ==
    ASSUME FInv, NEW t \in Tenants \cup {Null}, NEW u \in Words \cup {Null}, NEW p \in Words \cup {Null},
           SignBasic(t, u, p)
    PROVE  FInv'
<1> DEFINE c == <<Spelled(u), Spelled(p)>>
           h == BasicAuthorization(u, p)
<1>1. h \in Headers /\ Prepare(t, c, h)
  BY HeadersLemma DEF SignBasic
<1>2. /\ h = Joined(c) /\ c = <<c[1], c[2]>>
      /\ c[1] \in Seq(Letters \cup {Colon, Null}) /\ c[2] \in Seq(Letters \cup {Colon, Null})
  BY WordsLemma DEF BasicAuthorization, Joined
<1> HIDE DEF c, h
<1> QED
  BY <1>1, <1>2, PrepareKeeps

LEMMA SignOtherwiseKeeps ==
    ASSUME FInv, NEW t \in Tenants \cup {Null}, NEW h \in Headers, SignOtherwise(t, h)
    PROVE  FInv'
BY PrepareKeeps DEF SignOtherwise

LEMMA SendKeeps ==
    ASSUME FInv, Send
    PROVE  FInv'
<1>1. /\ TypeOK /\ tenantId \in Tenants \cup {Null} /\ header \in Headers
      /\ attempts \in 0..RetryCount
  BY DEF FInv, TypeOK, Send
<1>2. PICK f \in Handle(Context(tenantId), header) : front' = f
  BY DEF Send
<1>3. UNCHANGED <<given, property, config, tenantId, sent, header, peer, registered, live>>
  BY DEF Send
<1>4. f = Refused \/ (IsContext(f) /\ Repeatable(f) /\ f.authorization \in {None, header})
  BY <1>1, HandleLemma
<1>5. attempts' \in 1..RetryCount
  BY <1>1 DEF Send, MayRetry, RetryCount
<1>6. peer = NoAnswer
  BY DEF FInv, OrderInv, Send
<1>7. TypeOK'
  <2>1. front' \in {NoAnswer, Refused} \/ IsContext(front)'
    BY <1>2, <1>4 DEF IsContext
  <2>2. attempts' \in 0..RetryCount
    BY <1>5 DEF RetryCount
  <2> QED
    BY <1>1, <1>3, <2>1, <2>2 DEF TypeOK, FInv
<1>8. FrontInv'
  <2>1. f # Refused => Repeatable(front)'
    BY <1>2, <1>3, <1>4 DEF Repeatable, BySecret, ByAccount, ByToken
  <2> QED
    BY <1>2, <2>1 DEF FrontInv
<1>9. OrderInv' /\ ConfigInv' /\ PeerAgrees'
  BY <1>3, <1>5, <1>6 DEF FInv, OrderInv, ConfigInv, PeerAgrees, RetryCount
<1>10. AskedInv'
  <2>1. header # None /\ asked' = asked \cup Asks(header)
    BY DEF Send
  <2>2. asked = {} \/ asked = Asks(header)
    BY <1>1 DEF FInv, AskedInv
  <2>3. asked' = Asks(header)
    BY <2>1, <2>2
  <2>4. attempts' # 0
    BY <1>5
  <2>5. front' \notin {NoAnswer, Refused} => front'.authorization \in {None, header'}
    BY <1>2, <1>3, <1>4
  <2> QED
    BY <1>3, <2>1, <2>3, <2>4, <2>5 DEF FInv, AskedInv, Joined, Asks
<1> QED
  BY <1>7, <1>8, <1>9, <1>10 DEF FInv

LEMMA CallKeeps ==
    ASSUME FInv, Call
    PROVE  FInv'
<1>1. TypeOK /\ front \notin {NoAnswer, Refused} /\ IsContext(front) /\ Repeatable(front)
  BY DEF FInv, FrontInv, TypeOK, Call
<1>2. PICK c \in Handle(Context(front.tenant), front.authorization) : peer' = Held(front.tenant, c)
  BY DEF Call
<1>3. UNCHANGED <<given, property, config, tenantId, sent, header, attempts, front, registered, live>>
  BY DEF Call
<1>4. \/ peer' = Refused
      \/ /\ peer'.context = c /\ peer'.holder = front.tenant
         /\ IsContext(c) /\ c.tenant = front.tenant
         /\ c.identity = front.identity \/ (c.identity = Anonymous /\ front.identity.by = "token")
  BY <1>1, <1>2, PeerLemma DEF Held
<1>5. TypeOK'
  <2>1. peer' \in {NoAnswer, Refused} \/ IsContext(peer.context)'
    BY <1>4 DEF IsContext
  <2> QED
    BY <1>3, <2>1 DEF FInv, TypeOK
<1>6. PeerAgrees'
  BY <1>3, <1>4 DEF PeerAgrees
<1>7. FrontInv'
  BY <1>3 DEF FInv, FrontInv, Repeatable, BySecret, ByAccount, ByToken
<1>8. OrderInv' /\ ConfigInv'
  BY <1>1, <1>3 DEF FInv, OrderInv, ConfigInv
<1>9. AskedInv'
  <2>1. attempts # 0 /\ asked = Asks(header) /\ front.authorization \in {None, header}
    BY <1>1 DEF FInv, OrderInv, AskedInv
  <2>2. Asks(None) = {}
    BY DEF Asks
  <2>3. asked' = asked
    BY <2>1, <2>2 DEF Call
  <2> QED
    BY <1>3, <2>3, QuestionsStay
<1> QED
  BY <1>5, <1>6, <1>7, <1>8, <1>9 DEF FInv

LEMMA FInvNext == FInv /\ [Next]_vars => FInv'
<1> SUFFICES ASSUME FInv, [Next]_vars
             PROVE  FInv'
  OBVIOUS
<1>1. ASSUME NEW m \in Configs, CreateWithHelper(m) \/ CreateWithTester(m)
      PROVE  FInv'
  BY <1>1, CreateKeeps
<1>2. CASE Configure
  BY <1>2, ConfigureKeeps
<1>3. ASSUME NEW t \in Tenants \cup {Null},
             \/ \E u, p \in Words \cup {Null} : SignBasic(t, u, p)
             \/ \E k \in Tokens : SignOtherwise(t, [scheme |-> "bearer", value |-> k.value])
             \/ SignOtherwise(t, [scheme |-> "other", value |-> <<>>])
             \/ \E w \in Words : SignOtherwise(t, [scheme |-> "basic", value |-> w])
      PROVE  FInv'
  <2>1. ASSUME NEW u \in Words \cup {Null}, NEW p \in Words \cup {Null}, SignBasic(t, u, p)
        PROVE  FInv'
    BY <2>1, SignBasicKeeps
  <2>2. ASSUME NEW h \in Headers, SignOtherwise(t, h)
        PROVE  FInv'
    BY <2>2, SignOtherwiseKeeps
  <2> QED
    BY <1>3, <2>1, <2>2, HeadersLemma
<1>4. CASE Send \/ Call
  BY <1>4, SendKeeps, CallKeeps
<1>5. ASSUME NEW x \in Accounts, Register(x)
      PROVE  FInv'
  <2>1. /\ UNCHANGED <<given, property, config, tenantId, sent, header, attempts, asked,
                       front, peer, live>>
        /\ registered' = registered \cup {x}
    BY <1>5 DEF Register, scenario
  <2>2. TypeOK' /\ ConfigInv'
    BY <2>1 DEF FInv, TypeOK, ConfigInv
  <2> QED
    BY <2>1, <2>2, AnswersStay, QuestionsStay DEF FInv
<1>6. ASSUME NEW k \in Tokens, Expire(k)
      PROVE  FInv'
  <2>1. /\ UNCHANGED <<given, property, config, tenantId, sent, header, attempts, asked,
                       front, peer, registered>>
        /\ live' = live \ {k}
    BY <1>6 DEF Expire, scenario
  <2>2. TypeOK' /\ ConfigInv'
    BY <2>1 DEF FInv, TypeOK, ConfigInv
  <2> QED
    BY <2>1, <2>2, AnswersStay, QuestionsStay DEF FInv
<1>7. CASE NextScenario
  <2>1. /\ UNCHANGED <<given, property, registered, live>>
        /\ config' = None /\ tenantId' = Null /\ sent' = None /\ header' = None
        /\ attempts' = 0 /\ asked' = {} /\ front' = NoAnswer /\ peer' = NoAnswer
    BY <1>7 DEF NextScenario, Idle
  <2>2. TypeOK'
    BY <2>1 DEF FInv, TypeOK, RetryCount
  <2>3. ConfigInv' /\ FrontInv' /\ OrderInv' /\ AskedInv' /\ PeerAgrees'
    BY <2>1 DEF FInv, ConfigInv, FrontInv, OrderInv, AskedInv, PeerAgrees
  <2> QED
    BY <2>2, <2>3 DEF FInv
<1>8. CASE UNCHANGED vars
  <2>1. UNCHANGED <<given, property, config, tenantId, sent, header, attempts, asked,
                    front, peer, registered, live>>
    BY <1>8 DEF vars, scenario
  <2>2. TypeOK' /\ ConfigInv'
    BY <2>1 DEF FInv, TypeOK, ConfigInv
  <2> QED
    BY <2>1, <2>2, AnswersStay, QuestionsStay DEF FInv
<1> QED
  BY <1>1, <1>2, <1>3, <1>4, <1>5, <1>6, <1>7, <1>8 DEF Next

-----------------------------------------------------------------------------
(* The theorems.                                                           *)

(* FInv holds in every reachable state: whatever the features send, and    *)
(* whatever accounts and tokens come and go between their requests.        *)
THEOREM FeatureInvariant == Spec => []FInv
<1>1. FInv /\ [Next]_vars => FInv'
  BY FInvNext
<1> QED
  BY <1>1, FInvInit, PTL DEF Spec

(* The variables keep their types: no scenario attempts a request more     *)
(* than five times (karate-config.js:4), and what createBasicAuthorization *)
(* joins and the services keep are headers.                                *)
THEOREM FeatureTypes == Spec => []TypeOK
<1>1. FInv => TypeOK
  BY DEF FInv
<1> QED
  BY <1>1, FeatureInvariant, PTL

(* Whichever of the two classes wrote the property, and for any base URLs, *)
(* a scenario finds the entries the test passed and no others, and a base  *)
(* URL it can call (karate-config.js:5-8).                                 *)
THEOREM ConfigurationArrives == Spec => []ConfigAsGiven
<1>1. FInv => ConfigAsGiven
  BY ConfigLemma DEF FInv
<1> QED
  BY <1>1, FeatureInvariant, PTL

(* For any credentials a feature gives, of any words, and any secret: once *)
(* a request was sent, the AuthManagers were asked about just these        *)
(* credentials when neither word holds a colon, they are not both empty    *)
(* and the password is not the secret, and never about them when a word    *)
(* holds a colon or both are empty (HttpUtil.java:31,                      *)
(* LocalPlatformAuthManager.java:90).                                      *)
THEOREM CredentialsArrive == Spec => []AskedAsSent
<1>1. FInv => AskedAsSent
  <2> SUFFICES ASSUME FInv, sent # None, attempts > 0
               PROVE  LET whole == Plain(sent[1]) /\ Plain(sent[2]) /\ sent # <<<<>>, <<>>>>
                      IN  /\ whole /\ sent[2] # Secret => asked = {sent}
                          /\ ~whole => sent \notin asked
    BY DEF AskedAsSent
  <2> DEFINE u == sent[1]  p == sent[2]
  <2>1. /\ header = Joined(sent) /\ sent = <<u, p>> /\ u \in Seq(L) /\ p \in Seq(L)
        /\ header # None /\ asked = Asks(header)
    BY DEF FInv, AskedInv, L
  <2>2. header.scheme = "basic" /\ header.value = u \o <<Colon>> \o p
    BY <2>1 DEF Joined
  <2>3. asked = {c \in Credentials(u \o <<Colon>> \o p) : c[2] # Secret}
    BY <2>1, <2>2 DEF Asks
  <2>4. CASE Plain(u) /\ Plain(p)
    <3>1. Credentials(u \o <<Colon>> \o p) = IF u = <<>> /\ p = <<>> THEN {} ELSE {<<u, p>>}
      BY <2>1, <2>4, WholeArrives
    <3>2. sent = <<<<>>, <<>>>> <=> u = <<>> /\ p = <<>>
      BY <2>1
    <3> QED
      BY <2>1, <2>3, <2>4, <3>1, <3>2
  <2>5. CASE ~ (Plain(u) /\ Plain(p))
    <3>1. <<u, p>> \notin Credentials(u \o <<Colon>> \o p)
      BY <2>1, <2>5, BrokenDoNot
    <3> QED
      BY <2>1, <2>3, <2>5, <3>1
  <2> QED
    BY <2>4, <2>5
<1> QED
  BY <1>1, FeatureInvariant, PTL

(* For any words, accounts, secret and tokens: a second service that       *)
(* authenticates the header again sees the same identity in the same       *)
(* tenant, and the holder its listener set before it authenticates is      *)
(* right (OperationDispatchMessageHandler.java:71); only an expired token  *)
(* makes the caller anonymous.                                             *)
THEOREM PeersAgree == Spec => []PeerAgrees
<1>1. FInv => PeerAgrees
  BY DEF FInv
<1> QED
  BY <1>1, FeatureInvariant, PTL
=============================================================================
