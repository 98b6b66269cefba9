--------------------------- MODULE MCFeatureTests ---------------------------
(***************************************************************************)
(* An instance of FeatureTests for TLC: words of up to two characters, one *)
(* of them the secret, an account of another tenant than the requests',    *)
(* an account of no tenant and with an empty password, one token.          *)
(***************************************************************************)
EXTENDS FeatureTestsInvariant

CONSTANTS a, t1, t2

TwoAccounts == {[user |-> <<a>>, password |-> <<a>>, tenant |-> t2],
                [user |-> <<a>>, password |-> <<>>, tenant |-> Null]}
OneSecret == <<a, a>>
OneToken == {[value |-> "jwt", tenant |-> t2]}
=============================================================================
