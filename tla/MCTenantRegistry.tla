-------------------------- MODULE MCTenantRegistry --------------------------
(***************************************************************************)
(* Instances of TenantRegistry for TLC.  The spellings "t1", "t2" and "T2" *)
(* stand for two tenants, "rep" for a data source of the configuration     *)
(* that is neither the default nor the template.                           *)
(***************************************************************************)
EXTENDS TenantRegistryInvariant, TLC

SomeNames == {"default", "__tenant__", "rep", "t1", "t2", "T2"}

Lower == [n \in SomeNames |-> IF n = "T2" THEN "t2" ELSE n]

(* With a template and a source besides; without a template.               *)
WithTemplate == {{"default", "__tenant__"}}
WithAndWithout == {{"default", "__tenant__", "rep"}, {"default", "rep"}}

(* The source "rep" is migrated by itself, or not at all, or its change    *)
(* log is found by the check and not by the Migrator.                      *)
TenantScripts == [n \in SomeNames |-> IF n = "default" THEN "application" ELSE "tenant"]
ReportsDisabled == [TenantScripts EXCEPT !["rep"] = "no"]
ReportsTrue == [TenantScripts EXCEPT !["rep"] = "true"]

(* The delegate has a change log that is not there for "t1" and one of its *)
(* own for "t2".                                                           *)
NoDelegate == [n \in SomeNames |-> "auto"]
SomeDelegate == [NoDelegate EXCEPT !["t1"] = "lost", !["t2"] = "special"]

Symmetry == Permutations(Configurers) \cup Permutations(Callers)
=============================================================================
