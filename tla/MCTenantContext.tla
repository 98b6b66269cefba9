-------------------------- MODULE MCTenantContext --------------------------
(***************************************************************************)
(* Instances of TenantContext for TLC.                                     *)
(***************************************************************************)
EXTENDS TenantContextInvariant

CONSTANTS plain, annotated, pinned

(* The answers getTenant inherits, and those of an operation pinned to the *)
(* default tenant by its context only.                                     *)
InputAnswers == [o \in Operations |-> IF o = pinned THEN None ELSE ContextTenant]
ContextAnswers == [o \in Operations |-> IF o = pinned THEN Default ELSE ContextTenant]

(* Two threads at a time: what crosses from one to another crosses pairs.  *)
Pairs == {{p, q} : p \in Web \cup Listeners, q \in Listeners \cup Pooled}
=============================================================================
