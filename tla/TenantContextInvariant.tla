----------------------- MODULE TenantContextInvariant -----------------------
(***************************************************************************)
(* The inductive invariant behind the theorems about TenantContext: how    *)
(* the calls of a thread hang together, and what its bottom call knows of  *)
(* the holders.                                                            *)
(***************************************************************************)
EXTENDS TenantContext

(* A call that will put nothing back runs in what was there.               *)
Stays(f) == f.kind = "withTenants" \/ ~ f.switched => f.runsIn = f.before

(* What a call would put back is what the call around it runs in.          *)
Linked(s) ==
    \A i \in 1..Len(s) :
        /\ Stays(s[i])
        /\ i > 1 => s[i].before = s[i - 1].runsIn

(* A web thread that works serves a request, which its context is of.      *)
WebInv(p) ==
    IF Idle(p) THEN p \notin refused => tenant[p] = None /\ context[p] = NoContext
    ELSE stack[p][1].kind = "request" /\ context[p] = stack[p][1].ctx

ListenerInv(p) == ~ Idle(p) => context[p] = stack[p][1].ctx

(* A pool thread that works exists and will put back what it was born with.*)
PoolInv(q) ==
    /\ q \in live => context[q] = born[q].context
    /\ q \in live /\ Idle(q) => tenant[q] = born[q].tenant
    /\ ~ Idle(q) => q \in live /\ stack[q][1].before = born[q].tenant

Coherent(p) ==
    /\ Linked(stack[p])
    /\ ~ Idle(p) => tenant[p] = Top(p).runsIn
    /\ p \in Web => WebInv(p)
    /\ p \notin Web => \A i \in 1..Len(stack[p]) : stack[p][i].kind # "request"
    /\ p \in Listeners => ListenerInv(p)
    /\ p \in Pooled => PoolInv(p)

(* Every thread's holders, calls and birth agree with one another          *)
(* (TenantHolder.use, RequestFilter, OperationDispatchMessageHandler).     *)
ContextInv == TypeOK /\ \A p \in Threads : Coherent(p)
=============================================================================
