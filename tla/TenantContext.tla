---------------------------- MODULE TenantContext ----------------------------
(***************************************************************************)
(* The tenant and the context a thread works for.                          *)
(*                                                                         *)
(* TenantHolder and ContextHolder each keep an inheritable thread-local: a *)
(* thread is born with a copy of its creator's.  RequestFilter sets both   *)
(* for a request and clears them, OperationDispatchMessageHandler sets     *)
(* both for a message and leaves them, and OperationDispatcher.invoke runs *)
(* every operation inside TenantHolder.use, which puts the tenant of the   *)
(* operation in place and the one before it back.  Operations are nested,  *)
(* run on pool threads, and end by a return or an exception.               *)
(*                                                                         *)
(* A Context is identified by its tenant.  The broker is a remote one: the *)
(* simple client, which handles a message on the publisher's thread, is    *)
(* not part of this module, nor are messages this service has no handler   *)
(* for: they are dropped before either holder is touched.                  *)
(***************************************************************************)
EXTENDS Naturals, Sequences, FiniteSets, Functions

CONSTANTS
    Tenants,       \* ids of tenants
    Default,       \* the id "default"
    ContextTenant, \* the id "context": whatever the thread works for
    None,          \* null, for an id
    NoContext,     \* null, for a context
    Operations,    \* operations of the service
    Annotated,     \* those annotated with @DefaultTenant
    Handled,       \* those a message asks for
    Scheduled,     \* those that are scheduled for later
    ByInput,       \* ByInput[o]: the answer of getTenant(input, ctx)
    ByContext,     \* ByContext[o]: the answer of getTenant(ctx)
    Web,           \* threads of the HTTP server
    Listeners,     \* threads of the broker client
    Workers,       \* core threads of SimpleExecutorOperationScheduler (six in the code)
    Async,         \* threads of ExecutorHelper and of withTenantsAsync
    Deployments,   \* sets of threads a process may have
    MaxCalls,      \* bound: calls under way on all threads
    MaxTasks,      \* bound: scheduled tasks that wait
    MaxMessages    \* bound: messages under way

Threads == Web \cup Listeners \cup Workers \cup Async
Pooled == Workers \cup Async

Ids == Tenants \cup {Default}

(* What TenantHolder.CURRENT may be, and the tenant of a context.          *)
Holdable == Ids \cup {None}

ASSUME ContextAssumption ==
    /\ None \notin Ids /\ ContextTenant \notin Holdable /\ NoContext \notin Holdable
    /\ Annotated \cup Handled \cup Scheduled \subseteq Operations
    /\ ByInput \in [Operations -> Holdable \cup {ContextTenant}]
    /\ ByContext \in [Operations -> Holdable \cup {ContextTenant}]
    /\ Web \cap (Listeners \cup Pooled) = {} /\ Listeners \cap Pooled = {}
    /\ Workers \cap Async = {}
    /\ Deployments \subseteq SUBSET Threads
    /\ {MaxCalls, MaxTasks, MaxMessages} \subseteq Nat

VARIABLES
    present,    \* the threads this process may have
    tenant,     \* TenantHolder.CURRENT of each thread
    context,    \* ContextHolder.CURRENT of each thread, by its tenant
    stack,      \* the calls each thread is in, the innermost last
    live,       \* pool threads that exist
    tasks,      \* operations the scheduler has to dispatch, each with its context
    messages,   \* messages under way, each with the context of its headers
    refused,    \* history: web threads whose last request was turned away
    born        \* history: the holders each pool thread was born with

vars == <<present, tenant, context, stack, live, tasks, messages, refused, born>>

Calls == [op : Operations, ctx : Holdable]
Holders == [tenant : Holdable, context : Holdable \cup {NoContext}]

(* A call: the tenant it runs in, and what TenantHolder.use has to put     *)
(* back, if anything.  todo are the tenants a withTenants has to visit.    *)
Frames == [kind : {"request", "operation", "use", "withTenants"},
           runsIn : Holdable, ctx : Holdable,
           switched : BOOLEAN, before : Holdable, todo : SUBSET Tenants]

TypeOK ==
    /\ present \in Deployments
    /\ tenant \in [Threads -> Holdable]
    /\ context \in [Threads -> Holdable \cup {NoContext}]
    /\ stack \in [Threads -> Seq(Frames)]
    /\ live \subseteq Pooled
    /\ tasks \subseteq Calls
    /\ messages \subseteq Calls
    /\ refused \subseteq Web
    /\ born \in [Pooled -> Holders]

Init ==
    /\ present \in Deployments
    /\ tenant = [p \in Threads |-> None]
    /\ context = [p \in Threads |-> NoContext]
    /\ stack = [p \in Threads |-> <<>>]
    /\ live = {}
    /\ tasks = {}
    /\ messages = {}
    /\ refused = {}
    /\ born = [p \in Pooled |-> [tenant |-> None, context |-> NoContext]]

-----------------------------------------------------------------------------
Idle(p) == stack[p] = <<>>
CallsUnderWay == FoldFunction(LAMBDA s, sum : Len(s) + sum, 0, stack)
Top(p) == stack[p][Len(stack[p])]
MoreCalls == CallsUnderWay < MaxCalls
MayCall(p) == ~ Idle(p) /\ Top(p).kind # "withTenants" /\ MoreCalls

(* invoke: the tenant an operation is run in.                              *)
TenantOf(op, ctx) ==
    LET asked == IF ByInput[op] \in {None, ContextTenant} THEN ByContext[op] ELSE ByInput[op]
    IN  IF op \in Annotated THEN None
        ELSE IF asked \notin {None, ContextTenant} THEN asked
        ELSE IF ctx = None THEN Default
        ELSE ctx

SetTenant_NullKept(p, t) == tenant' = [tenant EXCEPT ![p] = IF t = None THEN @ ELSE t]

(* TenantHolder.set and clear.                                             *)
SetTenant(p, t) == tenant' = [tenant EXCEPT ![p] = t]

SetContext_Once(p, ctx) == context' = [context EXCEPT ![p] = IF @ = NoContext THEN ctx ELSE @]

(* ContextHolder.set and clear.                                            *)
SetContext(p, ctx) == context' = [context EXCEPT ![p] = ctx]

Resolve_Not(p, t) == t

(* The id "context" stands for the tenant that is held.                    *)
Resolve(p, t) == IF t = ContextTenant THEN tenant[p] ELSE t

(* TenantHolder.use on a thread that holds current: nothing is set, and    *)
(* nothing will be put back, when it is the tenant already.                *)
UseFrame(kind, t, ctx, current) ==
    [kind |-> kind, runsIn |-> t, ctx |-> ctx,
     switched |-> t # current, before |-> current, todo |-> {}]

(* p enters a use of tenant t.                                             *)
Enter(p, kind, t, ctx) ==
    /\ SetTenant(p, t)
    /\ stack' = [stack EXCEPT ![p] = Append(@, UseFrame(kind, t, ctx, tenant[p]))]

-----------------------------------------------------------------------------
(* RequestFilter turns the request away: the header's tenant and context   *)
(* have been set, and are not cleared.                                     *)
Refuse(p) ==
    /\ p \in Web \cap present /\ Idle(p) /\ MoreCalls
    /\ \E header \in Holdable :
         /\ IF header = None THEN tenant' = tenant ELSE SetTenant(p, header)
         /\ SetContext(p, header)
    /\ refused' = refused \cup {p}
    /\ UNCHANGED <<stack, live, tasks, messages, born>>

(* RequestFilter lets the request in.  Without an authorization the tenant *)
(* of the context is the header's, with one it is the authentication's,    *)
(* which may be any or null: either way ctx.                               *)
Admit(p) ==
    /\ p \in Web \cap present /\ Idle(p) /\ MoreCalls
    /\ \E ctx \in Holdable :
         /\ SetContext(p, ctx)
         /\ SetTenant(p, ctx)
         /\ stack' = [stack EXCEPT ![p] = <<UseFrame("request", ctx, ctx, ctx)>>]
    /\ refused' = refused \ {p}
    /\ UNCHANGED <<live, tasks, messages, born>>

Respond_ContextOnly(p) ==
    /\ Len(stack[p]) = 1 /\ Top(p).kind = "request"
    /\ SetContext(p, NoContext)
    /\ stack' = [stack EXCEPT ![p] = <<>>]
    /\ UNCHANGED <<tenant, live, tasks, messages, refused, born>>

(* The finally of RequestFilter.                                           *)
Respond(p) ==
    /\ Len(stack[p]) = 1 /\ Top(p).kind = "request"
    /\ SetContext(p, NoContext)
    /\ SetTenant(p, None)
    /\ stack' = [stack EXCEPT ![p] = <<>>]
    /\ UNCHANGED <<live, tasks, messages, refused, born>>

(* A service without a broker has no client to publish or listen with.     *)
HasBroker == Listeners \cap present # {}

(* The broker gives up a message or keeps it for another delivery.         *)
Deliver(m) == m \in messages /\ messages' \in {messages, messages \ {m}}

(* OperationDispatchMessageHandler.handle sets both holders from the       *)
(* message; an authorization in its headers then changes the tenant of     *)
(* that very context, but not the tenant held; ctx is what it is changed   *)
(* to.  invoke starts from there.                                          *)
Receive(p) ==
    /\ p \in Listeners \cap present /\ Idle(p) /\ MoreCalls
    /\ \E m \in messages, ctx \in Holdable :
         /\ Deliver(m)
         /\ SetContext(p, ctx)
         /\ SetTenant(p, TenantOf(m.op, ctx))
         /\ stack' = [stack EXCEPT ![p] =
                        <<UseFrame("operation", TenantOf(m.op, ctx), ctx, m.ctx)>>]
    /\ UNCHANGED <<live, tasks, refused, born>>

(* The authorization is refused, or the payload cannot be read.            *)
Reject(p) ==
    /\ p \in Listeners \cap present /\ Idle(p) /\ MoreCalls
    /\ \E m \in messages, ctx \in Holdable :
         /\ Deliver(m)
         /\ SetContext(p, ctx)
         /\ SetTenant(p, m.ctx)
    /\ UNCHANGED <<stack, live, tasks, refused, born>>

-----------------------------------------------------------------------------
(* dispatch and invoke, from the code of a request or of an operation; the *)
(* context is the caller's choice or ContextHolder's.                      *)
Dispatch(p) ==
    /\ MayCall(p)
    /\ \E op \in Operations, ctx \in Holdable : Enter(p, "operation", TenantOf(op, ctx), ctx)
    /\ UNCHANGED <<context, live, tasks, messages, refused, born>>

(* TenantHolder.use and useDefault, called by the service's own code or by *)
(* an aspect; use("context") throws when no tenant is held.                *)
Use(p) ==
    /\ MayCall(p)
    /\ \E t \in Holdable \cup {ContextTenant} :
         /\ t = ContextTenant => tenant[p] # None
         /\ Enter(p, "use", Resolve(p, t), Top(p).ctx)
    /\ UNCHANGED <<context, live, tasks, messages, refused, born>>

(* DBImpl.withTenants: remember the tenant, then one use for each tenant   *)
(* that is registered, then set what was remembered.                       *)
WithTenants(p) ==
    /\ MayCall(p)
    /\ \E ids \in SUBSET Tenants :
         stack' = [stack EXCEPT ![p] = Append(@,
             [UseFrame("withTenants", tenant[p], Top(p).ctx, tenant[p]) EXCEPT !.todo = ids])]
    /\ UNCHANGED <<tenant, context, live, tasks, messages, refused, born>>

Visit(p) ==
    /\ ~ Idle(p) /\ Top(p).kind = "withTenants" /\ MoreCalls
    /\ \E id \in Top(p).todo :
         LET frame == [Top(p) EXCEPT !.todo = @ \ {id}]
         IN  stack' = [stack EXCEPT ![p] =
                 Append([@ EXCEPT ![Len(@)] = frame], UseFrame("use", id, frame.ctx, tenant[p]))]
             /\ SetTenant(p, id)
    /\ UNCHANGED <<context, live, tasks, messages, refused, born>>

Visited(p) ==
    /\ ~ Idle(p) /\ Top(p).kind = "withTenants" /\ Top(p).todo = {}
    /\ SetTenant(p, Top(p).runsIn)
    /\ stack' = [stack EXCEPT ![p] = SubSeq(@, 1, Len(@) - 1)]
    /\ UNCHANGED <<context, live, tasks, messages, refused, born>>

(* An operation or a use is left, by its return or by an exception: the    *)
(* finally of TenantHolder.use.  A thread of withTenantsAsync ends here.   *)
Leave(p) ==
    /\ ~ Idle(p) /\ Top(p).kind \in {"operation", "use"}
    /\ IF Top(p).switched THEN SetTenant(p, Top(p).before) ELSE tenant' = tenant
    /\ stack' = [stack EXCEPT ![p] = SubSeq(@, 1, Len(@) - 1)]
    /\ live' = IF Len(stack[p]) = 1 /\ Top(p).kind = "use" THEN live \ {p} ELSE live
    /\ UNCHANGED <<context, tasks, messages, refused, born>>

(* A consumer of withTenants threw: nothing is set on the way out.         *)
Abandon(p) ==
    /\ ~ Idle(p) /\ Top(p).kind = "withTenants"
    /\ stack' = [stack EXCEPT ![p] = SubSeq(@, 1, Len(@) - 1)]
    /\ UNCHANGED <<tenant, context, live, tasks, messages, refused, born>>

-----------------------------------------------------------------------------
(* q is born as a copy of p, to work for its pool.                         *)
Born(p) == [tenant |-> tenant[p], context |-> context[p]]

(* SimpleExecutorOperationScheduler.enqueue by the operation p runs: the   *)
(* task takes the operation's context, and the executor, as long as it has *)
(* fewer than its core threads, starts another one, whatever it waits for. *)
Schedule(p) ==
    /\ ~ Idle(p) /\ Top(p).kind = "operation"
    /\ Workers \cap present # {} /\ Cardinality(tasks) < MaxTasks
    /\ \E op \in Scheduled : tasks' = tasks \cup {[op |-> op, ctx |-> Top(p).ctx]}
    /\ \/ /\ Workers \cap present \subseteq live
          /\ UNCHANGED <<tenant, context, live, born>>
       \/ \E q \in (Workers \cap present) \ live :
            /\ live' = live \cup {q}
            /\ SetTenant(q, tenant[p])
            /\ SetContext(q, context[p])
            /\ born' = [born EXCEPT ![q] = Born(p)]
    /\ UNCHANGED <<stack, messages, refused>>

Start_SetsContext(q) ==
    /\ q \in Workers \cap live /\ Idle(q) /\ MoreCalls
    /\ \E task \in tasks :
         /\ tasks' = tasks \ {task}
         /\ Enter(q, "operation", TenantOf(task.op, task.ctx), task.ctx)
         /\ SetContext(q, task.ctx)
    /\ UNCHANGED <<live, messages, refused, born>>

(* A worker dispatches a task; ContextHolder is left as it is.             *)
Start(q) ==
    /\ q \in Workers \cap live /\ Idle(q) /\ MoreCalls
    /\ \E task \in tasks :
         /\ tasks' = tasks \ {task}
         /\ Enter(q, "operation", TenantOf(task.op, task.ctx), task.ctx)
    /\ UNCHANGED <<context, live, messages, refused, born>>

(* Dispatcher.dispatchAsync: an idle thread of ExecutorHelper takes it ... *)
HandOver(p, q) ==
    /\ MayCall(p) /\ q \in Async \cap live /\ Idle(q)
    /\ \E op \in Operations, ctx \in Holdable : Enter(q, "operation", TenantOf(op, ctx), ctx)
    /\ UNCHANGED <<context, live, tasks, messages, refused, born>>

(* ... or one is made for it, as for each tenant of withTenantsAsync.      *)
Spawn(p, q) ==
    /\ MayCall(p) /\ q \in (Async \cap present) \ live /\ Idle(q)
    /\ live' = live \cup {q}
    /\ born' = [born EXCEPT ![q] = Born(p)]
    /\ SetContext(q, context[p])
    /\ \/ \E op \in Operations, ctx \in Holdable :
            /\ stack' = [stack EXCEPT ![q] =
                           <<UseFrame("operation", TenantOf(op, ctx), ctx, tenant[p])>>]
            /\ SetTenant(q, TenantOf(op, ctx))
       \/ \E id \in Tenants :
            /\ stack' = [stack EXCEPT ![q] = <<UseFrame("use", id, Top(p).ctx, tenant[p])>>]
            /\ SetTenant(q, id)
    /\ UNCHANGED <<tasks, messages, refused>>

(* A cached thread nothing was handed to for a minute ends.                *)
Expire(q) ==
    /\ q \in Async \cap live /\ Idle(q)
    /\ live' = live \ {q}
    /\ UNCHANGED <<tenant, context, stack, tasks, messages, refused, born>>

(* MessageFactory.create: the headers are those of the thread's context,   *)
(* or of a new one.                                                        *)
Publish(p) ==
    /\ ~ Idle(p) /\ Top(p).kind # "withTenants"
    /\ HasBroker /\ Cardinality(messages) < MaxMessages
    /\ \E op \in Handled :
         messages' = messages \cup
             {[op |-> op, ctx |-> IF context[p] = NoContext THEN None ELSE context[p]]}
    /\ UNCHANGED <<tenant, context, stack, live, tasks, refused, born>>

(* Another service publishes a message.                                    *)
FromElsewhere ==
    /\ HasBroker /\ Cardinality(messages) < MaxMessages
    /\ \E m \in [op : Handled, ctx : Holdable] : messages' = messages \cup {m}
    /\ UNCHANGED <<tenant, context, stack, live, tasks, refused, born>>

Next ==
    /\ present' = present
    /\ \/ \E p \in Threads :
            \/ Refuse(p) \/ Admit(p) \/ Respond(p)
            \/ Receive(p) \/ Reject(p)
            \/ Dispatch(p) \/ Use(p) \/ Leave(p)
            \/ WithTenants(p) \/ Visit(p) \/ Visited(p) \/ Abandon(p)
            \/ Schedule(p) \/ Start(p) \/ Publish(p) \/ Expire(p)
       \/ \E p \in Threads, q \in Async : HandOver(p, q) \/ Spawn(p, q)
       \/ FromElsewhere

Spec == Init /\ [][Next]_vars

-----------------------------------------------------------------------------
(* Whatever ran before on the thread, was nested in it or thrown through   *)
(* it, the code of a request and of an operation finds the tenant it is    *)
(* meant for in TenantHolder: a repository of the tenant "context" works   *)
(* in the right database (TenantHolder.use, RequestFilter).                *)
RunsInItsTenant == \A p \in Threads : ~ Idle(p) => tenant[p] = Top(p).runsIn

(* On the threads of the server and of the broker client ContextHolder is  *)
(* the context of the request or message at hand however deep the call, so *)
(* an event published there carries it (RequestFilter,                     *)
(* OperationDispatchMessageHandler, MessageFactory.create).                *)
ContextOfItsCause ==
    \A p \in Web \cup Listeners : ~ Idle(p) => context[p] = stack[p][1].ctx

(* A web thread between two requests holds nothing of the last one, unless *)
(* RequestFilter turned it away (its finally clears both holders).         *)
LeftoversNeedARefusal ==
    \A p \in Web \ refused : Idle(p) => tenant[p] = None /\ context[p] = NoContext

(* A task leaves its pool thread as it found it: between two tasks the     *)
(* holders are those the thread was born with (TenantHolder.use).          *)
PoolThreadsAsBorn ==
    \A q \in live : Idle(q) => Born(q) = born[q]

=============================================================================
