------------------------ MODULE TenantContextProofs ------------------------
(***************************************************************************)
(* Proofs about TenantContext: whatever the numbers of threads, tenants    *)
(* and nested calls, code runs in the tenant it is meant for.              *)
(***************************************************************************)
EXTENDS TenantContextInvariant, SequenceTheorems, TLAPS

-----------------------------------------------------------------------------
(* Frames and sequences of frames.                                         *)

Kinds == {"request", "operation", "use", "withTenants"}

(* The tenant of an operation is one that can be held.                     *)
LEMMA TenantOfType ==
    ASSUME NEW op \in Operations, NEW ctx \in Holdable
    PROVE  TenantOf(op, ctx) \in Holdable
BY ContextAssumption DEF ContextAssumption, TenantOf, Holdable, Ids

(* The frame of a use, field by field: what switches nothing is already    *)
(* where it wants to be.                                                   *)
LEMMA UseFrameType ==
    ASSUME NEW kind \in Kinds, NEW t \in Holdable, NEW ctx \in Holdable, NEW current \in Holdable
    PROVE  LET f == UseFrame(kind, t, ctx, current)
           IN  /\ f \in Frames
               /\ f.kind = kind /\ f.runsIn = t /\ f.ctx = ctx /\ f.before = current
               /\ kind # "withTenants" \/ t = current => Stays(f)
BY DEF UseFrame, Frames, Kinds, Stays

(* Pushing a frame that would put back what the top one runs in.           *)
LEMMA Push ==
    ASSUME NEW s \in Seq(Frames), NEW f \in Frames, Linked(s), Stays(f),
           s # <<>> => f.before = s[Len(s)].runsIn
    PROVE  LET r == Append(s, f)
           IN  /\ r \in Seq(Frames) /\ r # <<>> /\ Linked(r)
               /\ Len(r) = Len(s) + 1 /\ r[Len(r)] = f
               /\ r[1] = IF s = <<>> THEN f ELSE s[1]
               /\ \A i \in 1..Len(s) : r[i] = s[i]
<1> DEFINE r == Append(s, f)
<1>1. /\ r \in Seq(Frames) /\ Len(s) \in Nat /\ Len(r) = Len(s) + 1 /\ r[Len(r)] = f
      /\ \A i \in 1..Len(s) : r[i] = s[i]
  OBVIOUS
<1>0. s = <<>> <=> Len(s) = 0
  BY EmptySeq
<1>2. r # <<>> /\ r[1] = IF s = <<>> THEN f ELSE s[1]
  <2>1. r # <<>>
    BY <1>1, EmptySeq
  <2>2. CASE s = <<>>
    BY <2>2, <1>0, <1>1
  <2>3. CASE s # <<>>
    <3>1. 1 \in 1..Len(s)
      BY <2>3, <1>0, <1>1
    <3> QED
      BY <2>3, <3>1, <1>1
  <2> QED
    BY <2>1, <2>2, <2>3
<1>3. ASSUME NEW i \in 1..Len(r)
      PROVE  /\ Stays(r[i])
             /\ i > 1 => r[i].before = r[i - 1].runsIn
  <2>1. CASE i \in 1..Len(s)
    BY <2>1, <1>1 DEF Linked
  <2>2. CASE i = Len(r)
    BY <2>2, <1>1
  <2> QED
    BY <2>1, <2>2, <1>1
<1>4. Linked(r)
  BY <1>3 DEF Linked
<1> QED
  BY <1>1, <1>2, <1>4

(* Leaving a frame: the one below runs in what is put back.                *)
LEMMA Pop ==
    ASSUME NEW s \in Seq(Frames), Linked(s), s # <<>>
    PROVE  LET r == SubSeq(s, 1, Len(s) - 1)
           IN  /\ r \in Seq(Frames) /\ Linked(r)
               /\ Len(r) = Len(s) - 1 /\ Len(s) \in Nat \ {0}
               /\ \A i \in 1..Len(r) : r[i] = s[i]
               /\ (Len(s) = 1 <=> r = <<>>)
               /\ r # <<>> => r[1] = s[1] /\ r[Len(r)].runsIn = s[Len(s)].before
               /\ Stays(s[Len(s)])
               /\ s[Len(s)] \in Frames /\ s[1] \in Frames
<1> DEFINE n == Len(s) - 1
           r == SubSeq(s, 1, n)
<1>1. Len(s) \in Nat \ {0} /\ s[Len(s)] \in Frames /\ s[1] \in Frames
  BY EmptySeq
<1>7. n \in Int /\ 0 <= n /\ n = Len(s) - 1 /\ \A i \in 1..n : s[i] \in Frames
  BY <1>1
<1>8. /\ r \in Seq(Frames)
      /\ Len(r) = IF 1 <= n THEN n - 1 + 1 ELSE 0
      /\ \A i \in 1..(n - 1 + 1) : r[i] = s[1 + i - 1]
  <2> HIDE DEF n
  <2> QED
    BY <1>7, SubSeqProperties
<1> HIDE DEF n, r
<1>2. /\ r \in Seq(Frames) /\ Len(r) = Len(s) - 1
      /\ \A i \in 1..Len(r) : r[i] = s[i]
  <2>1. Len(r) = n
    BY <1>7, <1>8
  <2>2. ASSUME NEW i \in 1..Len(r)
        PROVE  r[i] = s[i]
    <3>1. i \in 1..(n - 1 + 1) /\ 1 + i - 1 = i
      BY <1>7, <2>1
    <3> QED
      BY <3>1, <1>8
  <2> QED
    BY <1>7, <1>8, <2>1, <2>2
<1>6. r = <<>> <=> Len(r) = 0
  BY <1>2, EmptySeq
<1>3. Linked(r)
  <2>1. ASSUME NEW i \in 1..Len(r)
        PROVE  /\ Stays(r[i])
               /\ i > 1 => r[i].before = r[i - 1].runsIn
    <3>1. i \in 1..Len(s) /\ r[i] = s[i] /\ (i > 1 => r[i - 1] = s[i - 1])
      BY <1>1, <1>2
    <3> QED
      BY <3>1 DEF Linked
  <2> QED
    BY <2>1 DEF Linked
<1>4. r # <<>> => r[1] = s[1] /\ r[Len(r)].runsIn = s[Len(s)].before
  BY <1>1, <1>2, <1>6 DEF Linked
<1>5. Stays(s[Len(s)])
  BY <1>1 DEF Linked
<1> QED
  BY <1>1, <1>2, <1>3, <1>4, <1>5, <1>6 DEF r, n

-----------------------------------------------------------------------------
(* Steps.                                                                  *)

(* Kinds of threads do not overlap.                                        *)
LEMMA ThreadKinds ==
    /\ \A p \in Web : p \in Threads /\ p \notin Listeners /\ p \notin Pooled
    /\ \A p \in Listeners : p \in Threads /\ p \notin Web /\ p \notin Pooled
    /\ \A p \in Pooled : p \in Threads /\ p \notin Web /\ p \notin Listeners
    /\ Workers \subseteq Pooled /\ Async \subseteq Pooled
    /\ None \in Holdable /\ Tenants \subseteq Holdable
BY ContextAssumption DEF ContextAssumption, Threads, Pooled, Holdable, Ids

(* What a step has to show of the one thread p whose holders and calls it  *)
(* changes, to t, c and s.                                                 *)
Fits(p, t, c, s) ==
    /\ t \in Holdable /\ c \in Holdable \cup {NoContext} /\ s \in Seq(Frames)
    /\ Linked(s)
    /\ s # <<>> => t = s[Len(s)].runsIn
    /\ p \in Web => IF s = <<>> THEN p \notin refused' => t = None /\ c = NoContext
                    ELSE s[1].kind = "request" /\ c = s[1].ctx
    /\ p \notin Web => \A i \in 1..Len(s) : s[i].kind # "request"
    /\ p \in Listeners => (s # <<>> => c = s[1].ctx)
    /\ p \in Pooled =>
         /\ p \in live' => c = born'[p].context
         /\ p \in live' /\ s = <<>> => t = born'[p].tenant
         /\ s # <<>> => p \in live' /\ s[1].before = born'[p].tenant

(* The history and the pools change for p only, the rest keeps its type.   *)
Apart(p) ==
    /\ present' = present
    /\ tasks' \subseteq Calls /\ messages' \subseteq Calls
    /\ live' \subseteq Pooled /\ live' \ {p} = live \ {p}
    /\ refused' \subseteq Web /\ refused' \ {p} = refused \ {p}
    /\ born' \in [Pooled -> Holders] /\ \A q \in Pooled : q # p => born'[q] = born[q]

(* A step that changes one thread, to what fits, keeps the invariant.      *)
LEMMA OneThread ==
    ASSUME ContextInv, NEW p \in Threads, NEW t, NEW c, NEW s,
           tenant' = [tenant EXCEPT ![p] = t], context' = [context EXCEPT ![p] = c],
           stack' = [stack EXCEPT ![p] = s], Fits(p, t, c, s), Apart(p)
    PROVE  ContextInv'
<1>1. /\ \A q \in Threads : tenant'[q] = IF q = p THEN t ELSE tenant[q]
      /\ \A q \in Threads : context'[q] = IF q = p THEN c ELSE context[q]
      /\ \A q \in Threads : stack'[q] = IF q = p THEN s ELSE stack[q]
  BY DEF ContextInv, TypeOK
<1>2. TypeOK'
  <2>1. tenant' \in [Threads -> Holdable]
    BY DEF ContextInv, TypeOK, Fits
  <2>2. context' \in [Threads -> Holdable \cup {NoContext}]
    BY DEF ContextInv, TypeOK, Fits
  <2>3. stack' \in [Threads -> Seq(Frames)]
    BY DEF ContextInv, TypeOK, Fits
  <2> QED
    BY <2>1, <2>2, <2>3 DEF ContextInv, TypeOK, Apart
<1>3. ASSUME NEW q \in Threads
      PROVE  Coherent(q)'
  <2>1. CASE q = p
    BY <2>1, <1>1 DEF Fits, Coherent, Top, Idle, WebInv, ListenerInv, PoolInv
  <2>2. CASE q # p
    <3>1. /\ tenant'[q] = tenant[q] /\ context'[q] = context[q] /\ stack'[q] = stack[q]
          /\ q \in live' <=> q \in live
          /\ q \in refused' <=> q \in refused
          /\ q \in Pooled => born'[q] = born[q]
      BY <2>2, <1>1 DEF Apart
    <3>2. Coherent(q)
      BY DEF ContextInv
    <3> QED
      BY <3>1, <3>2 DEF Coherent, Top, Idle, WebInv, ListenerInv, PoolInv
  <2> QED
    BY <2>1, <2>2
<1> QED
  BY <1>2, <1>3 DEF ContextInv

(* A step that leaves tenant, context or stack alone changes it, too.      *)
LEMMA Unchanged ==
    ASSUME TypeOK, NEW p \in Threads
    PROVE  /\ tenant = [tenant EXCEPT ![p] = tenant[p]] /\ tenant[p] \in Holdable
           /\ context = [context EXCEPT ![p] = context[p]]
           /\ context[p] \in Holdable \cup {NoContext}
           /\ stack = [stack EXCEPT ![p] = stack[p]] /\ stack[p] \in Seq(Frames)
BY DEF TypeOK

(* A thread at work: its top frame, and what it knows of it.               *)
LEMMA AtWork ==
    ASSUME ContextInv, NEW p \in Threads, ~ Idle(p)
    PROVE  /\ Linked(stack[p]) /\ stack[p] \in Seq(Frames) /\ stack[p] # <<>>
           /\ Len(stack[p]) \in Nat \ {0}
           /\ Top(p) \in Frames /\ Top(p).ctx \in Holdable /\ Stays(Top(p))
           /\ tenant[p] = Top(p).runsIn /\ tenant[p] \in Holdable
<1>1. stack[p] \in Seq(Frames) /\ tenant[p] \in Holdable /\ Coherent(p) /\ stack[p] # <<>>
  BY DEF ContextInv, TypeOK, Idle
<1>2. Linked(stack[p]) /\ tenant[p] = Top(p).runsIn
  BY <1>1 DEF Coherent
<1>3. /\ Len(stack[p]) \in Nat \ {0} /\ Stays(stack[p][Len(stack[p])])
      /\ stack[p][Len(stack[p])] \in Frames
  BY <1>1, <1>2, Pop
<1> QED
  BY <1>1, <1>2, <1>3 DEF Top, Frames

(* Two stacks that differ in what a withTenants has left to do.            *)
Alike(r, s) ==
    /\ Len(r) = Len(s)
    /\ \A i \in 1..Len(s) :
         /\ r[i].kind = s[i].kind /\ r[i].ctx = s[i].ctx
         /\ r[i].runsIn = s[i].runsIn /\ r[i].before = s[i].before

(* A call on top of those of p.                                            *)
LEMMA PushFitsOn ==
    ASSUME ContextInv, NEW p \in Threads, NEW f \in Frames, f.kind # "request", Stays(f),
           f.before = tenant[p], ~ Idle(p) \/ p \in live,
           UNCHANGED <<live, born, refused>>,
           NEW s \in Seq(Frames), Linked(s), Alike(s, stack[p])
    PROVE  Fits(p, f.runsIn, context[p], Append(s, f))
<1> DEFINE r == Append(s, f)
<1>1. /\ Coherent(p) /\ f.runsIn \in Holdable /\ stack[p] \in Seq(Frames)
      /\ context[p] \in Holdable \cup {NoContext} /\ live \subseteq Pooled
  BY DEF ContextInv, TypeOK, Coherent, Frames
<1>0. /\ Len(s) \in Nat /\ Len(s) = Len(stack[p])
      /\ s = <<>> <=> Len(s) = 0
      /\ Idle(p) <=> Len(s) = 0
  BY <1>1, EmptySeq DEF Alike, Idle
<1>9. Len(s) # 0 => /\ f.before = s[Len(s)].runsIn
                    /\ s[1].kind = stack[p][1].kind /\ s[1].ctx = stack[p][1].ctx
                    /\ s[1].before = stack[p][1].before
  <2>1. SUFFICES ASSUME Len(s) # 0
                 PROVE  /\ f.before = s[Len(s)].runsIn
                        /\ s[1].kind = stack[p][1].kind /\ s[1].ctx = stack[p][1].ctx
                        /\ s[1].before = stack[p][1].before
    OBVIOUS
  <2>2. 1 \in 1..Len(stack[p]) /\ Len(s) \in 1..Len(stack[p])
    BY <2>1, <1>0
  <2>3. tenant[p] = stack[p][Len(s)].runsIn
    BY <2>1, <1>0, <1>1 DEF Coherent, Top
  <2> QED
    BY <2>2, <2>3 DEF Alike
<1>3. /\ r \in Seq(Frames) /\ r # <<>> /\ Linked(r) /\ r[Len(r)] = f
      /\ r[1] = (IF s = <<>> THEN f ELSE s[1])
      /\ Len(r) = Len(s) + 1 /\ \A i \in 1..Len(s) : r[i] = s[i]
  BY <1>0, <1>9, Push
<1>4. p \in Web => r[1].kind = "request" /\ context[p] = r[1].ctx
  BY <1>0, <1>1, <1>3, <1>9, ThreadKinds DEF Coherent, WebInv
<1>5. p \notin Web => \A i \in 1..Len(r) : r[i].kind # "request"
  <2>1. SUFFICES ASSUME p \notin Web, NEW i \in 1..Len(r)
                 PROVE  r[i].kind # "request"
    OBVIOUS
  <2>2. CASE i \in 1..Len(s)
    <3>1. i \in 1..Len(stack[p]) /\ r[i].kind = stack[p][i].kind
      BY <2>2, <1>0, <1>3 DEF Alike
    <3> QED
      BY <2>1, <3>1, <1>1 DEF Coherent
  <2>3. CASE i = Len(r)
    BY <2>3, <1>3
  <2> QED
    BY <2>2, <2>3, <1>0, <1>3
<1>6. p \in Listeners => context[p] = r[1].ctx
  BY <1>0, <1>1, <1>3, <1>9, ThreadKinds DEF Coherent, ListenerInv
<1>7. p \in Pooled => p \in live /\ r[1].before = born[p].tenant
                      /\ context[p] = born[p].context
  BY <1>0, <1>1, <1>3, <1>9 DEF Coherent, PoolInv
<1> HIDE DEF r
<1>8. Fits(p, f.runsIn, context[p], r)
  BY <1>1, <1>3, <1>4, <1>5, <1>6, <1>7 DEF Fits
<1> QED
  BY <1>8 DEF r

(* The same with the stack as it is.                                       *)
LEMMA PushFits ==
    ASSUME ContextInv, NEW p \in Threads, NEW f \in Frames, f.kind # "request", Stays(f),
           f.before = tenant[p], ~ Idle(p) \/ p \in live,
           UNCHANGED <<live, born, refused>>
    PROVE  Fits(p, f.runsIn, context[p], Append(stack[p], f))
<1>1. stack[p] \in Seq(Frames) /\ Linked(stack[p]) /\ Alike(stack[p], stack[p])
  BY DEF ContextInv, TypeOK, Coherent, Alike
<1> QED
  BY <1>1, PushFitsOn

(* A call that is not a request ends and its tenant is put back; a pool    *)
(* thread may end with its last one.                                       *)
LEMMA PopFits ==
    ASSUME ContextInv, NEW p \in Threads, ~ Idle(p), Top(p).kind # "request",
           UNCHANGED <<born, refused>>,
           live' = live \/ (live' = live \ {p} /\ Len(stack[p]) = 1)
    PROVE  Fits(p, Top(p).before, context[p], SubSeq(stack[p], 1, Len(stack[p]) - 1))
<1> DEFINE s == stack[p]
           r == SubSeq(s, 1, Len(s) - 1)
<1>1. /\ s \in Seq(Frames) /\ s # <<>> /\ Coherent(p) /\ Linked(s)
      /\ Top(p) = s[Len(s)] /\ Top(p).before \in Holdable
      /\ context[p] \in Holdable \cup {NoContext}
  BY AtWork DEF ContextInv, TypeOK, Coherent, Frames, Top
<1>2. /\ r \in Seq(Frames) /\ Linked(r) /\ Len(s) \in Nat \ {0} /\ Len(r) = Len(s) - 1
      /\ \A i \in 1..Len(r) : r[i] = s[i]
      /\ Len(s) = 1 <=> r = <<>>
      /\ r # <<>> => r[1] = s[1] /\ r[Len(r)].runsIn = Top(p).before
  BY <1>1, Pop
<1>3. /\ p \in Web => s[1].kind = "request" /\ context[p] = s[1].ctx /\ Len(s) # 1
      /\ p \in Listeners => context[p] = s[1].ctx
  BY <1>1 DEF Coherent, WebInv, ListenerInv, Idle
<1>4. p \notin Web => \A i \in 1..Len(r) : r[i].kind # "request"
  BY <1>1, <1>2 DEF Coherent
<1>5. p \in Pooled => /\ p \in live /\ context[p] = born[p].context
                      /\ s[1].before = born[p].tenant
  BY <1>1 DEF Coherent, PoolInv, Idle
<1>6. r = <<>> => Top(p) = s[1]
  BY <1>1, <1>2
<1> HIDE DEF r
<1>7. Fits(p, Top(p).before, context[p], r)
  BY <1>1, <1>2, <1>3, <1>4, <1>5, <1>6 DEF Fits
<1> QED
  BY <1>7 DEF r

(* A thread whose pools and history stay as they are.                      *)
LEMMA Alone ==
    ASSUME TypeOK, NEW p \in Threads, UNCHANGED <<present, live, refused, born>>,
           tasks' \subseteq Calls, messages' \subseteq Calls
    PROVE  Apart(p)
BY DEF Apart, TypeOK

-----------------------------------------------------------------------------
(* Actions.  A request comes and goes.                                     *)
LEMMA RefuseKeeps ==
    ASSUME ContextInv, NEW p \in Threads, present' = present, Refuse(p)
    PROVE  ContextInv'
<1>0. /\ TypeOK /\ p \in Web /\ Idle(p) /\ refused' = refused \cup {p}
      /\ UNCHANGED <<stack, live, tasks, messages, born>>
  BY DEF ContextInv, Refuse
<1>1. PICK header \in Holdable :
        /\ IF header = None THEN tenant' = tenant ELSE SetTenant(p, header)
        /\ SetContext(p, header)
  BY DEF Refuse
<1>2. PICK t \in Holdable : tenant' = [tenant EXCEPT ![p] = t]
  BY <1>0, <1>1, Unchanged DEF SetTenant
<1>3. Apart(p)
  BY <1>0 DEF Apart, TypeOK
<1>4. Fits(p, t, header, <<>>)
  <2>1. <<>> \in Seq(Frames) /\ Len(<<>>) = 0 /\ Linked(<<>>)
    BY DEF Linked
  <2>2. p \in refused' /\ p \notin Listeners /\ p \notin Pooled
    BY <1>0, ThreadKinds
  <2> QED
    BY <1>0, <1>1, <1>2, <2>1, <2>2 DEF Fits
<1>5. stack' = [stack EXCEPT ![p] = <<>>]
  BY <1>0, Unchanged DEF Idle
<1>6. context' = [context EXCEPT ![p] = header]
  BY <1>1 DEF SetContext
<1> QED
  BY <1>2, <1>3, <1>4, <1>5, <1>6, OneThread

(* The only call of a thread.                                              *)
LEMMA OnlyCall ==
    ASSUME NEW f \in Frames, Stays(f)
    PROVE  /\ <<f>> \in Seq(Frames) /\ Linked(<<f>>) /\ <<f>> # <<>>
           /\ Len(<<f>>) = 1 /\ <<f>>[1] = f
BY DEF Linked

LEMMA AdmitKeeps ==
    ASSUME ContextInv, NEW p \in Threads, present' = present, Admit(p)
    PROVE  ContextInv'
<1>0. /\ TypeOK /\ p \in Web /\ refused' = refused \ {p}
      /\ UNCHANGED <<live, tasks, messages, born>>
  BY DEF ContextInv, Admit
<1>1. PICK ctx \in Holdable :
        /\ SetContext(p, ctx) /\ SetTenant(p, ctx)
        /\ stack' = [stack EXCEPT ![p] = <<UseFrame("request", ctx, ctx, ctx)>>]
  BY DEF Admit
<1> DEFINE f == UseFrame("request", ctx, ctx, ctx)
<1>2. f \in Frames /\ f.kind = "request" /\ f.runsIn = ctx /\ f.ctx = ctx /\ Stays(f)
  BY UseFrameType DEF Kinds
<1> HIDE DEF f
<1>3. Apart(p)
  BY <1>0 DEF Apart, TypeOK
<1>4. /\ <<f>> \in Seq(Frames) /\ Linked(<<f>>) /\ <<f>> # <<>>
      /\ Len(<<f>>) = 1 /\ <<f>>[1] = f
  BY <1>2, OnlyCall
<1>5. p \notin Listeners /\ p \notin Pooled
  BY <1>0, ThreadKinds
<1>6. Fits(p, ctx, ctx, <<f>>)
  BY <1>0, <1>2, <1>4, <1>5 DEF Fits
<1>7. stack' = [stack EXCEPT ![p] = <<f>>]
  BY <1>1 DEF f
<1>8. tenant' = [tenant EXCEPT ![p] = ctx] /\ context' = [context EXCEPT ![p] = ctx]
  BY <1>1 DEF SetTenant, SetContext
<1> QED
  BY <1>3, <1>6, <1>7, <1>8, OneThread

LEMMA RespondKeeps ==
    ASSUME ContextInv, NEW p \in Threads, present' = present, Respond(p)
    PROVE  ContextInv'
<1>0. /\ TypeOK /\ UNCHANGED <<live, tasks, messages, refused, born>>
      /\ Len(stack[p]) = 1 /\ Top(p).kind = "request"
  BY DEF ContextInv, Respond
<1>1. p \in Web
  BY <1>0 DEF ContextInv, Coherent, Top
<1>2. Apart(p)
  BY <1>0, Alone DEF TypeOK
<1>3. <<>> \in Seq(Frames) /\ Len(<<>>) = 0 /\ Linked(<<>>)
  BY DEF Linked
<1>4. p \notin Listeners /\ p \notin Pooled /\ None \in Holdable
  BY <1>1, ThreadKinds
<1>5. Fits(p, None, NoContext, <<>>)
  BY <1>1, <1>3, <1>4 DEF Fits
<1>6. /\ tenant' = [tenant EXCEPT ![p] = None]
      /\ context' = [context EXCEPT ![p] = NoContext]
      /\ stack' = [stack EXCEPT ![p] = <<>>]
  BY DEF Respond, SetTenant, SetContext
<1> QED
  BY <1>2, <1>5, <1>6, OneThread

(* A message is handled, or rejected.                                      *)
LEMMA ReceiveKeeps ==
    ASSUME ContextInv, NEW p \in Threads, present' = present, Receive(p)
    PROVE  ContextInv'
<1>0. /\ TypeOK /\ p \in Listeners /\ UNCHANGED <<live, tasks, refused, born>>
  BY DEF ContextInv, Receive
<1>1. PICK m \in messages, ctx \in Holdable :
        /\ Deliver(m) /\ SetContext(p, ctx) /\ SetTenant(p, TenantOf(m.op, ctx))
        /\ stack' = [stack EXCEPT ![p] =
                       <<UseFrame("operation", TenantOf(m.op, ctx), ctx, m.ctx)>>]
  BY DEF Receive
<1>2. m.op \in Operations /\ m.ctx \in Holdable /\ messages' \subseteq Calls
  BY <1>0, <1>1 DEF TypeOK, Calls, Deliver
<1> DEFINE t == TenantOf(m.op, ctx)
           f == UseFrame("operation", t, ctx, m.ctx)
<1>3. t \in Holdable
  BY <1>2, TenantOfType
<1>4. f \in Frames /\ f.kind = "operation" /\ f.runsIn = t /\ f.ctx = ctx /\ Stays(f)
  <2> HIDE DEF t
  <2>1. f \in Frames /\ f.kind = "operation" /\ f.runsIn = t /\ f.ctx = ctx
    BY <1>2, <1>3, UseFrameType DEF Kinds
  <2>2. Stays(f)
    BY DEF Stays, UseFrame
  <2> QED
    BY <2>1, <2>2
<1>5. tenant' = [tenant EXCEPT ![p] = t] /\ context' = [context EXCEPT ![p] = ctx]
  BY <1>1 DEF SetTenant, SetContext
<1>6. stack' = [stack EXCEPT ![p] = <<f>>]
  BY <1>1
<1> HIDE DEF t, f
<1>7. /\ <<f>> \in Seq(Frames) /\ Linked(<<f>>) /\ <<f>> # <<>>
      /\ Len(<<f>>) = 1 /\ <<f>>[1] = f
  BY <1>4, OnlyCall
<1>8. p \notin Web /\ p \notin Pooled
  BY <1>0, ThreadKinds
<1>9. Fits(p, t, ctx, <<f>>)
  BY <1>3, <1>4, <1>7, <1>8 DEF Fits
<1>10. Apart(p)
  BY <1>0, <1>2, Alone DEF TypeOK
<1> QED
  BY <1>5, <1>6, <1>9, <1>10, OneThread

LEMMA RejectKeeps ==
    ASSUME ContextInv, NEW p \in Threads, present' = present, Reject(p)
    PROVE  ContextInv'
<1>0. /\ TypeOK /\ p \in Listeners /\ Idle(p) /\ UNCHANGED <<stack, live, tasks, refused, born>>
  BY DEF ContextInv, Reject
<1>1. PICK m \in messages, ctx \in Holdable :
        Deliver(m) /\ SetContext(p, ctx) /\ SetTenant(p, m.ctx)
  BY DEF Reject
<1>2. m.ctx \in Holdable /\ messages' \subseteq Calls
  BY <1>0, <1>1 DEF TypeOK, Calls, Deliver
<1>3. <<>> \in Seq(Frames) /\ Len(<<>>) = 0 /\ Linked(<<>>)
  BY DEF Linked
<1>4. p \notin Web /\ p \notin Pooled
  BY <1>0, ThreadKinds
<1>5. Fits(p, m.ctx, ctx, <<>>)
  BY <1>2, <1>3, <1>4 DEF Fits
<1>6. /\ tenant' = [tenant EXCEPT ![p] = m.ctx] /\ context' = [context EXCEPT ![p] = ctx]
      /\ stack' = [stack EXCEPT ![p] = <<>>]
  BY <1>0, <1>1, Unchanged DEF SetTenant, SetContext, Idle
<1>7. Apart(p)
  BY <1>0, <1>2, Alone DEF TypeOK
<1> QED
  BY <1>5, <1>6, <1>7, OneThread

(* An operation or a use is entered by a thread at work, or by a pool      *)
(* thread.                                                                 *)
LEMMA EnterKeeps ==
    ASSUME ContextInv, NEW p \in Threads, NEW kind \in {"operation", "use"},
           NEW t \in Holdable, NEW ctx \in Holdable, Enter(p, kind, t, ctx),
           ~ Idle(p) \/ p \in live, tasks' \subseteq Calls, messages' \subseteq Calls,
           UNCHANGED <<present, context, live, refused, born>>
    PROVE  ContextInv'
<1> DEFINE f == UseFrame(kind, t, ctx, tenant[p])
<1>0. TypeOK /\ tenant[p] \in Holdable
  BY DEF ContextInv, TypeOK
<1>1. /\ f \in Frames /\ f.kind = kind /\ f.runsIn = t /\ f.before = tenant[p] /\ Stays(f)
  BY <1>0, UseFrameType DEF Kinds
<1>2. stack' = [stack EXCEPT ![p] = Append(stack[p], f)]
  BY DEF Enter
<1>3. tenant' = [tenant EXCEPT ![p] = t]
  BY DEF Enter, SetTenant
<1> HIDE DEF f
<1>4. Fits(p, t, context[p], Append(stack[p], f))
  <2>1. Fits(p, f.runsIn, context[p], Append(stack[p], f))
    BY <1>1, PushFits
  <2> QED
    BY <2>1, <1>1
<1>5. context' = [context EXCEPT ![p] = context[p]]
  BY <1>0, Unchanged
<1>6. Apart(p)
  BY <1>0, Alone
<1> QED
  BY <1>2, <1>3, <1>4, <1>5, <1>6, OneThread

(* A call that is not a request ends.                                      *)
LEMMA EndKeeps ==
    ASSUME ContextInv, NEW p \in Threads, ~ Idle(p), Top(p).kind # "request",
           tenant' = [tenant EXCEPT ![p] = Top(p).before],
           stack' = [stack EXCEPT ![p] = SubSeq(stack[p], 1, Len(stack[p]) - 1)],
           live' = live \/ (live' = live \ {p} /\ Len(stack[p]) = 1),
           UNCHANGED <<present, context, tasks, messages, refused, born>>
    PROVE  ContextInv'
<1>1. TypeOK
  BY DEF ContextInv
<1>2. Fits(p, Top(p).before, context[p], SubSeq(stack[p], 1, Len(stack[p]) - 1))
  BY PopFits
<1>3. context' = [context EXCEPT ![p] = context[p]]
  BY <1>1, Unchanged
<1>4. Apart(p)
  BY <1>1 DEF Apart, TypeOK
<1> HIDE DEF Fits
<1> QED
  BY <1>2, <1>3, <1>4, OneThread

LEMMA DispatchKeeps ==
    ASSUME ContextInv, NEW p \in Threads, present' = present, Dispatch(p)
    PROVE  ContextInv'
<1>1. PICK op \in Operations, ctx \in Holdable : Enter(p, "operation", TenantOf(op, ctx), ctx)
  BY DEF Dispatch
<1>2. TenantOf(op, ctx) \in Holdable
  BY TenantOfType
<1>3. /\ ~ Idle(p) /\ UNCHANGED <<context, live, tasks, messages, refused, born>>
      /\ tasks' \subseteq Calls /\ messages' \subseteq Calls
  BY DEF Dispatch, MayCall, ContextInv, TypeOK
<1> QED
  BY <1>1, <1>2, <1>3, EnterKeeps

LEMMA UseKeeps ==
    ASSUME ContextInv, NEW p \in Threads, present' = present, Use(p)
    PROVE  ContextInv'
<1>1. PICK t \in Holdable \cup {ContextTenant} : Enter(p, "use", Resolve(p, t), Top(p).ctx)
  BY DEF Use
<1>2. /\ ~ Idle(p) /\ UNCHANGED <<context, live, tasks, messages, refused, born>>
      /\ tasks' \subseteq Calls /\ messages' \subseteq Calls
  BY DEF Use, MayCall, ContextInv, TypeOK
<1>3. Top(p).ctx \in Holdable /\ Resolve(p, t) \in Holdable
  BY <1>2, AtWork DEF Resolve
<1> QED
  BY <1>1, <1>2, <1>3, EnterKeeps

(* A pool thread takes a task.                                             *)
LEMMA StartKeeps ==
    ASSUME ContextInv, NEW p \in Threads, present' = present, Start(p)
    PROVE  ContextInv'
<1>1. PICK task \in tasks :
        /\ tasks' = tasks \ {task}
        /\ Enter(p, "operation", TenantOf(task.op, task.ctx), task.ctx)
  BY DEF Start
<1>2. /\ p \in live /\ UNCHANGED <<context, live, messages, refused, born>>
      /\ task.op \in Operations /\ task.ctx \in Holdable
      /\ tasks' \subseteq Calls /\ messages' \subseteq Calls
  BY <1>1 DEF Start, ContextInv, TypeOK, Calls
<1>3. TenantOf(task.op, task.ctx) \in Holdable
  BY <1>2, TenantOfType
<1> QED
  BY <1>1, <1>2, <1>3, EnterKeeps

LEMMA HandOverKeeps ==
    ASSUME ContextInv, NEW p \in Threads, NEW q \in Async, present' = present, HandOver(p, q)
    PROVE  ContextInv'
<1>1. PICK op \in Operations, ctx \in Holdable : Enter(q, "operation", TenantOf(op, ctx), ctx)
  BY DEF HandOver
<1>2. TenantOf(op, ctx) \in Holdable
  BY TenantOfType
<1>3. /\ q \in live /\ q \in Threads
      /\ UNCHANGED <<context, live, tasks, messages, refused, born>>
      /\ tasks' \subseteq Calls /\ messages' \subseteq Calls
  BY ThreadKinds DEF HandOver, ContextInv, TypeOK
<1> QED
  BY <1>1, <1>2, <1>3, EnterKeeps

LEMMA WithTenantsKeeps ==
    ASSUME ContextInv, NEW p \in Threads, present' = present, WithTenants(p)
    PROVE  ContextInv'
<1>0. /\ TypeOK /\ ~ Idle(p) /\ UNCHANGED <<tenant, context, live, tasks, messages, refused, born>>
  BY DEF WithTenants, MayCall, ContextInv
<1>1. PICK ids \in SUBSET Tenants :
        stack' = [stack EXCEPT ![p] = Append(stack[p],
            [UseFrame("withTenants", tenant[p], Top(p).ctx, tenant[p]) EXCEPT !.todo = ids])]
  BY DEF WithTenants
<1> DEFINE f == [UseFrame("withTenants", tenant[p], Top(p).ctx, tenant[p]) EXCEPT !.todo = ids]
<1>2. tenant[p] \in Holdable /\ Top(p).ctx \in Holdable
  BY <1>0, AtWork
<1>3. /\ f \in Frames /\ f.kind = "withTenants" /\ f.runsIn = tenant[p]
      /\ f.before = tenant[p] /\ Stays(f)
  BY <1>2 DEF UseFrame, Frames, Stays
<1> HIDE DEF f
<1>4. Fits(p, f.runsIn, context[p], Append(stack[p], f))
  BY <1>0, <1>3, PushFits
<1>5. Fits(p, tenant[p], context[p], Append(stack[p], f))
  BY <1>3, <1>4
<1>6. Apart(p)
  BY <1>0, Alone DEF TypeOK
<1>7. stack' = [stack EXCEPT ![p] = Append(stack[p], f)]
  BY <1>1 DEF f
<1>8. /\ tenant' = [tenant EXCEPT ![p] = tenant[p]]
      /\ context' = [context EXCEPT ![p] = context[p]]
  BY <1>0, Unchanged
<1> QED
  BY <1>5, <1>6, <1>7, <1>8, OneThread

LEMMA VisitedKeeps ==
    ASSUME ContextInv, NEW p \in Threads, present' = present, Visited(p)
    PROVE  ContextInv'
<1>1. /\ ~ Idle(p) /\ Top(p).kind = "withTenants"
      /\ UNCHANGED <<context, live, tasks, messages, refused, born>>
  BY DEF Visited
<1>2. Top(p).runsIn = Top(p).before
  BY <1>1, AtWork DEF Stays
<1>3. /\ tenant' = [tenant EXCEPT ![p] = Top(p).before]
      /\ stack' = [stack EXCEPT ![p] = SubSeq(stack[p], 1, Len(stack[p]) - 1)]
  BY <1>2 DEF Visited, SetTenant
<1> QED
  BY <1>1, <1>3, EndKeeps

LEMMA AbandonKeeps ==
    ASSUME ContextInv, NEW p \in Threads, present' = present, Abandon(p)
    PROVE  ContextInv'
<1>1. /\ ~ Idle(p) /\ Top(p).kind = "withTenants" /\ TypeOK
      /\ UNCHANGED <<tenant, context, live, tasks, messages, refused, born>>
  BY DEF Abandon, ContextInv
<1>2. tenant[p] = Top(p).before
  BY <1>1, AtWork DEF Stays
<1>3. /\ tenant' = [tenant EXCEPT ![p] = Top(p).before]
      /\ stack' = [stack EXCEPT ![p] = SubSeq(stack[p], 1, Len(stack[p]) - 1)]
  BY <1>1, <1>2, Unchanged DEF Abandon
<1> QED
  BY <1>1, <1>3, EndKeeps

LEMMA LeaveKeeps ==
    ASSUME ContextInv, NEW p \in Threads, present' = present, Leave(p)
    PROVE  ContextInv'
<1>1. /\ ~ Idle(p) /\ Top(p).kind # "request" /\ TypeOK
      /\ UNCHANGED <<context, tasks, messages, refused, born>>
  BY DEF Leave, ContextInv
<1>2. ~ Top(p).switched => tenant[p] = Top(p).before
  BY <1>1, AtWork DEF Stays
<1>3. tenant' = [tenant EXCEPT ![p] = Top(p).before]
  BY <1>1, <1>2, Unchanged DEF Leave, SetTenant
<1>4. stack' = [stack EXCEPT ![p] = SubSeq(stack[p], 1, Len(stack[p]) - 1)]
  BY DEF Leave
<1>5. live' = live \/ (live' = live \ {p} /\ Len(stack[p]) = 1)
  BY DEF Leave
<1> QED
  BY <1>1, <1>3, <1>4, <1>5, EndKeeps

(* withTenants goes on to another tenant.                                  *)
LEMMA VisitKeeps ==
    ASSUME ContextInv, NEW p \in Threads, present' = present, Visit(p)
    PROVE  ContextInv'
<1> DEFINE s == stack[p]
           n == Len(s)
<1>1. /\ ~ Idle(p) /\ Top(p).kind = "withTenants" /\ TypeOK /\ Top(p) = s[n]
      /\ UNCHANGED <<context, live, tasks, messages, refused, born>>
  BY DEF Visit, ContextInv, Top
<1>2. PICK id \in Top(p).todo :
        /\ SetTenant(p, id)
        /\ stack' = [stack EXCEPT ![p] =
             Append([s EXCEPT ![n] = [Top(p) EXCEPT !.todo = @ \ {id}]],
                    UseFrame("use", id, [Top(p) EXCEPT !.todo = @ \ {id}].ctx, tenant[p]))]
  BY DEF Visit
<1> DEFINE frame == [Top(p) EXCEPT !.todo = @ \ {id}]
           r == [s EXCEPT ![n] = frame]
           f == UseFrame("use", id, frame.ctx, tenant[p])
<1>3. /\ Linked(s) /\ s \in Seq(Frames) /\ n \in Nat \ {0} /\ n \in 1..n
      /\ Top(p) \in Frames /\ Stays(Top(p)) /\ tenant[p] \in Holdable
  BY <1>1, AtWork
<1>4. id \in Holdable
  BY <1>2, <1>3, ThreadKinds DEF Frames
<1>5. /\ frame \in Frames /\ frame.kind = Top(p).kind /\ frame.ctx = Top(p).ctx
      /\ frame.runsIn = Top(p).runsIn /\ frame.before = Top(p).before
      /\ Stays(frame) /\ frame.ctx \in Holdable
  BY <1>3 DEF Frames, Stays
<1>6. stack' = [stack EXCEPT ![p] = Append(r, f)] /\ tenant' = [tenant EXCEPT ![p] = id]
  BY <1>2 DEF SetTenant
<1> HIDE DEF frame
<1>7. /\ f \in Frames /\ f.kind = "use" /\ f.runsIn = id /\ f.before = tenant[p]
      /\ Stays(f)
  BY <1>3, <1>4, <1>5, UseFrameType DEF Kinds
<1> HIDE DEF f
<1>8. /\ r \in Seq(Frames) /\ Len(r) = n
      /\ \A i \in 1..n : r[i] = IF i = n THEN frame ELSE s[i]
  BY <1>3, <1>5
<1> HIDE DEF r
<1>9. Alike(r, s)
  BY <1>1, <1>3, <1>5, <1>8 DEF Alike
<1>10. Linked(r)
  <2>1. ASSUME NEW i \in 1..Len(r)
        PROVE  Stays(r[i]) /\ (i > 1 => r[i].before = r[i - 1].runsIn)
    <3>1. Stays(r[i])
      BY <1>3, <1>5, <1>8 DEF Linked
    <3>2. ASSUME i > 1
          PROVE  r[i].before = r[i - 1].runsIn
      <4>1. i \in 1..n /\ i - 1 \in 1..n
        BY <3>2, <1>3, <1>8
      <4>2. r[i].before = s[i].before /\ r[i - 1].runsIn = s[i - 1].runsIn
        BY <4>1, <1>9 DEF Alike
      <4> QED
        BY <3>2, <4>1, <4>2, <1>3 DEF Linked
    <3> QED
      BY <3>1, <3>2
  <2> QED
    BY <2>1 DEF Linked
<1>11. Fits(p, id, context[p], Append(r, f))
  <2>1. Fits(p, f.runsIn, context[p], Append(r, f))
    BY <1>1, <1>7, <1>8, <1>9, <1>10, PushFitsOn
  <2> QED
    BY <2>1, <1>7
<1>12. Apart(p)
  BY <1>1, Alone DEF TypeOK
<1>13. context' = [context EXCEPT ![p] = context[p]]
  BY <1>1, Unchanged
<1> QED
  BY <1>6, <1>11, <1>12, <1>13, OneThread

(* A step that changes no thread.                                          *)
LEMMA Quiet ==
    ASSUME ContextInv, UNCHANGED <<present, tenant, context, stack, live, refused, born>>,
           tasks' \subseteq Calls, messages' \subseteq Calls
    PROVE  ContextInv'
<1>1. TypeOK'
  BY DEF ContextInv, TypeOK
<1>2. ASSUME NEW p \in Threads
      PROVE  Coherent(p)'
  <2>1. Coherent(p)
    BY DEF ContextInv
  <2> QED
    BY <2>1 DEF Coherent, Top, Idle, WebInv, ListenerInv, PoolInv
<1> QED
  BY <1>1, <1>2 DEF ContextInv

(* A thread is born into its pool with its creator's holders, and with     *)
(* nothing to do or a first call.                                          *)
LEMMA BornKeeps ==
    ASSUME ContextInv, NEW p \in Threads, NEW q \in Pooled, q \notin live,
           NEW t \in Holdable, NEW s \in Seq(Frames), Linked(s),
           s = <<>> => t = tenant[p],
           s # <<>> => t = s[Len(s)].runsIn /\ s[1].before = tenant[p],
           \A i \in 1..Len(s) : s[i].kind # "request",
           live' = live \cup {q}, born' = [born EXCEPT ![q] = Born(p)],
           tenant' = [tenant EXCEPT ![q] = t], context' = [context EXCEPT ![q] = context[p]],
           stack' = [stack EXCEPT ![q] = s],
           tasks' \subseteq Calls, UNCHANGED <<present, messages, refused>>
    PROVE  ContextInv'
<1>1. /\ TypeOK /\ q \in Threads /\ q \notin Web /\ q \notin Listeners
      /\ Born(p) \in Holders /\ Born(p).tenant = tenant[p] /\ Born(p).context = context[p]
      /\ context[p] \in Holdable \cup {NoContext}
  BY ThreadKinds DEF ContextInv, TypeOK, Born, Holders
<1>2. born'[q] = Born(p) /\ q \in live'
  BY <1>1 DEF TypeOK
<1>3. Fits(q, t, context[p], s)
  BY <1>1, <1>2 DEF Fits
<1>4. Apart(q)
  <2>1. live' \subseteq Pooled /\ live' \ {q} = live \ {q}
    BY <1>1 DEF TypeOK
  <2>2. born' \in [Pooled -> Holders] /\ \A o \in Pooled : o # q => born'[o] = born[o]
    BY <1>1 DEF TypeOK
  <2> QED
    BY <2>1, <2>2, <1>1 DEF Apart, TypeOK
<1> QED
  BY <1>1, <1>3, <1>4, OneThread

LEMMA ScheduleKeeps ==
    ASSUME ContextInv, NEW p \in Threads, present' = present, Schedule(p)
    PROVE  ContextInv'
<1>1. ~ Idle(p) /\ TypeOK /\ UNCHANGED <<stack, messages, refused>>
  BY DEF Schedule, ContextInv
<1>2. PICK op \in Scheduled : tasks' = tasks \cup {[op |-> op, ctx |-> Top(p).ctx]}
  BY DEF Schedule
<1>3. tasks' \subseteq Calls
  <2>1. op \in Operations /\ Top(p).ctx \in Holdable
    BY <1>1, AtWork, ContextAssumption DEF ContextAssumption
  <2> QED
    BY <1>1, <1>2, <2>1 DEF TypeOK, Calls
<1>4. CASE UNCHANGED <<tenant, context, live, born>>
  BY <1>1, <1>3, <1>4, Quiet DEF TypeOK
<1>5. CASE \E q \in (Workers \cap present) \ live :
              /\ live' = live \cup {q} /\ SetTenant(q, tenant[p])
              /\ SetContext(q, context[p]) /\ born' = [born EXCEPT ![q] = Born(p)]
  <2>1. PICK q \in (Workers \cap present) \ live :
              /\ live' = live \cup {q} /\ SetTenant(q, tenant[p])
              /\ SetContext(q, context[p]) /\ born' = [born EXCEPT ![q] = Born(p)]
    BY <1>5
  <2>2. q \in Pooled /\ q \in Threads /\ tenant[p] \in Holdable
    BY <2>1, <1>1, ThreadKinds DEF TypeOK
  <2>3. stack[q] = <<>>
    BY <2>1, <2>2 DEF ContextInv, Coherent, PoolInv, Idle
  <2> DEFINE s == stack[q]
  <2>4. /\ s \in Seq(Frames) /\ Linked(s) /\ s = <<>>
        /\ \A i \in 1..Len(s) : s[i].kind # "request"
    BY <1>1, <2>2, <2>3 DEF Linked, TypeOK
  <2>5. stack' = [stack EXCEPT ![q] = s]
    BY <1>1, <2>2, Unchanged
  <2>6. tenant' = [tenant EXCEPT ![q] = tenant[p]] /\ context' = [context EXCEPT ![q] = context[p]]
    BY <2>1 DEF SetTenant, SetContext
  <2> HIDE DEF s
  <2>7. q \notin live /\ present' = present
    BY <2>1
  <2> QED
    BY <1>1, <1>3, <2>1, <2>2, <2>4, <2>5, <2>6, <2>7, BornKeeps
<1> QED
  BY <1>4, <1>5 DEF Schedule

LEMMA SpawnKeeps ==
    ASSUME ContextInv, NEW p \in Threads, NEW q \in Async, present' = present, Spawn(p, q)
    PROVE  ContextInv'
<1>1. /\ TypeOK /\ ~ Idle(p) /\ q \in Pooled /\ q \notin live
      /\ live' = live \cup {q} /\ born' = [born EXCEPT ![q] = Born(p)]
      /\ context' = [context EXCEPT ![q] = context[p]]
      /\ UNCHANGED <<tasks, messages, refused>>
  BY ThreadKinds DEF Spawn, MayCall, SetContext, ContextInv
<1>2. PICK kind \in {"operation", "use"}, t \in Holdable, ctx \in Holdable :
        /\ stack' = [stack EXCEPT ![q] = <<UseFrame(kind, t, ctx, tenant[p])>>]
        /\ SetTenant(q, t)
  <2>1. CASE \E op \in Operations, ctx \in Holdable :
               /\ stack' = [stack EXCEPT ![q] =
                             <<UseFrame("operation", TenantOf(op, ctx), ctx, tenant[p])>>]
               /\ SetTenant(q, TenantOf(op, ctx))
    BY <2>1, TenantOfType
  <2>2. CASE \E id \in Tenants :
               /\ stack' = [stack EXCEPT ![q] = <<UseFrame("use", id, Top(p).ctx, tenant[p])>>]
               /\ SetTenant(q, id)
    BY <2>2, <1>1, AtWork, ThreadKinds
  <2> QED
    BY <2>1, <2>2 DEF Spawn
<1> DEFINE f == UseFrame(kind, t, ctx, tenant[p])
<1>3. tenant[p] \in Holdable
  BY <1>1, AtWork
<1>4. f \in Frames /\ f.kind = kind /\ f.runsIn = t /\ f.before = tenant[p] /\ Stays(f)
  BY <1>3, UseFrameType DEF Kinds
<1>5. stack' = [stack EXCEPT ![q] = <<f>>] /\ tenant' = [tenant EXCEPT ![q] = t]
  BY <1>2 DEF SetTenant
<1> HIDE DEF f
<1>6. /\ <<f>> \in Seq(Frames) /\ Linked(<<f>>) /\ <<f>> # <<>>
      /\ Len(<<f>>) = 1 /\ <<f>>[1] = f
  BY <1>4, OnlyCall
<1> DEFINE s == <<f>>
<1>7. /\ s \in Seq(Frames) /\ Linked(s) /\ s # <<>> /\ s[Len(s)].runsIn = t
      /\ s[1].before = tenant[p] /\ \A i \in 1..Len(s) : s[i].kind # "request"
  BY <1>4, <1>6
<1>8. tasks' \subseteq Calls /\ stack' = [stack EXCEPT ![q] = s]
  BY <1>1, <1>5 DEF TypeOK
<1> HIDE DEF s
<1> QED
  BY <1>1, <1>5, <1>7, <1>8, BornKeeps

LEMMA ExpireKeeps ==
    ASSUME ContextInv, NEW p \in Threads, present' = present, Expire(p)
    PROVE  ContextInv'
<1>1. /\ TypeOK /\ Coherent(p) /\ p \in Pooled /\ Idle(p) /\ live' = live \ {p}
      /\ UNCHANGED <<tenant, context, stack, tasks, messages, refused, born>>
  BY ThreadKinds DEF Expire, ContextInv
<1>2. Fits(p, tenant[p], context[p], stack[p])
  <2>1. stack[p] = <<>> /\ p \notin Web /\ p \notin Listeners /\ p \notin live'
    BY <1>1, ThreadKinds DEF Idle
  <2>2. /\ tenant[p] \in Holdable /\ context[p] \in Holdable \cup {NoContext}
        /\ stack[p] \in Seq(Frames) /\ Linked(stack[p])
        /\ \A i \in 1..Len(stack[p]) : stack[p][i].kind # "request"
    BY <1>1, <2>1 DEF Coherent, TypeOK
  <2> QED
    BY <2>1, <2>2 DEF Fits
<1>3. Apart(p)
  BY <1>1 DEF Apart, TypeOK
<1>4. /\ tenant' = [tenant EXCEPT ![p] = tenant[p]]
      /\ context' = [context EXCEPT ![p] = context[p]]
      /\ stack' = [stack EXCEPT ![p] = stack[p]]
  BY <1>1, Unchanged
<1> QED
  BY <1>2, <1>3, <1>4, OneThread

LEMMA PublishKeeps ==
    ASSUME ContextInv, NEW p \in Threads, present' = present, Publish(p)
    PROVE  ContextInv'
<1>1. TypeOK /\ UNCHANGED <<tenant, context, stack, live, tasks, refused, born>>
  BY DEF Publish, ContextInv
<1>2. PICK op \in Handled :
        messages' = messages \cup
            {[op |-> op, ctx |-> IF context[p] = NoContext THEN None ELSE context[p]]}
  BY DEF Publish
<1> DEFINE ctx == IF context[p] = NoContext THEN None ELSE context[p]
<1>3. op \in Operations /\ ctx \in Holdable
  BY <1>1, ThreadKinds, ContextAssumption DEF ContextAssumption, TypeOK
<1>4. messages' = messages \cup {[op |-> op, ctx |-> ctx]}
  BY <1>2
<1> HIDE DEF ctx
<1>5. messages' \subseteq Calls /\ tasks' \subseteq Calls
  BY <1>1, <1>3, <1>4 DEF TypeOK, Calls
<1> QED
  BY <1>1, <1>5, Quiet

LEMMA FromElsewhereKeeps ==
    ASSUME ContextInv, present' = present, FromElsewhere
    PROVE  ContextInv'
<1>1. TypeOK /\ UNCHANGED <<tenant, context, stack, live, tasks, refused, born>>
  BY DEF FromElsewhere, ContextInv
<1>2. PICK m \in [op : Handled, ctx : Holdable] : messages' = messages \cup {m}
  BY DEF FromElsewhere
<1>3. m \in Calls
  BY ContextAssumption DEF ContextAssumption, Calls
<1>4. messages' \subseteq Calls /\ tasks' \subseteq Calls
  BY <1>1, <1>2, <1>3 DEF TypeOK
<1> QED
  BY <1>1, <1>4, Quiet

-----------------------------------------------------------------------------
(* Initially every thread is idle and holds nothing.                       *)
LEMMA InitContext ==
    ASSUME Init
    PROVE  ContextInv
<1>1. None \in Holdable /\ <<>> \in Seq(Frames) /\ Len(<<>>) = 0
  BY DEF Holdable
<1>2. TypeOK
  BY <1>1 DEF Init, TypeOK, Holders
<1>3. ASSUME NEW p \in Threads
      PROVE  Coherent(p)
  <2>1. stack[p] = <<>> /\ tenant[p] = None /\ context[p] = NoContext /\ p \notin live
    BY DEF Init
  <2> QED
    BY <2>1, <1>1 DEF Coherent, Linked, Idle, WebInv, ListenerInv, PoolInv
<1> QED
  BY <1>2, <1>3 DEF ContextInv

(* The holders, calls and births of all threads agree with one another at  *)
(* every moment (TenantHolder.use, RequestFilter, the message handler and  *)
(* the pools).                                                             *)
THEOREM ContextInvHolds == Spec => []ContextInv
<1>1. Init => ContextInv
  BY InitContext
<1>2. ContextInv /\ [Next]_vars => ContextInv'
  <2> SUFFICES ASSUME ContextInv, [Next]_vars
               PROVE  ContextInv'
    OBVIOUS
  <2>1. CASE vars' = vars
    <3>1. /\ UNCHANGED <<present, tenant, context, stack, live, refused, born>>
          /\ tasks' \subseteq Calls /\ messages' \subseteq Calls
      BY <2>1 DEF vars, ContextInv, TypeOK
    <3> QED
      BY <3>1, Quiet
  <2>2. CASE Next
    <3>0. present' = present
      BY <2>2 DEF Next
    <3>1. ASSUME NEW p \in Threads, Refuse(p) \/ Admit(p) \/ Respond(p)
          PROVE  ContextInv'
      BY <3>0, <3>1, RefuseKeeps, AdmitKeeps, RespondKeeps
    <3>2. ASSUME NEW p \in Threads, Receive(p) \/ Reject(p)
          PROVE  ContextInv'
      BY <3>0, <3>2, ReceiveKeeps, RejectKeeps
    <3>3. ASSUME NEW p \in Threads, Dispatch(p) \/ Use(p) \/ Leave(p)
          PROVE  ContextInv'
      BY <3>0, <3>3, DispatchKeeps, UseKeeps, LeaveKeeps
    <3>4. ASSUME NEW p \in Threads, WithTenants(p) \/ Visit(p) \/ Visited(p) \/ Abandon(p)
          PROVE  ContextInv'
      BY <3>0, <3>4, WithTenantsKeeps, VisitKeeps, VisitedKeeps, AbandonKeeps
    <3>5. ASSUME NEW p \in Threads, Schedule(p) \/ Start(p) \/ Publish(p) \/ Expire(p)
          PROVE  ContextInv'
      BY <3>0, <3>5, ScheduleKeeps, StartKeeps, PublishKeeps, ExpireKeeps
    <3>6. ASSUME NEW p \in Threads, NEW q \in Async, HandOver(p, q) \/ Spawn(p, q)
          PROVE  ContextInv'
      BY <3>0, <3>6, HandOverKeeps, SpawnKeeps
    <3>7. CASE FromElsewhere
      BY <3>0, <3>7, FromElsewhereKeeps
    <3> QED
      BY <2>2, <3>1, <3>2, <3>3, <3>4, <3>5, <3>6, <3>7 DEF Next
  <2> QED
    BY <2>1, <2>2
<1> QED
  BY <1>1, <1>2, PTL DEF Spec

(* The holders and stacks keep their types: whatever is nested, a tenant   *)
(* that is put back is one that could be held.                             *)
THEOREM ContextTypeCorrect == Spec => []TypeOK
<1>1. ContextInv => TypeOK
  BY DEF ContextInv
<1> QED
  BY <1>1, ContextInvHolds, PTL

(* Code runs in the tenant it is meant for, on any thread, however deep    *)
(* and after whatever ran there before (TenantHolder.use).                 *)
THEOREM OwnTenant == Spec => []RunsInItsTenant
<1>1. ContextInv => RunsInItsTenant
  BY DEF ContextInv, Coherent, RunsInItsTenant
<1> QED
  BY <1>1, ContextInvHolds, PTL

(* On the threads of the server and of the broker client the context stays *)
(* that of the request or message (RequestFilter,                          *)
(* OperationDispatchMessageHandler).                                       *)
THEOREM CausesKept == Spec => []ContextOfItsCause
<1>1. ContextInv => ContextOfItsCause
  BY ThreadKinds DEF ContextInv, Coherent, WebInv, ListenerInv, ContextOfItsCause
<1> QED
  BY <1>1, ContextInvHolds, PTL

(* A web thread holds something between requests only after a request that *)
(* RequestFilter turned away.                                              *)
THEOREM LeftoversExplained == Spec => []LeftoversNeedARefusal
<1>1. ContextInv => LeftoversNeedARefusal
  BY ThreadKinds DEF ContextInv, Coherent, WebInv, LeftoversNeedARefusal
<1> QED
  BY <1>1, ContextInvHolds, PTL

(* Tasks leave the holders of their pool thread as they found them         *)
(* (TenantHolder.use on SimpleExecutorOperationScheduler's threads and     *)
(* ExecutorHelper's).                                                      *)
THEOREM PoolsClean == Spec => []PoolThreadsAsBorn
<1>1. ContextInv => PoolThreadsAsBorn
  <2> SUFFICES ASSUME ContextInv, NEW q \in live, Idle(q)
               PROVE  Born(q) = born[q]
    BY DEF PoolThreadsAsBorn
  <2>1. q \in Pooled /\ born[q] \in Holders
    BY DEF ContextInv, TypeOK
  <2>2. PoolInv(q)
    BY <2>1, ThreadKinds DEF ContextInv, Coherent
  <2> QED
    BY <2>1, <2>2 DEF PoolInv, Born, Holders
<1> QED
  BY <1>1, ContextInvHolds, PTL
=============================================================================
