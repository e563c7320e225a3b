----------------------- MODULE InvocationManagerProofs -----------------------
(***************************************************************************)
(* The safety of InvocationManager, proved for any number of services, any *)
(* pools of invocations and Invokers and any number of invocations.        *)
(*                                                                         *)
(* IInv is the inductive invariant.  Its heart is where an invocation is   *)
(* (Placed) and the count of each service (PendingExact): together they    *)
(* say that a count of 0 leaves nothing of the service on its way but      *)
(* workers past their callbacks, and that in a destructor it stays 0.      *)
(***************************************************************************)
EXTENDS InvocationManager, Counting

InvokerPcs == WorkerPcs \ {"invoker"}
ManagerPcs == {"wait", "invoker", "callback", "count", "signal", "clear", "ended"}
Unused     == {"wait", "ended"}

(* A worker that is at work has an invocation, a client that is about to   *)
(* queue one has taken it, and an Invoker keeps its lock from the callback *)
(* until it returns to the pool.                                           *)
Shape ==
  /\ \A s \in Services : pc[s] \in ClientPcs
  /\ \A k \in Invokers :
       /\ pc[k] \in InvokerPcs
       /\ iLock[k] = IF pc[k] \in Unused \union {"request", "response"} THEN None ELSE k
  /\ pc[Manager] \in ManagerPcs
  /\ \A w \in Workers : iInvocation[w] = None <=> pc[w] \in Unused
  /\ \A x \in Clients : new[x] = None <=> pc[x] # "invoke"

Free   == Range(iFreeInvocations)
Queued == Range(iWaitingInvocations)
Works(w, i) == iInvocation[w] = i /\ pc[w] # "return"

(* An invocation is free, queued, taken by one client or at one worker,    *)
(* and nothing of these twice; an Invoker is free or at work.              *)
Placed ==
  /\ IsInjective(iFreeInvocations) /\ IsInjective(iWaitingInvocations)
  /\ Free \intersect Queued = {}
  /\ \A x \in Clients : new[x] # None =>
       /\ new[x] \notin Free \union Queued
       /\ \A y \in Clients : new[y] = new[x] => y = x
       /\ \A w \in Workers : ~Works(w, new[x])
  /\ \A w \in Workers, i \in Invocations : Works(w, i) =>
       /\ i \notin Free \union Queued
       /\ \A v \in Workers : Works(v, i) => v = w
  /\ \A i \in Invocations :
       \/ i \in Free \union Queued
       \/ \E x \in Clients : new[x] = i
       \/ \E w \in Workers : Works(w, i)

InvokersPlaced ==
  /\ IsInjective(iFreeInvokers)
  /\ \A k \in Invokers : k \in Range(iFreeInvokers) <=> pc[k] \in Unused

(* An invocation has a service for as long as it is out of the pool.       *)
ServiceKnown == \A i \in Invocations : iService[i] = None <=> i \in Free

Leaving(s) == pc[s] \in {"interrupt", "wait", "gone"}

(* The manager's thread runs callbacks of services that are being deleted  *)
(* only; a response is waited for with the handler in place.               *)
Interrupts ==
  /\ \A s \in Services : iInterrupt[s] <=> Leaving(s)
  /\ \A s \in Services : scan[s] # {} => pc[s] = "interrupt"
  /\ pc[Manager] \in {"callback", "count", "signal"} => iInterrupt[ServiceOf(Manager)]
  /\ \A k \in Invokers : pc[k] = "response" => iInterruptHandler[iInvocation[k]]

(* What ends the wait of a destructor is no signal of an earlier time: who *)
(* is about to signal has counted down to 0 since the destructor has seen  *)
(* to the Invoker, and the count does not rise again.                      *)
SignalMeansDone ==
  \A s \in Services :
    /\ \A w \in Workers :
         pc[w] = "signal" /\ ServiceOf(w) = s /\ Leaving(s) /\ w \notin scan[s]
           => iPendingInvocations[s] = 0
    /\ pc[s] = "wait" /\ iShutdownSignal[s] > 0 => iPendingInvocations[s] = 0
    /\ pc[s] = "gone" => iPendingInvocations[s] = 0

IInv ==
  /\ TypeOK
  /\ Shape
  /\ Placed
  /\ InvokersPlaced
  /\ ServiceKnown
  /\ Interrupts
  /\ PendingExact
  /\ SignalMeansDone
  /\ InterruptReaches

-----------------------------------------------------------------------------
(* The names are different things.                                         *)
LEMMA Names ==
  /\ None \notin Services /\ None \notin Invokers /\ None \notin Invocations /\ None # Manager
  /\ None \notin Workers /\ None \notin Clients
  /\ Manager \notin Invokers /\ Manager \notin Services /\ Manager \notin Clients
  /\ Services \intersect Invokers = {} /\ Services \intersect Workers = {}
  /\ Workers = Invokers \union {Manager} /\ Clients = Services \union Invokers
  /\ Threads = Services \union Workers
  /\ Clients \subseteq Threads /\ Workers \subseteq Threads
BY NoneAssumption, ThreadAssumption DEF Threads, Workers, Clients

(* What a worker works on is no invocation of the pool, and has a service. *)
LEMMA AtWork ==
  ASSUME TypeOK, Shape, Placed, ServiceKnown,
         NEW w \in Workers, pc[w] \notin Unused \union {"return"}
  PROVE  /\ iInvocation[w] \in Invocations /\ Works(w, iInvocation[w])
         /\ iInvocation[w] \notin Free \union Queued
         /\ ServiceOf(w) \in Services
         /\ \A v \in Workers : Works(v, iInvocation[w]) => v = w
         /\ \A x \in Clients : new[x] # iInvocation[w]
<1>1. iInvocation[w] \in Invocations /\ pc[w] # "return" /\ iInvocation[w] # None
  BY Names DEF TypeOK, Shape
<1>2. /\ iInvocation[w] \notin Free \union Queued
      /\ \A v \in Workers : Works(v, iInvocation[w]) => v = w
  BY <1>1 DEF Placed, Works
<1>3. \A x \in Clients : new[x] # iInvocation[w]
  BY <1>1, Names DEF Placed, Works
<1> QED
  BY <1>1, <1>2, <1>3 DEF TypeOK, ServiceKnown, ServiceOf, Works

(* What a client has taken is no invocation of the pool.                   *)
LEMMA Taken ==
  ASSUME TypeOK, Shape, Placed, ServiceKnown, NEW x \in Clients, pc[x] = "invoke"
  PROVE  /\ new[x] \in Invocations /\ new[x] \notin Free \union Queued
         /\ \A y \in Clients : new[y] = new[x] => y = x
         /\ \A w \in Workers : ~Works(w, new[x])
<1>1. new[x] \in Invocations /\ new[x] # None
  BY Names DEF TypeOK, Shape
<1> QED
  BY <1>1 DEF Placed

(* A client invokes an action of a service.                                *)
LEMMA InvokedIsService ==
  ASSUME TypeOK, Shape, Placed, ServiceKnown,
         NEW x \in Clients, pc[x] \in {"callback", "lock", "read", "invoke"} \/ x \in Services
  PROVE  Invoked(x) \in Services
<1>1. CASE x \in Services
  BY <1>1 DEF Invoked
<1>2. CASE x \notin Services
  BY <1>2, AtWork, Names DEF Invoked, Unused
<1> QED
  BY <1>1, <1>2

(* The sets that a service's count is made of are finite.                  *)
LEMMA CountsFinite ==
  ASSUME NEW s \in Services
  PROVE  /\ IsFiniteSet(Asking(s)) /\ IsFiniteSet(Counted(s)) /\ IsFiniteSet(Owned(s))
         /\ Cardinality(Asking(s)) \in Nat /\ Cardinality(Counted(s)) \in Nat
         /\ Cardinality(Owned(s)) \in Nat
<1>1. IsFiniteSet(Workers) /\ IsFiniteSet(Invokers \union {s})
  BY PoolAssumption, FS_AddElement DEF Workers
<1>2. Asking(s) \subseteq Invokers \union {s}
  BY DEF Asking, Invoked, Clients
<1>3. Counted(s) \subseteq Workers /\ Owned(s) \subseteq Invocations
  BY DEF Counted, Owned
<1> QED
  BY <1>1, <1>2, <1>3, PoolAssumption, FS_Subset, FS_CardinalityType

(* Workers on invocations of a service are no more than these, and when    *)
(* they are as many, every invocation of the service is at one of them.    *)
LEMMA WorkersOf ==
  ASSUME TypeOK, Shape, Placed, ServiceKnown,
         NEW s \in Services, NEW W \in SUBSET Workers,
         \A w \in W : pc[w] \notin Unused \union {"return"} /\ ServiceOf(w) = s
  PROVE  /\ Cardinality(W) \in Nat
         /\ Cardinality(W) <= Cardinality(Owned(s))
         /\ Cardinality(W) = Cardinality(Owned(s))
              => \A i \in Owned(s) : \E w \in W : iInvocation[w] = i
<1> DEFINE f == [w \in W |-> iInvocation[w]]
<1>1. f \in [W -> Owned(s)]
  BY AtWork DEF Owned, ServiceOf
<1>2. \A v, w \in W : f[v] = f[w] => v = w
  BY AtWork
<1>3. IsFiniteSet(Owned(s))
  BY CountsFinite
<1> HIDE DEF f
<1>4. /\ Cardinality(W) \in Nat /\ Cardinality(W) <= Cardinality(Owned(s))
      /\ Cardinality(W) = Cardinality(Owned(s)) => \A i \in Owned(s) : \E w \in W : f[w] = i
  BY <1>1, <1>2, <1>3, OneToOne
<1> QED
  BY <1>4 DEF f

(* A count of 0: nobody asks for an invocation of the service, and every   *)
(* invocation of it is at a worker that has run its callback.              *)
LEMMA ZeroMeansDone ==
  ASSUME TypeOK, Shape, Placed, ServiceKnown, PendingExact,
         NEW s \in Services, iPendingInvocations[s] = 0
  PROVE  /\ Asking(s) = {}
         /\ \A i \in Owned(s) : \E w \in Counted(s) : iInvocation[w] = i
         /\ \A w \in Workers : pc[w] \notin Unused \union {"return"} /\ ServiceOf(w) = s
                               => pc[w] \in {"signal", "clear"}
<1>1. /\ Counted(s) \subseteq Workers
      /\ \A w \in Counted(s) : pc[w] \notin Unused \union {"return"} /\ ServiceOf(w) = s
  BY DEF Counted, Unused
<1>2. Cardinality(Counted(s)) = Cardinality(Asking(s)) + Cardinality(Owned(s))
  BY CountsFinite DEF PendingExact
<1>3. Cardinality(Counted(s)) <= Cardinality(Owned(s))
  BY <1>1, WorkersOf
<1>4. Cardinality(Asking(s)) = 0 /\ Cardinality(Counted(s)) = Cardinality(Owned(s))
  BY <1>2, <1>3, CountsFinite
<1>5. Asking(s) = {}
  BY <1>4, CountsFinite, FS_EmptySet
<1>6. \A i \in Owned(s) : \E w \in Counted(s) : iInvocation[w] = i
  BY <1>1, <1>4, WorkersOf
<1>7. ASSUME NEW w \in Workers, pc[w] \notin Unused \union {"return"}, ServiceOf(w) = s
      PROVE  pc[w] \in {"signal", "clear"}
  <2>1. iInvocation[w] \in Owned(s)
    BY <1>7, AtWork DEF Owned, ServiceOf
  <2>2. PICK v \in Counted(s) : iInvocation[v] = iInvocation[w]
    BY <1>6, <2>1
  <2>3. v = w
    BY <1>1, <1>7, <2>2, AtWork
  <2> QED
    BY <2>3 DEF Counted
<1> QED
  BY <1>5, <1>6, <1>7

(* A worker on an invocation that is not counted down yet is counted.      *)
LEMMA CountedOnce ==
  ASSUME TypeOK, Shape, Placed, ServiceKnown, PendingExact,
         NEW w \in Workers, pc[w] \notin Unused \union {"return", "signal", "clear"}
  PROVE  ServiceOf(w) \in Services /\ iPendingInvocations[ServiceOf(w)] > 0
<1>1. ServiceOf(w) \in Services
  BY AtWork
<1>2. iPendingInvocations[ServiceOf(w)] # 0
  BY <1>1, ZeroMeansDone
<1> QED
  BY <1>1, <1>2 DEF TypeOK

(* A step that moves no invocation.                                        *)
LEMMA StaysPlaced ==
  ASSUME Placed, UNCHANGED <<iFreeInvocations, iWaitingInvocations, new>>,
         \A w \in Workers, i \in Invocations : Works(w, i)' = Works(w, i),
         \A x \in Clients : new[x] \in Invocations \union {None}
  PROVE  Placed'
BY DEF Placed, Free, Queued

(* A step that changes no count.                                           *)
LEMMA StaysPending ==
  ASSUME PendingExact, UNCHANGED <<iPendingInvocations, iService>>,
         \A s \in Services : Counted(s)' = Counted(s) /\ Asking(s)' = Asking(s)
  PROVE  PendingExact'
BY DEF PendingExact, Owned

-----------------------------------------------------------------------------
(* Every step keeps the invariant.                                         *)
LEMMA BeginKeeps ==
  ASSUME IInv, NEW x \in Clients, Begin(x)
  PROVE  IInv'
<1> USE DEF IInv, services, invocations, invokers, fifos, Goto
<1> DEFINE s == Invoked(x)
<1>1. /\ pc[x] = IF x \in Services THEN "idle" ELSE "callback"
      /\ s \in Services /\ x \in Threads
      /\ pc' = [pc EXCEPT ![x] = "lock"]
      /\ iPendingInvocations' = [iPendingInvocations EXCEPT ![s] = @ + 1]
      /\ invokes[s] < MaxInvokes[s] /\ invokes' = [invokes EXCEPT ![s] = @ + 1]
  BY InvokedIsService, Names DEF Begin
<1>2. TypeOK'
  <2>1. invokes' \in [Services -> Nat] /\ \A r \in Services : invokes'[r] <= MaxInvokes[r]
    <3> HIDE DEF s
    <3>0. MaxInvokes[s] \in Nat /\ invokes[s] \in Nat
      BY <1>1, PoolAssumption DEF TypeOK
    <3>1. invokes[s] + 1 <= MaxInvokes[s]
      BY <1>1, <3>0
    <3> HIDE DEF s, IInv
    <3>2. invokes \in [Services -> Nat] /\ \A r \in Services : invokes[r] <= MaxInvokes[r]
      BY DEF IInv, TypeOK
    <3> QED
      BY <1>1, <3>1, <3>2
  <2>2. pc' \in [Threads -> ClientPcs \union WorkerPcs]
    BY <1>1 DEF TypeOK, ClientPcs
  <2> QED
    BY <1>1, <2>1, <2>2, SMTT(30) DEF TypeOK, Begin
<1>3. Shape'
  BY <1>1, Names, SMTT(30) DEF TypeOK, Shape, Begin, ClientPcs, InvokerPcs, WorkerPcs, Unused
<1>4. Placed'
  <2>1. \A w \in Workers, i \in Invocations : Works(w, i)' = Works(w, i)
    BY <1>1, Names DEF TypeOK, Begin, Works
  <2> QED
    BY <2>1, StaysPlaced DEF TypeOK, Begin
<1>5. InvokersPlaced' /\ ServiceKnown'
  BY <1>1, Names DEF TypeOK, InvokersPlaced, ServiceKnown, Begin, Free, Unused
<1>6. Interrupts'
  BY <1>1, Names DEF TypeOK, Interrupts, Begin, Leaving, ServiceOf
<1>7. PendingExact'
  <2> SUFFICES ASSUME NEW r \in Services
               PROVE  (iPendingInvocations[r] + Cardinality(Counted(r))
                         = Cardinality(Asking(r)) + Cardinality(Owned(r)))'
    BY DEF PendingExact
  <2>1. Counted(r)' = Counted(r) /\ Owned(r)' = Owned(r)
    BY <1>1, Names, SMTT(30) DEF Counted, Owned, ServiceOf, Begin, TypeOK
  <2>2. /\ Asking(r)' \ {x} = Asking(r) \ {x}
        /\ x \in Asking(r)' <=> s = r
        /\ x \notin Asking(r)
    BY <1>1, Names, SMTT(30) DEF Asking, Invoked, ServiceOf, Begin, TypeOK
  <2>3. Cardinality(Asking(r)') = Cardinality(Asking(r)) + (IF s = r THEN 1 ELSE 0)
    BY <2>2, CardinalityStep, CountsFinite
  <2>4. /\ iPendingInvocations[r] \in Nat
        /\ iPendingInvocations'[r] = iPendingInvocations[r] + (IF s = r THEN 1 ELSE 0)
    BY <1>1 DEF TypeOK
  <2>5. iPendingInvocations[r] + Cardinality(Counted(r))
          = Cardinality(Asking(r)) + Cardinality(Owned(r))
    BY DEF PendingExact
  <2> HIDE DEF s, IInv
  <2> QED
    BY <2>1, <2>3, <2>4, <2>5, CountsFinite
<1>8. SignalMeansDone'
  <2>1. CASE x \in Services
    <3>1. s = x /\ ~Leaving(s)
      BY <1>1, <2>1 DEF Leaving, Invoked
    <3> QED
      BY <1>1, <3>1, Names DEF SignalMeansDone, Leaving, ServiceOf, Begin, TypeOK
  <2>2. CASE x \notin Services
    <3>1. iPendingInvocations[s] > 0
      BY <1>1, <2>2, CountedOnce, Names DEF Invoked, Unused
    <3> QED
      BY <1>1, <2>2, <3>1, Names DEF SignalMeansDone, Leaving, ServiceOf, Begin, TypeOK
  <2> QED
    BY <2>1, <2>2
<1>9. InterruptReaches'
  BY <1>1, Names DEF InterruptReaches, Begin, ServiceOf, TypeOK
<1> QED
  BY <1>2, <1>3, <1>4, <1>5, <1>6, <1>7, <1>8, <1>9

LEMMA ManagerLockKeeps ==
  ASSUME IInv, NEW x \in Clients, ManagerLock(x)
  PROVE  IInv'
<1> USE DEF IInv, services, invocations, invokers, fifos, clients, Goto
<1>1. /\ pc[x] = "lock" /\ x \in Threads /\ pc' = [pc EXCEPT ![x] = "read"]
  BY Names DEF ManagerLock
<1>2. TypeOK'
  BY <1>1 DEF TypeOK, ManagerLock, ClientPcs, WorkerPcs
<1>3. Shape'
  BY <1>1, Names DEF TypeOK, Shape, ManagerLock, ClientPcs, InvokerPcs, WorkerPcs, Unused
<1>4. Placed'
  <2>1. \A w \in Workers, i \in Invocations : Works(w, i)' = Works(w, i)
    BY <1>1, Names DEF TypeOK, ManagerLock, Works
  <2> QED
    BY <2>1, StaysPlaced DEF TypeOK, ManagerLock
<1>5. InvokersPlaced' /\ ServiceKnown'
  BY <1>1, Names DEF TypeOK, InvokersPlaced, ServiceKnown, ManagerLock, Free, Unused
<1>6. Interrupts'
  BY <1>1, Names DEF TypeOK, Interrupts, ManagerLock, Leaving, ServiceOf
<1>7. PendingExact'
  <2>1. ASSUME NEW r \in Services
        PROVE  Counted(r)' = Counted(r) /\ Asking(r)' = Asking(r)
    BY <1>1, Names DEF Counted, Asking, Invoked, ServiceOf, ManagerLock, TypeOK
  <2> QED
    BY <2>1, StaysPending DEF ManagerLock
<1>8. SignalMeansDone'
  BY <1>1, Names DEF SignalMeansDone, Leaving, ServiceOf, ManagerLock, TypeOK
<1>9. InterruptReaches'
  BY <1>1, Names DEF InterruptReaches, ServiceOf, ManagerLock, TypeOK
<1> QED
  BY <1>2, <1>3, <1>4, <1>5, <1>6, <1>7, <1>8, <1>9

(* A free invocation is of no service, at no worker and with no client.    *)
LEMMA ReadFreeKeeps ==
  ASSUME IInv, NEW x \in Clients, ReadFree(x)
  PROVE  IInv'
<1> USE DEF IInv, services, invocations, invokers, fifos, clients, Goto
<1> DEFINE i == Head(iFreeInvocations)
           s == Invoked(x)
<1>1. /\ pc[x] = "read" /\ s \in Services /\ x \in Threads
      /\ pc' = [pc EXCEPT ![x] = "invoke"] /\ new' = [new EXCEPT ![x] = i]
      /\ iService' = [iService EXCEPT ![i] = s]
      /\ UNCHANGED <<services, iInterruptHandler, interrupted, invokers, iWaitingInvocations,
                     iFreeInvokers, scan, invokes, main>>
  BY InvokedIsService, Names DEF ReadFree
<1>2. /\ i \in Invocations /\ i \in Free /\ i # None
      /\ iFreeInvocations' \in Seq(Invocations) /\ IsInjective(iFreeInvocations')
      /\ Free' = Free \ {i}
  BY TailElements, Names DEF ReadFree, TypeOK, Placed, Free
<1>3. iService[i] = None
  BY <1>2 DEF ServiceKnown
<1>4. \A w \in Workers : pc[w] \notin Unused \union {"return"} =>
        iInvocation[w] # i /\ ServiceOf(w) \in Services
  BY <1>2, AtWork
<1>5. TypeOK'
  BY <1>1, <1>2 DEF TypeOK, ReadFree, ClientPcs, WorkerPcs
<1> HIDE DEF i
<1>6. Shape'
  BY <1>1, <1>2, Names DEF TypeOK, Shape, ClientPcs, InvokerPcs, WorkerPcs, Unused
<1>7. Placed'
  <2>1. \A w \in Workers, j \in Invocations : Works(w, j)' = Works(w, j)
    BY <1>1, Names DEF Works, TypeOK
  <2>2. Queued' = Queued /\ UNCHANGED iWaitingInvocations
    BY <1>1 DEF Queued
  <2>3. i \notin Queued /\ \A w \in Workers : ~Works(w, i)
    BY <1>2 DEF Placed
  <2>4. new[x] = None /\ \A y \in Clients : new[y] # i
    BY <1>1, <1>2, Names DEF Placed, Shape
  <2>5. \A y \in Clients : new'[y] = IF y = x THEN i ELSE new[y]
    BY <1>1 DEF TypeOK
  <2>6. IsInjective(iFreeInvocations') /\ IsInjective(iWaitingInvocations')
        /\ Free' \intersect Queued' = {}
    BY <1>2, <2>2 DEF Placed
  <2>7. ASSUME NEW y \in Clients, new'[y] # None
        PROVE  /\ new'[y] \notin Free' \union Queued'
               /\ \A z \in Clients : new'[z] = new'[y] => z = y
               /\ \A w \in Workers : ~Works(w, new[y])'
    <3>1. CASE y = x
      <4>1. new'[y] = i
        BY <2>5, <3>1
      <4>2. \A w \in Workers : ~Works(w, new[y])'
        BY <1>2, <2>1, <2>3, <4>1 DEF Works
      <4> QED
        BY <1>2, <2>2, <2>3, <2>4, <2>5, <3>1, <4>1, <4>2
    <3>2. CASE y # x
      <4>1. new'[y] = new[y] /\ new[y] # None /\ new[y] \in Invocations
        BY <2>5, <2>7, <3>2 DEF TypeOK
      <4>2. \A w \in Workers : ~Works(w, new[y])'
        BY <2>1, <4>1 DEF Works, Placed
      <4> QED
        BY <1>2, <2>2, <2>4, <2>5, <3>2, <4>1, <4>2 DEF Placed
    <3> QED
      BY <3>1, <3>2
  <2>8. ASSUME NEW w \in Workers, NEW j \in Invocations, Works(w, j)'
        PROVE  j \notin Free' \union Queued' /\ \A v \in Workers : Works(v, j)' => v = w
    BY <1>2, <2>1, <2>2, <2>8 DEF Placed
  <2>9. ASSUME NEW j \in Invocations
        PROVE  \/ j \in Free' \union Queued'
               \/ \E y \in Clients : new'[y] = j
               \/ \E w \in Workers : Works(w, j)'
    BY <1>2, <2>1, <2>2, <2>4, <2>5, Names DEF Placed
  <2> QED
    BY <2>6, <2>7, <2>8, <2>9 DEF Placed
<1>8. InvokersPlaced' /\ ServiceKnown'
  BY <1>1, <1>2, Names DEF TypeOK, InvokersPlaced, ServiceKnown, Unused
<1>9. \A w \in Workers : pc[w] \notin Unused \union {"return"} => ServiceOf(w)' = ServiceOf(w)
  BY <1>1, <1>4 DEF ServiceOf, TypeOK
<1>10. Interrupts'
  <2>1. \A r \in Services : iInterrupt'[r] <=> Leaving(r)'
    BY <1>1, Names DEF TypeOK, Interrupts, Leaving
  <2>2. \A r \in Services : scan'[r] # {} => pc'[r] = "interrupt"
    BY <1>1, Names DEF TypeOK, Interrupts
  <2>3. pc'[Manager] \in {"callback", "count", "signal"} => iInterrupt'[ServiceOf(Manager)']
    BY <1>1, <1>9, Names, ZenonT(30) DEF TypeOK, Interrupts, Unused
  <2>4. \A k \in Invokers : pc'[k] = "response" => iInterruptHandler'[iInvocation'[k]]
    BY <1>1, Names DEF TypeOK, Interrupts
  <2> QED
    BY <2>1, <2>2, <2>3, <2>4 DEF Interrupts
<1>11. PendingExact'
  <2> SUFFICES ASSUME NEW r \in Services
               PROVE  (iPendingInvocations[r] + Cardinality(Counted(r))
                         = Cardinality(Asking(r)) + Cardinality(Owned(r)))'
    BY DEF PendingExact
  <2>1. Counted(r)' = Counted(r)
    BY <1>1, <1>9, Names DEF Counted, TypeOK, Unused
  <2>2. Asking(r)' \ {x} = Asking(r) \ {x} /\ x \notin Asking(r)' /\ (x \in Asking(r) <=> s = r)
    BY <1>1, <1>9, Names, ZenonT(60) DEF Asking, Invoked, TypeOK, Unused
  <2>3. Owned(r)' \ {i} = Owned(r) \ {i} /\ i \notin Owned(r) /\ (i \in Owned(r)' <=> s = r)
    BY <1>1, <1>2, <1>3, Names, SMTT(30) DEF Owned, TypeOK
  <2>4. /\ Cardinality(Asking(r)') = Cardinality(Asking(r)) - (IF s = r THEN 1 ELSE 0)
        /\ Cardinality(Owned(r)') = Cardinality(Owned(r)) + (IF s = r THEN 1 ELSE 0)
    BY <2>2, <2>3, CardinalityStep, CountsFinite
  <2>5. /\ iPendingInvocations[r] + Cardinality(Counted(r))
             = Cardinality(Asking(r)) + Cardinality(Owned(r))
        /\ iPendingInvocations'[r] = iPendingInvocations[r]
    BY <1>1 DEF PendingExact
  <2> HIDE DEF s, IInv
  <2> QED
    BY <2>1, <2>4, <2>5, CountsFinite
<1>12. SignalMeansDone'
  BY <1>1, <1>9, Names DEF SignalMeansDone, Leaving, TypeOK, Unused
<1>13. InterruptReaches'
  <2> SUFFICES ASSUME NEW k \in Invokers, pc'[k] = "response"
               PROVE  \/ interrupted'[iInvocation'[k]]
                      \/ pc'[ServiceOf(k)'] \notin {"interrupt", "wait", "gone"}
                      \/ k \in scan'[ServiceOf(k)']
    BY DEF InterruptReaches
  <2>1. pc[k] = "response" /\ ServiceOf(k)' = ServiceOf(k) /\ ServiceOf(k) \in Services
    BY <1>1, <1>4, <1>9, Names DEF TypeOK, Unused
  <2> QED
    BY <1>1, <2>1, Names DEF InterruptReaches, TypeOK
<1> QED
  BY <1>5, <1>6, <1>7, <1>8, <1>10, <1>11, <1>12, <1>13

(* What the client took is queued.                                         *)
LEMMA InvokeKeeps ==
  ASSUME IInv, NEW x \in Clients, Invoke(x)
  PROVE  IInv'
<1> USE DEF IInv, services, invocations, invokers, fifos, clients, Goto
<1> DEFINE i == new[x]
           l == IF x \in Services THEN "idle" ELSE "count"
<1>1. /\ pc[x] = "invoke" /\ x \in Threads
      /\ pc' = [pc EXCEPT ![x] = l] /\ new' = [new EXCEPT ![x] = None]
      /\ UNCHANGED <<services, invocations, invokers, iFreeInvocations, iFreeInvokers,
                     managerLock, scan, invokes, main>>
  BY Names DEF Invoke
<1>2. /\ i \in Invocations /\ i \notin Free \union Queued
      /\ \A y \in Clients : new[y] = i => y = x
      /\ \A w \in Workers : ~Works(w, i)
  BY <1>1, Taken
<1>3. /\ iWaitingInvocations' \in Seq(Invocations) /\ IsInjective(iWaitingInvocations')
      /\ Queued' = Queued \union {i}
  BY <1>2, AppendElements DEF Invoke, TypeOK, Placed, Queued
<1>4. TypeOK'
  BY <1>1, <1>3 DEF TypeOK, ClientPcs, WorkerPcs
<1>5. Shape'
  BY <1>1, Names DEF TypeOK, Shape, ClientPcs, InvokerPcs, WorkerPcs, Unused
<1> HIDE DEF i
<1>6. Placed'
  <2>1. \A w \in Workers, j \in Invocations : Works(w, j)' = Works(w, j)
    BY <1>1, Names DEF Works, TypeOK
  <2>2. Free' = Free /\ UNCHANGED iFreeInvocations
    BY <1>1 DEF Free
  <2>3. \A y \in Clients : new'[y] = IF y = x THEN None ELSE new[y]
    BY <1>1 DEF TypeOK
  <2>4. IsInjective(iFreeInvocations') /\ IsInjective(iWaitingInvocations')
        /\ Free' \intersect Queued' = {}
    BY <1>2, <1>3, <2>2 DEF Placed
  <2>5. ASSUME NEW y \in Clients, new'[y] # None
        PROVE  /\ new'[y] \notin Free' \union Queued'
               /\ \A z \in Clients : new'[z] = new'[y] => z = y
               /\ \A w \in Workers : ~Works(w, new[y])'
    <3>1. y # x /\ new'[y] = new[y] /\ new[y] # None /\ new[y] \in Invocations /\ new[y] # i
      BY <1>2, <2>3, <2>5 DEF TypeOK
    <3>2. \A w \in Workers : ~Works(w, new[y])'
      BY <2>1, <3>1 DEF Works, Placed
    <3> QED
      BY <1>3, <2>2, <2>3, <3>1, <3>2 DEF Placed
  <2>6. ASSUME NEW w \in Workers, NEW j \in Invocations, Works(w, j)'
        PROVE  j \notin Free' \union Queued' /\ \A v \in Workers : Works(v, j)' => v = w
    BY <1>2, <1>3, <2>1, <2>2, <2>6 DEF Placed
  <2>7. ASSUME NEW j \in Invocations
        PROVE  \/ j \in Free' \union Queued'
               \/ \E y \in Clients : new'[y] = j
               \/ \E w \in Workers : Works(w, j)'
    BY <1>3, <2>1, <2>2, <2>3 DEF Placed, i
  <2> QED
    BY <2>4, <2>5, <2>6, <2>7 DEF Placed
<1>7. InvokersPlaced' /\ ServiceKnown'
  BY <1>1, Names DEF TypeOK, InvokersPlaced, ServiceKnown, Free, Unused
<1>8. Interrupts'
  BY <1>1, Names DEF TypeOK, Interrupts, Leaving, ServiceOf
<1>9. PendingExact'
  <2>1. ASSUME NEW r \in Services
        PROVE  Counted(r)' = Counted(r) /\ Asking(r)' = Asking(r)
    BY <1>1, Names DEF Counted, Asking, Invoked, ServiceOf, TypeOK
  <2> QED
    BY <1>1, <2>1, StaysPending
<1>10. SignalMeansDone'
  BY <1>1, Names DEF SignalMeansDone, Leaving, ServiceOf, TypeOK
<1>11. InterruptReaches'
  BY <1>1, Names DEF InterruptReaches, ServiceOf, TypeOK
<1> QED
  BY <1>4, <1>5, <1>6, <1>7, <1>8, <1>9, <1>10, <1>11

(* A service begins to leave: the manager's thread signals for no service  *)
(* that is not leaving, so whoever is about to signal for it is an Invoker *)
(* that its destructor has still to come to.                               *)
LEMMA DeleteKeeps ==
  ASSUME IInv, NEW s \in Services, Delete(s)
  PROVE  IInv'
<1> USE DEF IInv, services, invocations, invokers, fifos, Goto
<1>1. /\ pc[s] = "idle" /\ s \in Threads /\ pc' = [pc EXCEPT ![s] = "interrupt"]
      /\ scan' = [scan EXCEPT ![s] = Invokers]
      /\ iInterrupt' = [iInterrupt EXCEPT ![s] = TRUE]
      /\ UNCHANGED <<iPendingInvocations, iShutdownSignal, invocations, invokers, fifos,
                     managerLock, new, invokes, main>>
  BY Names DEF Delete
<1>2. TypeOK'
  BY <1>1 DEF TypeOK, ClientPcs
<1>3. Shape'
  BY <1>1, Names DEF TypeOK, Shape, ClientPcs, InvokerPcs, WorkerPcs, Unused
<1>4. Placed'
  <2>1. \A w \in Workers, i \in Invocations : Works(w, i)' = Works(w, i)
    BY <1>1, Names DEF TypeOK, Works
  <2> QED
    BY <1>1, <2>1, StaysPlaced DEF TypeOK
<1>5. InvokersPlaced' /\ ServiceKnown'
  BY <1>1, Names DEF TypeOK, InvokersPlaced, ServiceKnown, Free, Unused
<1>6. Interrupts'
  <2>1. \A r \in Services : iInterrupt'[r] <=> Leaving(r)'
    BY <1>1, Names DEF TypeOK, Interrupts, Leaving
  <2>2. \A r \in Services : scan'[r] # {} => pc'[r] = "interrupt"
    BY <1>1, Names DEF TypeOK, Interrupts
  <2>3. pc'[Manager] \in {"callback", "count", "signal"} => iInterrupt'[ServiceOf(Manager)']
    BY <1>1, Names DEF TypeOK, Interrupts, ServiceOf
  <2>4. \A k \in Invokers : pc'[k] = "response" => iInterruptHandler'[iInvocation'[k]]
    BY <1>1, Names DEF TypeOK, Interrupts
  <2> QED
    BY <2>1, <2>2, <2>3, <2>4 DEF Interrupts
<1>7. PendingExact'
  <2>1. ASSUME NEW r \in Services
        PROVE  Counted(r)' = Counted(r) /\ Asking(r)' = Asking(r)
    BY <1>1, Names DEF Counted, Asking, Invoked, ServiceOf, TypeOK
  <2> QED
    BY <1>1, <2>1, StaysPending
<1>8. SignalMeansDone'
  <2>1. ~(pc[Manager] = "signal" /\ ServiceOf(Manager) = s)
    BY <1>1 DEF Interrupts, Leaving
  <2>2. \A w \in Workers : pc[w] = "signal" /\ ServiceOf(w) = s => w \in scan'[s]
    BY <1>1, <2>1, Names DEF TypeOK
  <2> QED
    BY <1>1, <2>2, Names DEF SignalMeansDone, Leaving, ServiceOf, TypeOK
<1>9. InterruptReaches'
  BY <1>1, Names DEF InterruptReaches, ServiceOf, TypeOK
<1> QED
  BY <1>2, <1>3, <1>4, <1>5, <1>6, <1>7, <1>8, <1>9

(* An Invoker whose lock is free is before its callback.                   *)
LEMMA InterruptKeeps ==
  ASSUME IInv, NEW s \in Services, NEW k \in Invokers, Interrupt(s, k)
  PROVE  IInv'
<1> USE DEF IInv, services, invocations, invokers, fifos
<1> DEFINE mine == {i \in {iInvocation[k]} \ {None} : iService[i] = s /\ iInterruptHandler[i]}
<1>1. /\ pc[s] = "interrupt" /\ k \in scan[s] /\ iLock[k] = None
      /\ scan' = [scan EXCEPT ![s] = @ \ {k}]
      /\ interrupted' = [i \in Invocations |-> interrupted[i] \/ i \in mine]
      /\ UNCHANGED <<services, iService, iInterruptHandler, invokers, fifos, managerLock, pc,
                     new, invokes, main>>
  BY DEF Interrupt
<1>2. TypeOK'
  <2>1. interrupted' \in [Invocations -> BOOLEAN]
    BY <1>1 DEF TypeOK
  <2>2. scan' \in [Services -> SUBSET Invokers]
    BY <1>1 DEF TypeOK
  <2> QED
    BY <1>1, <2>1, <2>2 DEF TypeOK
<1>3. Shape'
  BY <1>1 DEF Shape
<1>4. Placed'
  <2>1. \A w \in Workers, i \in Invocations : Works(w, i)' = Works(w, i)
    BY <1>1 DEF Works
  <2> QED
    BY <1>1, <2>1, StaysPlaced DEF TypeOK
<1>5. InvokersPlaced' /\ ServiceKnown'
  BY <1>1 DEF InvokersPlaced, ServiceKnown, Free
<1>6. Interrupts'
  <2>1. \A r \in Services : scan'[r] # {} => pc'[r] = "interrupt"
    BY <1>1 DEF TypeOK, Interrupts
  <2> QED
    BY <1>1, <2>1 DEF Interrupts, Leaving, ServiceOf
<1>7. PendingExact'
  BY <1>1, StaysPending DEF Counted, Asking, Invoked, ServiceOf
<1>8. SignalMeansDone'
  <2>1. pc[k] # "signal"
    BY <1>1, Names DEF Shape, Unused
  <2>2. \A r \in Services, w \in Workers : w # k => (w \in scan'[r] <=> w \in scan[r])
    BY <1>1 DEF TypeOK
  <2> QED
    BY <1>1, <2>1, <2>2 DEF SignalMeansDone, Leaving, ServiceOf
<1>9. InterruptReaches'
  <2> SUFFICES ASSUME NEW j \in Invokers, pc[j] = "response"
               PROVE  \/ interrupted'[iInvocation[j]]
                      \/ pc[ServiceOf(j)] \notin {"interrupt", "wait", "gone"}
                      \/ j \in scan'[ServiceOf(j)]
    BY <1>1 DEF InterruptReaches, ServiceOf
  <2>1. iInvocation[j] \in Invocations /\ ServiceOf(j) \in Services /\ iInterruptHandler[iInvocation[j]]
    BY AtWork, Names DEF Unused, Interrupts
  <2>2. CASE j = k /\ ServiceOf(j) = s
    BY <1>1, <2>1, <2>2, Names DEF ServiceOf
  <2>3. CASE ~(j = k /\ ServiceOf(j) = s)
    <3>1. j \in scan[ServiceOf(j)] => j \in scan'[ServiceOf(j)]
      BY <1>1, <2>1, <2>3 DEF TypeOK
    <3>2. interrupted[iInvocation[j]] => interrupted'[iInvocation[j]]
      BY <1>1, <2>1
    <3> QED
      BY <3>1, <3>2 DEF InterruptReaches
  <2> QED
    BY <2>2, <2>3
<1> QED
  BY <1>2, <1>3, <1>4, <1>5, <1>6, <1>7, <1>8, <1>9

(* The destructor waits with its signal cleared, or is through.            *)
LEMMA CheckPendingKeeps ==
  ASSUME IInv, NEW s \in Services, CheckPending(s)
  PROVE  IInv'
<1> USE DEF IInv, services, invocations, invokers, fifos, clients, Goto
<1> DEFINE l == IF iPendingInvocations[s] > 0 THEN "wait" ELSE "gone"
<1>1. /\ pc[s] = "interrupt" /\ scan[s] = {} /\ s \in Threads /\ pc' = [pc EXCEPT ![s] = l]
      /\ iShutdownSignal' = [iShutdownSignal EXCEPT ![s] = 0]
      /\ UNCHANGED <<iPendingInvocations, iInterrupt, invocations, invokers, fifos, managerLock,
                     clients, main>>
  BY Names DEF CheckPending
<1>2. l \in {"wait", "gone"} /\ (l = "gone" => iPendingInvocations[s] = 0)
  BY DEF TypeOK
<1> HIDE DEF l
<1>3. TypeOK'
  BY <1>1, <1>2 DEF TypeOK, ClientPcs
<1>4. Shape'
  BY <1>1, <1>2, Names DEF TypeOK, Shape, ClientPcs, InvokerPcs, WorkerPcs, Unused
<1>5. Placed'
  <2>1. \A w \in Workers, i \in Invocations : Works(w, i)' = Works(w, i)
    BY <1>1, Names DEF TypeOK, Works
  <2> QED
    BY <1>1, <2>1, StaysPlaced DEF TypeOK
<1>6. InvokersPlaced' /\ ServiceKnown'
  BY <1>1, Names DEF TypeOK, InvokersPlaced, ServiceKnown, Free, Unused
<1>7. Interrupts'
  BY <1>1, <1>2, Names DEF TypeOK, Interrupts, Leaving, ServiceOf
<1>8. PendingExact'
  <2>1. ASSUME NEW r \in Services
        PROVE  Counted(r)' = Counted(r) /\ Asking(r)' = Asking(r)
    BY <1>1, <1>2, Names DEF Counted, Asking, Invoked, ServiceOf, TypeOK
  <2> QED
    BY <1>1, <2>1, StaysPending
<1>9. SignalMeansDone'
  BY <1>1, <1>2, Names DEF SignalMeansDone, Leaving, ServiceOf, TypeOK
<1>10. InterruptReaches'
  BY <1>1, <1>2, Names DEF InterruptReaches, ServiceOf, TypeOK
<1> QED
  BY <1>3, <1>4, <1>5, <1>6, <1>7, <1>8, <1>9, <1>10

LEMMA ShutdownWaitKeeps ==
  ASSUME IInv, NEW s \in Services, ShutdownWait(s)
  PROVE  IInv'
<1> USE DEF IInv, services, invocations, invokers, fifos, clients, Goto
<1>1. /\ pc[s] = "wait" /\ iShutdownSignal[s] > 0 /\ s \in Threads
      /\ pc' = [pc EXCEPT ![s] = "gone"]
      /\ iShutdownSignal' = [iShutdownSignal EXCEPT ![s] = @ - 1]
      /\ UNCHANGED <<iPendingInvocations, iInterrupt, invocations, invokers, fifos, managerLock,
                     clients, main>>
  BY Names DEF ShutdownWait
<1>2. TypeOK'
  BY <1>1 DEF TypeOK, ClientPcs
<1>3. Shape'
  BY <1>1, Names DEF TypeOK, Shape, ClientPcs, InvokerPcs, WorkerPcs, Unused
<1>4. Placed'
  <2>1. \A w \in Workers, i \in Invocations : Works(w, i)' = Works(w, i)
    BY <1>1, Names DEF TypeOK, Works
  <2> QED
    BY <1>1, <2>1, StaysPlaced DEF TypeOK
<1>5. InvokersPlaced' /\ ServiceKnown'
  BY <1>1, Names DEF TypeOK, InvokersPlaced, ServiceKnown, Free, Unused
<1>6. Interrupts'
  BY <1>1, Names DEF TypeOK, Interrupts, Leaving, ServiceOf
<1>7. PendingExact'
  <2>1. ASSUME NEW r \in Services
        PROVE  Counted(r)' = Counted(r) /\ Asking(r)' = Asking(r)
    BY <1>1, Names DEF Counted, Asking, Invoked, ServiceOf, TypeOK
  <2> QED
    BY <1>1, <2>1, StaysPending
<1>8. SignalMeansDone'
  BY <1>1, Names DEF SignalMeansDone, Leaving, ServiceOf, TypeOK
<1>9. InterruptReaches'
  BY <1>1, Names DEF InterruptReaches, ServiceOf, TypeOK
<1> QED
  BY <1>2, <1>3, <1>4, <1>5, <1>6, <1>7, <1>8, <1>9

(* The manager's thread has the invocation that was queued first.          *)
LEMMA TakeWaitingKeeps ==
  ASSUME IInv, TakeWaiting
  PROVE  IInv'
<1> USE DEF IInv, services, invocations, invokers, fifos, clients, Goto
<1>0. PICK i \in Invocations : i = Head(iWaitingInvocations)
  BY TailElements DEF TakeWaiting, TypeOK
<1> DEFINE l == IF iInterrupt[iService[i]] THEN "callback" ELSE "invoker"
<1>1. /\ pc[Manager] = "wait" /\ Manager \in Workers
      /\ pc' = [pc EXCEPT ![Manager] = l] /\ iInvocation' = [iInvocation EXCEPT ![Manager] = i]
      /\ UNCHANGED <<services, invocations, iLock, iFreeInvocations, iFreeInvokers, managerLock,
                     clients, main>>
  BY <1>0, Names DEF TakeWaiting
<1>2. /\ i \in Queued /\ i # None
      /\ iWaitingInvocations' \in Seq(Invocations) /\ IsInjective(iWaitingInvocations')
      /\ Queued' = Queued \ {i}
  BY <1>0, TailElements, Names DEF TakeWaiting, TypeOK, Placed, Queued
<1>3. i \notin Free /\ iService[i] \in Services
  BY <1>2 DEF Placed, ServiceKnown, TypeOK
<1>4. l \in {"callback", "invoker"} /\ (l = "callback" => iInterrupt[iService[i]])
  OBVIOUS
<1>5. TypeOK'
  BY <1>1, <1>2, <1>4, Names DEF TypeOK, WorkerPcs
<1> HIDE DEF l
<1>6. Shape'
  BY <1>1, <1>2, <1>4, Names DEF TypeOK, Shape, ManagerPcs, Unused
<1>7. Placed'
  <2>1. iInvocation[Manager] = None
    BY <1>1 DEF Shape, Unused
  <2>2. /\ Works(Manager, i)'
        /\ \A w \in Workers, j \in Invocations : w # Manager => Works(w, j)' = Works(w, j)
        /\ \A j \in Invocations : ~Works(Manager, j) /\ (j # i => ~Works(Manager, j)')
    BY <1>1, <1>4, <2>1, Names DEF Works, TypeOK
  <2>3. Free' = Free /\ new' = new /\ UNCHANGED iFreeInvocations
    BY <1>1 DEF Free
  <2>4. (\A w \in Workers : ~Works(w, i)) /\ \A y \in Clients : new[y] # i
    BY <1>2 DEF Placed
  <2>5. IsInjective(iFreeInvocations') /\ IsInjective(iWaitingInvocations')
        /\ Free' \intersect Queued' = {}
    BY <1>2, <2>3 DEF Placed
  <2>6. ASSUME NEW y \in Clients, new[y] # None
        PROVE  /\ new[y] \notin Free' \union Queued'
               /\ \A z \in Clients : new[z] = new[y] => z = y
               /\ \A w \in Workers : ~Works(w, new[y])'
    <3>1. new[y] \in Invocations /\ new[y] # i
      BY <2>4, <2>6 DEF TypeOK
    <3>2. \A w \in Workers : ~(iInvocation'[w] = new[y] /\ pc'[w] # "return")
      BY <2>2, <2>6, <3>1 DEF Works, Placed
    <3> QED
      BY <1>2, <2>3, <2>6, <3>2 DEF Placed, Works
  <2>7. ASSUME NEW w \in Workers, NEW j \in Invocations, Works(w, j)'
        PROVE  j \notin Free' \union Queued' /\ \A v \in Workers : Works(v, j)' => v = w
    <3>1. CASE j = i
      BY <1>1, <1>2, <1>3, <2>2, <2>3, <2>4, <2>7, <3>1
    <3>2. CASE j # i
      BY <1>2, <2>2, <2>3, <2>7, <3>2 DEF Placed
    <3> QED
      BY <3>1, <3>2
  <2>8. ASSUME NEW j \in Invocations
        PROVE  \/ j \in Free' \union Queued'
               \/ \E y \in Clients : new[y] = j
               \/ \E w \in Workers : Works(w, j)'
    BY <1>1, <1>2, <2>2, <2>3 DEF Placed
  <2> QED
    BY <2>3, <2>5, <2>6, <2>7, <2>8 DEF Placed
<1>8. InvokersPlaced' /\ ServiceKnown'
  BY <1>1, Names DEF TypeOK, InvokersPlaced, ServiceKnown, Free, Unused
<1>9. /\ ServiceOf(Manager)' = iService[i]
      /\ \A w \in Workers : w # Manager => pc'[w] = pc[w] /\ ServiceOf(w)' = ServiceOf(w)
  BY <1>1, Names DEF ServiceOf, TypeOK
<1>10. Interrupts'
  <2>1. \A r \in Services : (iInterrupt'[r] <=> Leaving(r)') /\ (scan'[r] # {} => pc'[r] = "interrupt")
    BY <1>1, Names DEF TypeOK, Interrupts, Leaving
  <2>2. pc'[Manager] \in {"callback", "count", "signal"} => iInterrupt'[ServiceOf(Manager)']
    BY <1>1, <1>4, <1>9, Names DEF TypeOK
  <2>3. \A k \in Invokers : pc'[k] = "response" => iInterruptHandler'[iInvocation'[k]]
    BY <1>1, Names DEF TypeOK, Interrupts
  <2> QED
    BY <2>1, <2>2, <2>3 DEF Interrupts
<1>11. PendingExact'
  <2>1. ASSUME NEW r \in Services
        PROVE  Counted(r)' = Counted(r) /\ Asking(r)' = Asking(r)
    <3>1. Counted(r)' = Counted(r)
      BY <1>1, <1>4, <1>9, Names DEF Counted, TypeOK
    <3>2. Asking(r)' = Asking(r)
      BY <1>1, <1>4, <1>9, Names DEF Asking, Invoked, TypeOK
    <3> QED
      BY <3>1, <3>2
  <2> QED
    BY <1>1, <2>1, StaysPending
<1>12. SignalMeansDone'
  BY <1>1, <1>4, <1>9, Names DEF SignalMeansDone, Leaving, TypeOK
<1>13. InterruptReaches'
  BY <1>1, <1>4, Names DEF InterruptReaches, ServiceOf, TypeOK
<1> QED
  BY <1>5, <1>6, <1>7, <1>8, <1>10, <1>11, <1>12, <1>13

(* A free Invoker has no invocation until it is given one.                 *)
LEMMA TakeInvokerKeeps ==
  ASSUME IInv, TakeInvoker
  PROVE  IInv'
<1> USE DEF IInv, services, invocations, invokers, fifos, clients, Goto
<1>0. PICK k \in Invokers : k = Head(iFreeInvokers)
  BY TailElements DEF TakeInvoker, TypeOK
<1>i. PICK i \in Invocations : i = iInvocation[Manager]
  BY AtWork, Names DEF TakeInvoker, Unused
<1>1. /\ pc[Manager] = "invoker" /\ Manager \in Workers /\ iLock[k] = None
      /\ iInvocation' = [iInvocation EXCEPT ![k] = i, ![Manager] = None]
      /\ pc' = [pc EXCEPT ![Manager] = "wait", ![k] = "request"]
      /\ UNCHANGED <<services, invocations, iLock, iFreeInvocations, iWaitingInvocations,
                     managerLock, clients, main>>
  BY <1>0, <1>i, Names DEF TakeInvoker
<1>2. /\ k \in Range(iFreeInvokers)
      /\ iFreeInvokers' \in Seq(Invokers) /\ IsInjective(iFreeInvokers')
      /\ Range(iFreeInvokers') = Range(iFreeInvokers) \ {k}
  BY <1>0, TailElements DEF TakeInvoker, TypeOK, InvokersPlaced
<1>3. pc[k] \in Unused /\ k \in Workers /\ k # Manager
  BY <1>2, Names DEF InvokersPlaced
<1>4. iInvocation[k] = None
  BY <1>3 DEF Shape
<1>5. Works(Manager, i) /\ ServiceOf(Manager) \in Services
  BY <1>i, <1>1, AtWork DEF Unused
<1>6. TypeOK'
  BY <1>1, <1>2, <1>5 DEF TypeOK, WorkerPcs
<1>7. /\ iInvocation'[k] = i /\ pc'[k] = "request"
      /\ iInvocation'[Manager] = None /\ pc'[Manager] = "wait"
      /\ \A w \in Threads : w # k /\ w # Manager => pc'[w] = pc[w]
      /\ \A w \in Workers : w # k /\ w # Manager => iInvocation'[w] = iInvocation[w]
  BY <1>1, <1>3, Names DEF TypeOK
<1>8. Shape'
  <2>1. \A s \in Services : pc'[s] \in ClientPcs
    BY <1>3, <1>7, Names DEF Shape
  <2>2. \A w \in Invokers : pc'[w] \in InvokerPcs
    BY <1>7, Names DEF Shape, InvokerPcs, WorkerPcs
  <2>3. \A w \in Invokers :
          iLock'[w] = IF pc'[w] \in Unused \union {"request", "response"} THEN None ELSE w
    BY <1>1, <1>7, Names DEF Shape
  <2>4. \A w \in Workers : iInvocation'[w] = None <=> pc'[w] \in Unused
    BY <1>5, <1>7, Names DEF Shape, Unused
  <2>5. \A x \in Clients : new'[x] = None <=> pc'[x] # "invoke"
    <3>1. \A x \in Clients : pc'[x] # "invoke" <=> pc[x] # "invoke"
      BY <1>3, <1>7, Names DEF Unused
    <3> QED
      BY <1>1, <3>1 DEF Shape
  <2> QED
    BY <1>7, <2>1, <2>2, <2>3, <2>4, <2>5 DEF Shape, ManagerPcs
<1>9. Placed'
  <2>1. /\ Works(k, i)'
        /\ \A j \in Invocations : ~Works(Manager, j)' /\ (j # i => ~Works(k, j)')
        /\ \A j \in Invocations : (Works(Manager, j) => j = i) /\ ~Works(k, j)
        /\ \A w \in Workers, j \in Invocations :
             w # k /\ w # Manager => Works(w, j)' = Works(w, j)
    BY <1>i, <1>4, <1>7, Names DEF Works
  <2>2. \A w \in Workers : Works(w, i)' => w = k
    BY <1>1, <1>5, <2>1 DEF Placed
  <2>3. Free' = Free /\ Queued' = Queued
        /\ UNCHANGED <<iFreeInvocations, iWaitingInvocations, new>>
    BY <1>1 DEF Free, Queued
  <2>4. i \notin Free \union Queued /\ \A y \in Clients : new[y] # i
    BY <1>1, <1>5, Names DEF Placed
  <2>5. ASSUME NEW y \in Clients, new[y] # None
        PROVE  \A w \in Workers : ~Works(w, new[y])'
    <3>1. new[y] \in Invocations /\ new[y] # i
      BY <2>4, <2>5 DEF TypeOK
    <3>2. \A w \in Workers : ~(iInvocation'[w] = new[y] /\ pc'[w] # "return")
      BY <2>1, <2>5, <3>1 DEF Works, Placed
    <3> QED
      BY <2>3, <3>2 DEF Works
  <2>6. ASSUME NEW w \in Workers, NEW j \in Invocations, Works(w, j)'
        PROVE  j \notin Free \union Queued /\ \A v \in Workers : Works(v, j)' => v = w
    <3>1. CASE j = i
      BY <2>2, <2>4, <2>6, <3>1
    <3>2. CASE j # i
      BY <2>1, <2>6, <3>2 DEF Placed
    <3> QED
      BY <3>1, <3>2
  <2>7. ASSUME NEW j \in Invocations
        PROVE  \/ j \in Free \union Queued
               \/ \E y \in Clients : new[y] = j
               \/ \E w \in Workers : Works(w, j)'
    BY <1>3, <2>1 DEF Placed
  <2> QED
    BY <2>3, <2>5, <2>6, <2>7 DEF Placed
<1>10. InvokersPlaced' /\ ServiceKnown'
  BY <1>1, <1>2, <1>7, Names DEF InvokersPlaced, ServiceKnown, Free, Unused
<1>11. \A w \in Workers : w # k /\ w # Manager => ServiceOf(w)' = ServiceOf(w)
  BY <1>1, <1>7 DEF ServiceOf
<1>12. Interrupts'
  <2>1. \A r \in Services : pc'[r] = pc[r]
    BY <1>2, <1>7, Names
  <2>2. \A w \in Invokers : pc'[w] = "response" => iInterruptHandler'[iInvocation'[w]]
    BY <1>1, <1>7, Names DEF Interrupts
  <2>3. \A r \in Services : (iInterrupt'[r] <=> Leaving(r)') /\ (scan'[r] # {} => pc'[r] = "interrupt")
    BY <1>1, <2>1 DEF Interrupts, Leaving
  <2> QED
    BY <1>7, <2>2, <2>3 DEF Interrupts
<1>13. PendingExact'
  <2>1. ASSUME NEW r \in Services
        PROVE  Counted(r)' = Counted(r) /\ Asking(r)' = Asking(r)
    <3>1. Counted(r)' = Counted(r)
      BY <1>1, <1>3, <1>7, <1>11, Names DEF Counted, Unused
    <3>2. Asking(r)' = Asking(r)
      BY <1>1, <1>2, <1>3, <1>7, <1>11, Names, ZenonT(60) DEF Asking, Invoked, Unused
    <3> QED
      BY <3>1, <3>2
  <2> QED
    BY <1>1, <2>1, StaysPending
<1>14. SignalMeansDone'
  <2>1. \A r \in Services : pc'[r] = pc[r]
    BY <1>2, <1>7, Names
  <2> QED
    BY <1>1, <1>7, <1>11, <2>1, Names, ZenonT(30) DEF SignalMeansDone, Leaving
<1>15. InterruptReaches'
  <2> SUFFICES ASSUME NEW j \in Invokers, pc'[j] = "response"
               PROVE  \/ interrupted'[iInvocation'[j]]
                      \/ pc'[ServiceOf(j)'] \notin {"interrupt", "wait", "gone"}
                      \/ j \in scan'[ServiceOf(j)']
    BY DEF InterruptReaches
  <2>1. j # k /\ j # Manager /\ pc[j] = "response" /\ ServiceOf(j)' = ServiceOf(j)
        /\ iInvocation'[j] = iInvocation[j]
    BY <1>7, <1>11, Names
  <2>2. ServiceOf(j) \in Services /\ pc'[ServiceOf(j)] = pc[ServiceOf(j)]
    BY <1>2, <1>7, <2>1, AtWork, Names DEF Unused
  <2> QED
    BY <1>1, <2>1, <2>2 DEF InterruptReaches
<1> QED
  BY <1>6, <1>8, <1>9, <1>10, <1>12, <1>13, <1>14, <1>15

(* A request goes out, with the handler in place and told at once when its *)
(* service is leaving already, or it fails.                                *)
LEMMA RequestKeeps ==
  ASSUME IInv, NEW k \in Invokers, Request(k)
  PROVE  IInv'
<1> USE DEF IInv, services, invocations, invokers, fifos, clients, Goto
<1>i. PICK i \in Invocations :
        i = iInvocation[k] /\ ServiceOf(k) \in Services /\ \A v \in Workers : Works(v, i) => v = k
  BY AtWork, Names DEF Request, Unused
<1>l. PICK l \in {"response", "callback"} :
        /\ pc' = [pc EXCEPT ![k] = l]
        /\ l = "response" =>
             /\ iInterruptHandler' = [iInterruptHandler EXCEPT ![i] = TRUE]
             /\ interrupted' = [interrupted EXCEPT ![i] = iInterrupt[ServiceOf(k)]]
             /\ UNCHANGED iLock
        /\ l = "callback" =>
             UNCHANGED <<iInterruptHandler, interrupted>> /\ iLock' = [iLock EXCEPT ![k] = k]
  BY <1>i DEF Request, SetInterruptHandler, Complete
<1>1. /\ pc[k] = "request" /\ k \in Workers /\ k \in Clients /\ k \in Threads /\ k # Manager
      /\ UNCHANGED <<services, iService, iInvocation, fifos, managerLock, clients, main>>
  BY Names DEF Request
<1>2. TypeOK'
  <2>1. pc' \in [Threads -> ClientPcs \union WorkerPcs]
    BY <1>l DEF TypeOK, WorkerPcs
  <2>2. /\ iInterruptHandler' \in [Invocations -> BOOLEAN]
        /\ interrupted' \in [Invocations -> BOOLEAN]
    BY <1>i, <1>l DEF TypeOK
  <2>3. iLock' \in [Invokers -> Invokers \union {None}]
    BY <1>l DEF TypeOK
  <2> QED
    BY <1>1, <2>1, <2>2, <2>3 DEF TypeOK
<1>3. Shape'
  <2>1. \A j \in Invokers : pc'[j] \in InvokerPcs
    BY <1>1, <1>l DEF Shape, TypeOK, InvokerPcs, WorkerPcs
  <2>2. \A j \in Invokers :
          iLock'[j] = IF pc'[j] \in Unused \union {"request", "response"} THEN None ELSE j
    BY <1>1, <1>l DEF Shape, TypeOK, Unused
  <2>3. (\A s \in Services : pc'[s] \in ClientPcs) /\ pc'[Manager] \in ManagerPcs
    BY <1>1, <1>l, Names DEF Shape, TypeOK
  <2>4. \A w \in Workers : iInvocation'[w] = None <=> pc'[w] \in Unused
    BY <1>1, <1>l, Names DEF Shape, TypeOK, Unused
  <2>5. \A x \in Clients : new'[x] = None <=> pc'[x] # "invoke"
    BY <1>1, <1>l, Names DEF Shape, TypeOK
  <2> QED
    BY <2>1, <2>2, <2>3, <2>4, <2>5 DEF Shape
<1>4. Placed'
  <2>1. \A w \in Workers, j \in Invocations : Works(w, j)' = Works(w, j)
    BY <1>1, <1>l, Names DEF TypeOK, Works
  <2> QED
    BY <1>1, <2>1, StaysPlaced DEF TypeOK
<1>5. InvokersPlaced' /\ ServiceKnown'
  BY <1>1, <1>l, Names DEF TypeOK, InvokersPlaced, ServiceKnown, Free, Unused
<1>6. Interrupts'
  <2>1. \A r \in Services : (iInterrupt'[r] <=> Leaving(r)') /\ (scan'[r] # {} => pc'[r] = "interrupt")
    BY <1>1, <1>l, Names DEF TypeOK, Interrupts, Leaving
  <2>2. pc'[Manager] \in {"callback", "count", "signal"} => iInterrupt'[ServiceOf(Manager)']
    BY <1>1, <1>l, Names DEF TypeOK, Interrupts, ServiceOf
  <2>3. \A j \in Invokers : pc'[j] = "response" => iInterruptHandler'[iInvocation'[j]]
    <3>1. \A j \in Invokers : j # k /\ pc[j] = "response" => iInvocation[j] \in Invocations
      BY AtWork, Names DEF Unused
    <3> QED
      BY <1>i, <1>1, <1>l, <3>1, Names, ZenonT(60) DEF TypeOK, Interrupts
  <2> QED
    BY <2>1, <2>2, <2>3 DEF Interrupts
<1>7. PendingExact'
  <2>1. ASSUME NEW r \in Services
        PROVE  Counted(r)' = Counted(r) /\ Asking(r)' = Asking(r)
    BY <1>1, <1>l, Names DEF Counted, Asking, Invoked, ServiceOf, TypeOK
  <2> QED
    BY <1>1, <2>1, StaysPending
<1>8. SignalMeansDone'
  BY <1>1, <1>l, Names DEF SignalMeansDone, Leaving, ServiceOf, TypeOK
<1>9. InterruptReaches'
  <2> SUFFICES ASSUME NEW j \in Invokers, pc'[j] = "response"
               PROVE  \/ interrupted'[iInvocation[j]]
                      \/ pc'[ServiceOf(j)] \notin {"interrupt", "wait", "gone"}
                      \/ j \in scan'[ServiceOf(j)]
    BY <1>1 DEF InterruptReaches, ServiceOf
  <2>1. CASE j = k
    <3>1. interrupted'[i] = iInterrupt[ServiceOf(k)]
      BY <1>i, <1>l, <2>1, <1>1 DEF TypeOK
    <3>2. pc'[ServiceOf(k)] = pc[ServiceOf(k)] /\ (iInterrupt[ServiceOf(k)] <=> Leaving(ServiceOf(k)))
      BY <1>i, <1>1, <1>l, Names DEF TypeOK, Interrupts
    <3> QED
      BY <1>i, <2>1, <3>1, <3>2 DEF Leaving
  <2>2. CASE j # k
    <3>1. pc[j] = "response"
      BY <1>1, <1>l, <2>2, Names DEF TypeOK
    <3>2. iInvocation[j] \in Invocations /\ ServiceOf(j) \in Services /\ iInvocation[j] # i
      BY <1>i, <2>2, <3>1, AtWork, Names DEF Unused
    <3>3. interrupted'[iInvocation[j]] = interrupted[iInvocation[j]] /\ pc'[ServiceOf(j)] = pc[ServiceOf(j)]
      BY <1>1, <1>l, <3>2, Names DEF TypeOK
    <3> QED
      BY <1>1, <3>1, <3>3 DEF InterruptReaches
  <2> QED
    BY <2>1, <2>2
<1> QED
  BY <1>2, <1>3, <1>4, <1>5, <1>6, <1>7, <1>8, <1>9

LEMMA ResponseKeeps ==
  ASSUME IInv, NEW k \in Invokers, Response(k)
  PROVE  IInv'
<1> USE DEF IInv, services, invocations, invokers, fifos, clients, Goto
<1>i. PICK i \in Invocations :
        i = iInvocation[k] /\ \A v \in Workers : Works(v, i) => v = k
  BY AtWork, Names DEF Response, Unused
<1>1. /\ pc[k] = "response" /\ k \in Workers /\ k \in Clients /\ k \in Threads /\ k # Manager
      /\ pc' = [pc EXCEPT ![k] = "callback"] /\ iLock' = [iLock EXCEPT ![k] = k]
      /\ iInterruptHandler' = [iInterruptHandler EXCEPT ![i] = FALSE]
      /\ UNCHANGED <<services, iService, interrupted, iInvocation, fifos, managerLock, clients, main>>
  BY <1>i, Names DEF Response, Complete
<1>2. TypeOK'
  BY <1>1 DEF TypeOK, WorkerPcs
<1>3. Shape'
  <2>1. \A j \in Invokers :
          /\ pc'[j] \in InvokerPcs
          /\ iLock'[j] = IF pc'[j] \in Unused \union {"request", "response"} THEN None ELSE j
    BY <1>1 DEF Shape, TypeOK, InvokerPcs, WorkerPcs, Unused
  <2>2. (\A s \in Services : pc'[s] \in ClientPcs) /\ pc'[Manager] \in ManagerPcs
    BY <1>1, Names DEF Shape, TypeOK
  <2>3. \A w \in Workers : iInvocation'[w] = None <=> pc'[w] \in Unused
    BY <1>1, Names DEF Shape, TypeOK, Unused
  <2>4. \A x \in Clients : new'[x] = None <=> pc'[x] # "invoke"
    BY <1>1, Names DEF Shape, TypeOK
  <2> QED
    BY <2>1, <2>2, <2>3, <2>4 DEF Shape
<1>4. Placed'
  <2>1. \A w \in Workers, j \in Invocations : Works(w, j)' = Works(w, j)
    BY <1>1, Names DEF TypeOK, Works
  <2> QED
    BY <1>1, <2>1, StaysPlaced DEF TypeOK
<1>5. InvokersPlaced' /\ ServiceKnown'
  BY <1>1, Names DEF TypeOK, InvokersPlaced, ServiceKnown, Free, Unused
<1>6. Interrupts'
  <2>1. \A r \in Services : (iInterrupt'[r] <=> Leaving(r)') /\ (scan'[r] # {} => pc'[r] = "interrupt")
    BY <1>1, Names DEF TypeOK, Interrupts, Leaving
  <2>2. pc'[Manager] \in {"callback", "count", "signal"} => iInterrupt'[ServiceOf(Manager)']
    BY <1>1, Names DEF TypeOK, Interrupts, ServiceOf
  <2>3. ASSUME NEW j \in Invokers, pc'[j] = "response"
        PROVE  iInterruptHandler'[iInvocation'[j]]
    <3>1. j # k /\ pc[j] = "response"
      BY <1>1, <2>3, Names DEF TypeOK
    <3>2. iInvocation[j] \in Invocations /\ iInvocation[j] # i
      BY <1>i, <3>1, AtWork, Names DEF Unused
    <3> QED
      BY <1>1, <3>1, <3>2 DEF TypeOK, Interrupts
  <2> QED
    BY <2>1, <2>2, <2>3 DEF Interrupts
<1>7. PendingExact'
  <2>1. ASSUME NEW r \in Services
        PROVE  Counted(r)' = Counted(r) /\ Asking(r)' = Asking(r)
    BY <1>1, Names DEF Counted, Asking, Invoked, ServiceOf, TypeOK
  <2> QED
    BY <1>1, <2>1, StaysPending
<1>8. SignalMeansDone'
  BY <1>1, Names DEF SignalMeansDone, Leaving, ServiceOf, TypeOK
<1>9. InterruptReaches'
  BY <1>1, Names DEF InterruptReaches, ServiceOf, TypeOK
<1> QED
  BY <1>2, <1>3, <1>4, <1>5, <1>6, <1>7, <1>8, <1>9

LEMMA CallbackKeeps ==
  ASSUME IInv, NEW w \in Workers, Callback(w)
  PROVE  IInv'
<1> USE DEF IInv, services, invocations, invokers, fifos, clients, Goto
<1>1. /\ pc[w] = "callback" /\ w \in Threads /\ pc' = [pc EXCEPT ![w] = "count"]
      /\ UNCHANGED <<services, invocations, invokers, fifos, managerLock, clients, main>>
  BY Names DEF Callback
<1>2. TypeOK'
  BY <1>1 DEF TypeOK, WorkerPcs
<1>3. Shape'
  BY <1>1, Names DEF TypeOK, Shape, InvokerPcs, ManagerPcs, WorkerPcs, Unused
<1>4. Placed'
  <2>1. \A v \in Workers, j \in Invocations : Works(v, j)' = Works(v, j)
    BY <1>1, Names DEF TypeOK, Works
  <2> QED
    BY <1>1, <2>1, StaysPlaced DEF TypeOK
<1>5. InvokersPlaced' /\ ServiceKnown'
  BY <1>1, Names DEF TypeOK, InvokersPlaced, ServiceKnown, Free, Unused
<1>6. Interrupts'
  BY <1>1, Names DEF TypeOK, Interrupts, Leaving, ServiceOf
<1>7. PendingExact'
  <2>1. ASSUME NEW r \in Services
        PROVE  Counted(r)' = Counted(r) /\ Asking(r)' = Asking(r)
    BY <1>1, Names DEF Counted, Asking, Invoked, ServiceOf, TypeOK
  <2> QED
    BY <1>1, <2>1, StaysPending
<1>8. SignalMeansDone'
  BY <1>1, Names DEF SignalMeansDone, Leaving, ServiceOf, TypeOK
<1>9. InterruptReaches'
  BY <1>1, Names DEF InterruptReaches, ServiceOf, TypeOK
<1> QED
  BY <1>2, <1>3, <1>4, <1>5, <1>6, <1>7, <1>8, <1>9

(* The count goes down, and whoever takes it to 0 is to signal.            *)
LEMMA InvocationCompletedKeeps ==
  ASSUME IInv, NEW w \in Workers, InvocationCompleted(w)
  PROVE  IInv'
<1> USE DEF IInv, services, invocations, invokers, fifos, clients, Goto
<1>s. PICK s \in Services : s = ServiceOf(w) /\ iPendingInvocations[s] > 0
  BY CountedOnce DEF InvocationCompleted, Unused
<1> DEFINE l == IF iPendingInvocations[s] = 1 THEN "signal" ELSE "clear"
<1>1. /\ pc[w] = "count" /\ w \in Threads /\ pc' = [pc EXCEPT ![w] = l]
      /\ iPendingInvocations' = [iPendingInvocations EXCEPT ![s] = @ - 1]
      /\ UNCHANGED <<iInterrupt, iShutdownSignal, invocations, invokers, fifos, managerLock, clients, main>>
  BY <1>s, Names DEF InvocationCompleted
<1>2. /\ l \in {"signal", "clear"} /\ (l = "signal" <=> iPendingInvocations[s] = 1)
      /\ iPendingInvocations[s] \in Nat
  BY DEF TypeOK
<1> HIDE DEF l
<1>3. TypeOK'
  BY <1>s, <1>1, <1>2 DEF TypeOK, WorkerPcs
<1>4. Shape'
  BY <1>1, <1>2, Names, SMTT(30) DEF TypeOK, Shape, InvokerPcs, ManagerPcs, WorkerPcs, Unused
<1>5. Placed'
  <2>1. \A v \in Workers, j \in Invocations : Works(v, j)' = Works(v, j)
    BY <1>1, <1>2, Names DEF TypeOK, Works
  <2> QED
    BY <1>1, <2>1, StaysPlaced DEF TypeOK
<1>6. InvokersPlaced' /\ ServiceKnown'
  BY <1>1, <1>2, Names DEF TypeOK, InvokersPlaced, ServiceKnown, Free, Unused
<1>7. Interrupts'
  BY <1>1, <1>2, Names DEF TypeOK, Interrupts, Leaving, ServiceOf
<1>8. PendingExact'
  <2> SUFFICES ASSUME NEW r \in Services
               PROVE  (iPendingInvocations[r] + Cardinality(Counted(r))
                         = Cardinality(Asking(r)) + Cardinality(Owned(r)))'
    BY DEF PendingExact
  <2>1. Asking(r)' = Asking(r) /\ Owned(r)' = Owned(r)
    BY <1>1, <1>2, Names DEF Asking, Owned, Invoked, ServiceOf, TypeOK
  <2>2. /\ Counted(r)' \ {w} = Counted(r) \ {w}
        /\ w \notin Counted(r)
        /\ w \in Counted(r)' <=> s = r
    BY <1>s, <1>1, <1>2, Names DEF Counted, ServiceOf, TypeOK
  <2>3. Cardinality(Counted(r)') = Cardinality(Counted(r)) + (IF s = r THEN 1 ELSE 0)
    BY <2>2, CardinalityStep, CountsFinite
  <2>4. /\ iPendingInvocations[r] \in Nat
        /\ iPendingInvocations'[r] = iPendingInvocations[r] - (IF s = r THEN 1 ELSE 0)
    BY <1>1 DEF TypeOK
  <2>5. iPendingInvocations[r] + Cardinality(Counted(r))
          = Cardinality(Asking(r)) + Cardinality(Owned(r))
    BY DEF PendingExact
  <2> HIDE DEF IInv
  <2> QED
    BY <2>1, <2>3, <2>4, <2>5, CountsFinite
<1>9. SignalMeansDone'
  <2> SUFFICES ASSUME NEW r \in Services
               PROVE  /\ \A v \in Workers :
                           pc'[v] = "signal" /\ ServiceOf(v) = r /\ Leaving(r) /\ v \notin scan[r]
                             => iPendingInvocations'[r] = 0
                      /\ pc[r] = "wait" /\ iShutdownSignal[r] > 0 => iPendingInvocations'[r] = 0
                      /\ pc[r] = "gone" => iPendingInvocations'[r] = 0
    BY <1>1, <1>2, Names DEF SignalMeansDone, Leaving, ServiceOf, TypeOK
  <2>1. CASE r = s
    <3>1. iPendingInvocations'[r] = iPendingInvocations[s] - 1
      BY <1>1, <2>1 DEF TypeOK
    <3>2. \A v \in Workers : pc'[v] = "signal" => pc[v] = "signal" \/ iPendingInvocations[s] = 1
      BY <1>1, <1>2, Names DEF TypeOK
    <3>3. iPendingInvocations[s] # 0
      BY <1>s
    <3> QED
      BY <2>1, <3>1, <3>2, <3>3 DEF SignalMeansDone
  <2>2. CASE r # s
    <3>1. iPendingInvocations'[r] = iPendingInvocations[r]
      BY <1>1, <2>2 DEF TypeOK
    <3>2. \A v \in Workers : pc'[v] = "signal" /\ ServiceOf(v) = r => pc[v] = "signal"
      BY <1>s, <1>1, <1>2, <2>2, Names DEF TypeOK
    <3> QED
      BY <3>1, <3>2 DEF SignalMeansDone
  <2> QED
    BY <2>1, <2>2
<1>10. InterruptReaches'
  BY <1>1, <1>2, Names DEF InterruptReaches, ServiceOf, TypeOK
<1> QED
  BY <1>3, <1>4, <1>5, <1>6, <1>7, <1>8, <1>9, <1>10

(* A destructor that is signalled waits, so it has come to every Invoker.  *)
LEMMA ShutdownSignalKeeps ==
  ASSUME IInv, NEW w \in Workers, ShutdownSignal(w)
  PROVE  IInv'
<1> USE DEF IInv, services, invocations, invokers, fifos, clients, Goto
<1>s. PICK s \in Services : s = ServiceOf(w)
  BY AtWork DEF ShutdownSignal, Unused
<1>1. /\ pc[w] = "signal" /\ w \in Threads /\ pc' = [pc EXCEPT ![w] = "clear"]
      /\ iShutdownSignal' = [iShutdownSignal EXCEPT ![s] = @ + 1]
      /\ UNCHANGED <<iPendingInvocations, iInterrupt, invocations, invokers, fifos, managerLock,
                     clients, main>>
  BY <1>s, Names DEF ShutdownSignal
<1>2. TypeOK'
  BY <1>1 DEF TypeOK, WorkerPcs
<1>3. Shape'
  BY <1>1, Names DEF TypeOK, Shape, InvokerPcs, ManagerPcs, WorkerPcs, Unused
<1>4. Placed'
  <2>1. \A v \in Workers, j \in Invocations : Works(v, j)' = Works(v, j)
    BY <1>1, Names DEF TypeOK, Works
  <2> QED
    BY <1>1, <2>1, StaysPlaced DEF TypeOK
<1>5. InvokersPlaced' /\ ServiceKnown'
  BY <1>1, Names DEF TypeOK, InvokersPlaced, ServiceKnown, Free, Unused
<1>6. Interrupts'
  BY <1>1, Names DEF TypeOK, Interrupts, Leaving, ServiceOf
<1>7. PendingExact'
  <2>1. ASSUME NEW r \in Services
        PROVE  Counted(r)' = Counted(r) /\ Asking(r)' = Asking(r)
    <3>1. Counted(r)' = Counted(r)
      BY <1>1, Names DEF Counted, ServiceOf, TypeOK
    <3>2. Asking(r)' = Asking(r)
      BY <1>1, Names DEF Asking, Invoked, ServiceOf, TypeOK
    <3> QED
      BY <3>1, <3>2
  <2> QED
    BY <1>1, <2>1, StaysPending
<1>8. SignalMeansDone'
  <2>1. pc[s] = "wait" => iPendingInvocations[s] = 0
    BY <1>s, <1>1 DEF SignalMeansDone, Interrupts, Leaving
  <2>2. \A r \in Services : r # s => iShutdownSignal'[r] = iShutdownSignal[r]
    BY <1>1 DEF TypeOK
  <2> QED
    BY <1>1, <2>1, <2>2, Names DEF SignalMeansDone, Leaving, ServiceOf, TypeOK
<1>9. InterruptReaches'
  BY <1>1, Names DEF InterruptReaches, ServiceOf, TypeOK
<1> QED
  BY <1>2, <1>3, <1>4, <1>5, <1>6, <1>7, <1>8, <1>9

(* The invocation is of no service again, and in the pool.  Its Invoker    *)
(* does not look at it again, nor does anybody else have it.               *)
LEMMA ClearKeeps ==
  ASSUME IInv, NEW w \in Workers, Clear(w)
  PROVE  IInv'
<1> USE DEF IInv, services, invocations, invokers, fifos, clients, Goto
<1>i. PICK i \in Invocations : i = iInvocation[w]
  BY AtWork DEF Clear, Unused
<1>s. PICK s \in Services : s = ServiceOf(w)
  BY AtWork DEF Clear, Unused
<1> DEFINE l == IF w = Manager THEN "wait" ELSE "return"
<1>1. /\ pc[w] = "clear" /\ w \in Threads /\ pc' = [pc EXCEPT ![w] = l]
      /\ iService' = [iService EXCEPT ![i] = None]
      /\ iInterruptHandler' = [iInterruptHandler EXCEPT ![i] = FALSE]
      /\ interrupted' = [interrupted EXCEPT ![i] = FALSE]
      /\ iFreeInvocations' = Append(iFreeInvocations, i)
      /\ iInvocation' = IF w = Manager THEN [iInvocation EXCEPT ![w] = None] ELSE iInvocation
      /\ UNCHANGED <<services, iLock, iWaitingInvocations, iFreeInvokers, managerLock, clients, main>>
  BY <1>i, Names DEF Clear
<1>2. /\ i \notin Free \union Queued /\ Works(w, i) /\ iService[i] = s
      /\ \A v \in Workers : Works(v, i) => v = w
      /\ \A x \in Clients : new[x] # i
  BY <1>i, <1>s, <1>1, AtWork DEF Unused, ServiceOf
<1>3. /\ iFreeInvocations' \in Seq(Invocations) /\ IsInjective(iFreeInvocations')
      /\ Free' = Free \union {i}
  BY <1>1, <1>2, AppendElements DEF TypeOK, Placed, Free
<1>4. /\ pc'[w] = l /\ (\A x \in Threads : x # w => pc'[x] = pc[x])
      /\ iInvocation'[w] = IF w = Manager THEN None ELSE i
      /\ \A v \in Workers : v # w => iInvocation'[v] = iInvocation[v]
      /\ \A j \in Invocations : iService'[j] = IF j = i THEN None ELSE iService[j]
  BY <1>i, <1>1 DEF TypeOK
<1>5. TypeOK'
  <2>1. pc' \in [Threads -> ClientPcs \union WorkerPcs]
    BY <1>1 DEF TypeOK, WorkerPcs
  <2>2. iInvocation' \in [Workers -> Invocations \union {None}]
    BY <1>1 DEF TypeOK
  <2>3. /\ iService' \in [Invocations -> Services \union {None}]
        /\ iInterruptHandler' \in [Invocations -> BOOLEAN]
        /\ interrupted' \in [Invocations -> BOOLEAN]
    BY <1>1 DEF TypeOK
  <2> QED
    BY <1>1, <1>3, <2>1, <2>2, <2>3 DEF TypeOK
<1>6. Shape'
  <2>1. \A k \in Invokers :
          /\ pc'[k] \in InvokerPcs
          /\ iLock'[k] = IF pc'[k] \in Unused \union {"request", "response"} THEN None ELSE k
    BY <1>1, <1>4, Names DEF Shape, InvokerPcs, WorkerPcs, Unused
  <2>2. (\A r \in Services : pc'[r] \in ClientPcs) /\ pc'[Manager] \in ManagerPcs
    BY <1>1, <1>4, Names DEF Shape, ManagerPcs
  <2>3. \A v \in Workers : iInvocation'[v] = None <=> pc'[v] \in Unused
    BY <1>4, Names DEF Shape, Unused
  <2>4. \A x \in Clients : new'[x] = None <=> pc'[x] # "invoke"
    BY <1>1, <1>4, Names DEF Shape
  <2> QED
    BY <2>1, <2>2, <2>3, <2>4 DEF Shape
<1>7. Placed'
  <2>1. /\ \A j \in Invocations : ~Works(w, j)' /\ (j # i => ~Works(w, j))
        /\ \A v \in Workers, j \in Invocations : v # w => Works(v, j)' = Works(v, j)
    BY <1>i, <1>4, Names DEF Works
  <2>2. Queued' = Queued /\ new' = new /\ UNCHANGED iWaitingInvocations
    BY <1>1 DEF Queued
  <2>3. IsInjective(iFreeInvocations') /\ IsInjective(iWaitingInvocations')
        /\ Free' \intersect Queued' = {}
    BY <1>2, <1>3, <2>2 DEF Placed
  <2>4. ASSUME NEW y \in Clients, new[y] # None
        PROVE  /\ new[y] \notin Free' \union Queued'
               /\ \A z \in Clients : new[z] = new[y] => z = y
               /\ \A v \in Workers : ~(iInvocation'[v] = new[y] /\ pc'[v] # "return")
    <3>1. new[y] \in Invocations /\ new[y] # i
      BY <1>2, <2>4 DEF TypeOK
    <3>2. \A v \in Workers : ~(iInvocation'[v] = new[y] /\ pc'[v] # "return")
      BY <2>1, <2>4, <3>1 DEF Works, Placed
    <3> QED
      BY <1>3, <2>2, <2>4, <3>1, <3>2 DEF Placed
  <2>5. ASSUME NEW v \in Workers, NEW j \in Invocations, Works(v, j)'
        PROVE  j \notin Free' \union Queued' /\ \A u \in Workers : Works(u, j)' => u = v
    <3>1. v # w /\ Works(v, j) /\ j # i
      BY <1>2, <2>1, <2>5
    <3> QED
      BY <1>3, <2>1, <2>2, <3>1 DEF Placed
  <2>6. ASSUME NEW j \in Invocations
        PROVE  \/ j \in Free' \union Queued'
               \/ \E y \in Clients : new[y] = j
               \/ \E v \in Workers : Works(v, j)'
    BY <1>3, <2>1, <2>2 DEF Placed
  <2> QED
    BY <2>2, <2>3, <2>4, <2>5, <2>6 DEF Placed, Works
<1>8. InvokersPlaced' /\ ServiceKnown'
  <2>1. InvokersPlaced'
    BY <1>1, <1>4, Names DEF InvokersPlaced, Unused
  <2>2. ServiceKnown'
    BY <1>3, <1>4 DEF ServiceKnown
  <2> QED
    BY <2>1, <2>2
<1>9. \A v \in Workers : v # w /\ pc[v] \notin Unused \union {"return"} =>
        /\ iInvocation[v] \in Invocations /\ iInvocation[v] # i
        /\ ServiceOf(v)' = ServiceOf(v) /\ ServiceOf(v) \in Services
  <2> SUFFICES ASSUME NEW v \in Workers, v # w, pc[v] \notin Unused \union {"return"}
               PROVE  /\ iInvocation[v] \in Invocations /\ iInvocation[v] # i
                      /\ ServiceOf(v)' = ServiceOf(v) /\ ServiceOf(v) \in Services
    OBVIOUS
  <2>1. /\ iInvocation[v] \in Invocations /\ Works(v, iInvocation[v]) /\ ServiceOf(v) \in Services
    BY AtWork
  <2>2. iInvocation[v] # i
    BY <1>2, <2>1
  <2> QED
    BY <1>4, <2>1, <2>2 DEF ServiceOf
<1>10. Interrupts'
  <2>1. \A r \in Services : (iInterrupt'[r] <=> Leaving(r)') /\ (scan'[r] # {} => pc'[r] = "interrupt")
    BY <1>1, <1>4, Names DEF Interrupts, Leaving
  <2>2. pc'[Manager] \in {"callback", "count", "signal"} => iInterrupt'[ServiceOf(Manager)']
    BY <1>1, <1>4, <1>9, Names DEF Interrupts, Unused
  <2>3. \A k \in Invokers : pc'[k] = "response" => iInterruptHandler'[iInvocation'[k]]
    BY <1>1, <1>4, <1>9, Names DEF Interrupts, Unused, TypeOK
  <2> QED
    BY <2>1, <2>2, <2>3 DEF Interrupts
<1>11. PendingExact'
  <2> SUFFICES ASSUME NEW r \in Services
               PROVE  (iPendingInvocations[r] + Cardinality(Counted(r))
                         = Cardinality(Asking(r)) + Cardinality(Owned(r)))'
    BY DEF PendingExact
  <2>1. Asking(r)' = Asking(r)
    BY <1>1, <1>4, <1>9, Names DEF Asking, Invoked, Unused
  <2>2. /\ Counted(r)' \ {w} = Counted(r) \ {w}
        /\ w \notin Counted(r)'
        /\ w \in Counted(r) <=> s = r
    BY <1>s, <1>1, <1>4, <1>9, Names, SMTT(30) DEF Counted, Unused
  <2>3. Owned(r)' \ {i} = Owned(r) \ {i} /\ i \notin Owned(r)' /\ (i \in Owned(r) <=> s = r)
    BY <1>2, <1>4, Names DEF Owned
  <2>4. /\ Cardinality(Counted(r)') = Cardinality(Counted(r)) - (IF s = r THEN 1 ELSE 0)
        /\ Cardinality(Owned(r)') = Cardinality(Owned(r)) - (IF s = r THEN 1 ELSE 0)
    BY <2>2, <2>3, CardinalityStep, CountsFinite
  <2>5. /\ iPendingInvocations[r] + Cardinality(Counted(r))
             = Cardinality(Asking(r)) + Cardinality(Owned(r))
        /\ iPendingInvocations'[r] = iPendingInvocations[r] /\ iPendingInvocations[r] \in Nat
    BY <1>1 DEF PendingExact, TypeOK
  <2> HIDE DEF IInv
  <2> QED
    BY <2>1, <2>4, <2>5, CountsFinite
<1>12. SignalMeansDone'
  <2>1. \A v \in Workers : pc'[v] = "signal" => pc[v] = "signal" /\ ServiceOf(v)' = ServiceOf(v)
    BY <1>1, <1>4, <1>9, Names DEF Unused
  <2>2. \A r \in Services : pc'[r] = pc[r]
    BY <1>4, Names
  <2> QED
    BY <1>1, <2>1, <2>2 DEF SignalMeansDone, Leaving
<1>13. InterruptReaches'
  <2> SUFFICES ASSUME NEW k \in Invokers, pc'[k] = "response"
               PROVE  \/ interrupted'[iInvocation'[k]]
                      \/ pc'[ServiceOf(k)'] \notin {"interrupt", "wait", "gone"}
                      \/ k \in scan'[ServiceOf(k)']
    BY DEF InterruptReaches
  <2>1. pc[k] = "response" /\ k # w /\ k \in Workers
    BY <1>1, <1>4, Names
  <2>2. /\ iInvocation'[k] = iInvocation[k] /\ iInvocation[k] \in Invocations
        /\ iInvocation[k] # i /\ ServiceOf(k)' = ServiceOf(k) /\ ServiceOf(k) \in Services
    BY <1>4, <1>9, <2>1 DEF Unused
  <2>3. interrupted'[iInvocation[k]] = interrupted[iInvocation[k]]
    BY <1>1, <2>2 DEF TypeOK
  <2>4. pc'[ServiceOf(k)] = pc[ServiceOf(k)]
    BY <1>4, <2>2, Names
  <2> QED
    BY <1>1, <2>1, <2>2, <2>3, <2>4 DEF InterruptReaches
<1> QED
  BY <1>5, <1>6, <1>7, <1>8, <1>10, <1>11, <1>12, <1>13

(* The Invoker lets go of what is in the pool already.                     *)
LEMMA ReturnKeeps ==
  ASSUME IInv, NEW k \in Invokers, Return(k)
  PROVE  IInv'
<1> USE DEF IInv, services, invocations, invokers, fifos, clients, Goto
<1>1. /\ pc[k] = "return" /\ k \in Threads /\ k \in Workers /\ k # Manager
      /\ pc' = [pc EXCEPT ![k] = "wait"]
      /\ iInvocation' = [iInvocation EXCEPT ![k] = None] /\ iLock' = [iLock EXCEPT ![k] = None]
      /\ UNCHANGED <<services, invocations, iFreeInvocations, iWaitingInvocations, managerLock,
                     clients, main>>
  BY Names DEF Return
<1>2. /\ iFreeInvokers' \in Seq(Invokers) /\ IsInjective(iFreeInvokers')
      /\ Range(iFreeInvokers') = Range(iFreeInvokers) \union {k}
  <2>1. k \notin Range(iFreeInvokers)
    BY <1>1 DEF InvokersPlaced, Unused
  <2>2. iFreeInvokers' = Append(iFreeInvokers, k)
    BY DEF Return
  <2> QED
    BY <2>1, <2>2, AppendElements DEF TypeOK, InvokersPlaced
<1>3. TypeOK'
  BY <1>1, <1>2 DEF TypeOK, WorkerPcs
<1>4. Shape'
  BY <1>1, Names DEF TypeOK, Shape, InvokerPcs, ManagerPcs, WorkerPcs, Unused
<1>5. Placed'
  <2>1. \A v \in Workers, j \in Invocations : Works(v, j)' = Works(v, j)
    BY <1>1, Names DEF TypeOK, Works
  <2> QED
    BY <1>1, <2>1, StaysPlaced DEF TypeOK
<1>6. InvokersPlaced' /\ ServiceKnown'
  BY <1>1, <1>2, Names DEF TypeOK, InvokersPlaced, ServiceKnown, Free, Unused
<1>7. \A w \in Threads : pc'[w] = IF w = k THEN "wait" ELSE pc[w]
  BY <1>1 DEF TypeOK
<1>8. \A w \in Workers : w # k => ServiceOf(w)' = ServiceOf(w) /\ iInvocation'[w] = iInvocation[w]
  BY <1>1 DEF ServiceOf, TypeOK
<1>9. Interrupts'
  BY <1>1, <1>7, <1>8, Names DEF Interrupts, Leaving
<1>10. PendingExact'
  <2>1. ASSUME NEW r \in Services
        PROVE  Counted(r)' = Counted(r) /\ Asking(r)' = Asking(r)
    <3>1. Counted(r)' = Counted(r)
      BY <1>1, <1>7, <1>8, Names DEF Counted
    <3>2. Asking(r)' = Asking(r)
      BY <1>1, <1>7, <1>8, Names DEF Asking, Invoked
    <3> QED
      BY <3>1, <3>2
  <2> QED
    BY <1>1, <2>1, StaysPending
<1>11. SignalMeansDone'
  BY <1>1, <1>7, <1>8, Names DEF SignalMeansDone, Leaving
<1>12. InterruptReaches'
  <2> SUFFICES ASSUME NEW j \in Invokers, pc'[j] = "response"
               PROVE  \/ interrupted'[iInvocation'[j]]
                      \/ pc'[ServiceOf(j)'] \notin {"interrupt", "wait", "gone"}
                      \/ j \in scan'[ServiceOf(j)']
    BY DEF InterruptReaches
  <2>1. pc[j] = "response" /\ j # k /\ j \in Workers
    BY <1>7, Names
  <2>2. ServiceOf(j) \in Services
    BY <2>1, AtWork DEF Unused
  <2> QED
    BY <1>1, <1>7, <1>8, <2>1, <2>2, Names DEF InterruptReaches
<1> QED
  BY <1>3, <1>4, <1>5, <1>6, <1>9, <1>10, <1>11, <1>12

LEMMA EndKeeps ==
  ASSUME IInv, NEW w \in Workers, End(w)
  PROVE  IInv'
<1> USE DEF IInv, services, invocations, invokers, fifos, clients, Goto
<1>1. /\ pc[w] = "wait" /\ w \in Threads /\ pc' = [pc EXCEPT ![w] = "ended"]
      /\ UNCHANGED <<services, invocations, invokers, fifos, managerLock, clients, main>>
  BY Names DEF End
<1>2. TypeOK'
  BY <1>1 DEF TypeOK, WorkerPcs
<1>3. Shape'
  BY <1>1, Names DEF TypeOK, Shape, InvokerPcs, ManagerPcs, WorkerPcs, Unused
<1>4. Placed'
  <2>1. \A v \in Workers, j \in Invocations : Works(v, j)' = Works(v, j)
    BY <1>1, Names DEF TypeOK, Works
  <2> QED
    BY <1>1, <2>1, StaysPlaced DEF TypeOK
<1>5. InvokersPlaced' /\ ServiceKnown'
  BY <1>1, Names DEF TypeOK, InvokersPlaced, ServiceKnown, Free, Unused
<1>6. Interrupts'
  BY <1>1, Names DEF TypeOK, Interrupts, Leaving, ServiceOf
<1>7. PendingExact'
  <2>1. ASSUME NEW r \in Services
        PROVE  Counted(r)' = Counted(r) /\ Asking(r)' = Asking(r)
    BY <1>1, Names DEF Counted, Asking, Invoked, ServiceOf, TypeOK
  <2> QED
    BY <1>1, <2>1, StaysPending
<1>8. SignalMeansDone'
  BY <1>1, Names DEF SignalMeansDone, Leaving, ServiceOf, TypeOK
<1>9. InterruptReaches'
  BY <1>1, Names DEF InterruptReaches, ServiceOf, TypeOK
<1> QED
  BY <1>2, <1>3, <1>4, <1>5, <1>6, <1>7, <1>8, <1>9

LEMMA MainKeeps ==
  ASSUME IInv, MainStep \/ UNCHANGED vars
  PROVE  IInv'
<1>1. /\ UNCHANGED <<services, invocations, invokers, fifos, managerLock, pc, clients>>
      /\ main' \in {"up", "join", "joinInvokers", "drain", "down"}
  BY DEF MainStep, Kill, Join, Drain, vars, IInv, TypeOK
<1> USE <1>1 DEF IInv, services, invocations, invokers, fifos, clients
<1>2. TypeOK' /\ Shape'
  BY DEF TypeOK, Shape
<1>3. Placed' /\ InvokersPlaced' /\ ServiceKnown'
  <2>1. \A w \in Workers, i \in Invocations : Works(w, i)' = Works(w, i)
    BY DEF Works
  <2> QED
    BY <2>1, StaysPlaced DEF TypeOK, InvokersPlaced, ServiceKnown, Free
<1>4. Interrupts' /\ SignalMeansDone' /\ InterruptReaches'
  BY DEF Interrupts, SignalMeansDone, InterruptReaches, Leaving, ServiceOf
<1>5. PendingExact'
  BY StaysPending DEF Counted, Asking, Invoked, ServiceOf
<1> QED
  BY <1>2, <1>3, <1>4, <1>5

LEMMA InitHolds == Init => IInv
<1> SUFFICES ASSUME Init PROVE IInv
  OBVIOUS
<1>1. /\ iFreeInvocations \in Seq(Invocations) /\ IsInjective(iFreeInvocations)
      /\ Free = Invocations
      /\ iFreeInvokers \in Seq(Invokers) /\ IsInjective(iFreeInvokers)
      /\ Range(iFreeInvokers) = Invokers
  BY SetToSeqElements, PoolAssumption DEF Init, Free
<1>2. iWaitingInvocations \in Seq(Invocations) /\ IsInjective(iWaitingInvocations) /\ Queued = {}
  BY DEF Init, Queued, Range, IsInjective
<1>3. TypeOK
  BY <1>1, <1>2, PoolAssumption, Names DEF Init, TypeOK, ClientPcs, WorkerPcs
<1>4. Shape
  BY Names DEF Init, Shape, ClientPcs, InvokerPcs, ManagerPcs, WorkerPcs, Unused
<1>5. Placed /\ InvokersPlaced /\ ServiceKnown
  BY <1>1, <1>2, Names DEF Init, Placed, InvokersPlaced, ServiceKnown, Works, Unused
<1>6. Interrupts /\ SignalMeansDone /\ InterruptReaches
  BY Names DEF Init, Interrupts, SignalMeansDone, InterruptReaches, Leaving
<1>7. PendingExact
  <2>1. ASSUME NEW s \in Services
        PROVE  Counted(s) = {} /\ Asking(s) = {} /\ Owned(s) = {} /\ iPendingInvocations[s] = 0
    BY Names DEF Init, Counted, Asking, Owned
  <2> QED
    BY <2>1, FS_EmptySet DEF PendingExact
<1> QED
  BY <1>3, <1>4, <1>5, <1>6, <1>7 DEF IInv

LEMMA NextKeeps == IInv /\ [Next]_vars => IInv'
<1> SUFFICES ASSUME IInv, [Next]_vars PROVE IInv'
  OBVIOUS
<1> USE Names DEF ClientStep, Completion
<1>1. ASSUME NEW s \in Services, ServiceStep(s) PROVE IInv'
  BY <1>1, ManagerLockKeeps, ReadFreeKeeps, InvokeKeeps, InterruptKeeps, CheckPendingKeeps,
     ShutdownWaitKeeps DEF ServiceStep
<1>2. CASE ManagerStep
  BY <1>2, TakeWaitingKeeps, TakeInvokerKeeps, CallbackKeeps, InvocationCompletedKeeps,
     ShutdownSignalKeeps, ClearKeeps, EndKeeps DEF ManagerStep
<1>3. ASSUME NEW k \in Invokers, InvokerStep(k) PROVE IInv'
  BY <1>3, RequestKeeps, ResponseKeeps, ManagerLockKeeps, ReadFreeKeeps, InvokeKeeps,
     CallbackKeeps, InvocationCompletedKeeps, ShutdownSignalKeeps, ClearKeeps, EndKeeps,
     ReturnKeeps DEF InvokerStep
<1>4. CASE Use
  BY <1>4, BeginKeeps, DeleteKeeps DEF Use
<1>5. CASE MainStep \/ UNCHANGED vars
  BY <1>5, MainKeeps
<1> QED
  BY <1>1, <1>2, <1>3, <1>4, <1>5 DEF Next, Progress

(* The inductive invariant holds.                                          *)
THEOREM Invariance == Spec => []IInv
BY InitHolds, NextKeeps, PTL DEF Spec

-----------------------------------------------------------------------------
(* Consequences                                                            *)

(* Every invocation and every Invoker is in exactly one place.             *)
LEMMA PlacedMeansOnce == IInv => InOnePlace
<1> SUFFICES ASSUME IInv PROVE InOnePlace
  OBVIOUS
<1> USE DEF IInv
<1>1. ASSUME NEW i \in Invocations
      PROVE  Times(i, iFreeInvocations) + Times(i, iWaitingInvocations) + Cardinality(Holders(i)) = 1
  <2>1. /\ Times(i, iFreeInvocations) = IF i \in Free THEN 1 ELSE 0
        /\ Times(i, iWaitingInvocations) = IF i \in Queued THEN 1 ELSE 0
    BY CountElement DEF TypeOK, Placed, Times, Free, Queued
  <2>2. i \notin Free \/ i \notin Queued
    BY DEF Placed
  <2>3. CASE i \in Free \union Queued
    <3>1. Holders(i) = {}
      BY <2>3, Names DEF Holders, Placed, Works
    <3> QED
      BY <2>1, <2>2, <2>3, <3>1, FS_EmptySet
  <2>4. CASE i \notin Free \union Queued
    <3>1. \E h : Holders(i) = {h}
      <4>1. CASE \E x \in Clients : new[x] = i
        <5>1. PICK x \in Clients : new[x] = i
          BY <4>1
        <5>2. Holders(i) = {x}
          BY <5>1, Names DEF Holders, Placed, Works
        <5> QED
          BY <5>2
      <4>2. CASE ~\E x \in Clients : new[x] = i
        <5>1. PICK w \in Workers : Works(w, i)
          BY <2>4, <4>2 DEF Placed
        <5>2. Holders(i) = {w}
          BY <4>2, <5>1 DEF Holders, Placed, Works
        <5> QED
          BY <5>2
      <4> QED
        BY <4>1, <4>2
    <3>2. Cardinality(Holders(i)) = 1
      BY <3>1, FS_Singleton
    <3> QED
      BY <2>1, <2>4, <3>2
  <2> QED
    BY <2>3, <2>4
<1>2. ASSUME NEW k \in Invokers
      PROVE  Times(k, iFreeInvokers) = IF pc[k] \in {"wait", "ended"} THEN 1 ELSE 0
  BY CountElement DEF TypeOK, InvokersPlaced, Times, Unused
<1> QED
  BY <1>1, <1>2 DEF InOnePlace

(* NoneLost: the pools, the queue, the clients, the manager's thread and   *)
(* the Invokers hold every invocation exactly once, and a service counts   *)
(* the invocations whose completion it will be told of.                    *)
THEOREM NothingIsLost == Spec => []NoneLost
<1>1. IInv => NoneLost
  BY PlacedMeansOnce DEF IInv, NoneLost
<1> QED
  BY <1>1, Invariance, PTL

(* InterruptReaches: an Invoker that waits for a response for a service    *)
(* that is leaving has been interrupted, or the destructor comes to it.    *)
THEOREM InterruptsReach == Spec => []InterruptReaches
<1>1. IInv => InterruptReaches
  BY DEF IInv
<1> QED
  BY <1>1, Invariance, PTL

(* DestructorBlocks: a service that is gone has its count at 0, so that    *)
(* what is left of it is at workers that are past its callbacks.           *)
THEOREM DestructorWaits == Spec => []DestructorBlocks
<1>1. ASSUME IInv, NEW s \in Services, pc[s] = "gone"
      PROVE  /\ \A i \in Range(iWaitingInvocations) : iService[i] # s
             /\ \A w \in Workers :
                  pc[w] \in {"invoker", "request", "response", "callback"} => ServiceOf(w) # s
  <2> USE DEF IInv
  <2>1. iPendingInvocations[s] = 0
    BY <1>1 DEF SignalMeansDone
  <2>2. ASSUME NEW i \in Range(iWaitingInvocations), iService[i] = s
        PROVE  FALSE
    <3>1. i \in Owned(s)
      BY <1>1, <2>2, RangeInSet DEF TypeOK, Owned
    <3>2. PICK w \in Counted(s) : iInvocation[w] = i
      BY <1>1, <2>1, <3>1, ZeroMeansDone
    <3> QED
      BY <1>1, <2>2, <3>2, AtWork DEF Counted, Unused, Queued
  <2>3. ASSUME NEW w \in Workers, pc[w] \in {"invoker", "request", "response", "callback"}
        PROVE  ServiceOf(w) # s
    BY <1>1, <2>1, <2>3, ZeroMeansDone DEF Unused
  <2> QED
    BY <2>2, <2>3
<1>2. IInv => DestructorBlocks
  BY <1>1 DEF DestructorBlocks
<1> QED
  BY <1>2, Invariance, PTL

=============================================================================
