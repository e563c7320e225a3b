------------------------- MODULE InvocationManager -------------------------
(***************************************************************************)
(* Action invocations of a control point: CpiService, Invocation, Invoker  *)
(* and InvocationManager.  A client thread takes an invocation from a pool *)
(* and queues it; the manager's thread hands it to a free Invoker, which   *)
(* sends the request and runs the client's callback.  ~CpiService          *)
(* interrupts what is on its way and waits for it.                         *)
(* Every service has one client thread, which is named as the service is;  *)
(* the callback of a successful invocation may invoke once more.  Each     *)
(* Fifo has one reader at a time and is a sequence here.                   *)
(***************************************************************************)
EXTENDS Integers, FiniteSets, Sequences, SequencesExt

CONSTANTS
  Services,     \* the services, and the client threads that own them
  Chaining,     \* services whose callbacks invoke an action themselves
  Invocations,  \* the pool of invocations
  Invokers,     \* the pool of Invoker threads
  Manager,      \* the thread of the InvocationManager
  None,         \* nothing
  MaxInvokes    \* MaxInvokes[s]: bound on the invocations of s

Workers == Invokers \union {Manager}
Clients == Services \union Invokers
Threads == Services \union Workers

ASSUME NoneAssumption == None \notin Threads \union Invocations
ASSUME ThreadAssumption ==
  Manager \notin Invokers /\ Services \intersect Workers = {} /\ Chaining \subseteq Services
ASSUME PoolAssumption ==
  IsFiniteSet(Invocations) /\ IsFiniteSet(Invokers) /\ Invokers # {} /\ MaxInvokes \in [Services -> Nat]

VARIABLES
  iPendingInvocations, iInterrupt, iShutdownSignal,    \* of a service
  iService, iInterruptHandler,                         \* of an invocation
  interrupted,          \* its handler was told to interrupt
  iInvocation,          \* of an Invoker; and the one the manager's thread has
  iLock,                \* who has the lock of an Invoker
  iFreeInvocations, iWaitingInvocations, iFreeInvokers,
  managerLock,          \* who has iLock of the manager
  pc,                   \* where a thread is
  new,                  \* the invocation a client has taken and not yet queued
  scan,                 \* Invokers that ~CpiService has still to come to
  invokes,              \* how often a service was invoked
  main                  \* ~InvocationManager

services    == <<iPendingInvocations, iInterrupt, iShutdownSignal>>
invocations == <<iService, iInterruptHandler, interrupted>>
invokers    == <<iInvocation, iLock>>
fifos       == <<iFreeInvocations, iWaitingInvocations, iFreeInvokers>>
clients     == <<new, scan, invokes>>
vars        == <<services, invocations, invokers, fifos, managerLock, pc, clients, main>>

ClientPcs == {"idle", "lock", "read", "invoke", "interrupt", "wait", "gone"}
WorkerPcs == {"wait", "invoker", "request", "response", "callback", "lock", "read",
              "invoke", "count", "signal", "clear", "return", "ended"}

TypeOK ==
  /\ iPendingInvocations \in [Services -> Nat] /\ iShutdownSignal \in [Services -> Nat]
  /\ iInterrupt \in [Services -> BOOLEAN]
  /\ iService \in [Invocations -> Services \union {None}]
  /\ iInterruptHandler \in [Invocations -> BOOLEAN]
  /\ interrupted \in [Invocations -> BOOLEAN]
  /\ iInvocation \in [Workers -> Invocations \union {None}]
  /\ iLock \in [Invokers -> Invokers \union {None}]
  /\ iFreeInvocations \in Seq(Invocations) /\ iWaitingInvocations \in Seq(Invocations)
  /\ iFreeInvokers \in Seq(Invokers)
  /\ managerLock \in Clients \union {None}
  /\ pc \in [Threads -> ClientPcs \union WorkerPcs]
  /\ new \in [Clients -> Invocations \union {None}]
  /\ scan \in [Services -> SUBSET Invokers]
  /\ invokes \in [Services -> Nat] /\ \A s \in Services : invokes[s] <= MaxInvokes[s]
  /\ main \in {"up", "join", "joinInvokers", "drain", "down"}

Init ==
  /\ iPendingInvocations = [s \in Services |-> 0]
  /\ iInterrupt = [s \in Services |-> FALSE]
  /\ iShutdownSignal = [s \in Services |-> 0]
  /\ iService = [i \in Invocations |-> None]
  /\ iInterruptHandler = [i \in Invocations |-> FALSE]
  /\ interrupted = [i \in Invocations |-> FALSE]
  /\ iInvocation = [w \in Workers |-> None]
  /\ iLock = [k \in Invokers |-> None]
  /\ iFreeInvocations = SetToSeq(Invocations)
  /\ iWaitingInvocations = <<>>
  /\ iFreeInvokers = SetToSeq(Invokers)
  /\ managerLock = None
  /\ pc = [x \in Threads |-> IF x \in Services THEN "idle" ELSE "wait"]
  /\ new = [x \in Clients |-> None]
  /\ scan = [s \in Services |-> {}]
  /\ invokes = [s \in Services |-> 0]
  /\ main = "up"

Goto(x, l) == pc' = [pc EXCEPT ![x] = l]

(* The service of the invocation that a worker works on                     *)
ServiceOf(w) == iService[iInvocation[w]]

(* The service that thread x invokes an action of                           *)
Invoked(x) == IF x \in Services THEN x ELSE ServiceOf(x)

-----------------------------------------------------------------------------
(* A client invokes an action: CpiService::Invocation, then Invoke          *)

Begin(x) ==
  /\ IF x \in Services THEN pc[x] = "idle"
                       ELSE pc[x] = "callback" /\ ServiceOf(x) \in Chaining
  /\ invokes[Invoked(x)] < MaxInvokes[Invoked(x)]
  /\ invokes' = [invokes EXCEPT ![Invoked(x)] = @ + 1]
  /\ iPendingInvocations' = [iPendingInvocations EXCEPT ![Invoked(x)] = @ + 1]
  /\ Goto(x, "lock")
  /\ UNCHANGED <<iInterrupt, iShutdownSignal, invocations, invokers, fifos, managerLock,
                 new, scan, main>>

ManagerLock(x) ==
  /\ pc[x] = "lock" /\ managerLock = None
  /\ managerLock' = x
  /\ Goto(x, "read")
  /\ UNCHANGED <<services, invocations, invokers, fifos, clients, main>>

(* The manager's lock is held until there is a free invocation.             *)
ReadFree(x) ==
  LET i == Head(iFreeInvocations) IN
  /\ pc[x] = "read" /\ iFreeInvocations # <<>>
  /\ iFreeInvocations' = Tail(iFreeInvocations)
  /\ managerLock' = None
  /\ iService' = [iService EXCEPT ![i] = Invoked(x)]
  /\ new' = [new EXCEPT ![x] = i]
  /\ Goto(x, "invoke")
  /\ UNCHANGED <<services, iInterruptHandler, interrupted, invokers, iWaitingInvocations,
                 iFreeInvokers, scan, invokes, main>>

Invoke(x) ==
  /\ pc[x] = "invoke"
  /\ iWaitingInvocations' = Append(iWaitingInvocations, new[x])
  /\ new' = [new EXCEPT ![x] = None]
  /\ Goto(x, IF x \in Services THEN "idle" ELSE "count")
  /\ UNCHANGED <<services, invocations, invokers, iFreeInvocations, iFreeInvokers,
                 managerLock, scan, invokes, main>>

-----------------------------------------------------------------------------
(* ~CpiService                                                              *)

Delete(s) ==
  /\ pc[s] = "idle"
  /\ iInterrupt' = [iInterrupt EXCEPT ![s] = TRUE]
  /\ scan' = [scan EXCEPT ![s] = Invokers]
  /\ Goto(s, "interrupt")
  /\ UNCHANGED <<iPendingInvocations, iShutdownSignal, invocations, invokers, fifos,
                 managerLock, new, invokes, main>>

(* InvocationManager::Interrupt comes to Invoker k, whose lock is taken     *)
(* while it runs a callback.                                                *)
Interrupt(s, k) ==
  LET mine == {i \in {iInvocation[k]} \ {None} : iService[i] = s /\ iInterruptHandler[i]} IN
  /\ pc[s] = "interrupt" /\ k \in scan[s] /\ iLock[k] = None
  /\ scan' = [scan EXCEPT ![s] = @ \ {k}]
  /\ interrupted' = [i \in Invocations |-> interrupted[i] \/ i \in mine]
  /\ UNCHANGED <<services, iService, iInterruptHandler, invokers, fifos, managerLock, pc,
                 new, invokes, main>>

(* Not the code: iShutdownSignal is not cleared.                            *)
CheckPendingBug(s) ==
  /\ pc[s] = "interrupt" /\ scan[s] = {}
  /\ Goto(s, IF iPendingInvocations[s] > 0 THEN "wait" ELSE "gone")
  /\ UNCHANGED <<services, invocations, invokers, fifos, managerLock, clients, main>>

CheckPending(s) ==
  /\ pc[s] = "interrupt" /\ scan[s] = {}
  /\ iShutdownSignal' = [iShutdownSignal EXCEPT ![s] = 0]
  /\ Goto(s, IF iPendingInvocations[s] > 0 THEN "wait" ELSE "gone")
  /\ UNCHANGED <<iPendingInvocations, iInterrupt, invocations, invokers, fifos, managerLock,
                 clients, main>>

ShutdownWait(s) ==
  /\ pc[s] = "wait" /\ iShutdownSignal[s] > 0
  /\ iShutdownSignal' = [iShutdownSignal EXCEPT ![s] = @ - 1]
  /\ Goto(s, "gone")
  /\ UNCHANGED <<iPendingInvocations, iInterrupt, invocations, invokers, fifos, managerLock,
                 clients, main>>

-----------------------------------------------------------------------------
(* InvocationManager::Run                                                   *)

(* The signal that follows each entry is taken with it.                     *)
TakeWaiting ==
  LET i == Head(iWaitingInvocations) IN
  /\ pc[Manager] = "wait" /\ iWaitingInvocations # <<>>
  /\ iWaitingInvocations' = Tail(iWaitingInvocations)
  /\ iInvocation' = [iInvocation EXCEPT ![Manager] = i]
  /\ Goto(Manager, IF iInterrupt[iService[i]] THEN "callback" ELSE "invoker")
  /\ UNCHANGED <<services, invocations, iLock, iFreeInvocations, iFreeInvokers, managerLock,
                 clients, main>>

TakeInvoker ==
  LET k == Head(iFreeInvokers) IN
  /\ pc[Manager] = "invoker" /\ iFreeInvokers # <<>> /\ iLock[k] = None
  /\ iFreeInvokers' = Tail(iFreeInvokers)
  /\ iInvocation' = [iInvocation EXCEPT ![k] = iInvocation[Manager], ![Manager] = None]
  /\ pc' = [pc EXCEPT ![Manager] = "wait", ![k] = "request"]
  /\ UNCHANGED <<services, invocations, iLock, iFreeInvocations, iWaitingInvocations,
                 managerLock, clients, main>>

-----------------------------------------------------------------------------
(* Invoker::Run and InvocationUpnp                                          *)

(* Nobody else takes the lock of Invoker k for longer than a step.          *)
Complete(k) ==
  /\ iLock' = [iLock EXCEPT ![k] = k]
  /\ Goto(k, "callback")

(* Not the code: without a look at the service's iInterrupt.                *)
SetInterruptHandlerBug(k) ==
  /\ iInterruptHandler' = [iInterruptHandler EXCEPT ![iInvocation[k]] = TRUE]
  /\ interrupted' = [interrupted EXCEPT ![iInvocation[k]] = FALSE]

SetInterruptHandler(k) ==
  /\ iInterruptHandler' = [iInterruptHandler EXCEPT ![iInvocation[k]] = TRUE]
  /\ interrupted' = [interrupted EXCEPT ![iInvocation[k]] = iInterrupt[ServiceOf(k)]]

(* A request that fails, or a device of this process, has no handler.       *)
Request(k) ==
  /\ pc[k] = "request"
  /\ \/ SetInterruptHandler(k) /\ Goto(k, "response") /\ UNCHANGED iLock
     \/ Complete(k) /\ UNCHANGED <<iInterruptHandler, interrupted>>
  /\ UNCHANGED <<services, iService, iInvocation, fifos, managerLock, clients, main>>

(* A response, an error, a timeout; ~InvocationUpnp takes the handler back. *)
Response(k) ==
  /\ pc[k] = "response"
  /\ iInterruptHandler' = [iInterruptHandler EXCEPT ![iInvocation[k]] = FALSE]
  /\ Complete(k)
  /\ UNCHANGED <<services, iService, interrupted, iInvocation, fifos, managerLock,
                 clients, main>>

-----------------------------------------------------------------------------
(* Invocation::SignalCompleted, of an Invoker or of the manager             *)

Callback(w) ==
  /\ pc[w] = "callback"
  /\ Goto(w, "count")
  /\ UNCHANGED <<services, invocations, invokers, fifos, managerLock, clients, main>>

(* Not the code: signal = (iPendingInvocations-- == 0).                      *)
InvocationCompletedBug(w) ==
  LET s == ServiceOf(w) IN
  /\ pc[w] = "count"
  /\ iPendingInvocations' = [iPendingInvocations EXCEPT ![s] = @ - 1]
  /\ Goto(w, IF iPendingInvocations[s] = 0 THEN "signal" ELSE "clear")
  /\ UNCHANGED <<iInterrupt, iShutdownSignal, invocations, invokers, fifos, managerLock,
                 clients, main>>

(* CpiService::InvocationCompleted: the count, and then the signal          *)
InvocationCompleted(w) ==
  LET s == ServiceOf(w) IN
  /\ pc[w] = "count"
  /\ iPendingInvocations' = [iPendingInvocations EXCEPT ![s] = @ - 1]
  /\ Goto(w, IF iPendingInvocations[s] = 1 THEN "signal" ELSE "clear")
  /\ UNCHANGED <<iInterrupt, iShutdownSignal, invocations, invokers, fifos, managerLock,
                 clients, main>>

ShutdownSignal(w) ==
  /\ pc[w] = "signal"
  /\ iShutdownSignal' = [iShutdownSignal EXCEPT ![ServiceOf(w)] = @ + 1]
  /\ Goto(w, "clear")
  /\ UNCHANGED <<iPendingInvocations, iInterrupt, invocations, invokers, fifos, managerLock,
                 clients, main>>

(* Not the code: an interrupted invocation does not go back to the pool.    *)
ClearBug(w) ==
  LET i == iInvocation[w] IN
  /\ pc[w] = "clear"
  /\ iService' = [iService EXCEPT ![i] = None]
  /\ iInterruptHandler' = [iInterruptHandler EXCEPT ![i] = FALSE]
  /\ interrupted' = [interrupted EXCEPT ![i] = FALSE]
  /\ IF w = Manager
       THEN /\ Goto(w, "wait") /\ iInvocation' = [iInvocation EXCEPT ![w] = None]
            /\ UNCHANGED iFreeInvocations
       ELSE /\ Goto(w, "return") /\ UNCHANGED iInvocation
            /\ iFreeInvocations' = Append(iFreeInvocations, i)
  /\ UNCHANGED <<services, iLock, iWaitingInvocations, iFreeInvokers, managerLock,
                 clients, main>>

(* Clear, and back to the pool                                              *)
Clear(w) ==
  LET i == iInvocation[w] IN
  /\ pc[w] = "clear"
  /\ iService' = [iService EXCEPT ![i] = None]
  /\ iInterruptHandler' = [iInterruptHandler EXCEPT ![i] = FALSE]
  /\ interrupted' = [interrupted EXCEPT ![i] = FALSE]
  /\ iFreeInvocations' = Append(iFreeInvocations, i)
  /\ IF w = Manager
       THEN Goto(w, "wait") /\ iInvocation' = [iInvocation EXCEPT ![w] = None]
       ELSE Goto(w, "return") /\ UNCHANGED iInvocation
  /\ UNCHANGED <<services, iLock, iWaitingInvocations, iFreeInvokers, managerLock,
                 clients, main>>

(* Not the code: the Invoker does not put itself back.                      *)
ReturnBug(k) ==
  /\ pc[k] = "return"
  /\ iInvocation' = [iInvocation EXCEPT ![k] = None]
  /\ iLock' = [iLock EXCEPT ![k] = None]
  /\ Goto(k, "wait")
  /\ UNCHANGED <<services, invocations, fifos, managerLock, clients, main>>

(* The invocation may be in use again before its Invoker lets go of it.     *)
Return(k) ==
  /\ pc[k] = "return"
  /\ iInvocation' = [iInvocation EXCEPT ![k] = None]
  /\ iLock' = [iLock EXCEPT ![k] = None]
  /\ iFreeInvokers' = Append(iFreeInvokers, k)
  /\ Goto(k, "wait")
  /\ UNCHANGED <<services, invocations, iFreeInvocations, iWaitingInvocations, managerLock,
                 clients, main>>

-----------------------------------------------------------------------------
(* ~InvocationManager, once every service is gone: ~Stack asserts that no   *)
(* object is left.  The interrupted read of iFreeInvokers finds nobody.     *)

Kill ==
  /\ main = "up" /\ \A s \in Services : pc[s] = "gone"
  /\ main' = "join"
  /\ UNCHANGED <<services, invocations, invokers, fifos, managerLock, pc, clients>>

(* A thread that was killed ends when it waits for work, taking none.       *)
End(w) ==
  /\ pc[w] = "wait"
  /\ main = IF w = Manager THEN "join" ELSE "joinInvokers"
  /\ Goto(w, "ended")
  /\ UNCHANGED <<services, invocations, invokers, fifos, managerLock, clients, main>>

Join ==
  /\ \/ main = "join" /\ pc[Manager] = "ended" /\ main' = "joinInvokers"
     \/ main = "joinInvokers" /\ (\A k \in Invokers : pc[k] = "ended") /\ main' = "drain"
  /\ UNCHANGED <<services, invocations, invokers, fifos, managerLock, pc, clients>>

(* The destructor reads as many free invocations as there are.              *)
Drain ==
  /\ main = "drain" /\ Len(iFreeInvocations) = Cardinality(Invocations)
  /\ main' = "down"
  /\ UNCHANGED <<services, invocations, invokers, fifos, managerLock, pc, clients>>

-----------------------------------------------------------------------------
(* The service is deleted and still to be told: undefined behaviour, where  *)
(* the model stops.                                                         *)
UsesDeleted(w) == pc[w] \in {"count", "signal"} /\ pc[ServiceOf(w)] = "gone"
Broken == \E w \in Workers : UsesDeleted(w)

ClientStep(x) == ManagerLock(x) \/ ReadFree(x) \/ Invoke(x)

ServiceStep(s) ==
  \/ ClientStep(s)
  \/ \E k \in Invokers : Interrupt(s, k)
  \/ CheckPending(s) \/ ShutdownWait(s)

Completion(w) ==
  \/ Callback(w) \/ InvocationCompleted(w) \/ ShutdownSignal(w) \/ Clear(w)
  \/ End(w)

ManagerStep == TakeWaiting \/ TakeInvoker \/ Completion(Manager)

InvokerStep(k) ==
  \/ Request(k) \/ Response(k) \/ ClientStep(k)
  \/ Completion(k) \/ Return(k)

MainStep == Kill \/ Join \/ Drain

Progress ==
  /\ ~Broken
  /\ \/ \E s \in Services : ServiceStep(s)
     \/ ManagerStep
     \/ \E k \in Invokers : InvokerStep(k)
     \/ MainStep

(* Clients invoke and delete as they like.                                  *)
Use ==
  /\ ~Broken
  /\ (\E x \in Clients : Begin(x)) \/ \E s \in Services : Delete(s)

Next == Progress \/ Use

Spec == Init /\ [][Next]_vars

(* Requests time out and callbacks return; nobody has to invoke or delete.  *)
(* Every step leads on, so it is enough that the threads do not all stop    *)
(* while one of them can run.                                               *)
Fairness == WF_vars(Progress)

FairSpec == Spec /\ Fairness

-----------------------------------------------------------------------------
(* Properties                                                               *)

(* Where an invocation is: in the pool, with a client, queued, with the     *)
(* manager's thread or an Invoker (that has not put it in the pool).        *)
Times(e, seq) == Cardinality({n \in 1..Len(seq) : seq[n] = e})
Holders(i) == {x \in Clients : new[x] = i}
  \union {w \in Workers : iInvocation[w] = i /\ pc[w] # "return"}

InOnePlace ==
  /\ \A i \in Invocations :
       Times(i, iFreeInvocations) + Times(i, iWaitingInvocations) + Cardinality(Holders(i)) = 1
  /\ \A k \in Invokers :
       Times(k, iFreeInvokers) = IF pc[k] \in {"wait", "ended"} THEN 1 ELSE 0

Asking(s) == {x \in Clients : pc[x] \in {"lock", "read"} /\ Invoked(x) = s}
Counted(s) == {w \in Workers : pc[w] \in {"signal", "clear"} /\ ServiceOf(w) = s}
Owned(s) == {i \in Invocations : iService[i] = s}

PendingExact ==
  \A s \in Services :
    iPendingInvocations[s] + Cardinality(Counted(s))
      = Cardinality(Asking(s)) + Cardinality(Owned(s))

(* NoneLost: every invocation, and every Invoker, of the pools is in exactly *)
(* one place, so that none is lost and no two use one at a time; and a      *)
(* service counts exactly the invocations whose completion it will be told  *)
(* of, which is what ~CpiService waits for.                                 *)
NoneLost == TypeOK /\ InOnePlace /\ PendingExact

(* InterruptReaches: once ~CpiService is through with its interrupts, no    *)
(* Invoker waits for a response to one of its invocations without having    *)
(* been interrupted, wherever the invocation was at the time.               *)
InterruptReaches ==
  \A k \in Invokers :
    pc[k] = "response" =>
      \/ interrupted[iInvocation[k]]
      \/ pc[ServiceOf(k)] \notin {"interrupt", "wait", "gone"}
      \/ k \in scan[ServiceOf(k)]

(* DestructorBlocks: "Destructor.  Will block until any pending invocations *)
(* complete": no callback of a service runs after its destructor.           *)
DestructorBlocks ==
  \A s \in Services : pc[s] = "gone" =>
    /\ \A i \in Range(iWaitingInvocations) : iService[i] # s
    /\ \A w \in Workers :
         pc[w] \in {"invoker", "request", "response", "callback"}
           => ServiceOf(w) # s

(* InvokedIsAnswered: "Once Invoke() is called on the invocation the        *)
(* callback is guaranteed to be called."                                    *)
InvokedIsAnswered ==
  \A i \in Invocations :
    i \in Range(iWaitingInvocations) ~>
      Broken \/ \E w \in Workers : iInvocation[w] = i /\ pc[w] = "count"

(* DestructorsEnd: ~CpiService ends, and so does ~InvocationManager, which   *)
(* waits for its threads and for every invocation to come back to the pool. *)
Destructing == (\E s \in Services : pc[s] \in {"interrupt", "wait"}) \/ main \notin {"up", "down"}
DestructorsEnd == Destructing ~> Broken \/ ~Destructing

=============================================================================
