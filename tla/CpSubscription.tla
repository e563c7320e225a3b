--------------------------- MODULE CpSubscription ---------------------------
(***************************************************************************)
(* The life of a control point subscription: CpiSubscription, the pool of  *)
(* Subscriber threads that runs its operations, the thread and shutdown of *)
(* CpiSubscriptionManager, the renewal timer and the event sessions that   *)
(* find a subscription by its sid (CpiSubscription.cpp, EventUpnp.cpp and  *)
(* the EventUpnp class of ProtocolUpnp.cpp).                               *)
(*                                                                         *)
(* A subscription has one slot for the operation to run next.  Schedule    *)
(* overwrites the slot, takes a reference and queues the subscription; a   *)
(* Subscriber thread later empties the slot and runs what it found there.  *)
(* Clients, the timer thread, event sessions and Subscribers all schedule. *)
(*                                                                         *)
(* One step is one critical section or one network exchange of the code.   *)
(* Sequence numbers, bodies and the waiting for pending adds are the       *)
(* subject of CpNotify; here a notification is in order or is not.         *)
(***************************************************************************)
EXTENDS Integers, Sequences, FiniteSets

CONSTANTS
  Subs,       \* the CpiSubscription objects the clients may create
  Threads,    \* the Subscriber threads (InitParams::NumSubscriberThreads)
  Sessions,   \* the EventSessionUpnp threads
  None,       \* NULL
  MaxSid,     \* bound: how many sids a publisher grants to one subscription
  MaxQueue,   \* bound: notifications and timers wait while iList is this long
  MayShutdown,\* whether the application destroys the stack
  MayMalform  \* whether a notification may come without its propertyset

ASSUME NoneAssumption == None \notin Subs \cup Threads \cup Sessions
ASSUME PoolAssumption == IsFiniteSet(Threads) /\ IsFiniteSet(Sessions)
ASSUME BoundAssumption == MaxSid \in Nat /\ MaxQueue \in Nat
ASSUME ShutdownAssumption == MayShutdown \in BOOLEAN /\ MayMalform \in BOOLEAN

VARIABLES
  life,             \* the C++ object: none, live, dying (in its destructor), dead
  iRefCount,
  iPendingOperation,
  iRejectFutureOperations,
  iSid,             \* 0 is the empty sid, n > 0 the n-th sid granted
  granted,          \* publisher: how many sids it has granted
  iEventProcessor,  \* FALSE is NULL
  iInterruptHandler,\* the Subscriber whose socket an Unsubscribe interrupts
  iSubscriberLock,  \* its owner
  iLock,            \* its owner, when a session holds it across callbacks
  clientPc,         \* where the owner of the subscription is
  timer,            \* the renewal timer is in the timer queue
  timerPc, timerSub,\* the timer thread; it holds the callback mutex unless idle
  iList, iMap,      \* the manager's queue, and its map as <<sid, subscription>>
  iPending,         \* iPendingSubscriptions
  mgrPc, mgrSub, mgrThread,
  iActive, iShutdownSem, mainPc,
  subPc, subOf, subOp, interrupted, \* the Subscribers
  evPc, evSub, evDelivers,          \* the event sessions
  missed,           \* history: an event was missed and no resubscribe came yet
  asserted          \* an ASSERT failed and the process has stopped

objVars    == <<life, iRefCount, iPendingOperation, iRejectFutureOperations>>
sidVars    == <<iSid, granted, iMap, iPending>>
lockVars   == <<iEventProcessor, iInterruptHandler, iLock>>
timerVars  == <<timer, timerPc, timerSub>>
mgrVars    == <<mgrPc, mgrSub, mgrThread>>
stackVars  == <<iActive, iShutdownSem, mainPc, asserted>>
subVars    == <<iSubscriberLock, subPc, subOf, subOp, interrupted>>
sessVars   == <<evPc, evSub, evDelivers>>
vars == <<objVars, sidVars, lockVars, timerVars, mgrVars, stackVars, subVars,
          sessVars, clientPc, iList, missed>>

Operations == {"eNone", "eSubscribe", "eRenew", "eUnsubscribe", "eResubscribe"}

Init ==
  /\ life = [s \in Subs |-> "none"]
  /\ iRefCount = [s \in Subs |-> 0]
  /\ iPendingOperation = [s \in Subs |-> "eNone"]
  /\ iRejectFutureOperations = [s \in Subs |-> FALSE]
  /\ iSid = [s \in Subs |-> 0]
  /\ granted = [s \in Subs |-> 0]
  /\ iEventProcessor = [s \in Subs |-> FALSE]
  /\ iInterruptHandler = [s \in Subs |-> None]
  /\ iSubscriberLock = [s \in Subs |-> None]
  /\ iLock = [s \in Subs |-> None]
  /\ clientPc = [s \in Subs |-> "none"]
  /\ timer = [s \in Subs |-> FALSE]
  /\ timerPc = "idle" /\ timerSub = None
  /\ iList = <<>> /\ iMap = {} /\ iPending = {}
  /\ mgrPc = "wait" /\ mgrSub = None /\ mgrThread = None
  /\ iActive = TRUE /\ iShutdownSem = FALSE /\ mainPc = "up"
  /\ subPc = [t \in Threads |-> "idle"]
  /\ subOf = [t \in Threads |-> None]
  /\ subOp = [t \in Threads |-> "eNone"]
  /\ interrupted = {}
  /\ evPc = [e \in Sessions |-> "idle"]
  /\ evSub = [e \in Sessions |-> None]
  /\ evDelivers = [e \in Sessions |-> FALSE]
  /\ missed = [s \in Subs |-> FALSE]
  /\ asserted = FALSE

-----------------------------------------------------------------------------
(* Definitions named ...Bug are deliberate mistakes: each stands before    *)
(* the definition it would replace, and shows that some property notices.  *)

(* The first half of CpiSubscription::Schedule, under Stack::Mutex.  The   *)
(* caller then still has to queue the subscription (Enqueue).              *)
AcceptsBug(s) == TRUE

Accepts(s) == ~iRejectFutureOperations[s]

SetPending(s, op, reject) ==
  /\ iRefCount' = [iRefCount EXCEPT ![s] = @ + 1]
  /\ iPendingOperation' = [iPendingOperation EXCEPT ![s] = op]
  /\ iRejectFutureOperations' =
       [iRejectFutureOperations EXCEPT ![s] = IF reject THEN TRUE ELSE @]
  /\ UNCHANGED life

(* CpiSubscriptionManager::Schedule: it asserts iActive, then queues.      *)
Enqueue(s) ==
  IF iActive
  THEN iList' = Append(iList, s) /\ UNCHANGED asserted
  ELSE asserted' = TRUE /\ UNCHANGED iList

AddRefBug(s) == UNCHANGED iRefCount

AddRef(s) == iRefCount' = [iRefCount EXCEPT ![s] = @ + 1]

RemoveRefsBug(s, n) ==
  /\ iRefCount' = [iRefCount EXCEPT ![s] = @ - 1]
  /\ life' = [life EXCEPT ![s] = IF iRefCount[s] = 1 THEN "dying" ELSE @]
  /\ UNCHANGED <<iPendingOperation, iRejectFutureOperations>>

(* RemoveRef, n times in a row: the last reference enters the destructor.  *)
RemoveRefs(s, n) ==
  /\ iRefCount' = [iRefCount EXCEPT ![s] = @ - n]
  /\ life' = [life EXCEPT ![s] = IF iRefCount[s] = n THEN "dying" ELSE @]
  /\ UNCHANGED <<iPendingOperation, iRejectFutureOperations>>

(* RunInSubscriber empties the slot under the mutex it reads it under.     *)
EmptySlotBug(s) == UNCHANGED iPendingOperation

EmptySlot(s) == iPendingOperation' = [iPendingOperation EXCEPT ![s] = "eNone"]

(* CpiSubscriptionManager::RemovePendingAdd.                               *)
RemovePendingAddBug(s) == UNCHANGED iPending

RemovePendingAdd(s) == iPending' = iPending \ {s}

(* CpiSubscriptionManager::Remove looks the map entry up by the sid, which *)
(* DoUnsubscribe moves out of the subscription only afterwards.            *)
EraseFromMapBug(s) == iMap' = iMap \ {<<0, s>>}

EraseFromMap(s) == iMap' = iMap \ {<<iSid[s], s>>}

(* SetSid, by EventUpnp::Subscribe, with the sid the publisher granted.    *)
SetSidBug(s, sid) == UNCHANGED iSid

SetSid(s, sid) == iSid' = [iSid EXCEPT ![s] = sid]

TransferSidBug(s) == UNCHANGED iSid

TransferSid(s) == iSid' = [iSid EXCEPT ![s] = 0]

(* CpiSubscription::iLock can be taken.                                    *)
LockFreeBug(s) == TRUE

LockFree(s) == iLock[s] = None

(* CpiSubscriptionManager::ReadyForShutdown on the next map and list.      *)
ReadyForShutdownBug(active, map, list) == ~active /\ map = {}

ReadyForShutdown(active, map, list) == ~active /\ map = {} /\ list = <<>>

Mapped(s) == {m \in iMap : m[2] = s}

-----------------------------------------------------------------------------
(* The client: CpiService::Subscribe and Unsubscribe.                      *)

(* new CpiSubscription: its constructor schedules eSubscribe.              *)
ClientSubscribe(s) ==
  /\ ~asserted /\ clientPc[s] = "none" /\ mainPc = "up"
  /\ life' = [life EXCEPT ![s] = "live"]
  /\ iRefCount' = [iRefCount EXCEPT ![s] = 2]
  /\ iPendingOperation' = [iPendingOperation EXCEPT ![s] = "eSubscribe"]
  /\ iEventProcessor' = [iEventProcessor EXCEPT ![s] = TRUE]
  /\ clientPc' = [clientPc EXCEPT ![s] = "pushSubscribe"]
  /\ UNCHANGED <<iRejectFutureOperations, sidVars, iInterruptHandler, iLock,
                 timerVars, mgrVars, stackVars, subVars, sessVars, iList, missed>>

ClientPush(s) ==
  /\ ~asserted
  /\ \/ clientPc[s] = "pushSubscribe" /\ clientPc' = [clientPc EXCEPT ![s] = "active"]
     \/ clientPc[s] = "pushUnsubscribe" /\ clientPc' = [clientPc EXCEPT ![s] = "return"]
  /\ Enqueue(s)
  /\ UNCHANGED <<objVars, sidVars, lockVars, timerVars, mgrVars, iActive,
                 iShutdownSem, mainPc, subVars, sessVars, missed>>

(* CpiSubscription::Unsubscribe up to the end of its iLock section.        *)
ClientUnsubscribe(s) ==
  /\ ~asserted /\ clientPc[s] = "active" /\ LockFree(s)
  /\ AddRef(s)
  /\ iEventProcessor' = [iEventProcessor EXCEPT ![s] = FALSE]
  /\ interrupted' = interrupted \cup ({iInterruptHandler[s]} \ {None})
  /\ clientPc' = [clientPc EXCEPT ![s] = "unsubscribe"]
  /\ UNCHANGED <<life, iPendingOperation, iRejectFutureOperations, sidVars,
                 iInterruptHandler, iLock, timerVars, mgrVars, stackVars,
                 iSubscriberLock, subPc, subOf, subOp, sessVars, iList, missed>>

(* Schedule(eUnsubscribe, true).                                           *)
ClientSchedule(s) ==
  /\ ~asserted /\ clientPc[s] = "unsubscribe"
  /\ IF Accepts(s)
     THEN /\ SetPending(s, "eUnsubscribe", TRUE)
          /\ clientPc' = [clientPc EXCEPT ![s] = "pushUnsubscribe"]
     ELSE /\ UNCHANGED objVars
          /\ clientPc' = [clientPc EXCEPT ![s] = "return"]
  /\ UNCHANGED <<sidVars, lockVars, timerVars, mgrVars, stackVars, subVars,
                 sessVars, iList, missed>>

(* Unsubscribe drops its own reference and CpiService the owner's.         *)
ClientReturn(s) ==
  /\ ~asserted /\ clientPc[s] = "return"
  /\ RemoveRefs(s, 2)
  /\ clientPc' = [clientPc EXCEPT ![s] = "gone"]
  /\ UNCHANGED <<sidVars, lockVars, timerVars, mgrVars, stackVars, subVars,
                 sessVars, iList, missed>>

(* ~CpiSubscription: cancelling the timer waits for a running callback.    *)
Destroy(s) ==
  /\ ~asserted /\ life[s] = "dying" /\ timerPc = "idle"
  /\ life' = [life EXCEPT ![s] = "dead"]
  /\ timer' = [timer EXCEPT ![s] = FALSE]
  /\ asserted' = (iSid[s] # 0)
  /\ UNCHANGED <<iRefCount, iPendingOperation, iRejectFutureOperations, sidVars,
                 lockVars, timerPc, timerSub, mgrVars, iActive, iShutdownSem,
                 mainPc, subVars, sessVars, clientPc, iList, missed>>

-----------------------------------------------------------------------------
(* The timer thread: TimerManager::Fire holds the callback mutex over the  *)
(* whole callback, CpiSubscription::Renew, which schedules eRenew.         *)

TimerFire(s) ==
  /\ ~asserted /\ timerPc = "idle" /\ timer[s] /\ Len(iList) < MaxQueue
  /\ timer' = [timer EXCEPT ![s] = FALSE]
  /\ timerPc' = "renew" /\ timerSub' = s
  /\ UNCHANGED <<objVars, sidVars, lockVars, mgrVars, stackVars, subVars,
                 sessVars, clientPc, iList, missed>>

TimerRenew ==
  /\ ~asserted /\ timerPc = "renew"
  /\ IF Accepts(timerSub)
     THEN /\ SetPending(timerSub, "eRenew", FALSE)
          /\ timerPc' = "push" /\ UNCHANGED timerSub
     ELSE /\ timerPc' = "idle" /\ timerSub' = None
          /\ UNCHANGED objVars
  /\ UNCHANGED <<sidVars, lockVars, timer, mgrVars, stackVars, subVars,
                 sessVars, clientPc, iList, missed>>

TimerPush ==
  /\ ~asserted /\ timerPc = "push"
  /\ Enqueue(timerSub)
  /\ timerPc' = "idle" /\ timerSub' = None
  /\ UNCHANGED <<objVars, sidVars, lockVars, timer, mgrVars, iActive,
                 iShutdownSem, mainPc, subVars, sessVars, clientPc, missed>>

-----------------------------------------------------------------------------
(* CpiSubscriptionManager::Run: wait for a queue entry and for a free      *)
(* Subscriber, pop the entry, hand it over, then look whether the          *)
(* destructor can go on.                                                   *)

ManagerTake(t) ==
  /\ ~asserted /\ mgrPc = "wait" /\ iList # <<>> /\ subPc[t] = "idle"
  /\ mgrPc' = "give" /\ mgrSub' = Head(iList) /\ mgrThread' = t
  /\ iList' = Tail(iList)
  /\ UNCHANGED <<objVars, sidVars, lockVars, timerVars, stackVars, subVars,
                 sessVars, clientPc, missed>>

ManagerGive ==
  /\ ~asserted /\ mgrPc = "give"
  /\ subOf' = [subOf EXCEPT ![mgrThread] = mgrSub]
  /\ subPc' = [subPc EXCEPT ![mgrThread] = "given"]
  /\ mgrPc' = "check" /\ mgrSub' = None /\ mgrThread' = None
  /\ UNCHANGED <<objVars, sidVars, lockVars, timerVars, stackVars,
                 iSubscriberLock, subOp, interrupted, sessVars, clientPc, iList, missed>>

ManagerCheckBug ==
  /\ ~asserted /\ mgrPc = "check"
  /\ mgrPc' = "wait"
  /\ UNCHANGED <<objVars, sidVars, lockVars, timerVars, mgrSub, mgrThread,
                 stackVars, subVars, sessVars, clientPc, iList, missed>>

ManagerCheck ==
  /\ ~asserted /\ mgrPc = "check"
  /\ iShutdownSem' = (iShutdownSem \/ ReadyForShutdown(iActive, iMap, iList))
  /\ mgrPc' = "wait"
  /\ UNCHANGED <<objVars, sidVars, lockVars, timerVars, mgrSub, mgrThread,
                 iActive, mainPc, asserted, subVars, sessVars, clientPc, iList, missed>>

-----------------------------------------------------------------------------
(* A Subscriber: CpiSubscription::RunInSubscriber.                         *)

Goto(t, pc) == subPc' = [subPc EXCEPT ![t] = pc]

(* Take iSubscriberLock, then the pending operation.                       *)
TakeOperation(t) ==
  LET s  == subOf[t]
      op == iPendingOperation[s]
  IN
  /\ ~asserted /\ subPc[t] = "given" /\ iSubscriberLock[s] = None
  /\ iSubscriberLock' = [iSubscriberLock EXCEPT ![s] = t]
  /\ EmptySlot(s)
  /\ subOp' = [subOp EXCEPT ![t] = op]
  /\ Goto(t, CASE op = "eNone"      -> "release"
               [] op = "eSubscribe" -> "subscribe"
               [] op = "eRenew"     -> "renew"
               [] OTHER             -> "cancel")
  /\ UNCHANGED <<life, iRefCount, iRejectFutureOperations, sidVars, lockVars,
                 timerVars, mgrVars, stackVars, subOf, interrupted, sessVars,
                 clientPc, iList, missed>>

(* DoSubscribe: with no network adapter it throws at once; otherwise the   *)
(* subscription is announced as pending and the request is sent.           *)
SubscribeBegin(t) ==
  /\ ~asserted /\ subPc[t] = "subscribe"
  /\ \/ Goto(t, "release") /\ UNCHANGED iPending
     \/ Goto(t, "connect") /\ iPending' = iPending \cup {subOf[t]}
  /\ UNCHANGED <<objVars, iSid, granted, iMap, lockVars, timerVars, mgrVars,
                 stackVars, iSubscriberLock, subOf, subOp, interrupted, sessVars,
                 clientPc, iList, missed>>

(* EventUpnp::Subscribe and RenewSubscription: a fresh socket is opened    *)
(* and registered for interruption.                                        *)
Connect(t) ==
  /\ ~asserted
  /\ \/ subPc[t] = "connect" /\ Goto(t, "subscribeReply")
     \/ subPc[t] = "renew" /\ Goto(t, "renewReply")
  /\ LockFree(subOf[t])
  /\ iInterruptHandler' = [iInterruptHandler EXCEPT ![subOf[t]] = t]
  /\ UNCHANGED <<objVars, sidVars, iEventProcessor, iLock, timerVars, mgrVars,
                 stackVars, iSubscriberLock, subOf, subOp, interrupted, sessVars,
                 clientPc, iList, missed>>

(* The publisher accepts: SetSid.  An interrupted socket never gets here.  *)
SubscribeOk(t) ==
  LET s == subOf[t] IN
  /\ ~asserted
  /\ subPc[t] = "subscribeReply" /\ t \notin interrupted /\ granted[s] < MaxSid
  /\ granted' = [granted EXCEPT ![s] = @ + 1]
  /\ SetSid(s, granted[s] + 1)
  /\ Goto(t, "add")
  /\ UNCHANGED <<objVars, iMap, iPending, lockVars, timerVars, mgrVars,
                 stackVars, iSubscriberLock, subOf, subOp, interrupted, sessVars,
                 clientPc, iList, missed>>

(* ~EventUpnp unregisters the socket, then CpiSubscriptionManager::Add.    *)
Add(t) ==
  LET s == subOf[t] IN
  /\ ~asserted /\ subPc[t] = "add" /\ LockFree(s)
  /\ iInterruptHandler' = [iInterruptHandler EXCEPT ![s] = None]
  /\ interrupted' = interrupted \ {t}
  /\ iMap' = iMap \cup {<<iSid[s], s>>}
  /\ RemovePendingAdd(s)
  /\ Goto(t, "arm")
  /\ UNCHANGED <<objVars, iSid, granted, iEventProcessor, iLock, timerVars,
                 mgrVars, stackVars, iSubscriberLock, subOf, subOp, sessVars,
                 clientPc, iList, missed>>

(* SetRenewTimer: a reply with a zero duration was refused as HttpError.   *)
Arm(t) ==
  /\ ~asserted /\ subPc[t] = "arm"
  /\ timer' = [timer EXCEPT ![subOf[t]] = TRUE]
  /\ Goto(t, "release")
  /\ UNCHANGED <<objVars, sidVars, lockVars, timerPc, timerSub, mgrVars,
                 stackVars, iSubscriberLock, subOf, subOp, interrupted, sessVars,
                 clientPc, iList, missed>>

(* Any of the errors: ~EventUpnp, NotifyAddAborted, rethrow.               *)
SubscribeFail(t) ==
  LET s == subOf[t] IN
  /\ ~asserted /\ subPc[t] = "subscribeReply" /\ LockFree(s)
  /\ iInterruptHandler' = [iInterruptHandler EXCEPT ![s] = None]
  /\ interrupted' = interrupted \ {t}
  /\ RemovePendingAdd(s)
  /\ Goto(t, "release")
  /\ UNCHANGED <<objVars, iSid, granted, iMap, iEventProcessor, iLock, timerVars,
                 mgrVars, stackVars, iSubscriberLock, subOf, subOp, sessVars,
                 clientPc, iList, missed>>

(* DoRenew.  No publisher renews the empty sid.                            *)
RenewReply(t) ==
  LET s == subOf[t] IN
  /\ ~asserted /\ subPc[t] = "renewReply" /\ LockFree(s)
  /\ iInterruptHandler' = [iInterruptHandler EXCEPT ![s] = None]
  /\ interrupted' = interrupted \ {t}
  /\ \/ t \notin interrupted /\ iSid[s] # 0 /\ Goto(t, "arm")
     \/ Goto(t, "renewFailed")
  /\ UNCHANGED <<objVars, sidVars, iEventProcessor, iLock, timerVars, mgrVars,
                 stackVars, iSubscriberLock, subOf, subOp, sessVars, clientPc,
                 iList, missed>>

(* DoUnsubscribe: cancel the timer, waiting for a running callback.        *)
CancelTimer(t) ==
  LET s == subOf[t] IN
  /\ ~asserted /\ subPc[t] = "cancel" /\ timerPc = "idle"
  /\ timer' = [timer EXCEPT ![s] = FALSE]
  /\ Goto(t, IF iSid[s] # 0 THEN "remove"
             ELSE IF subOp[t] = "eResubscribe" THEN "resubscribe" ELSE "release")
  /\ UNCHANGED <<objVars, sidVars, lockVars, timerPc, timerSub, mgrVars,
                 stackVars, iSubscriberLock, subOf, subOp, interrupted, sessVars,
                 clientPc, iList, missed>>

(* CpiSubscriptionManager::Remove, then iSid is moved away.  Only the      *)
(* holder of iSubscriberLock reads iSid, so the two are one step.          *)
RemoveSid(t) ==
  LET s == subOf[t] IN
  /\ ~asserted /\ subPc[t] = "remove"
  /\ EraseFromMap(s)
  /\ TransferSid(s)
  /\ missed' = [missed EXCEPT ![s] = FALSE]
  /\ iShutdownSem' = (iShutdownSem \/ ReadyForShutdown(iActive, iMap', iList))
  /\ Goto(t, "unsubscribeReply")
  /\ UNCHANGED <<objVars, granted, iPending, lockVars, timerVars, mgrVars,
                 iActive, mainPc, asserted, iSubscriberLock, subOf, subOp,
                 interrupted, sessVars, clientPc, iList>>

(* iDevice.Unsubscribe; when it throws, eResubscribe never subscribes.     *)
UnsubscribeReply(t) ==
  /\ ~asserted /\ subPc[t] = "unsubscribeReply"
  /\ \/ Goto(t, IF subOp[t] = "eResubscribe" THEN "resubscribe" ELSE "release")
     \/ Goto(t, "release")
  /\ UNCHANGED <<objVars, sidVars, lockVars, timerVars, mgrVars, stackVars,
                 iSubscriberLock, subOf, subOp, interrupted, sessVars, clientPc,
                 iList, missed>>

(* Schedule(eSubscribe) of eResubscribe, Schedule(eResubscribe) of DoRenew. *)
Reschedule(t) ==
  LET s == subOf[t] IN
  /\ ~asserted /\ subPc[t] \in {"resubscribe", "renewFailed"}
  /\ IF Accepts(s)
     THEN /\ SetPending(s, IF subPc[t] = "resubscribe" THEN "eSubscribe"
                           ELSE "eResubscribe", FALSE)
          /\ Goto(t, "push")
     ELSE UNCHANGED objVars /\ Goto(t, "release")
  /\ UNCHANGED <<sidVars, lockVars, timerVars, mgrVars, stackVars,
                 iSubscriberLock, subOf, subOp, interrupted, sessVars, clientPc,
                 iList, missed>>

SubscriberPush(t) ==
  /\ ~asserted /\ subPc[t] = "push"
  /\ Enqueue(subOf[t])
  /\ Goto(t, "release")
  /\ UNCHANGED <<objVars, sidVars, lockVars, timerVars, mgrVars, iActive,
                 iShutdownSem, mainPc, iSubscriberLock, subOf, subOp, interrupted,
                 sessVars, clientPc, missed>>

(* Leave RunInSubscriber, drop the queue entry's reference and be free.    *)
Release(t) ==
  LET s == subOf[t] IN
  /\ ~asserted /\ subPc[t] = "release"
  /\ iSubscriberLock' = [iSubscriberLock EXCEPT ![s] = None]
  /\ RemoveRefs(s, 1)
  /\ subOf' = [subOf EXCEPT ![t] = None]
  /\ subOp' = [subOp EXCEPT ![t] = "eNone"]
  /\ Goto(t, "idle")
  /\ UNCHANGED <<sidVars, lockVars, timerVars, mgrVars, stackVars, interrupted,
                 sessVars, clientPc, iList, missed>>

-----------------------------------------------------------------------------
(* An event session: EventSessionUpnp::Run.                                *)

SessionGoto(e, pc) == evPc' = [evPc EXCEPT ![e] = pc]

(* FindSubscription returns a referenced subscription.                     *)
SessionFind(e, s) ==
  /\ ~asserted /\ evPc[e] = "idle" /\ mainPc # "down" /\ Len(iList) < MaxQueue
  /\ Mapped(s) # {}
  /\ AddRef(s)
  /\ evSub' = [evSub EXCEPT ![e] = s]
  /\ SessionGoto(e, "found")
  /\ UNCHANGED <<life, iPendingOperation, iRejectFutureOperations, sidVars,
                 lockVars, timerVars, mgrVars, stackVars, subVars, evDelivers,
                 clientPc, iList, missed>>

(* UpdateSequenceNumber and reading the body: either may fail.             *)
SessionRead(e) ==
  /\ ~asserted /\ evPc[e] = "found"
  /\ \/ SessionGoto(e, "read")
     \/ SessionGoto(e, "error")
  /\ UNCHANGED <<objVars, sidVars, lockVars, timerVars, mgrVars, stackVars,
                 subVars, evSub, evDelivers, clientPc, iList, missed>>

(* EventUpdateStart locks iLock, EventUpdateEnd unlocks it.                *)
SessionUpdateStart(e) ==
  LET s == evSub[e] IN
  /\ ~asserted /\ evPc[e] = "read" /\ LockFree(s)
  /\ iLock' = [iLock EXCEPT ![s] = e]
  /\ evDelivers' = [evDelivers EXCEPT ![e] = iEventProcessor[s]]
  /\ SessionGoto(e, "update")
  /\ UNCHANGED <<objVars, sidVars, iEventProcessor, iInterruptHandler, timerVars,
                 mgrVars, stackVars, subVars, evSub, clientPc, iList, missed>>

SessionUpdateEnd(e) ==
  /\ ~asserted /\ evPc[e] = "update"
  /\ iLock' = [iLock EXCEPT ![evSub[e]] = None]
  /\ evDelivers' = [evDelivers EXCEPT ![e] = FALSE]
  /\ SessionGoto(e, "unref")
  /\ UNCHANGED <<objVars, sidVars, iEventProcessor, iInterruptHandler, timerVars,
                 mgrVars, stackVars, subVars, evSub, clientPc, iList, missed>>

(* With no propertyset in the body, ProcessNotification throws between the *)
(* two: the error is handled, and iLock stays locked for good.             *)
SessionUpdateThrow(e) ==
  /\ ~asserted /\ MayMalform /\ evPc[e] = "update"
  /\ evDelivers' = [evDelivers EXCEPT ![e] = FALSE]
  /\ SessionGoto(e, "error")
  /\ UNCHANGED <<objVars, sidVars, lockVars, timerVars, mgrVars, stackVars,
                 subVars, evSub, clientPc, iList, missed>>

(* Mutex::Wait asserts when the owner of the mutex waits for it again.     *)
SessionRelock(e) ==
  /\ ~asserted /\ evPc[e] = "read" /\ iLock[evSub[e]] = e
  /\ asserted' = TRUE
  /\ UNCHANGED <<objVars, sidVars, lockVars, timerVars, mgrVars, iActive,
                 iShutdownSem, mainPc, subVars, sessVars, clientPc, iList, missed>>

(* SetNotificationError: Schedule(eResubscribe).                           *)
SessionError(e) ==
  LET s == evSub[e] IN
  /\ ~asserted /\ evPc[e] = "error"
  /\ IF Accepts(s)
     THEN /\ SetPending(s, "eResubscribe", FALSE)
          /\ missed' = [missed EXCEPT ![s] = @ \/ iSid[s] # 0]
          /\ SessionGoto(e, "push")
     ELSE UNCHANGED <<objVars, missed>> /\ SessionGoto(e, "unref")
  /\ UNCHANGED <<sidVars, lockVars, timerVars, mgrVars, stackVars, subVars,
                 evSub, evDelivers, clientPc, iList>>

SessionPush(e) ==
  /\ ~asserted /\ evPc[e] = "push"
  /\ Enqueue(evSub[e])
  /\ SessionGoto(e, "unref")
  /\ UNCHANGED <<objVars, sidVars, lockVars, timerVars, mgrVars, iActive,
                 iShutdownSem, mainPc, subVars, evSub, evDelivers, clientPc, missed>>

SessionUnref(e) ==
  /\ ~asserted /\ evPc[e] = "unref"
  /\ RemoveRefs(evSub[e], 1)
  /\ evSub' = [evSub EXCEPT ![e] = None]
  /\ SessionGoto(e, "idle")
  /\ UNCHANGED <<sidVars, lockVars, timerVars, mgrVars, stackVars, subVars,
                 evDelivers, clientPc, iList, missed>>

-----------------------------------------------------------------------------
(* ~CpiSubscriptionManager, once every client has unsubscribed.  The       *)
(* minute it waits at most is taken to be long enough.                     *)

ShutdownBegin ==
  /\ ~asserted /\ MayShutdown /\ mainPc = "up"
  /\ \A s \in Subs : clientPc[s] \in {"none", "gone"}
  /\ iActive' = FALSE
  /\ iShutdownSem' = FALSE
  /\ mainPc' = IF ReadyForShutdown(FALSE, iMap, iList) THEN "kill" ELSE "wait"
  /\ UNCHANGED <<objVars, sidVars, lockVars, timerVars, mgrVars, asserted, subVars,
                 sessVars, clientPc, iList, missed>>

ShutdownWait ==
  /\ ~asserted /\ mainPc = "wait" /\ iShutdownSem
  /\ iShutdownSem' = FALSE
  /\ mainPc' = "kill"
  /\ UNCHANGED <<objVars, sidVars, lockVars, timerVars, mgrVars, iActive, asserted,
                 subVars, sessVars, clientPc, iList, missed>>

(* Kill and join the manager, which stops only where it waits.             *)
ShutdownKill ==
  /\ ~asserted /\ mainPc = "kill" /\ mgrPc = "wait"
  /\ mgrPc' = "dead" /\ mainPc' = "join"
  /\ UNCHANGED <<objVars, sidVars, lockVars, timerVars, mgrSub, mgrThread, iActive,
                 iShutdownSem, asserted, subVars, sessVars, clientPc, iList, missed>>

(* Kill and join the Subscribers, which finish what they were given; then  *)
(* delete the event server, which joins the sessions.  A thread that is    *)
(* inside ~CpiSubscription is not joined either before it is through.      *)
ShutdownJoin ==
  /\ ~asserted /\ \A s \in Subs : life[s] # "dying"
  /\ \/ /\ mainPc = "join" /\ \A t \in Threads : subPc[t] = "idle"
        /\ mainPc' = "server"
     \/ /\ mainPc = "server" /\ \A e \in Sessions : evPc[e] = "idle"
        /\ mainPc' = "down"
  /\ UNCHANGED <<objVars, sidVars, lockVars, timerVars, mgrVars, iActive,
                 iShutdownSem, asserted, subVars, sessVars, clientPc, iList, missed>>

-----------------------------------------------------------------------------
ClientStep(s) ==
  \/ ClientSubscribe(s) \/ ClientPush(s) \/ ClientUnsubscribe(s)
  \/ ClientSchedule(s) \/ ClientReturn(s)

TimerStep == TimerRenew \/ TimerPush

ManagerStep == (\E t \in Threads : ManagerTake(t)) \/ ManagerGive \/ ManagerCheck

OperationStep(t) ==
  \/ SubscribeBegin(t) \/ Connect(t) \/ SubscribeOk(t) \/ Add(t) \/ Arm(t)
  \/ SubscribeFail(t) \/ RenewReply(t) \/ CancelTimer(t) \/ RemoveSid(t)
  \/ UnsubscribeReply(t) \/ Reschedule(t) \/ SubscriberPush(t)

SubscriberStep(t) == TakeOperation(t) \/ OperationStep(t) \/ Release(t)

SessionStep(e) ==
  \/ SessionRead(e) \/ SessionUpdateStart(e) \/ SessionUpdateEnd(e)
  \/ SessionUpdateThrow(e) \/ SessionRelock(e)
  \/ SessionError(e) \/ SessionPush(e) \/ SessionUnref(e)

ShutdownStep == ShutdownBegin \/ ShutdownWait \/ ShutdownKill \/ ShutdownJoin

Step ==
  \/ \E s \in Subs : ClientStep(s) \/ Destroy(s) \/ TimerFire(s)
  \/ TimerStep
  \/ ManagerStep
  \/ \E t \in Threads : SubscriberStep(t)
  \/ \E e \in Sessions : SessionStep(e)
  \/ \E e \in Sessions, s \in Subs : SessionFind(e, s)
  \/ ShutdownStep

(* A session left the callbacks without releasing iLock.                   *)
LockLeft == \E e \in Sessions, s \in Subs : iLock[s] = e /\ evPc[e] # "update"

(* Where the program may rest for ever: the process was aborted, a lock    *)
(* was left taken, or every client has left and no thread has anything     *)
(* more to do.                                                             *)
Stopped ==
  \/ asserted
  \/ LockLeft
  \/ /\ \A s \in Subs : clientPc[s] \in {"none", "gone"} /\ life[s] \in {"none", "dead"}
     /\ \A t \in Threads : subPc[t] = "idle"
     /\ \A e \in Sessions : evPc[e] = "idle"
     /\ iList = <<>> /\ timerPc = "idle"
     /\ mainPc = IF MayShutdown THEN "down" ELSE "up"

Next == Step \/ (Stopped /\ UNCHANGED vars)

Spec == Init /\ [][Next]_vars

(* Every thread that can run is run, and a thread that waits for a mutex   *)
(* others take and leave gets it in the end (strong fairness).  Nobody     *)
(* has to subscribe, unsubscribe, send a notification or shut down.        *)
Fairness ==
  /\ \A s \in Subs : /\ WF_vars(ClientPush(s))
                     /\ WF_vars(ClientSchedule(s))
                     /\ WF_vars(ClientReturn(s))
                     /\ SF_vars(Destroy(s))
                     /\ WF_vars(TimerFire(s))
  /\ WF_vars(TimerStep)
  /\ WF_vars(ManagerStep)
  /\ \A t \in Threads : SF_vars(SubscriberStep(t))
  /\ \A e \in Sessions : SF_vars(SessionStep(e))
  /\ WF_vars(ShutdownWait \/ ShutdownKill)
  /\ SF_vars(ShutdownJoin)

FairSpec == Spec /\ Fairness

-----------------------------------------------------------------------------
TypeObj ==
  /\ life \in [Subs -> {"none", "live", "dying", "dead"}]
  /\ iRefCount \in [Subs -> Int]
  /\ iPendingOperation \in [Subs -> Operations]
  /\ iRejectFutureOperations \in [Subs -> BOOLEAN]

TypeSid ==
  /\ iSid \in [Subs -> 0..MaxSid]
  /\ granted \in [Subs -> 0..MaxSid]
  /\ iMap \subseteq (1..MaxSid) \X Subs
  /\ iPending \subseteq Subs

TypeLock ==
  /\ iEventProcessor \in [Subs -> BOOLEAN]
  /\ iInterruptHandler \in [Subs -> Threads \cup {None}]
  /\ iSubscriberLock \in [Subs -> Threads \cup {None}]
  /\ iLock \in [Subs -> Sessions \cup {None}]

TypeTimer ==
  /\ timer \in [Subs -> BOOLEAN]
  /\ timerPc \in {"idle", "renew", "push"}
  /\ timerSub \in Subs \cup {None}

TypeManager ==
  /\ iList \in Seq(Subs)
  /\ mgrPc \in {"wait", "give", "check", "dead"}
  /\ mgrSub \in Subs \cup {None}
  /\ mgrThread \in Threads \cup {None}

TypeStack ==
  /\ iActive \in BOOLEAN
  /\ iShutdownSem \in BOOLEAN
  /\ mainPc \in {"up", "wait", "kill", "join", "server", "down"}
  /\ clientPc \in [Subs -> {"none", "pushSubscribe", "active", "unsubscribe",
                            "pushUnsubscribe", "return", "gone"}]
  /\ missed \in [Subs -> BOOLEAN]
  /\ asserted \in BOOLEAN

TypeSubscriber ==
  /\ subPc \in [Threads -> {"idle", "given", "subscribe", "connect",
                            "subscribeReply", "add", "arm", "renew", "renewReply",
                            "renewFailed", "cancel", "remove", "unsubscribeReply",
                            "resubscribe", "push", "release"}]
  /\ subOf \in [Threads -> Subs \cup {None}]
  /\ subOp \in [Threads -> Operations]
  /\ interrupted \subseteq Threads

TypeSession ==
  /\ evPc \in [Sessions -> {"idle", "found", "read", "update", "error", "push", "unref"}]
  /\ evSub \in [Sessions -> Subs \cup {None}]
  /\ evDelivers \in [Sessions -> BOOLEAN]

(* Every variable keeps its type; in particular the map never gets an      *)
(* entry for the empty sid (the ASSERT in CpiSubscriptionManager::Add).    *)
TypeOK ==
  /\ TypeObj /\ TypeSid /\ TypeLock /\ TypeTimer
  /\ TypeManager /\ TypeStack /\ TypeSubscriber /\ TypeSession

(* Thread t is inside RunInSubscriber of s, past iSubscriberLock.          *)
Runs(t, s) == subOf[t] = s /\ subPc[t] \notin {"idle", "given"}

(* A SUBSCRIBE is only ever in preparation or in flight for a subscription *)
(* whose sid is empty: DoSubscribe overwrites iSid and the map, so a sid   *)
(* still in place would be leaked on the publisher, never unsubscribed.    *)
SubscribeOnlyWithoutSid ==
  \A t \in Threads :
    subPc[t] \in {"subscribe", "connect", "subscribeReply"} => iSid[subOf[t]] = 0

(* The slot of one operation is overwritten by every Schedule, yet the     *)
(* client's eUnsubscribe is never lost: once it is accepted it is still in *)
(* the slot, or is running, or is done, with no sid and no map entry left  *)
(* behind, whatever a running eSubscribe, eRenew or eResubscribe does.     *)
UnsubscribeNeverLost ==
  \A s \in Subs : iRejectFutureOperations[s] =>
    \/ iPendingOperation[s] = "eUnsubscribe"
    \/ /\ iPendingOperation[s] = "eNone"
       /\ \/ \E t \in Threads : Runs(t, s) /\ subOp[t] = "eUnsubscribe"
          \/ iSid[s] = 0 /\ Mapped(s) = {}

(* Some thread is on its way to take the operation in the slot of s: there *)
(* is a queue entry, the manager holds one, a Subscriber was handed one,   *)
(* or a Schedule has yet to queue.                                         *)
HasRunner(s) ==
  \/ \E i \in 1..Len(iList) : iList[i] = s
  \/ mgrSub = s
  \/ \E t \in Threads : subOf[t] = s /\ subPc[t] \in {"given", "push"}
  \/ clientPc[s] \in {"pushSubscribe", "pushUnsubscribe"}
  \/ timerPc = "push" /\ timerSub = s
  \/ \E e \in Sessions : evPc[e] = "push" /\ evSub[e] = s

(* An operation in the slot always has a thread on its way that will take  *)
(* it, however often the slot was overwritten and emptied by others.       *)
PendingHasRunner ==
  ~asserted => \A s \in Subs : iPendingOperation[s] # "eNone" => HasRunner(s)

(* The map, which is keyed by the sid's bytes and holds raw pointers, has  *)
(* a subscription only under the sid it has now: Remove, which looks the   *)
(* entry up by the current sid, therefore never leaves one behind.         *)
MapMatchesSid == \A m \in iMap : m[1] = iSid[m[2]]

(* How many references to s the code's threads and queue have to give up.  *)
Holders(s) ==
  (CASE clientPc[s] \in {"none", "gone"}                -> 0
     [] clientPc[s] = "active"                          -> 1
     [] clientPc[s] = "pushUnsubscribe"                 -> 3
     [] OTHER                                           -> 2)
  + Cardinality({i \in DOMAIN iList : iList[i] = s})
  + (IF mgrSub = s THEN 1 ELSE 0)
  + Cardinality({t \in Threads : subOf[t] = s})
  + Cardinality({t \in Threads : subOf[t] = s /\ subPc[t] = "push"})
  + (IF timerPc = "push" /\ timerSub = s THEN 1 ELSE 0)
  + Cardinality({e \in Sessions : evSub[e] = s})
  + Cardinality({e \in Sessions : evSub[e] = s /\ evPc[e] = "push"})

(* The reference count is exact, so that no thread and no queue entry is   *)
(* left with a deleted subscription, and none is deleted too late.         *)
RefCountExact ==
  ~asserted => \A s \in Subs :
    /\ iRefCount[s] = Holders(s)
    /\ life[s] \in {"none", "dying", "dead"} <=> iRefCount[s] = 0

(* The destructor finds what it asserts: the sid is empty; and nothing can *)
(* lead to the object any more: no map or pending entry, no timer thread   *)
(* inside its callback once the destructor is through.                     *)
DestroyedIsUnreachable ==
  \A s \in Subs :
    /\ life[s] \in {"dying", "dead"} => iSid[s] = 0 /\ Mapped(s) = {} /\ s \notin iPending
    /\ life[s] = "dead" => timerSub # s /\ ~timer[s]

(* Once CpiSubscription::Unsubscribe has passed its lock, no callback of   *)
(* the client's event processor is running or ever starts again.           *)
NoEventAfterUnsubscribe ==
  \A e \in Sessions : evPc[e] = "update" /\ evDelivers[e] =>
    clientPc[evSub[e]] \in {"pushSubscribe", "active"}

(* "Destructor.  Blocks until all subscriptions have been deleted": when    *)
(* the manager's destructor has joined its threads nothing is left undone,  *)
(* no queue entry, no map entry, no publisher left subscribed, no object.   *)
DrainedAtShutdown ==
  mainPc = "down" => /\ iList = <<>> /\ iMap = {}
                     /\ \A s \in Subs : iSid[s] = 0 /\ life[s] \in {"none", "dead"}

(* ASSERT(err == 0) in Mutex::Wait ("Recursive lock attempted on mutex"):  *)
(* a session never waits for a subscription's iLock that it still holds    *)
(* from an earlier notification.                                           *)
NoRecursiveLock == \A e \in Sessions : evPc[e] = "read" => iLock[evSub[e]] # e

(* An unsubscribed subscription is deleted in the end.                     *)
UnsubscribedIsDeleted ==
  \A s \in Subs : clientPc[s] = "unsubscribe" ~> (life[s] = "dead" \/ asserted)

(* "the only sure way to recover an accurate view on the state of all      *)
(* variables is to unsubscribe then subscribe again": a missed event leads *)
(* to giving up the sid it was missed on.                                  *)
MissedEventResubscribes == \A s \in Subs : missed[s] ~> ~missed[s]

(* The manager's destructor gets to its end once it has begun.             *)
ShutdownEnds == mainPc = "wait" ~> (mainPc = "down" \/ asserted)
=============================================================================
