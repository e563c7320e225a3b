--------------------------- MODULE DvSubscription ---------------------------
(***************************************************************************)
(* Subscriptions of a device: DviSubscription and its manager, the          *)
(* publisher threads, the subscriptions of one DviService, the              *)
(* PropertyWriterFactory of each UPnP session, the provider's changes.      *)
(* Mutexes that are taken and left without a wait in between are part of an *)
(* action; the others are variables that name their owner.                  *)
(***************************************************************************)
EXTENDS Naturals, Sequences, FiniteSets

CONSTANTS
  Subs,         \* subscriptions that can be made
  Publishers,   \* publisher threads (InitParams::DvNumPublisherThreads)
  Sessions,     \* server sessions, each with a thread and a writer factory
  Apps,         \* threads of the provider that set properties
  Timer,        \* the timer manager's thread
  Owner,        \* the thread that enables, disables and destroys the device
  Closer,       \* the thread that destroys the server and its sessions
  None,         \* nobody, no subscription
  Requests,     \* requests that clients make, of "renew" and "unsubscribe"
  Outcomes,     \* outcomes of network exchanges besides "ok": "error",
                \* "timeout", "hangup" (the client leaves before the response)
  SeqMax,       \* the largest sequence number (UINT32_MAX)
  MaxChanges,   \* bound on the changes of the properties
  MaxSwitches,  \* bound on the enables and disables of the device
  MayDestroy,   \* the device may be destroyed
  MayClose,     \* sessions may be destroyed
  MayExpire     \* subscriptions may expire

Threads == Publishers \union Sessions \union Apps \union {Timer, Owner, Closer}

ASSUME NoneAssumption == None \notin Threads \union Subs
ASSUME ThreadAssumption ==
  /\ Publishers \intersect (Sessions \union Apps \union {Timer, Owner, Closer}) = {}
  /\ Sessions \intersect (Apps \union {Timer, Owner, Closer}) = {}
  /\ Apps \intersect {Timer, Owner, Closer} = {}
  /\ Timer # Owner /\ Timer # Closer /\ Owner # Closer
ASSUME PublisherAssumption == IsFiniteSet(Publishers)
ASSUME BoundAssumption ==
  /\ SeqMax \in Nat \ {0} /\ MaxChanges \in Nat /\ MaxSwitches \in Nat
  /\ MayDestroy \in BOOLEAN /\ MayClose \in BOOLEAN /\ MayExpire \in BOOLEAN

VARIABLES
  \* the service and its provider
  svcLock,          \* DviService::iLock
  iSubscriptions,   \* DviService::iSubscriptions
  propLock,         \* DviService::iPropertiesLock
  version,          \* sequence number of the service's properties, taken as one
  iDelayPropertyUpdates, iPropertyChanged,   \* of DvProvider
  \* the subscription manager
  iMap,             \* subscriptions that can be found by their sid
  iList,            \* updates that wait for a publisher
  \* the subscriptions
  obj,              \* "none", "live" or "dead"
  iRefCount,
  iService,         \* iService # NULL
  iPropertySequenceNumbers, iSequenceNumber,
  iLock,            \* DviSubscription::iLock
  armed,            \* iTimer is in the timer manager's queue
  \* the writer factories of the sessions
  factory,          \* the session whose factory the subscription uses
  iSubscriptionMap, \* subscriptions in the map of their factory
  iEnabled,         \* of each factory
  \* the timer manager and the device
  cbLock,           \* TimerManager::iCallbackMutex
  enabled,          \* DviDevice::Enabled()
  mapped,           \* the device is in DviDeviceMap
  switches,         \* enables and disables so far
  \* threads
  pc, cur,          \* where a thread is, and the subscription it works on
  todo,             \* the subscriptions left of a loop over iSubscriptions
  writer,           \* the notification a publisher has made
  \* what can be observed
  got,              \* the last notification the subscriber received
  newest,           \* of those it received, the one with the largest number
  failed,           \* a notification to the subscriber failed
  fault             \* what the program crashed of

service == <<svcLock, iSubscriptions, propLock, version, iDelayPropertyUpdates, iPropertyChanged>>
manager == <<iMap, iList>>
sub     == <<obj, iRefCount, iService, iPropertySequenceNumbers, iSequenceNumber, iLock, armed>>
fac     == <<factory, iSubscriptionMap, iEnabled>>
device  == <<enabled, mapped, switches>>
threads == <<pc, cur, todo, writer>>
seen    == <<got, newest, failed, fault>>
vars    == <<service, manager, sub, fac, cbLock, device, threads, seen>>

Message == [seq : 0..SeqMax, val : Nat]

TypeOK ==
  /\ svcLock \in Threads \union {None} /\ propLock \in Threads \union {None}
  /\ iSubscriptions \subseteq Subs /\ version \in Nat
  /\ iDelayPropertyUpdates \in BOOLEAN /\ iPropertyChanged \in BOOLEAN
  /\ iMap \subseteq Subs /\ iList \in Seq(Subs)
  /\ obj \in [Subs -> {"none", "live", "dead"}]
  /\ iRefCount \in [Subs -> Nat]
  /\ iService \in [Subs -> BOOLEAN]
  /\ iPropertySequenceNumbers \in [Subs -> Nat]
  /\ iSequenceNumber \in [Subs -> 0..SeqMax]
  /\ iLock \in [Subs -> Threads \union {None}]
  /\ armed \in [Subs -> BOOLEAN]
  /\ factory \in [Subs -> Sessions \union {None}]
  /\ iSubscriptionMap \subseteq Subs
  /\ iEnabled \in [Sessions -> BOOLEAN]
  /\ cbLock \in {Timer, None}
  /\ enabled \in BOOLEAN /\ mapped \in BOOLEAN /\ switches \in Nat
  /\ pc \in [Threads -> {"idle", "try", "publish", "queue", "add", "respond", "start",
       "push", "first", "renew", "rearm", "expel", "remove", "stop", "cancel", "unref",
       "release", "delete", "fired", "stopAll", "stopping", "destroyed",
       "write", "props", "connect", "send"}]
  /\ cur \in [Threads -> Subs \union {None}]
  /\ todo \in [Threads -> SUBSET Subs]
  /\ writer \in [Publishers -> Message]
  /\ got \in [Subs -> Message] /\ newest \in [Subs -> Message]
  /\ failed \in [Subs -> BOOLEAN]
  /\ fault \in {"none", "expired", "renewed", "queued"}

NoMessage == [seq |-> 0, val |-> 0]

Init ==
  /\ svcLock = None /\ iSubscriptions = {} /\ propLock = None /\ version = 1
  /\ iDelayPropertyUpdates = FALSE /\ iPropertyChanged = FALSE
  /\ iMap = {} /\ iList = <<>>
  /\ obj = [s \in Subs |-> "none"]
  /\ iRefCount = [s \in Subs |-> 0]
  /\ iService = [s \in Subs |-> FALSE]
  /\ iPropertySequenceNumbers = [s \in Subs |-> 0]
  /\ iSequenceNumber = [s \in Subs |-> 0]
  /\ iLock = [s \in Subs |-> None]
  /\ armed = [s \in Subs |-> FALSE]
  /\ factory = [s \in Subs |-> None] /\ iSubscriptionMap = {}
  /\ iEnabled = [e \in Sessions |-> TRUE]
  /\ cbLock = None /\ enabled = TRUE /\ mapped = TRUE /\ switches = 0
  /\ pc = [t \in Threads |-> "idle"]
  /\ cur = [t \in Threads |-> None]
  /\ todo = [t \in Threads |-> {}]
  /\ writer = [p \in Publishers |-> NoMessage]
  /\ got = [s \in Subs |-> NoMessage] /\ newest = [s \in Subs |-> NoMessage]
  /\ failed = [s \in Subs |-> FALSE]
  /\ fault = "none"

Goto(t, l) == pc' = [pc EXCEPT ![t] = l]

(* Thread t is done with its subscription.                                 *)
GoIdle(t) ==
  /\ Goto(t, "idle")
  /\ cur' = [cur EXCEPT ![t] = None]

(* The program has crashed of f: nothing happens any more.                  *)
Crash(f) ==
  /\ fault' = f
  /\ UNCHANGED <<service, manager, sub, fac, cbLock, device, threads, got, newest, failed>>

-----------------------------------------------------------------------------
(* The provider (DvProvider) and PublishPropertyUpdates                     *)

(* SetValue, under Stack::Mutex: the properties lock is not needed.         *)
SetProperty(a) ==
  /\ pc[a] = "idle" /\ version <= MaxChanges
  /\ version' = version + 1
  /\ Goto(a, "try")
  /\ UNCHANGED <<svcLock, iSubscriptions, propLock, iDelayPropertyUpdates, iPropertyChanged,
                 manager, sub, fac, cbLock, device, cur, todo, writer, seen>>

(* A change that is delayed but not remembered.                             *)
TryPublishUpdateBug(a) ==
  /\ pc[a] = "try"
  /\ Goto(a, IF iDelayPropertyUpdates THEN "idle" ELSE "publish")
  /\ UNCHANGED <<service, manager, sub, fac, cbLock, device, cur, todo, writer, seen>>

TryPublishUpdate(a) ==
  /\ pc[a] = "try"
  /\ IF iDelayPropertyUpdates
       THEN Goto(a, "idle") /\ iPropertyChanged' = TRUE
       ELSE Goto(a, "publish") /\ UNCHANGED iPropertyChanged
  /\ UNCHANGED <<svcLock, iSubscriptions, propLock, version, iDelayPropertyUpdates,
                 manager, sub, fac, cbLock, device, cur, todo, writer, seen>>

PropertiesLock(a) ==
  /\ pc[a] = "idle" /\ propLock = None /\ version <= MaxChanges
  /\ propLock' = a
  /\ iDelayPropertyUpdates' = TRUE
  /\ UNCHANGED <<svcLock, iSubscriptions, version, iPropertyChanged,
                 manager, sub, fac, cbLock, device, threads, seen>>

PropertiesUnlock(a) ==
  /\ pc[a] = "idle" /\ propLock = a
  /\ propLock' = None
  /\ iDelayPropertyUpdates' = FALSE
  /\ iPropertyChanged' = FALSE
  /\ Goto(a, IF iPropertyChanged THEN "publish" ELSE "idle")
  /\ UNCHANGED <<svcLock, iSubscriptions, version,
                 manager, sub, fac, cbLock, device, cur, todo, writer, seen>>

PublishBegin(t) ==
  /\ pc[t] = "publish" /\ svcLock = None
  /\ svcLock' = t
  /\ todo' = [todo EXCEPT ![t] = iSubscriptions]
  /\ Goto(t, "queue")
  /\ UNCHANGED <<iSubscriptions, propLock, version, iDelayPropertyUpdates, iPropertyChanged,
                 manager, sub, fac, cbLock, device, cur, writer, seen>>

(* An update that is queued without a reference.                            *)
QueueUpdateBug(s) ==
  /\ iLock[s] = None
  /\ iList' = Append(iList, s)
  /\ UNCHANGED <<iMap, sub>>

(* DviSubscriptionManager::QueueUpdate; PropertiesInitialised takes iLock.  *)
QueueUpdate(s) ==
  /\ iLock[s] = None
  /\ iRefCount' = [iRefCount EXCEPT ![s] = @ + 1]
  /\ iList' = Append(iList, s)
  /\ UNCHANGED <<iMap, obj, iService, iPropertySequenceNumbers, iSequenceNumber, iLock, armed>>

PublishOne(t) ==
  /\ pc[t] = "queue"
  /\ \E s \in todo[t] :
       /\ QueueUpdate(s)
       /\ todo' = [todo EXCEPT ![t] = @ \ {s}]
  /\ UNCHANGED <<service, fac, cbLock, device, pc, cur, writer, seen>>

PublishEnd(t) ==
  /\ pc[t] = "queue" /\ todo[t] = {}
  /\ svcLock' = None
  /\ Goto(t, "idle")
  /\ UNCHANGED <<iSubscriptions, propLock, version, iDelayPropertyUpdates, iPropertyChanged,
                 manager, sub, fac, cbLock, device, cur, todo, writer, seen>>

-----------------------------------------------------------------------------
(* The sessions (DviSessionUpnp)                                            *)

(* Session e takes a request: the device must be found, and the server has  *)
(* not interrupted the session.                                             *)
Accepts(e) == pc[e] = "idle" /\ mapped /\ iEnabled[e]

(* The constructor of DviSubscription, which arms the timer, and            *)
(* PropertyWriterFactory::SubscriptionAdded.                                *)
Subscribe(e, s) ==
  /\ Accepts(e) /\ obj[s] = "none"
  /\ obj' = [obj EXCEPT ![s] = "live"]
  /\ iRefCount' = [iRefCount EXCEPT ![s] = 1]
  /\ armed' = [armed EXCEPT ![s] = TRUE]
  /\ factory' = [factory EXCEPT ![s] = e]
  /\ iSubscriptionMap' = iSubscriptionMap \union {s}
  /\ Goto(e, "add")
  /\ cur' = [cur EXCEPT ![e] = s]
  /\ UNCHANGED <<service, manager, iService, iPropertySequenceNumbers, iSequenceNumber, iLock,
                 iEnabled, cbLock, device, todo, writer, seen>>

AddSubscription(e) ==
  /\ pc[e] = "add"
  /\ iMap' = iMap \union {cur[e]}
  /\ Goto(e, "respond")
  /\ UNCHANGED <<service, iList, sub, fac, cbLock, device, cur, todo, writer, seen>>

(* A client that is gone makes the response throw a WriterError, which ends *)
(* the request.                                                             *)
Respond(e) ==
  /\ pc[e] = "respond"
  /\ \/ Goto(e, "start") /\ UNCHANGED cur
     \/ "hangup" \in Outcomes /\ GoIdle(e)
  /\ UNCHANGED <<service, manager, sub, fac, cbLock, device, todo, writer, seen>>

(* DviSubscription::Start                                                   *)
Start(e) ==
  /\ pc[e] = "start"
  /\ iService' = [iService EXCEPT ![cur[e]] = TRUE]
  /\ Goto(e, "push")
  /\ UNCHANGED <<service, manager, obj, iRefCount, iPropertySequenceNumbers, iSequenceNumber,
                 iLock, armed, fac, cbLock, device, cur, todo, writer, seen>>

PushSubscription(e) ==
  /\ pc[e] = "push" /\ svcLock = None
  /\ iSubscriptions' = iSubscriptions \union {cur[e]}
  /\ Goto(e, "first")
  /\ UNCHANGED <<svcLock, propLock, version, iDelayPropertyUpdates, iPropertyChanged,
                 manager, sub, fac, cbLock, device, cur, todo, writer, seen>>

(* The first update is queued with no lock held and no reference: whoever   *)
(* removed the subscription in between may have deleted it.                 *)
FirstUpdate(e) ==
  /\ pc[e] = "first"
  /\ IF iRefCount[cur[e]] = 0
       THEN Crash("queued")
       ELSE /\ QueueUpdate(cur[e])
            /\ GoIdle(e)
            /\ UNCHANGED <<service, fac, cbLock, device, todo, writer, seen>>

(* Renew and Unsubscribe find the subscription by its sid.                  *)
Find(e, s, l) ==
  /\ Accepts(e) /\ s \in iMap
  /\ Goto(e, l)
  /\ cur' = [cur EXCEPT ![e] = s]
  /\ UNCHANGED <<service, manager, sub, fac, cbLock, device, todo, writer, seen>>

Renew(e, s) == "renew" \in Requests /\ Find(e, s, "renew")
Unsubscribe(e, s) == "unsubscribe" \in Requests /\ Find(e, s, "remove")

(* A stopped subscription throws a DvSubscriptionError, which nobody        *)
(* catches; what Find returned is no reference.                             *)
RenewCheck(e) ==
  /\ pc[e] = "renew"
  /\ LET s == cur[e] IN
       IF obj[s] = "dead" \/ ~iService[s]
         THEN iLock[s] = None /\ Crash("renewed")
         ELSE /\ iLock[s] = None
              /\ Goto(e, "rearm")
              /\ UNCHANGED <<service, manager, sub, fac, cbLock, device, cur, todo, writer, seen>>

DoRenew(e) ==
  /\ pc[e] = "rearm"
  /\ IF obj[cur[e]] = "dead"
       THEN Crash("renewed")
       ELSE /\ armed' = [armed EXCEPT ![cur[e]] = TRUE]
            /\ GoIdle(e)
            /\ UNCHANGED <<service, manager, obj, iRefCount, iService, iPropertySequenceNumbers,
                           iSequenceNumber, iLock, fac, cbLock, device, todo, writer, seen>>

-----------------------------------------------------------------------------
(* The end of a subscription: DviService::RemoveSubscription and Stop, run  *)
(* by a session (UNSUBSCRIBE), the timer (Expired), a publisher after a     *)
(* timeout, the server's destructor, and, for all of them, the owner.       *)

(* Where a thread goes on that has removed a subscription.                  *)
After(t) ==
  CASE t \in Publishers \union {Closer} -> "release"
    [] t = Timer -> "fired"
    [] t = Owner -> "stopping"
    [] OTHER -> "idle"

(* Where it goes on when it has deleted one.                                *)
AfterDelete(t) == IF t \in Publishers \union {Closer} THEN "idle" ELSE After(t)

Leave(t, l) ==
  /\ Goto(t, l)
  /\ cur' = [cur EXCEPT ![t] = IF l = "release" THEN @ ELSE None]

(* DviSubscription::Remove                                                  *)
Expel(t) ==
  /\ pc[t] = "expel" /\ iLock[cur[t]] = None
  /\ Goto(t, IF iService[cur[t]] THEN "remove" ELSE "release")
  /\ UNCHANGED <<service, manager, sub, fac, cbLock, device, cur, todo, writer, seen>>

(* A subscription that is found is not erased from the list.                *)
RemoveSubscriptionBug(t) ==
  /\ pc[t] = "remove" /\ svcLock = None
  /\ IF cur[t] \in iSubscriptions
       THEN iMap' = iMap \ {cur[t]} /\ Goto(t, "stop") /\ UNCHANGED cur
       ELSE Leave(t, After(t)) /\ UNCHANGED iMap
  /\ UNCHANGED <<service, iList, sub, fac, cbLock, device, todo, writer, seen>>

RemoveSubscription(t) ==
  /\ pc[t] = "remove" /\ svcLock = None
  /\ IF cur[t] \in iSubscriptions
       THEN /\ iSubscriptions' = iSubscriptions \ {cur[t]}
            /\ iMap' = iMap \ {cur[t]}
            /\ Goto(t, "stop") /\ UNCHANGED cur
       ELSE Leave(t, After(t)) /\ UNCHANGED <<iSubscriptions, iMap>>
  /\ UNCHANGED <<svcLock, propLock, version, iDelayPropertyUpdates, iPropertyChanged, iList,
                 sub, fac, cbLock, device, todo, writer, seen>>

StopLock(t) ==
  /\ pc[t] = "stop" /\ iLock[cur[t]] = None
  /\ iLock' = [iLock EXCEPT ![cur[t]] = t]
  /\ Goto(t, "cancel")
  /\ UNCHANGED <<service, manager, obj, iRefCount, iService, iPropertySequenceNumbers,
                 iSequenceNumber, armed, fac, cbLock, device, cur, todo, writer, seen>>

(* Timer::Cancel waits for the callback that is running, unless it is its   *)
(* own caller.                                                              *)
MayCancel(t) == cbLock = None \/ t = Timer

StopCancel(t) ==
  /\ pc[t] = "cancel" /\ MayCancel(t)
  /\ armed' = [armed EXCEPT ![cur[t]] = FALSE]
  /\ iService' = [iService EXCEPT ![cur[t]] = FALSE]
  /\ iLock' = [iLock EXCEPT ![cur[t]] = None]
  /\ Goto(t, "unref")
  /\ UNCHANGED <<service, manager, obj, iRefCount, iPropertySequenceNumbers, iSequenceNumber,
                 fac, cbLock, device, cur, todo, writer, seen>>

RemoveRef(t, l) ==
  LET s == cur[t] IN
  /\ iRefCount' = [iRefCount EXCEPT ![s] = @ - 1]
  /\ IF iRefCount[s] = 1 THEN Goto(t, "delete") /\ UNCHANGED cur ELSE Leave(t, l)
  /\ UNCHANGED <<obj, iService, iPropertySequenceNumbers, iSequenceNumber, iLock, armed>>

(* StopSubscriptions takes the subscription out of the manager's map here.  *)
StopUnref(t) ==
  /\ pc[t] = "unref"
  /\ iMap' = iMap \ {cur[t]}
  /\ RemoveRef(t, After(t))
  /\ UNCHANGED <<service, iList, fac, cbLock, device, todo, writer, seen>>

Release(t) ==
  /\ pc[t] = "release"
  /\ RemoveRef(t, "idle")
  /\ UNCHANGED <<service, manager, fac, cbLock, device, todo, writer, seen>>

(* The destructor leaves the timer to Stop, which a renewal may follow.     *)
DeleteBug(t) ==
  LET s == cur[t] IN
  /\ pc[t] = "delete" /\ iLock[s] = None
  /\ obj' = [obj EXCEPT ![s] = "dead"]
  /\ iService' = [iService EXCEPT ![s] = FALSE]
  /\ iSubscriptionMap' = iSubscriptionMap \ {s}
  /\ Leave(t, AfterDelete(t))
  /\ UNCHANGED <<service, manager, iRefCount, iPropertySequenceNumbers, iSequenceNumber, iLock,
                 armed, factory, iEnabled, cbLock, device, todo, writer, seen>>

(* The destructor: out of the factory's map; the timer cancels itself.      *)
Delete(t) ==
  LET s == cur[t] IN
  /\ pc[t] = "delete" /\ iLock[s] = None /\ MayCancel(t)
  /\ obj' = [obj EXCEPT ![s] = "dead"]
  /\ armed' = [armed EXCEPT ![s] = FALSE]
  /\ iService' = [iService EXCEPT ![s] = FALSE]
  /\ iSubscriptionMap' = iSubscriptionMap \ {s}
  /\ Leave(t, AfterDelete(t))
  /\ UNCHANGED <<service, manager, iRefCount, iPropertySequenceNumbers, iSequenceNumber, iLock,
                 factory, iEnabled, cbLock, device, todo, writer, seen>>

(* Expired, with the callback lock held; iService is read without a lock.   *)
Expire(s) ==
  /\ MayExpire /\ pc[Timer] = "idle" /\ cbLock = None /\ armed[s]
  /\ IF iService[s]
       THEN /\ cbLock' = Timer
            /\ armed' = [armed EXCEPT ![s] = FALSE]
            /\ Goto(Timer, "remove")
            /\ cur' = [cur EXCEPT ![Timer] = s]
            /\ UNCHANGED <<service, manager, obj, iRefCount, iService, iPropertySequenceNumbers,
                           iSequenceNumber, iLock, fac, device, todo, writer, seen>>
       ELSE Crash("expired")

Fired ==
  /\ pc[Timer] = "fired"
  /\ cbLock' = None
  /\ GoIdle(Timer)
  /\ UNCHANGED <<service, manager, sub, fac, device, todo, writer, seen>>

(* PropertyWriterFactory::Disable, of a session that is being destroyed:    *)
(* `if' where a loop is meant takes the first subscription only.  One whose *)
(* destructor runs cannot be referenced.                                    *)
Close(e) ==
  /\ MayClose /\ pc[Closer] = "idle" /\ iEnabled[e]
  /\ iEnabled' = [iEnabled EXCEPT ![e] = FALSE]
  /\ LET mine == {s \in iSubscriptionMap : factory[s] = e} IN
       \/ \E s \in mine :
            /\ iRefCount[s] # 0
            /\ iRefCount' = [iRefCount EXCEPT ![s] = @ + 1]
            /\ Goto(Closer, "expel")
            /\ cur' = [cur EXCEPT ![Closer] = s]
       \/ /\ mine = {} \/ \E s \in mine : iRefCount[s] = 0
          /\ UNCHANGED <<iRefCount, pc, cur>>
  /\ UNCHANGED <<service, manager, obj, iService, iPropertySequenceNumbers, iSequenceNumber,
                 iLock, armed, factory, iSubscriptionMap, cbLock, device, todo, writer, seen>>

-----------------------------------------------------------------------------
(* The device's owner                                                       *)

SetDisabled ==
  /\ pc[Owner] = "idle" /\ enabled /\ switches < MaxSwitches
  /\ enabled' = FALSE /\ switches' = switches + 1
  /\ UNCHANGED <<service, manager, sub, fac, cbLock, mapped, threads, seen>>

(* A device that is enabled without telling what changed meanwhile.         *)
SetEnabledBug ==
  /\ pc[Owner] = "idle" /\ ~enabled
  /\ enabled' = TRUE
  /\ UNCHANGED <<service, manager, sub, fac, cbLock, mapped, switches, threads, seen>>

SetEnabled ==
  /\ pc[Owner] = "idle" /\ ~enabled
  /\ enabled' = TRUE
  /\ Goto(Owner, "publish")
  /\ UNCHANGED <<service, manager, sub, fac, cbLock, mapped, switches, cur, todo, writer, seen>>

Destroy ==
  /\ MayDestroy /\ pc[Owner] = "idle" /\ mapped
  /\ mapped' = FALSE /\ enabled' = FALSE
  /\ Goto(Owner, "stopAll")
  /\ UNCHANGED <<service, manager, sub, fac, cbLock, switches, cur, todo, writer, seen>>

(* StopSubscriptions holds the service's lock until the last one is stopped. *)
StopSubscriptions ==
  /\ pc[Owner] = "stopAll" /\ svcLock = None
  /\ svcLock' = Owner
  /\ todo' = [todo EXCEPT ![Owner] = iSubscriptions]
  /\ Goto(Owner, "stopping")
  /\ UNCHANGED <<iSubscriptions, propLock, version, iDelayPropertyUpdates, iPropertyChanged,
                 manager, sub, fac, cbLock, device, cur, writer, seen>>

StopNext ==
  /\ pc[Owner] = "stopping"
  /\ \E s \in todo[Owner] :
       /\ todo' = [todo EXCEPT ![Owner] = @ \ {s}]
       /\ cur' = [cur EXCEPT ![Owner] = s]
       /\ Goto(Owner, "stop")
  /\ UNCHANGED <<service, manager, sub, fac, cbLock, device, writer, seen>>

StopEnd ==
  /\ pc[Owner] = "stopping" /\ todo[Owner] = {}
  /\ iSubscriptions' = {}
  /\ svcLock' = None
  /\ Goto(Owner, "destroyed")
  /\ UNCHANGED <<propLock, version, iDelayPropertyUpdates, iPropertyChanged,
                 manager, sub, fac, cbLock, device, cur, todo, writer, seen>>

-----------------------------------------------------------------------------
(* The publishers                                                           *)

(* DviSubscriptionManager::Run hands the front of the list to a publisher   *)
(* from the Fifo of free ones.                                              *)
Dispatch(p) ==
  /\ pc[p] = "idle" /\ iList # <<>>
  /\ iList' = Tail(iList)
  /\ Goto(p, "write")
  /\ cur' = [cur EXCEPT ![p] = Head(iList)]
  /\ UNCHANGED <<service, iMap, sub, fac, cbLock, device, todo, writer, seen>>

(* CreateWriter returns early with iLock taken.                             *)
WriteChangesBug(p) ==
  /\ pc[p] = "write" /\ iLock[cur[p]] = None
  /\ iLock' = [iLock EXCEPT ![cur[p]] = p]
  /\ Goto(p, IF enabled /\ iService[cur[p]] THEN "props" ELSE "release")
  /\ UNCHANGED <<service, manager, obj, iRefCount, iService, iPropertySequenceNumbers,
                 iSequenceNumber, armed, fac, cbLock, device, cur, todo, writer, seen>>

(* A subscription that has been stopped is written to all the same.         *)
WriteStoppedBug(p) ==
  /\ pc[p] = "write" /\ iLock[cur[p]] = None
  /\ IF enabled
       THEN iLock' = [iLock EXCEPT ![cur[p]] = p] /\ Goto(p, "props")
       ELSE UNCHANGED iLock /\ Goto(p, "release")
  /\ UNCHANGED <<service, manager, obj, iRefCount, iService, iPropertySequenceNumbers,
                 iSequenceNumber, armed, fac, cbLock, device, cur, todo, writer, seen>>

(* CreateWriter: the subscription's lock, then the service's properties     *)
(* lock, both held while the writer connects to the subscriber.             *)
WriteChanges(p) ==
  /\ pc[p] = "write" /\ iLock[cur[p]] = None
  /\ IF enabled /\ iService[cur[p]]
       THEN iLock' = [iLock EXCEPT ![cur[p]] = p] /\ Goto(p, "props")
       ELSE UNCHANGED iLock /\ Goto(p, "release")
  /\ UNCHANGED <<service, manager, obj, iRefCount, iService, iPropertySequenceNumbers,
                 iSequenceNumber, armed, fac, cbLock, device, cur, todo, writer, seen>>

(* Neither lock is held while the writer connects.                          *)
ReadSequenceNumberBug(p) ==
  /\ pc[p] = "props" /\ propLock = None
  /\ iLock' = [iLock EXCEPT ![cur[p]] = None]
  /\ IF version = iPropertySequenceNumbers[cur[p]]
       THEN Goto(p, "release") /\ UNCHANGED writer
       ELSE /\ writer' = [writer EXCEPT ![p] = [seq |-> iSequenceNumber[cur[p]], val |-> version]]
            /\ Goto(p, "connect")
  /\ UNCHANGED <<service, manager, obj, iRefCount, iService, iPropertySequenceNumbers,
                 iSequenceNumber, armed, fac, cbLock, device, cur, todo, seen>>

(* The property's number is read before, its value after the connection.    *)
ReadSequenceNumber(p) ==
  /\ pc[p] = "props" /\ propLock = None
  /\ IF version = iPropertySequenceNumbers[cur[p]]
       THEN /\ iLock' = [iLock EXCEPT ![cur[p]] = None]
            /\ Goto(p, "release")
            /\ UNCHANGED <<propLock, writer>>
       ELSE /\ propLock' = p
            /\ writer' = [writer EXCEPT ![p] = [seq |-> iSequenceNumber[cur[p]], val |-> version]]
            /\ Goto(p, "connect")
            /\ UNCHANGED iLock
  /\ UNCHANGED <<svcLock, iSubscriptions, version, iDelayPropertyUpdates, iPropertyChanged,
                 manager, obj, iRefCount, iService, iPropertySequenceNumbers, iSequenceNumber,
                 armed, fac, cbLock, device, cur, todo, seen>>

NextSequenceNumber(n) == IF n = SeqMax THEN 1 ELSE n + 1

(* A factory that is disabled gives no writer.                              *)
Connect(p) ==
  LET s == cur[p] IN
  /\ pc[p] = "connect"
  /\ propLock' = None
  /\ iLock' = [iLock EXCEPT ![s] = None]
  /\ \/ /\ iEnabled[factory[s]]
        /\ iPropertySequenceNumbers' = [iPropertySequenceNumbers EXCEPT ![s] = writer[p].val]
        /\ iSequenceNumber' = [iSequenceNumber EXCEPT ![s] = NextSequenceNumber(@)]
        /\ writer' = [writer EXCEPT ![p].val = version]
        /\ Goto(p, "send")
        /\ UNCHANGED failed
     \/ /\ ~iEnabled[factory[s]] \/ "error" \in Outcomes
        /\ Goto(p, "release")
        /\ failed' = [failed EXCEPT ![s] = TRUE]
        /\ UNCHANGED <<iPropertySequenceNumbers, iSequenceNumber, writer>>
     \/ /\ iEnabled[factory[s]] /\ "timeout" \in Outcomes
        /\ Goto(p, "expel")
        /\ failed' = [failed EXCEPT ![s] = TRUE]
        /\ UNCHANGED <<iPropertySequenceNumbers, iSequenceNumber, writer>>
  /\ UNCHANGED <<svcLock, iSubscriptions, version, iDelayPropertyUpdates, iPropertyChanged,
                 manager, obj, iRefCount, iService, armed, fac, cbLock, device, cur, todo,
                 got, newest, fault>>

(* The subscriber of s receives notification m.                             *)
Receive(s, m) ==
  /\ got' = [got EXCEPT ![s] = m]
  /\ newest' = [newest EXCEPT ![s] = IF @.seq <= m.seq THEN m ELSE @]

(* PropertyWriteEnd, outside the locks: sends, and reads the response.  A   *)
(* notification that was received may still time out.                       *)
Send(p) ==
  LET s == cur[p] IN
  /\ pc[p] = "send"
  /\ writer' = [writer EXCEPT ![p] = NoMessage]
  /\ \/ /\ Receive(s, writer[p])
        /\ Goto(p, "release")
        /\ UNCHANGED failed
     \/ /\ "error" \in Outcomes
        /\ Goto(p, "release")
        /\ failed' = [failed EXCEPT ![s] = TRUE]
        /\ UNCHANGED <<got, newest>>
     \/ /\ "timeout" \in Outcomes
        /\ Receive(s, writer[p]) \/ UNCHANGED <<got, newest>>
        /\ Goto(p, "expel")
        /\ failed' = [failed EXCEPT ![s] = TRUE]
  /\ UNCHANGED <<service, manager, sub, fac, cbLock, device, cur, todo, fault>>

-----------------------------------------------------------------------------
AppStep(a) ==
  SetProperty(a) \/ TryPublishUpdate(a) \/ PropertiesLock(a) \/ PropertiesUnlock(a)

Publish(t) == PublishBegin(t) \/ PublishOne(t) \/ PublishEnd(t)

RequestStep(e) ==
  \/ AddSubscription(e) \/ Respond(e) \/ Start(e) \/ PushSubscription(e) \/ FirstUpdate(e)
  \/ RenewCheck(e) \/ DoRenew(e)

Removal(t) ==
  RemoveSubscription(t) \/ StopLock(t) \/ StopCancel(t) \/ StopUnref(t) \/ Delete(t)

OwnerStep == StopSubscriptions \/ StopNext \/ StopEnd

PublisherStep(p) ==
  \/ Dispatch(p) \/ WriteChanges(p) \/ ReadSequenceNumber(p) \/ Connect(p) \/ Send(p)
  \/ Expel(p) \/ Release(p)

Next ==
  /\ fault = "none"
  /\ \/ \E a \in Apps : AppStep(a)
     \/ \E t \in Apps \union {Owner} : Publish(t)
     \/ \E e \in Sessions :
          \/ RequestStep(e)
          \/ \E s \in Subs : Subscribe(e, s) \/ Renew(e, s) \/ Unsubscribe(e, s)
     \/ \E t \in Threads \ Apps : Removal(t)
     \/ \E s \in Subs : Expire(s)
     \/ Fired
     \/ \E e \in Sessions : Close(e)
     \/ Expel(Closer) \/ Release(Closer)
     \/ SetDisabled \/ SetEnabled \/ Destroy \/ OwnerStep
     \/ \E p \in Publishers : PublisherStep(p)

Spec == Init /\ [][Next]_vars

(* What thread t does of itself: to make a request, to change a property,   *)
(* to switch or to destroy the device is up to others.                      *)
Work(t) ==
  /\ fault = "none"
  /\ \/ t \in Publishers /\ PublisherStep(t)
     \/ t \in Apps /\ (TryPublishUpdate(t) \/ PropertiesUnlock(t))
     \/ t \in Apps \union {Owner} /\ Publish(t)
     \/ t \in Sessions /\ RequestStep(t)
     \/ t = Timer /\ Fired
     \/ t = Owner /\ OwnerStep
     \/ t = Closer /\ (Expel(t) \/ Release(t))
     \/ t \notin Apps /\ Removal(t)

(* Threads run when they can, and one that waits for a mutex that others    *)
(* take and leave gets it in the end.                                       *)
Fairness == \A t \in Threads : SF_vars(Work(t))

FairSpec == Spec /\ Fairness

-----------------------------------------------------------------------------
(* Safety                                                                   *)

Entries(s) == Cardinality({i \in DOMAIN iList : iList[i] = s})

Holders(s) ==
  \* the list of the service, or those who put it there and take it out
  {t \in Sessions : cur[t] = s /\ pc[t] \in {"add", "respond", "start", "push"}}
    \union {t \in Threads : cur[t] = s /\ pc[t] \in {"stop", "cancel", "unref"}}

Members(s) == {t \in Publishers \union {Closer} : cur[t] = s /\ pc[t] # "delete"}

(* StopSubscriptions has seen to s, which stays in the list until the end.  *)
Stopped(s) == svcLock = Owner /\ pc[Owner] # "queue" /\ s \notin todo[Owner]

(* RefCountExact: the references to a subscription are those of the         *)
(* service's list (or of the thread that adds it there or took it out), of  *)
(* the queued updates, of the publishers at work on it and of the factory   *)
(* that expels it, so that it is deleted once and by the last of them.      *)
(* A subscription whose response failed keeps its first reference for ever. *)
RefCountExact ==
  \A s \in Subs : obj[s] = "live" =>
    iRefCount[s] = Entries(s) + Cardinality(Members(s))
      + (IF \/ s \in iSubscriptions /\ ~Stopped(s)
            \/ Holders(s) # {}
            \/ s \in iMap /\ ~iService[s]   \* its response failed
           THEN 1 ELSE 0)

(* DestroyedIsUnreachable: a deleted subscription is in no list or map that *)
(* is walked without a reference, and its timer cannot fire.                *)
DestroyedIsUnreachable ==
  \A s \in Subs : obj[s] = "dead" =>
    /\ s \notin iMap \union iSubscriptionMap
    /\ s \in iSubscriptions => svcLock = Owner
    /\ ~armed[s] /\ Entries(s) = 0
    /\ \A t \in Publishers \union {Closer, Timer} : cur[t] # s

(* ChangeIsPending: while the device is enabled, a subscriber that has not  *)
(* been told of the latest change has an update queued, a publisher that    *)
(* has not read the properties yet, or a thread on its way to queue one -   *)
(* the provider, a holder of the properties lock, a SetEnabled, the session *)
(* that adds the subscription - unless a notification to it failed.         *)
ChangeIsPending ==
  \A s \in iSubscriptions :
    enabled /\ ~failed[s] /\ iPropertySequenceNumbers[s] # version =>
      \/ Entries(s) > 0
      \/ \E p \in Publishers : cur[p] = s /\ pc[p] \in {"write", "props"}
      \/ \E p \in Publishers : cur[p] = s /\ pc[p] = "connect" /\ writer[p].val = version
      \/ \E t \in Apps \union {Owner} :
           pc[t] \in {"try", "publish"} \/ (pc[t] = "queue" /\ s \in todo[t])
      \/ iDelayPropertyUpdates /\ iPropertyChanged
      \/ \E e \in Sessions : cur[e] = s /\ pc[e] = "first"

(* Notifications m and n differ in their numbers, and the larger one is that *)
(* of the same or a later change.                                           *)
Apart(m, n) ==
  /\ m.seq # n.seq
  /\ m.seq < n.seq => m.val <= n.val
  /\ n.seq < m.seq => n.val <= m.val

(* NumbersTellOrder: as long as the numbers have not wrapped, those of what *)
(* a subscriber received and of all that is on its way to it, from any      *)
(* number of publishers, differ and tell in which order the properties were *)
(* read: a subscriber can see what came too late, and what is still to come.*)
NumbersTellOrder ==
  version <= SeqMax =>
    \A p \in Publishers : pc[p] = "send" =>
      /\ \A m \in {got[cur[p]], newest[cur[p]]} \ {NoMessage} : Apart(m, writer[p])
      /\ \A q \in Publishers \ {p} :
           pc[q] = "send" /\ cur[q] = cur[p] => Apart(writer[q], writer[p])

(* UpdatesMerge: the update of a subscription follows the one that is       *)
(* there, as PropertyUpdate::Merge asserts.                                 *)
UpdatesMerge ==
  [][\A s \in Subs : got'[s] # got[s] /\ got[s] # NoMessage => got[s].seq < got'[s].seq]_vars

(* What the device promises a subscriber that goes by the numbers.          *)
Promise == INSTANCE Eventing WITH
  view    <- [s \in Subs |-> newest[s].val],
  open    <- [s \in Subs |-> iService[s] \/ \E p \in Publishers : cur[p] = s /\ pc[p] = "send"],
  excused <- failed

(* EventingImplemented: it is told of every change that is not followed by  *)
(* another one, in the end.                                                 *)
EventingImplemented == Promise!Spec

(* EventingKept: whatever the number of publishers, and as long as the      *)
(* numbers have not wrapped, it is told of changes in their order, of       *)
(* nothing before its Start, and of nothing once it is stopped but what was *)
(* on its way then.                                                         *)
EventingKept ==
  Promise!Init /\ [][version <= SeqMax => Promise!Next]_(Promise!vars)

(* DestroyEnds: DviDevice::Destroy gets rid of the subscriptions of its     *)
(* service, whoever holds their locks, if no timer expires one meanwhile    *)
(* (StopSubscriptions and the timer thread wait for each other then) and    *)
(* the program has not crashed of a use of a deleted subscription.          *)
DestroyEnds ==
  (pc[Owner] = "stopAll") ~> (pc[Owner] = "destroyed" \/ fault # "none")

=============================================================================
