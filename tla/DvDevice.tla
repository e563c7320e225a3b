------------------------------ MODULE DvDevice ------------------------------
(***************************************************************************)
(* The life of a device: DviDevice (enable, disable, destroy), the gate    *)
(* DviService puts before action invocations, and DviProtocolUpnp, which   *)
(* announces the device through message schedulers that the timer thread   *)
(* runs one message at a time.                                             *)
(*                                                                         *)
(* The threads are the client's, the sessions that invoke actions, the     *)
(* timer thread, the thread that reports network changes and the one that  *)
(* listens for M-SEARCH requests.  A mutex that is taken and released with *)
(* no wait in between makes one action; one that is held while its owner   *)
(* waits for something else is in "lock".  A device has one protocol and   *)
(* one service, as a DvDeviceStandard with one provider.                   *)
(***************************************************************************)
EXTENDS Integers, FiniteSets

CONSTANTS
  Apps,        \* client threads
  Sessions,    \* threads that invoke actions
  None,        \* no thread
  Subnets,     \* how many adapters the protocol announces on
  Msgs,        \* messages in one announcement
  MaxCalls,    \* bound: calls of SetEnabled and SetDisabled
  MaxChanges,  \* bound: network changes
  MaxSearches, \* bound: M-SEARCH requests
  Searches     \* the kinds of M-SEARCH request that arrive

Threads == Apps \cup Sessions \cup {"timer", "net", "listener"}

ASSUME DeviceBoundAssumption ==
  /\ Subnets \in Nat /\ Msgs \in Nat \ {0}
  /\ MaxCalls \in Nat /\ MaxChanges \in Nat /\ MaxSearches \in Nat
ASSUME ThreadAssumption ==
  /\ Apps \cap Sessions = {}
  /\ (Apps \cup Sessions) \cap {"timer", "net", "listener"} = {}
  /\ None \notin Threads
ASSUME PoolAssumption == IsFiniteSet(Apps) /\ IsFiniteSet(Sessions)
ASSUME SearchAssumption == Searches \subseteq {"all", "service"}

VARIABLES
  iEnabled, iProtocolDisableCount, iShutdownSem,
  iDisableComplete,  \* what runs when the device is disabled: none, client or reenable
  iDisabled, iDisabledSem, iCurrentInvocationCount,  \* the service
  protocol,          \* live or deleted
  iSubnetDisableCount, iUpdateCount, iSuppressScheduledEvents,
  iMsgSchedulers,    \* how many schedulers of each state the protocol has
  iAliveTimer,       \* whether the timer that repeats the alive messages is set
  listening,         \* the callbacks still registered: net and search
  lock,              \* owners of the mutexes held across steps
  pc,
  fired,             \* the kind of the scheduler the timer thread is completing
  destroyer,         \* the client thread in Destroy
  owed,              \* history: aCompleted callbacks that have not run yet
  calls, changes, searches

deviceVars   == <<iEnabled, iProtocolDisableCount, iShutdownSem, iDisableComplete, owed>>
serviceVars  == <<iDisabled, iDisabledSem, iCurrentInvocationCount>>
countVars    == <<iSubnetDisableCount, iUpdateCount>>
protocolVars == <<protocol, countVars, iSuppressScheduledEvents, iMsgSchedulers,
                  iAliveTimer, listening>>
callVars     == <<destroyer, calls>>
boundVars    == <<changes, searches>>
vars == <<deviceVars, serviceVars, protocolVars, lock, pc, fired, callVars, boundVars>>

Kinds == {"alive", "byebye", "update", "msearch"}
Scheduler == [kind : Kinds, stop : BOOLEAN, left : 0..Msgs]

(* A new scheduler, and one that has sent its last message but is still in  *)
(* the list.                                                                *)
New(k)  == [kind |-> k, stop |-> FALSE, left |-> Msgs]
Over(k) == [kind |-> k, stop |-> TRUE, left |-> 0]

PushBug(list, k, n) == [list EXCEPT ![New(k)] = @ + n + 1]
Push(list, k, n) == [list EXCEPT ![New(k)] = @ + n]
Drop(list, r)    == [list EXCEPT ![r] = @ - 1]
StopAll(list)    == [r \in Scheduler |->
  IF r.stop THEN list[r] + list[[r EXCEPT !.stop = FALSE]] ELSE 0]

InList(list, k) == {r \in Scheduler : r.kind = k /\ list[r] > 0}

Free(l) == lock[l] = None
Goto(t, l) == pc' = [pc EXCEPT ![t] = l]
Take(l, t) == lock[l] = None /\ lock' = [lock EXCEPT ![l] = t]
Release(l) == lock' = [lock EXCEPT ![l] = None]

(* Where a thread goes on after it sent alive notifications, or counted an  *)
(* update as finished.                                                      *)
After(t) == IF t = "timer" THEN "fire"
            ELSE IF t = destroyer THEN "deleteSchedulers" ELSE "serviceEnable"

Init ==
  /\ iEnabled = "disabled" /\ iProtocolDisableCount = 0 /\ iShutdownSem = 1
  /\ iDisableComplete = "none" /\ owed = 0
  /\ iDisabled = TRUE /\ iDisabledSem = 1 /\ iCurrentInvocationCount = 0
  /\ protocol = "live" /\ iSubnetDisableCount = 0 /\ iUpdateCount = 0
  /\ iSuppressScheduledEvents = FALSE
  /\ iMsgSchedulers = [r \in Scheduler |-> 0]
  /\ iAliveTimer = FALSE /\ listening = {"net", "search"}
  /\ lock = [l \in {"device", "protocol", "callback", "listener", "handler"} |-> None]
  /\ pc = [t \in Threads |-> "idle"]
  /\ fired = "alive" /\ destroyer = None
  /\ calls = 0 /\ changes = 0 /\ searches = 0

-----------------------------------------------------------------------------
(* DviDevice::SetEnabled.  A client calls it on a device that is not        *)
(* enabled; while another thread is inside SetDisabled it waits for that    *)
(* call's callback, until which the device counts as enabled (DvDevice.h).  *)

Disabling(t) == pc[t] \in {"disableProtocols", "serviceDisable", "serviceWait"}

(* iShutdownSem.Clear(): what earlier completions left is forgotten.        *)
ClearShutdown == iShutdownSem' = 0

SetEnabled(a) ==
  /\ pc[a] = "idle" /\ destroyer = None /\ iEnabled # "enabled"
  /\ \A b \in Apps \ {a} : pc[b] = "idle" \/ (Disabling(b) /\ owed = 0)
  /\ calls < MaxCalls /\ calls' = calls + 1
  /\ Free("device")
  /\ \/ /\ iProtocolDisableCount # 0
        /\ iDisableComplete' = "reenable"
        /\ Goto(a, "enableWait")
        /\ UNCHANGED <<iEnabled, iShutdownSem>>
     \/ /\ iProtocolDisableCount = 0
        /\ iEnabled' = "enabled" /\ ClearShutdown
        /\ Goto(a, "protocolEnable")
        /\ UNCHANGED iDisableComplete
  /\ UNCHANGED <<iProtocolDisableCount, owed, serviceVars, protocolVars, lock,
                 fired, destroyer, boundVars>>

EnableWait(a) ==
  /\ pc[a] = "enableWait" /\ iShutdownSem > 0
  /\ iShutdownSem' = iShutdownSem - 1
  /\ Goto(a, "enableLock")
  /\ UNCHANGED <<iEnabled, iProtocolDisableCount, iDisableComplete, owed, serviceVars,
                 protocolVars, lock, fired, callVars, boundVars>>

EnableLock(a) ==
  /\ pc[a] = "enableLock" /\ Free("device")
  /\ iEnabled' = "enabled" /\ ClearShutdown
  /\ Goto(a, "protocolEnable")
  /\ UNCHANGED <<iProtocolDisableCount, iDisableComplete, owed, serviceVars,
                 protocolVars, lock, fired, callVars, boundVars>>

(* DviProtocolUpnp::Enable refreshes what is written for each adapter.      *)
ProtocolEnable(a) ==
  /\ pc[a] = "protocolEnable" /\ Free("protocol")
  /\ Goto(a, "aliveCheck")
  /\ UNCHANGED <<deviceVars, serviceVars, protocolVars, lock, fired, callVars, boundVars>>

(* SendAliveNotifications asks the device whether it is enabled, then takes *)
(* the lock.                                                                *)
AliveCheck(t) ==
  /\ pc[t] = "aliveCheck" /\ Free("device")
  /\ Goto(t, IF iEnabled = "enabled" THEN "aliveSend" ELSE After(t))
  /\ UNCHANGED <<deviceVars, serviceVars, protocolVars, lock, fired, callVars, boundVars>>

RepeatAliveBug == UNCHANGED iAliveTimer
RepeatAlive == iAliveTimer' = TRUE

AliveSend(t) ==
  /\ pc[t] = "aliveSend" /\ Free("protocol")
  /\ iMsgSchedulers' = Push(iMsgSchedulers, "alive", Subnets)
  /\ RepeatAlive
  /\ Goto(t, After(t))
  /\ UNCHANGED <<deviceVars, serviceVars, protocol, countVars,
                 iSuppressScheduledEvents, listening, lock, fired, callVars, boundVars>>

(* DviService::Enable.                                                      *)
ServiceEnable(a) ==
  /\ pc[a] = "serviceEnable"
  /\ iDisabled' = FALSE /\ iDisabledSem' = iDisabledSem + 1
  /\ Goto(a, "idle")
  /\ UNCHANGED <<deviceVars, iCurrentInvocationCount, protocolVars, lock, fired,
                 callVars, boundVars>>

-----------------------------------------------------------------------------
(* DviDevice::SetDisabled, which Destroy calls too, with the device's lock  *)
(* held and no callback.  It must not be called while the device is         *)
(* disabling (ASSERTS).                                                     *)

AllIdle == \A a \in Apps : pc[a] = "idle"

StartDisable ==
  IF iEnabled = "enabled"
  THEN iEnabled' = "disabling" /\ iProtocolDisableCount' = 1
  ELSE iEnabled' = iEnabled /\ iProtocolDisableCount' = 0

SetDisabled(a) ==
  /\ AllIdle /\ destroyer = None /\ iEnabled # "disabling"
  /\ calls < MaxCalls /\ calls' = calls + 1
  /\ Free("device")
  /\ iDisableComplete' = "client" /\ owed' = owed + 1
  /\ StartDisable
  /\ Goto(a, "disableProtocols")
  /\ UNCHANGED <<iShutdownSem, serviceVars, protocolVars, lock, fired, destroyer, boundVars>>

(* The functor in iDisableComplete, with the signal that follows it.        *)
RunDisableComplete ==
  /\ owed' = IF iDisableComplete = "client" THEN owed - 1 ELSE owed
  /\ iShutdownSem' = iShutdownSem + (IF iDisableComplete = "reenable" THEN 2 ELSE 1)

(* DviProtocolUpnp::Disable: what is being announced stops, and a byebye    *)
(* starts on each adapter.                                                  *)
ProtocolDisable ==
  /\ Free("protocol")
  /\ iMsgSchedulers' = Push(StopAll(iMsgSchedulers), "byebye", Subnets)
  /\ iSubnetDisableCount' = Subnets

DisableProtocols(a) ==
  /\ pc[a] = "disableProtocols"
  /\ \/ /\ iProtocolDisableCount = 0
        /\ RunDisableComplete
        /\ UNCHANGED <<iMsgSchedulers, iSubnetDisableCount>>
     \/ /\ iProtocolDisableCount # 0
        /\ ProtocolDisable
        /\ UNCHANGED <<owed, iShutdownSem>>
  /\ Goto(a, "serviceDisable")
  /\ UNCHANGED <<iEnabled, iProtocolDisableCount, iDisableComplete, serviceVars,
                 protocol, iUpdateCount, iSuppressScheduledEvents, iAliveTimer,
                 listening, lock, fired, callVars, boundVars>>

(* DviService::Disable: the flag, then the wait for the running invocations *)
(* (a signal after the wait lets a later call through).                     *)
ServiceDisable(a) ==
  /\ pc[a] = "serviceDisable"
  /\ iDisabled' = TRUE
  /\ Goto(a, "serviceWait")
  /\ UNCHANGED <<deviceVars, iDisabledSem, iCurrentInvocationCount, protocolVars, lock,
                 fired, callVars, boundVars>>

ServiceWait(a) ==
  /\ pc[a] = "serviceWait" /\ iDisabledSem > 0
  /\ IF a = destroyer THEN Release("device") ELSE UNCHANGED lock
  /\ Goto(a, IF a = destroyer THEN "shutdownWait" ELSE "idle")
  /\ UNCHANGED <<deviceVars, serviceVars, protocolVars, fired, callVars, boundVars>>

-----------------------------------------------------------------------------
(* DviDevice::Destroy and ~DviProtocolUpnp, which it deletes.               *)

Destroy(a) ==
  /\ AllIdle /\ destroyer = None /\ destroyer' = a
  /\ Free("device")
  /\ IF iEnabled = "enabled"
     THEN /\ iDisableComplete' = "none"
          /\ Take("device", a)
          /\ Goto(a, "disableProtocols")
          /\ StartDisable
     ELSE /\ Goto(a, "shutdownWait")
          /\ UNCHANGED <<iDisableComplete, lock, iEnabled, iProtocolDisableCount>>
  /\ UNCHANGED <<iShutdownSem, owed, serviceVars, protocolVars, fired, calls, boundVars>>

ShutdownWait(a) ==
  /\ pc[a] = "shutdownWait" /\ iShutdownSem > 0
  /\ iShutdownSem' = iShutdownSem - 1
  /\ Goto(a, "deleteTimer")
  /\ UNCHANGED <<iEnabled, iProtocolDisableCount, iDisableComplete, owed, serviceVars,
                 protocolVars, lock, fired, callVars, boundVars>>

(* Timer::Cancel from another thread than the timer's waits for the         *)
(* callbacks that are running.                                              *)
CallbacksDoneBug == TRUE
CallbacksDone == Free("callback")

DeleteTimer(a) ==
  /\ pc[a] = "deleteTimer" /\ CallbacksDone
  /\ iAliveTimer' = FALSE
  /\ Goto(a, "deleteLock")
  /\ UNCHANGED <<deviceVars, serviceVars, protocol, countVars, iSuppressScheduledEvents,
                 iMsgSchedulers, listening, lock, fired, callVars, boundVars>>

DeleteLock(a) ==
  /\ pc[a] = "deleteLock" /\ Take("protocol", a)
  /\ Goto(a, "deleteListener")
  /\ UNCHANGED <<deviceVars, serviceVars, protocolVars, fired, callVars, boundVars>>

(* RemoveCurrentChangeListener and RemoveSubnetListChangeListener.          *)
DeleteListener(a) ==
  /\ pc[a] = "deleteListener" /\ Free("listener")
  /\ listening' = listening \ {"net"}
  /\ Goto(a, "deleteAdapters")
  /\ UNCHANGED <<deviceVars, serviceVars, protocol, countVars, iSuppressScheduledEvents,
                 iMsgSchedulers, iAliveTimer, lock, fired, callVars, boundVars>>

(* Each adapter removes its M-SEARCH handler; then the lock is released.    *)
DeleteAdapters(a) ==
  /\ pc[a] = "deleteAdapters" /\ Free("handler")
  /\ listening' = listening \ {"search"}
  /\ iSuppressScheduledEvents' = TRUE
  /\ Release("protocol")
  /\ Goto(a, "deleteSchedulers")
  /\ UNCHANGED <<deviceVars, serviceVars, protocol, countVars, iMsgSchedulers,
                 iAliveTimer, fired, callVars, boundVars>>

(* ~DviMsgScheduler cancels its timer; the message it owns reports an       *)
(* update as finished when it is deleted.                                   *)
DeleteScheduler(a) ==
  /\ pc[a] = "deleteSchedulers" /\ CallbacksDone
  /\ \E r \in Scheduler :
       /\ iMsgSchedulers[r] > 0
       /\ iMsgSchedulers' = Drop(iMsgSchedulers, r)
       /\ Goto(a, IF r.kind = "update" THEN "subnetUpdated" ELSE "deleteSchedulers")
  /\ UNCHANGED <<deviceVars, serviceVars, protocol, countVars, iSuppressScheduledEvents,
                 iAliveTimer, listening, lock, fired, callVars, boundVars>>

DeleteProtocol(a) ==
  /\ pc[a] = "deleteSchedulers"
  /\ \A k \in Kinds : InList(iMsgSchedulers, k) = {}
  /\ protocol' = "deleted"
  /\ Goto(a, "releaseDevice")
  /\ UNCHANGED <<deviceVars, serviceVars, countVars, iSuppressScheduledEvents,
                 iMsgSchedulers, iAliveTimer, listening, lock, fired, callVars, boundVars>>

(* RemoveWeakRef: the device is deleted.                                    *)
ReleaseDevice(a) ==
  /\ pc[a] = "releaseDevice" /\ Free("device")
  /\ Goto(a, "gone")
  /\ UNCHANGED <<deviceVars, serviceVars, protocolVars, lock, fired, callVars, boundVars>>

-----------------------------------------------------------------------------
(* The timer thread: TimerManager::Fire takes the callback lock, runs the   *)
(* callback of every timer that expired, and releases it.                   *)

Firing == pc["timer"] = "fire" \/ (pc["timer"] = "idle" /\ Free("callback"))
TimerHolds == lock' = [lock EXCEPT !["callback"] = "timer"]

(* DviMsgScheduler::NextMsg sends a message unless it was stopped; sending  *)
(* may fail, which ends the announcement as well.                           *)
NextMsg ==
  /\ Firing /\ TimerHolds
  /\ \E r \in Scheduler, sent \in BOOLEAN :
       /\ iMsgSchedulers[r] > 0 /\ r.left > 0
       /\ IF r.stop \/ ~sent \/ r.left = 1
          THEN /\ iMsgSchedulers' = [Drop(iMsgSchedulers, r) EXCEPT ![Over(r.kind)] = @ + 1]
               /\ fired' = r.kind
               /\ Goto("timer", "complete")
          ELSE /\ iMsgSchedulers' =
                    [Drop(iMsgSchedulers, r) EXCEPT ![[r EXCEPT !.left = @ - 1]] = @ + 1]
               /\ Goto("timer", "fire")
               /\ UNCHANGED fired
  /\ UNCHANGED <<deviceVars, serviceVars, protocol, countVars, iSuppressScheduledEvents,
                 iAliveTimer, listening, callVars, boundVars>>

(* The alive timer is set for a quarter of the update time at least: the    *)
(* messages of the last time are out before it fires.                       *)
AliveTimer ==
  /\ Firing /\ TimerHolds
  /\ iAliveTimer /\ InList(iMsgSchedulers, "alive") = {}
  /\ iAliveTimer' = FALSE
  /\ Goto("timer", "aliveCheck")
  /\ UNCHANGED <<deviceVars, serviceVars, protocol, countVars, iSuppressScheduledEvents,
                 iMsgSchedulers, listening, fired, callVars, boundVars>>

FireEnd ==
  /\ pc["timer"] = "fire"
  /\ Release("callback")
  /\ Goto("timer", "idle")
  /\ UNCHANGED <<deviceVars, serviceVars, protocolVars, fired, callVars, boundVars>>

(* What the message runs when the scheduler that owns it is deleted.        *)
CompletedNeverBug(k) == "fire"
CompletedBug(k) == IF k = "byebye" THEN "subnetDisabled" ELSE "fire"
Completed(k) == CASE k = "byebye" -> "subnetDisabled"
                  [] k = "update" -> "subnetUpdated"
                  [] OTHER -> "fire"

(* DviProtocolUpnp::NotifyMsgSchedulerComplete: the scheduler is deleted    *)
(* here unless the destructor has said that it deletes those that are left. *)
MsgSchedulerComplete ==
  /\ pc["timer"] = "complete" /\ Free("protocol")
  /\ IF iSuppressScheduledEvents
     THEN Goto("timer", "fire") /\ UNCHANGED iMsgSchedulers
     ELSE /\ iMsgSchedulers' = Drop(iMsgSchedulers, Over(fired))
          /\ Goto("timer", Completed(fired))
  /\ UNCHANGED <<deviceVars, serviceVars, protocol, countVars, iSuppressScheduledEvents,
                 iAliveTimer, listening, lock, fired, callVars, boundVars>>

SubnetDisabled ==
  /\ pc["timer"] = "subnetDisabled" /\ Free("protocol")
  /\ iSubnetDisableCount' = iSubnetDisableCount - 1
  /\ Goto("timer", IF iSubnetDisableCount' = 0 THEN "protocolDisabled" ELSE "fire")
  /\ UNCHANGED <<deviceVars, serviceVars, protocol, iUpdateCount,
                 iSuppressScheduledEvents, iMsgSchedulers, iAliveTimer, listening, lock,
                 fired, callVars, boundVars>>

(* DviDevice::ProtocolDisabled, with a device that has one protocol.        *)
ProtocolDisabled ==
  /\ pc["timer"] = "protocolDisabled" /\ Free("device")
  /\ iProtocolDisableCount' = iProtocolDisableCount - 1
  /\ iEnabled' = "disabled"
  /\ RunDisableComplete
  /\ Goto("timer", "fire")
  /\ UNCHANGED <<iDisableComplete, serviceVars, protocolVars, lock, fired, callVars,
                 boundVars>>

SubnetUpdated(t) ==
  /\ pc[t] = "subnetUpdated" /\ Free("protocol")
  /\ iUpdateCount' = iUpdateCount - 1
  /\ Goto(t, IF iUpdateCount' = 0 THEN "aliveCheck" ELSE After(t))
  /\ UNCHANGED <<deviceVars, serviceVars, protocol, iSubnetDisableCount,
                 iSuppressScheduledEvents, iMsgSchedulers, iAliveTimer, listening, lock,
                 fired, callVars, boundVars>>

-----------------------------------------------------------------------------
(* DviProtocolUpnp::HandleInterfaceChange, run by NetworkAdapterList with   *)
(* its listener lock held, when one adapter takes the place of another.     *)

NetChange ==
  /\ pc["net"] = "idle" /\ "net" \in listening
  /\ changes < MaxChanges /\ changes' = changes + 1
  /\ Take("listener", "net")
  /\ Goto("net", "netCheck")
  /\ UNCHANGED <<deviceVars, serviceVars, protocolVars, fired, callVars, searches>>

NetCheck ==
  /\ pc["net"] = "netCheck" /\ Free("device")
  /\ IF iEnabled = "enabled"
     THEN Goto("net", "netStop") /\ UNCHANGED lock
     ELSE Goto("net", "idle") /\ Release("listener")
  /\ UNCHANGED <<deviceVars, serviceVars, protocolVars, fired, callVars, boundVars>>

NetStop ==
  /\ pc["net"] = "netStop" /\ Free("protocol")
  /\ iMsgSchedulers' = StopAll(iMsgSchedulers)
  /\ Goto("net", "netDelete")
  /\ UNCHANGED <<deviceVars, serviceVars, protocol, countVars, iSuppressScheduledEvents,
                 iAliveTimer, listening, lock, fired, callVars, boundVars>>

(* The adapter that went away removes its M-SEARCH handler.                 *)
NetDelete ==
  /\ pc["net"] = "netDelete" /\ Free("handler")
  /\ Goto("net", "netCancel")
  /\ UNCHANGED <<deviceVars, serviceVars, protocolVars, lock, fired, callVars, boundVars>>

(* SendUpdateNotifications.                                                 *)
NetCancel ==
  /\ pc["net"] = "netCancel" /\ CallbacksDone
  /\ iAliveTimer' = FALSE
  /\ Goto("net", "netUpdate")
  /\ UNCHANGED <<deviceVars, serviceVars, protocol, countVars, iSuppressScheduledEvents,
                 iMsgSchedulers, listening, lock, fired, callVars, boundVars>>

NetUpdate ==
  /\ pc["net"] = "netUpdate" /\ Free("protocol")
  /\ iUpdateCount' = iUpdateCount + Subnets
  /\ iMsgSchedulers' = Push(iMsgSchedulers, "update", Subnets)
  /\ Release("listener")
  /\ Goto("net", "idle")
  /\ UNCHANGED <<deviceVars, serviceVars, protocol, iSubnetDisableCount,
                 iSuppressScheduledEvents, iAliveTimer, listening, fired, callVars,
                 boundVars>>

-----------------------------------------------------------------------------
(* SsdpListenerMulticast calls the handler of an M-SEARCH with the handler's *)
(* mutex held.  SsdpSearchAll asks whether the device is enabled and then   *)
(* takes the lock; SsdpSearchServiceType takes the lock first.              *)

Msearch(k) ==
  /\ pc["listener"] = "idle" /\ "search" \in listening
  /\ searches < MaxSearches /\ searches' = searches + 1
  /\ Take("handler", "listener")
  /\ Goto("listener", IF k = "all" THEN "searchCheck" ELSE "searchLock")
  /\ UNCHANGED <<deviceVars, serviceVars, protocolVars, fired, callVars, changes>>

SearchCheck ==
  /\ pc["listener"] = "searchCheck" /\ Free("device")
  /\ IF iEnabled = "enabled"
     THEN Goto("listener", "searchPush") /\ UNCHANGED lock
     ELSE Goto("listener", "idle") /\ Release("handler")
  /\ UNCHANGED <<deviceVars, serviceVars, protocolVars, fired, callVars, boundVars>>

SearchPush ==
  /\ pc["listener"] = "searchPush" /\ Free("protocol")
  /\ iMsgSchedulers' = Push(iMsgSchedulers, "msearch", 1)
  /\ Release("handler")
  /\ Goto("listener", "idle")
  /\ UNCHANGED <<deviceVars, serviceVars, protocol, countVars, iSuppressScheduledEvents,
                 iAliveTimer, listening, fired, callVars, boundVars>>

SearchLock ==
  /\ pc["listener"] = "searchLock" /\ Take("protocol", "listener")
  /\ Goto("listener", "searchEnabled")
  /\ UNCHANGED <<deviceVars, serviceVars, protocolVars, fired, callVars, boundVars>>

SearchEnabled ==
  /\ pc["listener"] = "searchEnabled" /\ Free("device")
  /\ iMsgSchedulers' = IF iEnabled = "enabled" THEN Push(iMsgSchedulers, "msearch", 1)
                                               ELSE iMsgSchedulers
  /\ lock' = [lock EXCEPT !["protocol"] = None, !["handler"] = None]
  /\ Goto("listener", "idle")
  /\ UNCHANGED <<deviceVars, serviceVars, protocol, countVars, iSuppressScheduledEvents,
                 iAliveTimer, listening, fired, callVars, boundVars>>

-----------------------------------------------------------------------------
(* DviService::Invoke: refused with an exception while disabled.            *)

ClearDisabledBug == UNCHANGED iDisabledSem
ClearDisabled == iDisabledSem' = 0

Invoke(s) ==
  /\ pc[s] = "idle" /\ protocol = "live" /\ ~iDisabled
  /\ iCurrentInvocationCount' = iCurrentInvocationCount + 1
  /\ ClearDisabled
  /\ Goto(s, "running")
  /\ UNCHANGED <<deviceVars, iDisabled, protocolVars, lock, fired, callVars, boundVars>>

LastInvocation == iCurrentInvocationCount = 1

InvocationCompleted(s) ==
  /\ pc[s] = "running"
  /\ iCurrentInvocationCount' = iCurrentInvocationCount - 1
  /\ iDisabledSem' = IF LastInvocation THEN iDisabledSem + 1 ELSE iDisabledSem
  /\ Goto(s, "idle")
  /\ UNCHANGED <<deviceVars, iDisabled, protocolVars, lock, fired, callVars, boundVars>>

-----------------------------------------------------------------------------
ClientCall(a) == SetEnabled(a) \/ SetDisabled(a) \/ Destroy(a)

EnableStep(a) == \/ EnableWait(a) \/ EnableLock(a) \/ ProtocolEnable(a)
                 \/ AliveCheck(a) \/ AliveSend(a) \/ ServiceEnable(a)
DisableStep(a) == DisableProtocols(a) \/ ServiceDisable(a) \/ ServiceWait(a)
DestroyStep(a) == \/ ShutdownWait(a) \/ DeleteTimer(a) \/ DeleteLock(a)
                  \/ DeleteListener(a) \/ DeleteAdapters(a) \/ DeleteScheduler(a)
                  \/ SubnetUpdated(a) \/ DeleteProtocol(a) \/ ReleaseDevice(a)
CallStep(a) == EnableStep(a) \/ DisableStep(a) \/ DestroyStep(a)

TimerStep == \/ NextMsg \/ AliveTimer \/ FireEnd \/ MsgSchedulerComplete
             \/ SubnetDisabled \/ ProtocolDisabled \/ SubnetUpdated("timer")
             \/ AliveCheck("timer") \/ AliveSend("timer")

NetStep == NetCheck \/ NetStop \/ NetDelete \/ NetCancel \/ NetUpdate

ListenerStep == SearchCheck \/ SearchPush \/ SearchLock \/ SearchEnabled

Next == \/ \E a \in Apps : ClientCall(a) \/ CallStep(a)
        \/ TimerStep
        \/ NetChange \/ NetStep
        \/ \E k \in Searches : Msearch(k)
        \/ ListenerStep
        \/ \E s \in Sessions : Invoke(s) \/ InvocationCompleted(s)

Spec == Init /\ [][Next]_vars

(* Every thread that can go on does, messages fall due, and the provider's  *)
(* action functors return; nobody has to call, search or change anything.   *)
FairSpec == /\ Spec
            /\ \A a \in Apps : WF_vars(CallStep(a))
            /\ WF_vars(TimerStep) /\ WF_vars(NetStep) /\ WF_vars(ListenerStep)
            /\ \A s \in Sessions : WF_vars(InvocationCompleted(s))

-----------------------------------------------------------------------------
AppPcs == {"idle", "enableWait", "enableLock", "protocolEnable", "aliveCheck",
           "aliveSend", "serviceEnable", "disableProtocols", "serviceDisable",
           "serviceWait", "shutdownWait", "deleteTimer", "deleteLock",
           "deleteListener", "deleteAdapters", "deleteSchedulers", "subnetUpdated",
           "releaseDevice", "gone"}
TimerPcs == {"idle", "fire", "complete", "subnetDisabled", "protocolDisabled",
             "subnetUpdated", "aliveCheck", "aliveSend"}
NetPcs == {"idle", "netCheck", "netStop", "netDelete", "netCancel", "netUpdate"}
ListenerPcs == {"idle", "searchCheck", "searchPush", "searchLock", "searchEnabled"}

TypeDevice ==
  /\ iEnabled \in {"disabled", "disabling", "enabled"}
  /\ iProtocolDisableCount \in {0, 1}
  /\ iShutdownSem \in Nat /\ owed \in Nat
  /\ iDisableComplete \in {"none", "client", "reenable"}
TypeService == iDisabled \in BOOLEAN /\ iDisabledSem \in Nat /\ iCurrentInvocationCount \in Nat
TypeProtocol ==
  /\ protocol \in {"live", "deleted"}
  /\ iSubnetDisableCount \in Nat /\ iUpdateCount \in Nat
  /\ iSuppressScheduledEvents \in BOOLEAN /\ iAliveTimer \in BOOLEAN
  /\ iMsgSchedulers \in [Scheduler -> Nat]
  /\ listening \subseteq {"net", "search"}
  /\ fired \in Kinds
TypeThreads ==
  /\ lock \in [{"device", "protocol", "callback", "listener", "handler"} -> Threads \cup {None}]
  /\ DOMAIN pc = Threads
  /\ \A a \in Apps : pc[a] \in AppPcs
  /\ \A s \in Sessions : pc[s] \in {"idle", "running"}
  /\ pc["timer"] \in TimerPcs /\ pc["net"] \in NetPcs /\ pc["listener"] \in ListenerPcs
  /\ destroyer \in Apps \cup {None}
  /\ calls \in 0..MaxCalls /\ changes \in 0..MaxChanges /\ searches \in 0..MaxSearches

(* Every variable has its type: in particular no counter is decremented     *)
(* past zero, which DviProtocolUpnp::SubnetDisabled, SubnetUpdated and      *)
(* DviDevice::ProtocolDisabled assert before they decrement.                *)
TypeOK == TypeDevice /\ TypeService /\ TypeProtocol /\ TypeThreads

(* The schedulers of a list that are of kind k, told apart by numbers.      *)
Each(list, k) == UNION {{r} \X (1..list[r]) : r \in InList(list, k)}

Announcing(k) == Cardinality(Each(iMsgSchedulers, k))
Reporting(l) == Cardinality({t \in Threads : pc[t] = l})

(* DviProtocolUpnp waits for exactly the completions that are still to      *)
(* come: every byebye and every update it counts is in its list of          *)
(* schedulers or is being reported, whoever stopped or deleted it.          *)
CountsMatch ==
  /\ iSubnetDisableCount = Announcing("byebye") + Reporting("subnetDisabled")
  /\ iUpdateCount = Announcing("update") + Reporting("subnetUpdated")

Returned(a) == pc[a] \in {"idle", "shutdownWait", "deleteTimer", "deleteLock", "deleteListener",
                          "deleteAdapters", "deleteSchedulers", "subnetUpdated",
                          "releaseDevice", "gone"}

(* Once SetDisabled has returned, or Destroy has passed it, no invocation   *)
(* is running and none starts (DviService::Disable): a client that calls    *)
(* from one thread may then delete the provider.                            *)
QuietWhenDisabled ==
  (\A a \in Apps : Returned(a)) /\ iEnabled # "enabled"
     => iDisabled /\ iCurrentInvocationCount = 0

(* The semaphore DviService::Disable waits for is free exactly when nothing *)
(* runs: Disable neither returns early nor waits for a signal nobody sends. *)
GateMatchesInvocations == iDisabledSem > 0 <=> iCurrentInvocationCount = 0

(* An enabled device goes on announcing itself: its alive timer is set, or  *)
(* updates are out whose completion will send alive messages and set it.    *)
AliveKept ==
  \/ iEnabled # "enabled" \/ ~AllIdle \/ destroyer # None
  \/ iAliveTimer \/ iUpdateCount > 0
  \/ pc["timer"] \in {"aliveCheck", "aliveSend"} \/ pc["net"] = "netUpdate"

Deleting(a) == pc[a] \in {"deleteTimer", "deleteLock", "deleteListener", "deleteAdapters",
                          "deleteSchedulers", "subnetUpdated", "releaseDevice", "gone"}

(* Destroy deletes the protocol only when the byebye messages of its last   *)
(* SetDisabled are through and DviDevice knows it.                          *)
DestroyWaitsForByebye ==
  (\E a \in Apps : Deleting(a)) =>
     /\ iEnabled = "disabled"
     /\ InList(iMsgSchedulers, "byebye") = {}
     /\ pc["timer"] \notin {"subnetDisabled", "protocolDisabled"}

(* No thread calls into the protocol after ~DviProtocolUpnp: what the       *)
(* comment in NotifyMsgSchedulerComplete takes as given ("safe for us to    *)
(* delete it here").                                                        *)
NoUseAfterDelete ==
  protocol = "deleted" =>
     /\ pc["timer"] \in {"idle", "fire"}
     /\ pc["net"] = "idle" /\ pc["listener"] = "idle"

(* The part of it that holds: the thread that reports network changes, the  *)
(* one that listens for searches and the timer thread's work on byebyes are *)
(* through with the protocol when it is deleted.                            *)
DeletedIsUnreachable ==
  protocol = "deleted" =>
     /\ pc["timer"] \notin {"complete", "subnetDisabled", "protocolDisabled"}
     /\ pc["net"] = "idle" /\ pc["listener"] = "idle"
     /\ listening = {} /\ ~iAliveTimer

(* Nothing of the protocol is in use when it is deleted, but for the timer  *)
(* thread's work on an update.                                              *)
DestroyComesLast == DestroyWaitsForByebye /\ DeletedIsUnreachable

(* Disabling a device ends, and so does Destroy: ~DvDevice "can be called   *)
(* regardless of whether the device is enabled or disabled".                *)
DisableEnds == iEnabled = "disabling" ~> iEnabled # "disabling"
DestroyEnds == destroyer # None ~> protocol = "deleted"

(* SetDisabled returns; in Destroy too, which calls it with the device's    *)
(* lock held.                                                               *)
DisableReturns ==
  \A a \in Apps : pc[a] = "disableProtocols" ~> pc[a] \in {"idle", "shutdownWait"}

(* A client that enables a device while it is disabling gets it enabled.    *)
EnableEnds == \A a \in Apps : pc[a] = "enableWait" ~> pc[a] = "idle"

(* CallsEnd: every enable, disable and destroy ends: the completions it     *)
(* waits for come, whoever else takes, clears or signals the semaphores.    *)
CallsEnd == DisableEnds /\ DestroyEnds /\ DisableReturns /\ EnableEnds
=============================================================================
