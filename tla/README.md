# A verification project for ohNet

ohNet is a C++ stack for UPnP: a *control point* discovers devices, invokes their
actions and subscribes to their state variables; a *device* announces itself, serves
actions and publishes changes to its subscribers. Both halves are libraries full of
threads, reference counts, one-shot callbacks and timers, and most of what can go
wrong in them needs two or three threads in an order no test produces on purpose.
This directory holds TLA+ models of those parts, the TLC runs that check them, and
proofs (TLAPS) of the properties that matter most.

Paths below are relative to `src/OpenHome/` of the repository.

## Inventory

| component | source | state | operations | status |
|---|---|---|---|---|
| control point subscriptions | `Net/ControlPoint/CpiSubscription.{h,cpp}` | per subscription: references, slot for one pending operation, sid, timer, locks; manager: map by sid, queue, pending adds, waiters, active flag | subscribe, renew, unsubscribe, resubscribe; Subscriber pool; find, add, remove; pending adds; destructor | modelled: `CpSubscription`, `CpNotify` |
| event server of the control point | `Net/ControlPoint/Upnp/EventUpnp.cpp` | one session per connection | receive a NOTIFY, answer it, deliver it | modelled: both |
| UPnP protocol of the control point | `Net/ControlPoint/Upnp/ProtocolUpnp.cpp` | socket per request, interrupt handler | SUBSCRIBE, renew, UNSUBSCRIBE, action invocation | by their outcomes: `CpSubscription`, `InvocationManager` |
| device life cycle | `Net/Device/DviDevice.cpp` | enabled / disabling / disabled, completion count and callback, shutdown semaphore | SetEnabled, SetDisabled, Destroy, ProtocolDisabled | modelled: `DvDevice` (not child devices, attributes) |
| services of a device | `Net/Device/DviService.cpp` | disabled flag, running invocations, semaphore; subscriptions | Enable, Disable, Invoke; publish; add, remove and stop subscriptions | modelled: `DvDevice`, `DvSubscription` |
| UPnP protocol of a device | `Net/Device/Upnp/DviProtocolUpnp.cpp` | message schedulers, completion counts, alive timer, listeners | announce, withdraw, update, answer searches, follow the network, destructor | modelled: `DvDevice` (not the XML it serves) |
| SSDP discovery | `Net/Discovery.cpp`, `Net/Ssdp*.cpp` | handlers with a mutex each | call, add and remove handlers | the part devices see |
| timers | `Timer.cpp`, `Queue.cpp` | sorted queue, next time, callback mutex | FireIn, Cancel, Fire, Stop | modelled: `TimerManager` |
| network adapters | `NetworkAdapterList.cpp` | adapter lists, listeners and their lock | run callbacks on a change | listener lock only |
| TCP servers and sessions | `Network.cpp` | sessions with a thread each | accept, run, interrupt, join | as the models need it |
| threads, semaphores, mutexes | `Thread.cpp`, `Os/*/Os.c` | - | wait, signal, clear, kill | as counters and owners |
| device subscriptions, publishers | `Net/Device/DviSubscription.cpp` | per subscription: service, sequence numbers, timer, references; manager: map, queue, publisher pool | add, renew, expire, stop, write changes | modelled: `DvSubscription` (not the manager's destructor) |
| action invocations | `Net/ControlPoint/CpiService.cpp` | free invocations, wait list, invoker pool | invoke, interrupt, destructor | modelled: `InvocationManager` |
| control point proxies | `Net/ControlPoint/CpProxy.cpp` | subscription status, initial event, three locks | subscribe, unsubscribe, event update | planned |
| control point device lists | `Net/ControlPoint/CpiDevice.cpp`, `Upnp/CpiDeviceUpnp.cpp`, `XmlFetcher.cpp` | device maps, pending removals, XML fetches | added, removed, refresh, expiry | planned |
| Fifo | `Fifo.cpp` | indices, two semaphores, interrupt flag | read, write, interrupt | as a sequence with one reader, in `InvocationManager` |
| UPnP servers of a device | `Net/Device/Upnp/DviServerUpnp.cpp` | session with a property writer factory | SUBSCRIBE, renew, UNSUBSCRIBE; other requests | subscription requests and the factory: `DvSubscription` |
| providers | `Net/Device/DvProvider.cpp` | delayed and changed flags | set a property, lock and unlock the properties | modelled in `DvSubscription` (not the destructor) |
| collected updates for long polls | `Net/Device/DviPropertyUpdateCollection.cpp`, `DviProviderSubscriptionLongPoll.cpp` | updates per client | merge, long poll | the order of merges: `DvSubscription` |
| WebSocket server, local devices | `Net/Device/Upnp/DviServerWebSocket.cpp`, `Net/ControlPoint/Dv/CpiDeviceDv.cpp` | sessions | requests, property changes | not modelled |
| initialisation, buffers, text, HTTP, XML, Bonjour, bindings, shell | various | - | - | not modelled: sequential, text conversion, generated or third-party |

How they interact on the control point: a client's `CpiService::Subscribe` creates a
`CpiSubscription`, whose constructor *schedules* an operation. The manager's thread
hands it to a free `Subscriber` thread, which sends the request; the reply carries a
sid under which the subscription enters the manager's map. The publisher's NOTIFY
requests arrive at a session of the event server, which finds the subscription by
its sid and calls the client's event processor with the subscription's lock held.
The timer thread schedules renewals. On the device, the client's threads, the
sessions that invoke actions, the timer thread (which runs every message
scheduler), the network-change thread and the M-SEARCH listener share a device, its
service and its protocol through five mutexes and two semaphores. A change of a
property queues an update for every subscription of the service; the manager's thread
gives each to a free publisher thread, which writes what has changed. Sessions,
publishers, the timer thread and the device's owner all remove subscriptions. An action
invocation is taken from a pool by a client's thread, queued, handed to an Invoker
thread and answered by a callback of the client. Every timer of both halves goes
through one sorted queue and one thread.

What is hard about it: every asynchronous party writes the same one-slot operation;
the map and the queue hold plain pointers; replies and notifications overtake each
other; callbacks run with locks held; destructors wait for threads that want the
destructor's lock; semaphores that several threads clear, signal and take.
`PROJECT.json` lists these hazards at their lines, with the properties that
cover them and those that none covers yet.

What makes each component correct, in short:

* subscriptions: an accepted Unsubscribe is carried out, every scheduled operation is
  run by somebody, references are exact, no callback after Unsubscribe, no sid is
  leaked on a publisher, the destructor drains;
* notifications: what a subscription has counted is given to its client or reported as lost,
  a NOTIFY ahead of its sid is refused only by a session that did not wait long enough for it,
  and every NOTIFY is answered;
* devices: disabling withdraws the device, waits for its running actions, calls back
  once and ends; destroying frees nothing that is in use, and ends;
* device subscriptions: the numbers of the notifications tell the order of the changes, none
  of a subscriber's changes is left untold, a subscription is freed once, by the last who refers to it;
* timers: a timer that is set fires, not early, and not after its Cancel has returned;
* invocations: each is answered once and comes back to the pool; a service's destructor
  interrupts what is on its way, waits for it and ends;
* device lists (planned): a device is reported added and removed alternately.

## Modules

`CpSubscription` - one variable per field of the C++ objects (same names) and a
program counter per thread. A step is one critical section or one network exchange.
`Accepts`, `SetPending` and `Enqueue` are the two halves of
`CpiSubscription::Schedule`, between which other threads run; `Client*`, `Timer*`,
`Manager*`, the actions from `TakeOperation` to `Release` (the Subscriber in
`RunInSubscriber`), `Session*` and `Shutdown*` are the threads. A sid is the number
of the publisher's grant, 0 the empty one. A C++ object goes from `none` to `live`,
`dying` (in its destructor) and `dead`. The outcome of a request is a choice:
refused, lost, answered; a Subscriber that was interrupted fails. The minute the
manager's destructor waits at most is taken to be long enough. `MayMalform` lets a
NOTIFY come without a propertyset, whose exception leaves `iLock` taken for good.

`CpNotify` - what `CpSubscription` abstracts: pending adds with their counted waiters
and semaphore, sequence numbers, the response written before the body, and
`HandleInterfaceChange`, which replaces the event server. Publishers are external
(`Grant`, `Accept`, `Lose`): the next notification of a sid goes out when the last was
answered or lost. One Subscriber at a time works for a subscription: it takes what is in the
slot (`TakeOperation`) and subscribes, renews or resubscribes. As in `CpSubscription` the
slot, `iPendingOperation`, has room for one operation, and a renewal (`Renew`) or the report of
an error (`NotificationError`) overwrites what is there. `value` is the sid and number of
what the client was last given; `got` and `reported` remember what it was given under the
first sid, and whether SetNotificationError was called.

`DvDevice` - a device with one protocol and one service. Mutexes that are taken and
released without a wait make one action; those held across steps are in `lock`.
`iMsgSchedulers` is a bag: how many schedulers there are of each kind, stopped or
not, with so many messages left. `NextMsg` is the timer thread sending, or failing to
send, one message; `complete` and what follows is what it does after the last.
`iEnabled`, `iShutdownSem`, `iDisabledSem` and the counts are the code's. `owed`
counts the `SetDisabled` callbacks that have not run. How the clients
call is the model's assumption: one `SetEnabled` at a time, `SetDisabled` and `Destroy` while no
other client thread is in a call, and `SetEnabled` while another thread is in `SetDisabled` only
after that call's callback. `DvDevice.h` does not say which calls may overlap, only that a device
counts as enabled until that callback has run (`:86-87`). The number of adapters is constant: a
network change replaces one. The creation of an announcement does not fail.
The alive timer only fires when the last alive messages are out.

`DvSubscription` - one service of one device, with its subscriptions, its provider
(`SetProperty`, `TryPublishUpdate`, `PropertiesLock`, `PropertiesUnlock`), the sessions
that subscribe, renew and unsubscribe (`Subscribe` to `FirstUpdate`, `Renew`, `DoRenew`,
`Unsubscribe`), the publishers (`Dispatch`, `WriteChanges`, `ReadSequenceNumber`,
`Connect`, `Send`), and five ways to end a subscription: UNSUBSCRIBE, `Expire`, `Expel` by a
publisher after a timeout, `Close` of a session and its writer factory, and
`StopSubscriptions` by the device's owner. Those share `RemoveSubscription`, `StopLock`,
`StopCancel`, `StopUnref` and `Delete`, where a program counter says who comes from where.
`svcLock`, `propLock`, `iLock` and `cbLock` are the mutexes that are held across steps. The
service's properties are taken as one, whose value is the number of its last change, so
that "the value a subscriber was told" is a number as well. Network exchanges end well,
fail, or time out (a notification that was received may time out too). A use of a
subscription that has gone, or of its service after Stop, is a fault, where the model
stops: what happens then is not defined.

`Eventing` - what a device promises its subscribers, in terms of the last change, what each
subscriber was told of, whether it is subscribed, and whether it failed to answer. It has
no queue, no publishers and no locks. `DvSubscription` implements it for a subscriber that goes by
the numbers of its notifications: `Promise` maps `view` to the one with the largest number it has
received (`newest`; the last one received is `got`) and `open` to a subscription that is started, not
stopped and may still be notified.

`TimerManager` - the timers with their sorted queue. Times are numbers of a small word and
are compared by the sign of a difference, as in the code. As only differences matter, each
time is kept as its distance from the present: `Tick`, the passing of a millisecond, takes one
from every time that somebody has stored, so that the model has finitely many states
although time has no end. `DoAdd`, `DoRemove` and `RemoveHead` are the queue's operations;
`HeadChanged` runs under the queue's mutex and goes on with `Prime` and `Signal`, between
which the manager's thread may run. `FireIn` is three steps, as `FireAt` is. `UsedBy` says which
threads arm a timer: when there are several, both may find it removed and the second `DoAdd` asserts
(`asserted`), where the model stops. `Tick` waits for a thread that is `MaxLate` milliseconds late: half of the word is 25 days.

`InvocationManager` - one client thread per service, which invokes and in the end deletes the
service; callbacks that invoke again, for the services in `Chaining`; the manager's thread;
the Invokers. `iLock` of an Invoker is held while it runs a callback, `managerLock` while a
caller waits for a free invocation. `interrupted` is the socket's state: its handler was told
to interrupt. Clients end before the library does (`Kill` comes after the last service),
which is what `~Stack` asserts.

`CpSubscriptionProofs`, `CpSubscriptionLifeProofs`, `CpNotifyProofs`, `DvDeviceProofs`,
`DvSubscriptionProofs`, `TimerManagerProofs`, `InvocationManagerProofs` - inductive invariants
and theorems about the module each is named after. `Counting` - lemmas about cardinalities and
queues that they share. `MCCpSubscription`, `MCCpNotify`, `MCDvDevice`, `MCDvSubscription`,
`MCTimerManager`, `MCInvocationManager` - symmetry sets and constants for TLC.

Details that are taken together, since no property tells them apart: in `CpSubscription`, the destructor
of `EventUpnp` and its removal of the interrupt handler are part of the request that ends
(`ProtocolUpnp.cpp:290-294`). In `DvSubscription`, a renewal arms its timer in one step (so that two of
them do not assert; `TimerManager` has that race), a SUBSCRIBE looks at its factory and is registered in
one step (`DviServerUpnp.cpp:672-686`), and an error while a property is written, after the number was
taken (`DviSubscription.cpp:199-207`), is as one before: the subscriber is excused either way. In
`InvocationManager` a response that cannot be parsed is an error that is caught
(`ProtocolUpnp.cpp:139` leaves an AsciiError uncaught). In `TimerManager` a callback only arms its own
timer: it cancels none, and none of another (`Timer.cpp:71-78`).

The models are independent of each other: a subscription in the control point
meets a publisher only through requests, whose outcome each model leaves open. What one
model takes for granted of another part is what that part's model shows: `CpSubscription`,
`DvDevice` and `DvSubscription` use of the timers that Cancel waits for the callback that runs and
that an armed timer fires, which are `CancelledMeansQuiet` and `ArmedFires`.
Definitions named `...Bug` are mistakes kept beside the definition they would
replace; with one in place TLC finds the property violated that `PROJECT.json`
pairs it with, so that no property holds for want of cases.

## Runs

Passing runs:

| run | question | bounds |
|---|---|---|
| `subscription` | every safety property of `CpSubscription` | 1 subscription, 2 Subscribers, 2 sessions, 2 sids, shutdown, bodies without a propertyset |
| `subscription_live` | an unsubscribed subscription is deleted, the destructor ends | 1 subscription, 2 Subscribers, 1 session, 1 sid |
| `notify_pool` | no session is left on the semaphore without a count to come, an early NOTIFY is refused only by a session that did not wait long enough, what was counted is delivered or reported, every NOTIFY is answered | 2 subscriptions, 2 sessions, 1 sid, 1 notification each, timeouts, renewals of one of them, 1 network change |
| `device` | completion counts are exact, an enabled device keeps announcing itself, Destroy waits for the byebyes and for the threads in the protocol | 1 client, 2 adapters, 3 calls, 1 network change, 1 search, no invocation (those are in `device_live`) |
| `device_live` | the gate of the service, and that disable, enable and destroy end (`CallsEnd`) | 3 invoking sessions, 1 adapter, 4 calls, no search, no network change |
| `dv_subscription` | references are exact, a deleted subscription is in no list and its timer is quiet, the numbers tell the order, nothing is told before Start or after the end (`EventingKept`) | 1 subscription, 2 publishers, 1 session, renewals, all five ways to end, timeouts, a client that hangs up, 1 change |
| `dv_eventing` | what subscribers are told: `Eventing` is implemented, no change is left without somebody to tell it, Destroy ends | 1 subscription, 1 publisher, 1 session, 2 changes, timeouts, a disable and enable, Destroy |
| `timer` | the queue is sorted, its head is served, timers fire, not early and not after Cancel | 2 timers, one of which arms itself, 1 caller, delays 0 and 2 in a word of 7 times, 1 late, Stop |
| `invocation` | no invocation is lost, all are interrupted and answered, destructors block and end | 2 services (one is invoked once, one twice, from its callbacks too), 2 invocations, 2 Invokers |

Runs that end in a counterexample, each a place where the code does something else
than its own assertions or comments say (`findings` in `PROJECT.json` quotes them):

| run | what TLC shows |
|---|---|
| `notify_wait` | a session goes on although the add it waits for is pending, on a count that was meant for another session |
| `subscription_lock` | a body without a propertyset leaves `iLock` taken; the session locks it again and asserts |
| `dv_order` | two publishers write two updates of a subscription in the wrong order, which asserts where updates are merged |

### What else the models show

These follow from the models as well, though no run is kept for them. Each is
the formula to add as an invariant or property, with the constants that matter.

* `MissedEventResubscribes` in `CpSubscription` (`MaxSid = 2`, `MaxQueue = 2`, no shutdown): the
  resubscribe for a missed update, "the only sure way to recover an accurate view"
  (`CpiSubscription.cpp:63`), is overwritten in the slot by a renewal (`:165`).
* `StaleOnlyWithResubscribe` in `CpNotify`, which says that a client at rest has the last event or
  is about to resubscribe: with two sessions they deliver two updates in the wrong order, since the
  response is written before the body is processed (`EventUpnp.cpp:116`); with one session and
  `Renewing`, the resubscribe is overwritten by a renewal (`CpiSubscription.cpp:165, 247`);
  with two sids, an update of the old sid is delivered late, or an increment meets the reset of the sequence number (`:54, 192`).
* `InterfaceChangeEnds` in `CpNotify` with a network change: it joins the sessions with the
  manager's lock held, which a session needs to end (`CpiSubscription.cpp:655`).
* `NoUseAfterDelete` in `DvDevice`: the timer thread is in the protocol, at work on an update it
  completed, after the protocol's destructor (`DviProtocolUpnp.cpp:146`).
* `DestroyEnds` in `DvDevice` with a search: Destroy and an M-SEARCH wait for each other
  (`DviProtocolUpnp.cpp:68`, `Discovery.cpp:144`).
* `[](fault = "none")` in `DvSubscription`: an expiry reads `iService` after Stop set it to NULL
  or before Start set it (`DviSubscription.cpp:256`); a renewal uses a subscription that was removed
  since Find, or throws an exception nobody catches (`DviServerUpnp.cpp:783`); the first update is
  queued for a subscription that was removed and deleted meanwhile (`DviService.cpp:235`).
* `DestroyEnds` in `DvSubscription` with `MayExpire`: the timer thread, in an expiry, waits for the
  service's lock, with which StopSubscriptions waits for the callback to end
  (`DviService.cpp:102`).
* `factory[s] = e /\ ~iEnabled[e] => s \notin iSubscriptions` once `Closer` is idle and no session has a request, with two
  subscriptions: Disable removes the first one only (`DviServerUpnp.cpp:399`).
* `UpdatesMerge` and `EventingImplemented` in `DvSubscription` with one publisher, once the numbers wrap
  (`SeqMax = 2`, `MaxChanges = 3`): the device goes from the largest number to 1
  (`DviSubscription.cpp:199`), which its own `ASSERT(iSeqNum < aPropertyUpdate.SeqNum())`
  (`DviPropertyUpdateCollection.cpp:93`) does not expect, and the control point goes on to 0
  (`CpiSubscription.cpp:57`). So `NumbersTellOrder` and `EventingKept` are stated for numbers that
  have not wrapped: `version <= SeqMax`.
* `[](~asserted)` in `TimerManager` with two callers in `UsedBy` of one timer: both find it removed, and
  the second `DoAdd` asserts (`Timer.cpp:61`, `Queue.cpp:177`). The timer of a `DviSubscription` is
  such a timer: two sessions may renew it at once (`DviServerUpnp.cpp:783`, `DviSubscription.cpp:145`).
* `[](~Broken)` in `InvocationManager`: ~CpiService finds a count of 0 between the decrement and the
  signal (`CpiService.cpp:86-89`) and the signal meets a deleted service, though the destructor "will
  block until any pending invocations complete" (`CpiService.h:49`).
* `InvokedIsAnswered` and `DestructorsEnd` with one Invoker, or with more chaining callbacks at a
  time than the pools have room for: the callbacks wait for an invocation that only a callback's
  end frees (`CpiService.cpp:754`).

* `[](~asserted)` in `CpSubscription` with `MayShutdown = TRUE`: a session's
  SetNotificationError or a running resubscribe may schedule after the manager's
  destructor cleared `iActive`, which `ASSERT(self->iActive)` forbids
  (`CpiSubscription.cpp:601`).
* `iEnabled = "disabled" => ` no unstopped alive scheduler, in `DvDevice`:
  `SendAliveNotifications` asks whether the device is enabled before it takes the lock
  (`DviProtocolUpnp.cpp:479`).
* `iEnabled = "disabled" /\ owed = 0 => iCurrentInvocationCount = 0`: SetDisabled's callback
  runs while an action does (`DviDevice.cpp:400`).
* `iEnabled = "enabled" => owed = 0`: SetEnabled during a disable replaces the client's
  callback (`DviDevice.cpp:130`).
* With two clients, `AllIdle /\ iEnabled = "enabled" => ~iDisabled`: SetEnabled after the
  callback of a SetDisabled that has not returned leaves the services disabled.
* `GateMatchesInvocations` and `QuietWhenDisabled` with two clients, in the same course of events.
* `AliveKept` with `Subnets = 0` and a network change: no update is left whose completion sends
  alive messages (`DviProtocolUpnp.cpp:235`).
* `WaitCoversAdds` with one session and a timeout or a network change: the semaphore keeps a count that
  was meant for an earlier wait, or has one that no add signalled (`CpiSubscription.cpp:551, 651`).
* `DisableEnds` in `DvDevice` with `Subnets = 0`: nothing completes the disable (`DviProtocolUpnp.cpp:383`).
* `DestroyEnds` in `DvDevice` with a network change, and `DisableReturns` with a search for a service
  type: two more pairs of locks taken in both orders (`DviProtocolUpnp.cpp:68, 606`).

### Bounds, and why they are enough

One subscription suffices for `CpSubscription` because nothing but the manager's queue
and the pool is shared between two: two Subscribers are enough for one to hold
`iSubscriberLock` and the other to wait for it; two sids are a first subscription and
the one after a resubscribe; `MaxQueue` only keeps timers and notifications from
piling up equal queue entries. In `CpNotify` the pending adds, the waiters and their
semaphore are shared, so it has two subscriptions; two sessions are the fewest that
can compete for a count or hold two notifications of one subscription. `MaxSid` bounds the
resubscribes as well, and `Renewing` the renewals, to those of one subscription: it has the whole
race for its slot. In `notify_pool` one notification is counted, lost, delivered or reported; three
larger instances, too slow to keep, hold as well: one subscription with two sids, two notifications,
two sessions, renewals and everything else; two subscriptions with one session, two sids and two
notifications; two of each with one sid and two notifications. The theorems say which
invariants hold for which values of the constants.
In `DvDevice` two adapters make a completion count that is neither the first nor the
last; three calls are enable, disable, enable; three invocations let one complete
while another runs and a third starts. The number of messages in an announcement only
delays its end.
In `DvSubscription` the subscriptions share the queue, the publishers and the service's lock
only: one subscription with every way to end it finds what the threads can do to it, and two
publishers what they can do to its notifications. `dv_subscription` has one session; it holds as well
with two sessions and one publisher with a disable and an enable, and with two of each without
renewals. Two changes in `dv_eventing`
are one that is told and one that is not yet; it has one publisher for its time, and its refinement
holds as well for two with one change and a disable and enable. `SeqMax` is as large as the changes
make the numbers: they do not wrap.
In `TimerManager` two timers and `iNow` are the three entries between which a head can change;
7 times are the fewest that have room for a delay of 2 and the lateness on either side of the
wrap. Each timer has one owner there; what several do to one is in the theorems. In
`InvocationManager` two services compete for two invocations and two Invokers, so that pools run empty, an interrupt meets the other service's invocation, and an invocation is used
again by the other service.
Deadlock is checked in `subscription` (and `notify_wait`, up to its counterexample); elsewhere the system
may stop (a destroyed device, a blocked network change, a stopped timer manager).

### Fairness

Each thread of the program runs when it can (weak fairness per thread). A thread that
waits for a mutex other threads take and leave for ever gets it in the end (strong
fairness for Subscribers, sessions and destructors in `CpSubscription`, for operations
and sessions in `CpNotify`): the mutexes of the operating systems are assumed not to
starve anyone. A request is answered, refused or times out (the sockets have
timeouts); a client's callback and a provider's action return. No fairness is assumed
of the timeout of `WaitForPendingAdds`, so that no liveness rests on it. Nobody has to
subscribe, call, search, notify or change the network. `DvDevice` needs only weak
fairness. `DvSubscription` has strong fairness of each thread, whose mutexes others take and
leave; `Eventing` promises by weak fairness that a subscriber who is behind is told.
`TimerManager` has strong fairness of the manager's thread and the callers, and weak fairness
of the passing of time. In `InvocationManager` every step leads on - no thread can go round in
a circle - so it is enough that something happens as long as something can (one weak
fairness condition); nobody has to invoke or to delete a service.

## Proofs

TLAPS proves, for the constants that satisfy the modules' assumptions and those in the table,
every invariant and every action property of the passing runs, and the safety part of the
refinement (`EventingKept`, for any number of publishers). What the passing runs check beyond that is liveness.
Each `Spec => []P` goes the same way: an inductive invariant `IInv` with `Init => IInv`,
`IInv /\ [Next]_vars => IInv'` and `IInv => P`. The step is proved by a lemma per conjunct,
with one proof step per action. Before it was proved, each conjunct was checked by TLC on the
instance of a run.

The assumptions on constants are named in the modules: threads and objects of different kinds
are different, bounds are naturals, and pools (threads, invocations, publishers) are finite,
which is what a count of their members needs. Those on the timers are stated below. What a
theorem needs beyond these is in its statement (`ASSUME ... PROVE`); TLC finds
counterexamples without the assumption where the text below says so.

| module | theorems (property) | for |
|---|---|---|
| `CpSubscriptionProofs` | `Invariance`, `TypeCorrect` (`TypeOK`), `NoSidLeaked` (`SubscribeOnlyWithoutSid`), `UnsubscribeKept` (`UnsubscribeNeverLost`), `NothingStranded` (`PendingHasRunner`), `MapAgrees` (`MapMatchesSid`), `CallbacksEnd` (`NoEventAfterUnsubscribe`) | everything |
| `CpSubscriptionLifeProofs` | `Accounting`, `CountExact` (`RefCountExact`), `DeletedIsGone` (`DestroyedIsUnreachable`), `ShutdownDrains` (`DrainedAtShutdown`) | everything |
| `CpNotifyProofs` | `Invariance`, `TypeCorrect` (the types), `NobodyForgotten` (`NoWaiterForgotten`), `EarlyAccepted` (`EarlyNotifyAccepted`), `CountedDelivered` (`CountedIsDelivered`) | everything |
| `DvDeviceProofs` | `Invariance`, `TypeCorrect` (`TypeOK`), `CountsExact` (`CountsMatch`), `DestroyLast` (`DestroyComesLast`) | everything |
| | `StaysAnnounced` (`AliveKept`) | an adapter at least |
| | `GateExact` (`GateMatchesInvocations`), `QuietAfterDisable` (`QuietWhenDisabled`) | one client thread |
| `DvSubscriptionProofs` | `Invariance`, `TypeCorrect` (`TypeOK`), `CountExact` (`RefCountExact`), `DeletedIsGone` (`DestroyedIsUnreachable`), `NoChangeForgotten` (`ChangeIsPending`), `NumbersOfAll` (`NumbersTellOrder`), `KeepsPromise` (`EventingKept`) | everything |
| `TimerManagerProofs` | `Invariance`, `TypeCorrect` (`TypeOK`), `HeadIsServed` (`HeadServed`), `CancelIsFinal` (`CancelledMeansQuiet`), `NoneEarly` (`NeverEarly`) | everything |
| `InvocationManagerProofs` | `Invariance`, `NothingIsLost` (`NoneLost`), `InterruptsReach` (`InterruptReaches`), `DestructorWaits` (`DestructorBlocks`) | everything |

### Why the invariants are what they are

**Control point subscriptions.** No property is inductive by itself; `IInv` of
`CpSubscriptionProofs` adds what the code relies on silently. `ThreadShape`: a thread that is
somewhere has a subscription, an idle one has none. `LockOwner`: only the owner of
`iSubscriberLock` is inside `RunInSubscriber`, so at most one Subscriber runs a subscription's
operation. `OpAgrees`, `SidAtPc`: where a Subscriber is fits the operation it took; the sid is
empty until a SUBSCRIBE is answered and once it was taken out to unsubscribe, and is there when
the subscription enters or leaves the map. `PendingSubscribe`: while `eSubscribe` waits in the
slot the sid is empty, and a Subscriber still inside is on its way out - this is why
DoSubscribe never overwrites a sid. `Unborn`: nobody refers to an object before its constructor.
`UnsubscribeProgress`: `UnsubscribeNeverLost` with the place of the Subscriber that runs the
eUnsubscribe: it leaves the lock without a sid, and nobody after it can get one.
`CallbackLock`: a session that delivers to the client owns `iLock`, or the client has not
unsubscribed - the reason why Unsubscribe, which takes that lock to clear `iEventProcessor`, is a
barrier.

**Their references** (`CpSubscriptionLifeProofs`). The count is split into what the owner, the
queue, the manager, the Subscribers, the timer and the sessions hold (`Counted`). It is exact
only together with the reasons why nobody needs a reference where the code takes none: only
Unsubscribe makes a subscription reject (`Rejects`), its eUnsubscribe comes with its own queue
entry (`UnsubscribeQueued`), a renewal that the timer accepted before it is queued before
DoUnsubscribe is past cancelling the timer (`TimerPushes`), and no timer outlives the object
(`DeadTimer`). `Shutdown` says what is over at each point of the manager's destructor. An
assertion that failed between the two halves of a Schedule stops the process, so the account
(`Accounted`) is right up to there; the specification has no step after it.

**Notifications.** `NoWaiterForgotten` is inductive with the types, and holds whatever the
semaphore's counts are used for: a timeout leaves too much in it, never too little. Which session
takes a count is not determined, so nothing says that a wait covers its adds (`notify_wait`). What
the code does guarantee of an early NOTIFY rests on what its session saw: as long as the reply has
not been read, the add that the session found pending is still pending (`Pending`, `EarlyWaits`),
and it refuses only with that add among those it awaits. `Empty` says that a subscription being
made has no sid, `Open` that one message per sid is unanswered, `Held` that a session with
a subscription has one whose reply was read. `Counts` is `CountedIsDelivered` with the session that has
compared but not incremented: all below its number is accounted for, and the count has
not passed it, since the next notification is sent when the session has answered. It is stated for the first
sid because under the second one a late increment of the first can meet the reset of the count.

**Devices.** `CountsMatch` compares each count with the schedulers in the list, which is a bag:
`Each` makes a set of pairs of it, and the lemmas on `Push`, `Drop` and `StopAll` say what they do
to that set. It needs that byebyes are out only while the device is disabling (`Byebyes`), that
the device waits exactly then (`Shutdown`), what a client knows in the middle of a call (`Knows`),
and which calls exclude each other (`Callers`, the model's assumption about its clients). `Ended` follows the
destructor of the protocol: after each of its steps one more thread is out of it for good. Without
an adapter nothing announces the device, so `AliveKept` needs one. With two client threads,
SetEnabled after the callback of a SetDisabled that has not returned breaks the gate, so
`Gate` is stated for one.

**Device subscriptions.** Five ways to end a subscription share the removal, so the reference of
the service's list is in one place at a time (`OneHolder`): the list, the hands of one thread in
the removal, or a session that has not started the subscription. `Served` ties it to `iService`,
`Locks` and `Loops` to the service's lock, with which the owner works through its list. `Counted` is
queue entries, threads at work and that one reference; `Lives` says who may delete. The step of
`Counted` is the long one: each action is shown to change one of the three numbers as it changes
the count. `Versions` says that the properties are read in order, `Guarded` whose lock is held,
`Unsent` that nothing is sent before Start. `Numbered` says that what a
subscriber received and what is on its way to it have numbers below the next one, which differ
and are in the order of the changes: they are taken under the subscription's lock, one for each time the
properties were read and found changed. So the next number is at most the number of the last change
read, and does not wrap while `version <= SeqMax`. Most steps touch none of this (`Untold`).
`KeepsPromise` maps each step to a step of `Eventing` or a stutter: a notification received is `Notify`
if its number is the largest so far and the failing or nothing if it comes too late, Start is the
opening, the last use is the closing. By the order of arrival it would not hold (`dv_order`).

**Timers.** Times are words that wrap, so the order of the queue is meaningful only while all
times are within half of the word of each other and of the present (`Reach`). This is what
`WidthAssumption` gives: a delay and the lateness together stay within half of the word, 25 days.
A timer may be armed by any threads. What is said of where a timer is (`Owners`) is
said of those of one owner (`Own`; `Silent` are those of them whose last call was Cancel), for two
threads that arm one timer do not know of each other; an add that asserts stops the program.
Once the manager has stopped, the queue need not be sorted.
`Control` and `Owners` say who has the callback mutex and who may put a timer into the queue -
why Cancel is a barrier; `Told` and `Awake` that the manager has been told of its head or is
awake - why none is forgotten. The proof looks at a thread that tells the manager of a new head as
if it had gone on already (`at`), so that the many places from which `HeadChanged` is called
make no cases.

**Invocations.** `Placed`, an invocation is in one place, and `PendingExact`, the count of a
service is that of its invocations, say together that a count of 0 leaves nothing of the service
but Invokers past their callbacks. `SignalMeansDone` adds that no signal of an earlier time ends
a destructor's wait. `Interrupts` says what each interrupted Invoker has seen.

### Only model-checked

* The liveness properties - `UnsubscribedIsDeleted`, `ShutdownEnds`, `NotifyAnswered`, `CallsEnd`,
  `DestroyEnds`, `ArmedFires`, `InvokedIsAnswered`, `DestructorsEnd` - and the liveness part of
  `EventingImplemented`: fairness and ENABLED are out of the prover's reach.
* That the theorems that assume one client, or an adapter, need to: TLC's counterexamples above.

## Plan

1. Proofs: shorter proofs of the conjuncts with a step per action, by lemmas on what groups of
   actions leave alone.
2. `CpProxy` (the initial event, which may be delivered twice: `CpProxy.cpp:170`) and
   `CpDeviceList` (refresh and expiry against arrivals).
3. `DvDevice`: resource writing and failing announcements. `CpNotify`: the server's port
   during a change.

## Not modelled

Buffers, text, HTTP and XML conversion, sockets, Bonjour, generated bindings and the shell:
sequential, third-party or platform code in which no two threads meet. The bulk of the
repository's lines is of this kind: generated proxies and providers in every language binding.
The library's initialisation and shutdown, beyond the destructors of the two managers above.
The slots of `Fifo`, which is used with one reader at a time wherever a model has it.

## Running

    tlc -workers 2 -config MCCpSubscription.cfg MCCpSubscription
    tlapm CpSubscriptionProofs.tla

and in the same way each run and each of `Counting`, `CpSubscriptionLifeProofs`, `CpNotifyProofs`,
`DvDeviceProofs`, `DvSubscriptionProofs`, `TimerManagerProofs` and `InvocationManagerProofs`.
`PROJECT.json` lists each run with its module, configuration and properties.
