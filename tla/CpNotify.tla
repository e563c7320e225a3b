------------------------------ MODULE CpNotify ------------------------------
(***************************************************************************)
(* How a notification finds its subscription and reaches the client:       *)
(* EventSessionUpnp::Run, the pending adds of CpiSubscriptionManager (the  *)
(* first NOTIFY may overtake the SUBSCRIBE reply that carries its sid),    *)
(* the sequence numbers, and the event server that is replaced when the    *)
(* network interface changes.                                              *)
(*                                                                         *)
(* Publishers are external: once a publisher has granted a sid it sends    *)
(* notifications 0, 1, ... for it, the next one when the last was answered *)
(* or lost.  What a Subscriber does to one subscription is a line of steps *)
(* here, from the slot of its pending operation back to rest.  A Schedule  *)
(* is one step.  CpSubscription has how operations are scheduled, and what *)
(* a body without a propertyset does, which no publisher here sends.       *)
(***************************************************************************)
EXTENDS Integers, FiniteSets

CONSTANTS
  Subs,         \* subscriptions
  Sessions,     \* the EventSessionUpnp threads of the event server
  MaxSid,       \* bound: how many sids a publisher grants to a subscription
  MaxSeq,       \* bound: notifications sent under one sid
  MaxIfChanges, \* bound: changes of the network interface
  Renewing,     \* bound: subscriptions whose renewal may fall due
  MayTimeout    \* whether a WaitForPendingAdds may run into its timeout

ASSUME NotifyBoundAssumption ==
  MaxSid \in Nat /\ MaxSeq \in Nat /\ MaxIfChanges \in Nat
ASSUME TimeoutAssumption == MayTimeout \in BOOLEAN
ASSUME PoolAssumption == Subs # {} /\ IsFiniteSet(Sessions)

VARIABLES
  opPc,       \* the Subscriber at work on a subscription
  iSid,       \* 0 is the empty sid
  granted,    \* publisher: how many sids it has granted
  iMap,       \* subscriptions in the manager's map, each under its iSid
  iPending,   \* iPendingSubscriptions
  iWaiters, iWaiter,       \* the count of waiters, and the semaphore
  iNextSequenceNumber,
  iPendingOperation,       \* the slot of one operation
  iTimer,                  \* the renewal timer is armed
  value,                   \* <<sid, sequence number>> last delivered to the client
  nextSeq,                 \* publisher: the next number under each sid
  evPc, evMsg, evSub,      \* the sessions; evSub FALSE is NULL, NoMsg at rest
  ifPc, ifChanges,         \* HandleInterfaceChange; it holds the manager's lock
  awaits, timedOut,        \* history: adds a waiting session has yet to see end
  got, reported            \* history: the first sid's numbers the client was given,
                           \* whether SetNotificationError was called

opVars   == <<opPc, iSid, granted, iMap>>
slotVars == <<iPendingOperation, iTimer>>
waitVars == <<iPending, iWaiters, iWaiter, awaits, timedOut>>
evVars   == <<evPc, evMsg, evSub>>
ifVars   == <<ifPc, ifChanges>>
cliVars  == <<value, got, reported>>
vars == <<opVars, slotVars, waitVars, nextSeq, evVars, ifVars, cliVars,
          iNextSequenceNumber>>

Sids == 1..MaxSid
NoMsg == [sub |-> CHOOSE s \in Subs : TRUE, sid |-> 0, seq |-> 0]

Init ==
  /\ opPc = [s \in Subs |-> "rest"]
  /\ iSid = [s \in Subs |-> 0]
  /\ granted = [s \in Subs |-> 0]
  /\ iMap = {} /\ iPending = {}
  /\ iWaiters = 0 /\ iWaiter = 0
  /\ iNextSequenceNumber = [s \in Subs |-> 0]
  /\ iPendingOperation = [s \in Subs |-> "eSubscribe"]
  /\ iTimer = [s \in Subs |-> FALSE]
  /\ value = [s \in Subs |-> <<0, 0>>]
  /\ nextSeq = [s \in Subs |-> [n \in Sids |-> 0]]
  /\ evPc = [e \in Sessions |-> "idle"]
  /\ evMsg = [e \in Sessions |-> NoMsg]
  /\ evSub = [e \in Sessions |-> FALSE]
  /\ ifPc = "idle" /\ ifChanges = 0
  /\ awaits = [e \in Sessions |-> {}]
  /\ timedOut = [e \in Sessions |-> FALSE]
  /\ got = [s \in Subs |-> {}]
  /\ reported = [s \in Subs |-> FALSE]

-----------------------------------------------------------------------------
(* Definitions named ...Bug are deliberate mistakes: each stands before    *)
(* the definition it would replace, and shows that some property notices.  *)

(* CpiSubscriptionManager::iLock; only HandleInterfaceChange keeps it.     *)
ManagerFree == ifPc = "idle"

NotifyAddPendingBug(s) == UNCHANGED iPending

NotifyAddPending(s) == iPending' = iPending \cup {s}

SignalWaitersBug ==
  iWaiters' = 0 /\ iWaiter' = IF iWaiters = 0 THEN iWaiter ELSE iWaiter + 1

SignalWaiters == iWaiters' = 0 /\ iWaiter' = iWaiter + iWaiters

RemovePendingAdd(s) ==
  /\ iPending' = iPending \ {s}
  /\ IF iPending' = {} THEN SignalWaiters ELSE UNCHANGED <<iWaiters, iWaiter>>
  /\ awaits' = [e \in Sessions |-> awaits[e] \ {s}]
  /\ UNCHANGED timedOut

(* CpiSubscriptionManager::FindSubscription finds the sid of m.            *)
Found(m) == m.sub \in iMap /\ iSid[m.sub] = m.sid

-----------------------------------------------------------------------------
(* A Subscriber at work, one at a time per subscription (iSubscriberLock): *)
(* RunInSubscriber, DoSubscribe, DoRenew and DoUnsubscribe.                *)

OpGoto(s, pc) == opPc' = [opPc EXCEPT ![s] = pc]

(* CpiSubscription::Schedule: whatever is in the slot is overwritten.      *)
Schedule(s, op) == iPendingOperation' = [iPendingOperation EXCEPT ![s] = op]

TakeOperation(s) ==
  /\ opPc[s] = "rest" /\ iPendingOperation[s] # "eNone"
  /\ Schedule(s, "eNone")
  /\ OpGoto(s, CASE iPendingOperation[s] = "eSubscribe"   -> "subscribe"
                 [] iPendingOperation[s] = "eRenew"       -> "renew"
                 [] iPendingOperation[s] = "eResubscribe" -> "unsubscribe")
  /\ UNCHANGED <<iSid, granted, iMap, iTimer, waitVars, nextSeq, evVars, ifVars,
                 cliVars, iNextSequenceNumber>>

SubscribeBegin(s) ==
  /\ opPc[s] = "subscribe" /\ ManagerFree
  /\ iNextSequenceNumber' = [iNextSequenceNumber EXCEPT ![s] = 0]
  /\ NotifyAddPending(s)
  /\ OpGoto(s, "request")
  /\ UNCHANGED <<iSid, granted, iMap, slotVars, iWaiters, iWaiter, awaits, timedOut,
                 nextSeq, evVars, ifVars, cliVars>>

(* The publisher accepts; from now on it may notify, reply read or not.    *)
Grant(s) ==
  /\ opPc[s] = "request" /\ granted[s] < MaxSid
  /\ granted' = [granted EXCEPT ![s] = @ + 1]
  /\ OpGoto(s, "reply")
  /\ UNCHANGED <<iSid, iMap, slotVars, waitVars, nextSeq, evVars, ifVars, cliVars,
                 iNextSequenceNumber>>

(* SetSid, CpiSubscriptionManager::Add and SetRenewTimer.                  *)
Add(s) ==
  /\ opPc[s] = "reply" /\ ManagerFree
  /\ iSid' = [iSid EXCEPT ![s] = granted[s]]
  /\ iMap' = iMap \cup {s}
  /\ RemovePendingAdd(s)
  /\ iTimer' = [iTimer EXCEPT ![s] = TRUE]
  /\ OpGoto(s, "rest")
  /\ UNCHANGED <<granted, iPendingOperation, nextSeq, evVars, ifVars, cliVars,
                 iNextSequenceNumber>>

(* An error before or after the publisher has decided: NotifyAddAborted.   *)
Abort(s) ==
  /\ opPc[s] \in {"request", "reply"} /\ ManagerFree
  /\ RemovePendingAdd(s)
  /\ OpGoto(s, "rest")
  /\ UNCHANGED <<iSid, granted, iMap, slotVars, nextSeq, evVars, ifVars, cliVars,
                 iNextSequenceNumber>>

(* The renewal timer fires: CpiSubscription::Renew.                        *)
Renew(s) ==
  /\ s \in Renewing /\ iTimer[s] /\ ManagerFree
  /\ iTimer' = [iTimer EXCEPT ![s] = FALSE]
  /\ Schedule(s, "eRenew")
  /\ UNCHANGED <<opVars, waitVars, nextSeq, evVars, ifVars, cliVars,
                 iNextSequenceNumber>>

(* DoRenew: no publisher renews the empty sid.                             *)
DoRenew(s) ==
  /\ opPc[s] = "renew" /\ ManagerFree
  /\ \/ /\ iSid[s] # 0
        /\ iTimer' = [iTimer EXCEPT ![s] = TRUE]
        /\ UNCHANGED iPendingOperation
     \/ Schedule(s, "eResubscribe") /\ UNCHANGED iTimer
  /\ OpGoto(s, "rest")
  /\ UNCHANGED <<iSid, granted, iMap, waitVars, nextSeq, evVars, ifVars, cliVars,
                 iNextSequenceNumber>>

(* DoUnsubscribe: the timer is cancelled, the map entry removed, the sid   *)
(* moved away.  An error of the publisher's answer skips what follows.     *)
DoUnsubscribe(s) ==
  /\ opPc[s] = "unsubscribe" /\ ManagerFree
  /\ iTimer' = [iTimer EXCEPT ![s] = FALSE]
  /\ iMap' = iMap \ {s}
  /\ iSid' = [iSid EXCEPT ![s] = 0]
  /\ \/ OpGoto(s, "resubscribe")
     \/ iSid[s] # 0 /\ OpGoto(s, "rest")
  /\ UNCHANGED <<granted, iPendingOperation, waitVars, nextSeq, evVars, ifVars,
                 cliVars, iNextSequenceNumber>>

(* The second half of eResubscribe.                                        *)
Resubscribe(s) ==
  /\ opPc[s] = "resubscribe" /\ ManagerFree
  /\ Schedule(s, "eSubscribe")
  /\ OpGoto(s, "rest")
  /\ UNCHANGED <<iSid, granted, iMap, iTimer, waitVars, nextSeq, evVars, ifVars,
                 cliVars, iNextSequenceNumber>>

-----------------------------------------------------------------------------
(* EventSessionUpnp::Run, one session per connection, and the publishers.  *)

EvGoto(e, pc) == evPc' = [evPc EXCEPT ![e] = pc]

(* The connection ends.                                                    *)
EvEnd(e) == EvGoto(e, "idle") /\ evMsg' = [evMsg EXCEPT ![e] = NoMsg]

(* The publisher waits for the answer to its last notification.            *)
Unanswered(s, n) ==
  \E e \in Sessions :
    /\ evPc[e] \notin {"idle", "body", "update", "failed"}
    /\ evMsg[e].sub = s /\ evMsg[e].sid = n

(* The publisher has a further notification to send under sid n of s.      *)
Sends(s, n) == n <= granted[s] /\ nextSeq[s][n] < MaxSeq /\ ~Unanswered(s, n)

(* Nobody accepts the connection, or it breaks: the event is not repeated. *)
Lose(s, n) ==
  /\ Sends(s, n)
  /\ nextSeq' = [nextSeq EXCEPT ![s][n] = @ + 1]
  /\ UNCHANGED <<opVars, slotVars, waitVars, evVars, ifVars, cliVars,
                 iNextSequenceNumber>>

(* Accept the connection and read the headers.                             *)
Accept(e, s, n) ==
  /\ evPc[e] = "idle" /\ ifPc = "idle" /\ Sends(s, n)
  /\ evMsg' = [evMsg EXCEPT ![e] = [sub |-> s, sid |-> n, seq |-> nextSeq[s][n]]]
  /\ EvGoto(e, "find")
  /\ UNCHANGED <<opVars, slotVars, waitVars, nextSeq, evSub, ifVars, cliVars,
                 iNextSequenceNumber>>

Find(e) ==
  /\ evPc[e] \in {"find", "findAgain"} /\ ManagerFree
  /\ IF Found(evMsg[e])
     THEN evSub' = [evSub EXCEPT ![e] = TRUE] /\ EvGoto(e, "compare")
     ELSE /\ UNCHANGED evSub
          /\ EvGoto(e, IF evPc[e] = "find" THEN "check" ELSE "respond")
  /\ timedOut' = [timedOut EXCEPT ![e] = FALSE]
  /\ UNCHANGED <<opVars, slotVars, iPending, iWaiters, iWaiter, awaits, nextSeq,
                 evMsg, ifVars, cliVars, iNextSequenceNumber>>

(* WaitForPendingAdds, its part under the lock.                            *)
WaitForPendingAdds(e) ==
  /\ evPc[e] = "check" /\ ManagerFree
  /\ awaits' = [awaits EXCEPT ![e] = iPending]
  /\ iWaiters' = IF iPending # {} THEN iWaiters + 1 ELSE iWaiters
  /\ EvGoto(e, IF iPending # {} THEN "wait" ELSE "findAgain")
  /\ UNCHANGED <<opVars, slotVars, iPending, iWaiter, timedOut, nextSeq, evMsg,
                 evSub, ifVars, cliVars, iNextSequenceNumber>>

(* The semaphore does not say whom a count is for.                         *)
Wake(e) ==
  /\ evPc[e] = "wait" /\ iWaiter > 0
  /\ iWaiter' = iWaiter - 1
  /\ EvGoto(e, "findAgain")
  /\ UNCHANGED <<opVars, slotVars, iPending, iWaiters, awaits, timedOut, nextSeq,
                 evMsg, evSub, ifVars, cliVars, iNextSequenceNumber>>

(* iWaiters still counts the session that gives up.                        *)
WaitTimeout(e) ==
  /\ MayTimeout /\ evPc[e] = "wait"
  /\ timedOut' = [timedOut EXCEPT ![e] = TRUE]
  /\ EvGoto(e, "findAgain")
  /\ UNCHANGED <<opVars, slotVars, iPending, iWaiters, iWaiter, awaits, nextSeq,
                 evMsg, evSub, ifVars, cliVars, iNextSequenceNumber>>

(* UpdateSequenceNumber compares, and increments afterwards: no lock is    *)
(* held, and DoSubscribe may reset the number in between.                  *)
Compare(e) ==
  /\ evPc[e] = "compare"
  /\ EvGoto(e, IF evMsg[e].seq = iNextSequenceNumber[evMsg[e].sub] THEN "increment"
               ELSE "mismatch")
  /\ UNCHANGED <<opVars, slotVars, waitVars, nextSeq, evMsg, evSub, ifVars,
                 cliVars, iNextSequenceNumber>>

Increment(e) ==
  /\ evPc[e] = "increment"
  /\ iNextSequenceNumber' = [iNextSequenceNumber EXCEPT ![evMsg[e].sub] = @ + 1]
  /\ EvGoto(e, "respond")
  /\ UNCHANGED <<opVars, slotVars, waitVars, nextSeq, evMsg, evSub, ifVars,
                 cliVars>>

NotificationErrorBug(e) ==
  /\ evPc[e] \in {"mismatch", "failed"} /\ ManagerFree
  /\ evSub' = [evSub EXCEPT ![e] = FALSE]
  /\ IF evPc[e] = "mismatch" THEN EvGoto(e, "respond") /\ UNCHANGED evMsg
                             ELSE EvEnd(e)
  /\ UNCHANGED <<opVars, slotVars, waitVars, nextSeq, ifVars, cliVars,
                 iNextSequenceNumber>>

(* SetNotificationError: Schedule(eResubscribe) takes the manager's lock.  *)
(* After a mismatch the session lets go of the subscription and answers.   *)
NotificationError(e) ==
  /\ evPc[e] \in {"mismatch", "failed"} /\ ManagerFree
  /\ Schedule(evMsg[e].sub, "eResubscribe")
  /\ reported' = [reported EXCEPT ![evMsg[e].sub] = TRUE]
  /\ evSub' = [evSub EXCEPT ![e] = FALSE]
  /\ IF evPc[e] = "mismatch" THEN EvGoto(e, "respond") /\ UNCHANGED evMsg
                             ELSE EvEnd(e)
  /\ UNCHANGED <<opVars, iTimer, waitVars, nextSeq, ifVars, value, got,
                 iNextSequenceNumber>>

(* The status line is written before the body is read; writing may fail.   *)
Respond(e) ==
  LET m == evMsg[e] IN
  /\ evPc[e] = "respond"
  /\ nextSeq' = [nextSeq EXCEPT ![m.sub][m.sid] = @ + 1]
  /\ awaits' = [awaits EXCEPT ![e] = {}]
  /\ IF evSub[e] THEN (EvGoto(e, "body") \/ EvGoto(e, "failed")) /\ UNCHANGED evMsg
                 ELSE EvEnd(e)
  /\ UNCHANGED <<opVars, slotVars, iPending, iWaiters, iWaiter, timedOut, evSub,
                 ifVars, cliVars, iNextSequenceNumber>>

(* Reading the body may fail, as it does when the socket is interrupted.   *)
ReadBody(e) ==
  /\ evPc[e] = "body"
  /\ \/ EvGoto(e, "update")
     \/ EvGoto(e, "failed")
  /\ UNCHANGED <<opVars, slotVars, waitVars, nextSeq, evMsg, evSub, ifVars, cliVars,
                 iNextSequenceNumber>>

(* ProcessNotification, under the subscription's iLock.                    *)
Update(e) ==
  LET m == evMsg[e] IN
  /\ evPc[e] = "update"
  /\ value' = [value EXCEPT ![m.sub] = <<m.sid, m.seq>>]
  /\ got' = [got EXCEPT ![m.sub] = IF m.sid = 1 THEN @ \cup {m.seq} ELSE @]
  /\ evSub' = [evSub EXCEPT ![e] = FALSE]
  /\ EvEnd(e)
  /\ UNCHANGED <<opVars, slotVars, waitVars, nextSeq, ifVars, reported,
                 iNextSequenceNumber>>

-----------------------------------------------------------------------------
(* HandleInterfaceChange, all of it under the manager's lock: wake one     *)
(* waiter, delete the event server, which joins every session, and create  *)
(* a new one.                                                              *)

InterfaceChange ==
  /\ ifPc = "idle" /\ ifChanges < MaxIfChanges
  /\ ifChanges' = ifChanges + 1
  /\ iWaiter' = IF iPending # {} THEN iWaiter + 1 ELSE iWaiter
  /\ ifPc' = "delete"
  /\ UNCHANGED <<opVars, slotVars, iPending, iWaiters, awaits, timedOut, nextSeq,
                 evVars, cliVars, iNextSequenceNumber>>

EventServerRecreated ==
  /\ ifPc = "delete" /\ \A e \in Sessions : evPc[e] = "idle"
  /\ ifPc' = "idle"
  /\ UNCHANGED <<opVars, slotVars, waitVars, nextSeq, evVars, ifChanges, cliVars,
                 iNextSequenceNumber>>

-----------------------------------------------------------------------------
OpStep(s) ==
  \/ TakeOperation(s) \/ SubscribeBegin(s) \/ Grant(s) \/ Add(s) \/ Abort(s)
  \/ DoRenew(s) \/ DoUnsubscribe(s) \/ Resubscribe(s)

SessionStep(e) ==
  \/ Find(e) \/ WaitForPendingAdds(e) \/ Wake(e) \/ Compare(e)
  \/ Increment(e) \/ NotificationError(e) \/ Respond(e) \/ ReadBody(e) \/ Update(e)

(* Nothing is under way; the publishers need not send anything more.       *)
Quiet ==
  /\ \A s \in Subs : opPc[s] = "rest" /\ iPendingOperation[s] = "eNone"
  /\ \A e \in Sessions : evPc[e] = "idle"
  /\ ifPc = "idle"

Next ==
  \/ \E s \in Subs : OpStep(s) \/ Renew(s)
  \/ \E s \in Subs, n \in Sids : Lose(s, n)
  \/ \E e \in Sessions, s \in Subs, n \in Sids : Accept(e, s, n)
  \/ \E e \in Sessions : SessionStep(e) \/ WaitTimeout(e)
  \/ InterfaceChange \/ EventServerRecreated
  \/ Quiet /\ UNCHANGED vars

Spec == Init /\ [][Next]_vars

(* A network request ends, threads run, and a thread that waits for the    *)
(* semaphore or a lock that others leave again gets its turn; no wait has  *)
(* to run into its timeout.                                                *)
Fairness ==
  /\ \A s \in Subs : SF_vars(OpStep(s))
  /\ \A e \in Sessions : SF_vars(SessionStep(e))
  /\ SF_vars(EventServerRecreated)

FairSpec == Spec /\ Fairness

-----------------------------------------------------------------------------
TypeOK ==
  /\ opPc \in [Subs -> {"rest", "subscribe", "request", "reply", "renew",
                        "unsubscribe", "resubscribe"}]
  /\ iSid \in [Subs -> 0..MaxSid] /\ granted \in [Subs -> 0..MaxSid]
  /\ iMap \subseteq Subs /\ iPending \subseteq Subs
  /\ iWaiters \in Nat /\ iWaiter \in Nat
  /\ iNextSequenceNumber \in [Subs -> Nat]
  /\ iPendingOperation \in
       [Subs -> {"eNone", "eSubscribe", "eRenew", "eResubscribe"}]
  /\ iTimer \in [Subs -> BOOLEAN]
  /\ value \in [Subs -> (0..MaxSid) \X (0..MaxSeq)]
  /\ nextSeq \in [Subs -> [Sids -> 0..MaxSeq]]
  /\ evPc \in [Sessions -> {"idle", "find", "check", "wait", "findAgain", "compare",
                            "increment", "mismatch", "respond", "body", "update",
                            "failed"}]
  /\ evMsg \in [Sessions -> [sub : Subs, sid : 0..MaxSid, seq : 0..MaxSeq]]
  /\ evSub \in [Sessions -> BOOLEAN]
  /\ ifPc \in {"idle", "delete"} /\ ifChanges \in 0..MaxIfChanges
  /\ awaits \in [Sessions -> SUBSET Subs]
  /\ timedOut \in [Sessions -> BOOLEAN]
  /\ got \in [Subs -> SUBSET Nat] /\ reported \in [Subs -> BOOLEAN]

Waiting == {e \in Sessions : evPc[e] = "wait"}

(* No session is left on the semaphore: for each of them there is a count  *)
(* in it, or the end of the last pending add will put one in.              *)
NoWaiterForgotten ==
  /\ Cardinality(Waiting) <= iWaiter + iWaiters
  /\ iPending = {} => iWaiters = 0

(* "WaitForPendingAdds() blocks until all pending subscriptions have       *)
(* completed.  (It also times out ...)": when a session looks again, every *)
(* add that was pending when it began to wait has been made or aborted,    *)
(* unless it timed out.  The code does not keep this: see the README.      *)
WaitCoversAdds ==
  \A e \in Sessions : evPc[e] = "findAgain" /\ ~timedOut[e] => awaits[e] = {}

(* A session works for a subscription whose reply has not been read.       *)
Early(e) ==
  opPc[evMsg[e].sub] = "reply" /\ granted[evMsg[e].sub] = evMsg[e].sid

(* A NOTIFY that overtakes the SUBSCRIBE reply is refused for one reason   *)
(* only: that its session waited for just that add, and did not wait long  *)
(* enough.                                                                 *)
EarlyNotifyAccepted ==
  \A e \in Sessions :
    evPc[e] = "respond" /\ ~evSub[e] /\ Early(e) => evMsg[e].sub \in awaits[e]

(* The session has answered for its subscription, and has neither given    *)
(* the client its notification nor reported that it could not.             *)
Holds(e, s, k) ==
  /\ evMsg[e].sub = s /\ evMsg[e].seq = k
  /\ \/ evPc[e] \in {"body", "update", "failed"}
     \/ evPc[e] = "respond" /\ evSub[e]

(* A number that a subscription has counted under its first sid belongs to *)
(* a notification that the client was given or is going to be, unless      *)
(* SetNotificationError was called: the sessions count, answer, read and   *)
(* deliver in steps of their own, any of which may fail.                   *)
CountedIsDelivered ==
  \A s \in Subs : granted[s] = 1 /\ ~reported[s] =>
    \A k \in 0..iNextSequenceNumber[s] - 1 :
      k \in got[s] \/ \E e \in Sessions : Holds(e, s, k)

(* When no notification is under way and publisher and subscription agree  *)
(* on the next number, the client has the last event, unless it is about   *)
(* to resubscribe: "the only sure way to recover an accurate view on the   *)
(* state of all variables".  The code does not keep this: see the README.  *)
StaleOnlyWithResubscribe ==
  \A s \in Subs :
    (/\ opPc[s] = "rest" /\ iPendingOperation[s] = "eNone" /\ iSid[s] # 0
     /\ \A e \in Sessions : evPc[e] # "idle" => evMsg[e].sub # s
     /\ iNextSequenceNumber[s] > 0 /\ nextSeq[s][iSid[s]] = iNextSequenceNumber[s])
    => value[s] = <<iSid[s], iNextSequenceNumber[s] - 1>>

(* A session whose NOTIFY was accepted always comes to an end, without the *)
(* help of a timeout, unless the event server is deleted first.            *)
NotifyAnswered ==
  \A e \in Sessions : evPc[e] = "find" ~> (evPc[e] = "idle" \/ ifPc # "idle")

(* "recreate the event server on the new interface": it gets there.        *)
InterfaceChangeEnds == ifPc = "delete" ~> ifPc = "idle"
=============================================================================
