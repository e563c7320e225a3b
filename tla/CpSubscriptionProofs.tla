------------------------ MODULE CpSubscriptionProofs ------------------------
(***************************************************************************)
(* The safety of CpSubscription, proved for any number of subscriptions,   *)
(* Subscribers and sessions, any number of sids and any queue bound.       *)
(*                                                                         *)
(* IInv is the inductive invariant: the properties CpSubscription states   *)
(* hold together, and only with the facts about the threads that the code  *)
(* relies on without saying so: who is inside iSubscriberLock, which       *)
(* operation a place in the code belongs to, when a sid can be empty.      *)
(***************************************************************************)
EXTENDS CpSubscription, TLAPS

(* An idle thread has no subscription, a busy one has.                     *)
ThreadShape ==
  /\ \A t \in Threads : subPc[t] = "idle" <=> subOf[t] = None
  /\ \A e \in Sessions : evPc[e] = "idle" <=> evSub[e] = None
  /\ timerPc = "idle" <=> timerSub = None
  /\ mgrPc = "give" <=> mgrSub # None
  /\ mgrPc = "give" <=> mgrThread # None
  /\ mgrPc = "give" => subPc[mgrThread] = "idle"

(* Being inside RunInSubscriber is owning the subscription's lock.         *)
LockOwner ==
  \A t \in Threads, s \in Subs : Runs(t, s) <=> iSubscriberLock[s] = t

(* A place in the code is only reached by the operations that lead there.  *)
OpAgrees ==
  \A t \in Threads :
    /\ subPc[t] \in {"idle", "given"} => subOp[t] = "eNone"
    /\ subPc[t] \in {"subscribe", "connect", "subscribeReply", "add"} =>
         subOp[t] = "eSubscribe"
    /\ subPc[t] = "arm" => subOp[t] \in {"eSubscribe", "eRenew"}
    /\ subPc[t] \in {"renew", "renewReply", "renewFailed"} => subOp[t] = "eRenew"
    /\ subPc[t] \in {"cancel", "remove", "unsubscribeReply"} =>
         subOp[t] \in {"eUnsubscribe", "eResubscribe"}
    /\ subPc[t] = "resubscribe" => subOp[t] = "eResubscribe"
    /\ subPc[t] = "push" => subOp[t] \in {"eRenew", "eResubscribe"}

(* Where a Subscriber can rely on the sid being empty or not.              *)
SidAtPc ==
  \A t \in Threads :
    /\ subPc[t] \in {"subscribe", "connect", "subscribeReply",
                     "unsubscribeReply", "resubscribe"} => iSid[subOf[t]] = 0
    /\ subPc[t] \in {"add", "remove"} => iSid[subOf[t]] # 0

(* While eSubscribe waits in the slot, the sid is empty and the only       *)
(* thread inside the subscription is on its way out.                       *)
PendingSubscribe ==
  \A s \in Subs : iPendingOperation[s] = "eSubscribe" =>
    /\ iSid[s] = 0
    /\ \A t \in Threads : Runs(t, s) => subPc[t] \in {"push", "release"}

(* Nothing knows a subscription that has not been created yet.             *)
Unborn ==
  \A s \in Subs : clientPc[s] = "none" =>
    /\ iSid[s] = 0 /\ iPendingOperation[s] = "eNone" /\ ~iRejectFutureOperations[s]
    /\ ~timer[s] /\ timerSub # s /\ mgrSub # s
    /\ \A m \in iMap : m[2] # s
    /\ \A i \in 1..Len(iList) : iList[i] # s
    /\ \A t \in Threads : subOf[t] # s
    /\ \A e \in Sessions : evSub[e] # s

(* What the accepted eUnsubscribe has achieved, as far as it has come.     *)
Progress(s) ==
  \/ iPendingOperation[s] = "eUnsubscribe"
  \/ /\ iPendingOperation[s] = "eNone"
     /\ \/ \E t \in Threads : /\ Runs(t, s) /\ subOp[t] = "eUnsubscribe"
                              /\ subPc[t] = "release" => iSid[s] = 0
        \/ /\ iSid[s] = 0
           /\ \A t \in Threads : Runs(t, s) => subPc[t] = "release"

UnsubscribeProgress == \A s \in Subs : iRejectFutureOperations[s] => Progress(s)

(* A session inside its callbacks owns iLock, and the client that it calls *)
(* back has not unsubscribed.                                              *)
CallbackLock ==
  /\ \A e \in Sessions : evPc[e] = "update" => iLock[evSub[e]] = e
  /\ \A e \in Sessions : evDelivers[e] => iEventProcessor[evSub[e]] /\ evPc[e] = "update"
  /\ \A s \in Subs : iEventProcessor[s] => clientPc[s] \in {"pushSubscribe", "active"}

IInv ==
  /\ TypeOK
  /\ ThreadShape
  /\ LockOwner
  /\ OpAgrees
  /\ SidAtPc
  /\ PendingSubscribe
  /\ Unborn
  /\ UnsubscribeProgress
  /\ MapMatchesSid
  /\ PendingHasRunner
  /\ CallbackLock

-----------------------------------------------------------------------------
(* The control flow of RunInSubscriber.                                    *)
Edges ==
  {<<"subscribe", "release">>, <<"subscribe", "connect">>,
   <<"connect", "subscribeReply">>, <<"renew", "renewReply">>,
   <<"subscribeReply", "add">>, <<"subscribeReply", "release">>,
   <<"add", "arm">>, <<"arm", "release">>,
   <<"renewReply", "arm">>, <<"renewReply", "renewFailed">>,
   <<"cancel", "remove">>, <<"cancel", "resubscribe">>, <<"cancel", "release">>,
   <<"remove", "unsubscribeReply">>, <<"unsubscribeReply", "resubscribe">>,
   <<"unsubscribeReply", "release">>, <<"resubscribe", "push">>,
   <<"resubscribe", "release">>, <<"renewFailed", "push">>,
   <<"renewFailed", "release">>, <<"push", "release">>}

(* What a step of t inside RunInSubscriber does to the threads, to the sid *)
(* and to the slot.                                                        *)
Moves(t, pc) ==
  LET s == subOf[t] IN
  /\ <<subPc[t], pc>> \in Edges
  /\ subPc' = [subPc EXCEPT ![t] = pc]
  /\ interrupted' \subseteq interrupted
  /\ UNCHANGED <<subOf, subOp, iSubscriberLock, iRejectFutureOperations,
                 timerPc, timerSub, mgrPc, mgrSub, mgrThread, evPc, evSub>>
  /\ pc = "resubscribe" => subOp[t] = "eResubscribe"
  /\ subPc[t] = "cancel" => (pc = "remove" <=> iSid[s] # 0)
  /\ \/ pc # "add" /\ subPc[t] # "remove" /\ iSid' = iSid
     \/ pc = "add" /\ \E n \in 1..MaxSid : iSid' = [iSid EXCEPT ![s] = n]
     \/ subPc[t] = "remove" /\ iSid' = [iSid EXCEPT ![s] = 0]
  /\ \/ pc # "push" /\ iPendingOperation' = iPendingOperation
     \/ /\ pc = "push" /\ ~iRejectFutureOperations[s]
        /\ iPendingOperation' =
             [iPendingOperation EXCEPT
               ![s] = IF subPc[t] = "resubscribe" THEN "eSubscribe" ELSE "eResubscribe"]

(* Every step inside RunInSubscriber is such a move.                       *)
LEMMA OperationMoves ==
  ASSUME TypeOK, ThreadShape, NEW t \in Threads, OperationStep(t)
  PROVE  subOf[t] \in Subs /\ \E pc : Moves(t, pc)
<1> USE BoundAssumption
    DEF TypeOK, TypeSubscriber, TypeSid, TypeObj, objVars, sidVars,
        subVars, mgrVars, timerVars, sessVars, Goto, Edges
<1>1. subPc[t] \notin {"idle", "given"}
  BY DEF OperationStep, SubscribeBegin, Connect, SubscribeOk, Add, Arm,
      SubscribeFail, RenewReply, CancelTimer, RemoveSid, UnsubscribeReply,
      Reschedule, SubscriberPush
<1>2. subOf[t] \in Subs
  BY <1>1 DEF ThreadShape
<1>3. CASE SubscribeBegin(t)
  <2>1. Moves(t, "release") \/ Moves(t, "connect")
    BY <1>2, <1>3 DEF Moves, SubscribeBegin
  <2> QED
    BY <1>2, <2>1
<1>4. CASE Connect(t)
  <2>1. Moves(t, "subscribeReply") \/ Moves(t, "renewReply")
    BY <1>2, <1>4 DEF Moves, Connect
  <2> QED
    BY <1>2, <2>1
<1>5. CASE SubscribeOk(t)
  <2>1. granted[subOf[t]] + 1 \in 1..MaxSid
    BY <1>2, <1>5 DEF SubscribeOk
  <2>2. iSid' = [iSid EXCEPT ![subOf[t]] = granted[subOf[t]] + 1]
    BY <1>5 DEF SubscribeOk, SetSid
  <2>3. Moves(t, "add")
    BY <1>2, <1>5, <2>1, <2>2 DEF SubscribeOk, Moves
  <2> QED
    BY <1>2, <2>3
<1>6. CASE Add(t)
  <2>1. Moves(t, "arm")
    BY <1>2, <1>6 DEF Moves, Add
  <2> QED
    BY <1>2, <2>1
<1>7. CASE Arm(t)
  <2>1. Moves(t, "release")
    BY <1>2, <1>7 DEF Moves, Arm
  <2> QED
    BY <1>2, <2>1
<1>8. CASE SubscribeFail(t)
  <2>1. Moves(t, "release")
    BY <1>2, <1>8 DEF Moves, SubscribeFail
  <2> QED
    BY <1>2, <2>1
<1>9. CASE RenewReply(t)
  <2>1. Moves(t, "arm") \/ Moves(t, "renewFailed")
    BY <1>2, <1>9 DEF Moves, RenewReply
  <2> QED
    BY <1>2, <2>1
<1>10. CASE CancelTimer(t)
  <2>1. \/ Moves(t, "remove")
        \/ Moves(t, "resubscribe")
        \/ Moves(t, "release")
    BY <1>2, <1>10 DEF Moves, CancelTimer
  <2> QED
    BY <1>2, <2>1
<1>11. CASE RemoveSid(t)
  <2>1. Moves(t, "unsubscribeReply")
    BY <1>2, <1>11 DEF Moves, RemoveSid, TransferSid
  <2> QED
    BY <1>2, <2>1
<1>12. CASE UnsubscribeReply(t)
  <2>1. Moves(t, "resubscribe") \/ Moves(t, "release")
    BY <1>2, <1>12 DEF Moves, UnsubscribeReply
  <2> QED
    BY <1>2, <2>1
<1>13. CASE Reschedule(t)
  <2>1. Moves(t, "push") \/ Moves(t, "release")
    BY <1>2, <1>13 DEF Moves, Reschedule, Accepts, SetPending
  <2> QED
    BY <1>2, <2>1
<1>14. CASE SubscriberPush(t)
  <2>1. Moves(t, "release")
    BY <1>2, <1>14 DEF Moves, SubscriberPush
  <2> QED
    BY <1>2, <2>1
<1> QED
  BY <1>2, <1>3, <1>4, <1>5, <1>6, <1>7, <1>8, <1>9, <1>10, <1>11, <1>12,
     <1>13, <1>14 DEF OperationStep

(* What CpiSubscriptionManager::Schedule does to the queue.                *)
LEMMA EnqueueEffect ==
  ASSUME TypeOK, NEW s \in Subs, Enqueue(s)
  PROVE  /\ iList' \in Seq(Subs)
         /\ asserted' \in BOOLEAN
         /\ asserted => asserted'
         /\ \A i \in 1..Len(iList) : i \in 1..Len(iList') /\ iList'[i] = iList[i]
         /\ \A i \in 1..Len(iList') :
              iList'[i] = s \/ (i \in 1..Len(iList) /\ iList'[i] = iList[i])
         /\ asserted' \/ \E i \in 1..Len(iList') : iList'[i] = s
<1> USE DEF TypeOK, TypeManager, TypeStack, Enqueue
<1>1. CASE iActive
  <2>1. iList' = Append(iList, s) /\ asserted' = asserted
    BY <1>1
  <2>2. Len(iList') = Len(iList) + 1 /\ iList'[Len(iList) + 1] = s
    BY <2>1
  <2> QED
    BY <2>1, <2>2
<1>2. CASE ~iActive
  BY <1>2
<1> QED
  BY <1>1, <1>2

(* The object's own members keep their types.                              *)
LEMMA TypeObjStep == IInv /\ Step => TypeObj'
<1> SUFFICES ASSUME IInv, Step PROVE TypeObj'
  OBVIOUS
<1> USE NoneAssumption, BoundAssumption
    DEF objVars, sidVars, lockVars, timerVars, mgrVars, stackVars, subVars,
        sessVars
<1>1. ASSUME NEW s \in Subs, ClientSubscribe(s)
       PROVE  TypeObj'
  BY <1>1 DEF IInv, TypeOK, TypeObj, TypeTimer, TypeSubscriber, TypeSession,
      ThreadShape, Operations, ClientSubscribe
<1>2. ASSUME NEW s \in Subs, ClientUnsubscribe(s)
       PROVE  TypeObj'
  BY <1>2 DEF IInv, TypeOK, TypeObj, TypeTimer, TypeSubscriber, TypeSession,
      ThreadShape, Operations, ClientUnsubscribe, AddRef, LockFree
<1>3. ASSUME NEW s \in Subs, ClientSchedule(s)
       PROVE  TypeObj'
  <2>1. CASE Accepts(s)
    <3>1. iRejectFutureOperations' = [iRejectFutureOperations EXCEPT ![s] = TRUE]
      BY <1>3, <2>1, Zenon DEF ClientSchedule, SetPending
    <3>2. /\ iRefCount' = [iRefCount EXCEPT ![s] = iRefCount[s] + 1]
          /\ iPendingOperation' = [iPendingOperation EXCEPT ![s] = "eUnsubscribe"]
          /\ UNCHANGED life
      BY <1>3, <2>1 DEF ClientSchedule, SetPending
    <3> QED
      BY <3>1, <3>2 DEF IInv, TypeOK, TypeObj, Operations
  <2>2. CASE ~Accepts(s)
    BY <1>3, <2>2 DEF IInv, TypeOK, TypeObj, ClientSchedule
  <2> QED
    BY <2>1, <2>2
<1>4. ASSUME NEW s \in Subs, ClientReturn(s)
       PROVE  TypeObj'
  BY <1>4 DEF IInv, TypeOK, TypeObj, TypeTimer, TypeSubscriber, TypeSession,
      ThreadShape, Operations, ClientReturn, RemoveRefs
<1>5. ASSUME NEW s \in Subs, Destroy(s)
       PROVE  TypeObj'
  BY <1>5 DEF IInv, TypeOK, TypeObj, TypeTimer, TypeSubscriber, TypeSession,
      ThreadShape, Operations, Destroy
<1>6. CASE TimerRenew
  BY <1>6 DEF IInv, TypeOK, TypeObj, TypeTimer, TypeSubscriber, TypeSession,
      ThreadShape, Operations, TimerRenew, Accepts, SetPending
<1>7. ASSUME NEW t \in Threads, TakeOperation(t)
       PROVE  TypeObj'
  BY <1>7 DEF IInv, TypeOK, TypeObj, TypeTimer, TypeSubscriber, TypeSession,
      ThreadShape, Operations, TakeOperation, EmptySlot, Goto
<1>8. ASSUME NEW t \in Threads, Reschedule(t)
       PROVE  TypeObj'
  BY <1>8 DEF IInv, TypeOK, TypeObj, TypeTimer, TypeSubscriber, TypeSession,
      ThreadShape, Operations, Reschedule, Accepts, SetPending, Goto
<1>9. ASSUME NEW t \in Threads, Release(t)
       PROVE  TypeObj'
  BY <1>9 DEF IInv, TypeOK, TypeObj, TypeTimer, TypeSubscriber, TypeSession,
      ThreadShape, Operations, Release, RemoveRefs, Goto
<1>10. ASSUME NEW e \in Sessions, SessionError(e)
       PROVE  TypeObj'
  BY <1>10 DEF IInv, TypeOK, TypeObj, TypeTimer, TypeSubscriber, TypeSession,
      ThreadShape, Operations, SessionError, Accepts, SetPending, SessionGoto
<1>11. ASSUME NEW e \in Sessions, SessionUnref(e)
       PROVE  TypeObj'
  BY <1>11 DEF IInv, TypeOK, TypeObj, TypeTimer, TypeSubscriber, TypeSession,
      ThreadShape, Operations, SessionUnref, RemoveRefs, SessionGoto
<1>12. ASSUME NEW e \in Sessions, NEW s \in Subs, SessionFind(e, s)
       PROVE  TypeObj'
  BY <1>12 DEF IInv, TypeOK, TypeObj, TypeTimer, TypeSubscriber, TypeSession,
      ThreadShape, Operations, SessionFind, Mapped, AddRef, SessionGoto
<1>13. CASE UNCHANGED <<life, iRefCount, iPendingOperation,
          iRejectFutureOperations>>
  BY <1>13 DEF IInv, TypeObj, TypeOK
<1> QED
  BY <1>1, <1>2, <1>3, <1>4, <1>5, <1>6, <1>7, <1>8, <1>9, <1>10, <1>11, <1>12, ZenonT(30),
     <1>13
  DEF Step, ClientStep, TimerStep, ManagerStep, SubscriberStep, SessionStep,
      ShutdownStep, OperationStep, ClientPush, Enqueue, TimerFire, TimerPush,
      ManagerTake, ManagerGive, ManagerCheck, ReadyForShutdown, SubscribeBegin,
      Goto, Connect, LockFree, SubscribeOk, SetSid, Add, RemovePendingAdd, Arm,
      SubscribeFail, RenewReply, CancelTimer, RemoveSid, EraseFromMap,
      TransferSid, UnsubscribeReply, SubscriberPush, SessionRead, SessionGoto,
      SessionUpdateStart, SessionUpdateEnd, SessionUpdateThrow, SessionRelock,
      SessionPush, ShutdownBegin, ShutdownWait, ShutdownKill, ShutdownJoin

(* Sids and the map keep their types: Add never maps the empty sid.        *)
LEMMA TypeSidStep == IInv /\ Step => TypeSid'
<1> SUFFICES ASSUME IInv, Step PROVE TypeSid'
  OBVIOUS
<1> USE NoneAssumption, BoundAssumption
    DEF objVars, sidVars, lockVars, timerVars, mgrVars, stackVars, subVars,
        sessVars
<1>1. ASSUME NEW t \in Threads, SubscribeBegin(t)
       PROVE  TypeSid'
  BY <1>1 DEF IInv, TypeOK, TypeSid, TypeSubscriber, ThreadShape, SidAtPc,
      SubscribeBegin, Goto
<1>2. ASSUME NEW t \in Threads, SubscribeOk(t)
       PROVE  TypeSid'
  BY <1>2 DEF IInv, TypeOK, TypeSid, TypeSubscriber, ThreadShape, SidAtPc,
      SubscribeOk, SetSid, Goto
<1>3. ASSUME NEW t \in Threads, Add(t)
       PROVE  TypeSid'
  BY <1>3 DEF IInv, TypeOK, TypeSid, TypeSubscriber, ThreadShape, SidAtPc, Add,
      LockFree, RemovePendingAdd, Goto
<1>4. ASSUME NEW t \in Threads, SubscribeFail(t)
       PROVE  TypeSid'
  BY <1>4 DEF IInv, TypeOK, TypeSid, TypeSubscriber, ThreadShape, SidAtPc,
      SubscribeFail, LockFree, RemovePendingAdd, Goto
<1>5. ASSUME NEW t \in Threads, RemoveSid(t)
       PROVE  TypeSid'
  BY <1>5 DEF IInv, TypeOK, TypeSid, TypeSubscriber, ThreadShape, SidAtPc,
      RemoveSid, EraseFromMap, TransferSid, ReadyForShutdown, Goto
<1>6. CASE UNCHANGED <<iSid, granted, iMap, iPending>>
  BY <1>6 DEF IInv, TypeSid, TypeOK
<1> QED
  BY <1>1, <1>2, <1>3, <1>4, <1>5, <1>6, ZenonT(30)
  DEF Step, ClientStep, TimerStep, ManagerStep, SubscriberStep, SessionStep,
      ShutdownStep, OperationStep, ClientSubscribe, ClientPush, Enqueue,
      ClientUnsubscribe, AddRef, LockFree, ClientSchedule, Accepts, SetPending,
      ClientReturn, RemoveRefs, Destroy, TimerFire, TimerRenew, TimerPush,
      ManagerTake, ManagerGive, ManagerCheck, ReadyForShutdown, TakeOperation,
      EmptySlot, Goto, Connect, Arm, RenewReply, CancelTimer, UnsubscribeReply,
      Reschedule, SubscriberPush, Release, SessionRead, SessionGoto,
      SessionUpdateStart, SessionUpdateEnd, SessionUpdateThrow, SessionRelock,
      SessionError, SessionPush, SessionUnref, SessionFind, Mapped,
      ShutdownBegin, ShutdownWait, ShutdownKill, ShutdownJoin

(* Locks and handlers keep their types.                                    *)
LEMMA TypeLockStep == IInv /\ Step => TypeLock'
<1> SUFFICES ASSUME IInv, Step PROVE TypeLock'
  OBVIOUS
<1> USE NoneAssumption, BoundAssumption
    DEF objVars, sidVars, lockVars, timerVars, mgrVars, stackVars, subVars,
        sessVars
<1>1. ASSUME NEW s \in Subs, ClientSubscribe(s)
       PROVE  TypeLock'
  BY <1>1 DEF IInv, TypeOK, TypeLock, TypeSubscriber, TypeSession, ThreadShape,
      ClientSubscribe
<1>2. ASSUME NEW s \in Subs, ClientUnsubscribe(s)
       PROVE  TypeLock'
  BY <1>2 DEF IInv, TypeOK, TypeLock, TypeSubscriber, TypeSession, ThreadShape,
      ClientUnsubscribe, AddRef, LockFree
<1>3. ASSUME NEW t \in Threads, TakeOperation(t)
       PROVE  TypeLock'
  BY <1>3 DEF IInv, TypeOK, TypeLock, TypeSubscriber, TypeSession, ThreadShape,
      TakeOperation, EmptySlot, Goto
<1>4. ASSUME NEW t \in Threads, Connect(t)
       PROVE  TypeLock'
  BY <1>4 DEF IInv, TypeOK, TypeLock, TypeSubscriber, TypeSession, ThreadShape,
      Connect, LockFree, Goto
<1>5. ASSUME NEW t \in Threads, Add(t)
       PROVE  TypeLock'
  BY <1>5 DEF IInv, TypeOK, TypeLock, TypeSubscriber, TypeSession, ThreadShape,
      Add, LockFree, RemovePendingAdd, Goto
<1>6. ASSUME NEW t \in Threads, SubscribeFail(t)
       PROVE  TypeLock'
  BY <1>6 DEF IInv, TypeOK, TypeLock, TypeSubscriber, TypeSession, ThreadShape,
      SubscribeFail, LockFree, RemovePendingAdd, Goto
<1>7. ASSUME NEW t \in Threads, RenewReply(t)
       PROVE  TypeLock'
  BY <1>7 DEF IInv, TypeOK, TypeLock, TypeSubscriber, TypeSession, ThreadShape,
      RenewReply, LockFree, Goto
<1>8. ASSUME NEW t \in Threads, Release(t)
       PROVE  TypeLock'
  BY <1>8 DEF IInv, TypeOK, TypeLock, TypeSubscriber, TypeSession, ThreadShape,
      Release, RemoveRefs, Goto
<1>9. ASSUME NEW e \in Sessions, SessionUpdateStart(e)
       PROVE  TypeLock'
  BY <1>9 DEF IInv, TypeOK, TypeLock, TypeSubscriber, TypeSession, ThreadShape,
      SessionUpdateStart, LockFree, SessionGoto
<1>10. ASSUME NEW e \in Sessions, SessionUpdateEnd(e)
       PROVE  TypeLock'
  BY <1>10 DEF IInv, TypeOK, TypeLock, TypeSubscriber, TypeSession,
      ThreadShape, SessionUpdateEnd, SessionGoto
<1>11. CASE UNCHANGED <<iEventProcessor, iInterruptHandler, iSubscriberLock,
          iLock>>
  BY <1>11 DEF IInv, TypeLock, TypeOK
<1> QED
  BY <1>1, <1>2, <1>3, <1>4, <1>5, <1>6, <1>7, <1>8, <1>9, <1>10, <1>11, ZenonT(30)
  DEF Step, ClientStep, TimerStep, ManagerStep, SubscriberStep, SessionStep,
      ShutdownStep, OperationStep, ClientPush, Enqueue, ClientSchedule,
      Accepts, SetPending, ClientReturn, RemoveRefs, Destroy, TimerFire,
      TimerRenew, TimerPush, ManagerTake, ManagerGive, ManagerCheck,
      ReadyForShutdown, SubscribeBegin, Goto, SubscribeOk, SetSid, Arm,
      CancelTimer, RemoveSid, EraseFromMap, TransferSid, UnsubscribeReply,
      Reschedule, SubscriberPush, SessionRead, SessionGoto, SessionUpdateThrow,
      SessionRelock, SessionError, SessionPush, SessionUnref, SessionFind,
      Mapped, AddRef, ShutdownBegin, ShutdownWait, ShutdownKill, ShutdownJoin

(* The timer keeps its types.                                              *)
LEMMA TypeTimerStep == IInv /\ Step => TypeTimer'
<1> SUFFICES ASSUME IInv, Step PROVE TypeTimer'
  OBVIOUS
<1> USE NoneAssumption, BoundAssumption
    DEF objVars, sidVars, lockVars, timerVars, mgrVars, stackVars, subVars,
        sessVars
<1>1. ASSUME NEW s \in Subs, Destroy(s)
       PROVE  TypeTimer'
  BY <1>1 DEF IInv, TypeOK, TypeTimer, TypeSubscriber, ThreadShape, Destroy
<1>2. ASSUME NEW s \in Subs, TimerFire(s)
       PROVE  TypeTimer'
  BY <1>2 DEF IInv, TypeOK, TypeTimer, TypeSubscriber, ThreadShape, TimerFire
<1>3. CASE TimerRenew
  BY <1>3 DEF IInv, TypeOK, TypeTimer, TypeSubscriber, ThreadShape, TimerRenew,
      Accepts, SetPending
<1>4. CASE TimerPush
  BY <1>4 DEF IInv, TypeOK, TypeTimer, TypeSubscriber, ThreadShape, TimerPush,
      Enqueue
<1>5. ASSUME NEW t \in Threads, Arm(t)
       PROVE  TypeTimer'
  BY <1>5 DEF IInv, TypeOK, TypeTimer, TypeSubscriber, ThreadShape, Arm, Goto
<1>6. ASSUME NEW t \in Threads, CancelTimer(t)
       PROVE  TypeTimer'
  BY <1>6 DEF IInv, TypeOK, TypeTimer, TypeSubscriber, ThreadShape,
      CancelTimer, Goto
<1>7. CASE UNCHANGED <<timer, timerPc, timerSub>>
  BY <1>7 DEF IInv, TypeTimer, TypeOK
<1> QED
  BY <1>1, <1>2, <1>3, <1>4, <1>5, <1>6, <1>7, ZenonT(30)
  DEF Step, ClientStep, TimerStep, ManagerStep, SubscriberStep, SessionStep,
      ShutdownStep, OperationStep, ClientSubscribe, ClientPush, Enqueue,
      ClientUnsubscribe, AddRef, LockFree, ClientSchedule, Accepts, SetPending,
      ClientReturn, RemoveRefs, ManagerTake, ManagerGive, ManagerCheck,
      ReadyForShutdown, TakeOperation, EmptySlot, Goto, SubscribeBegin,
      Connect, SubscribeOk, SetSid, Add, RemovePendingAdd, SubscribeFail,
      RenewReply, RemoveSid, EraseFromMap, TransferSid, UnsubscribeReply,
      Reschedule, SubscriberPush, Release, SessionRead, SessionGoto,
      SessionUpdateStart, SessionUpdateEnd, SessionUpdateThrow, SessionRelock,
      SessionError, SessionPush, SessionUnref, SessionFind, Mapped,
      ShutdownBegin, ShutdownWait, ShutdownKill, ShutdownJoin

(* The queue and the manager keep their types.                             *)
LEMMA TypeManagerStep == IInv /\ Step => TypeManager'
<1> SUFFICES ASSUME IInv, Step PROVE TypeManager'
  OBVIOUS
<1> USE NoneAssumption, BoundAssumption
    DEF objVars, sidVars, lockVars, timerVars, mgrVars, stackVars, subVars,
        sessVars
<1>1. ASSUME NEW s \in Subs, ClientPush(s)
       PROVE  TypeManager'
  BY <1>1, EnqueueEffect DEF IInv, TypeOK, TypeManager, TypeTimer,
      TypeSubscriber, TypeSession, ThreadShape, ClientPush
<1>2. CASE TimerPush
  BY <1>2, EnqueueEffect DEF IInv, TypeOK, TypeManager, TypeTimer,
      TypeSubscriber, TypeSession, ThreadShape, TimerPush
<1>3. ASSUME NEW t \in Threads, ManagerTake(t)
       PROVE  TypeManager'
  BY <1>3 DEF IInv, TypeOK, TypeManager, TypeTimer, TypeSubscriber,
      TypeSession, ThreadShape, ManagerTake
<1>4. CASE ManagerGive
  BY <1>4 DEF IInv, TypeOK, TypeManager, TypeTimer, TypeSubscriber,
      TypeSession, ThreadShape, ManagerGive
<1>5. CASE ManagerCheck
  BY <1>5 DEF IInv, TypeOK, TypeManager, TypeTimer, TypeSubscriber,
      TypeSession, ThreadShape, ManagerCheck, ReadyForShutdown
<1>6. ASSUME NEW t \in Threads, SubscriberPush(t)
       PROVE  TypeManager'
  BY <1>6, EnqueueEffect DEF IInv, TypeOK, TypeManager, TypeTimer,
      TypeSubscriber, TypeSession, ThreadShape, SubscriberPush, Goto
<1>7. ASSUME NEW e \in Sessions, SessionPush(e)
       PROVE  TypeManager'
  BY <1>7, EnqueueEffect DEF IInv, TypeOK, TypeManager, TypeTimer,
      TypeSubscriber, TypeSession, ThreadShape, SessionPush, SessionGoto
<1>8. CASE ShutdownKill
  BY <1>8 DEF IInv, TypeOK, TypeManager, TypeTimer, TypeSubscriber,
      TypeSession, ThreadShape, ShutdownKill
<1>9. CASE UNCHANGED <<iList, mgrPc, mgrSub, mgrThread>>
  BY <1>9 DEF IInv, TypeManager, TypeOK
<1> QED
  BY <1>1, <1>2, <1>3, <1>4, <1>5, <1>6, <1>7, <1>8, <1>9, ZenonT(30)
  DEF Step, ClientStep, TimerStep, ManagerStep, SubscriberStep, SessionStep,
      ShutdownStep, OperationStep, ClientSubscribe, ClientUnsubscribe, AddRef,
      LockFree, ClientSchedule, Accepts, SetPending, ClientReturn, RemoveRefs,
      Destroy, TimerFire, TimerRenew, TakeOperation, EmptySlot, Goto,
      SubscribeBegin, Connect, SubscribeOk, SetSid, Add, RemovePendingAdd, Arm,
      SubscribeFail, RenewReply, CancelTimer, RemoveSid, EraseFromMap,
      TransferSid, ReadyForShutdown, UnsubscribeReply, Reschedule, Release,
      SessionRead, SessionGoto, SessionUpdateStart, SessionUpdateEnd,
      SessionUpdateThrow, SessionRelock, SessionError, SessionUnref,
      SessionFind, Mapped, ShutdownBegin, ShutdownWait, ShutdownJoin

(* The stack-wide flags and the clients keep their types.                  *)
LEMMA TypeStackStep == IInv /\ Step => TypeStack'
<1> SUFFICES ASSUME IInv, Step PROVE TypeStack'
  OBVIOUS
<1> USE NoneAssumption, BoundAssumption
    DEF objVars, sidVars, lockVars, timerVars, mgrVars, stackVars, subVars,
        sessVars
<1>1. ASSUME NEW s \in Subs, ClientSubscribe(s)
       PROVE  TypeStack'
  BY <1>1 DEF IInv, TypeOK, TypeStack, TypeSid, ClientSubscribe
<1>2. ASSUME NEW s \in Subs, ClientPush(s)
       PROVE  TypeStack'
  BY <1>2 DEF IInv, TypeOK, TypeStack, TypeSid, ClientPush, Enqueue
<1>3. ASSUME NEW s \in Subs, ClientUnsubscribe(s)
       PROVE  TypeStack'
  BY <1>3 DEF IInv, TypeOK, TypeStack, TypeSid, ClientUnsubscribe, AddRef,
      LockFree
<1>4. ASSUME NEW s \in Subs, ClientSchedule(s)
       PROVE  TypeStack'
  BY <1>4 DEF IInv, TypeOK, TypeStack, TypeSid, ClientSchedule, Accepts,
      SetPending
<1>5. ASSUME NEW s \in Subs, ClientReturn(s)
       PROVE  TypeStack'
  BY <1>5 DEF IInv, TypeOK, TypeStack, TypeSid, ClientReturn, RemoveRefs
<1>6. ASSUME NEW s \in Subs, Destroy(s)
       PROVE  TypeStack'
  BY <1>6 DEF IInv, TypeOK, TypeStack, TypeSid, Destroy
<1>7. CASE TimerPush
  BY <1>7 DEF IInv, TypeOK, TypeStack, TypeSid, TimerPush, Enqueue
<1>8. CASE ManagerCheck
  BY <1>8 DEF IInv, TypeOK, TypeStack, TypeSid, ManagerCheck, ReadyForShutdown
<1>9. ASSUME NEW t \in Threads, RemoveSid(t)
       PROVE  TypeStack'
  BY <1>9 DEF IInv, TypeOK, TypeStack, TypeSid, RemoveSid, EraseFromMap,
      TransferSid, ReadyForShutdown, Goto
<1>10. ASSUME NEW t \in Threads, SubscriberPush(t)
       PROVE  TypeStack'
  BY <1>10 DEF IInv, TypeOK, TypeStack, TypeSid, SubscriberPush, Enqueue, Goto
<1>11. ASSUME NEW e \in Sessions, SessionRelock(e)
       PROVE  TypeStack'
  BY <1>11 DEF IInv, TypeOK, TypeStack, TypeSid, SessionRelock
<1>12. ASSUME NEW e \in Sessions, SessionError(e)
       PROVE  TypeStack'
  BY <1>12 DEF IInv, TypeOK, TypeStack, TypeSid, SessionError, Accepts,
      SetPending, SessionGoto
<1>13. ASSUME NEW e \in Sessions, SessionPush(e)
       PROVE  TypeStack'
  BY <1>13 DEF IInv, TypeOK, TypeStack, TypeSid, SessionPush, Enqueue,
      SessionGoto
<1>14. CASE ShutdownBegin
  BY <1>14 DEF IInv, TypeOK, TypeStack, TypeSid, ShutdownBegin,
      ReadyForShutdown
<1>15. CASE ShutdownWait
  BY <1>15 DEF IInv, TypeOK, TypeStack, TypeSid, ShutdownWait
<1>16. CASE ShutdownKill
  BY <1>16 DEF IInv, TypeOK, TypeStack, TypeSid, ShutdownKill
<1>17. CASE ShutdownJoin
  BY <1>17 DEF IInv, TypeOK, TypeStack, TypeSid, ShutdownJoin
<1>18. CASE UNCHANGED <<iActive, iShutdownSem, mainPc, clientPc, missed,
          asserted>>
  BY <1>18 DEF IInv, TypeStack, TypeOK
<1> QED
  BY <1>1, <1>2, <1>3, <1>4, <1>5, <1>6, <1>7, <1>8, <1>9, <1>10, <1>11, <1>12, ZenonT(30),
     <1>13, <1>14, <1>15, <1>16, <1>17, <1>18
  DEF Step, ClientStep, TimerStep, ManagerStep, SubscriberStep, SessionStep,
      ShutdownStep, OperationStep, TimerFire, TimerRenew, Accepts, SetPending,
      ManagerTake, ManagerGive, TakeOperation, EmptySlot, Goto, SubscribeBegin,
      Connect, LockFree, SubscribeOk, SetSid, Add, RemovePendingAdd, Arm,
      SubscribeFail, RenewReply, CancelTimer, UnsubscribeReply, Reschedule,
      Release, RemoveRefs, SessionRead, SessionGoto, SessionUpdateStart,
      SessionUpdateEnd, SessionUpdateThrow, SessionUnref, SessionFind, Mapped,
      AddRef

(* The Subscribers keep their types.                                       *)
LEMMA TypeSubscriberStep == IInv /\ Step => TypeSubscriber'
<1> SUFFICES ASSUME IInv, Step PROVE TypeSubscriber'
  OBVIOUS
<1> USE NoneAssumption, BoundAssumption
    DEF objVars, sidVars, lockVars, timerVars, mgrVars, stackVars, subVars,
        sessVars
<1>1. ASSUME NEW s \in Subs, ClientUnsubscribe(s)
       PROVE  TypeSubscriber'
  BY <1>1 DEF IInv, TypeOK, TypeSubscriber, TypeLock, TypeObj, TypeManager,
      ThreadShape, Operations, ClientUnsubscribe, AddRef, LockFree
<1>2. CASE ManagerGive
  BY <1>2 DEF IInv, TypeOK, TypeSubscriber, TypeLock, TypeObj, TypeManager,
      ThreadShape, Operations, ManagerGive
<1>3. ASSUME NEW t \in Threads, TakeOperation(t)
       PROVE  TypeSubscriber'
  BY <1>3 DEF IInv, TypeOK, TypeSubscriber, TypeLock, TypeObj, TypeManager,
      ThreadShape, Operations, TakeOperation, EmptySlot, Goto
<1>4. ASSUME NEW t \in Threads, OperationStep(t)
       PROVE  TypeSubscriber'
  <2>1. subOf[t] \in Subs /\ \E pc : Moves(t, pc)
    BY <1>4, OperationMoves DEF IInv
  <2>2. PICK pc : Moves(t, pc)
    BY <2>1
  <2> QED
    BY <2>1, <2>2 DEF IInv, TypeOK, TypeSubscriber, Moves, Edges
<1>5. ASSUME NEW t \in Threads, Release(t)
       PROVE  TypeSubscriber'
  BY <1>5 DEF IInv, TypeOK, TypeSubscriber, TypeLock, TypeObj, TypeManager,
      ThreadShape, Operations, Release, RemoveRefs, Goto
<1>6. CASE UNCHANGED <<subPc, subOf, subOp, interrupted>>
  BY <1>6 DEF IInv, TypeSubscriber, TypeOK
<1> QED
  BY <1>1, <1>2, <1>3, <1>4, <1>5, <1>6
  DEF Step, ClientStep, TimerStep, ManagerStep, SubscriberStep, SessionStep,
      ShutdownStep, ClientSubscribe, ClientPush, Enqueue, ClientSchedule,
      Accepts, SetPending, ClientReturn, RemoveRefs, Destroy, TimerFire,
      TimerRenew, TimerPush, ManagerTake, ManagerCheck, ReadyForShutdown,
      SessionRead, SessionGoto, SessionUpdateStart, LockFree, SessionUpdateEnd,
      SessionUpdateThrow, SessionRelock, SessionError, SessionPush,
      SessionUnref, SessionFind, Mapped, AddRef, ShutdownBegin, ShutdownWait,
      ShutdownKill, ShutdownJoin

(* The sessions keep their types.                                          *)
LEMMA TypeSessionStep == IInv /\ Step => TypeSession'
<1> SUFFICES ASSUME IInv, Step PROVE TypeSession'
  OBVIOUS
<1> USE NoneAssumption, BoundAssumption
    DEF objVars, sidVars, lockVars, timerVars, mgrVars, stackVars, subVars,
        sessVars
<1>1. ASSUME NEW e \in Sessions, SessionRead(e)
       PROVE  TypeSession'
  BY <1>1 DEF IInv, TypeOK, TypeSession, TypeLock, ThreadShape, SessionRead,
      SessionGoto
<1>2. ASSUME NEW e \in Sessions, SessionUpdateStart(e)
       PROVE  TypeSession'
  BY <1>2 DEF IInv, TypeOK, TypeSession, TypeLock, ThreadShape,
      SessionUpdateStart, LockFree, SessionGoto
<1>3. ASSUME NEW e \in Sessions, SessionUpdateEnd(e)
       PROVE  TypeSession'
  BY <1>3 DEF IInv, TypeOK, TypeSession, TypeLock, ThreadShape,
      SessionUpdateEnd, SessionGoto
<1>4. ASSUME NEW e \in Sessions, SessionUpdateThrow(e)
       PROVE  TypeSession'
  BY <1>4 DEF IInv, TypeOK, TypeSession, TypeLock, ThreadShape,
      SessionUpdateThrow, SessionGoto
<1>5. ASSUME NEW e \in Sessions, SessionError(e)
       PROVE  TypeSession'
  BY <1>5 DEF IInv, TypeOK, TypeSession, TypeLock, ThreadShape, SessionError,
      Accepts, SetPending, SessionGoto
<1>6. ASSUME NEW e \in Sessions, SessionPush(e)
       PROVE  TypeSession'
  BY <1>6 DEF IInv, TypeOK, TypeSession, TypeLock, ThreadShape, SessionPush,
      Enqueue, SessionGoto
<1>7. ASSUME NEW e \in Sessions, SessionUnref(e)
       PROVE  TypeSession'
  BY <1>7 DEF IInv, TypeOK, TypeSession, TypeLock, ThreadShape, SessionUnref,
      RemoveRefs, SessionGoto
<1>8. ASSUME NEW e \in Sessions, NEW s \in Subs, SessionFind(e, s)
       PROVE  TypeSession'
  BY <1>8 DEF IInv, TypeOK, TypeSession, TypeLock, ThreadShape, SessionFind,
      Mapped, AddRef, SessionGoto
<1>9. CASE UNCHANGED <<evPc, evSub, evDelivers>>
  BY <1>9 DEF IInv, TypeSession, TypeOK
<1> QED
  BY <1>1, <1>2, <1>3, <1>4, <1>5, <1>6, <1>7, <1>8, <1>9, ZenonT(30)
  DEF Step, ClientStep, TimerStep, ManagerStep, SubscriberStep, SessionStep,
      ShutdownStep, OperationStep, ClientSubscribe, ClientPush, Enqueue,
      ClientUnsubscribe, AddRef, LockFree, ClientSchedule, Accepts, SetPending,
      ClientReturn, RemoveRefs, Destroy, TimerFire, TimerRenew, TimerPush,
      ManagerTake, ManagerGive, ManagerCheck, ReadyForShutdown, TakeOperation,
      EmptySlot, Goto, SubscribeBegin, Connect, SubscribeOk, SetSid, Add,
      RemovePendingAdd, Arm, SubscribeFail, RenewReply, CancelTimer, RemoveSid,
      EraseFromMap, TransferSid, UnsubscribeReply, Reschedule, SubscriberPush,
      Release, SessionRelock, ShutdownBegin, ShutdownWait, ShutdownKill,
      ShutdownJoin

(* A thread has a subscription exactly while it is busy.                   *)
LEMMA ThreadShapeStep == IInv /\ Step => ThreadShape'
<1> SUFFICES ASSUME IInv, Step PROVE ThreadShape'
  OBVIOUS
<1> USE NoneAssumption, BoundAssumption
    DEF objVars, sidVars, lockVars, timerVars, mgrVars, stackVars, subVars,
        sessVars
<1>1. ASSUME NEW s \in Subs, TimerFire(s)
       PROVE  ThreadShape'
  BY <1>1 DEF IInv, TypeOK, TypeSubscriber, TypeSession, TypeTimer,
      TypeManager, ThreadShape, TimerFire
<1>2. CASE TimerRenew
  BY <1>2 DEF IInv, TypeOK, TypeSubscriber, TypeSession, TypeTimer,
      TypeManager, ThreadShape, TimerRenew, Accepts, SetPending
<1>3. CASE TimerPush
  BY <1>3 DEF IInv, TypeOK, TypeSubscriber, TypeSession, TypeTimer,
      TypeManager, ThreadShape, TimerPush, Enqueue
<1>4. ASSUME NEW t \in Threads, ManagerTake(t)
       PROVE  ThreadShape'
  BY <1>4 DEF IInv, TypeOK, TypeSubscriber, TypeSession, TypeTimer,
      TypeManager, ThreadShape, ManagerTake
<1>5. CASE ManagerGive
  BY <1>5 DEF IInv, TypeOK, TypeSubscriber, TypeSession, TypeTimer,
      TypeManager, ThreadShape, ManagerGive
<1>6. CASE ManagerCheck
  BY <1>6 DEF IInv, TypeOK, TypeSubscriber, TypeSession, TypeTimer,
      TypeManager, ThreadShape, ManagerCheck, ReadyForShutdown
<1>7. ASSUME NEW t \in Threads, TakeOperation(t)
       PROVE  ThreadShape'
  BY <1>7 DEF IInv, TypeOK, TypeSubscriber, TypeSession, TypeTimer,
      TypeManager, ThreadShape, TakeOperation, EmptySlot, Goto
<1>8. ASSUME NEW t \in Threads, OperationStep(t)
       PROVE  ThreadShape'
  <2>1. subOf[t] \in Subs /\ \E pc : Moves(t, pc)
    BY <1>8, OperationMoves DEF IInv
  <2>2. PICK pc : Moves(t, pc)
    BY <2>1
  <2> QED
    BY <2>1, <2>2 DEF IInv, TypeOK, TypeSubscriber, TypeSession, TypeTimer,
        TypeManager, ThreadShape, Moves, Edges
<1>9. ASSUME NEW t \in Threads, Release(t)
       PROVE  ThreadShape'
  BY <1>9 DEF IInv, TypeOK, TypeSubscriber, TypeSession, TypeTimer,
      TypeManager, ThreadShape, Release, RemoveRefs, Goto
<1>10. ASSUME NEW e \in Sessions, SessionRead(e)
       PROVE  ThreadShape'
  BY <1>10 DEF IInv, TypeOK, TypeSubscriber, TypeSession, TypeTimer,
      TypeManager, ThreadShape, SessionRead, SessionGoto
<1>11. ASSUME NEW e \in Sessions, SessionUpdateStart(e)
       PROVE  ThreadShape'
  BY <1>11 DEF IInv, TypeOK, TypeSubscriber, TypeSession, TypeTimer,
      TypeManager, ThreadShape, SessionUpdateStart, LockFree, SessionGoto
<1>12. ASSUME NEW e \in Sessions, SessionUpdateEnd(e)
       PROVE  ThreadShape'
  BY <1>12 DEF IInv, TypeOK, TypeSubscriber, TypeSession, TypeTimer,
      TypeManager, ThreadShape, SessionUpdateEnd, SessionGoto
<1>13. ASSUME NEW e \in Sessions, SessionUpdateThrow(e)
       PROVE  ThreadShape'
  BY <1>13 DEF IInv, TypeOK, TypeSubscriber, TypeSession, TypeTimer,
      TypeManager, ThreadShape, SessionUpdateThrow, SessionGoto
<1>14. ASSUME NEW e \in Sessions, SessionError(e)
       PROVE  ThreadShape'
  BY <1>14 DEF IInv, TypeOK, TypeSubscriber, TypeSession, TypeTimer,
      TypeManager, ThreadShape, SessionError, Accepts, SetPending, SessionGoto
<1>15. ASSUME NEW e \in Sessions, SessionPush(e)
       PROVE  ThreadShape'
  BY <1>15 DEF IInv, TypeOK, TypeSubscriber, TypeSession, TypeTimer,
      TypeManager, ThreadShape, SessionPush, Enqueue, SessionGoto
<1>16. ASSUME NEW e \in Sessions, SessionUnref(e)
       PROVE  ThreadShape'
  BY <1>16 DEF IInv, TypeOK, TypeSubscriber, TypeSession, TypeTimer,
      TypeManager, ThreadShape, SessionUnref, RemoveRefs, SessionGoto
<1>17. ASSUME NEW e \in Sessions, NEW s \in Subs, SessionFind(e, s)
       PROVE  ThreadShape'
  BY <1>17 DEF IInv, TypeOK, TypeSubscriber, TypeSession, TypeTimer,
      TypeManager, ThreadShape, SessionFind, Mapped, AddRef, SessionGoto
<1>18. CASE ShutdownKill
  BY <1>18 DEF IInv, TypeOK, TypeSubscriber, TypeSession, TypeTimer,
      TypeManager, ThreadShape, ShutdownKill
<1>19. CASE UNCHANGED <<subPc, subOf, evPc, evSub, timerPc, timerSub, mgrPc,
          mgrSub, mgrThread>>
  BY <1>19 DEF IInv, ThreadShape
<1> QED
  BY <1>1, <1>2, <1>3, <1>4, <1>5, <1>6, <1>7, <1>8, <1>9, <1>10, <1>11, <1>12,
     <1>13, <1>14, <1>15, <1>16, <1>17, <1>18, <1>19
  DEF Step, ClientStep, TimerStep, ManagerStep, SubscriberStep, SessionStep,
      ShutdownStep, ClientSubscribe, ClientPush, Enqueue, ClientUnsubscribe,
      AddRef, LockFree, ClientSchedule, Accepts, SetPending, ClientReturn,
      RemoveRefs, Destroy, SessionRelock, ShutdownBegin, ReadyForShutdown,
      ShutdownWait, ShutdownJoin

(* iSubscriberLock is owned by the one thread inside RunInSubscriber.      *)
LEMMA LockOwnerStep == IInv /\ Step => LockOwner'
<1> SUFFICES ASSUME IInv, Step PROVE LockOwner'
  OBVIOUS
<1> USE NoneAssumption, BoundAssumption
    DEF objVars, sidVars, lockVars, timerVars, mgrVars, stackVars, subVars,
        sessVars
<1>1. CASE ManagerGive
  BY <1>1 DEF IInv, TypeOK, TypeSubscriber, TypeLock, ThreadShape, LockOwner,
      Runs, ManagerGive
<1>2. ASSUME NEW t \in Threads, TakeOperation(t)
       PROVE  LockOwner'
  BY <1>2 DEF IInv, TypeOK, TypeSubscriber, TypeLock, ThreadShape, LockOwner,
      Runs, TakeOperation, EmptySlot, Goto
<1>3. ASSUME NEW t \in Threads, OperationStep(t)
       PROVE  LockOwner'
  <2>1. subOf[t] \in Subs /\ \E pc : Moves(t, pc)
    BY <1>3, OperationMoves DEF IInv
  <2>2. PICK pc : Moves(t, pc)
    BY <2>1
  <2> QED
    BY <2>1, <2>2 DEF IInv, TypeOK, TypeSubscriber, TypeLock, ThreadShape,
        LockOwner, Runs, Moves, Edges
<1>4. ASSUME NEW t \in Threads, Release(t)
       PROVE  LockOwner'
  BY <1>4 DEF IInv, TypeOK, TypeSubscriber, TypeLock, ThreadShape, LockOwner,
      Runs, Release, RemoveRefs, Goto
<1>5. CASE UNCHANGED <<subPc, subOf, iSubscriberLock>>
  BY <1>5 DEF IInv, LockOwner, Runs
<1> QED
  BY <1>1, <1>2, <1>3, <1>4, <1>5
  DEF Step, ClientStep, TimerStep, ManagerStep, SubscriberStep, SessionStep,
      ShutdownStep, ClientSubscribe, ClientPush, Enqueue, ClientUnsubscribe,
      AddRef, LockFree, ClientSchedule, Accepts, SetPending, ClientReturn,
      RemoveRefs, Destroy, TimerFire, TimerRenew, TimerPush, ManagerTake,
      ManagerCheck, ReadyForShutdown, SessionRead, SessionGoto,
      SessionUpdateStart, SessionUpdateEnd, SessionUpdateThrow, SessionRelock,
      SessionError, SessionPush, SessionUnref, SessionFind, Mapped,
      ShutdownBegin, ShutdownWait, ShutdownKill, ShutdownJoin

(* Every place is reached only by the operations that lead there.          *)
LEMMA OpAgreesStep == IInv /\ Step => OpAgrees'
<1> SUFFICES ASSUME IInv, Step PROVE OpAgrees'
  OBVIOUS
<1> USE NoneAssumption, BoundAssumption
    DEF objVars, sidVars, lockVars, timerVars, mgrVars, stackVars, subVars,
        sessVars
<1>1. CASE ManagerGive
  BY <1>1 DEF IInv, TypeOK, TypeSubscriber, TypeObj, Operations, ThreadShape,
      OpAgrees, ManagerGive
<1>2. ASSUME NEW t \in Threads, TakeOperation(t)
       PROVE  OpAgrees'
  BY <1>2 DEF IInv, TypeOK, TypeSubscriber, TypeObj, Operations, ThreadShape,
      OpAgrees, TakeOperation, EmptySlot, Goto
<1>3. ASSUME NEW t \in Threads, OperationStep(t)
       PROVE  OpAgrees'
  <2>1. subOf[t] \in Subs /\ \E pc : Moves(t, pc)
    BY <1>3, OperationMoves DEF IInv
  <2>2. PICK pc : Moves(t, pc)
    BY <2>1
  <2> QED
    BY <2>1, <2>2 DEF IInv, TypeOK, TypeSubscriber, TypeObj, Operations,
        ThreadShape, OpAgrees, Moves, Edges
<1>4. ASSUME NEW t \in Threads, Release(t)
       PROVE  OpAgrees'
  BY <1>4 DEF IInv, TypeOK, TypeSubscriber, TypeObj, Operations, ThreadShape,
      OpAgrees, Release, RemoveRefs, Goto
<1>5. CASE UNCHANGED <<subPc, subOp>>
  BY <1>5 DEF IInv, OpAgrees
<1> QED
  BY <1>1, <1>2, <1>3, <1>4, <1>5
  DEF Step, ClientStep, TimerStep, ManagerStep, SubscriberStep, SessionStep,
      ShutdownStep, ClientSubscribe, ClientPush, Enqueue, ClientUnsubscribe,
      AddRef, LockFree, ClientSchedule, Accepts, SetPending, ClientReturn,
      RemoveRefs, Destroy, TimerFire, TimerRenew, TimerPush, ManagerTake,
      ManagerCheck, ReadyForShutdown, SessionRead, SessionGoto,
      SessionUpdateStart, SessionUpdateEnd, SessionUpdateThrow, SessionRelock,
      SessionError, SessionPush, SessionUnref, SessionFind, Mapped,
      ShutdownBegin, ShutdownWait, ShutdownKill, ShutdownJoin

(* The sid is empty, or is not, where the code relies on it.               *)
LEMMA SidAtPcStep == IInv /\ Step => SidAtPc'
<1> SUFFICES ASSUME IInv, Step PROVE SidAtPc'
  OBVIOUS
<1> USE NoneAssumption, BoundAssumption
    DEF objVars, sidVars, lockVars, timerVars, mgrVars, stackVars, subVars,
        sessVars
<1>1. CASE ManagerGive
  BY <1>1 DEF IInv, TypeOK, TypeSubscriber, TypeSid, TypeLock, ThreadShape,
      LockOwner, Runs, SidAtPc, PendingSubscribe, OpAgrees, ManagerGive
<1>2. ASSUME NEW t \in Threads, TakeOperation(t)
       PROVE  SidAtPc'
  BY <1>2 DEF IInv, TypeOK, TypeSubscriber, TypeSid, TypeLock, ThreadShape,
      LockOwner, Runs, SidAtPc, PendingSubscribe, OpAgrees, TakeOperation,
      EmptySlot, Goto
<1>3. ASSUME NEW t \in Threads, OperationStep(t)
       PROVE  SidAtPc'
  <2>1. subOf[t] \in Subs /\ \E pc : Moves(t, pc)
    BY <1>3, OperationMoves DEF IInv
  <2>2. PICK pc : Moves(t, pc)
    BY <2>1
  <2> QED
    BY <2>1, <2>2 DEF IInv, TypeOK, TypeSubscriber, TypeSid, TypeLock,
        ThreadShape, LockOwner, Runs, SidAtPc, PendingSubscribe, OpAgrees,
        Moves, Edges
<1>4. ASSUME NEW t \in Threads, Release(t)
       PROVE  SidAtPc'
  BY <1>4 DEF IInv, TypeOK, TypeSubscriber, TypeSid, TypeLock, ThreadShape,
      LockOwner, Runs, SidAtPc, PendingSubscribe, OpAgrees, Release,
      RemoveRefs, Goto
<1>5. CASE UNCHANGED <<subPc, subOf, iSid>>
  BY <1>5 DEF IInv, SidAtPc
<1> QED
  BY <1>1, <1>2, <1>3, <1>4, <1>5
  DEF Step, ClientStep, TimerStep, ManagerStep, SubscriberStep, SessionStep,
      ShutdownStep, ClientSubscribe, ClientPush, Enqueue, ClientUnsubscribe,
      AddRef, LockFree, ClientSchedule, Accepts, SetPending, ClientReturn,
      RemoveRefs, Destroy, TimerFire, TimerRenew, TimerPush, ManagerTake,
      ManagerCheck, ReadyForShutdown, SessionRead, SessionGoto,
      SessionUpdateStart, SessionUpdateEnd, SessionUpdateThrow, SessionRelock,
      SessionError, SessionPush, SessionUnref, SessionFind, Mapped,
      ShutdownBegin, ShutdownWait, ShutdownKill, ShutdownJoin

(* eSubscribe only waits in the slot of a subscription with no sid.        *)
LEMMA PendingSubscribeStep == IInv /\ Step => PendingSubscribe'
<1> SUFFICES ASSUME IInv, Step PROVE PendingSubscribe'
  OBVIOUS
<1> USE NoneAssumption, BoundAssumption
    DEF objVars, sidVars, lockVars, timerVars, mgrVars, stackVars, subVars,
        sessVars
<1>1. ASSUME NEW s \in Subs, ClientSubscribe(s)
       PROVE  PendingSubscribe'
  BY <1>1 DEF IInv, TypeOK, TypeObj, TypeSubscriber, TypeSid, TypeTimer,
      TypeSession, ThreadShape, LockOwner, Runs, SidAtPc, PendingSubscribe,
      Unborn, Operations, ClientSubscribe
<1>2. ASSUME NEW s \in Subs, ClientSchedule(s)
       PROVE  PendingSubscribe'
  BY <1>2 DEF IInv, TypeOK, TypeObj, TypeSubscriber, TypeSid, TypeTimer,
      TypeSession, ThreadShape, LockOwner, Runs, SidAtPc, PendingSubscribe,
      Unborn, Operations, ClientSchedule, Accepts, SetPending
<1>3. CASE TimerRenew
  BY <1>3 DEF IInv, TypeOK, TypeObj, TypeSubscriber, TypeSid, TypeTimer,
      TypeSession, ThreadShape, LockOwner, Runs, SidAtPc, PendingSubscribe,
      Unborn, Operations, TimerRenew, Accepts, SetPending
<1>4. CASE ManagerGive
  BY <1>4 DEF IInv, TypeOK, TypeObj, TypeSubscriber, TypeSid, TypeTimer,
      TypeSession, ThreadShape, LockOwner, Runs, SidAtPc, PendingSubscribe,
      Unborn, Operations, ManagerGive
<1>5. ASSUME NEW t \in Threads, TakeOperation(t)
       PROVE  PendingSubscribe'
  BY <1>5 DEF IInv, TypeOK, TypeObj, TypeSubscriber, TypeSid, TypeTimer,
      TypeSession, ThreadShape, LockOwner, Runs, SidAtPc, PendingSubscribe,
      Unborn, Operations, TakeOperation, EmptySlot, Goto
<1>6. ASSUME NEW t \in Threads, OperationStep(t)
       PROVE  PendingSubscribe'
  <2>1. subOf[t] \in Subs /\ \E pc : Moves(t, pc)
    BY <1>6, OperationMoves DEF IInv
  <2>2. PICK pc : Moves(t, pc)
    BY <2>1
  <2> QED
    BY <2>1, <2>2 DEF IInv, TypeOK, TypeObj, TypeSubscriber, TypeSid,
        LockOwner, Runs, SidAtPc, PendingSubscribe, Moves, Edges
<1>7. ASSUME NEW t \in Threads, Release(t)
       PROVE  PendingSubscribe'
  BY <1>7 DEF IInv, TypeOK, TypeObj, TypeSubscriber, TypeSid, TypeTimer,
      TypeSession, ThreadShape, LockOwner, Runs, SidAtPc, PendingSubscribe,
      Unborn, Operations, Release, RemoveRefs, Goto
<1>8. ASSUME NEW e \in Sessions, SessionError(e)
       PROVE  PendingSubscribe'
  BY <1>8 DEF IInv, TypeOK, TypeObj, TypeSubscriber, TypeSid, TypeTimer,
      TypeSession, ThreadShape, LockOwner, Runs, SidAtPc, PendingSubscribe,
      Unborn, Operations, SessionError, Accepts, SetPending, SessionGoto
<1>9. CASE UNCHANGED <<iPendingOperation, iSid, subPc, subOf>>
  BY <1>9 DEF IInv, PendingSubscribe, Runs
<1> QED
  BY <1>1, <1>2, <1>3, <1>4, <1>5, <1>6, <1>7, <1>8, <1>9
  DEF Step, ClientStep, TimerStep, ManagerStep, SubscriberStep, SessionStep,
      ShutdownStep, ClientPush, Enqueue, ClientUnsubscribe, AddRef, LockFree,
      ClientReturn, RemoveRefs, Destroy, TimerFire, TimerPush, ManagerTake,
      ManagerCheck, ReadyForShutdown, SessionRead, SessionGoto,
      SessionUpdateStart, SessionUpdateEnd, SessionUpdateThrow, SessionRelock,
      SessionPush, SessionUnref, SessionFind, Mapped, ShutdownBegin,
      ShutdownWait, ShutdownKill, ShutdownJoin

(* Nothing refers to a subscription before its constructor.                *)
LEMMA UnbornStep == IInv /\ Step => Unborn'
<1> SUFFICES ASSUME IInv, Step PROVE Unborn'
  OBVIOUS
<1> USE NoneAssumption, BoundAssumption
    DEF objVars, sidVars, lockVars, timerVars, mgrVars, stackVars, subVars,
        sessVars
<1>1. ASSUME NEW s \in Subs, ClientSubscribe(s)
       PROVE  Unborn'
  BY <1>1 DEF IInv, TypeOK, TypeObj, TypeSubscriber, TypeSid, TypeTimer,
      TypeManager, TypeSession, TypeStack, ThreadShape, Unborn, ClientSubscribe
<1>2. ASSUME NEW s \in Subs, ClientPush(s)
       PROVE  Unborn'
  <2>1. s \in Subs
    OBVIOUS
  <2>2. \A i \in 1..Len(iList') :
          iList'[i] = s \/ (i \in 1..Len(iList) /\ iList'[i] = iList[i])
    BY <1>2, <2>1, EnqueueEffect DEF IInv, ClientPush
  <2> QED
    BY <1>2, <2>1, <2>2 DEF IInv, Unborn, TypeOK, TypeStack,
       TypeStack, ClientPush, Goto, SessionGoto
<1>3. ASSUME NEW s \in Subs, ClientUnsubscribe(s)
       PROVE  Unborn'
  BY <1>3 DEF IInv, TypeOK, TypeObj, TypeSubscriber, TypeSid, TypeTimer,
      TypeManager, TypeSession, TypeStack, ThreadShape, Unborn,
      ClientUnsubscribe, AddRef, LockFree
<1>4. ASSUME NEW s \in Subs, ClientSchedule(s)
       PROVE  Unborn'
  BY <1>4 DEF IInv, TypeOK, TypeObj, TypeSubscriber, TypeSid, TypeTimer,
      TypeManager, TypeSession, TypeStack, ThreadShape, Unborn, ClientSchedule,
      Accepts, SetPending
<1>5. ASSUME NEW s \in Subs, ClientReturn(s)
       PROVE  Unborn'
  BY <1>5 DEF IInv, TypeOK, TypeObj, TypeSubscriber, TypeSid, TypeTimer,
      TypeManager, TypeSession, TypeStack, ThreadShape, Unborn, ClientReturn,
      RemoveRefs
<1>6. ASSUME NEW s \in Subs, Destroy(s)
       PROVE  Unborn'
  BY <1>6 DEF IInv, TypeOK, TypeObj, TypeSubscriber, TypeSid, TypeTimer,
      TypeManager, TypeSession, TypeStack, ThreadShape, Unborn, Destroy
<1>7. ASSUME NEW s \in Subs, TimerFire(s)
       PROVE  Unborn'
  BY <1>7 DEF IInv, TypeOK, TypeObj, TypeSubscriber, TypeSid, TypeTimer,
      TypeManager, TypeSession, TypeStack, ThreadShape, Unborn, TimerFire
<1>8. CASE TimerRenew
  BY <1>8 DEF IInv, TypeOK, TypeObj, TypeSubscriber, TypeSid, TypeTimer,
      TypeManager, TypeSession, TypeStack, ThreadShape, Unborn, TimerRenew,
      Accepts, SetPending
<1>9. CASE TimerPush
  <2>1. timerSub \in Subs
    BY <1>9 DEF IInv, TypeOK, TypeTimer, ThreadShape, TimerPush
  <2>2. \A i \in 1..Len(iList') :
          iList'[i] = timerSub \/ (i \in 1..Len(iList) /\ iList'[i] = iList[i])
    BY <1>9, <2>1, EnqueueEffect DEF IInv, TimerPush
  <2> QED
    BY <1>9, <2>1, <2>2 DEF IInv, Unborn, TypeOK, TypeStack,
       TypeTimer, TimerPush, Goto, SessionGoto
<1>10. ASSUME NEW t \in Threads, ManagerTake(t)
       PROVE  Unborn'
  BY <1>10 DEF IInv, TypeOK, TypeObj, TypeSubscriber, TypeSid, TypeTimer,
      TypeManager, TypeSession, TypeStack, ThreadShape, Unborn, ManagerTake
<1>11. CASE ManagerGive
  BY <1>11 DEF IInv, TypeOK, TypeObj, TypeSubscriber, TypeSid, TypeTimer,
      TypeManager, TypeSession, TypeStack, ThreadShape, Unborn, ManagerGive
<1>12. ASSUME NEW t \in Threads, TakeOperation(t)
       PROVE  Unborn'
  BY <1>12 DEF IInv, TypeOK, TypeObj, TypeSubscriber, TypeSid, TypeTimer,
      TypeManager, TypeSession, TypeStack, ThreadShape, Unborn, TakeOperation,
      EmptySlot, Goto
<1>13. ASSUME NEW t \in Threads, SubscribeOk(t)
       PROVE  Unborn'
  BY <1>13 DEF IInv, TypeOK, TypeObj, TypeSubscriber, TypeSid, TypeTimer,
      TypeManager, TypeSession, TypeStack, ThreadShape, Unborn, SubscribeOk,
      SetSid, Goto
<1>14. ASSUME NEW t \in Threads, Add(t)
       PROVE  Unborn'
  BY <1>14 DEF IInv, TypeOK, TypeObj, TypeSubscriber, TypeSid, TypeTimer,
      TypeManager, TypeSession, TypeStack, ThreadShape, Unborn, Add, LockFree,
      RemovePendingAdd, Goto
<1>15. ASSUME NEW t \in Threads, Arm(t)
       PROVE  Unborn'
  BY <1>15 DEF IInv, TypeOK, TypeObj, TypeSubscriber, TypeSid, TypeTimer,
      TypeManager, TypeSession, TypeStack, ThreadShape, Unborn, Arm, Goto
<1>16. ASSUME NEW t \in Threads, CancelTimer(t)
       PROVE  Unborn'
  BY <1>16 DEF IInv, TypeOK, TypeObj, TypeSubscriber, TypeSid, TypeTimer,
      TypeManager, TypeSession, TypeStack, ThreadShape, Unborn, CancelTimer,
      Goto
<1>17. ASSUME NEW t \in Threads, RemoveSid(t)
       PROVE  Unborn'
  BY <1>17 DEF IInv, TypeOK, TypeObj, TypeSubscriber, TypeSid, TypeTimer,
      TypeManager, TypeSession, TypeStack, ThreadShape, Unborn, RemoveSid,
      EraseFromMap, TransferSid, ReadyForShutdown, Goto
<1>18. ASSUME NEW t \in Threads, Reschedule(t)
       PROVE  Unborn'
  BY <1>18 DEF IInv, TypeOK, TypeObj, TypeSubscriber, TypeSid, TypeTimer,
      TypeManager, TypeSession, TypeStack, ThreadShape, Unborn, Reschedule,
      Accepts, SetPending, Goto
<1>19. ASSUME NEW t \in Threads, SubscriberPush(t)
       PROVE  Unborn'
  <2>1. subOf[t] \in Subs
    BY <1>19 DEF IInv, TypeOK, TypeSubscriber, ThreadShape, SubscriberPush
  <2>2. \A i \in 1..Len(iList') :
          iList'[i] = subOf[t] \/ (i \in 1..Len(iList) /\ iList'[i] = iList[i])
    BY <1>19, <2>1, EnqueueEffect DEF IInv, SubscriberPush
  <2> QED
    BY <1>19, <2>1, <2>2 DEF IInv, Unborn, TypeOK, TypeStack,
       TypeSubscriber, SubscriberPush, Goto, SessionGoto
<1>20. ASSUME NEW t \in Threads, Release(t)
       PROVE  Unborn'
  BY <1>20 DEF IInv, TypeOK, TypeObj, TypeSubscriber, TypeSid, TypeTimer,
      TypeManager, TypeSession, TypeStack, ThreadShape, Unborn, Release,
      RemoveRefs, Goto
<1>21. ASSUME NEW e \in Sessions, SessionError(e)
       PROVE  Unborn'
  BY <1>21 DEF IInv, TypeOK, TypeObj, TypeSubscriber, TypeSid, TypeTimer,
      TypeManager, TypeSession, TypeStack, ThreadShape, Unborn, SessionError,
      Accepts, SetPending, SessionGoto
<1>22. ASSUME NEW e \in Sessions, SessionPush(e)
       PROVE  Unborn'
  <2>1. evSub[e] \in Subs
    BY <1>22 DEF IInv, TypeOK, TypeSession, ThreadShape, SessionPush
  <2>2. \A i \in 1..Len(iList') :
          iList'[i] = evSub[e] \/ (i \in 1..Len(iList) /\ iList'[i] = iList[i])
    BY <1>22, <2>1, EnqueueEffect DEF IInv, SessionPush
  <2> QED
    BY <1>22, <2>1, <2>2 DEF IInv, Unborn, TypeOK, TypeStack,
       TypeSession, SessionPush, Goto, SessionGoto
<1>23. ASSUME NEW e \in Sessions, SessionUnref(e)
       PROVE  Unborn'
  BY <1>23 DEF IInv, TypeOK, TypeObj, TypeSubscriber, TypeSid, TypeTimer,
      TypeManager, TypeSession, TypeStack, ThreadShape, Unborn, SessionUnref,
      RemoveRefs, SessionGoto
<1>24. ASSUME NEW e \in Sessions, NEW s \in Subs, SessionFind(e, s)
       PROVE  Unborn'
  BY <1>24 DEF IInv, TypeOK, TypeObj, TypeSubscriber, TypeSid, TypeTimer,
      TypeManager, TypeSession, TypeStack, ThreadShape, Unborn, SessionFind,
      Mapped, AddRef, SessionGoto
<1>25. CASE UNCHANGED <<clientPc, iSid, iPendingOperation,
          iRejectFutureOperations, timer, timerSub, mgrSub, iMap, iList, subOf,
          evSub>>
  BY <1>25 DEF IInv, Unborn
<1> QED
  BY <1>1, <1>2, <1>3, <1>4, <1>5, <1>6, <1>7, <1>8, <1>9, <1>10, <1>11, <1>12,
     <1>13, <1>14, <1>15, <1>16, <1>17, <1>18, <1>19, <1>20, <1>21, <1>22,
     <1>23, <1>24, <1>25
  DEF Step, ClientStep, TimerStep, ManagerStep, SubscriberStep, SessionStep,
      ShutdownStep, OperationStep, ManagerCheck, ReadyForShutdown,
      SubscribeBegin, Goto, Connect, LockFree, SubscribeFail, RemovePendingAdd,
      RenewReply, UnsubscribeReply, SessionRead, SessionGoto,
      SessionUpdateStart, SessionUpdateEnd, SessionUpdateThrow, SessionRelock,
      ShutdownBegin, ShutdownWait, ShutdownKill, ShutdownJoin

(* The accepted eUnsubscribe is waiting, running or done.                  *)
LEMMA UnsubscribeProgressStep == IInv /\ Step => UnsubscribeProgress'
<1> SUFFICES
          ASSUME IInv, Step, NEW r \in Subs,
                    iRejectFutureOperations'[r]
             PROVE  Progress(r)'
  BY DEF UnsubscribeProgress
<1> USE NoneAssumption, BoundAssumption
    DEF objVars, sidVars, lockVars, timerVars, mgrVars, stackVars, subVars,
        sessVars
<1>1. ASSUME NEW s \in Subs, ClientSubscribe(s)
       PROVE  Progress(r)'
  BY <1>1 DEF IInv, TypeOK, TypeObj, TypeSubscriber, TypeSid, TypeTimer,
      TypeSession, ThreadShape, LockOwner, Runs, SidAtPc, OpAgrees,
      UnsubscribeProgress, Progress, Unborn, ClientSubscribe
<1>2. ASSUME NEW s \in Subs, ClientSchedule(s)
       PROVE  Progress(r)'
  <2>1. CASE Accepts(s)
    <3>1. iRejectFutureOperations' = [iRejectFutureOperations EXCEPT ![s] = TRUE]
      BY <1>2, <2>1, Zenon DEF ClientSchedule, SetPending
    <3>2. /\ iPendingOperation' = [iPendingOperation EXCEPT ![s] = "eUnsubscribe"]
          /\ UNCHANGED <<iSid, subPc, subOf, subOp>>
      BY <1>2, <2>1 DEF ClientSchedule, SetPending
    <3> QED
      BY <3>1, <3>2 DEF IInv, TypeOK, TypeObj, UnsubscribeProgress, Progress, Runs
  <2>2. CASE ~Accepts(s)
    BY <1>2, <2>2 DEF IInv, UnsubscribeProgress, Progress, Runs, ClientSchedule
  <2> QED
    BY <2>1, <2>2
<1>3. CASE TimerRenew
  BY <1>3 DEF IInv, TypeOK, TypeObj, TypeSubscriber, TypeSid, TypeTimer,
      TypeSession, ThreadShape, LockOwner, Runs, SidAtPc, OpAgrees,
      UnsubscribeProgress, Progress, Unborn, TimerRenew, Accepts, SetPending
<1>4. CASE ManagerGive
  BY <1>4 DEF IInv, TypeOK, TypeObj, TypeSubscriber, TypeSid, TypeTimer,
      TypeSession, ThreadShape, LockOwner, Runs, SidAtPc, OpAgrees,
      UnsubscribeProgress, Progress, Unborn, ManagerGive
<1>5. ASSUME NEW t \in Threads, TakeOperation(t)
       PROVE  Progress(r)'
  <2>1. subOf[t] \in Subs /\ iRejectFutureOperations[r] /\ Progress(r)
    BY <1>5 DEF IInv, TypeOK, TypeSubscriber, ThreadShape, TakeOperation,
       UnsubscribeProgress
  <2>2. \A u \in Threads : ~Runs(u, subOf[t])
    BY <1>5, <2>1 DEF IInv, LockOwner, TakeOperation
  <2>3. \A u \in Threads : u # t => /\ subPc'[u] = subPc[u] /\ subOp'[u] = subOp[u]
                                  /\ Runs(u, r)' = Runs(u, r)
    BY <1>5 DEF IInv, TypeOK, TypeSubscriber, TakeOperation, Goto, Runs
  <2>4. CASE subOf[t] = r /\ iPendingOperation[r] = "eUnsubscribe"
    <3>1. Runs(t, r)' /\ subOp'[t] = "eUnsubscribe" /\ subPc'[t] = "cancel"
      BY <1>5, <2>4 DEF IInv, TypeOK, TypeSubscriber, TakeOperation, Goto, Runs
    <3>2. iPendingOperation'[r] = "eNone"
      BY <1>5, <2>4 DEF IInv, TypeOK, TypeObj, TakeOperation, EmptySlot
    <3> QED
      BY <3>1, <3>2 DEF Progress
  <2>5. CASE subOf[t] = r /\ iPendingOperation[r] # "eUnsubscribe"
    <3>1. iPendingOperation[r] = "eNone" /\ iSid[r] = 0
      BY <2>1, <2>2, <2>5 DEF Progress
    <3>2. iPendingOperation'[r] = "eNone" /\ iSid'[r] = 0 /\ subPc'[t] = "release"
      BY <1>5, <2>5, <3>1 DEF IInv, TypeOK, TypeObj, TypeSubscriber, TakeOperation,
         EmptySlot, Goto
    <3> QED
      BY <2>2, <2>3, <2>5, <3>2 DEF Progress
  <2>6. CASE subOf[t] # r
    <3>1. iPendingOperation'[r] = iPendingOperation[r] /\ iSid' = iSid
      BY <1>5, <2>6 DEF IInv, TypeOK, TypeObj, TakeOperation, EmptySlot
    <3>2. ~Runs(t, r) /\ ~Runs(t, r)'
      BY <1>5, <2>6 DEF TakeOperation, Runs
    <3>3. CASE iPendingOperation[r] = "eUnsubscribe"
      BY <3>1, <3>3 DEF Progress
    <3>4. ASSUME iPendingOperation[r] = "eNone",
                 NEW u \in Threads, Runs(u, r), subOp[u] = "eUnsubscribe",
                 subPc[u] = "release" => iSid[r] = 0
          PROVE  Progress(r)'
      <4>1. /\ u # t /\ Runs(u, r)' /\ subOp'[u] = "eUnsubscribe"
            /\ subPc'[u] = "release" => iSid'[r] = 0
        BY <2>3, <3>1, <3>2, <3>4
      <4> QED
        BY <3>1, <3>4, <4>1 DEF Progress
    <3>5. ASSUME iPendingOperation[r] = "eNone", iSid[r] = 0,
                 \A u \in Threads : Runs(u, r) => subPc[u] = "release"
          PROVE  Progress(r)'
      BY <2>3, <3>1, <3>2, <3>5 DEF Progress
    <3> QED
      BY <2>1, <3>3, <3>4, <3>5 DEF Progress
  <2> QED
    BY <2>4, <2>5, <2>6
<1>6. ASSUME NEW t \in Threads, OperationStep(t)
       PROVE  Progress(r)'
  <2>1. subOf[t] \in Subs /\ \E pc : Moves(t, pc)
    BY <1>6, OperationMoves DEF IInv
  <2>2. PICK pc : Moves(t, pc)
    BY <2>1
  <2> QED
    BY <2>1, <2>2 DEF IInv, TypeOK, TypeObj, TypeSubscriber, TypeSid,
        LockOwner, Runs, SidAtPc, OpAgrees, UnsubscribeProgress, Progress,
        Moves, Edges
<1>7. ASSUME NEW t \in Threads, Release(t)
       PROVE  Progress(r)'
  BY <1>7 DEF IInv, TypeOK, TypeObj, TypeSubscriber, TypeSid, TypeTimer,
      TypeSession, ThreadShape, LockOwner, Runs, SidAtPc, OpAgrees,
      UnsubscribeProgress, Progress, Unborn, Release, RemoveRefs, Goto
<1>8. ASSUME NEW e \in Sessions, SessionError(e)
       PROVE  Progress(r)'
  BY <1>8 DEF IInv, TypeOK, TypeObj, TypeSubscriber, TypeSid, TypeTimer,
      TypeSession, ThreadShape, LockOwner, Runs, SidAtPc, OpAgrees,
      UnsubscribeProgress, Progress, Unborn, SessionError, Accepts, SetPending,
      SessionGoto
<1>9. CASE UNCHANGED <<iPendingOperation, iRejectFutureOperations, iSid, subPc,
          subOf, subOp>>
  BY <1>9 DEF IInv, UnsubscribeProgress, Runs, Progress
<1> QED
  BY <1>1, <1>2, <1>3, <1>4, <1>5, <1>6, <1>7, <1>8, <1>9
  DEF Step, ClientStep, TimerStep, ManagerStep, SubscriberStep, SessionStep,
      ShutdownStep, ClientPush, Enqueue, ClientUnsubscribe, AddRef, LockFree,
      ClientReturn, RemoveRefs, Destroy, TimerFire, TimerPush, ManagerTake,
      ManagerCheck, ReadyForShutdown, SessionRead, SessionGoto,
      SessionUpdateStart, SessionUpdateEnd, SessionUpdateThrow, SessionRelock,
      SessionPush, SessionUnref, SessionFind, Mapped, ShutdownBegin,
      ShutdownWait, ShutdownKill, ShutdownJoin

(* The map has a subscription only under its present sid.                  *)
LEMMA MapMatchesSidStep == IInv /\ Step => MapMatchesSid'
<1> SUFFICES ASSUME IInv, Step PROVE MapMatchesSid'
  OBVIOUS
<1> USE NoneAssumption, BoundAssumption
    DEF objVars, sidVars, lockVars, timerVars, mgrVars, stackVars, subVars,
        sessVars
<1>1. ASSUME NEW t \in Threads, SubscribeOk(t)
       PROVE  MapMatchesSid'
  BY <1>1 DEF IInv, TypeOK, TypeSid, TypeSubscriber, ThreadShape, SidAtPc,
      MapMatchesSid, SubscribeOk, SetSid, Goto
<1>2. ASSUME NEW t \in Threads, Add(t)
       PROVE  MapMatchesSid'
  BY <1>2 DEF IInv, TypeOK, TypeSid, TypeSubscriber, ThreadShape, SidAtPc,
      MapMatchesSid, Add, LockFree, RemovePendingAdd, Goto
<1>3. ASSUME NEW t \in Threads, RemoveSid(t)
       PROVE  MapMatchesSid'
  BY <1>3 DEF IInv, TypeOK, TypeSid, TypeSubscriber, ThreadShape, SidAtPc,
      MapMatchesSid, RemoveSid, EraseFromMap, TransferSid, ReadyForShutdown, Goto
<1>4. CASE UNCHANGED <<iMap, iSid>>
  BY <1>4 DEF IInv, MapMatchesSid
<1> QED
  BY <1>1, <1>2, <1>3, <1>4, ZenonT(30)
  DEF Step, ClientStep, TimerStep, ManagerStep, SubscriberStep, SessionStep,
      ShutdownStep, OperationStep, ClientSubscribe, ClientPush, Enqueue,
      ClientUnsubscribe, AddRef, LockFree, ClientSchedule, Accepts, SetPending,
      ClientReturn, RemoveRefs, Destroy, TimerFire, TimerRenew, TimerPush,
      ManagerTake, ManagerGive, ManagerCheck, ReadyForShutdown, TakeOperation,
      EmptySlot, Goto, SubscribeBegin, Connect, Arm, SubscribeFail,
      RemovePendingAdd, RenewReply, CancelTimer, UnsubscribeReply, Reschedule,
      SubscriberPush, Release, SessionRead, SessionGoto, SessionUpdateStart,
      SessionUpdateEnd, SessionUpdateThrow, SessionRelock, SessionError,
      SessionPush, SessionUnref, SessionFind, Mapped, ShutdownBegin,
      ShutdownWait, ShutdownKill, ShutdownJoin

(* A subscription that somebody is on the way to is not forgotten.         *)
LEMMA RunnerKept ==
  ASSUME IInv, Step, NEW r \in Subs, ~asserted', HasRunner(r),
         \A t \in Threads : TakeOperation(t) => subOf[t] # r
  PROVE  HasRunner(r)'
<1> USE NoneAssumption
    DEF objVars, sidVars, lockVars, timerVars, mgrVars, stackVars, subVars,
        sessVars
<1>1. ASSUME NEW i \in 1..Len(iList), iList[i] = r
      PROVE  HasRunner(r)'
  <2>1. ASSUME NEW x \in Subs, Enqueue(x)
        PROVE  HasRunner(r)'
    BY <1>1, <2>1, EnqueueEffect DEF IInv, HasRunner
  <2>2. ASSUME NEW t \in Threads, ManagerTake(t)
        PROVE  HasRunner(r)'
    <3>1. iList \in Seq(Subs) /\ mgrSub' = Head(iList) /\ iList' = Tail(iList)
      BY <2>2 DEF IInv, TypeOK, TypeManager, ManagerTake
    <3>2. CASE i = 1
      BY <1>1, <3>1, <3>2 DEF HasRunner
    <3>3. CASE i # 1
      <4>1. i - 1 \in 1..Len(iList') /\ iList'[i - 1] = r
        BY <1>1, <3>1, <3>3
      <4> QED
        BY <4>1 DEF HasRunner
    <3> QED
      BY <3>2, <3>3
  <2>3. CASE UNCHANGED iList
    BY <1>1, <2>3 DEF HasRunner
  <2>4. CASE TimerPush
    <3>1. timerSub \in Subs /\ Enqueue(timerSub)
      BY <2>4 DEF IInv, TypeOK, TypeTimer, ThreadShape, TimerPush
    <3> QED
      BY <3>1, <2>1
  <2>5. ASSUME NEW t \in Threads, SubscriberPush(t)
        PROVE  HasRunner(r)'
    <3>1. subOf[t] \in Subs /\ Enqueue(subOf[t])
      BY <2>5 DEF IInv, TypeOK, TypeSubscriber, ThreadShape, SubscriberPush
    <3> QED
      BY <3>1, <2>1
  <2>6. ASSUME NEW e \in Sessions, SessionPush(e)
        PROVE  HasRunner(r)'
    <3>1. evSub[e] \in Subs /\ Enqueue(evSub[e])
      BY <2>6 DEF IInv, TypeOK, TypeSession, ThreadShape, SessionPush
    <3> QED
      BY <3>1, <2>1
  <2>7. ASSUME NEW s \in Subs, ClientPush(s)
        PROVE  HasRunner(r)'
    BY <2>1, <2>7 DEF ClientPush
  <2> QED
    BY <2>2, <2>3, <2>4, <2>5, <2>6, <2>7, ZenonT(30)
    DEF Step, ClientStep, TimerStep, ManagerStep, SubscriberStep, SessionStep,
        ShutdownStep, OperationStep, ClientSubscribe, ClientUnsubscribe,
        AddRef, LockFree, ClientSchedule, Accepts, SetPending, ClientReturn,
        RemoveRefs, Destroy, TimerFire, TimerRenew, ManagerGive, ManagerCheck,
        ReadyForShutdown, TakeOperation, EmptySlot, Goto, SubscribeBegin,
        Connect, SubscribeOk, SetSid, Add, RemovePendingAdd, Arm,
        SubscribeFail, RenewReply, CancelTimer, RemoveSid, EraseFromMap,
        TransferSid, UnsubscribeReply, Reschedule, Release, SessionRead,
        SessionGoto, SessionUpdateStart, SessionUpdateEnd, SessionUpdateThrow,
        SessionRelock, SessionError, SessionUnref, SessionFind, Mapped,
        ShutdownBegin, ShutdownWait, ShutdownKill, ShutdownJoin
<1>2. CASE mgrSub = r
  <2>1. CASE ManagerGive
    BY <1>2, <2>1 DEF IInv, TypeOK, TypeManager, TypeSubscriber, ThreadShape,
       HasRunner, ManagerGive
  <2>2. ASSUME NEW t \in Threads, ManagerTake(t)
        PROVE  FALSE
    BY <1>2, <2>2 DEF IInv, ThreadShape, ManagerTake
  <2>3. CASE UNCHANGED mgrSub
    BY <1>2, <2>3 DEF HasRunner
  <2> QED
    BY <2>1, <2>2, <2>3, ZenonT(30)
    DEF Step, ClientStep, TimerStep, ManagerStep, SubscriberStep, SessionStep,
        ShutdownStep, OperationStep, ClientSubscribe, ClientPush, Enqueue,
        ClientUnsubscribe, AddRef, LockFree, ClientSchedule, Accepts,
        SetPending, ClientReturn, RemoveRefs, Destroy, TimerFire, TimerRenew,
        TimerPush, ManagerCheck, ReadyForShutdown, TakeOperation, EmptySlot,
        Goto, SubscribeBegin, Connect, SubscribeOk, SetSid, Add,
        RemovePendingAdd, Arm, SubscribeFail, RenewReply, CancelTimer, RemoveSid,
        EraseFromMap, TransferSid, UnsubscribeReply, Reschedule,
        SubscriberPush, Release, SessionRead, SessionGoto, SessionUpdateStart,
        SessionUpdateEnd, SessionUpdateThrow, SessionRelock, SessionError,
        SessionPush, SessionUnref, SessionFind, Mapped, ShutdownBegin,
        ShutdownWait, ShutdownKill, ShutdownJoin
<1>3. ASSUME NEW u \in Threads, subOf[u] = r, subPc[u] \in {"given", "push"}
      PROVE  HasRunner(r)'
  <2>1. ASSUME NEW t \in Threads, TakeOperation(t)
        PROVE  HasRunner(r)'
    <3>1. t # u /\ subOf' = subOf /\ subPc'[u] = subPc[u]
      BY <1>3, <2>1 DEF IInv, TypeOK, TypeSubscriber, TakeOperation, Goto
    <3> QED
      BY <1>3, <3>1 DEF HasRunner
  <2>2. ASSUME NEW t \in Threads, Release(t)
        PROVE  HasRunner(r)'
    <3>1. t # u /\ subOf'[u] = subOf[u] /\ subPc'[u] = subPc[u]
      BY <1>3, <2>2 DEF IInv, TypeOK, TypeSubscriber, Release, Goto
    <3> QED
      BY <1>3, <3>1 DEF HasRunner
  <2>3. CASE ManagerGive
    <3>1. mgrThread # u /\ mgrThread \in Threads
      BY <1>3, <2>3 DEF IInv, TypeOK, TypeManager, ThreadShape, ManagerGive
    <3>2. subOf'[u] = subOf[u] /\ subPc'[u] = subPc[u]
      BY <2>3, <3>1 DEF IInv, TypeOK, TypeSubscriber, ManagerGive
    <3> QED
      BY <1>3, <3>2 DEF HasRunner
  <2>4. ASSUME NEW t \in Threads, OperationStep(t), t = u
        PROVE  HasRunner(r)'
    <3>1. SubscriberPush(u)
      BY <1>3, <2>4 DEF SubscribeBegin, Connect, SubscribeOk, Add, Arm, SubscribeFail,
         RenewReply, CancelTimer, RemoveSid, UnsubscribeReply, Reschedule, SubscriberPush,
         OperationStep
    <3>2. Enqueue(r)
      BY <1>3, <3>1 DEF SubscriberPush
    <3> QED
      BY <3>2, EnqueueEffect DEF IInv, HasRunner
  <2>5. ASSUME NEW t \in Threads, OperationStep(t), t # u
        PROVE  HasRunner(r)'
    <3>1. PICK pc : Moves(t, pc)
      BY <2>5, OperationMoves DEF IInv
    <3>2. subOf' = subOf /\ subPc'[u] = subPc[u]
      BY <2>5, <3>1 DEF IInv, TypeOK, TypeSubscriber, Moves
    <3> QED
      BY <1>3, <3>2 DEF HasRunner
  <2>6. CASE UNCHANGED <<subOf, subPc>>
    BY <1>3, <2>6 DEF HasRunner
  <2> QED
    BY <2>1, <2>2, <2>3, <2>4, <2>5, <2>6
    DEF Step, ClientStep, TimerStep, ManagerStep, SubscriberStep, SessionStep,
        ShutdownStep, ClientSubscribe, ClientPush, Enqueue, ClientUnsubscribe,
        AddRef, LockFree, ClientSchedule, Accepts, SetPending, ClientReturn,
        RemoveRefs, Destroy, TimerFire, TimerRenew, TimerPush, ManagerTake,
        ManagerCheck, ReadyForShutdown, SessionRead, SessionGoto,
        SessionUpdateStart, SessionUpdateEnd, SessionUpdateThrow,
        SessionRelock, SessionError, SessionPush, SessionUnref, SessionFind,
        Mapped, ShutdownBegin, ShutdownWait, ShutdownKill, ShutdownJoin
<1>4. CASE clientPc[r] \in {"pushSubscribe", "pushUnsubscribe"}
  <2>1. CASE ClientPush(r)
    <3>1. Enqueue(r)
      BY <2>1 DEF ClientPush
    <3> QED
      BY <3>1, EnqueueEffect DEF IInv, HasRunner
  <2>2. CASE ~ClientPush(r)
    <3>1. clientPc'[r] = clientPc[r]
      <4>1. ASSUME NEW s \in Subs, ClientStep(s)
            PROVE  clientPc'[r] = clientPc[r]
        BY <1>4, <2>2, <4>1 DEF IInv, TypeOK, TypeStack, ClientStep,
           ClientSubscribe, ClientPush, ClientUnsubscribe, ClientSchedule, ClientReturn
      <4>2. CASE UNCHANGED clientPc
        BY <4>2
      <4> QED
        BY <4>1, <4>2, ZenonT(30)
        DEF Step, TimerStep, ManagerStep, SubscriberStep, SessionStep,
        ShutdownStep, OperationStep, Destroy, TimerFire, TimerRenew, Accepts,
        SetPending, TimerPush, Enqueue, ManagerTake, ManagerGive, ManagerCheck,
        ReadyForShutdown, TakeOperation, EmptySlot, Goto, SubscribeBegin,
        Connect, LockFree, SubscribeOk, SetSid, Add, RemovePendingAdd, Arm,
        SubscribeFail, RenewReply, CancelTimer, RemoveSid, EraseFromMap,
        TransferSid, UnsubscribeReply, Reschedule, SubscriberPush, Release,
        RemoveRefs, SessionRead, SessionGoto, SessionUpdateStart,
        SessionUpdateEnd, SessionUpdateThrow, SessionRelock, SessionError,
        SessionPush, SessionUnref, SessionFind, Mapped, AddRef, ShutdownBegin,
        ShutdownWait, ShutdownKill, ShutdownJoin
    <3> QED
      BY <1>4, <3>1 DEF HasRunner
  <2> QED
    BY <2>1, <2>2
<1>5. CASE timerPc = "push" /\ timerSub = r
  <2>1. CASE TimerPush
    <3>1. Enqueue(r)
      BY <1>5, <2>1 DEF TimerPush
    <3> QED
      BY <3>1, EnqueueEffect DEF IInv, HasRunner
  <2>2. CASE ~TimerPush
    <3>1. UNCHANGED <<timerPc, timerSub>>
      <4>1. ASSUME NEW s \in Subs, TimerFire(s)
            PROVE  FALSE
        BY <1>5, <4>1 DEF TimerFire
      <4>2. CASE TimerRenew
        BY <1>5, <4>2 DEF TimerRenew
      <4>3. ASSUME NEW e \in Sessions, SessionStep(e)
            PROVE  UNCHANGED <<timerPc, timerSub>>
        BY <4>3 DEF SessionStep, SessionRead, SessionUpdateStart,
           SessionUpdateEnd, SessionUpdateThrow, SessionRelock, SessionError,
           SessionPush, SessionUnref, timerVars
      <4> QED
        BY <2>2, <4>1, <4>2, <4>3, ZenonT(30)
        DEF Step, ClientStep, TimerStep, ManagerStep, SubscriberStep,
        ShutdownStep, OperationStep, ClientSubscribe, ClientPush, Enqueue,
        ClientUnsubscribe, AddRef, LockFree, ClientSchedule, Accepts,
        SetPending, ClientReturn, RemoveRefs, Destroy, ManagerTake,
        ManagerGive, ManagerCheck, ReadyForShutdown, TakeOperation, EmptySlot,
        Goto, SubscribeBegin, Connect, SubscribeOk, SetSid, Add,
        RemovePendingAdd, Arm, SubscribeFail, RenewReply, CancelTimer, RemoveSid,
        EraseFromMap, TransferSid, UnsubscribeReply, Reschedule,
        SubscriberPush, Release, SessionFind, Mapped, ShutdownBegin,
        ShutdownWait, ShutdownKill, ShutdownJoin
    <3> QED
      BY <1>5, <3>1 DEF HasRunner
  <2> QED
    BY <2>1, <2>2
<1>6. ASSUME NEW f \in Sessions, evPc[f] = "push", evSub[f] = r
      PROVE  HasRunner(r)'
  <2>1. CASE SessionPush(f)
    <3>1. Enqueue(r)
      BY <1>6, <2>1 DEF SessionPush
    <3> QED
      BY <3>1, EnqueueEffect DEF IInv, HasRunner
  <2>2. CASE ~SessionPush(f)
    <3>1. evPc'[f] = evPc[f] /\ evSub'[f] = evSub[f]
      <4>1. ASSUME NEW e \in Sessions, SessionStep(e)
            PROVE  evPc'[f] = evPc[f] /\ evSub'[f] = evSub[f]
        BY <1>6, <2>2, <4>1 DEF IInv, TypeOK, TypeSession, SessionGoto, SessionStep,
           SessionRead, SessionUpdateStart, SessionUpdateEnd, SessionUpdateThrow,
           SessionRelock, SessionError,
           SessionPush, SessionUnref
      <4>2. ASSUME NEW e \in Sessions, NEW s \in Subs, SessionFind(e, s)
            PROVE  evPc'[f] = evPc[f] /\ evSub'[f] = evSub[f]
        BY <1>6, <4>2 DEF IInv, TypeOK, TypeSession, SessionGoto, SessionFind
      <4>3. CASE UNCHANGED <<evPc, evSub>>
        BY <4>3
      <4> QED
        BY <4>1, <4>2, <4>3, ZenonT(30)
        DEF Step, ClientStep, TimerStep, ManagerStep, SubscriberStep, SessionStep,
        ShutdownStep, OperationStep, ClientSubscribe, ClientPush, Enqueue,
        ClientUnsubscribe, AddRef, LockFree, ClientSchedule, Accepts,
        SetPending, ClientReturn, RemoveRefs, Destroy, TimerFire, TimerRenew,
        TimerPush, ManagerTake, ManagerGive, ManagerCheck, ReadyForShutdown,
        TakeOperation, EmptySlot, Goto, SubscribeBegin, Connect, SubscribeOk,
        SetSid, Add, RemovePendingAdd, Arm, SubscribeFail, RenewReply,
        CancelTimer, RemoveSid, EraseFromMap, TransferSid, UnsubscribeReply,
        Reschedule, SubscriberPush, Release, ShutdownBegin, ShutdownWait,
        ShutdownKill, ShutdownJoin
    <3> QED
      BY <1>6, <3>1 DEF HasRunner
  <2> QED
    BY <2>1, <2>2
<1> QED
  BY <1>1, <1>2, <1>3, <1>4, <1>5, <1>6 DEF HasRunner

(* An operation in the slot always has a thread on its way to it.          *)
LEMMA PendingHasRunnerStep == IInv /\ Step => PendingHasRunner'
<1> SUFFICES ASSUME IInv, Step, ~asserted', NEW r \in Subs,
                    iPendingOperation'[r] # "eNone"
             PROVE  HasRunner(r)'
  BY DEF PendingHasRunner
<1> USE DEF objVars, sidVars, lockVars, timerVars, mgrVars, stackVars, subVars, sessVars
<1>1. CASE iPendingOperation[r] # "eNone" /\ \A t \in Threads : TakeOperation(t) => subOf[t] # r
  <2>1. ~asserted
    <3>1. ASSUME NEW s \in Subs, ClientStep(s) \/ Destroy(s) \/ TimerFire(s)
          PROVE  ~asserted
      BY <3>1 DEF ClientStep, ClientSubscribe, ClientPush, ClientUnsubscribe,
         ClientSchedule, ClientReturn, Destroy, TimerFire
    <3>2. CASE TimerStep \/ ManagerStep \/ ShutdownStep
      BY <3>2 DEF TimerStep, TimerRenew, TimerPush, ManagerStep, ManagerTake,
         ManagerGive, ManagerCheck, ShutdownStep, ShutdownBegin, ShutdownWait,
         ShutdownKill, ShutdownJoin
    <3>3. ASSUME NEW t \in Threads, SubscriberStep(t)
          PROVE  ~asserted
      BY <3>3 DEF SubscriberStep, OperationStep, TakeOperation, SubscribeBegin, Connect,
         SubscribeOk, Add, Arm, SubscribeFail, RenewReply, CancelTimer,
         RemoveSid, UnsubscribeReply, Reschedule, SubscriberPush, Release
    <3>4. ASSUME NEW e \in Sessions,
                 SessionStep(e) \/ \E s \in Subs : SessionFind(e, s)
          PROVE  ~asserted
      BY <3>4 DEF SessionStep, SessionRead, SessionUpdateStart, SessionUpdateEnd, SessionUpdateThrow,
         SessionRelock,
         SessionError, SessionPush, SessionUnref, SessionFind
    <3> QED
      BY <3>1, <3>2, <3>3, <3>4 DEF Step
  <2> QED
    BY <1>1, <2>1, RunnerKept DEF IInv, PendingHasRunner
<1>2. ASSUME NEW t \in Threads, TakeOperation(t), subOf[t] = r
      PROVE  FALSE
  BY <1>2 DEF IInv, TypeOK, TypeObj, TakeOperation, EmptySlot
<1>3. CASE iPendingOperation[r] = "eNone"
  <2>1. ASSUME NEW s \in Subs, ClientSubscribe(s)
        PROVE  HasRunner(r)'
    BY <1>3, <2>1 DEF IInv, TypeOK, TypeObj, TypeStack, ClientSubscribe, HasRunner
  <2>2. ASSUME NEW s \in Subs, ClientSchedule(s)
        PROVE  HasRunner(r)'
    <3>1. s = r /\ clientPc' = [clientPc EXCEPT ![s] = "pushUnsubscribe"]
      BY <1>3, <2>2 DEF IInv, TypeOK, TypeObj, ClientSchedule, SetPending
    <3> QED
      BY <3>1 DEF IInv, TypeOK, TypeStack, HasRunner
  <2>3. CASE TimerRenew
    <3>1. timerSub = r /\ timerPc' = "push" /\ timerSub' = timerSub
      BY <1>3, <2>3 DEF IInv, TypeOK, TypeObj, TimerRenew, SetPending
    <3> QED
      BY <3>1 DEF HasRunner
  <2>4. ASSUME NEW e \in Sessions, SessionError(e)
        PROVE  HasRunner(r)'
    <3>1. evSub[e] = r /\ evSub' = evSub /\ evPc' = [evPc EXCEPT ![e] = "push"]
      BY <1>3, <2>4 DEF IInv, TypeOK, TypeObj, SessionError, SetPending, SessionGoto
    <3> QED
      BY <3>1 DEF IInv, TypeOK, TypeSession, HasRunner
  <2>5. ASSUME NEW t \in Threads, OperationStep(t)
        PROVE  HasRunner(r)'
    <3>1. PICK pc : Moves(t, pc)
      BY <2>5, OperationMoves DEF IInv
    <3>2. pc = "push" /\ subOf[t] = r
      BY <1>3, <3>1 DEF IInv, TypeOK, TypeObj, Moves
    <3> QED
      BY <3>1, <3>2 DEF IInv, TypeOK, TypeSubscriber, Moves, HasRunner
  <2>6. ASSUME NEW t \in Threads, TakeOperation(t)
        PROVE  FALSE
    BY <1>3, <2>6 DEF IInv, TypeOK, TypeObj, TakeOperation, EmptySlot
  <2>7. CASE UNCHANGED iPendingOperation
    BY <1>3, <2>7
  <2> QED
    BY <2>1, <2>2, <2>3, <2>4, <2>5, <2>6, <2>7
    DEF Step, ClientStep, TimerStep, ManagerStep, SubscriberStep, SessionStep,
        ShutdownStep, ClientPush, Enqueue, ClientUnsubscribe, AddRef, LockFree,
        ClientReturn, RemoveRefs, Destroy, TimerFire, TimerPush, ManagerTake,
        ManagerGive, ManagerCheck, ReadyForShutdown, Release, Goto,
        SessionRead, SessionGoto, SessionUpdateStart, SessionUpdateEnd,
        SessionUpdateThrow, SessionRelock, SessionPush, SessionUnref,
        SessionFind, Mapped, ShutdownBegin, ShutdownWait, ShutdownKill,
        ShutdownJoin
<1> QED
  BY <1>1, <1>2, <1>3

(* Callbacks run under iLock, and only before Unsubscribe.                 *)
LEMMA CallbackLockStep == IInv /\ Step => CallbackLock'
<1> SUFFICES ASSUME IInv, Step PROVE CallbackLock'
  OBVIOUS
<1> USE NoneAssumption, BoundAssumption
    DEF objVars, sidVars, lockVars, timerVars, mgrVars, stackVars, subVars,
        sessVars
<1>1. ASSUME NEW s \in Subs, ClientSubscribe(s)
       PROVE  CallbackLock'
  BY <1>1 DEF IInv, TypeOK, TypeLock, TypeSession, TypeStack, ThreadShape,
      CallbackLock, ClientSubscribe
<1>2. ASSUME NEW s \in Subs, ClientPush(s)
       PROVE  CallbackLock'
  BY <1>2 DEF IInv, TypeOK, TypeLock, TypeSession, TypeStack, ThreadShape,
      CallbackLock, ClientPush, Enqueue
<1>3. ASSUME NEW s \in Subs, ClientUnsubscribe(s)
       PROVE  CallbackLock'
  BY <1>3 DEF IInv, TypeOK, TypeLock, TypeSession, TypeStack, ThreadShape,
      CallbackLock, ClientUnsubscribe, AddRef, LockFree
<1>4. ASSUME NEW s \in Subs, ClientSchedule(s)
       PROVE  CallbackLock'
  BY <1>4 DEF IInv, TypeOK, TypeLock, TypeSession, TypeStack, ThreadShape,
      CallbackLock, ClientSchedule, Accepts, SetPending
<1>5. ASSUME NEW s \in Subs, ClientReturn(s)
       PROVE  CallbackLock'
  BY <1>5 DEF IInv, TypeOK, TypeLock, TypeSession, TypeStack, ThreadShape,
      CallbackLock, ClientReturn, RemoveRefs
<1>6. ASSUME NEW e \in Sessions, SessionRead(e)
       PROVE  CallbackLock'
  BY <1>6 DEF IInv, TypeOK, TypeLock, TypeSession, TypeStack, ThreadShape,
      CallbackLock, SessionRead, SessionGoto
<1>7. ASSUME NEW e \in Sessions, SessionUpdateStart(e)
       PROVE  CallbackLock'
  BY <1>7 DEF IInv, TypeOK, TypeLock, TypeSession, TypeStack, ThreadShape,
      CallbackLock, SessionUpdateStart, LockFree, SessionGoto
<1>8. ASSUME NEW e \in Sessions, SessionUpdateEnd(e)
       PROVE  CallbackLock'
  BY <1>8 DEF IInv, TypeOK, TypeLock, TypeSession, TypeStack, ThreadShape,
      CallbackLock, SessionUpdateEnd, SessionGoto
<1>9. ASSUME NEW e \in Sessions, SessionUpdateThrow(e)
       PROVE  CallbackLock'
  BY <1>9 DEF IInv, TypeOK, TypeLock, TypeSession, TypeStack, ThreadShape,
      CallbackLock, SessionUpdateThrow, SessionGoto
<1>10. ASSUME NEW e \in Sessions, SessionError(e)
       PROVE  CallbackLock'
  BY <1>10 DEF IInv, TypeOK, TypeLock, TypeSession, TypeStack, ThreadShape,
      CallbackLock, SessionError, Accepts, SetPending, SessionGoto
<1>11. ASSUME NEW e \in Sessions, SessionPush(e)
       PROVE  CallbackLock'
  BY <1>11 DEF IInv, TypeOK, TypeLock, TypeSession, TypeStack, ThreadShape,
      CallbackLock, SessionPush, Enqueue, SessionGoto
<1>12. ASSUME NEW e \in Sessions, SessionUnref(e)
       PROVE  CallbackLock'
  BY <1>12 DEF IInv, TypeOK, TypeLock, TypeSession, TypeStack, ThreadShape,
      CallbackLock, SessionUnref, RemoveRefs, SessionGoto
<1>13. ASSUME NEW e \in Sessions, NEW s \in Subs, SessionFind(e, s)
       PROVE  CallbackLock'
  BY <1>13 DEF IInv, TypeOK, TypeLock, TypeSession, TypeStack, ThreadShape,
      CallbackLock, SessionFind, Mapped, AddRef, SessionGoto
<1>14. CASE UNCHANGED <<evPc, evSub, evDelivers, iLock, iEventProcessor,
          clientPc>>
  BY <1>14 DEF IInv, CallbackLock
<1> QED
  BY <1>1, <1>2, <1>3, <1>4, <1>5, <1>6, <1>7, <1>8, <1>9, <1>10, <1>11, <1>12, ZenonT(30),
     <1>13, <1>14
  DEF Step, ClientStep, TimerStep, ManagerStep, SubscriberStep, SessionStep,
      ShutdownStep, OperationStep, Destroy, TimerFire, TimerRenew, Accepts,
      SetPending, TimerPush, Enqueue, ManagerTake, ManagerGive, ManagerCheck,
      ReadyForShutdown, TakeOperation, EmptySlot, Goto, SubscribeBegin,
      Connect, LockFree, SubscribeOk, SetSid, Add, RemovePendingAdd, Arm,
      SubscribeFail, RenewReply, CancelTimer, RemoveSid, EraseFromMap,
      TransferSid, UnsubscribeReply, Reschedule, SubscriberPush, Release,
      RemoveRefs, SessionRelock, ShutdownBegin, ShutdownWait, ShutdownKill,
      ShutdownJoin

-----------------------------------------------------------------------------
(* The inductive invariant holds at the start.                             *)
LEMMA InitInvariant == Init => IInv
<1> SUFFICES ASSUME Init PROVE IInv
  OBVIOUS
<1> USE NoneAssumption, BoundAssumption DEF Init
<1>1. TypeOK
  <2>1. TypeObj /\ TypeSid
    BY DEF TypeObj, TypeSid, Operations
  <2>2. TypeLock /\ TypeTimer
    BY DEF TypeLock, TypeTimer
  <2>3. TypeManager
    BY DEF TypeManager
  <2>4. TypeStack
    BY DEF TypeStack
  <2>5. TypeSubscriber /\ TypeSession
    BY DEF TypeSubscriber, TypeSession, Operations
  <2> QED
    BY <2>1, <2>2, <2>3, <2>4, <2>5 DEF TypeOK
<1>2. ThreadShape /\ LockOwner /\ OpAgrees /\ SidAtPc
  BY DEF ThreadShape, LockOwner, Runs, OpAgrees, SidAtPc
<1>3. PendingSubscribe /\ Unborn /\ UnsubscribeProgress
  BY DEF PendingSubscribe, Unborn, UnsubscribeProgress
<1>4. MapMatchesSid /\ PendingHasRunner /\ CallbackLock
  BY DEF MapMatchesSid, PendingHasRunner, CallbackLock
<1> QED
  BY <1>1, <1>2, <1>3, <1>4 DEF IInv

(* Every step, stuttering included, keeps the inductive invariant.         *)
LEMMA NextInvariant == IInv /\ [Next]_vars => IInv'
<1>1. IInv /\ Step => TypeOK'
  BY TypeObjStep, TypeSidStep, TypeLockStep, TypeTimerStep, TypeManagerStep,
     TypeStackStep, TypeSubscriberStep, TypeSessionStep DEF TypeOK
<1>2. IInv /\ Step => IInv'
  BY <1>1, ThreadShapeStep, LockOwnerStep, OpAgreesStep, SidAtPcStep,
     PendingSubscribeStep, UnbornStep, UnsubscribeProgressStep, MapMatchesSidStep,
     PendingHasRunnerStep, CallbackLockStep DEF IInv
<1>3. ASSUME IInv, UNCHANGED vars
      PROVE  IInv'
  <2> USE <1>3 DEF IInv, vars, objVars, sidVars, lockVars, timerVars, mgrVars,
          stackVars, subVars, sessVars
  <2>1. TypeOK'
    BY DEF TypeOK, TypeObj, TypeSid, TypeLock, TypeTimer, TypeManager, TypeStack,
       TypeSubscriber, TypeSession
  <2>2. ThreadShape' /\ LockOwner' /\ OpAgrees' /\ SidAtPc'
    BY DEF ThreadShape, LockOwner, Runs, OpAgrees, SidAtPc
  <2>3. PendingSubscribe' /\ Unborn' /\ UnsubscribeProgress'
    BY DEF PendingSubscribe, Unborn, UnsubscribeProgress, Progress, Runs
  <2>4. MapMatchesSid' /\ PendingHasRunner' /\ CallbackLock'
    BY DEF MapMatchesSid, PendingHasRunner, HasRunner, CallbackLock
  <2> QED
    BY <2>1, <2>2, <2>3, <2>4
<1> QED
  BY <1>2, <1>3 DEF Next

(* The inductive invariant holds in every reachable state.                 *)
THEOREM Invariance == Spec => []IInv
<1> QED
  BY InitInvariant, NextInvariant, PTL DEF Spec

-----------------------------------------------------------------------------
(* Every variable keeps its type; the map never has an empty sid.          *)
THEOREM TypeCorrect == Spec => []TypeOK
<1>1. IInv => TypeOK
  BY DEF IInv
<1> QED
  BY Invariance, <1>1, PTL

(* DoSubscribe never runs for a subscription that still has a sid, so it   *)
(* never leaks one on the publisher.                                       *)
THEOREM NoSidLeaked == Spec => []SubscribeOnlyWithoutSid
<1>1. IInv => SubscribeOnlyWithoutSid
  BY DEF IInv, SidAtPc, SubscribeOnlyWithoutSid
<1> QED
  BY Invariance, <1>1, PTL

(* No Schedule by any thread makes an accepted eUnsubscribe disappear      *)
(* before it has emptied the sid and the map.                              *)
THEOREM UnsubscribeKept == Spec => []UnsubscribeNeverLost
<1>1. IInv => UnsubscribeNeverLost
  <2> SUFFICES ASSUME IInv, NEW s \in Subs, iRejectFutureOperations[s]
               PROVE  \/ iPendingOperation[s] = "eUnsubscribe"
                      \/ /\ iPendingOperation[s] = "eNone"
                         /\ \/ \E t \in Threads : Runs(t, s) /\ subOp[t] = "eUnsubscribe"
                            \/ iSid[s] = 0 /\ Mapped(s) = {}
    BY DEF UnsubscribeNeverLost
  <2>1. Progress(s)
    BY DEF IInv, UnsubscribeProgress
  <2>2. iSid[s] = 0 => Mapped(s) = {}
    BY BoundAssumption DEF IInv, TypeOK, TypeSid, MapMatchesSid, Mapped
  <2>3. CASE iPendingOperation[s] = "eUnsubscribe"
    BY <2>3
  <2>4. CASE iPendingOperation[s] = "eNone" /\ iSid[s] = 0
    BY <2>2, <2>4
  <2>5. CASE iPendingOperation[s] = "eNone" /\ iSid[s] # 0
    <3>1. PICK t \in Threads : Runs(t, s) /\ subOp[t] = "eUnsubscribe"
      BY <2>1, <2>5 DEF Progress
    <3> QED
      BY <2>5, <3>1
  <2> QED
    BY <2>1, <2>3, <2>4, <2>5 DEF Progress
<1> QED
  BY Invariance, <1>1, PTL

(* No operation is stranded in the slot without a thread to run it.        *)
THEOREM NothingStranded == Spec => []PendingHasRunner
<1>1. IInv => PendingHasRunner
  BY DEF IInv
<1> QED
  BY Invariance, <1>1, PTL

(* The map and the subscriptions agree on the sids.                        *)
THEOREM MapAgrees == Spec => []MapMatchesSid
<1>1. IInv => MapMatchesSid
  BY DEF IInv
<1> QED
  BY Invariance, <1>1, PTL

(* The client's callbacks are over when Unsubscribe is past its lock.      *)
THEOREM CallbacksEnd == Spec => []NoEventAfterUnsubscribe
<1>1. IInv => NoEventAfterUnsubscribe
  <2> SUFFICES ASSUME IInv, NEW e \in Sessions, evPc[e] = "update", evDelivers[e]
               PROVE  clientPc[evSub[e]] \in {"pushSubscribe", "active"}
    BY DEF NoEventAfterUnsubscribe
  <2>1. evSub[e] \in Subs /\ iEventProcessor[evSub[e]]
    BY DEF IInv, TypeOK, TypeSession, ThreadShape, CallbackLock
  <2> QED
    BY <2>1 DEF IInv, CallbackLock
<1> QED
  BY Invariance, <1>1, PTL
=============================================================================
