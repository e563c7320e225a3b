---------------------- MODULE CpSubscriptionLifeProofs ----------------------
(***************************************************************************)
(* The reference count of CpSubscription, proved for any number of         *)
(* subscriptions, Subscribers and sessions: it counts the threads, the     *)
(* queue entries and the owner that still use the object, a deleted object *)
(* is out of everybody's reach, and the manager's destructor leaves        *)
(* nothing behind.                                                         *)
(*                                                                         *)
(* The count is exact only together with the reasons why nobody needs a    *)
(* reference where the code takes none: the timer callback's Renew finds   *)
(* iRejectFutureOperations set on an object that is on its way out, and    *)
(* FindSubscription finds no such object in the map.                       *)
(***************************************************************************)
EXTENDS CpSubscriptionProofs, Counting

(* The references of Holders, one by one.                                  *)
OwnerRefs(s) ==
  CASE clientPc[s] \in {"none", "gone"} -> 0
    [] clientPc[s] = "active"           -> 1
    [] clientPc[s] = "pushUnsubscribe"  -> 3
    [] OTHER                            -> 2

QueueRefs(s)    == HowOften(iList, s)
ManagerRefs(s)  == IF mgrSub = s THEN 1 ELSE 0
ThreadRefs(s)   == Cardinality({t \in Threads : subOf[t] = s})
ThreadPushes(s) == Cardinality({t \in Threads : subOf[t] = s /\ subPc[t] = "push"})
TimerRefs(s)    == IF timerPc = "push" /\ timerSub = s THEN 1 ELSE 0
SessionRefs(s)  == Cardinality({e \in Sessions : evSub[e] = s})
SessionPushes(s)== Cardinality({e \in Sessions : evSub[e] = s /\ evPc[e] = "push"})

(* The count is exact, and the object lives as long as it is positive.     *)
Counted == \A s \in Subs : iRefCount[s] = Holders(s)

Alive == \A s \in Subs : life[s] \in {"none", "dying", "dead"} <=> iRefCount[s] = 0

(* Only the client's own Unsubscribe makes a subscription reject.          *)
Left == {"pushUnsubscribe", "return", "gone"}

Rejects == \A s \in Subs : iRejectFutureOperations[s] <=> clientPc[s] \in Left

Born == \A s \in Subs : life[s] = "none" <=> clientPc[s] = "none"

(* A pending add has its thread.                                           *)
PendingAdds ==
  \A s \in iPending :
    \E t \in Threads : subOf[t] = s /\ subPc[t] \in {"connect", "subscribeReply", "add"}

(* No timer is left behind by the destructor.                              *)
DeadTimer == \A s \in Subs : life[s] = "dead" => timerSub # s /\ ~timer[s]

(* The eUnsubscribe in the slot comes with its own entry of the queue.     *)
Queued(s) ==
  \/ clientPc[s] = "pushUnsubscribe"
  \/ \E i \in 1..Len(iList) : iList[i] = s
  \/ mgrSub = s
  \/ \E t \in Threads : subOf[t] = s /\ subPc[t] = "given"

UnsubscribeQueued ==
  \A s \in Subs :
    iRejectFutureOperations[s] /\ iPendingOperation[s] = "eUnsubscribe" => Queued(s)

(* A Renew that was accepted before the Unsubscribe is queued before       *)
(* DoUnsubscribe is past its cancelling of the timer.                      *)
TimerPushes ==
  \A s \in Subs : timerPc = "push" /\ timerSub = s /\ iRejectFutureOperations[s] =>
    \/ iPendingOperation[s] = "eUnsubscribe"
    \/ \E t \in Threads : Runs(t, s) /\ subPc[t] = "cancel"

(* How far ~CpiSubscriptionManager has come, and what is over by then.     *)
Shutdown ==
  /\ iActive <=> mainPc = "up"
  /\ mainPc # "up" => \A s \in Subs : clientPc[s] \in {"none", "gone"}
  /\ iShutdownSem => ~iActive /\ iList = <<>>
  /\ mainPc \in {"kill", "join", "server", "down"} => iList = <<>>
  /\ mgrPc = "dead" <=> mainPc \in {"join", "server", "down"}
  /\ mainPc \in {"server", "down"} => \A t \in Threads : subPc[t] = "idle"
  /\ mainPc = "down" => /\ \A e \in Sessions : evPc[e] = "idle"
                        /\ \A s \in Subs : life[s] # "dying"

(* As long as no ASSERT has stopped the process between two halves of a    *)
(* Schedule.                                                               *)
Core ==
  /\ Counted
  /\ Alive
  /\ Rejects
  /\ Born
  /\ PendingAdds
  /\ DeadTimer
  /\ UnsubscribeQueued
  /\ TimerPushes
  /\ Shutdown

-----------------------------------------------------------------------------
(* Counting.                                                               *)
LEMMA HoldersSum ==
  ASSUME NEW r
  PROVE  /\ Holders(r) = OwnerRefs(r) + QueueRefs(r) + ManagerRefs(r) + ThreadRefs(r)
                           + ThreadPushes(r) + TimerRefs(r) + SessionRefs(r) + SessionPushes(r)
         /\ Holders(r)' = OwnerRefs(r)' + QueueRefs(r)' + ManagerRefs(r)' + ThreadRefs(r)'
                           + ThreadPushes(r)' + TimerRefs(r)' + SessionRefs(r)' + SessionPushes(r)'
BY Zenon DEF Holders, OwnerRefs, QueueRefs, ManagerRefs, ThreadRefs, ThreadPushes,
   TimerRefs, SessionRefs, SessionPushes, HowOften

(* What a step leaves alone holds on to what it held on to.                *)
LEMMA Unmoved ==
  ASSUME NEW r
  PROVE  /\ clientPc' = clientPc => OwnerRefs(r)' = OwnerRefs(r)
         /\ iList' = iList => QueueRefs(r)' = QueueRefs(r)
         /\ mgrSub' = mgrSub => ManagerRefs(r)' = ManagerRefs(r)
         /\ subOf' = subOf => ThreadRefs(r)' = ThreadRefs(r)
         /\ subOf' = subOf /\ subPc' = subPc => ThreadPushes(r)' = ThreadPushes(r)
         /\ timerPc' = timerPc /\ timerSub' = timerSub => TimerRefs(r)' = TimerRefs(r)
         /\ evSub' = evSub => SessionRefs(r)' = SessionRefs(r)
         /\ evSub' = evSub /\ evPc' = evPc => SessionPushes(r)' = SessionPushes(r)
BY DEF OwnerRefs, QueueRefs, ManagerRefs, ThreadRefs, ThreadPushes, TimerRefs,
   SessionRefs, SessionPushes

(* Nothing is counted a negative number of times, and what is there is     *)
(* counted.                                                                *)
LEMMA RefTypes ==
  ASSUME IInv, NEW r
  PROVE  /\ OwnerRefs(r) \in 0..3 /\ QueueRefs(r) \in Nat /\ ManagerRefs(r) \in 0..1
         /\ ThreadRefs(r) \in Nat /\ ThreadPushes(r) \in Nat /\ TimerRefs(r) \in 0..1
         /\ SessionRefs(r) \in Nat /\ SessionPushes(r) \in Nat
         /\ QueueRefs(r) = 0 <=> \A i \in 1..Len(iList) : iList[i] # r
         /\ ThreadRefs(r) = 0 <=> \A t \in Threads : subOf[t] # r
         /\ SessionRefs(r) = 0 <=> \A e \in Sessions : evSub[e] # r
         /\ ThreadRefs(r) = 0 => ThreadPushes(r) = 0
         /\ SessionRefs(r) = 0 => SessionPushes(r) = 0
<1>1. OwnerRefs(r) \in 0..3 /\ ManagerRefs(r) \in 0..1 /\ TimerRefs(r) \in 0..1
  BY DEF OwnerRefs, ManagerRefs, TimerRefs
<1>2. QueueRefs(r) \in Nat /\ (QueueRefs(r) = 0 <=> \A i \in 1..Len(iList) : iList[i] # r)
  <2> DEFINE A == {i \in DOMAIN iList : iList[i] = r}
  <2>1. Len(iList) \in Nat /\ DOMAIN iList = 1..Len(iList)
    BY DEF IInv, TypeOK, TypeManager
  <2>2. IsFiniteSet(1..Len(iList)) /\ A \subseteq 1..Len(iList)
    BY <2>1, FS_Interval
  <2>3. IsFiniteSet(A)
    BY <2>2, FS_Subset
  <2>4. Cardinality(A) \in Nat /\ (Cardinality(A) = 0 <=> A = {})
    BY <2>3, FS_EmptySet, FS_CardinalityType
  <2> QED
    BY <2>1, <2>4 DEF QueueRefs, HowOften
<1>3. /\ ThreadRefs(r) \in Nat /\ ThreadPushes(r) \in Nat
      /\ ThreadRefs(r) = 0 <=> \A t \in Threads : subOf[t] # r
      /\ ThreadRefs(r) = 0 => ThreadPushes(r) = 0
  <2> DEFINE A == {t \in Threads : subOf[t] = r}
             B == {t \in Threads : subOf[t] = r /\ subPc[t] = "push"}
  <2>1. IsFiniteSet(A) /\ IsFiniteSet(B)
    <3>1. A \subseteq Threads /\ B \subseteq Threads
      OBVIOUS
    <3> QED
      BY <3>1, PoolAssumption, FS_Subset
  <2>2. /\ Cardinality(A) \in Nat /\ (Cardinality(A) = 0 <=> A = {})
        /\ Cardinality(B) \in Nat /\ (Cardinality(B) = 0 <=> B = {})
    BY <2>1, FS_EmptySet, FS_CardinalityType
  <2>3. B \subseteq A
    OBVIOUS
  <2> QED
    BY <2>2, <2>3 DEF ThreadRefs, ThreadPushes
<1>4. /\ SessionRefs(r) \in Nat /\ SessionPushes(r) \in Nat
      /\ SessionRefs(r) = 0 <=> \A e \in Sessions : evSub[e] # r
      /\ SessionRefs(r) = 0 => SessionPushes(r) = 0
  <2> DEFINE A == {e \in Sessions : evSub[e] = r}
             B == {e \in Sessions : evSub[e] = r /\ evPc[e] = "push"}
  <2>1. IsFiniteSet(A) /\ IsFiniteSet(B)
    <3>1. A \subseteq Sessions /\ B \subseteq Sessions
      OBVIOUS
    <3> QED
      BY <3>1, PoolAssumption, FS_Subset
  <2>2. /\ Cardinality(A) \in Nat /\ (Cardinality(A) = 0 <=> A = {})
        /\ Cardinality(B) \in Nat /\ (Cardinality(B) = 0 <=> B = {})
    BY <2>1, FS_EmptySet, FS_CardinalityType
  <2>3. B \subseteq A
    OBVIOUS
  <2> QED
    BY <2>2, <2>3 DEF SessionRefs, SessionPushes
<1> QED
  BY <1>1, <1>2, <1>3, <1>4

LEMMA HoldersCount ==
  ASSUME IInv, NEW r
  PROVE  /\ Holders(r) \in Nat
         /\ Holders(r) = 0 => /\ OwnerRefs(r) = 0 /\ QueueRefs(r) = 0 /\ ManagerRefs(r) = 0
                              /\ ThreadRefs(r) = 0 /\ TimerRefs(r) = 0 /\ SessionRefs(r) = 0
<1>1. Holders(r) = OwnerRefs(r) + QueueRefs(r) + ManagerRefs(r) + ThreadRefs(r)
                     + ThreadPushes(r) + TimerRefs(r) + SessionRefs(r) + SessionPushes(r)
  BY HoldersSum, Zenon
<1>2. /\ OwnerRefs(r) \in Nat /\ QueueRefs(r) \in Nat /\ ManagerRefs(r) \in Nat
      /\ ThreadRefs(r) \in Nat /\ ThreadPushes(r) \in Nat /\ TimerRefs(r) \in Nat
      /\ SessionRefs(r) \in Nat /\ SessionPushes(r) \in Nat
  BY RefTypes
<1>3. PICK a \in Nat, b \in Nat, c \in Nat, d \in Nat :
        OwnerRefs(r) = a /\ QueueRefs(r) = b /\ ManagerRefs(r) = c /\ ThreadRefs(r) = d
  BY <1>2, Zenon
<1>4. PICK p \in Nat, q \in Nat, u \in Nat, v \in Nat :
        ThreadPushes(r) = p /\ TimerRefs(r) = q /\ SessionRefs(r) = u /\ SessionPushes(r) = v
  BY <1>2, Zenon
<1>5. Holders(r) = a + b + c + d + p + q + u + v
  BY <1>1, <1>3, <1>4, Zenon
<1> QED
  BY <1>3, <1>4, <1>5

(* One thread moves, or one session.                                       *)
ThreadGoes(t, x, pc) ==
  subOf' = [subOf EXCEPT ![t] = x] /\ subPc' = [subPc EXCEPT ![t] = pc]

SessionGoes(e, x, pc) ==
  evSub' = [evSub EXCEPT ![e] = x] /\ evPc' = [evPc EXCEPT ![e] = pc]

LEMMA ThreadMove ==
  ASSUME IInv, NEW t \in Threads, NEW x, NEW pc, NEW r, ThreadGoes(t, x, pc)
  PROVE  /\ ThreadRefs(r)' = ThreadRefs(r) + (IF x = r THEN 1 ELSE 0)
                                           - (IF subOf[t] = r THEN 1 ELSE 0)
         /\ ThreadPushes(r)' =
              ThreadPushes(r) + (IF x = r /\ pc = "push" THEN 1 ELSE 0)
                              - (IF subOf[t] = r /\ subPc[t] = "push" THEN 1 ELSE 0)
<1> DEFINE A == {u \in Threads : subOf[u] = r}
           B == {u \in Threads : subOf[u] = r /\ subPc[u] = "push"}
           C == {u \in Threads : subOf'[u] = r}
           D == {u \in Threads : subOf'[u] = r /\ subPc'[u] = "push"}
<1>1. /\ \A u \in Threads : subOf'[u] = IF u = t THEN x ELSE subOf[u]
      /\ \A u \in Threads : subPc'[u] = IF u = t THEN pc ELSE subPc[u]
  BY DEF ThreadGoes, IInv, TypeOK, TypeSubscriber
<1>2. IsFiniteSet(A) /\ IsFiniteSet(B)
  <2>1. A \subseteq Threads /\ B \subseteq Threads
    OBVIOUS
  <2> QED
    BY <2>1, PoolAssumption, FS_Subset
<1>3. A \ {t} = C \ {t} /\ (t \in C <=> x = r) /\ (t \in A <=> subOf[t] = r)
  BY <1>1
<1>4. /\ B \ {t} = D \ {t} /\ (t \in D <=> x = r /\ pc = "push")
      /\ (t \in B <=> subOf[t] = r /\ subPc[t] = "push")
  BY <1>1
<1>5. ThreadRefs(r) = Cardinality(A) /\ ThreadRefs(r)' = Cardinality(C)
  BY DEF ThreadRefs
<1>6. ThreadPushes(r) = Cardinality(B) /\ ThreadPushes(r)' = Cardinality(D)
  BY DEF ThreadPushes
<1> HIDE DEF A, B, C, D
<1>7. Cardinality(C) = Cardinality(A) + (IF t \in C THEN 1 ELSE 0) - (IF t \in A THEN 1 ELSE 0)
  BY <1>2, <1>3, CardinalityStep
<1>8. Cardinality(D) = Cardinality(B) + (IF t \in D THEN 1 ELSE 0) - (IF t \in B THEN 1 ELSE 0)
  BY <1>2, <1>4, CardinalityStep
<1> QED
  BY <1>3, <1>4, <1>5, <1>6, <1>7, <1>8

LEMMA SessionMove ==
  ASSUME IInv, NEW e \in Sessions, NEW x, NEW pc, NEW r, SessionGoes(e, x, pc)
  PROVE  /\ SessionRefs(r)' = SessionRefs(r) + (IF x = r THEN 1 ELSE 0)
                                             - (IF evSub[e] = r THEN 1 ELSE 0)
         /\ SessionPushes(r)' =
              SessionPushes(r) + (IF x = r /\ pc = "push" THEN 1 ELSE 0)
                               - (IF evSub[e] = r /\ evPc[e] = "push" THEN 1 ELSE 0)
<1> DEFINE A == {u \in Sessions : evSub[u] = r}
           B == {u \in Sessions : evSub[u] = r /\ evPc[u] = "push"}
           C == {u \in Sessions : evSub'[u] = r}
           D == {u \in Sessions : evSub'[u] = r /\ evPc'[u] = "push"}
<1>1. /\ \A u \in Sessions : evSub'[u] = IF u = e THEN x ELSE evSub[u]
      /\ \A u \in Sessions : evPc'[u] = IF u = e THEN pc ELSE evPc[u]
  BY DEF SessionGoes, IInv, TypeOK, TypeSession
<1>2. IsFiniteSet(A) /\ IsFiniteSet(B)
  <2>1. A \subseteq Sessions /\ B \subseteq Sessions
    OBVIOUS
  <2> QED
    BY <2>1, PoolAssumption, FS_Subset
<1>3. A \ {e} = C \ {e} /\ (e \in C <=> x = r) /\ (e \in A <=> evSub[e] = r)
  BY <1>1
<1>4. /\ B \ {e} = D \ {e} /\ (e \in D <=> x = r /\ pc = "push")
      /\ (e \in B <=> evSub[e] = r /\ evPc[e] = "push")
  BY <1>1
<1>5. SessionRefs(r) = Cardinality(A) /\ SessionRefs(r)' = Cardinality(C)
  BY DEF SessionRefs
<1>6. SessionPushes(r) = Cardinality(B) /\ SessionPushes(r)' = Cardinality(D)
  BY DEF SessionPushes
<1> HIDE DEF A, B, C, D
<1>7. Cardinality(C) = Cardinality(A) + (IF e \in C THEN 1 ELSE 0) - (IF e \in A THEN 1 ELSE 0)
  BY <1>2, <1>3, CardinalityStep
<1>8. Cardinality(D) = Cardinality(B) + (IF e \in D THEN 1 ELSE 0) - (IF e \in B THEN 1 ELSE 0)
  BY <1>2, <1>4, CardinalityStep
<1> QED
  BY <1>3, <1>4, <1>5, <1>6, <1>7, <1>8

(* A Schedule that does not assert adds one entry to the queue.            *)
LEMMA QueueMove ==
  ASSUME IInv, NEW s \in Subs, Enqueue(s), ~asserted, ~asserted', NEW r
  PROVE  QueueRefs(r)' = QueueRefs(r) + (IF s = r THEN 1 ELSE 0)
<1>1. iList \in Seq(Subs) /\ iList' = Append(iList, s)
  BY DEF IInv, TypeOK, TypeManager, Enqueue
<1> QED
  BY <1>1, CountAppend DEF QueueRefs

(* The manager pops an entry.                                              *)
LEMMA QueuePop ==
  ASSUME IInv, iList # <<>>, iList' = Tail(iList), NEW r
  PROVE  QueueRefs(r)' = QueueRefs(r) - (IF Head(iList) = r THEN 1 ELSE 0)
<1>1. iList \in Seq(Subs)
  BY DEF IInv, TypeOK, TypeManager
<1> QED
  BY <1>1, CountTail DEF QueueRefs

-----------------------------------------------------------------------------
(* An object that nobody counts is out of reach.                           *)
LEMMA Unreferenced ==
  ASSUME IInv, Core, NEW r \in Subs, iRefCount[r] = 0
  PROVE  /\ clientPc[r] \in {"none", "gone"}
         /\ \A i \in 1..Len(iList) : iList[i] # r
         /\ mgrSub # r
         /\ \A t \in Threads : subOf[t] # r
         /\ \A e \in Sessions : evSub[e] # r
         /\ ~(timerPc = "push" /\ timerSub = r)
         /\ iSid[r] = 0 /\ Mapped(r) = {} /\ r \notin iPending
<1>1. Holders(r) = 0
  BY DEF Core, Counted
<1>2. /\ OwnerRefs(r) = 0 /\ QueueRefs(r) = 0 /\ ManagerRefs(r) = 0
      /\ ThreadRefs(r) = 0 /\ TimerRefs(r) = 0 /\ SessionRefs(r) = 0
  BY <1>1, HoldersCount
<1>3. clientPc[r] \in {"none", "gone"}
  BY <1>2 DEF OwnerRefs
<1>4. /\ \A i \in 1..Len(iList) : iList[i] # r
      /\ \A t \in Threads : subOf[t] # r
      /\ \A e \in Sessions : evSub[e] # r
  BY <1>2, RefTypes
<1>5. mgrSub # r /\ ~(timerPc = "push" /\ timerSub = r)
  BY <1>2 DEF ManagerRefs, TimerRefs
<1>6. r \notin iPending
  BY <1>4 DEF Core, PendingAdds
<1>7. iSid[r] = 0
  <2>1. CASE clientPc[r] = "none"
    BY <2>1 DEF IInv, Unborn
  <2>2. CASE clientPc[r] = "gone"
    <3>1. iRejectFutureOperations[r]
      BY <2>2 DEF Core, Rejects, Left
    <3>2. ~Queued(r)
      BY <1>3, <1>4, <1>5 DEF Queued
    <3>3. iPendingOperation[r] # "eUnsubscribe"
      BY <3>1, <3>2 DEF Core, UnsubscribeQueued
    <3> QED
      BY <1>4, <3>1, <3>3 DEF IInv, UnsubscribeProgress, Progress, Runs
  <2> QED
    BY <1>3, <2>1, <2>2
<1>8. Mapped(r) = {}
  BY <1>7, BoundAssumption DEF IInv, TypeOK, TypeSid, MapMatchesSid, Mapped
<1> QED
  BY <1>3, <1>4, <1>5, <1>6, <1>7, <1>8

(* Who has a reference has a live object.                                  *)
LEMMA Referenced ==
  ASSUME IInv, Core, NEW r \in Subs,
         \/ clientPc[r] \notin {"none", "gone"}
         \/ \E t \in Threads : subOf[t] = r
         \/ \E e \in Sessions : evSub[e] = r
         \/ Mapped(r) # {}
  PROVE  iRefCount[r] \in Nat \ {0} /\ life[r] = "live"
<1>1. iRefCount[r] # 0
  BY Unreferenced
<1>2. Holders(r) \in Nat
  BY HoldersCount
<1>3. iRefCount[r] \in Nat
  BY <1>2 DEF Core, Counted
<1>4. life[r] = "live"
  BY <1>1 DEF IInv, TypeOK, TypeObj, Core, Alive
<1> QED
  BY <1>1, <1>3, <1>4

(* A callback of the renewal timer that Schedule accepts has a live object *)
(* although it holds no reference.                                         *)
LEMMA RenewFindsLive ==
  ASSUME IInv, Core, timerPc = "renew", Accepts(timerSub)
  PROVE  /\ timerSub \in Subs /\ life[timerSub] = "live"
         /\ iRefCount[timerSub] \in Nat \ {0}
<1>1. timerSub \in Subs
  BY DEF IInv, TypeOK, TypeTimer, ThreadShape
<1>2. clientPc[timerSub] \notin {"none", "gone"}
  BY <1>1 DEF IInv, Unborn, Core, Rejects, Left, Accepts
<1> QED
  BY <1>1, <1>2, Referenced

-----------------------------------------------------------------------------
(* Every step changes the count as it changes the holders.                 *)
LEMMA CountedStep ==
  ASSUME IInv, Core, ~asserted, Step, ~asserted'
  PROVE  Counted'
<1> SUFFICES ASSUME NEW r \in Subs PROVE iRefCount'[r] = Holders(r)'
  BY DEF Counted
<1> USE NoneAssumption
    DEF objVars, sidVars, lockVars, timerVars, mgrVars, stackVars, subVars, sessVars
<1>1. /\ OwnerRefs(r) \in Nat /\ QueueRefs(r) \in Nat /\ ManagerRefs(r) \in Nat
      /\ ThreadRefs(r) \in Nat /\ ThreadPushes(r) \in Nat /\ TimerRefs(r) \in Nat
      /\ SessionRefs(r) \in Nat /\ SessionPushes(r) \in Nat
  BY RefTypes
<1>2. PICK ow \in Nat, qu \in Nat, ma \in Nat, th \in Nat :
        OwnerRefs(r) = ow /\ QueueRefs(r) = qu /\ ManagerRefs(r) = ma /\ ThreadRefs(r) = th
  BY <1>1, Zenon
<1>3. PICK tp \in Nat, ti \in Nat, se \in Nat, sp \in Nat :
        ThreadPushes(r) = tp /\ TimerRefs(r) = ti /\ SessionRefs(r) = se /\ SessionPushes(r) = sp
  BY <1>1, Zenon
<1>4. iRefCount[r] = ow + qu + ma + th + tp + ti + se + sp
  <2>1. iRefCount[r] = Holders(r)
    BY DEF Core, Counted
  <2> QED
    BY <1>2, <1>3, <2>1, HoldersSum, Zenon
<1>5. Holders(r)' = OwnerRefs(r)' + QueueRefs(r)' + ManagerRefs(r)' + ThreadRefs(r)'
                      + ThreadPushes(r)' + TimerRefs(r)' + SessionRefs(r)' + SessionPushes(r)'
  BY HoldersSum, Zenon
<1>6. ASSUME NEW s \in Subs, ClientSubscribe(s)
      PROVE  iRefCount'[r] = Holders(r)'
  <2>1. /\ clientPc' = [clientPc EXCEPT ![s] = "pushSubscribe"] /\ clientPc[s] = "none"
        /\ iRefCount' = [iRefCount EXCEPT ![s] = 2]
    BY <1>6 DEF ClientSubscribe
  <2>2. OwnerRefs(r)' = ow + IF s = r THEN 2 ELSE 0
    BY <1>2, <2>1 DEF OwnerRefs, IInv, TypeOK, TypeStack
  <2>3. s = r => iRefCount[r] = 0
    BY <2>1 DEF Core, Alive, Born
  <2>4. iRefCount'[r] = iRefCount[r] + IF s = r THEN 2 ELSE 0
    BY <2>1, <2>3 DEF IInv, TypeOK, TypeObj
  <2>5. /\ QueueRefs(r)' = qu /\ ManagerRefs(r)' = ma /\ ThreadRefs(r)' = th
        /\ ThreadPushes(r)' = tp /\ TimerRefs(r)' = ti /\ SessionRefs(r)' = se
        /\ SessionPushes(r)' = sp
    BY <1>2, <1>3, <1>6, Unmoved DEF ClientSubscribe
  <2> QED
    BY <1>4, <1>5, <2>2, <2>4, <2>5
<1>7. ASSUME NEW s \in Subs, ClientPush(s)
      PROVE  iRefCount'[r] = Holders(r)'
  <2>1. OwnerRefs(r)' = ow - IF s = r THEN 1 ELSE 0
    BY <1>2, <1>7 DEF OwnerRefs, ClientPush, IInv, TypeOK, TypeStack
  <2>2. QueueRefs(r)' = qu + IF s = r THEN 1 ELSE 0
    <3>1. Enqueue(s)
      BY <1>7 DEF ClientPush
    <3> QED
      BY <1>2, <3>1, QueueMove
  <2>3. /\ ManagerRefs(r)' = ma /\ ThreadRefs(r)' = th
        /\ ThreadPushes(r)' = tp /\ TimerRefs(r)' = ti /\ SessionRefs(r)' = se
        /\ SessionPushes(r)' = sp /\ iRefCount' = iRefCount
    BY <1>2, <1>3, <1>7, Unmoved DEF ClientPush
  <2> QED
    BY <1>4, <1>5, <2>1, <2>2, <2>3
<1>8. ASSUME NEW s \in Subs, ClientUnsubscribe(s)
      PROVE  iRefCount'[r] = Holders(r)'
  <2>1. OwnerRefs(r)' = ow + IF s = r THEN 1 ELSE 0
    BY <1>2, <1>8 DEF OwnerRefs, ClientUnsubscribe, IInv, TypeOK, TypeStack
  <2>2. iRefCount'[r] = iRefCount[r] + IF s = r THEN 1 ELSE 0
    BY <1>8 DEF ClientUnsubscribe, AddRef, IInv, TypeOK, TypeObj
  <2>3. /\ QueueRefs(r)' = qu /\ ManagerRefs(r)' = ma /\ ThreadRefs(r)' = th
        /\ ThreadPushes(r)' = tp /\ TimerRefs(r)' = ti /\ SessionRefs(r)' = se
        /\ SessionPushes(r)' = sp
    BY <1>2, <1>3, <1>8, Unmoved DEF ClientUnsubscribe
  <2> QED
    BY <1>4, <1>5, <2>1, <2>2, <2>3
<1>9. ASSUME NEW s \in Subs, ClientSchedule(s)
      PROVE  iRefCount'[r] = Holders(r)'
  <2>0. Accepts(s) /\ clientPc[s] = "unsubscribe"
    BY <1>9 DEF ClientSchedule, Accepts, Core, Rejects, Left
  <2>1. OwnerRefs(r)' = ow + IF s = r THEN 1 ELSE 0
    BY <1>2, <1>9, <2>0 DEF OwnerRefs, ClientSchedule, IInv, TypeOK, TypeStack
  <2>2. iRefCount'[r] = iRefCount[r] + IF s = r THEN 1 ELSE 0
    BY <1>9, <2>0 DEF ClientSchedule, SetPending, IInv, TypeOK, TypeObj
  <2>3. /\ QueueRefs(r)' = qu /\ ManagerRefs(r)' = ma /\ ThreadRefs(r)' = th
        /\ ThreadPushes(r)' = tp /\ TimerRefs(r)' = ti /\ SessionRefs(r)' = se
        /\ SessionPushes(r)' = sp
    BY <1>2, <1>3, <1>9, Unmoved DEF ClientSchedule
  <2> QED
    BY <1>4, <1>5, <2>1, <2>2, <2>3
<1>10. ASSUME NEW s \in Subs, ClientReturn(s)
       PROVE  iRefCount'[r] = Holders(r)'
  <2>1. OwnerRefs(r)' = ow - IF s = r THEN 2 ELSE 0
    BY <1>2, <1>10 DEF OwnerRefs, ClientReturn, IInv, TypeOK, TypeStack
  <2>2. iRefCount'[r] = iRefCount[r] - IF s = r THEN 2 ELSE 0
    BY <1>10 DEF ClientReturn, RemoveRefs, IInv, TypeOK, TypeObj
  <2>3. /\ QueueRefs(r)' = qu /\ ManagerRefs(r)' = ma /\ ThreadRefs(r)' = th
        /\ ThreadPushes(r)' = tp /\ TimerRefs(r)' = ti /\ SessionRefs(r)' = se
        /\ SessionPushes(r)' = sp
    BY <1>2, <1>3, <1>10, Unmoved DEF ClientReturn
  <2> QED
    BY <1>4, <1>5, <2>1, <2>2, <2>3
<1>11. CASE TimerRenew
  <2>1. CASE Accepts(timerSub)
    <3>1. TimerRefs(r)' = ti + IF timerSub = r THEN 1 ELSE 0
      BY <1>3, <1>11, <2>1 DEF TimerRefs, TimerRenew
    <3>2. iRefCount'[r] = iRefCount[r] + IF timerSub = r THEN 1 ELSE 0
      BY <1>11, <2>1 DEF TimerRenew, SetPending, IInv, TypeOK, TypeObj
    <3>3. /\ OwnerRefs(r)' = ow /\ QueueRefs(r)' = qu /\ ManagerRefs(r)' = ma
          /\ ThreadRefs(r)' = th /\ ThreadPushes(r)' = tp /\ SessionRefs(r)' = se
          /\ SessionPushes(r)' = sp
      BY <1>2, <1>3, <1>11, Unmoved DEF TimerRenew
    <3> QED
      BY <1>4, <1>5, <3>1, <3>2, <3>3
  <2>2. CASE ~Accepts(timerSub)
    <3>1. TimerRefs(r)' = ti /\ iRefCount' = iRefCount
      BY <1>3, <1>11, <2>2 DEF TimerRefs, TimerRenew
    <3>2. /\ OwnerRefs(r)' = ow /\ QueueRefs(r)' = qu /\ ManagerRefs(r)' = ma
          /\ ThreadRefs(r)' = th /\ ThreadPushes(r)' = tp /\ SessionRefs(r)' = se
          /\ SessionPushes(r)' = sp
      BY <1>2, <1>3, <1>11, Unmoved DEF TimerRenew
    <3> QED
      BY <1>4, <1>5, <3>1, <3>2
  <2> QED
    BY <2>1, <2>2
<1>12. CASE TimerPush
  <2>1. TimerRefs(r)' = ti - IF timerSub = r THEN 1 ELSE 0
    BY <1>3, <1>12 DEF TimerRefs, TimerPush
  <2>2. QueueRefs(r)' = qu + IF timerSub = r THEN 1 ELSE 0
    <3>1. Enqueue(timerSub) /\ timerSub \in Subs
      BY <1>12 DEF TimerPush, IInv, TypeOK, TypeTimer, ThreadShape
    <3> QED
      BY <1>2, <3>1, QueueMove
  <2>3. /\ OwnerRefs(r)' = ow /\ ManagerRefs(r)' = ma /\ ThreadRefs(r)' = th
        /\ ThreadPushes(r)' = tp /\ SessionRefs(r)' = se
        /\ SessionPushes(r)' = sp /\ iRefCount' = iRefCount
    BY <1>2, <1>3, <1>12, Unmoved DEF TimerPush
  <2> QED
    BY <1>4, <1>5, <2>1, <2>2, <2>3
<1>13. ASSUME NEW t \in Threads, ManagerTake(t)
       PROVE  iRefCount'[r] = Holders(r)'
  <2>1. QueueRefs(r)' = qu - IF Head(iList) = r THEN 1 ELSE 0
    BY <1>2, <1>13, QueuePop DEF ManagerTake
  <2>2. ManagerRefs(r)' = ma + IF Head(iList) = r THEN 1 ELSE 0
    <3>1. mgrSub = None /\ mgrSub' = Head(iList)
      BY <1>13 DEF ManagerTake, IInv, ThreadShape
    <3> QED
      BY <1>2, <3>1 DEF ManagerRefs
  <2>3. /\ OwnerRefs(r)' = ow /\ ThreadRefs(r)' = th
        /\ ThreadPushes(r)' = tp /\ TimerRefs(r)' = ti /\ SessionRefs(r)' = se
        /\ SessionPushes(r)' = sp /\ iRefCount' = iRefCount
    BY <1>2, <1>3, <1>13, Unmoved DEF ManagerTake
  <2> QED
    BY <1>4, <1>5, <2>1, <2>2, <2>3
<1>14. CASE ManagerGive
  <2>1. ManagerRefs(r)' = ma - IF mgrSub = r THEN 1 ELSE 0
    BY <1>2, <1>14 DEF ManagerGive, ManagerRefs
  <2>2. ThreadRefs(r)' = th + (IF mgrSub = r THEN 1 ELSE 0) /\ ThreadPushes(r)' = tp
    <3>1. /\ mgrThread \in Threads /\ subPc[mgrThread] = "idle" /\ subOf[mgrThread] = None
          /\ ThreadGoes(mgrThread, mgrSub, "given")
      BY <1>14 DEF ManagerGive, ThreadGoes, IInv, TypeOK, TypeManager, ThreadShape
    <3>2. /\ ThreadRefs(r)' = ThreadRefs(r) + (IF mgrSub = r THEN 1 ELSE 0)
                                - (IF subOf[mgrThread] = r THEN 1 ELSE 0)
          /\ ThreadPushes(r)' =
               ThreadPushes(r) + (IF mgrSub = r /\ "given" = "push" THEN 1 ELSE 0)
                 - (IF subOf[mgrThread] = r /\ subPc[mgrThread] = "push" THEN 1 ELSE 0)
      BY <3>1, ThreadMove
    <3> QED
      BY <1>2, <1>3, <3>1, <3>2
  <2>3. /\ OwnerRefs(r)' = ow /\ QueueRefs(r)' = qu /\ TimerRefs(r)' = ti
        /\ SessionRefs(r)' = se /\ SessionPushes(r)' = sp /\ iRefCount' = iRefCount
    BY <1>2, <1>3, <1>14, Unmoved DEF ManagerGive
  <2> QED
    BY <1>4, <1>5, <2>1, <2>2, <2>3
<1>15. ASSUME NEW t \in Threads, TakeOperation(t)
       PROVE  iRefCount'[r] = Holders(r)'
  <2>1. PICK pc : pc # "push" /\ subPc' = [subPc EXCEPT ![t] = pc]
    BY <1>15 DEF TakeOperation, Goto
  <2>2. ThreadPushes(r)' = tp /\ ThreadRefs(r)' = th
    <3>1. ThreadGoes(t, subOf[t], pc) /\ subPc[t] = "given"
      BY <1>15, <2>1 DEF TakeOperation, ThreadGoes, IInv, TypeOK, TypeSubscriber
    <3>2. /\ ThreadRefs(r)' = ThreadRefs(r) + (IF subOf[t] = r THEN 1 ELSE 0)
                                - (IF subOf[t] = r THEN 1 ELSE 0)
          /\ ThreadPushes(r)' =
               ThreadPushes(r) + (IF subOf[t] = r /\ pc = "push" THEN 1 ELSE 0)
                 - (IF subOf[t] = r /\ subPc[t] = "push" THEN 1 ELSE 0)
      BY <2>1, <3>1, ThreadMove
    <3> QED
      BY <1>2, <1>3, <2>1, <3>1, <3>2
  <2>3. /\ OwnerRefs(r)' = ow /\ QueueRefs(r)' = qu /\ ManagerRefs(r)' = ma
        /\ TimerRefs(r)' = ti
        /\ SessionRefs(r)' = se /\ SessionPushes(r)' = sp /\ iRefCount' = iRefCount
    BY <1>2, <1>3, <1>15, Unmoved DEF TakeOperation
  <2> QED
    BY <1>4, <1>5, <2>2, <2>3
<1>16. ASSUME NEW t \in Threads, OperationStep(t)
       PROVE  iRefCount'[r] = Holders(r)'
  <2>1. PICK pc : Moves(t, pc)
    BY <1>16, OperationMoves DEF IInv
  <2>2. /\ ThreadRefs(r)' = th
        /\ ThreadPushes(r)' = tp + (IF subOf[t] = r /\ pc = "push" THEN 1 ELSE 0)
                                 - (IF subOf[t] = r /\ subPc[t] = "push" THEN 1 ELSE 0)
    <3>1. ThreadGoes(t, subOf[t], pc)
      BY <2>1 DEF Moves, ThreadGoes, IInv, TypeOK, TypeSubscriber
    <3>2. /\ ThreadRefs(r)' = ThreadRefs(r) + (IF subOf[t] = r THEN 1 ELSE 0)
                                - (IF subOf[t] = r THEN 1 ELSE 0)
          /\ ThreadPushes(r)' =
               ThreadPushes(r) + (IF subOf[t] = r /\ pc = "push" THEN 1 ELSE 0)
                 - (IF subOf[t] = r /\ subPc[t] = "push" THEN 1 ELSE 0)
      BY <3>1, ThreadMove
    <3> QED
      BY <1>2, <1>3, <3>2
  <2>3. /\ ManagerRefs(r)' = ma /\ TimerRefs(r)' = ti
        /\ SessionRefs(r)' = se /\ SessionPushes(r)' = sp
    BY <1>2, <1>3, <2>1, Unmoved DEF Moves
  <2>4. OwnerRefs(r)' = ow
    <3>1. clientPc' = clientPc
      BY <1>16 DEF OperationStep, SubscribeBegin, Connect, SubscribeOk, Add, Arm,
         SubscribeFail, RenewReply, CancelTimer, RemoveSid, UnsubscribeReply, Reschedule,
         SubscriberPush
    <3> QED
      BY <1>2, <3>1, Unmoved
  <2>5. CASE Reschedule(t)
    <3>1. QueueRefs(r)' = qu
      BY <1>2, <2>5, Unmoved DEF Reschedule
    <3>2. subPc[t] # "push" /\ subPc' = [subPc EXCEPT ![t] = pc] /\ subOf[t] \in Subs
      BY <2>1, <2>5 DEF Reschedule, Moves, IInv, TypeOK, TypeSubscriber, ThreadShape
    <3>3. CASE Accepts(subOf[t])
      <4>1. pc = "push"
        BY <2>5, <3>2, <3>3 DEF Reschedule, Goto, IInv, TypeOK, TypeSubscriber
      <4>2. iRefCount'[r] = iRefCount[r] + IF subOf[t] = r THEN 1 ELSE 0
        BY <2>5, <3>2, <3>3 DEF Reschedule, SetPending, IInv, TypeOK, TypeObj
      <4> QED
        BY <1>4, <1>5, <2>2, <2>3, <2>4, <3>1, <3>2, <4>1, <4>2
    <3>4. CASE ~Accepts(subOf[t])
      <4>1. pc = "release"
        BY <2>5, <3>2, <3>4 DEF Reschedule, Goto, IInv, TypeOK, TypeSubscriber
      <4>2. iRefCount' = iRefCount
        BY <2>5, <3>4 DEF Reschedule
      <4> QED
        BY <1>4, <1>5, <2>2, <2>3, <2>4, <3>1, <3>2, <4>1, <4>2
    <3> QED
      BY <3>3, <3>4
  <2>6. CASE SubscriberPush(t)
    <3>1. Enqueue(subOf[t]) /\ subPc[t] = "push" /\ iRefCount' = iRefCount
      BY <2>6 DEF SubscriberPush
    <3>2. pc # "push" /\ subOf[t] \in Subs
      BY <2>1, <3>1 DEF Moves, Edges, IInv, TypeOK, TypeSubscriber, ThreadShape
    <3>3. QueueRefs(r)' = qu + IF subOf[t] = r THEN 1 ELSE 0
      BY <1>2, <3>1, <3>2, QueueMove
    <3> QED
      BY <1>4, <1>5, <2>2, <2>3, <2>4, <3>1, <3>2, <3>3
  <2>7. CASE ~Reschedule(t) /\ ~SubscriberPush(t)
    <3>1. /\ iList' = iList /\ iRefCount' = iRefCount
          /\ subPc[t] \notin {"push", "resubscribe", "renewFailed"}
      BY <1>16, <2>7 DEF OperationStep, SubscribeBegin, Connect, SubscribeOk, Add, Arm,
         SubscribeFail, RenewReply, CancelTimer, RemoveSid, UnsubscribeReply
    <3>2. pc # "push"
      BY <2>1, <3>1 DEF Moves, Edges
    <3>3. QueueRefs(r)' = qu
      BY <1>2, <3>1, Unmoved
    <3> QED
      BY <1>4, <1>5, <2>2, <2>3, <2>4, <3>1, <3>2, <3>3
  <2> QED
    BY <2>5, <2>6, <2>7
<1>17. ASSUME NEW t \in Threads, Release(t)
       PROVE  iRefCount'[r] = Holders(r)'
  <2>1. ThreadPushes(r)' = tp /\ ThreadRefs(r)' = th - IF subOf[t] = r THEN 1 ELSE 0
    <3>1. ThreadGoes(t, None, "idle") /\ subPc[t] = "release"
      BY <1>17 DEF Release, Goto, ThreadGoes
    <3>2. /\ ThreadRefs(r)' = ThreadRefs(r) + (IF None = r THEN 1 ELSE 0)
                                - (IF subOf[t] = r THEN 1 ELSE 0)
          /\ ThreadPushes(r)' =
               ThreadPushes(r) + (IF None = r /\ "idle" = "push" THEN 1 ELSE 0)
                 - (IF subOf[t] = r /\ subPc[t] = "push" THEN 1 ELSE 0)
      BY <3>1, ThreadMove
    <3> QED
      BY <1>2, <1>3, <3>1, <3>2
  <2>2. iRefCount'[r] = iRefCount[r] - IF subOf[t] = r THEN 1 ELSE 0
    BY <1>17 DEF Release, RemoveRefs, IInv, TypeOK, TypeObj, TypeSubscriber, ThreadShape
  <2>3. /\ OwnerRefs(r)' = ow /\ QueueRefs(r)' = qu /\ ManagerRefs(r)' = ma
        /\ TimerRefs(r)' = ti /\ SessionRefs(r)' = se /\ SessionPushes(r)' = sp
    BY <1>2, <1>3, <1>17, Unmoved DEF Release
  <2> QED
    BY <1>4, <1>5, <2>1, <2>2, <2>3
<1>18. ASSUME NEW e \in Sessions, SessionStep(e) \/ \E s \in Subs : SessionFind(e, s)
       PROVE  iRefCount'[r] = Holders(r)'
  <2>1. /\ OwnerRefs(r)' = ow /\ ManagerRefs(r)' = ma /\ ThreadRefs(r)' = th
        /\ ThreadPushes(r)' = tp /\ TimerRefs(r)' = ti
    <3>1. clientPc' = clientPc /\ mgrSub' = mgrSub
      BY <1>18 DEF SessionStep, SessionRead, SessionUpdateStart, SessionUpdateEnd,
         SessionUpdateThrow, SessionRelock, SessionError, SessionPush, SessionUnref,
         SessionFind
    <3>2. subOf' = subOf /\ subPc' = subPc /\ timerPc' = timerPc /\ timerSub' = timerSub
      BY <1>18 DEF SessionStep, SessionRead, SessionUpdateStart, SessionUpdateEnd,
         SessionUpdateThrow, SessionRelock, SessionError, SessionPush, SessionUnref,
         SessionFind
    <3> QED
      BY <1>2, <1>3, <3>1, <3>2, Unmoved
  <2>2. ASSUME NEW pc, SessionGoes(e, evSub[e], pc)
        PROVE  /\ SessionRefs(r)' = se
               /\ SessionPushes(r)' =
                    sp + (IF evSub[e] = r /\ pc = "push" THEN 1 ELSE 0)
                       - (IF evSub[e] = r /\ evPc[e] = "push" THEN 1 ELSE 0)
    <3>1. /\ SessionRefs(r)' = SessionRefs(r) + (IF evSub[e] = r THEN 1 ELSE 0)
                                - (IF evSub[e] = r THEN 1 ELSE 0)
          /\ SessionPushes(r)' =
               SessionPushes(r) + (IF evSub[e] = r /\ pc = "push" THEN 1 ELSE 0)
                 - (IF evSub[e] = r /\ evPc[e] = "push" THEN 1 ELSE 0)
      BY <2>2, SessionMove
    <3> QED
      BY <1>3, <3>1
  <2>3. CASE SessionError(e)
    <3>1. evSub[e] \in Subs /\ evPc[e] = "error" /\ evSub' = evSub
      BY <2>3 DEF SessionError, IInv, TypeOK, TypeSession, ThreadShape
    <3>2. QueueRefs(r)' = qu
      BY <1>2, <2>3, Unmoved DEF SessionError
    <3>3. CASE Accepts(evSub[e])
      <4>1. SessionGoes(e, evSub[e], "push")
        BY <2>3, <3>1, <3>3 DEF SessionError, SessionGoto, SessionGoes, IInv, TypeOK, TypeSession
      <4>2. iRefCount'[r] = iRefCount[r] + IF evSub[e] = r THEN 1 ELSE 0
        BY <2>3, <3>1, <3>3 DEF SessionError, SetPending, IInv, TypeOK, TypeObj
      <4>3. SessionRefs(r)' = se /\ SessionPushes(r)' = sp + IF evSub[e] = r THEN 1 ELSE 0
        BY <2>2, <3>1, <4>1
      <4> QED
        BY <1>4, <1>5, <2>1, <3>2, <4>2, <4>3
    <3>4. CASE ~Accepts(evSub[e])
      <4>1. SessionGoes(e, evSub[e], "unref") /\ iRefCount' = iRefCount
        BY <2>3, <3>1, <3>4 DEF SessionError, SessionGoto, SessionGoes, IInv, TypeOK, TypeSession
      <4>2. SessionRefs(r)' = se /\ SessionPushes(r)' = sp
        BY <2>2, <3>1, <4>1
      <4> QED
        BY <1>4, <1>5, <2>1, <3>2, <4>1, <4>2
    <3> QED
      BY <3>3, <3>4
  <2>4. CASE SessionPush(e)
    <3>1. /\ Enqueue(evSub[e]) /\ evPc[e] = "push" /\ iRefCount' = iRefCount
          /\ SessionGoes(e, evSub[e], "unref") /\ evSub[e] \in Subs
      BY <2>4 DEF SessionPush, SessionGoto, SessionGoes, IInv, TypeOK, TypeSession, ThreadShape
    <3>2. QueueRefs(r)' = qu + IF evSub[e] = r THEN 1 ELSE 0
      BY <1>2, <3>1, QueueMove
    <3>3. SessionRefs(r)' = se /\ SessionPushes(r)' = sp - IF evSub[e] = r THEN 1 ELSE 0
      BY <2>2, <3>1
    <3> QED
      BY <1>4, <1>5, <2>1, <3>1, <3>2, <3>3
  <2>5. CASE SessionUnref(e)
    <3>1. /\ evSub[e] \in Subs /\ evPc[e] = "unref" /\ iList' = iList
          /\ SessionGoes(e, None, "idle")
      BY <2>5 DEF SessionUnref, SessionGoto, SessionGoes, IInv, TypeOK, TypeSession, ThreadShape
    <3>2. iRefCount'[r] = iRefCount[r] - IF evSub[e] = r THEN 1 ELSE 0
      BY <2>5, <3>1 DEF SessionUnref, RemoveRefs, IInv, TypeOK, TypeObj
    <3>3. /\ SessionRefs(r)' = SessionRefs(r) + (IF None = r THEN 1 ELSE 0)
                                - (IF evSub[e] = r THEN 1 ELSE 0)
          /\ SessionPushes(r)' =
               SessionPushes(r) + (IF None = r /\ "idle" = "push" THEN 1 ELSE 0)
                 - (IF evSub[e] = r /\ evPc[e] = "push" THEN 1 ELSE 0)
      BY <3>1, SessionMove
    <3>4. QueueRefs(r)' = qu
      BY <1>2, <3>1, Unmoved
    <3> QED
      BY <1>3, <1>4, <1>5, <2>1, <3>1, <3>2, <3>3, <3>4
  <2>6. ASSUME NEW s \in Subs, SessionFind(e, s)
        PROVE  iRefCount'[r] = Holders(r)'
    <3>1. /\ evPc[e] = "idle" /\ evSub[e] = None /\ iList' = iList
          /\ SessionGoes(e, s, "found")
      BY <2>6 DEF SessionFind, SessionGoto, SessionGoes, IInv, ThreadShape
    <3>2. iRefCount'[r] = iRefCount[r] + IF s = r THEN 1 ELSE 0
      BY <2>6 DEF SessionFind, AddRef, IInv, TypeOK, TypeObj
    <3>3. /\ SessionRefs(r)' = SessionRefs(r) + (IF s = r THEN 1 ELSE 0)
                                - (IF evSub[e] = r THEN 1 ELSE 0)
          /\ SessionPushes(r)' =
               SessionPushes(r) + (IF s = r /\ "found" = "push" THEN 1 ELSE 0)
                 - (IF evSub[e] = r /\ evPc[e] = "push" THEN 1 ELSE 0)
      BY <3>1, SessionMove
    <3>4. QueueRefs(r)' = qu
      BY <1>2, <3>1, Unmoved
    <3> QED
      BY <1>3, <1>4, <1>5, <2>1, <3>1, <3>2, <3>3, <3>4
  <2>7. CASE SessionRead(e) \/ SessionUpdateStart(e) \/ SessionUpdateEnd(e) \/ SessionUpdateThrow(e)
    <3>1. iList' = iList /\ iRefCount' = iRefCount /\ evPc[e] # "push"
      BY <2>7 DEF SessionRead, SessionUpdateStart, SessionUpdateEnd, SessionUpdateThrow
    <3>2. PICK pc \in {"read", "error", "update", "unref"} : SessionGoes(e, evSub[e], pc)
      BY <2>7 DEF SessionRead, SessionUpdateStart, SessionUpdateEnd, SessionUpdateThrow,
         SessionGoto, SessionGoes, IInv, TypeOK, TypeSession
    <3>3. SessionRefs(r)' = se /\ SessionPushes(r)' = sp
      BY <2>2, <3>1, <3>2
    <3>4. QueueRefs(r)' = qu
      BY <1>2, <3>1, Unmoved
    <3> QED
      BY <1>4, <1>5, <2>1, <3>1, <3>3, <3>4
  <2>8. ~SessionRelock(e)
    BY DEF SessionRelock
  <2> QED
    BY <1>18, <2>3, <2>4, <2>5, <2>6, <2>7, <2>8 DEF SessionStep
<1>19. ASSUME NEW s \in Subs, Destroy(s) \/ TimerFire(s)
       PROVE  iRefCount'[r] = Holders(r)'
  <2>1. /\ OwnerRefs(r)' = ow /\ QueueRefs(r)' = qu /\ ManagerRefs(r)' = ma
        /\ ThreadRefs(r)' = th /\ ThreadPushes(r)' = tp
        /\ SessionRefs(r)' = se /\ SessionPushes(r)' = sp /\ iRefCount' = iRefCount
    BY <1>2, <1>3, <1>19, Unmoved DEF Destroy, TimerFire
  <2>2. TimerRefs(r)' = ti
    BY <1>3, <1>19 DEF Destroy, TimerFire, TimerRefs
  <2> QED
    BY <1>4, <1>5, <2>1, <2>2
<1>20. CASE ManagerCheck \/ ShutdownStep
  <2>1. /\ clientPc' = clientPc /\ iList' = iList /\ mgrSub' = mgrSub /\ iRefCount' = iRefCount
        /\ subOf' = subOf /\ subPc' = subPc /\ timerPc' = timerPc /\ timerSub' = timerSub
        /\ evSub' = evSub /\ evPc' = evPc
    BY <1>20 DEF ManagerCheck, ShutdownStep, ShutdownBegin, ShutdownWait, ShutdownKill,
       ShutdownJoin
  <2>2. /\ OwnerRefs(r)' = ow /\ QueueRefs(r)' = qu /\ ManagerRefs(r)' = ma
        /\ ThreadRefs(r)' = th /\ ThreadPushes(r)' = tp /\ TimerRefs(r)' = ti
        /\ SessionRefs(r)' = se /\ SessionPushes(r)' = sp
    BY <1>2, <1>3, <2>1, Unmoved
  <2> QED
    BY <1>4, <1>5, <2>1, <2>2
<1> QED
  BY <1>6, <1>7, <1>8, <1>9, <1>10, <1>11, <1>12, <1>13, <1>14, <1>15, <1>16, <1>17,
     <1>18, <1>19, <1>20
  DEF Step, ClientStep, TimerStep, ManagerStep, SubscriberStep

(* The last reference enters the destructor, and nobody takes one later.   *)
LEMMA AliveStep ==
  ASSUME IInv, Core, ~asserted, Step, ~asserted'
  PROVE  Alive'
<1> SUFFICES ASSUME NEW r \in Subs
             PROVE  life'[r] \in {"none", "dying", "dead"} <=> iRefCount'[r] = 0
  BY DEF Alive
<1> USE NoneAssumption
    DEF objVars, sidVars, lockVars, timerVars, mgrVars, stackVars, subVars, sessVars
<1>1. /\ life[r] \in {"none", "dying", "dead"} <=> iRefCount[r] = 0
      /\ life \in [Subs -> {"none", "live", "dying", "dead"}]
      /\ iRefCount \in [Subs -> Int]
  BY DEF Core, Alive, IInv, TypeOK, TypeObj
<1>2. ASSUME NEW s \in Subs, iRefCount[s] \in Nat \ {0}, life[s] = "live",
             \/ AddRef(s) /\ life' = life
             \/ RemoveRefs(s, 1)
             \/ RemoveRefs(s, 2)
             \/ \E op \in Operations, b \in BOOLEAN : SetPending(s, op, b)
      PROVE  life'[r] \in {"none", "dying", "dead"} <=> iRefCount'[r] = 0
  <2>1. CASE AddRef(s) /\ life' = life
    BY <1>1, <1>2, <2>1 DEF AddRef
  <2>2. ASSUME NEW n \in {1, 2}, RemoveRefs(s, n)
        PROVE  life'[r] \in {"none", "dying", "dead"} <=> iRefCount'[r] = 0
    BY <1>1, <1>2, <2>2 DEF RemoveRefs
  <2>3. CASE \E op \in Operations, b \in BOOLEAN : SetPending(s, op, b)
    <3>1. iRefCount' = [iRefCount EXCEPT ![s] = @ + 1] /\ life' = life
      BY <2>3 DEF SetPending
    <3> QED
      BY <1>1, <1>2, <3>1
  <2> QED
    BY <1>2, <2>1, <2>2, <2>3
<1>3. ASSUME NEW s \in Subs, ClientSubscribe(s)
      PROVE  life'[r] \in {"none", "dying", "dead"} <=> iRefCount'[r] = 0
  BY <1>1, <1>3 DEF ClientSubscribe
<1>4. ASSUME NEW s \in Subs, ClientUnsubscribe(s)
      PROVE  life'[r] \in {"none", "dying", "dead"} <=> iRefCount'[r] = 0
  <2>1. clientPc[s] = "active" /\ AddRef(s) /\ life' = life
    BY <1>4 DEF ClientUnsubscribe
  <2> QED
    BY <1>2, <2>1, Referenced
<1>5. ASSUME NEW s \in Subs, ClientSchedule(s)
      PROVE  life'[r] \in {"none", "dying", "dead"} <=> iRefCount'[r] = 0
  <2>1. /\ clientPc[s] = "unsubscribe"
        /\ SetPending(s, "eUnsubscribe", TRUE) \/ (life' = life /\ iRefCount' = iRefCount)
    BY <1>5 DEF ClientSchedule
  <2> QED
    BY <1>1, <1>2, <2>1, Referenced DEF Operations
<1>6. ASSUME NEW s \in Subs, ClientReturn(s)
      PROVE  life'[r] \in {"none", "dying", "dead"} <=> iRefCount'[r] = 0
  <2>1. clientPc[s] = "return" /\ RemoveRefs(s, 2)
    BY <1>6 DEF ClientReturn
  <2> QED
    BY <1>2, <2>1, Referenced
<1>7. CASE TimerRenew
  <2>1. CASE Accepts(timerSub)
    <3>1. SetPending(timerSub, "eRenew", FALSE) /\ timerPc = "renew"
      BY <1>7, <2>1 DEF TimerRenew
    <3> QED
      BY <1>2, <2>1, <3>1, RenewFindsLive DEF Operations
  <2>2. CASE ~Accepts(timerSub)
    BY <1>1, <1>7, <2>2 DEF TimerRenew
  <2> QED
    BY <2>1, <2>2
<1>8. ASSUME NEW t \in Threads, Reschedule(t)
      PROVE  life'[r] \in {"none", "dying", "dead"} <=> iRefCount'[r] = 0
  <2>1. subOf[t] \in Subs
    BY <1>8 DEF Reschedule, IInv, TypeOK, TypeSubscriber, ThreadShape
  <2>2. \/ \E op \in Operations : SetPending(subOf[t], op, FALSE)
        \/ life' = life /\ iRefCount' = iRefCount
    BY <1>8 DEF Reschedule, Operations
  <2> QED
    BY <1>1, <1>2, <2>1, <2>2, Referenced
<1>9. ASSUME NEW t \in Threads, Release(t)
      PROVE  life'[r] \in {"none", "dying", "dead"} <=> iRefCount'[r] = 0
  <2>1. subOf[t] \in Subs
    BY <1>9 DEF Release, IInv, TypeOK, TypeSubscriber, ThreadShape
  <2>2. RemoveRefs(subOf[t], 1)
    BY <1>9 DEF Release
  <2> QED
    BY <1>2, <2>1, <2>2, Referenced
<1>10. ASSUME NEW e \in Sessions, SessionError(e)
       PROVE  life'[r] \in {"none", "dying", "dead"} <=> iRefCount'[r] = 0
  <2>1. evSub[e] \in Subs
    BY <1>10 DEF SessionError, IInv, TypeOK, TypeSession, ThreadShape
  <2>2. \/ SetPending(evSub[e], "eResubscribe", FALSE)
        \/ life' = life /\ iRefCount' = iRefCount
    BY <1>10 DEF SessionError
  <2> QED
    BY <1>1, <1>2, <2>1, <2>2, Referenced DEF Operations
<1>11. ASSUME NEW e \in Sessions, SessionUnref(e)
       PROVE  life'[r] \in {"none", "dying", "dead"} <=> iRefCount'[r] = 0
  <2>1. evSub[e] \in Subs
    BY <1>11 DEF SessionUnref, IInv, TypeOK, TypeSession, ThreadShape
  <2>2. RemoveRefs(evSub[e], 1)
    BY <1>11 DEF SessionUnref
  <2> QED
    BY <1>2, <2>1, <2>2, Referenced
<1>12. ASSUME NEW e \in Sessions, NEW s \in Subs, SessionFind(e, s)
       PROVE  life'[r] \in {"none", "dying", "dead"} <=> iRefCount'[r] = 0
  <2>1. Mapped(s) # {} /\ AddRef(s) /\ life' = life
    BY <1>12 DEF SessionFind
  <2> QED
    BY <1>2, <2>1, Referenced
<1>13. ASSUME NEW s \in Subs, Destroy(s)
       PROVE  life'[r] \in {"none", "dying", "dead"} <=> iRefCount'[r] = 0
  BY <1>1, <1>13 DEF Destroy
<1>14. CASE UNCHANGED <<life, iRefCount>>
  BY <1>1, <1>14
<1> QED
  BY <1>3, <1>4, <1>5, <1>6, <1>7, <1>8, <1>9, <1>10, <1>11, <1>12, <1>13, <1>14, ZenonT(30)
  DEF Step, ClientStep, TimerStep, ManagerStep, SubscriberStep, SessionStep,
      ShutdownStep, OperationStep, ClientPush, TimerFire, TimerPush,
      ManagerTake, ManagerGive, ManagerCheck, TakeOperation, SubscribeBegin,
      Connect, SubscribeOk, Add, Arm, SubscribeFail, RenewReply, CancelTimer,
      RemoveSid, UnsubscribeReply, SubscriberPush, SessionRead,
      SessionUpdateStart, SessionUpdateEnd, SessionUpdateThrow, SessionRelock,
      SessionPush, ShutdownBegin, ShutdownWait, ShutdownKill, ShutdownJoin

(* iRejectFutureOperations is set where the client leaves, and only there. *)
LEMMA RejectsStep ==
  ASSUME IInv, Core, ~asserted, Step
  PROVE  Rejects'
<1> USE DEF objVars, sidVars, lockVars, timerVars, mgrVars, stackVars, subVars, sessVars
<1>1. /\ Rejects
      /\ clientPc \in [Subs -> {"none", "pushSubscribe", "active", "unsubscribe",
                                "pushUnsubscribe", "return", "gone"}]
      /\ iRejectFutureOperations \in [Subs -> BOOLEAN]
  BY DEF Core, IInv, TypeOK, TypeObj, TypeStack
<1>2. ASSUME NEW s \in Subs, ClientSubscribe(s)
      PROVE  Rejects'
  BY <1>1, <1>2 DEF ClientSubscribe, Rejects, Left
<1>3. ASSUME NEW s \in Subs, ClientPush(s)
      PROVE  Rejects'
  BY <1>1, <1>3 DEF ClientPush, Rejects, Left
<1>4. ASSUME NEW s \in Subs, ClientUnsubscribe(s)
      PROVE  Rejects'
  BY <1>1, <1>4 DEF ClientUnsubscribe, Rejects, Left
<1>5. ASSUME NEW s \in Subs, ClientSchedule(s)
      PROVE  Rejects'
  <2>1. ~iRejectFutureOperations[s] /\ clientPc[s] = "unsubscribe"
    BY <1>1, <1>5 DEF ClientSchedule, Rejects, Left
  <2>2. /\ clientPc' = [clientPc EXCEPT ![s] = "pushUnsubscribe"]
        /\ iRejectFutureOperations' = [iRejectFutureOperations EXCEPT ![s] = TRUE]
    BY <1>5, <2>1, Zenon DEF ClientSchedule, Accepts, SetPending
  <2> QED
    BY <1>1, <2>2 DEF Rejects, Left
<1>6. ASSUME NEW s \in Subs, ClientReturn(s)
      PROVE  Rejects'
  BY <1>1, <1>6 DEF ClientReturn, RemoveRefs, Rejects, Left
<1>7. ASSUME NEW s, NEW op, SetPending(s, op, FALSE)
      PROVE  iRejectFutureOperations' = iRejectFutureOperations
  BY <1>1, <1>7 DEF SetPending
<1>8. CASE UNCHANGED <<iRejectFutureOperations, clientPc>>
  BY <1>1, <1>8 DEF Rejects
<1>9. ASSUME NEW t \in Threads, Reschedule(t)
      PROVE  UNCHANGED <<iRejectFutureOperations, clientPc>>
  BY <1>7, <1>9 DEF Reschedule
<1>10. CASE TimerRenew
  BY <1>7, <1>8, <1>10 DEF TimerRenew
<1>11. ASSUME NEW e \in Sessions, SessionError(e)
       PROVE  UNCHANGED <<iRejectFutureOperations, clientPc>>
  BY <1>7, <1>11 DEF SessionError
<1> QED
  BY <1>2, <1>3, <1>4, <1>5, <1>6, <1>8, <1>9, <1>10, <1>11, ZenonT(30)
  DEF Step, ClientStep, TimerStep, ManagerStep, SubscriberStep, SessionStep,
      ShutdownStep, OperationStep, Destroy, TimerFire, TimerPush,
      ManagerTake, ManagerGive, ManagerCheck, TakeOperation, SubscribeBegin,
      Connect, SubscribeOk, Add, Arm, SubscribeFail, RenewReply, CancelTimer,
      RemoveSid, UnsubscribeReply, SubscriberPush, Release, RemoveRefs, SessionRead,
      SessionUpdateStart, SessionUpdateEnd, SessionUpdateThrow, SessionRelock,
      SessionPush, SessionUnref, SessionFind, ShutdownBegin, ShutdownWait,
      ShutdownKill, ShutdownJoin

(* Only a client creates a subscription.                                   *)
LEMMA BornStep ==
  ASSUME IInv, Core, ~asserted, Step
  PROVE  Born'
<1> USE NoneAssumption
    DEF objVars, sidVars, lockVars, timerVars, mgrVars, stackVars, subVars, sessVars
<1>1. /\ Born
      /\ clientPc \in [Subs -> {"none", "pushSubscribe", "active", "unsubscribe",
                                "pushUnsubscribe", "return", "gone"}]
      /\ life \in [Subs -> {"none", "live", "dying", "dead"}]
  BY DEF Core, IInv, TypeOK, TypeObj, TypeStack
<1>2. ASSUME NEW s \in Subs, ClientSubscribe(s)
      PROVE  Born'
  BY <1>1, <1>2 DEF ClientSubscribe, Born
<1>3. ASSUME NEW s \in Subs, ClientPush(s) \/ ClientUnsubscribe(s)
      PROVE  Born'
  BY <1>1, <1>3 DEF ClientPush, ClientUnsubscribe, Born
<1>4. ASSUME NEW s \in Subs, ClientSchedule(s)
      PROVE  Born'
  BY <1>1, <1>4 DEF ClientSchedule, SetPending, Born
<1>5. ASSUME NEW s \in Subs, ClientReturn(s)
      PROVE  Born'
  BY <1>1, <1>5 DEF ClientReturn, RemoveRefs, Born
<1>6. ASSUME NEW s \in Subs, Destroy(s)
      PROVE  Born'
  BY <1>1, <1>6 DEF Destroy, Born
<1>7. ASSUME NEW s \in Subs, clientPc[s] # "none", RemoveRefs(s, 1), clientPc' = clientPc
      PROVE  Born'
  BY <1>1, <1>7 DEF RemoveRefs, Born
<1>8. ASSUME NEW t \in Threads, Release(t)
      PROVE  Born'
  <2>1. subOf[t] \in Subs
    BY <1>8 DEF Release, IInv, TypeOK, TypeSubscriber, ThreadShape
  <2>2. clientPc[subOf[t]] # "none"
    BY <2>1 DEF IInv, Unborn
  <2> QED
    BY <1>7, <1>8, <2>1, <2>2 DEF Release
<1>9. ASSUME NEW e \in Sessions, SessionUnref(e)
      PROVE  Born'
  <2>1. evSub[e] \in Subs
    BY <1>9 DEF SessionUnref, IInv, TypeOK, TypeSession, ThreadShape
  <2>2. clientPc[evSub[e]] # "none"
    BY <2>1 DEF IInv, Unborn
  <2> QED
    BY <1>7, <1>9, <2>1, <2>2 DEF SessionUnref
<1>10. CASE UNCHANGED <<life, clientPc>>
  BY <1>1, <1>10 DEF Born
<1> QED
  BY <1>2, <1>3, <1>4, <1>5, <1>6, <1>8, <1>9, <1>10, ZenonT(30)
  DEF Step, ClientStep, TimerStep, ManagerStep, SubscriberStep, SessionStep,
      ShutdownStep, OperationStep, TimerFire, TimerRenew, SetPending, TimerPush,
      ManagerTake, ManagerGive, ManagerCheck, TakeOperation, SubscribeBegin,
      Connect, SubscribeOk, Add, Arm, SubscribeFail, RenewReply, CancelTimer,
      RemoveSid, UnsubscribeReply, Reschedule, SubscriberPush, SessionRead,
      SessionUpdateStart, SessionUpdateEnd, SessionUpdateThrow, SessionRelock,
      SessionError, SessionPush, SessionFind, ShutdownBegin, ShutdownWait,
      ShutdownKill, ShutdownJoin

(* A subscription is a pending add from the announcement to Add or         *)
(* NotifyAddAborted, and one thread goes all the way.                      *)
LEMMA PendingAddsStep ==
  ASSUME IInv, Core, ~asserted, Step
  PROVE  PendingAdds'
<1> SUFFICES ASSUME NEW s \in iPending'
             PROVE  \E t \in Threads :
                      subOf'[t] = s /\ subPc'[t] \in {"connect", "subscribeReply", "add"}
  BY DEF PendingAdds
<1> USE NoneAssumption
    DEF objVars, sidVars, lockVars, timerVars, mgrVars, stackVars, subVars, sessVars
<1>0. /\ subOf \in [Threads -> Subs \cup {None}] /\ DOMAIN subPc = Threads
      /\ iPending \subseteq Subs
  BY DEF IInv, TypeOK, TypeSubscriber, TypeSid
<1>1. s \in iPending =>
        \E u \in Threads : subOf[u] = s /\ subPc[u] \in {"connect", "subscribeReply", "add"}
  BY DEF Core, PendingAdds
<1>2. ASSUME NEW t \in Threads, s \in iPending,
             subPc[t] \notin {"connect", "subscribeReply", "add"} \/ subOf[t] # s,
             \A u \in Threads \ {t} : subOf'[u] = subOf[u] /\ subPc'[u] = subPc[u]
      PROVE  \E u \in Threads :
                subOf'[u] = s /\ subPc'[u] \in {"connect", "subscribeReply", "add"}
  BY <1>1, <1>2
<1>3. ASSUME NEW t \in Threads, SubscribeBegin(t)
      PROVE  \E u \in Threads :
                subOf'[u] = s /\ subPc'[u] \in {"connect", "subscribeReply", "add"}
  <2>1. subOf' = subOf /\ subPc[t] = "subscribe"
    BY <1>3 DEF SubscribeBegin
  <2>2. CASE s \in iPending
    BY <1>0, <1>2, <1>3, <2>1, <2>2 DEF SubscribeBegin, Goto
  <2>3. CASE s \notin iPending
    <3>1. s = subOf[t] /\ subPc'[t] = "connect"
      BY <1>0, <1>3, <2>3 DEF SubscribeBegin, Goto
    <3> QED
      BY <2>1, <3>1
  <2> QED
    BY <2>2, <2>3
<1>4. ASSUME NEW t \in Threads, Connect(t)
      PROVE  \E u \in Threads :
                subOf'[u] = s /\ subPc'[u] \in {"connect", "subscribeReply", "add"}
  <2>1. /\ subOf' = subOf /\ iPending' = iPending
        /\ \/ subPc[t] = "connect" /\ subPc' = [subPc EXCEPT ![t] = "subscribeReply"]
           \/ subPc[t] = "renew" /\ subPc' = [subPc EXCEPT ![t] = "renewReply"]
    BY <1>4 DEF Connect, Goto
  <2> QED
    BY <1>0, <1>1, <2>1
<1>5. ASSUME NEW t \in Threads, SubscribeOk(t)
      PROVE  \E u \in Threads :
                subOf'[u] = s /\ subPc'[u] \in {"connect", "subscribeReply", "add"}
  <2>1. subOf' = subOf /\ iPending' = iPending /\ subPc' = [subPc EXCEPT ![t] = "add"]
    BY <1>5 DEF SubscribeOk, Goto
  <2> QED
    BY <1>0, <1>1, <2>1
<1>6. ASSUME NEW t \in Threads, Add(t) \/ SubscribeFail(t)
      PROVE  \E u \in Threads :
                subOf'[u] = s /\ subPc'[u] \in {"connect", "subscribeReply", "add"}
  <2>1. /\ subOf' = subOf /\ iPending' = iPending \ {subOf[t]}
        /\ \E pc : subPc' = [subPc EXCEPT ![t] = pc]
    BY <1>6 DEF Add, SubscribeFail, RemovePendingAdd, Goto
  <2>2. s \in iPending /\ s # subOf[t]
    BY <2>1
  <2>3. \A u \in Threads \ {t} : subOf'[u] = subOf[u] /\ subPc'[u] = subPc[u]
    BY <1>0, <2>1
  <2> QED
    BY <1>2, <2>2, <2>3
<1>7. ASSUME NEW t \in Threads,
             \/ Arm(t) \/ RenewReply(t) \/ CancelTimer(t) \/ RemoveSid(t) \/ UnsubscribeReply(t)
             \/ Reschedule(t) \/ SubscriberPush(t) \/ TakeOperation(t) \/ Release(t)
      PROVE  \E u \in Threads :
                subOf'[u] = s /\ subPc'[u] \in {"connect", "subscribeReply", "add"}
  <2>1. iPending' = iPending /\ subPc[t] \notin {"connect", "subscribeReply", "add"}
    BY <1>7 DEF Arm, RenewReply, CancelTimer, RemoveSid, UnsubscribeReply, Reschedule,
       SubscriberPush, TakeOperation, Release
  <2>2. \A u \in Threads \ {t} : subPc'[u] = subPc[u]
    BY <1>0, <1>7 DEF Arm, RenewReply, CancelTimer, RemoveSid, UnsubscribeReply, Reschedule,
       SubscriberPush, TakeOperation, Release, Goto
  <2>3. \A u \in Threads \ {t} : subOf'[u] = subOf[u]
    BY <1>0, <1>7 DEF Arm, RenewReply, CancelTimer, RemoveSid, UnsubscribeReply, Reschedule,
       SubscriberPush, TakeOperation, Release
  <2> QED
    BY <1>2, <2>1, <2>2, <2>3
<1>8. CASE ManagerGive
  <2>1. mgrThread \in Threads /\ subPc[mgrThread] = "idle" /\ iPending' = iPending
    BY <1>8 DEF ManagerGive, IInv, TypeOK, TypeManager, ThreadShape
  <2>2. \A u \in Threads \ {mgrThread} : subOf'[u] = subOf[u] /\ subPc'[u] = subPc[u]
    BY <1>0, <1>8 DEF ManagerGive
  <2> QED
    BY <1>2, <2>1, <2>2
<1>9. CASE UNCHANGED <<iPending, subOf, subPc>>
  BY <1>1, <1>9
<1> QED
  BY <1>3, <1>4, <1>5, <1>6, <1>7, <1>8, <1>9
  DEF Step, ClientStep, TimerStep, ManagerStep, SubscriberStep, SessionStep,
      ShutdownStep, OperationStep, ClientSubscribe, ClientPush, ClientUnsubscribe,
      ClientSchedule, ClientReturn, Destroy, TimerFire, TimerRenew, TimerPush,
      ManagerTake, ManagerCheck, SessionRead,
      SessionUpdateStart, SessionUpdateEnd, SessionUpdateThrow, SessionRelock,
      SessionError, SessionPush, SessionUnref, SessionFind, ShutdownBegin, ShutdownWait,
      ShutdownKill, ShutdownJoin

(* The destructor cancels the timer, and nobody arms it afterwards.        *)
LEMMA DeadTimerStep ==
  ASSUME IInv, Core, ~asserted, Step
  PROVE  DeadTimer'
<1> SUFFICES ASSUME NEW r \in Subs, life'[r] = "dead"
             PROVE  timerSub' # r /\ ~timer'[r]
  BY DEF DeadTimer
<1> USE NoneAssumption
    DEF objVars, sidVars, lockVars, timerVars, mgrVars, stackVars, subVars, sessVars
<1>0. /\ timer \in [Subs -> BOOLEAN] /\ life \in [Subs -> {"none", "live", "dying", "dead"}]
      /\ life[r] = "dead" => timerSub # r /\ ~timer[r]
  BY DEF IInv, TypeOK, TypeTimer, TypeObj, Core, DeadTimer
<1>1. ASSUME NEW s \in Subs, ClientSubscribe(s)
      PROVE  timerSub' # r /\ ~timer'[r]
  BY <1>0, <1>1 DEF ClientSubscribe
<1>2. ASSUME NEW s \in Subs, Destroy(s)
      PROVE  timerSub' # r /\ ~timer'[r]
  <2>1. /\ timerSub' = timerSub /\ timer' = [timer EXCEPT ![s] = FALSE]
        /\ life' = [life EXCEPT ![s] = "dead"] /\ timerSub = None
    BY <1>2 DEF Destroy, IInv, ThreadShape
  <2> QED
    BY <1>0, <2>1
<1>3. ASSUME NEW s \in Subs, TimerFire(s)
      PROVE  timerSub' # r /\ ~timer'[r]
  BY <1>0, <1>3 DEF TimerFire
<1>4. CASE TimerRenew
  <2>1. timerSub' \in {timerSub, None} /\ timer' = timer /\ life' = life
    BY <1>4 DEF TimerRenew, SetPending
  <2> QED
    BY <1>0, <2>1
<1>5. CASE TimerPush
  BY <1>0, <1>5 DEF TimerPush
<1>6. ASSUME NEW t \in Threads, Arm(t)
      PROVE  timerSub' # r /\ ~timer'[r]
  <2>1. subOf[t] \in Subs
    BY <1>6 DEF Arm, IInv, TypeOK, TypeSubscriber, ThreadShape
  <2>2. life[subOf[t]] = "live"
    BY <2>1, Referenced
  <2> QED
    BY <1>0, <1>6, <2>1, <2>2 DEF Arm
<1>7. ASSUME NEW t \in Threads, CancelTimer(t)
      PROVE  timerSub' # r /\ ~timer'[r]
  BY <1>0, <1>7 DEF CancelTimer
<1>8. CASE UNCHANGED <<life, timer, timerSub>>
  BY <1>0, <1>8
<1>9. ASSUME NEW s \in Subs, NEW n, RemoveRefs(s, n), UNCHANGED <<timer, timerSub>>
      PROVE  timerSub' # r /\ ~timer'[r]
  BY <1>0, <1>9 DEF RemoveRefs
<1>10. ASSUME NEW s \in Subs, ClientReturn(s)
       PROVE  timerSub' # r /\ ~timer'[r]
  BY <1>9, <1>10 DEF ClientReturn
<1>11. ASSUME NEW t \in Threads, Release(t)
       PROVE  timerSub' # r /\ ~timer'[r]
  <2>1. subOf[t] \in Subs /\ RemoveRefs(subOf[t], 1) /\ UNCHANGED <<timer, timerSub>>
    BY <1>11 DEF Release, IInv, TypeOK, TypeSubscriber, ThreadShape
  <2> QED
    BY <1>9, <2>1
<1>12. ASSUME NEW e \in Sessions, SessionUnref(e)
       PROVE  timerSub' # r /\ ~timer'[r]
  <2>1. evSub[e] \in Subs /\ RemoveRefs(evSub[e], 1) /\ UNCHANGED <<timer, timerSub>>
    BY <1>12 DEF SessionUnref, IInv, TypeOK, TypeSession, ThreadShape
  <2> QED
    BY <1>9, <2>1
<1> QED
  BY <1>1, <1>2, <1>3, <1>4, <1>5, <1>6, <1>7, <1>8, <1>10, <1>11, <1>12, ZenonT(30)
  DEF Step, ClientStep, TimerStep, ManagerStep, SubscriberStep, SessionStep,
      ShutdownStep, OperationStep, ClientPush, ClientUnsubscribe, ClientSchedule,
      SetPending, ManagerTake, ManagerGive, ManagerCheck, TakeOperation,
      SubscribeBegin, Connect, SubscribeOk, Add, SubscribeFail, RenewReply,
      RemoveSid, UnsubscribeReply, Reschedule, SubscriberPush, SessionRead,
      SessionUpdateStart, SessionUpdateEnd, SessionUpdateThrow, SessionRelock,
      SessionError, SessionPush, SessionFind, ShutdownBegin, ShutdownWait,
      ShutdownKill, ShutdownJoin

(* The eUnsubscribe in the slot keeps its entry until a Subscriber that    *)
(* was handed one takes the operation.                                     *)
LEMMA QueuedKept ==
  ASSUME IInv, Step, NEW r \in Subs, ~asserted', Queued(r),
         \A t \in Threads : TakeOperation(t) => subOf[t] # r
  PROVE  Queued(r)'
<1> USE NoneAssumption
    DEF objVars, sidVars, lockVars, timerVars, mgrVars, stackVars, subVars, sessVars
<1>1. ASSUME NEW i \in 1..Len(iList), iList[i] = r
      PROVE  Queued(r)'
  <2>1. ASSUME NEW x \in Subs, Enqueue(x)
        PROVE  Queued(r)'
    BY <1>1, <2>1, EnqueueEffect DEF IInv, Queued
  <2>2. ASSUME NEW t \in Threads, ManagerTake(t)
        PROVE  Queued(r)'
    <3>1. iList \in Seq(Subs) /\ mgrSub' = Head(iList) /\ iList' = Tail(iList)
      BY <2>2 DEF IInv, TypeOK, TypeManager, ManagerTake
    <3>2. CASE i = 1
      BY <1>1, <3>1, <3>2 DEF Queued
    <3>3. CASE i # 1
      <4>1. i - 1 \in 1..Len(iList') /\ iList'[i - 1] = r
        BY <1>1, <3>1, <3>3
      <4> QED
        BY <4>1 DEF Queued
    <3> QED
      BY <3>2, <3>3
  <2>3. CASE UNCHANGED iList
    BY <1>1, <2>3 DEF Queued
  <2>4. CASE TimerPush
    <3>1. timerSub \in Subs /\ Enqueue(timerSub)
      BY <2>4 DEF IInv, TypeOK, TypeTimer, ThreadShape, TimerPush
    <3> QED
      BY <3>1, <2>1
  <2>5. ASSUME NEW t \in Threads, SubscriberPush(t)
        PROVE  Queued(r)'
    <3>1. subOf[t] \in Subs /\ Enqueue(subOf[t])
      BY <2>5 DEF IInv, TypeOK, TypeSubscriber, ThreadShape, SubscriberPush
    <3> QED
      BY <3>1, <2>1
  <2>6. ASSUME NEW e \in Sessions, SessionPush(e)
        PROVE  Queued(r)'
    <3>1. evSub[e] \in Subs /\ Enqueue(evSub[e])
      BY <2>6 DEF IInv, TypeOK, TypeSession, ThreadShape, SessionPush
    <3> QED
      BY <3>1, <2>1
  <2>7. ASSUME NEW s \in Subs, ClientPush(s)
        PROVE  Queued(r)'
    BY <2>1, <2>7 DEF ClientPush
  <2> QED
    BY <2>2, <2>3, <2>4, <2>5, <2>6, <2>7, ZenonT(30)
    DEF Step, ClientStep, TimerStep, ManagerStep, SubscriberStep, SessionStep,
        ShutdownStep, OperationStep, ClientSubscribe, ClientUnsubscribe,
        ClientSchedule, ClientReturn, Destroy, TimerFire, TimerRenew, ManagerGive,
        ManagerCheck, TakeOperation, SubscribeBegin, Connect, SubscribeOk, Add, Arm,
        SubscribeFail, RenewReply, CancelTimer, RemoveSid, UnsubscribeReply,
        Reschedule, Release, SessionRead, SessionUpdateStart, SessionUpdateEnd,
        SessionUpdateThrow, SessionRelock, SessionError, SessionUnref, SessionFind,
        ShutdownBegin, ShutdownWait, ShutdownKill, ShutdownJoin
<1>2. CASE mgrSub = r
  <2>1. CASE ManagerGive
    BY <1>2, <2>1 DEF IInv, TypeOK, TypeManager, TypeSubscriber, ThreadShape,
       Queued, ManagerGive
  <2>2. ASSUME NEW t \in Threads, ManagerTake(t)
        PROVE  FALSE
    BY <1>2, <2>2 DEF IInv, ThreadShape, ManagerTake
  <2>3. CASE UNCHANGED mgrSub
    BY <1>2, <2>3 DEF Queued
  <2> QED
    BY <2>1, <2>2, <2>3, ZenonT(30)
    DEF Step, ClientStep, TimerStep, ManagerStep, SubscriberStep, SessionStep,
        ShutdownStep, OperationStep, ClientSubscribe, ClientPush,
        ClientUnsubscribe, ClientSchedule, ClientReturn, Destroy, TimerFire, TimerRenew,
        TimerPush, ManagerCheck, TakeOperation, SubscribeBegin, Connect, SubscribeOk, Add,
        Arm, SubscribeFail, RenewReply, CancelTimer, RemoveSid, UnsubscribeReply,
        Reschedule, SubscriberPush, Release, SessionRead, SessionUpdateStart,
        SessionUpdateEnd, SessionUpdateThrow, SessionRelock, SessionError,
        SessionPush, SessionUnref, SessionFind, ShutdownBegin,
        ShutdownWait, ShutdownKill, ShutdownJoin
<1>3. ASSUME NEW u \in Threads, subOf[u] = r, subPc[u] = "given"
      PROVE  Queued(r)'
  <2>1. ASSUME NEW t \in Threads, TakeOperation(t)
        PROVE  Queued(r)'
    <3>1. t # u /\ subOf' = subOf /\ subPc'[u] = subPc[u]
      BY <1>3, <2>1 DEF IInv, TypeOK, TypeSubscriber, TakeOperation, Goto
    <3> QED
      BY <1>3, <3>1 DEF Queued
  <2>2. ASSUME NEW t \in Threads, Release(t)
        PROVE  Queued(r)'
    <3>1. t # u /\ subOf'[u] = subOf[u] /\ subPc'[u] = subPc[u]
      BY <1>3, <2>2 DEF IInv, TypeOK, TypeSubscriber, Release, Goto
    <3> QED
      BY <1>3, <3>1 DEF Queued
  <2>3. CASE ManagerGive
    <3>1. mgrThread # u /\ mgrThread \in Threads
      BY <1>3, <2>3 DEF IInv, TypeOK, TypeManager, ThreadShape, ManagerGive
    <3>2. subOf'[u] = subOf[u] /\ subPc'[u] = subPc[u]
      BY <2>3, <3>1 DEF IInv, TypeOK, TypeSubscriber, ManagerGive
    <3> QED
      BY <1>3, <3>2 DEF Queued
  <2>4. ASSUME NEW t \in Threads, OperationStep(t)
        PROVE  Queued(r)'
    <3>1. PICK pc : Moves(t, pc)
      BY <2>4, OperationMoves DEF IInv
    <3>2. t # u
      BY <1>3, <3>1 DEF Moves, Edges
    <3>3. subOf' = subOf /\ subPc'[u] = subPc[u]
      BY <3>1, <3>2 DEF IInv, TypeOK, TypeSubscriber, Moves
    <3> QED
      BY <1>3, <3>3 DEF Queued
  <2>5. CASE UNCHANGED <<subOf, subPc>>
    BY <1>3, <2>5 DEF Queued
  <2> QED
    BY <2>1, <2>2, <2>3, <2>4, <2>5
    DEF Step, ClientStep, TimerStep, ManagerStep, SubscriberStep, SessionStep,
        ShutdownStep, ClientSubscribe, ClientPush, ClientUnsubscribe,
        ClientSchedule, ClientReturn, Destroy, TimerFire, TimerRenew, TimerPush, ManagerTake,
        ManagerCheck, SessionRead, SessionUpdateStart, SessionUpdateEnd, SessionUpdateThrow,
        SessionRelock, SessionError, SessionPush, SessionUnref, SessionFind,
        ShutdownBegin, ShutdownWait, ShutdownKill, ShutdownJoin
<1>4. CASE clientPc[r] = "pushUnsubscribe"
  <2>1. CASE ClientPush(r)
    <3>1. Enqueue(r)
      BY <2>1 DEF ClientPush
    <3> QED
      BY <3>1, EnqueueEffect DEF IInv, Queued
  <2>2. CASE ~ClientPush(r)
    <3>1. clientPc'[r] = clientPc[r]
      <4>1. ASSUME NEW s \in Subs, ClientStep(s)
            PROVE  clientPc'[r] = clientPc[r]
        BY <1>4, <2>2, <4>1 DEF IInv, TypeOK, TypeStack, ClientStep,
           ClientSubscribe, ClientPush, ClientUnsubscribe, ClientSchedule, ClientReturn
      <4>2. CASE UNCHANGED clientPc
        BY <4>2
      <4> QED
        BY <4>1, <4>2, ZenonT(30)
        DEF Step, TimerStep, ManagerStep, SubscriberStep, SessionStep,
        ShutdownStep, OperationStep, Destroy, TimerFire, TimerRenew,
        TimerPush, ManagerTake, ManagerGive, ManagerCheck,
        TakeOperation, SubscribeBegin, Connect, SubscribeOk, Add, Arm,
        SubscribeFail, RenewReply, CancelTimer, RemoveSid,
        UnsubscribeReply, Reschedule, SubscriberPush, Release,
        SessionRead, SessionUpdateStart, SessionUpdateEnd, SessionUpdateThrow,
        SessionRelock, SessionError, SessionPush, SessionUnref, SessionFind,
        ShutdownBegin, ShutdownWait, ShutdownKill, ShutdownJoin
    <3> QED
      BY <1>4, <3>1 DEF Queued
  <2> QED
    BY <2>1, <2>2
<1> QED
  BY <1>1, <1>2, <1>3, <1>4 DEF Queued

LEMMA UnsubscribeQueuedStep ==
  ASSUME IInv, Core, ~asserted, Step, ~asserted'
  PROVE  UnsubscribeQueued'
<1> SUFFICES ASSUME NEW r \in Subs, iRejectFutureOperations'[r],
                    iPendingOperation'[r] = "eUnsubscribe"
             PROVE  Queued(r)'
  BY DEF UnsubscribeQueued
<1> USE DEF objVars, sidVars, lockVars, timerVars, mgrVars, stackVars, subVars, sessVars
<1>0. /\ iPendingOperation \in [Subs -> Operations]
      /\ iRejectFutureOperations \in [Subs -> BOOLEAN]
  BY DEF IInv, TypeOK, TypeObj
<1>1. ASSUME iRejectFutureOperations[r], iPendingOperation[r] = "eUnsubscribe"
      PROVE  Queued(r)'
  <2>1. Queued(r)
    BY <1>1 DEF Core, UnsubscribeQueued
  <2>2. ASSUME NEW t \in Threads, TakeOperation(t), subOf[t] = r
        PROVE  FALSE
    BY <1>0, <2>2 DEF TakeOperation, EmptySlot
  <2> QED
    BY <2>1, <2>2, QueuedKept
<1>2. ASSUME NEW s \in Subs, ClientSubscribe(s)
      PROVE  Queued(r)'
  BY <1>0, <1>1, <1>2 DEF ClientSubscribe
<1>3. ASSUME NEW s \in Subs, ClientSchedule(s)
      PROVE  Queued(r)'
  <2>1. CASE s = r
    <3>1. ~iRejectFutureOperations[r]
      BY <1>3, <2>1 DEF ClientSchedule, Core, Rejects, Left
    <3>2. clientPc' = [clientPc EXCEPT ![r] = "pushUnsubscribe"]
      BY <1>3, <2>1, <3>1 DEF ClientSchedule, Accepts
    <3> QED
      BY <3>2 DEF Queued, IInv, TypeOK, TypeStack
  <2>2. CASE s # r
    <3>1. /\ iPendingOperation'[r] = iPendingOperation[r]
          /\ iRejectFutureOperations'[r] = iRejectFutureOperations[r]
      BY <1>0, <1>3, <2>2 DEF ClientSchedule, SetPending
    <3> QED
      BY <1>1, <3>1
  <2> QED
    BY <2>1, <2>2
<1>4. ASSUME NEW s \in Subs, NEW op, SetPending(s, op, FALSE), op # "eUnsubscribe"
      PROVE  Queued(r)'
  BY <1>0, <1>1, <1>4 DEF SetPending
<1>5. CASE UNCHANGED <<iPendingOperation, iRejectFutureOperations>>
  BY <1>1, <1>5
<1>6. CASE TimerRenew
  <2>1. timerSub \in Subs
    BY <1>6 DEF TimerRenew, IInv, TypeOK, TypeTimer, ThreadShape
  <2> QED
    BY <1>4, <1>5, <1>6, <2>1 DEF TimerRenew
<1>7. ASSUME NEW t \in Threads, TakeOperation(t)
      PROVE  Queued(r)'
  BY <1>0, <1>1, <1>7 DEF TakeOperation, EmptySlot
<1>8. ASSUME NEW t \in Threads, Reschedule(t)
      PROVE  Queued(r)'
  <2>1. subOf[t] \in Subs
    BY <1>8 DEF Reschedule, IInv, TypeOK, TypeSubscriber, ThreadShape
  <2>2. \/ SetPending(subOf[t], IF subPc[t] = "resubscribe" THEN "eSubscribe"
                                ELSE "eResubscribe", FALSE)
        \/ UNCHANGED <<iPendingOperation, iRejectFutureOperations>>
    BY <1>8 DEF Reschedule
  <2> QED
    BY <1>4, <1>5, <2>1, <2>2
<1>9. ASSUME NEW e \in Sessions, SessionError(e)
      PROVE  Queued(r)'
  <2>1. evSub[e] \in Subs
    BY <1>9 DEF SessionError, IInv, TypeOK, TypeSession, ThreadShape
  <2> QED
    BY <1>4, <1>5, <1>9, <2>1 DEF SessionError
<1> QED
  BY <1>2, <1>3, <1>5, <1>6, <1>7, <1>8, <1>9, ZenonT(30)
  DEF Step, ClientStep, TimerStep, ManagerStep, SubscriberStep, SessionStep,
      ShutdownStep, OperationStep, ClientPush, ClientUnsubscribe, ClientReturn,
      RemoveRefs, Destroy, TimerFire, TimerPush, ManagerTake, ManagerGive, ManagerCheck,
      SubscribeBegin, Connect, SubscribeOk, Add, Arm, SubscribeFail, RenewReply,
      CancelTimer, RemoveSid, UnsubscribeReply, SubscriberPush, Release, SessionRead,
      SessionUpdateStart, SessionUpdateEnd, SessionUpdateThrow, SessionRelock,
      SessionPush, SessionUnref, SessionFind, ShutdownBegin, ShutdownWait,
      ShutdownKill, ShutdownJoin

(* Renew is queued before DoUnsubscribe is past its cancelling.            *)
LEMMA TimerPushesStep ==
  ASSUME IInv, Core, ~asserted, Step
  PROVE  TimerPushes'
<1> SUFFICES ASSUME NEW r \in Subs, timerPc' = "push", timerSub' = r,
                    iRejectFutureOperations'[r]
             PROVE  \/ iPendingOperation'[r] = "eUnsubscribe"
                    \/ \E t \in Threads : Runs(t, r)' /\ subPc'[t] = "cancel"
  BY DEF TimerPushes
<1> DEFINE Goal == \/ iPendingOperation'[r] = "eUnsubscribe"
                   \/ \E t \in Threads : Runs(t, r)' /\ subPc'[t] = "cancel"
<1> SUFFICES Goal
  OBVIOUS
<1> USE NoneAssumption
    DEF objVars, sidVars, lockVars, timerVars, mgrVars, stackVars, subVars, sessVars
<1>0. /\ iPendingOperation \in [Subs -> Operations]
      /\ iRejectFutureOperations \in [Subs -> BOOLEAN]
      /\ subOf \in [Threads -> Subs \cup {None}] /\ DOMAIN subPc = Threads
      /\ DOMAIN iSubscriberLock = Subs
  BY DEF IInv, TypeOK, TypeObj, TypeSubscriber, TypeLock
<1>1. timerPc = "push" /\ timerSub = r /\ iRejectFutureOperations[r] =>
        \/ iPendingOperation[r] = "eUnsubscribe"
        \/ \E t \in Threads : Runs(t, r) /\ subPc[t] = "cancel"
  BY DEF Core, TimerPushes
<1>2. ASSUME UNCHANGED <<timerPc, timerSub, iRejectFutureOperations, iPendingOperation>>,
             \A u \in Threads : Runs(u, r) /\ subPc[u] = "cancel" =>
                                  subOf'[u] = subOf[u] /\ subPc'[u] = subPc[u]
      PROVE  Goal
  BY <1>1, <1>2 DEF Runs
<1>3. ASSUME NEW s \in Subs, ClientSubscribe(s)
      PROVE  Goal
  <2>1. timerSub # s /\ timerPc = "push" /\ timerSub = r
    BY <1>3 DEF ClientSubscribe, IInv, Unborn
  <2>2. iPendingOperation'[r] = iPendingOperation[r] /\ subOf' = subOf /\ subPc' = subPc
    BY <1>0, <1>3, <2>1 DEF ClientSubscribe
  <2>3. iRejectFutureOperations[r]
    BY <1>3 DEF ClientSubscribe
  <2> QED
    BY <1>1, <2>1, <2>2, <2>3 DEF Runs
<1>4. ASSUME NEW s \in Subs, ClientSchedule(s)
      PROVE  Goal
  <2>1. ~iRejectFutureOperations[s]
    BY <1>4 DEF ClientSchedule, Core, Rejects, Left
  <2>2. iPendingOperation' = [iPendingOperation EXCEPT ![s] = "eUnsubscribe"]
    BY <1>4, <2>1 DEF ClientSchedule, Accepts, SetPending
  <2>3. CASE s # r
    <3>1. iRejectFutureOperations'[r] = iRejectFutureOperations[r]
      BY <1>0, <1>4, <2>1, <2>3, ZenonT(30) DEF ClientSchedule, Accepts, SetPending
    <3>2. timerPc' = timerPc /\ timerSub' = timerSub /\ subOf' = subOf /\ subPc' = subPc
      BY <1>4 DEF ClientSchedule
    <3> QED
      BY <1>0, <1>1, <2>2, <2>3, <3>1, <3>2 DEF Runs
  <2> QED
    BY <1>0, <2>2, <2>3
<1>5. ASSUME NEW s \in Subs, NEW op, Accepts(s), SetPending(s, op, FALSE),
             timerPc' = timerPc, timerSub' = timerSub,
             \A u \in Threads : Runs(u, r) /\ subPc[u] = "cancel" =>
                                  subOf'[u] = subOf[u] /\ subPc'[u] = subPc[u]
      PROVE  Goal
  <2>1. /\ iRejectFutureOperations' = iRejectFutureOperations
        /\ iPendingOperation' = [iPendingOperation EXCEPT ![s] = op]
    BY <1>0, <1>5 DEF SetPending
  <2>2. s # r
    BY <1>5, <2>1 DEF Accepts
  <2> QED
    BY <1>0, <1>1, <1>5, <2>1, <2>2 DEF Runs
<1>6. CASE TimerRenew
  <2>1. Accepts(timerSub) /\ SetPending(timerSub, "eRenew", FALSE) /\ timerSub = r
    BY <1>6 DEF TimerRenew
  <2>2. iRejectFutureOperations' = iRejectFutureOperations
    BY <1>0, <2>1 DEF SetPending
  <2> QED
    BY <2>1, <2>2 DEF Accepts
<1>7. ASSUME NEW t \in Threads, TakeOperation(t)
      PROVE  Goal
  <2>1. /\ subOf' = subOf /\ iRejectFutureOperations' = iRejectFutureOperations
        /\ timerPc' = timerPc /\ timerSub' = timerSub
        /\ subPc[t] = "given" /\ subOf[t] \in Subs
        /\ iPendingOperation' = [iPendingOperation EXCEPT ![subOf[t]] = "eNone"]
        /\ iSubscriberLock[subOf[t]] = None
    BY <1>7 DEF TakeOperation, EmptySlot, IInv, TypeOK, TypeSubscriber, ThreadShape
  <2>2. subPc' = [subPc EXCEPT ![t] =
                    CASE iPendingOperation[subOf[t]] = "eNone"      -> "release"
                      [] iPendingOperation[subOf[t]] = "eSubscribe" -> "subscribe"
                      [] iPendingOperation[subOf[t]] = "eRenew"     -> "renew"
                      [] OTHER                                      -> "cancel"]
    BY <1>7, Zenon DEF TakeOperation, Goto
  <2>3. CASE subOf[t] = r
    <3>1. \A u \in Threads : ~Runs(u, r)
      BY <2>1, <2>3 DEF IInv, LockOwner
    <3>2. iPendingOperation[r] = "eUnsubscribe"
      BY <1>1, <2>1, <3>1
    <3>3. subPc'[t] = "cancel"
      BY <1>0, <2>2, <2>3, <3>2
    <3> QED
      BY <2>1, <2>3, <3>3 DEF Runs
  <2>4. CASE subOf[t] # r
    <3>1. \A u \in Threads \ {t} : subPc'[u] = subPc[u]
      BY <1>0, <2>2
    <3>2. iPendingOperation'[r] = iPendingOperation[r]
      BY <1>0, <2>1, <2>4
    <3> QED
      BY <1>1, <2>1, <2>4, <3>1, <3>2 DEF Runs
  <2> QED
    BY <2>3, <2>4
<1>8. ASSUME NEW t \in Threads, OperationStep(t)
      PROVE  Goal
  <2>1. PICK pc : Moves(t, pc)
    BY <1>8, OperationMoves DEF IInv
  <2>2. /\ timerPc' = timerPc /\ timerSub' = timerSub /\ subOf' = subOf
        /\ iRejectFutureOperations' = iRejectFutureOperations
        /\ subPc' = [subPc EXCEPT ![t] = pc]
    BY <2>1 DEF Moves
  <2>3. subPc[t] # "cancel"
    <3>1. ~CancelTimer(t)
      BY <2>2 DEF CancelTimer
    <3> QED
      BY <1>8, <3>1 DEF OperationStep, SubscribeBegin, Connect, SubscribeOk, Add, Arm,
         SubscribeFail, RenewReply, RemoveSid, UnsubscribeReply, Reschedule, SubscriberPush
  <2>4. \A u \in Threads : Runs(u, r) /\ subPc[u] = "cancel" =>
                             subOf'[u] = subOf[u] /\ subPc'[u] = subPc[u]
    BY <1>0, <2>2, <2>3
  <2>5. CASE Reschedule(t)
    <3>1. subOf[t] \in Subs
      BY <2>5 DEF Reschedule, IInv, TypeOK, TypeSubscriber, ThreadShape
    <3>2. CASE Accepts(subOf[t])
      <4>1. \E op : SetPending(subOf[t], op, FALSE)
        BY <2>5, <3>2 DEF Reschedule
      <4> QED
        BY <1>5, <2>2, <2>4, <3>1, <3>2, <4>1
    <3>3. CASE ~Accepts(subOf[t])
      BY <1>2, <2>2, <2>4, <2>5, <3>3 DEF Reschedule
    <3> QED
      BY <3>2, <3>3
  <2>6. CASE iPendingOperation' = iPendingOperation
    BY <1>2, <2>2, <2>4, <2>6
  <2> QED
    BY <1>8, <2>5, <2>6 DEF OperationStep, SubscribeBegin, Connect, SubscribeOk, Add, Arm,
       SubscribeFail, RenewReply, CancelTimer, RemoveSid, UnsubscribeReply, SubscriberPush
<1>9. ASSUME NEW t \in Threads, Release(t)
      PROVE  Goal
  <2>1. /\ UNCHANGED <<timerPc, timerSub, iRejectFutureOperations, iPendingOperation>>
        /\ subPc[t] = "release" /\ \A u \in Threads \ {t} : subOf'[u] = subOf[u]
    BY <1>0, <1>9 DEF Release, RemoveRefs
  <2>2. \A u \in Threads \ {t} : subPc'[u] = subPc[u]
    BY <1>0, <1>9 DEF Release, Goto
  <2> QED
    BY <1>2, <2>1, <2>2
<1>10. CASE ManagerGive
  <2>1. /\ UNCHANGED <<timerPc, timerSub, iRejectFutureOperations, iPendingOperation>>
        /\ mgrThread \in Threads /\ subPc[mgrThread] = "idle"
        /\ \A u \in Threads \ {mgrThread} : subOf'[u] = subOf[u] /\ subPc'[u] = subPc[u]
    BY <1>0, <1>10 DEF ManagerGive, IInv, TypeOK, TypeManager, ThreadShape
  <2> QED
    BY <1>2, <2>1
<1>11. ASSUME NEW e \in Sessions, SessionError(e)
       PROVE  Goal
  <2>1. /\ evSub[e] \in Subs /\ timerPc' = timerPc /\ timerSub' = timerSub
        /\ subOf' = subOf /\ subPc' = subPc
    BY <1>11 DEF SessionError, IInv, TypeOK, TypeSession, ThreadShape
  <2>2. CASE Accepts(evSub[e])
    BY <1>5, <1>11, <2>1, <2>2 DEF SessionError
  <2>3. CASE ~Accepts(evSub[e])
    BY <1>2, <1>11, <2>1, <2>3 DEF SessionError
  <2> QED
    BY <2>2, <2>3
<1>12. CASE UNCHANGED <<timerPc, timerSub, iRejectFutureOperations, iPendingOperation,
                        subOf, subPc>>
  BY <1>2, <1>12
<1>13. CASE TimerPush \/ \E s \in Subs : TimerFire(s)
  BY <1>13 DEF TimerPush, TimerFire
<1> HIDE DEF Goal
<1>14. ASSUME NEW s \in Subs,
              ClientPush(s) \/ ClientUnsubscribe(s) \/ ClientReturn(s) \/ Destroy(s)
       PROVE  Goal
  <2>1. UNCHANGED <<timerPc, timerSub, iRejectFutureOperations, iPendingOperation>>
    BY <1>14 DEF ClientPush, ClientUnsubscribe, ClientReturn, RemoveRefs, Destroy
  <2>2. UNCHANGED <<subOf, subPc>>
    BY <1>14 DEF ClientPush, ClientUnsubscribe, ClientReturn, Destroy
  <2> QED
    BY <1>12, <2>1, <2>2
<1>15. ASSUME (\E t \in Threads : ManagerTake(t)) \/ ManagerCheck \/ ShutdownStep
       PROVE  Goal
  <2>1. UNCHANGED <<timerPc, timerSub, iRejectFutureOperations, iPendingOperation, subOf, subPc>>
    BY <1>15 DEF ManagerTake, ManagerCheck, ShutdownStep, ShutdownBegin, ShutdownWait,
       ShutdownKill, ShutdownJoin
  <2> QED
    BY <1>12, <2>1
<1>16. ASSUME NEW e \in Sessions, ~SessionError(e),
              SessionStep(e) \/ \E s \in Subs : SessionFind(e, s)
       PROVE  Goal
  <2>1. UNCHANGED <<timerPc, timerSub, iRejectFutureOperations, iPendingOperation, subOf, subPc>>
    BY <1>16
    DEF SessionStep, SessionRead, SessionUpdateStart, SessionUpdateEnd, SessionUpdateThrow,
        SessionRelock, SessionPush, SessionUnref, RemoveRefs, SessionFind
  <2> QED
    BY <1>12, <2>1
<1> QED
  <2>1. CASE \E s \in Subs : ClientStep(s) \/ Destroy(s) \/ TimerFire(s)
    BY <1>3, <1>4, <1>13, <1>14, <2>1 DEF ClientStep
  <2>2. CASE TimerStep \/ ManagerStep \/ ShutdownStep
    BY <1>6, <1>10, <1>13, <1>15, <2>2 DEF TimerStep, ManagerStep
  <2>3. CASE \E t \in Threads : SubscriberStep(t)
    BY <1>7, <1>8, <1>9, <2>3 DEF SubscriberStep
  <2>4. CASE \/ \E e \in Sessions : SessionStep(e)
             \/ \E e \in Sessions, s \in Subs : SessionFind(e, s)
    BY <1>11, <1>16, <2>4
  <2> QED
    BY <2>1, <2>2, <2>3, <2>4 DEF Step

(* ~CpiSubscriptionManager waits for what each of its next steps relies on. *)
LEMMA ShutdownKept ==
  ASSUME IInv, Core, ~asserted, Step, ~asserted'
  PROVE  Shutdown'
<1> USE NoneAssumption
    DEF objVars, sidVars, lockVars, timerVars, mgrVars, stackVars, subVars, sessVars
<1>0. Shutdown
  BY DEF Core
<1>1. ASSUME NEW s \in Subs, Enqueue(s)
      PROVE  iActive /\ mainPc = "up" /\ ~iShutdownSem
  BY <1>0, <1>1 DEF Enqueue, Shutdown
<1>2. ASSUME NEW s \in Subs, ClientStep(s)
      PROVE  Shutdown'
  <2>1. clientPc[s] # "gone" /\ (clientPc[s] = "none" => mainPc = "up")
    BY <1>2 DEF ClientStep, ClientSubscribe, ClientPush, ClientUnsubscribe,
       ClientSchedule, ClientReturn
  <2>2. mainPc = "up" /\ iActive /\ ~iShutdownSem /\ mgrPc # "dead"
    BY <1>0, <2>1 DEF Shutdown
  <2>3. /\ mainPc' = mainPc /\ iActive' = iActive /\ iShutdownSem' = iShutdownSem
        /\ mgrPc' = mgrPc
    BY <1>2 DEF ClientStep, ClientSubscribe, ClientPush, ClientUnsubscribe,
       ClientSchedule, ClientReturn
  <2> QED
    BY <2>2, <2>3 DEF Shutdown
<1>3. CASE TimerPush
  <2>1. timerSub \in Subs /\ Enqueue(timerSub)
    BY <1>3 DEF IInv, TypeOK, TypeTimer, ThreadShape, TimerPush
  <2>2. mainPc = "up" /\ iActive /\ ~iShutdownSem /\ mgrPc # "dead"
    BY <1>0, <1>1, <2>1 DEF Shutdown
  <2> QED
    BY <1>3, <2>2 DEF TimerPush, Shutdown
<1>4. ASSUME NEW t \in Threads, SubscriberPush(t)
      PROVE  Shutdown'
  <2>1. subOf[t] \in Subs /\ Enqueue(subOf[t])
    BY <1>4 DEF IInv, TypeOK, TypeSubscriber, ThreadShape, SubscriberPush
  <2>2. mainPc = "up" /\ iActive /\ ~iShutdownSem /\ mgrPc # "dead"
    BY <1>0, <1>1, <2>1 DEF Shutdown
  <2> QED
    BY <1>4, <2>2 DEF SubscriberPush, Shutdown
<1>5. ASSUME NEW e \in Sessions, SessionPush(e)
      PROVE  Shutdown'
  <2>1. evSub[e] \in Subs /\ Enqueue(evSub[e])
    BY <1>5 DEF IInv, TypeOK, TypeSession, ThreadShape, SessionPush
  <2>2. mainPc = "up" /\ iActive /\ ~iShutdownSem /\ mgrPc # "dead"
    BY <1>0, <1>1, <2>1 DEF Shutdown
  <2> QED
    BY <1>5, <2>2 DEF SessionPush, Shutdown
<1>6. ASSUME NEW t \in Threads, ManagerTake(t)
      PROVE  Shutdown'
  <2>1. /\ iList # <<>> /\ mgrPc = "wait" /\ mgrPc' = "give" /\ clientPc' = clientPc
        /\ mainPc' = mainPc /\ iActive' = iActive /\ iShutdownSem' = iShutdownSem
    BY <1>6 DEF ManagerTake
  <2> QED
    BY <1>0, <2>1 DEF Shutdown
<1>7. CASE ManagerGive
  <2>1. /\ mgrPc = "give" /\ mgrPc' = "check" /\ clientPc' = clientPc /\ iList' = iList
        /\ mainPc' = mainPc /\ iActive' = iActive /\ iShutdownSem' = iShutdownSem
    BY <1>7 DEF ManagerGive
  <2> QED
    BY <1>0, <2>1 DEF Shutdown
<1>8. CASE ManagerCheck
  <2>1. /\ mgrPc = "check" /\ mgrPc' = "wait" /\ clientPc' = clientPc /\ iList' = iList
        /\ mainPc' = mainPc /\ iActive' = iActive
        /\ iShutdownSem' => iShutdownSem \/ (~iActive /\ iList = <<>>)
    BY <1>8 DEF ManagerCheck, ReadyForShutdown
  <2>2. mainPc \notin {"join", "server", "down"}
    BY <1>0, <2>1 DEF Shutdown
  <2> QED
    BY <1>0, <2>1, <2>2 DEF Shutdown
<1>9. ASSUME NEW t \in Threads, SubscriberStep(t), ~SubscriberPush(t)
      PROVE  Shutdown'
  <2>1. subPc[t] # "idle"
    BY <1>9 DEF SubscriberStep, OperationStep, TakeOperation, SubscribeBegin, Connect,
       SubscribeOk, Add, Arm, SubscribeFail, RenewReply, CancelTimer, RemoveSid,
       UnsubscribeReply, Reschedule, Release
  <2>2. mainPc \notin {"server", "down"}
    BY <1>0, <2>1 DEF Shutdown
  <2>3. /\ mgrPc' = mgrPc /\ clientPc' = clientPc /\ iList' = iList
        /\ mainPc' = mainPc /\ iActive' = iActive
    BY <1>9 DEF SubscriberStep, OperationStep, TakeOperation, SubscribeBegin, Connect,
       SubscribeOk, Add, Arm, SubscribeFail, RenewReply, CancelTimer, RemoveSid,
       UnsubscribeReply, Reschedule, Release
  <2>4. iShutdownSem' => iShutdownSem \/ (~iActive /\ iList = <<>>)
    BY <1>9 DEF SubscriberStep, OperationStep, TakeOperation, SubscribeBegin, Connect,
       SubscribeOk, Add, Arm, SubscribeFail, RenewReply, CancelTimer, RemoveSid,
       UnsubscribeReply, Reschedule, Release, ReadyForShutdown
  <2> QED
    BY <1>0, <2>2, <2>3, <2>4 DEF Shutdown
<1>10. ASSUME NEW e \in Sessions, ~SessionPush(e),
              SessionStep(e) \/ \E s \in Subs : SessionFind(e, s)
       PROVE  Shutdown'
  <2>1. mainPc # "down"
    BY <1>0, <1>10 DEF Shutdown, SessionStep, SessionRead, SessionUpdateStart,
       SessionUpdateEnd, SessionUpdateThrow, SessionRelock, SessionError, SessionUnref,
       SessionFind
  <2>2. /\ mgrPc' = mgrPc /\ clientPc' = clientPc /\ iList' = iList
        /\ mainPc' = mainPc /\ iActive' = iActive /\ iShutdownSem' = iShutdownSem
    BY <1>10 DEF SessionStep, SessionRead, SessionUpdateStart, SessionUpdateEnd,
       SessionUpdateThrow, SessionRelock, SessionError, SessionUnref, SessionFind
  <2>3. subPc' = subPc
    BY <1>10 DEF SessionStep, SessionRead, SessionUpdateStart, SessionUpdateEnd,
       SessionUpdateThrow, SessionRelock, SessionError, SessionUnref, SessionFind
  <2> QED
    BY <1>0, <2>1, <2>2, <2>3 DEF Shutdown
<1>11. CASE ShutdownBegin
  BY <1>0, <1>11 DEF ShutdownBegin, ReadyForShutdown, Shutdown
<1>12. CASE ShutdownWait \/ ShutdownKill
  BY <1>0, <1>12 DEF ShutdownWait, ShutdownKill, Shutdown
<1>13. CASE ShutdownJoin
  BY <1>0, <1>13 DEF ShutdownJoin, Shutdown
<1>14. ASSUME NEW s \in Subs, Destroy(s)
       PROVE  Shutdown'
  <2>1. mainPc # "down"
    BY <1>0, <1>14 DEF Destroy, Shutdown
  <2> QED
    BY <1>0, <1>14, <2>1 DEF Destroy, Shutdown
<1>15. ASSUME NEW s \in Subs, TimerFire(s)
       PROVE  Shutdown'
  BY <1>0, <1>15 DEF TimerFire, Shutdown
<1>16. CASE TimerRenew
  <2>1. /\ mgrPc' = mgrPc /\ clientPc' = clientPc /\ iList' = iList
        /\ mainPc' = mainPc /\ iActive' = iActive /\ iShutdownSem' = iShutdownSem
        /\ subPc' = subPc /\ evPc' = evPc /\ life' = life
    BY <1>16 DEF TimerRenew, SetPending
  <2> QED
    BY <1>0, <2>1 DEF Shutdown
<1> QED
  BY <1>2, <1>3, <1>4, <1>5, <1>6, <1>7, <1>8, <1>9, <1>10, <1>11, <1>12, <1>13,
     <1>14, <1>15, <1>16
  DEF Step, TimerStep, ManagerStep, ShutdownStep

-----------------------------------------------------------------------------
(* The invariant of the count: exact until an ASSERT stops the process.    *)
Accounted == IInv /\ (~asserted => Core)

(* Nothing runs on after an ASSERT.                                        *)
LEMMA StepsRun == Step => ~asserted
<1>1. ASSUME NEW s \in Subs, ClientStep(s) \/ Destroy(s) \/ TimerFire(s)
      PROVE  ~asserted
  BY <1>1 DEF ClientStep, ClientSubscribe, ClientPush, ClientUnsubscribe,
     ClientSchedule, ClientReturn, Destroy, TimerFire
<1>2. CASE TimerStep \/ ManagerStep \/ ShutdownStep
  BY <1>2 DEF TimerStep, TimerRenew, TimerPush, ManagerStep, ManagerTake,
     ManagerGive, ManagerCheck, ShutdownStep, ShutdownBegin, ShutdownWait,
     ShutdownKill, ShutdownJoin
<1>3. ASSUME NEW t \in Threads, SubscriberStep(t)
      PROVE  ~asserted
  BY <1>3 DEF SubscriberStep, OperationStep, TakeOperation, SubscribeBegin, Connect,
     SubscribeOk, Add, Arm, SubscribeFail, RenewReply, CancelTimer,
     RemoveSid, UnsubscribeReply, Reschedule, SubscriberPush, Release
<1>4. ASSUME NEW e \in Sessions, SessionStep(e) \/ \E s \in Subs : SessionFind(e, s)
      PROVE  ~asserted
  BY <1>4 DEF SessionStep, SessionRead, SessionUpdateStart, SessionUpdateEnd,
     SessionUpdateThrow, SessionRelock, SessionError, SessionPush, SessionUnref, SessionFind
<1> QED
  BY <1>1, <1>2, <1>3, <1>4 DEF Step

(* The count starts at nothing, held by nobody.                            *)
LEMMA InitAccounted == Init => Accounted
<1> SUFFICES ASSUME Init PROVE Accounted
  OBVIOUS
<1>1. IInv
  BY InitInvariant
<1>2. Counted
  <2> SUFFICES ASSUME NEW r \in Subs PROVE iRefCount[r] = Holders(r)
    BY DEF Counted
  <2>1. OwnerRefs(r) = 0 /\ ManagerRefs(r) = 0 /\ TimerRefs(r) = 0
    BY NoneAssumption DEF Init, OwnerRefs, ManagerRefs, TimerRefs
  <2>2. QueueRefs(r) = 0 /\ ThreadRefs(r) = 0 /\ SessionRefs(r) = 0
    <3>1. /\ \A i \in 1..Len(iList) : iList[i] # r
          /\ \A t \in Threads : subOf[t] # r
          /\ \A e \in Sessions : evSub[e] # r
      BY NoneAssumption DEF Init
    <3> QED
      BY <1>1, <3>1, RefTypes
  <2>3. ThreadPushes(r) = 0 /\ SessionPushes(r) = 0
    BY <1>1, <2>2, RefTypes
  <2>4. Holders(r) = OwnerRefs(r) + QueueRefs(r) + ManagerRefs(r) + ThreadRefs(r)
                       + ThreadPushes(r) + TimerRefs(r) + SessionRefs(r) + SessionPushes(r)
    BY HoldersSum, Zenon
  <2> QED
    BY <2>1, <2>2, <2>3, <2>4 DEF Init
<1>3. Alive /\ Rejects /\ Born /\ PendingAdds /\ DeadTimer
  BY DEF Init, Alive, Rejects, Left, Born, PendingAdds, DeadTimer
<1>4. UnsubscribeQueued /\ TimerPushes /\ Shutdown
  BY DEF Init, UnsubscribeQueued, TimerPushes, Shutdown
<1> QED
  BY <1>1, <1>2, <1>3, <1>4 DEF Accounted, Core

(* Every step keeps the account.                                           *)
LEMMA NextAccounted == Accounted /\ [Next]_vars => Accounted'
<1> SUFFICES ASSUME Accounted, [Next]_vars PROVE Accounted'
  OBVIOUS
<1>1. IInv'
  BY NextInvariant DEF Accounted
<1>2. ASSUME Step, ~asserted'
      PROVE  Core'
  <2>1. IInv /\ Core /\ ~asserted
    BY <1>2, StepsRun DEF Accounted
  <2> QED
    BY <1>2, <2>1, CountedStep, AliveStep, RejectsStep, BornStep, PendingAddsStep,
       DeadTimerStep, UnsubscribeQueuedStep, TimerPushesStep, ShutdownKept DEF Core
<1>3. ASSUME UNCHANGED vars, ~asserted'
      PROVE  Core'
  <2> USE <1>3 DEF vars, objVars, sidVars, lockVars, timerVars, mgrVars, stackVars,
          subVars, sessVars
  <2>1. Core
    BY DEF Accounted
  <2>2. Counted'
    <3> SUFFICES ASSUME NEW r \in Subs PROVE iRefCount'[r] = Holders(r)'
      BY DEF Counted
    <3>1. Holders(r)' = Holders(r)
      BY DEF Holders
    <3> QED
      BY <2>1, <3>1 DEF Core, Counted
  <2>3. Alive' /\ Rejects' /\ Born'
    BY <2>1 DEF Core, Alive, Rejects, Born
  <2>4. PendingAdds' /\ DeadTimer'
    BY <2>1 DEF Core, PendingAdds, DeadTimer
  <2>5. UnsubscribeQueued'
    BY <2>1 DEF Core, UnsubscribeQueued, Queued
  <2>6. TimerPushes'
    BY <2>1 DEF Core, TimerPushes, Runs
  <2>7. Shutdown'
    BY <2>1 DEF Core, Shutdown
  <2> QED
    BY <2>2, <2>3, <2>4, <2>5, <2>6, <2>7 DEF Core
<1> QED
  BY <1>1, <1>2, <1>3 DEF Accounted, Next

(* The account is right in every reachable state.                          *)
THEOREM Accounting == Spec => []Accounted
<1> QED
  BY InitAccounted, NextAccounted, PTL DEF Spec

(* What an ASSERT leaves as it was.  The destructor's own ASSERT, that the *)
(* sid is empty, does not fail.                                            *)
LEMMA AssertingStep ==
  ASSUME Accounted, DestroyedIsUnreachable, Step, asserted'
  PROVE  /\ UNCHANGED <<life, iSid, iMap, iPending, timer, mainPc, iList>>
         /\ timerSub' \in {timerSub, None}
<1> USE DEF objVars, sidVars, lockVars, timerVars, mgrVars, stackVars, subVars, sessVars
<1>1. ~asserted
  BY StepsRun
<1>2. ASSUME NEW s, Enqueue(s)
      PROVE  iList' = iList
  BY <1>1, <1>2 DEF Enqueue
<1>3. ASSUME NEW s \in Subs, ClientPush(s)
      PROVE  /\ UNCHANGED <<life, iSid, iMap, iPending, timer, mainPc, iList>>
             /\ timerSub' \in {timerSub, None}
  BY <1>2, <1>3 DEF ClientPush
<1>4. CASE TimerPush
  BY <1>2, <1>4 DEF TimerPush
<1>5. ASSUME NEW t \in Threads, SubscriberPush(t)
      PROVE  /\ UNCHANGED <<life, iSid, iMap, iPending, timer, mainPc, iList>>
             /\ timerSub' \in {timerSub, None}
  BY <1>2, <1>5 DEF SubscriberPush
<1>6. ASSUME NEW e \in Sessions, SessionPush(e) \/ SessionRelock(e)
      PROVE  /\ UNCHANGED <<life, iSid, iMap, iPending, timer, mainPc, iList>>
             /\ timerSub' \in {timerSub, None}
  BY <1>2, <1>6 DEF SessionPush, SessionRelock
<1>7. ASSUME NEW s \in Subs, Destroy(s)
      PROVE  FALSE
  BY <1>7 DEF Destroy, DestroyedIsUnreachable
<1>8. ASSUME NEW s \in Subs, ClientStep(s), ~ClientPush(s)
      PROVE  FALSE
  BY <1>1, <1>8 DEF ClientStep, ClientSubscribe, ClientUnsubscribe, ClientSchedule,
     ClientReturn
<1>9. ASSUME NEW t \in Threads, SubscriberStep(t), ~SubscriberPush(t)
      PROVE  FALSE
  BY <1>1, <1>9 DEF SubscriberStep, OperationStep, TakeOperation, SubscribeBegin, Connect,
     SubscribeOk, Add, Arm, SubscribeFail, RenewReply, CancelTimer, RemoveSid,
     UnsubscribeReply, Reschedule, Release
<1>10. ASSUME NEW e \in Sessions, SessionStep(e) \/ \E s \in Subs : SessionFind(e, s),
              ~SessionPush(e), ~SessionRelock(e)
       PROVE  FALSE
  BY <1>1, <1>10 DEF SessionStep, SessionRead, SessionUpdateStart, SessionUpdateEnd,
     SessionUpdateThrow, SessionError, SessionUnref, SessionFind
<1>11. CASE TimerRenew \/ ManagerStep \/ ShutdownStep \/ \E s \in Subs : TimerFire(s)
  BY <1>1, <1>11 DEF TimerRenew, ManagerStep, ManagerTake, ManagerGive, ManagerCheck,
     ShutdownStep, ShutdownBegin, ShutdownWait, ShutdownKill, ShutdownJoin, TimerFire
<1> QED
  BY <1>3, <1>4, <1>5, <1>6, <1>7, <1>8, <1>9, <1>10, <1>11 DEF Step, TimerStep

-----------------------------------------------------------------------------
(* The reference count is exact: it is the number of references the owner, *)
(* the queue, the manager, the Subscribers, the timer and the sessions     *)
(* still have to give up, and the object lives as long as it is positive.  *)
THEOREM CountExact == Spec => []RefCountExact
<1>1. Accounted => RefCountExact
  BY DEF Accounted, Core, Counted, Alive, RefCountExact
<1> QED
  BY Accounting, <1>1, PTL

(* A deleted CpiSubscription is out of reach: no sid, no entry in the map  *)
(* or among the pending adds, and no timer that could still call it.       *)
THEOREM DeletedIsGone == Spec => []DestroyedIsUnreachable
<1>1. Accounted /\ ~asserted => DestroyedIsUnreachable
  <2> SUFFICES ASSUME IInv, Core, NEW s \in Subs
               PROVE  /\ life[s] \in {"dying", "dead"} =>
                           iSid[s] = 0 /\ Mapped(s) = {} /\ s \notin iPending
                      /\ life[s] = "dead" => timerSub # s /\ ~timer[s]
    BY DEF Accounted, DestroyedIsUnreachable
  <2>1. life[s] \in {"dying", "dead"} => iRefCount[s] = 0
    BY DEF Core, Alive
  <2>2. life[s] \in {"dying", "dead"} =>
          iSid[s] = 0 /\ Mapped(s) = {} /\ s \notin iPending
    BY <2>1, Unreferenced
  <2>3. life[s] = "dead" => timerSub # s /\ ~timer[s]
    BY DEF Core, DeadTimer
  <2> QED
    BY <2>2, <2>3
<1>2. Accounted /\ DestroyedIsUnreachable /\ [Next]_vars /\ asserted' => DestroyedIsUnreachable'
  <2> SUFFICES ASSUME Accounted, DestroyedIsUnreachable, [Next]_vars, asserted'
               PROVE  DestroyedIsUnreachable'
    OBVIOUS
  <2>1. /\ UNCHANGED <<life, iSid, iMap, iPending, timer>>
        /\ timerSub' \in {timerSub, None}
    <3>1. CASE Step
      BY <3>1, AssertingStep
    <3>2. CASE UNCHANGED vars
      BY <3>2 DEF vars, objVars, sidVars, timerVars
    <3> QED
      BY <3>1, <3>2 DEF Next
  <2> QED
    BY <2>1, NoneAssumption DEF DestroyedIsUnreachable, Mapped
<1>3. Init => ~asserted
  BY DEF Init
<1> QED
  BY Accounting, <1>1, <1>2, <1>3, PTL DEF Spec

(* ~CpiSubscriptionManager blocks until all subscriptions have been        *)
(* deleted: behind it there is no queue entry, no map entry, no sid and no *)
(* object.                                                                 *)
THEOREM ShutdownDrains == Spec => []DrainedAtShutdown
<1>1. Accounted /\ ~asserted => DrainedAtShutdown
  <2> SUFFICES ASSUME IInv, Core, mainPc = "down"
               PROVE  /\ iList = <<>> /\ iMap = {}
                      /\ \A s \in Subs : iSid[s] = 0 /\ life[s] \in {"none", "dead"}
    BY DEF Accounted, DrainedAtShutdown
  <2>1. /\ \A s \in Subs : clientPc[s] \in {"none", "gone"} /\ life[s] # "dying"
        /\ iList = <<>> /\ mgrSub = None
        /\ \A t \in Threads : subPc[t] = "idle" /\ subOf[t] = None
        /\ \A e \in Sessions : evSub[e] = None
    BY DEF Core, Shutdown, IInv, ThreadShape
  <2>2. ASSUME NEW s \in Subs
        PROVE  iRefCount[s] = 0
    <3>1. OwnerRefs(s) = 0 /\ ManagerRefs(s) = 0
      BY <2>1, NoneAssumption DEF OwnerRefs, ManagerRefs
    <3>2. QueueRefs(s) = 0 /\ ThreadRefs(s) = 0 /\ SessionRefs(s) = 0
      <4>1. /\ \A i \in 1..Len(iList) : iList[i] # s
            /\ \A t \in Threads : subOf[t] # s
            /\ \A e \in Sessions : evSub[e] # s
        BY <2>1, NoneAssumption
      <4> QED
        BY <4>1, RefTypes
    <3>3. ThreadPushes(s) = 0 /\ SessionPushes(s) = 0
      BY <3>2, RefTypes
    <3>4. TimerRefs(s) = 0
      <4> SUFFICES ASSUME timerPc = "push", timerSub = s
                   PROVE  FALSE
        BY DEF TimerRefs
      <4>1. clientPc[s] # "none"
        BY DEF IInv, Unborn
      <4>2. iRejectFutureOperations[s] /\ clientPc[s] = "gone"
        BY <2>1, <4>1 DEF Core, Rejects, Left
      <4>3. iPendingOperation[s] = "eUnsubscribe"
        BY <2>1, <4>2 DEF Core, TimerPushes
      <4>4. Queued(s)
        BY <4>2, <4>3 DEF Core, UnsubscribeQueued
      <4> QED
        BY <2>1, <4>2, <4>4, NoneAssumption DEF Queued
    <3>5. Holders(s) = OwnerRefs(s) + QueueRefs(s) + ManagerRefs(s) + ThreadRefs(s)
                         + ThreadPushes(s) + TimerRefs(s) + SessionRefs(s) + SessionPushes(s)
      BY HoldersSum, Zenon
    <3>6. Holders(s) = 0
      BY <3>1, <3>2, <3>3, <3>4, <3>5
    <3> QED
      BY <3>6 DEF Core, Counted
  <2>3. \A s \in Subs : iSid[s] = 0 /\ Mapped(s) = {} /\ life[s] \in {"none", "dead"}
    BY <2>1, <2>2, Unreferenced DEF Core, Alive
  <2>4. iMap = {}
    BY <2>3 DEF IInv, TypeOK, TypeSid, Mapped
  <2> QED
    BY <2>1, <2>3, <2>4
<1>2. /\ Accounted /\ DestroyedIsUnreachable /\ DrainedAtShutdown /\ [Next]_vars /\ asserted'
      => DrainedAtShutdown'
  <2> SUFFICES ASSUME Accounted, DestroyedIsUnreachable, DrainedAtShutdown, [Next]_vars, asserted'
               PROVE  DrainedAtShutdown'
    OBVIOUS
  <2>1. UNCHANGED <<life, iSid, iMap, mainPc, iList>>
    <3>1. CASE Step
      BY <3>1, AssertingStep
    <3>2. CASE UNCHANGED vars
      BY <3>2 DEF vars, objVars, sidVars, stackVars
    <3> QED
      BY <3>1, <3>2 DEF Next
  <2> QED
    BY <2>1 DEF DrainedAtShutdown
<1>3. Init => ~asserted
  BY DEF Init
<1> QED
  BY Accounting, DeletedIsGone, <1>1, <1>2, <1>3, PTL DEF Spec

=============================================================================
