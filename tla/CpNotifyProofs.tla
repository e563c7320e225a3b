--------------------------- MODULE CpNotifyProofs ---------------------------
(***************************************************************************)
(* For a pool of any number of sessions, with timeouts, renewals and       *)
(* changes of the network interface: no session is forgotten on the        *)
(* semaphore of the pending adds; a NOTIFY that was early is refused only  *)
(* by a session that did not wait long enough for just that add; and every *)
(* notification a subscription has counted reaches its client, unless an   *)
(* error was reported.                                                     *)
(***************************************************************************)
EXTENDS CpNotify, Counting

(* The publisher waits for an answer until the session writes one; a       *)
(* session that has found its subscription may use it from then on.        *)
BeforeAnswer == {"find", "check", "wait", "findAgain", "compare", "increment",
                 "mismatch", "respond"}
Using == {"compare", "increment", "mismatch", "body", "update", "failed"}

(* Adds are pending exactly while a Subscriber waits for the publisher.    *)
Pending == \A s \in Subs : s \in iPending <=> opPc[s] \in {"request", "reply"}

(* While a subscription is being made it has no sid, and it is only made   *)
(* when it has none.                                                       *)
Empty == \A s \in Subs :
  /\ iPendingOperation[s] = "eSubscribe" => opPc[s] = "rest" /\ iSid[s] = 0
  /\ opPc[s] \in {"subscribe", "request", "reply", "resubscribe"} => iSid[s] = 0

(* Notifications are sent under granted sids only, one at a time.          *)
Open ==
  /\ \A e \in Sessions : evPc[e] # "idle" =>
       evMsg[e].sid \in Sids /\ evMsg[e].sid <= granted[evMsg[e].sub]
  /\ \A e \in Sessions : evPc[e] \in BeforeAnswer =>
       nextSeq[evMsg[e].sub][evMsg[e].sid] < MaxSeq
  /\ \A e, f \in Sessions :
       e # f /\ evPc[e] \in BeforeAnswer /\ evPc[f] \in BeforeAnswer
         => evMsg[e].sub # evMsg[f].sub \/ evMsg[e].sid # evMsg[f].sid

(* A session that has a subscription has one whose reply was read.         *)
Held == \A e \in Sessions :
  /\ evPc[e] \in Using => ~Early(e)
  /\ evPc[e] = "respond" /\ evSub[e] => ~Early(e)
  /\ evPc[e] \in {"find", "check", "wait", "findAgain", "idle"} => ~evSub[e]
  /\ evPc[e] \in Using => evSub[e]

(* A session that looks again for a subscription whose reply has not been  *)
(* read has waited for that very add.                                      *)
EarlyWaits == \A e \in Sessions :
  evPc[e] \in {"wait", "findAgain"} /\ Early(e) => evMsg[e].sub \in awaits[e]

(* Number k of s was given to the client, or a session still holds it.     *)
Accounted(s, k) == k \in got[s] \/ \E e \in Sessions : Holds(e, s, k)

(* A session about to increment has its number to add to those accounted   *)
(* for: the count may have been reset since it compared, but never passed  *)
(* it.                                                                     *)
Counts == \A s \in Subs :
  /\ granted[s] = 0 => iNextSequenceNumber[s] = 0
  /\ granted[s] = 1 =>
       \A e \in Sessions : evPc[e] = "increment" /\ evMsg[e].sub = s =>
         iNextSequenceNumber[s] <= evMsg[e].seq
  /\ granted[s] = 1 /\ ~reported[s] =>
       /\ \A k \in Nat : k < iNextSequenceNumber[s] => Accounted(s, k)
       /\ \A e \in Sessions : evPc[e] = "increment" /\ evMsg[e].sub = s =>
            \A k \in Nat : k < evMsg[e].seq => Accounted(s, k)

IInv == /\ TypeOK /\ NoWaiterForgotten /\ Pending /\ Empty /\ Open /\ Held
        /\ EarlyWaits /\ EarlyNotifyAccepted /\ Counts

-----------------------------------------------------------------------------
(* The steps                                                               *)

(* What the steps need of the types.                                       *)
Places ==
  /\ opPc \in [Subs -> {"rest", "subscribe", "request", "reply", "renew",
                        "unsubscribe", "resubscribe"}]
  /\ granted \in [Subs -> 0..MaxSid] /\ iSid \in [Subs -> 0..MaxSid]
  /\ iMap \subseteq Subs /\ iPending \subseteq Subs
  /\ iPendingOperation \in
       [Subs -> {"eNone", "eSubscribe", "eRenew", "eResubscribe"}]
  /\ evPc \in [Sessions -> {"idle", "find", "check", "wait", "findAgain", "compare",
                            "increment", "mismatch", "respond", "body", "update",
                            "failed"}]
  /\ evMsg \in [Sessions -> [sub : Subs, sid : 0..MaxSid, seq : 0..MaxSeq]]
  /\ evSub \in [Sessions -> BOOLEAN]
Rest ==
  /\ iWaiters \in Nat /\ iWaiter \in Nat
  /\ iNextSequenceNumber \in [Subs -> Nat]
  /\ ifPc \in {"idle", "delete"} /\ ifChanges \in 0..MaxIfChanges
  /\ awaits \in [Sessions -> SUBSET Subs]
  /\ timedOut \in [Sessions -> BOOLEAN]
  /\ got \in [Subs -> SUBSET Nat] /\ reported \in [Subs -> BOOLEAN]
  /\ iTimer \in [Subs -> BOOLEAN]
  /\ value \in [Subs -> (0..MaxSid) \X (0..MaxSeq)]
Posts == nextSeq \in [Subs -> [Sids -> 0..MaxSeq]]

LEMMA Parts ==
  /\ TypeOK <=> Places /\ Rest /\ Posts
  /\ TypeOK' <=> Places' /\ Rest' /\ Posts'
  /\ IInv => /\ Places /\ Rest /\ Posts /\ NoWaiterForgotten /\ Pending /\ Empty
             /\ Open /\ Held /\ EarlyWaits /\ EarlyNotifyAccepted /\ Counts
BY DEF TypeOK, Places, Rest, Posts, IInv

(* The message of the session that chooses none.                           *)
LEMMA Messages ==
  ASSUME Posts
  PROVE  /\ NoMsg \in [sub : Subs, sid : 0..MaxSid, seq : 0..MaxSeq]
         /\ \A s \in Subs, n \in Sids : [sub |-> s, sid |-> n, seq |-> nextSeq[s][n]] \in
              [sub : Subs, sid : 0..MaxSid, seq : 0..MaxSeq]
BY PoolAssumption, NotifyBoundAssumption DEF NoMsg, Posts, Sids

(* What a session knows while the publisher waits for its answer.          *)
LEMMA Sessioned ==
  ASSUME IInv, NEW e \in Sessions, evPc[e] # "idle"
  PROVE  /\ evMsg[e].sub \in Subs /\ evMsg[e].sid \in Sids /\ evMsg[e].seq \in 0..MaxSeq
         /\ granted[evMsg[e].sub] > 0
BY Parts, NotifyBoundAssumption DEF Places, Open, Sids

LEMMA WaitersFinite == IsFiniteSet(Waiting) /\ Cardinality(Waiting) \in Nat
<1>1. IsFiniteSet(Waiting)
  BY PoolAssumption, FS_Subset DEF Waiting
<1> QED
  BY <1>1, FS_CardinalityType

(* One session's move, and what it does to the number of those that wait.  *)
LEMMA WaitingStep ==
  ASSUME Places, NEW e \in Sessions, NEW l, EvGoto(e, l)
  PROVE  Cardinality(Waiting') = Cardinality(Waiting) + (IF l = "wait" THEN 1 ELSE 0)
                                   - (IF evPc[e] = "wait" THEN 1 ELSE 0)
<1>1. Waiting \ {e} = Waiting' \ {e} /\ (e \in Waiting <=> evPc[e] = "wait")
      /\ (e \in Waiting' <=> l = "wait")
  BY DEF Places, EvGoto, Waiting
<1> QED
  BY <1>1, WaitersFinite, CardinalityStep

(* A session that only moves on leaves what is known of the others.        *)
LEMMA OpenMove ==
  ASSUME Places, Open, NEW e \in Sessions, NEW l, EvGoto(e, l),
         UNCHANGED <<granted, nextSeq, evMsg>>, evPc[e] # "idle",
         l \in BeforeAnswer => evPc[e] \in BeforeAnswer
  PROVE  Open'
<1>1. evPc'[e] = l /\ \A f \in Sessions : f # e => evPc'[f] = evPc[f]
  BY DEF Places, EvGoto
<1> QED
  BY <1>1 DEF Open

(* What happens elsewhere leaves what is accounted for.                    *)
LEMMA AccountedStays ==
  ASSUME UNCHANGED <<evPc, evMsg, evSub, got>>
  PROVE  \A s, k : Accounted(s, k)' <=> Accounted(s, k)
BY DEF Accounted, Holds

(* A session that does not begin to increment, and gives nothing away that *)
(* is not delivered or reported, leaves the counts right.                  *)
LEMMA CountsMove ==
  ASSUME Counts, NEW e \in Sessions, UNCHANGED <<granted, iNextSequenceNumber>>,
         \A f \in Sessions : f # e => /\ evPc'[f] = evPc[f] /\ evMsg'[f] = evMsg[f]
                                      /\ evSub'[f] = evSub[f],
         evPc'[e] # "increment",
         \A s \in Subs : /\ reported[s] => reported'[s]
                         /\ got[s] \subseteq got'[s],
         \A s \in Subs, k \in Nat :
           granted[s] = 1 /\ ~reported'[s] /\ Holds(e, s, k)
             => k \in got'[s] \/ Holds(e, s, k)'
  PROVE  Counts'
<1>1. ASSUME NEW s \in Subs, NEW k \in Nat, granted[s] = 1, ~reported'[s],
             Accounted(s, k)
      PROVE  Accounted(s, k)'
  <2>1. \A f \in Sessions : f # e /\ Holds(f, s, k) => Holds(f, s, k)'
    BY DEF Holds
  <2> QED
    BY <1>1, <2>1 DEF Accounted
<1>2. \A f \in Sessions : evPc'[f] = "increment" =>
        f # e /\ evPc[f] = "increment" /\ evMsg'[f] = evMsg[f]
  OBVIOUS
<1> QED
  BY <1>1, <1>2 DEF Counts

LEMMA PlacesNext ==
  ASSUME IInv, [Next]_vars
  PROVE  Places'
<1> USE DEF opVars, slotVars, waitVars, evVars, ifVars, cliVars
<1>0. Places /\ Posts
  BY Parts DEF IInv
<1>1. ASSUME NEW s \in Subs, TakeOperation(s)
      PROVE  Places'
  BY <1>0, <1>1 DEF TakeOperation, OpGoto, Schedule, Places
<1>2. ASSUME NEW s \in Subs, SubscribeBegin(s)
      PROVE  Places'
  BY <1>0, <1>2 DEF SubscribeBegin, OpGoto, NotifyAddPending, Places
<1>3. ASSUME NEW s \in Subs, Grant(s)
      PROVE  Places'
  BY <1>0, <1>3, NotifyBoundAssumption DEF Grant, OpGoto, Places, Sids
<1>4. ASSUME NEW s \in Subs, Add(s)
      PROVE  Places'
  BY <1>0, <1>4, NotifyBoundAssumption DEF Add, OpGoto, RemovePendingAdd,
     SignalWaiters, Places, Sids
<1>5. ASSUME NEW s \in Subs, Abort(s)
      PROVE  Places'
  BY <1>0, <1>5 DEF Abort, OpGoto, RemovePendingAdd, SignalWaiters, Places
<1>6. ASSUME NEW s \in Subs, Renew(s)
      PROVE  Places'
  BY <1>0, <1>6 DEF Renew, Schedule, Places
<1>7. ASSUME NEW s \in Subs, DoRenew(s)
      PROVE  Places'
  BY <1>0, <1>7 DEF DoRenew, OpGoto, Schedule, Places
<1>8. ASSUME NEW s \in Subs, DoUnsubscribe(s)
      PROVE  Places'
  BY <1>0, <1>8, NotifyBoundAssumption DEF DoUnsubscribe, OpGoto, Places, Sids
<1>9. ASSUME NEW s \in Subs, Resubscribe(s)
      PROVE  Places'
  BY <1>0, <1>9 DEF Resubscribe, OpGoto, Schedule, Places
<1>10. ASSUME NEW s \in Subs, NEW n \in Sids, Lose(s, n)
      PROVE  Places'
  BY <1>0, <1>10 DEF Lose, Sends, Unanswered, Places
<1>11. ASSUME NEW e \in Sessions, NEW s \in Subs, NEW n \in Sids, Accept(e, s, n)
      PROVE  Places'
  BY <1>0, <1>11, NotifyBoundAssumption, Messages DEF Accept, Sends, Unanswered,
     EvGoto, Places, Sids
<1>12. ASSUME NEW e \in Sessions, Find(e)
      PROVE  Places'
  BY <1>0, <1>12 DEF Find, EvGoto, Found, Places
<1>13. ASSUME NEW e \in Sessions, WaitForPendingAdds(e)
      PROVE  Places'
  BY <1>0, <1>13 DEF WaitForPendingAdds, EvGoto, Places
<1>14. ASSUME NEW e \in Sessions, Wake(e)
      PROVE  Places'
  BY <1>0, <1>14 DEF Wake, EvGoto, Places
<1>15. ASSUME NEW e \in Sessions, Compare(e)
      PROVE  Places'
  BY <1>0, <1>15 DEF Compare, EvGoto, Places
<1>16. ASSUME NEW e \in Sessions, Increment(e)
      PROVE  Places'
  BY <1>0, <1>16 DEF Increment, EvGoto, Places
<1>17. ASSUME NEW e \in Sessions, NotificationError(e)
      PROVE  Places'
  BY <1>0, <1>17, NotifyBoundAssumption, Messages DEF NotificationError, Schedule,
     EvGoto, EvEnd, Places, Sids
<1>18. ASSUME NEW e \in Sessions, Respond(e)
      PROVE  Places'
  BY <1>0, <1>18, NotifyBoundAssumption, Messages DEF Respond, EvGoto, EvEnd,
     Places, Sids
<1>19. ASSUME NEW e \in Sessions, ReadBody(e)
      PROVE  Places'
  BY <1>0, <1>19 DEF ReadBody, EvGoto, Places
<1>20. ASSUME NEW e \in Sessions, Update(e)
      PROVE  Places'
  BY <1>0, <1>20, NotifyBoundAssumption, Messages DEF Update, EvGoto, EvEnd,
     Places, Sids
<1>21. ASSUME NEW e \in Sessions, WaitTimeout(e)
      PROVE  Places'
  BY <1>0, <1>21 DEF WaitTimeout, EvGoto, Places
<1>22. ASSUME InterfaceChange
      PROVE  Places'
  BY <1>0, <1>22 DEF InterfaceChange, Places
<1>23. ASSUME EventServerRecreated
      PROVE  Places'
  BY <1>0, <1>23 DEF EventServerRecreated, Places
<1>24. ASSUME UNCHANGED vars
      PROVE  Places'
  BY <1>0, <1>24 DEF vars, Places
<1> QED
  BY <1>1, <1>2, <1>3, <1>4, <1>5, <1>6, <1>7, <1>8, <1>9, <1>10, <1>11,
     <1>12, <1>13, <1>14, <1>15, <1>16, <1>17, <1>18, <1>19, <1>20, <1>21,
     <1>22, <1>23, <1>24 DEF Next, OpStep, SessionStep

LEMMA PostsNext ==
  ASSUME IInv, [Next]_vars
  PROVE  Posts'
<1> USE DEF opVars, slotVars, waitVars, evVars, ifVars, cliVars
<1>0. Places /\ Posts /\ Open
  BY Parts DEF IInv
<1>1. ASSUME NEW s \in Subs, TakeOperation(s)
      PROVE  Posts'
  BY <1>0, <1>1 DEF TakeOperation, OpGoto, Schedule, Posts
<1>2. ASSUME NEW s \in Subs, SubscribeBegin(s)
      PROVE  Posts'
  BY <1>0, <1>2 DEF SubscribeBegin, OpGoto, NotifyAddPending, Posts
<1>3. ASSUME NEW s \in Subs, Grant(s)
      PROVE  Posts'
  BY <1>0, <1>3 DEF Grant, OpGoto, Posts
<1>4. ASSUME NEW s \in Subs, Add(s)
      PROVE  Posts'
  BY <1>0, <1>4 DEF Add, OpGoto, RemovePendingAdd, SignalWaiters, Posts
<1>5. ASSUME NEW s \in Subs, Abort(s)
      PROVE  Posts'
  BY <1>0, <1>5 DEF Abort, OpGoto, RemovePendingAdd, SignalWaiters, Posts
<1>6. ASSUME NEW s \in Subs, Renew(s)
      PROVE  Posts'
  BY <1>0, <1>6 DEF Renew, Schedule, Posts
<1>7. ASSUME NEW s \in Subs, DoRenew(s)
      PROVE  Posts'
  BY <1>0, <1>7 DEF DoRenew, OpGoto, Schedule, Posts
<1>8. ASSUME NEW s \in Subs, DoUnsubscribe(s)
      PROVE  Posts'
  BY <1>0, <1>8 DEF DoUnsubscribe, OpGoto, Posts
<1>9. ASSUME NEW s \in Subs, Resubscribe(s)
      PROVE  Posts'
  BY <1>0, <1>9 DEF Resubscribe, OpGoto, Schedule, Posts
<1>10. ASSUME NEW s \in Subs, NEW n \in Sids, Lose(s, n)
      PROVE  Posts'
  <2>1. nextSeq[s][n] \in 0..MaxSeq /\ nextSeq[s][n] < MaxSeq
    BY <1>0, <1>10 DEF Lose, Sends, Posts
  <2>2. nextSeq[s][n] + 1 \in 0..MaxSeq
    BY <2>1, NotifyBoundAssumption
  <2>3. nextSeq' = [nextSeq EXCEPT ![s][n] = @ + 1]
    BY <1>10 DEF Lose
  <2> QED
    BY <1>0, <2>2, <2>3 DEF Posts
<1>11. ASSUME NEW e \in Sessions, NEW s \in Subs, NEW n \in Sids, Accept(e, s, n)
      PROVE  Posts'
  BY <1>0, <1>11 DEF Accept, Sends, Unanswered, EvGoto, Posts
<1>12. ASSUME NEW e \in Sessions, Find(e)
      PROVE  Posts'
  BY <1>0, <1>12 DEF Find, EvGoto, Found, Posts
<1>13. ASSUME NEW e \in Sessions, WaitForPendingAdds(e)
      PROVE  Posts'
  BY <1>0, <1>13 DEF WaitForPendingAdds, EvGoto, Posts
<1>14. ASSUME NEW e \in Sessions, Wake(e)
      PROVE  Posts'
  BY <1>0, <1>14 DEF Wake, EvGoto, Posts
<1>15. ASSUME NEW e \in Sessions, Compare(e)
      PROVE  Posts'
  BY <1>0, <1>15 DEF Compare, EvGoto, Posts
<1>16. ASSUME NEW e \in Sessions, Increment(e)
      PROVE  Posts'
  BY <1>0, <1>16 DEF Increment, EvGoto, Posts
<1>17. ASSUME NEW e \in Sessions, NotificationError(e)
      PROVE  Posts'
  BY <1>0, <1>17 DEF NotificationError, Schedule, EvGoto, EvEnd, Posts
<1>18. ASSUME NEW e \in Sessions, Respond(e)
      PROVE  Posts'
  <2> DEFINE s == evMsg[e].sub  n == evMsg[e].sid
  <2>1. s \in Subs /\ n \in Sids
    BY <1>18, Sessioned DEF Respond
  <2>2. nextSeq[s][n] \in 0..MaxSeq /\ nextSeq[s][n] < MaxSeq
    BY <1>0, <1>18, <2>1 DEF Respond, Posts, Open, BeforeAnswer
  <2>3. nextSeq[s][n] + 1 \in 0..MaxSeq
    BY <2>2, NotifyBoundAssumption
  <2>4. nextSeq' = [nextSeq EXCEPT ![s][n] = @ + 1]
    BY <1>18 DEF Respond
  <2> QED
    BY <1>0, <2>1, <2>3, <2>4 DEF Posts
<1>19. ASSUME NEW e \in Sessions, ReadBody(e)
      PROVE  Posts'
  BY <1>0, <1>19 DEF ReadBody, EvGoto, Posts
<1>20. ASSUME NEW e \in Sessions, Update(e)
      PROVE  Posts'
  BY <1>0, <1>20 DEF Update, EvGoto, EvEnd, Posts
<1>21. ASSUME NEW e \in Sessions, WaitTimeout(e)
      PROVE  Posts'
  BY <1>0, <1>21 DEF WaitTimeout, EvGoto, Posts
<1>22. ASSUME InterfaceChange
      PROVE  Posts'
  BY <1>0, <1>22 DEF InterfaceChange, Posts
<1>23. ASSUME EventServerRecreated
      PROVE  Posts'
  BY <1>0, <1>23 DEF EventServerRecreated, Posts
<1>24. ASSUME UNCHANGED vars
      PROVE  Posts'
  BY <1>0, <1>24 DEF vars, Posts
<1> QED
  BY <1>1, <1>2, <1>3, <1>4, <1>5, <1>6, <1>7, <1>8, <1>9, <1>10, <1>11,
     <1>12, <1>13, <1>14, <1>15, <1>16, <1>17, <1>18, <1>19, <1>20, <1>21,
     <1>22, <1>23, <1>24 DEF Next, OpStep, SessionStep

LEMMA RestNext ==
  ASSUME IInv, [Next]_vars
  PROVE  Rest'
<1> USE DEF opVars, slotVars, waitVars, evVars, ifVars, cliVars
<1>0. Places /\ Rest
  BY Parts DEF IInv
<1>1. ASSUME NEW s \in Subs, TakeOperation(s)
      PROVE  Rest'
  BY <1>0, <1>1, NotifyBoundAssumption DEF TakeOperation, OpGoto, Schedule,
     Places, Rest
<1>2. ASSUME NEW s \in Subs, SubscribeBegin(s)
      PROVE  Rest'
  BY <1>0, <1>2, NotifyBoundAssumption DEF SubscribeBegin, OpGoto,
     NotifyAddPending, Places, Rest
<1>3. ASSUME NEW s \in Subs, Grant(s)
      PROVE  Rest'
  BY <1>0, <1>3, NotifyBoundAssumption DEF Grant, OpGoto, Places, Rest
<1>4. ASSUME NEW s \in Subs, Add(s)
      PROVE  Rest'
  BY <1>0, <1>4, NotifyBoundAssumption DEF Add, OpGoto, RemovePendingAdd,
     SignalWaiters, Places, Rest
<1>5. ASSUME NEW s \in Subs, Abort(s)
      PROVE  Rest'
  BY <1>0, <1>5, NotifyBoundAssumption DEF Abort, OpGoto, RemovePendingAdd,
     SignalWaiters, Places, Rest
<1>6. ASSUME NEW s \in Subs, Renew(s)
      PROVE  Rest'
  BY <1>0, <1>6, NotifyBoundAssumption DEF Renew, Schedule, Places, Rest
<1>7. ASSUME NEW s \in Subs, DoRenew(s)
      PROVE  Rest'
  BY <1>0, <1>7, NotifyBoundAssumption DEF DoRenew, OpGoto, Schedule, Places,
     Rest
<1>8. ASSUME NEW s \in Subs, DoUnsubscribe(s)
      PROVE  Rest'
  BY <1>0, <1>8, NotifyBoundAssumption DEF DoUnsubscribe, OpGoto, Places, Rest
<1>9. ASSUME NEW s \in Subs, Resubscribe(s)
      PROVE  Rest'
  BY <1>0, <1>9, NotifyBoundAssumption DEF Resubscribe, OpGoto, Schedule,
     Places, Rest
<1>10. ASSUME NEW s \in Subs, NEW n \in Sids, Lose(s, n)
      PROVE  Rest'
  BY <1>0, <1>10, NotifyBoundAssumption DEF Lose, Sends, Unanswered, Places,
     Rest
<1>11. ASSUME NEW e \in Sessions, NEW s \in Subs, NEW n \in Sids, Accept(e, s, n)
      PROVE  Rest'
  BY <1>0, <1>11, NotifyBoundAssumption DEF Accept, Sends, Unanswered, EvGoto,
     Places, Rest
<1>12. ASSUME NEW e \in Sessions, Find(e)
      PROVE  Rest'
  BY <1>0, <1>12, NotifyBoundAssumption DEF Find, EvGoto, Found, Places, Rest
<1>13. ASSUME NEW e \in Sessions, WaitForPendingAdds(e)
      PROVE  Rest'
  BY <1>0, <1>13, NotifyBoundAssumption DEF WaitForPendingAdds, EvGoto,
     Places, Rest
<1>14. ASSUME NEW e \in Sessions, Wake(e)
      PROVE  Rest'
  BY <1>0, <1>14, NotifyBoundAssumption DEF Wake, EvGoto, Places, Rest
<1>15. ASSUME NEW e \in Sessions, Compare(e)
      PROVE  Rest'
  BY <1>0, <1>15, NotifyBoundAssumption DEF Compare, EvGoto, Places, Rest
<1>16. ASSUME NEW e \in Sessions, Increment(e)
      PROVE  Rest'
  BY <1>0, <1>16, NotifyBoundAssumption DEF Increment, EvGoto, Places, Rest
<1>17. ASSUME NEW e \in Sessions, NotificationError(e)
      PROVE  Rest'
  BY <1>0, <1>17, NotifyBoundAssumption DEF NotificationError, Schedule,
     EvGoto, EvEnd, Places, Rest
<1>18. ASSUME NEW e \in Sessions, Respond(e)
      PROVE  Rest'
  BY <1>0, <1>18, NotifyBoundAssumption DEF Respond, EvGoto, EvEnd, Places,
     Rest
<1>19. ASSUME NEW e \in Sessions, ReadBody(e)
      PROVE  Rest'
  BY <1>0, <1>19, NotifyBoundAssumption DEF ReadBody, EvGoto, Places, Rest
<1>20. ASSUME NEW e \in Sessions, Update(e)
      PROVE  Rest'
  BY <1>0, <1>20, NotifyBoundAssumption DEF Update, EvGoto, EvEnd, Places,
     Rest
<1>21. ASSUME NEW e \in Sessions, WaitTimeout(e)
      PROVE  Rest'
  BY <1>0, <1>21, NotifyBoundAssumption DEF WaitTimeout, EvGoto, Places, Rest
<1>22. ASSUME InterfaceChange
      PROVE  Rest'
  BY <1>0, <1>22, NotifyBoundAssumption DEF InterfaceChange, Places, Rest
<1>23. ASSUME EventServerRecreated
      PROVE  Rest'
  BY <1>0, <1>23, NotifyBoundAssumption DEF EventServerRecreated, Places, Rest
<1>24. ASSUME UNCHANGED vars
      PROVE  Rest'
  BY <1>0, <1>24, NotifyBoundAssumption DEF vars, Places, Rest
<1> QED
  BY <1>1, <1>2, <1>3, <1>4, <1>5, <1>6, <1>7, <1>8, <1>9, <1>10, <1>11,
     <1>12, <1>13, <1>14, <1>15, <1>16, <1>17, <1>18, <1>19, <1>20, <1>21,
     <1>22, <1>23, <1>24 DEF Next, OpStep, SessionStep

LEMMA PendingNext ==
  ASSUME IInv, [Next]_vars
  PROVE  Pending'
<1> USE DEF opVars, slotVars, waitVars, evVars, ifVars, cliVars
<1>0. Places /\ Pending
  BY Parts DEF IInv
<1>1. ASSUME NEW s \in Subs, TakeOperation(s)
      PROVE  Pending'
  BY <1>0, <1>1 DEF TakeOperation, OpGoto, Schedule, Places, Pending
<1>2. ASSUME NEW s \in Subs, SubscribeBegin(s)
      PROVE  Pending'
  BY <1>0, <1>2 DEF SubscribeBegin, OpGoto, NotifyAddPending, Places, Pending
<1>3. ASSUME NEW s \in Subs, Grant(s)
      PROVE  Pending'
  BY <1>0, <1>3 DEF Grant, OpGoto, Places, Pending
<1>4. ASSUME NEW s \in Subs, Add(s)
      PROVE  Pending'
  BY <1>0, <1>4 DEF Add, OpGoto, RemovePendingAdd, SignalWaiters, Places,
     Pending
<1>5. ASSUME NEW s \in Subs, Abort(s)
      PROVE  Pending'
  BY <1>0, <1>5 DEF Abort, OpGoto, RemovePendingAdd, SignalWaiters, Places,
     Pending
<1>6. ASSUME NEW s \in Subs, Renew(s)
      PROVE  Pending'
  BY <1>0, <1>6 DEF Renew, Schedule, Places, Pending
<1>7. ASSUME NEW s \in Subs, DoRenew(s)
      PROVE  Pending'
  BY <1>0, <1>7 DEF DoRenew, OpGoto, Schedule, Places, Pending
<1>8. ASSUME NEW s \in Subs, DoUnsubscribe(s)
      PROVE  Pending'
  BY <1>0, <1>8 DEF DoUnsubscribe, OpGoto, Places, Pending
<1>9. ASSUME NEW s \in Subs, Resubscribe(s)
      PROVE  Pending'
  BY <1>0, <1>9 DEF Resubscribe, OpGoto, Schedule, Places, Pending
<1>10. ASSUME NEW s \in Subs, NEW n \in Sids, Lose(s, n)
      PROVE  Pending'
  BY <1>0, <1>10 DEF Lose, Sends, Unanswered, Places, Pending
<1>11. ASSUME NEW e \in Sessions, NEW s \in Subs, NEW n \in Sids, Accept(e, s, n)
      PROVE  Pending'
  BY <1>0, <1>11 DEF Accept, Sends, Unanswered, EvGoto, Places, Pending
<1>12. ASSUME NEW e \in Sessions, Find(e)
      PROVE  Pending'
  BY <1>0, <1>12 DEF Find, EvGoto, Found, Places, Pending
<1>13. ASSUME NEW e \in Sessions, WaitForPendingAdds(e)
      PROVE  Pending'
  BY <1>0, <1>13 DEF WaitForPendingAdds, EvGoto, Places, Pending
<1>14. ASSUME NEW e \in Sessions, Wake(e)
      PROVE  Pending'
  BY <1>0, <1>14 DEF Wake, EvGoto, Places, Pending
<1>15. ASSUME NEW e \in Sessions, Compare(e)
      PROVE  Pending'
  BY <1>0, <1>15 DEF Compare, EvGoto, Places, Pending
<1>16. ASSUME NEW e \in Sessions, Increment(e)
      PROVE  Pending'
  BY <1>0, <1>16 DEF Increment, EvGoto, Places, Pending
<1>17. ASSUME NEW e \in Sessions, NotificationError(e)
      PROVE  Pending'
  BY <1>0, <1>17 DEF NotificationError, Schedule, EvGoto, EvEnd, Places,
     Pending
<1>18. ASSUME NEW e \in Sessions, Respond(e)
      PROVE  Pending'
  BY <1>0, <1>18 DEF Respond, EvGoto, EvEnd, Places, Pending
<1>19. ASSUME NEW e \in Sessions, ReadBody(e)
      PROVE  Pending'
  BY <1>0, <1>19 DEF ReadBody, EvGoto, Places, Pending
<1>20. ASSUME NEW e \in Sessions, Update(e)
      PROVE  Pending'
  BY <1>0, <1>20 DEF Update, EvGoto, EvEnd, Places, Pending
<1>21. ASSUME NEW e \in Sessions, WaitTimeout(e)
      PROVE  Pending'
  BY <1>0, <1>21 DEF WaitTimeout, EvGoto, Places, Pending
<1>22. ASSUME InterfaceChange
      PROVE  Pending'
  BY <1>0, <1>22 DEF InterfaceChange, Places, Pending
<1>23. ASSUME EventServerRecreated
      PROVE  Pending'
  BY <1>0, <1>23 DEF EventServerRecreated, Places, Pending
<1>24. ASSUME UNCHANGED vars
      PROVE  Pending'
  BY <1>0, <1>24 DEF vars, Places, Pending
<1> QED
  BY <1>1, <1>2, <1>3, <1>4, <1>5, <1>6, <1>7, <1>8, <1>9, <1>10, <1>11,
     <1>12, <1>13, <1>14, <1>15, <1>16, <1>17, <1>18, <1>19, <1>20, <1>21,
     <1>22, <1>23, <1>24 DEF Next, OpStep, SessionStep

LEMMA EmptyNext ==
  ASSUME IInv, [Next]_vars
  PROVE  Empty'
<1> USE DEF opVars, slotVars, waitVars, evVars, ifVars, cliVars
<1>0. Places /\ Empty
  BY Parts DEF IInv
<1>1. ASSUME NEW s \in Subs, TakeOperation(s)
      PROVE  Empty'
  BY <1>0, <1>1 DEF TakeOperation, OpGoto, Schedule, Places, Empty
<1>2. ASSUME NEW s \in Subs, SubscribeBegin(s)
      PROVE  Empty'
  BY <1>0, <1>2 DEF SubscribeBegin, OpGoto, NotifyAddPending, Places, Empty
<1>3. ASSUME NEW s \in Subs, Grant(s)
      PROVE  Empty'
  BY <1>0, <1>3 DEF Grant, OpGoto, Places, Empty
<1>4. ASSUME NEW s \in Subs, Add(s)
      PROVE  Empty'
  BY <1>0, <1>4 DEF Add, OpGoto, RemovePendingAdd, SignalWaiters, Places,
     Empty
<1>5. ASSUME NEW s \in Subs, Abort(s)
      PROVE  Empty'
  BY <1>0, <1>5 DEF Abort, OpGoto, RemovePendingAdd, SignalWaiters, Places,
     Empty
<1>6. ASSUME NEW s \in Subs, Renew(s)
      PROVE  Empty'
  BY <1>0, <1>6 DEF Renew, Schedule, Places, Empty
<1>7. ASSUME NEW s \in Subs, DoRenew(s)
      PROVE  Empty'
  BY <1>0, <1>7 DEF DoRenew, OpGoto, Schedule, Places, Empty
<1>8. ASSUME NEW s \in Subs, DoUnsubscribe(s)
      PROVE  Empty'
  BY <1>0, <1>8 DEF DoUnsubscribe, OpGoto, Places, Empty
<1>9. ASSUME NEW s \in Subs, Resubscribe(s)
      PROVE  Empty'
  BY <1>0, <1>9 DEF Resubscribe, OpGoto, Schedule, Places, Empty
<1>10. ASSUME NEW s \in Subs, NEW n \in Sids, Lose(s, n)
      PROVE  Empty'
  BY <1>0, <1>10 DEF Lose, Sends, Unanswered, Places, Empty
<1>11. ASSUME NEW e \in Sessions, NEW s \in Subs, NEW n \in Sids, Accept(e, s, n)
      PROVE  Empty'
  BY <1>0, <1>11 DEF Accept, Sends, Unanswered, EvGoto, Places, Empty
<1>12. ASSUME NEW e \in Sessions, Find(e)
      PROVE  Empty'
  BY <1>0, <1>12 DEF Find, EvGoto, Found, Places, Empty
<1>13. ASSUME NEW e \in Sessions, WaitForPendingAdds(e)
      PROVE  Empty'
  BY <1>0, <1>13 DEF WaitForPendingAdds, EvGoto, Places, Empty
<1>14. ASSUME NEW e \in Sessions, Wake(e)
      PROVE  Empty'
  BY <1>0, <1>14 DEF Wake, EvGoto, Places, Empty
<1>15. ASSUME NEW e \in Sessions, Compare(e)
      PROVE  Empty'
  BY <1>0, <1>15 DEF Compare, EvGoto, Places, Empty
<1>16. ASSUME NEW e \in Sessions, Increment(e)
      PROVE  Empty'
  BY <1>0, <1>16 DEF Increment, EvGoto, Places, Empty
<1>17. ASSUME NEW e \in Sessions, NotificationError(e)
      PROVE  Empty'
  BY <1>0, <1>17 DEF NotificationError, Schedule, EvGoto, EvEnd, Places, Empty
<1>18. ASSUME NEW e \in Sessions, Respond(e)
      PROVE  Empty'
  BY <1>0, <1>18 DEF Respond, EvGoto, EvEnd, Places, Empty
<1>19. ASSUME NEW e \in Sessions, ReadBody(e)
      PROVE  Empty'
  BY <1>0, <1>19 DEF ReadBody, EvGoto, Places, Empty
<1>20. ASSUME NEW e \in Sessions, Update(e)
      PROVE  Empty'
  BY <1>0, <1>20 DEF Update, EvGoto, EvEnd, Places, Empty
<1>21. ASSUME NEW e \in Sessions, WaitTimeout(e)
      PROVE  Empty'
  BY <1>0, <1>21 DEF WaitTimeout, EvGoto, Places, Empty
<1>22. ASSUME InterfaceChange
      PROVE  Empty'
  BY <1>0, <1>22 DEF InterfaceChange, Places, Empty
<1>23. ASSUME EventServerRecreated
      PROVE  Empty'
  BY <1>0, <1>23 DEF EventServerRecreated, Places, Empty
<1>24. ASSUME UNCHANGED vars
      PROVE  Empty'
  BY <1>0, <1>24 DEF vars, Places, Empty
<1> QED
  BY <1>1, <1>2, <1>3, <1>4, <1>5, <1>6, <1>7, <1>8, <1>9, <1>10, <1>11,
     <1>12, <1>13, <1>14, <1>15, <1>16, <1>17, <1>18, <1>19, <1>20, <1>21,
     <1>22, <1>23, <1>24 DEF Next, OpStep, SessionStep

LEMMA OpenNext ==
  ASSUME IInv, [Next]_vars
  PROVE  Open'
<1> USE DEF opVars, slotVars, waitVars, evVars, ifVars, cliVars
<1>0. Places /\ Posts /\ Open
  BY Parts DEF IInv
<1>1. ASSUME NEW s \in Subs, TakeOperation(s)
      PROVE  Open'
  BY <1>0, <1>1 DEF TakeOperation, OpGoto, Schedule, Places, Posts, Open,
     BeforeAnswer
<1>2. ASSUME NEW s \in Subs, SubscribeBegin(s)
      PROVE  Open'
  BY <1>0, <1>2 DEF SubscribeBegin, OpGoto, NotifyAddPending, Places, Posts,
     Open, BeforeAnswer
<1>3. ASSUME NEW s \in Subs, Grant(s)
      PROVE  Open'
  BY <1>0, <1>3 DEF Grant, OpGoto, Places, Posts, Open, BeforeAnswer
<1>4. ASSUME NEW s \in Subs, Add(s)
      PROVE  Open'
  BY <1>0, <1>4 DEF Add, OpGoto, RemovePendingAdd, SignalWaiters, Places,
     Posts, Open, BeforeAnswer
<1>5. ASSUME NEW s \in Subs, Abort(s)
      PROVE  Open'
  BY <1>0, <1>5 DEF Abort, OpGoto, RemovePendingAdd, SignalWaiters, Places,
     Posts, Open, BeforeAnswer
<1>6. ASSUME NEW s \in Subs, Renew(s)
      PROVE  Open'
  BY <1>0, <1>6 DEF Renew, Schedule, Places, Posts, Open, BeforeAnswer
<1>7. ASSUME NEW s \in Subs, DoRenew(s)
      PROVE  Open'
  BY <1>0, <1>7 DEF DoRenew, OpGoto, Schedule, Places, Posts, Open,
     BeforeAnswer
<1>8. ASSUME NEW s \in Subs, DoUnsubscribe(s)
      PROVE  Open'
  BY <1>0, <1>8 DEF DoUnsubscribe, OpGoto, Places, Posts, Open, BeforeAnswer
<1>9. ASSUME NEW s \in Subs, Resubscribe(s)
      PROVE  Open'
  BY <1>0, <1>9 DEF Resubscribe, OpGoto, Schedule, Places, Posts, Open,
     BeforeAnswer
<1>10. ASSUME NEW s \in Subs, NEW n \in Sids, Lose(s, n)
      PROVE  Open'
  BY <1>0, <1>10 DEF Lose, Sends, Unanswered, Places, Posts, Open,
     BeforeAnswer
<1>11. ASSUME NEW e \in Sessions, NEW s \in Subs, NEW n \in Sids, Accept(e, s, n)
      PROVE  Open'
  <2>1. /\ n <= granted[s] /\ nextSeq[s][n] < MaxSeq /\ UNCHANGED <<granted, nextSeq>>
        /\ \A f \in Sessions : evPc[f] \in BeforeAnswer =>
             evMsg[f].sub # s \/ evMsg[f].sid # n
    BY <1>0, <1>11 DEF Accept, Sends, Unanswered, Places, BeforeAnswer
  <2>2. /\ evMsg'[e].sub = s /\ evMsg'[e].sid = n
        /\ \A f \in Sessions : f # e => evMsg'[f] = evMsg[f] /\ evPc'[f] = evPc[f]
    BY <1>0, <1>11 DEF Accept, EvGoto, Places
  <2> QED
    BY <1>0, <2>1, <2>2 DEF Open
<1>12. ASSUME NEW e \in Sessions, Find(e)
      PROVE  Open'
  <2>1. /\ evPc[e] # "idle" /\ evPc[e] \in BeforeAnswer
        /\ UNCHANGED <<granted, nextSeq, evMsg>>
        /\ \E l : EvGoto(e, l)
    BY <1>12 DEF Find, BeforeAnswer
  <2> QED
    BY <1>0, <2>1, OpenMove
<1>13. ASSUME NEW e \in Sessions, WaitForPendingAdds(e)
      PROVE  Open'
  BY <1>0, <1>13 DEF WaitForPendingAdds, EvGoto, Places, Posts, Open,
     BeforeAnswer
<1>14. ASSUME NEW e \in Sessions, Wake(e)
      PROVE  Open'
  BY <1>0, <1>14 DEF Wake, EvGoto, Places, Posts, Open, BeforeAnswer
<1>15. ASSUME NEW e \in Sessions, Compare(e)
      PROVE  Open'
  BY <1>0, <1>15 DEF Compare, EvGoto, Places, Posts, Open, BeforeAnswer
<1>16. ASSUME NEW e \in Sessions, Increment(e)
      PROVE  Open'
  BY <1>0, <1>16 DEF Increment, EvGoto, Places, Posts, Open, BeforeAnswer
<1>17. ASSUME NEW e \in Sessions, NotificationError(e)
      PROVE  Open'
  <2>1. CASE evPc[e] = "mismatch"
    <3>1. /\ EvGoto(e, "respond") /\ evPc[e] \in BeforeAnswer /\ evPc[e] # "idle"
          /\ UNCHANGED <<granted, nextSeq, evMsg>>
      BY <1>17, <2>1 DEF NotificationError, BeforeAnswer
    <3> QED
      BY <1>0, <3>1, OpenMove
  <2>2. CASE evPc[e] = "failed"
    <3>1. /\ evPc'[e] = "idle" /\ "idle" \notin BeforeAnswer
          /\ UNCHANGED <<granted, nextSeq>>
          /\ \A f \in Sessions : f # e => evMsg'[f] = evMsg[f] /\ evPc'[f] = evPc[f]
      BY <1>0, <1>17, <2>2 DEF NotificationError, EvEnd, EvGoto, Places, BeforeAnswer
    <3> QED
      BY <1>0, <3>1 DEF Open
  <2> QED
    BY <1>17, <2>1, <2>2 DEF NotificationError
<1>18. ASSUME NEW e \in Sessions, Respond(e)
      PROVE  Open'
  <2>1. /\ evPc[e] = "respond" /\ evPc[e] \in BeforeAnswer /\ UNCHANGED granted
        /\ nextSeq' = [nextSeq EXCEPT ![evMsg[e].sub][evMsg[e].sid] = @ + 1]
    BY <1>18 DEF Respond, BeforeAnswer
  <2>2. /\ evPc'[e] \notin BeforeAnswer
        /\ evPc'[e] # "idle" => evMsg'[e] = evMsg[e]
        /\ \A f \in Sessions : f # e => evMsg'[f] = evMsg[f] /\ evPc'[f] = evPc[f]
    BY <1>0, <1>18 DEF Respond, EvEnd, EvGoto, Places, BeforeAnswer
  <2>3. ASSUME NEW f \in Sessions, f # e, evPc[f] \in BeforeAnswer
        PROVE  nextSeq'[evMsg[f].sub][evMsg[f].sid] = nextSeq[evMsg[f].sub][evMsg[f].sid]
    <3>1. evMsg[f].sub # evMsg[e].sub \/ evMsg[f].sid # evMsg[e].sid
      BY <1>0, <2>1, <2>3 DEF Open
    <3>2. evMsg[f].sub \in Subs /\ evMsg[f].sid \in Sids
      BY <2>3, Sessioned DEF BeforeAnswer
    <3> QED
      BY <1>0, <2>1, <3>1, <3>2 DEF Posts
  <2> QED
    BY <1>0, <2>1, <2>2, <2>3 DEF Open
<1>19. ASSUME NEW e \in Sessions, ReadBody(e)
      PROVE  Open'
  <2>1. /\ evPc[e] # "idle" /\ UNCHANGED <<granted, nextSeq, evMsg>>
        /\ \E l : l \notin BeforeAnswer /\ EvGoto(e, l)
    BY <1>19 DEF ReadBody, BeforeAnswer
  <2> QED
    BY <1>0, <2>1, OpenMove
<1>20. ASSUME NEW e \in Sessions, Update(e)
      PROVE  Open'
  BY <1>0, <1>20 DEF Update, EvGoto, EvEnd, Places, Posts, Open, BeforeAnswer
<1>21. ASSUME NEW e \in Sessions, WaitTimeout(e)
      PROVE  Open'
  BY <1>0, <1>21 DEF WaitTimeout, EvGoto, Places, Posts, Open, BeforeAnswer
<1>22. ASSUME InterfaceChange
      PROVE  Open'
  BY <1>0, <1>22 DEF InterfaceChange, Places, Posts, Open, BeforeAnswer
<1>23. ASSUME EventServerRecreated
      PROVE  Open'
  BY <1>0, <1>23 DEF EventServerRecreated, Places, Posts, Open, BeforeAnswer
<1>24. ASSUME UNCHANGED vars
      PROVE  Open'
  BY <1>0, <1>24 DEF vars, Places, Posts, Open, BeforeAnswer
<1> QED
  BY <1>1, <1>2, <1>3, <1>4, <1>5, <1>6, <1>7, <1>8, <1>9, <1>10, <1>11,
     <1>12, <1>13, <1>14, <1>15, <1>16, <1>17, <1>18, <1>19, <1>20, <1>21,
     <1>22, <1>23, <1>24 DEF Next, OpStep, SessionStep

LEMMA HeldNext ==
  ASSUME IInv, [Next]_vars
  PROVE  Held'
<1> USE DEF opVars, slotVars, waitVars, evVars, ifVars, cliVars
<1>0. Places /\ Empty /\ Open /\ Held
  BY Parts DEF IInv
<1>1. ASSUME NEW s \in Subs, TakeOperation(s)
      PROVE  Held'
  BY <1>0, <1>1 DEF TakeOperation, OpGoto, Schedule, Places, Empty, Open,
     Held, Early, Using
<1>2. ASSUME NEW s \in Subs, SubscribeBegin(s)
      PROVE  Held'
  BY <1>0, <1>2 DEF SubscribeBegin, OpGoto, NotifyAddPending, Places, Empty,
     Open, Held, Early, Using
<1>3. ASSUME NEW s \in Subs, Grant(s)
      PROVE  Held'
  BY <1>0, <1>3 DEF Grant, OpGoto, Places, Empty, Open, Held, Early, Using
<1>4. ASSUME NEW s \in Subs, Add(s)
      PROVE  Held'
  BY <1>0, <1>4 DEF Add, OpGoto, RemovePendingAdd, SignalWaiters, Places,
     Empty, Open, Held, Early, Using
<1>5. ASSUME NEW s \in Subs, Abort(s)
      PROVE  Held'
  BY <1>0, <1>5 DEF Abort, OpGoto, RemovePendingAdd, SignalWaiters, Places,
     Empty, Open, Held, Early, Using
<1>6. ASSUME NEW s \in Subs, Renew(s)
      PROVE  Held'
  BY <1>0, <1>6 DEF Renew, Schedule, Places, Empty, Open, Held, Early, Using
<1>7. ASSUME NEW s \in Subs, DoRenew(s)
      PROVE  Held'
  BY <1>0, <1>7 DEF DoRenew, OpGoto, Schedule, Places, Empty, Open, Held,
     Early, Using
<1>8. ASSUME NEW s \in Subs, DoUnsubscribe(s)
      PROVE  Held'
  BY <1>0, <1>8 DEF DoUnsubscribe, OpGoto, Places, Empty, Open, Held, Early,
     Using
<1>9. ASSUME NEW s \in Subs, Resubscribe(s)
      PROVE  Held'
  BY <1>0, <1>9 DEF Resubscribe, OpGoto, Schedule, Places, Empty, Open, Held,
     Early, Using
<1>10. ASSUME NEW s \in Subs, NEW n \in Sids, Lose(s, n)
      PROVE  Held'
  BY <1>0, <1>10 DEF Lose, Sends, Unanswered, Places, Empty, Open, Held,
     Early, Using
<1>11. ASSUME NEW e \in Sessions, NEW s \in Subs, NEW n \in Sids, Accept(e, s, n)
      PROVE  Held'
  BY <1>0, <1>11 DEF Accept, Sends, Unanswered, EvGoto, Places, Empty, Open,
     Held, Early, Using
<1>12. ASSUME NEW e \in Sessions, Find(e)
      PROVE  Held'
  <2>1. CASE Found(evMsg[e])
    <3>1. iSid[evMsg[e].sub] # 0 /\ opPc[evMsg[e].sub] # "reply"
      BY <1>0, <1>12, <2>1, Sessioned DEF Find, Found, Empty, Sids
    <3>2. /\ ~Early(e)' /\ evPc'[e] = "compare" /\ evSub'[e]
          /\ \A f \in Sessions : f # e =>
               evPc'[f] = evPc[f] /\ evSub'[f] = evSub[f] /\ (Early(f)' <=> Early(f))
      BY <1>0, <1>12, <2>1, <3>1 DEF Find, EvGoto, Places, Early
    <3> QED
      BY <1>0, <3>2 DEF Held, Using
  <2>2. CASE ~Found(evMsg[e])
    <3>1. /\ evPc'[e] \in {"check", "respond"} /\ ~evSub'[e]
          /\ \A f \in Sessions : f # e =>
               evPc'[f] = evPc[f] /\ evSub'[f] = evSub[f] /\ (Early(f)' <=> Early(f))
      BY <1>0, <1>12, <2>2 DEF Find, EvGoto, Places, Early, Held
    <3> QED
      BY <1>0, <3>1 DEF Held, Using
  <2> QED
    BY <2>1, <2>2
<1>13. ASSUME NEW e \in Sessions, WaitForPendingAdds(e)
      PROVE  Held'
  BY <1>0, <1>13 DEF WaitForPendingAdds, EvGoto, Places, Empty, Open, Held,
     Early, Using
<1>14. ASSUME NEW e \in Sessions, Wake(e)
      PROVE  Held'
  BY <1>0, <1>14 DEF Wake, EvGoto, Places, Empty, Open, Held, Early, Using
<1>15. ASSUME NEW e \in Sessions, Compare(e)
      PROVE  Held'
  BY <1>0, <1>15 DEF Compare, EvGoto, Places, Empty, Open, Held, Early, Using
<1>16. ASSUME NEW e \in Sessions, Increment(e)
      PROVE  Held'
  BY <1>0, <1>16 DEF Increment, EvGoto, Places, Empty, Open, Held, Early,
     Using
<1>17. ASSUME NEW e \in Sessions, NotificationError(e)
      PROVE  Held'
  BY <1>0, <1>17 DEF NotificationError, Schedule, EvGoto, EvEnd, Places,
     Empty, Open, Held, Early, Using
<1>18. ASSUME NEW e \in Sessions, Respond(e)
      PROVE  Held'
  BY <1>0, <1>18 DEF Respond, EvGoto, EvEnd, Places, Empty, Open, Held, Early,
     Using
<1>19. ASSUME NEW e \in Sessions, ReadBody(e)
      PROVE  Held'
  BY <1>0, <1>19 DEF ReadBody, EvGoto, Places, Empty, Open, Held, Early, Using
<1>20. ASSUME NEW e \in Sessions, Update(e)
      PROVE  Held'
  BY <1>0, <1>20 DEF Update, EvGoto, EvEnd, Places, Empty, Open, Held, Early,
     Using
<1>21. ASSUME NEW e \in Sessions, WaitTimeout(e)
      PROVE  Held'
  BY <1>0, <1>21 DEF WaitTimeout, EvGoto, Places, Empty, Open, Held, Early,
     Using
<1>22. ASSUME InterfaceChange
      PROVE  Held'
  BY <1>0, <1>22 DEF InterfaceChange, Places, Empty, Open, Held, Early, Using
<1>23. ASSUME EventServerRecreated
      PROVE  Held'
  BY <1>0, <1>23 DEF EventServerRecreated, Places, Empty, Open, Held, Early,
     Using
<1>24. ASSUME UNCHANGED vars
      PROVE  Held'
  BY <1>0, <1>24 DEF vars, Places, Empty, Open, Held, Early, Using
<1> QED
  BY <1>1, <1>2, <1>3, <1>4, <1>5, <1>6, <1>7, <1>8, <1>9, <1>10, <1>11,
     <1>12, <1>13, <1>14, <1>15, <1>16, <1>17, <1>18, <1>19, <1>20, <1>21,
     <1>22, <1>23, <1>24 DEF Next, OpStep, SessionStep

LEMMA EarlyNext ==
  ASSUME IInv, [Next]_vars
  PROVE  EarlyWaits'
<1> USE DEF opVars, slotVars, waitVars, evVars, ifVars, cliVars
<1>0. Places /\ Rest /\ Pending /\ Open /\ EarlyWaits
  BY Parts DEF IInv
<1>1. ASSUME NEW s \in Subs, TakeOperation(s)
      PROVE  EarlyWaits'
  BY <1>0, <1>1 DEF TakeOperation, OpGoto, Schedule, Places, EarlyWaits, Early
<1>2. ASSUME NEW s \in Subs, SubscribeBegin(s)
      PROVE  EarlyWaits'
  BY <1>0, <1>2 DEF SubscribeBegin, OpGoto, NotifyAddPending, Places,
     EarlyWaits, Early
<1>3. ASSUME NEW s \in Subs, Grant(s)
      PROVE  EarlyWaits'
  <2>1. \A f \in Sessions : evPc[f] # "idle" /\ Early(f)' => Early(f)
    BY <1>0, <1>3 DEF Grant, OpGoto, Places, Open, Early
  <2> QED
    BY <1>0, <1>3, <2>1 DEF Grant, EarlyWaits
<1>4. ASSUME NEW s \in Subs, Add(s)
      PROVE  EarlyWaits'
  BY <1>0, <1>4 DEF Add, OpGoto, RemovePendingAdd, SignalWaiters, Places, Rest,
     EarlyWaits, Early
<1>5. ASSUME NEW s \in Subs, Abort(s)
      PROVE  EarlyWaits'
  BY <1>0, <1>5 DEF Abort, OpGoto, RemovePendingAdd, SignalWaiters, Places, Rest,
     EarlyWaits, Early
<1>6. ASSUME NEW s \in Subs, Renew(s)
      PROVE  EarlyWaits'
  BY <1>0, <1>6 DEF Renew, Schedule, Places, EarlyWaits, Early
<1>7. ASSUME NEW s \in Subs, DoRenew(s)
      PROVE  EarlyWaits'
  BY <1>0, <1>7 DEF DoRenew, OpGoto, Schedule, Places, EarlyWaits, Early
<1>8. ASSUME NEW s \in Subs, DoUnsubscribe(s)
      PROVE  EarlyWaits'
  BY <1>0, <1>8 DEF DoUnsubscribe, OpGoto, Places, EarlyWaits, Early
<1>9. ASSUME NEW s \in Subs, Resubscribe(s)
      PROVE  EarlyWaits'
  BY <1>0, <1>9 DEF Resubscribe, OpGoto, Schedule, Places, EarlyWaits, Early
<1>10. ASSUME NEW s \in Subs, NEW n \in Sids, Lose(s, n)
      PROVE  EarlyWaits'
  BY <1>0, <1>10 DEF Lose, Sends, Unanswered, Places, EarlyWaits, Early
<1>11. ASSUME NEW e \in Sessions, NEW s \in Subs, NEW n \in Sids, Accept(e, s, n)
      PROVE  EarlyWaits'
  BY <1>0, <1>11 DEF Accept, Sends, Unanswered, EvGoto, Places, EarlyWaits,
     Early
<1>12. ASSUME NEW e \in Sessions, Find(e)
      PROVE  EarlyWaits'
  <2>1. /\ evPc'[e] \notin {"wait", "findAgain"}
        /\ \A f \in Sessions : f # e => evPc'[f] = evPc[f]
        /\ UNCHANGED <<opPc, granted, evMsg, awaits>>
    BY <1>0, <1>12 DEF Find, EvGoto, Places
  <2> QED
    BY <1>0, <2>1 DEF EarlyWaits, Early
<1>13. ASSUME NEW e \in Sessions, WaitForPendingAdds(e)
      PROVE  EarlyWaits'
  BY <1>0, <1>13 DEF WaitForPendingAdds, EvGoto, Places, Rest, Pending,
     EarlyWaits, Early
<1>14. ASSUME NEW e \in Sessions, Wake(e)
      PROVE  EarlyWaits'
  BY <1>0, <1>14 DEF Wake, EvGoto, Places, EarlyWaits, Early
<1>15. ASSUME NEW e \in Sessions, Compare(e)
      PROVE  EarlyWaits'
  BY <1>0, <1>15 DEF Compare, EvGoto, Places, EarlyWaits, Early
<1>16. ASSUME NEW e \in Sessions, Increment(e)
      PROVE  EarlyWaits'
  BY <1>0, <1>16 DEF Increment, EvGoto, Places, EarlyWaits, Early
<1>17. ASSUME NEW e \in Sessions, NotificationError(e)
      PROVE  EarlyWaits'
  <2>1. /\ evPc'[e] \notin {"wait", "findAgain"}
        /\ \A f \in Sessions : f # e => evPc'[f] = evPc[f] /\ evMsg'[f] = evMsg[f]
        /\ UNCHANGED <<opPc, granted, awaits>>
    BY <1>0, <1>17 DEF NotificationError, EvGoto, EvEnd, Places
  <2> QED
    BY <1>0, <2>1 DEF EarlyWaits, Early
<1>18. ASSUME NEW e \in Sessions, Respond(e)
      PROVE  EarlyWaits'
  BY <1>0, <1>18 DEF Respond, EvGoto, EvEnd, Places, Rest, EarlyWaits, Early
<1>19. ASSUME NEW e \in Sessions, ReadBody(e)
      PROVE  EarlyWaits'
  BY <1>0, <1>19 DEF ReadBody, EvGoto, Places, EarlyWaits, Early
<1>20. ASSUME NEW e \in Sessions, Update(e)
      PROVE  EarlyWaits'
  BY <1>0, <1>20 DEF Update, EvGoto, EvEnd, Places, EarlyWaits, Early
<1>21. ASSUME NEW e \in Sessions, WaitTimeout(e)
      PROVE  EarlyWaits'
  BY <1>0, <1>21 DEF WaitTimeout, EvGoto, Places, EarlyWaits, Early
<1>22. ASSUME InterfaceChange
      PROVE  EarlyWaits'
  BY <1>0, <1>22 DEF InterfaceChange, Places, EarlyWaits, Early
<1>23. ASSUME EventServerRecreated
      PROVE  EarlyWaits'
  BY <1>0, <1>23 DEF EventServerRecreated, Places, EarlyWaits, Early
<1>24. ASSUME UNCHANGED vars
      PROVE  EarlyWaits'
  BY <1>0, <1>24 DEF vars, Places, EarlyWaits, Early
<1> QED
  BY <1>1, <1>2, <1>3, <1>4, <1>5, <1>6, <1>7, <1>8, <1>9, <1>10, <1>11,
     <1>12, <1>13, <1>14, <1>15, <1>16, <1>17, <1>18, <1>19, <1>20, <1>21,
     <1>22, <1>23, <1>24 DEF Next, OpStep, SessionStep

LEMMA RefusedNext ==
  ASSUME IInv, [Next]_vars
  PROVE  EarlyNotifyAccepted'
<1> USE DEF opVars, slotVars, waitVars, evVars, ifVars, cliVars
<1>0. Places /\ Rest /\ Open /\ Held /\ EarlyWaits /\ EarlyNotifyAccepted
  BY Parts DEF IInv
<1>1. ASSUME NEW s \in Subs, TakeOperation(s)
      PROVE  EarlyNotifyAccepted'
  BY <1>0, <1>1 DEF TakeOperation, OpGoto, Schedule, Places,
     EarlyNotifyAccepted, Early
<1>2. ASSUME NEW s \in Subs, SubscribeBegin(s)
      PROVE  EarlyNotifyAccepted'
  BY <1>0, <1>2 DEF SubscribeBegin, OpGoto, NotifyAddPending, Places,
     EarlyNotifyAccepted, Early
<1>3. ASSUME NEW s \in Subs, Grant(s)
      PROVE  EarlyNotifyAccepted'
  <2>1. \A f \in Sessions : evPc[f] # "idle" /\ Early(f)' => Early(f)
    BY <1>0, <1>3 DEF Grant, OpGoto, Places, Open, Early
  <2> QED
    BY <1>0, <1>3, <2>1 DEF Grant, EarlyNotifyAccepted
<1>4. ASSUME NEW s \in Subs, Add(s)
      PROVE  EarlyNotifyAccepted'
  BY <1>0, <1>4 DEF Add, OpGoto, RemovePendingAdd, SignalWaiters, Places, Rest,
     EarlyNotifyAccepted, Early
<1>5. ASSUME NEW s \in Subs, Abort(s)
      PROVE  EarlyNotifyAccepted'
  BY <1>0, <1>5 DEF Abort, OpGoto, RemovePendingAdd, SignalWaiters, Places, Rest,
     EarlyNotifyAccepted, Early
<1>6. ASSUME NEW s \in Subs, Renew(s)
      PROVE  EarlyNotifyAccepted'
  BY <1>0, <1>6 DEF Renew, Schedule, Places, EarlyNotifyAccepted, Early
<1>7. ASSUME NEW s \in Subs, DoRenew(s)
      PROVE  EarlyNotifyAccepted'
  BY <1>0, <1>7 DEF DoRenew, OpGoto, Schedule, Places, EarlyNotifyAccepted,
     Early
<1>8. ASSUME NEW s \in Subs, DoUnsubscribe(s)
      PROVE  EarlyNotifyAccepted'
  BY <1>0, <1>8 DEF DoUnsubscribe, OpGoto, Places, EarlyNotifyAccepted, Early
<1>9. ASSUME NEW s \in Subs, Resubscribe(s)
      PROVE  EarlyNotifyAccepted'
  BY <1>0, <1>9 DEF Resubscribe, OpGoto, Schedule, Places,
     EarlyNotifyAccepted, Early
<1>10. ASSUME NEW s \in Subs, NEW n \in Sids, Lose(s, n)
      PROVE  EarlyNotifyAccepted'
  BY <1>0, <1>10 DEF Lose, Sends, Unanswered, Places, EarlyNotifyAccepted,
     Early
<1>11. ASSUME NEW e \in Sessions, NEW s \in Subs, NEW n \in Sids, Accept(e, s, n)
      PROVE  EarlyNotifyAccepted'
  BY <1>0, <1>11 DEF Accept, Sends, Unanswered, EvGoto, Places,
     EarlyNotifyAccepted, Early
<1>12. ASSUME NEW e \in Sessions, Find(e)
      PROVE  EarlyNotifyAccepted'
  <2>1. /\ evPc'[e] = "respond" => evPc[e] = "findAgain"
        /\ \A f \in Sessions : f # e => evPc'[f] = evPc[f] /\ evSub'[f] = evSub[f]
        /\ UNCHANGED <<opPc, granted, evMsg, awaits>>
    BY <1>0, <1>12 DEF Find, EvGoto, Places
  <2> QED
    BY <1>0, <2>1 DEF EarlyNotifyAccepted, EarlyWaits, Early
<1>13. ASSUME NEW e \in Sessions, WaitForPendingAdds(e)
      PROVE  EarlyNotifyAccepted'
  BY <1>0, <1>13 DEF WaitForPendingAdds, EvGoto, Places, Rest,
     EarlyNotifyAccepted, Early
<1>14. ASSUME NEW e \in Sessions, Wake(e)
      PROVE  EarlyNotifyAccepted'
  BY <1>0, <1>14 DEF Wake, EvGoto, Places, EarlyNotifyAccepted, Early
<1>15. ASSUME NEW e \in Sessions, Compare(e)
      PROVE  EarlyNotifyAccepted'
  BY <1>0, <1>15 DEF Compare, EvGoto, Places, EarlyNotifyAccepted, Early
<1>16. ASSUME NEW e \in Sessions, Increment(e)
      PROVE  EarlyNotifyAccepted'
  BY <1>0, <1>16 DEF Increment, EvGoto, Places, Held, EarlyNotifyAccepted, Early,
     Using
<1>17. ASSUME NEW e \in Sessions, NotificationError(e)
      PROVE  EarlyNotifyAccepted'
  <2>1. /\ evPc'[e] = "respond" => evPc[e] = "mismatch" /\ evMsg'[e] = evMsg[e]
        /\ \A f \in Sessions : f # e => /\ evPc'[f] = evPc[f] /\ evMsg'[f] = evMsg[f]
                                        /\ evSub'[f] = evSub[f]
        /\ UNCHANGED <<opPc, granted, awaits>>
    BY <1>0, <1>17 DEF NotificationError, EvGoto, EvEnd, Places
  <2>2. evPc[e] = "mismatch" => ~Early(e)
    BY <1>0 DEF Held, Using
  <2> QED
    BY <1>0, <2>1, <2>2 DEF EarlyNotifyAccepted, Early
<1>18. ASSUME NEW e \in Sessions, Respond(e)
      PROVE  EarlyNotifyAccepted'
  BY <1>0, <1>18 DEF Respond, EvGoto, EvEnd, Places, Rest, EarlyNotifyAccepted,
     Early
<1>19. ASSUME NEW e \in Sessions, ReadBody(e)
      PROVE  EarlyNotifyAccepted'
  BY <1>0, <1>19 DEF ReadBody, EvGoto, Places, EarlyNotifyAccepted, Early
<1>20. ASSUME NEW e \in Sessions, Update(e)
      PROVE  EarlyNotifyAccepted'
  BY <1>0, <1>20 DEF Update, EvGoto, EvEnd, Places, EarlyNotifyAccepted, Early
<1>21. ASSUME NEW e \in Sessions, WaitTimeout(e)
      PROVE  EarlyNotifyAccepted'
  BY <1>0, <1>21 DEF WaitTimeout, EvGoto, Places, EarlyNotifyAccepted, Early
<1>22. ASSUME InterfaceChange
      PROVE  EarlyNotifyAccepted'
  BY <1>0, <1>22 DEF InterfaceChange, Places, EarlyNotifyAccepted, Early
<1>23. ASSUME EventServerRecreated
      PROVE  EarlyNotifyAccepted'
  BY <1>0, <1>23 DEF EventServerRecreated, Places, EarlyNotifyAccepted, Early
<1>24. ASSUME UNCHANGED vars
      PROVE  EarlyNotifyAccepted'
  BY <1>0, <1>24 DEF vars, Places, EarlyNotifyAccepted, Early
<1> QED
  BY <1>1, <1>2, <1>3, <1>4, <1>5, <1>6, <1>7, <1>8, <1>9, <1>10, <1>11,
     <1>12, <1>13, <1>14, <1>15, <1>16, <1>17, <1>18, <1>19, <1>20, <1>21,
     <1>22, <1>23, <1>24 DEF Next, OpStep, SessionStep

LEMMA WaitersNext ==
  ASSUME IInv, [Next]_vars
  PROVE  NoWaiterForgotten'
<1> USE DEF opVars, slotVars, waitVars, evVars, ifVars, cliVars
<1>0. Places /\ Rest /\ NoWaiterForgotten
  BY Parts DEF IInv
<1>1. ASSUME NEW s \in Subs, TakeOperation(s)
      PROVE  NoWaiterForgotten'
  <2>1. Waiting' = Waiting
    BY <1>1 DEF TakeOperation, Waiting
  <2>2. Cardinality(Waiting') = Cardinality(Waiting)
    BY <2>1
  <2> QED
    BY <1>0, <1>1, <2>2, WaitersFinite DEF TakeOperation, NoWaiterForgotten, Rest
<1>2. ASSUME NEW s \in Subs, SubscribeBegin(s)
      PROVE  NoWaiterForgotten'
  <2>1. Waiting' = Waiting
    BY <1>2 DEF SubscribeBegin, Waiting
  <2>2. Cardinality(Waiting') = Cardinality(Waiting)
    BY <2>1
  <2> QED
    BY <1>0, <1>2, <2>2, WaitersFinite DEF SubscribeBegin, NotifyAddPending,
       NoWaiterForgotten, Rest
<1>3. ASSUME NEW s \in Subs, Grant(s)
      PROVE  NoWaiterForgotten'
  <2>1. Waiting' = Waiting
    BY <1>3 DEF Grant, Waiting
  <2>2. Cardinality(Waiting') = Cardinality(Waiting)
    BY <2>1
  <2> QED
    BY <1>0, <1>3, <2>2, WaitersFinite DEF Grant, NoWaiterForgotten, Rest
<1>4. ASSUME NEW s \in Subs, Add(s)
      PROVE  NoWaiterForgotten'
  <2>1. Waiting' = Waiting
    BY <1>4 DEF Add, Waiting
  <2>2. Cardinality(Waiting') = Cardinality(Waiting)
    BY <2>1
  <2> QED
    BY <1>0, <1>4, <2>2, WaitersFinite DEF Add, RemovePendingAdd, SignalWaiters,
       NoWaiterForgotten, Rest
<1>5. ASSUME NEW s \in Subs, Abort(s)
      PROVE  NoWaiterForgotten'
  <2>1. Waiting' = Waiting
    BY <1>5 DEF Abort, Waiting
  <2>2. Cardinality(Waiting') = Cardinality(Waiting)
    BY <2>1
  <2> QED
    BY <1>0, <1>5, <2>2, WaitersFinite DEF Abort, RemovePendingAdd,
       SignalWaiters, NoWaiterForgotten, Rest
<1>6. ASSUME NEW s \in Subs, Renew(s)
      PROVE  NoWaiterForgotten'
  <2>1. Waiting' = Waiting
    BY <1>6 DEF Renew, Waiting
  <2>2. Cardinality(Waiting') = Cardinality(Waiting)
    BY <2>1
  <2> QED
    BY <1>0, <1>6, <2>2, WaitersFinite DEF Renew, NoWaiterForgotten, Rest
<1>7. ASSUME NEW s \in Subs, DoRenew(s)
      PROVE  NoWaiterForgotten'
  <2>1. Waiting' = Waiting
    BY <1>7 DEF DoRenew, Waiting
  <2>2. Cardinality(Waiting') = Cardinality(Waiting)
    BY <2>1
  <2> QED
    BY <1>0, <1>7, <2>2, WaitersFinite DEF DoRenew, NoWaiterForgotten, Rest
<1>8. ASSUME NEW s \in Subs, DoUnsubscribe(s)
      PROVE  NoWaiterForgotten'
  <2>1. Waiting' = Waiting
    BY <1>8 DEF DoUnsubscribe, Waiting
  <2>2. Cardinality(Waiting') = Cardinality(Waiting)
    BY <2>1
  <2> QED
    BY <1>0, <1>8, <2>2, WaitersFinite DEF DoUnsubscribe, NoWaiterForgotten, Rest
<1>9. ASSUME NEW s \in Subs, Resubscribe(s)
      PROVE  NoWaiterForgotten'
  <2>1. Waiting' = Waiting
    BY <1>9 DEF Resubscribe, Waiting
  <2>2. Cardinality(Waiting') = Cardinality(Waiting)
    BY <2>1
  <2> QED
    BY <1>0, <1>9, <2>2, WaitersFinite DEF Resubscribe, NoWaiterForgotten, Rest
<1>10. ASSUME NEW s \in Subs, NEW n \in Sids, Lose(s, n)
      PROVE  NoWaiterForgotten'
  <2>1. Waiting' = Waiting
    BY <1>10 DEF Lose, Waiting
  <2>2. Cardinality(Waiting') = Cardinality(Waiting)
    BY <2>1
  <2> QED
    BY <1>0, <1>10, <2>2, WaitersFinite DEF Lose, NoWaiterForgotten, Rest
<1>11. ASSUME NEW e \in Sessions, NEW s \in Subs, NEW n \in Sids, Accept(e, s, n)
      PROVE  NoWaiterForgotten'
  <2>1. /\ evPc[e] # "wait" /\ UNCHANGED <<iWaiters, iWaiter, iPending>>
        /\ \E l : l # "wait" /\ EvGoto(e, l)
    BY <1>11 DEF Accept
  <2>2. Cardinality(Waiting') = Cardinality(Waiting)
    BY <1>0, <2>1, WaitingStep, WaitersFinite
  <2> QED
    BY <1>0, <2>1, <2>2 DEF NoWaiterForgotten
<1>12. ASSUME NEW e \in Sessions, Find(e)
      PROVE  NoWaiterForgotten'
  <2>1. /\ evPc[e] # "wait" /\ UNCHANGED <<iWaiters, iWaiter, iPending>>
        /\ \E l : l # "wait" /\ EvGoto(e, l)
    BY <1>12 DEF Find
  <2>2. Cardinality(Waiting') = Cardinality(Waiting)
    BY <1>0, <2>1, WaitingStep, WaitersFinite
  <2> QED
    BY <1>0, <2>1, <2>2 DEF NoWaiterForgotten
<1>13. ASSUME NEW e \in Sessions, WaitForPendingAdds(e)
      PROVE  NoWaiterForgotten'
  <2>1. CASE iPending # {}
    <3>1. evPc[e] # "wait" /\ EvGoto(e, "wait") /\ iWaiters' = iWaiters + 1
          /\ UNCHANGED <<iWaiter, iPending>>
      BY <1>13, <2>1 DEF WaitForPendingAdds
    <3>2. Cardinality(Waiting') = Cardinality(Waiting) + 1
      BY <1>0, <3>1, WaitingStep, WaitersFinite
    <3> QED
      BY <1>0, <2>1, <3>1, <3>2, WaitersFinite DEF NoWaiterForgotten, Rest
  <2>2. CASE iPending = {}
    <3>1. /\ evPc[e] # "wait" /\ EvGoto(e, "findAgain")
          /\ UNCHANGED <<iWaiters, iWaiter, iPending>>
      BY <1>13, <2>2 DEF WaitForPendingAdds
    <3>2. Cardinality(Waiting') = Cardinality(Waiting)
      BY <1>0, <3>1, WaitingStep, WaitersFinite
    <3> QED
      BY <1>0, <3>1, <3>2 DEF NoWaiterForgotten
  <2> QED
    BY <2>1, <2>2
<1>14. ASSUME NEW e \in Sessions, Wake(e)
      PROVE  NoWaiterForgotten'
  <2>1. evPc[e] = "wait" /\ EvGoto(e, "findAgain") /\ UNCHANGED <<iWaiters, iPending>>
    BY <1>14 DEF Wake
  <2>2. Cardinality(Waiting') = Cardinality(Waiting) - 1
    BY <1>0, <2>1, WaitingStep, WaitersFinite
  <2> QED
    BY <1>0, <1>14, <2>1, <2>2, WaitersFinite DEF Wake, NoWaiterForgotten, Rest
<1>15. ASSUME NEW e \in Sessions, Compare(e)
      PROVE  NoWaiterForgotten'
  <2>1. /\ evPc[e] # "wait" /\ UNCHANGED <<iWaiters, iWaiter, iPending>>
        /\ \E l : l # "wait" /\ EvGoto(e, l)
    BY <1>15 DEF Compare
  <2>2. Cardinality(Waiting') = Cardinality(Waiting)
    BY <1>0, <2>1, WaitingStep, WaitersFinite
  <2> QED
    BY <1>0, <2>1, <2>2 DEF NoWaiterForgotten
<1>16. ASSUME NEW e \in Sessions, Increment(e)
      PROVE  NoWaiterForgotten'
  <2>1. /\ evPc[e] # "wait" /\ UNCHANGED <<iWaiters, iWaiter, iPending>>
        /\ \E l : l # "wait" /\ EvGoto(e, l)
    BY <1>16 DEF Increment
  <2>2. Cardinality(Waiting') = Cardinality(Waiting)
    BY <1>0, <2>1, WaitingStep, WaitersFinite
  <2> QED
    BY <1>0, <2>1, <2>2 DEF NoWaiterForgotten
<1>17. ASSUME NEW e \in Sessions, NotificationError(e)
      PROVE  NoWaiterForgotten'
  <2>1. /\ evPc[e] # "wait" /\ UNCHANGED <<iWaiters, iWaiter, iPending>>
        /\ \E l : l # "wait" /\ EvGoto(e, l)
    BY <1>17 DEF NotificationError, EvEnd
  <2>2. Cardinality(Waiting') = Cardinality(Waiting)
    BY <1>0, <2>1, WaitingStep, WaitersFinite
  <2> QED
    BY <1>0, <2>1, <2>2 DEF NoWaiterForgotten
<1>18. ASSUME NEW e \in Sessions, Respond(e)
      PROVE  NoWaiterForgotten'
  <2>1. /\ evPc[e] # "wait" /\ UNCHANGED <<iWaiters, iWaiter, iPending>>
        /\ \E l : l # "wait" /\ EvGoto(e, l)
    BY <1>18 DEF Respond, EvEnd
  <2>2. Cardinality(Waiting') = Cardinality(Waiting)
    BY <1>0, <2>1, WaitingStep, WaitersFinite
  <2> QED
    BY <1>0, <2>1, <2>2 DEF NoWaiterForgotten
<1>19. ASSUME NEW e \in Sessions, ReadBody(e)
      PROVE  NoWaiterForgotten'
  <2>1. /\ evPc[e] # "wait" /\ UNCHANGED <<iWaiters, iWaiter, iPending>>
        /\ \E l : l # "wait" /\ EvGoto(e, l)
    BY <1>19 DEF ReadBody
  <2>2. Cardinality(Waiting') = Cardinality(Waiting)
    BY <1>0, <2>1, WaitingStep, WaitersFinite
  <2> QED
    BY <1>0, <2>1, <2>2 DEF NoWaiterForgotten
<1>20. ASSUME NEW e \in Sessions, Update(e)
      PROVE  NoWaiterForgotten'
  <2>1. /\ evPc[e] # "wait" /\ UNCHANGED <<iWaiters, iWaiter, iPending>>
        /\ \E l : l # "wait" /\ EvGoto(e, l)
    BY <1>20 DEF Update, EvEnd
  <2>2. Cardinality(Waiting') = Cardinality(Waiting)
    BY <1>0, <2>1, WaitingStep, WaitersFinite
  <2> QED
    BY <1>0, <2>1, <2>2 DEF NoWaiterForgotten
<1>21. ASSUME NEW e \in Sessions, WaitTimeout(e)
      PROVE  NoWaiterForgotten'
  <2>1. evPc[e] = "wait" /\ EvGoto(e, "findAgain") /\ UNCHANGED <<iWaiters, iPending>>
    BY <1>21 DEF WaitTimeout
  <2>2. Cardinality(Waiting') = Cardinality(Waiting) - 1
    BY <1>0, <2>1, WaitingStep, WaitersFinite
  <2> QED
    BY <1>0, <1>21, <2>1, <2>2, WaitersFinite DEF WaitTimeout, NoWaiterForgotten, Rest
<1>22. ASSUME InterfaceChange
      PROVE  NoWaiterForgotten'
  <2>1. Waiting' = Waiting
    BY <1>22 DEF InterfaceChange, Waiting
  <2>2. Cardinality(Waiting') = Cardinality(Waiting)
    BY <2>1
  <2> QED
    BY <1>0, <1>22, <2>2, WaitersFinite DEF InterfaceChange, NoWaiterForgotten,
       Rest
<1>23. ASSUME EventServerRecreated
      PROVE  NoWaiterForgotten'
  <2>1. Waiting' = Waiting
    BY <1>23 DEF EventServerRecreated, Waiting
  <2>2. Cardinality(Waiting') = Cardinality(Waiting)
    BY <2>1
  <2> QED
    BY <1>0, <1>23, <2>2, WaitersFinite DEF EventServerRecreated,
       NoWaiterForgotten, Rest
<1>24. ASSUME UNCHANGED vars
      PROVE  NoWaiterForgotten'
  <2>1. Waiting' = Waiting
    BY <1>24 DEF vars, Waiting
  <2>2. Cardinality(Waiting') = Cardinality(Waiting)
    BY <2>1
  <2> QED
    BY <1>0, <1>24, <2>2, WaitersFinite DEF vars, NoWaiterForgotten, Rest
<1> QED
  BY <1>1, <1>2, <1>3, <1>4, <1>5, <1>6, <1>7, <1>8, <1>9, <1>10, <1>11,
     <1>12, <1>13, <1>14, <1>15, <1>16, <1>17, <1>18, <1>19, <1>20, <1>21,
     <1>22, <1>23, <1>24 DEF Next, OpStep, SessionStep

LEMMA CountsNext ==
  ASSUME IInv, [Next]_vars
  PROVE  Counts'
<1> USE DEF opVars, slotVars, waitVars, evVars, ifVars, cliVars
<1>0. Places /\ Rest /\ Open /\ Held /\ Counts
  BY Parts DEF IInv
<1>1. ASSUME NEW s \in Subs, TakeOperation(s)
      PROVE  Counts'
  <2>1. /\ \A t, k : Accounted(t, k)' <=> Accounted(t, k)
        /\ UNCHANGED <<granted, iNextSequenceNumber, reported, evPc, evMsg>>
    BY <1>1, AccountedStays DEF TakeOperation
  <2> QED
    BY <2>1, <1>0 DEF Counts
<1>2. ASSUME NEW s \in Subs, SubscribeBegin(s)
      PROVE  Counts'
  <2>1. /\ \A t, k : Accounted(t, k)' <=> Accounted(t, k)
        /\ UNCHANGED <<granted, reported, evPc, evMsg>>
    BY <1>2, AccountedStays DEF SubscribeBegin
  <2>2. /\ iNextSequenceNumber'[s] = 0
        /\ \A t \in Subs : t # s => iNextSequenceNumber'[t] = iNextSequenceNumber[t]
    BY <1>0, <1>2 DEF SubscribeBegin, Rest
  <2>3. \A f \in Sessions : 0 <= evMsg[f].seq
    BY <1>0 DEF Places
  <2> QED
    BY <1>0, <2>1, <2>2, <2>3 DEF Counts
<1>3. ASSUME NEW s \in Subs, Grant(s)
      PROVE  Counts'
  <2>1. /\ \A t, k : Accounted(t, k)' <=> Accounted(t, k)
        /\ UNCHANGED <<iNextSequenceNumber, reported, evPc, evMsg>>
    BY <1>3, AccountedStays DEF Grant
  <2>2. /\ granted'[s] = granted[s] + 1 /\ granted[s] \in Nat
        /\ \A t \in Subs : t # s => granted'[t] = granted[t]
    BY <1>0, <1>3, NotifyBoundAssumption DEF Grant, Places
  <2>3. CASE granted[s] = 0
    <3>1. \A f \in Sessions : evPc[f] = "increment" => evMsg[f].sub # s
      BY <2>3, Sessioned
    <3>2. iNextSequenceNumber[s] = 0
      BY <1>0, <2>3 DEF Counts
    <3> QED
      BY <1>0, <2>1, <2>2, <3>1, <3>2 DEF Counts
  <2>4. CASE granted[s] # 0
    <3>1. granted'[s] # 0 /\ granted'[s] # 1
      BY <2>2, <2>4
    <3> QED
      BY <1>0, <2>1, <2>2, <3>1 DEF Counts
  <2> QED
    BY <2>3, <2>4
<1>4. ASSUME NEW s \in Subs, Add(s)
      PROVE  Counts'
  <2>1. /\ \A t, k : Accounted(t, k)' <=> Accounted(t, k)
        /\ UNCHANGED <<granted, iNextSequenceNumber, reported, evPc, evMsg>>
    BY <1>4, AccountedStays DEF Add
  <2> QED
    BY <2>1, <1>0 DEF Counts
<1>5. ASSUME NEW s \in Subs, Abort(s)
      PROVE  Counts'
  <2>1. /\ \A t, k : Accounted(t, k)' <=> Accounted(t, k)
        /\ UNCHANGED <<granted, iNextSequenceNumber, reported, evPc, evMsg>>
    BY <1>5, AccountedStays DEF Abort
  <2> QED
    BY <2>1, <1>0 DEF Counts
<1>6. ASSUME NEW s \in Subs, Renew(s)
      PROVE  Counts'
  <2>1. /\ \A t, k : Accounted(t, k)' <=> Accounted(t, k)
        /\ UNCHANGED <<granted, iNextSequenceNumber, reported, evPc, evMsg>>
    BY <1>6, AccountedStays DEF Renew
  <2> QED
    BY <2>1, <1>0 DEF Counts
<1>7. ASSUME NEW s \in Subs, DoRenew(s)
      PROVE  Counts'
  <2>1. /\ \A t, k : Accounted(t, k)' <=> Accounted(t, k)
        /\ UNCHANGED <<granted, iNextSequenceNumber, reported, evPc, evMsg>>
    BY <1>7, AccountedStays DEF DoRenew
  <2> QED
    BY <2>1, <1>0 DEF Counts
<1>8. ASSUME NEW s \in Subs, DoUnsubscribe(s)
      PROVE  Counts'
  <2>1. /\ \A t, k : Accounted(t, k)' <=> Accounted(t, k)
        /\ UNCHANGED <<granted, iNextSequenceNumber, reported, evPc, evMsg>>
    BY <1>8, AccountedStays DEF DoUnsubscribe
  <2> QED
    BY <2>1, <1>0 DEF Counts
<1>9. ASSUME NEW s \in Subs, Resubscribe(s)
      PROVE  Counts'
  <2>1. /\ \A t, k : Accounted(t, k)' <=> Accounted(t, k)
        /\ UNCHANGED <<granted, iNextSequenceNumber, reported, evPc, evMsg>>
    BY <1>9, AccountedStays DEF Resubscribe
  <2> QED
    BY <2>1, <1>0 DEF Counts
<1>10. ASSUME NEW s \in Subs, NEW n \in Sids, Lose(s, n)
      PROVE  Counts'
  <2>1. /\ \A t, k : Accounted(t, k)' <=> Accounted(t, k)
        /\ UNCHANGED <<granted, iNextSequenceNumber, reported, evPc, evMsg>>
    BY <1>10, AccountedStays DEF Lose
  <2> QED
    BY <2>1, <1>0 DEF Counts
<1>11. ASSUME NEW e \in Sessions, NEW s \in Subs, NEW n \in Sids, Accept(e, s, n)
      PROVE  Counts'
  <2>1. /\ evPc'[e] # "increment"
        /\ UNCHANGED <<granted, iNextSequenceNumber, reported, got>>
        /\ \A f \in Sessions : f # e => /\ evPc'[f] = evPc[f] /\ evMsg'[f] = evMsg[f]
                                        /\ evSub'[f] = evSub[f]
    BY <1>0, <1>11 DEF Accept, EvGoto, Places
  <2>2. \A t, k : Holds(e, t, k) => Holds(e, t, k)'
    BY <1>0, <1>11 DEF Accept, EvGoto, Places, Holds
  <2> QED
    BY <1>0, <2>1, <2>2, CountsMove
<1>12. ASSUME NEW e \in Sessions, Find(e)
      PROVE  Counts'
  <2>1. /\ evPc'[e] # "increment"
        /\ UNCHANGED <<granted, iNextSequenceNumber, reported, got>>
        /\ \A f \in Sessions : f # e => /\ evPc'[f] = evPc[f] /\ evMsg'[f] = evMsg[f]
                                        /\ evSub'[f] = evSub[f]
    BY <1>0, <1>12 DEF Find, EvGoto, Places
  <2>2. \A t, k : Holds(e, t, k) => Holds(e, t, k)'
    BY <1>0, <1>12 DEF Find, EvGoto, Places, Holds
  <2> QED
    BY <1>0, <2>1, <2>2, CountsMove
<1>13. ASSUME NEW e \in Sessions, WaitForPendingAdds(e)
      PROVE  Counts'
  <2>1. /\ evPc'[e] # "increment"
        /\ UNCHANGED <<granted, iNextSequenceNumber, reported, got>>
        /\ \A f \in Sessions : f # e => /\ evPc'[f] = evPc[f] /\ evMsg'[f] = evMsg[f]
                                        /\ evSub'[f] = evSub[f]
    BY <1>0, <1>13 DEF WaitForPendingAdds, EvGoto, Places
  <2>2. \A t, k : Holds(e, t, k) => Holds(e, t, k)'
    BY <1>0, <1>13 DEF WaitForPendingAdds, EvGoto, Places, Holds
  <2> QED
    BY <1>0, <2>1, <2>2, CountsMove
<1>14. ASSUME NEW e \in Sessions, Wake(e)
      PROVE  Counts'
  <2>1. /\ evPc'[e] # "increment"
        /\ UNCHANGED <<granted, iNextSequenceNumber, reported, got>>
        /\ \A f \in Sessions : f # e => /\ evPc'[f] = evPc[f] /\ evMsg'[f] = evMsg[f]
                                        /\ evSub'[f] = evSub[f]
    BY <1>0, <1>14 DEF Wake, EvGoto, Places
  <2>2. \A t, k : Holds(e, t, k) => Holds(e, t, k)'
    BY <1>0, <1>14 DEF Wake, EvGoto, Places, Holds
  <2> QED
    BY <1>0, <2>1, <2>2, CountsMove
<1>15. ASSUME NEW e \in Sessions, Compare(e)
      PROVE  Counts'
  <2>1. /\ evPc[e] = "compare"
        /\ UNCHANGED <<granted, iNextSequenceNumber, reported, got, evMsg, evSub>>
        /\ \A f \in Sessions : f # e => evPc'[f] = evPc[f]
        /\ evPc'[e] = "increment" =>
             evMsg[e].seq = iNextSequenceNumber[evMsg[e].sub]
        /\ evPc'[e] \in {"increment", "mismatch"}
    BY <1>0, <1>15 DEF Compare, EvGoto, Places
  <2>2. \A t, k : Accounted(t, k) => Accounted(t, k)'
    BY <2>1 DEF Accounted, Holds
  <2>3. evMsg[e].seq \in Nat
    BY <1>0, NotifyBoundAssumption DEF Places
  <2> QED
    BY <1>0, <2>1, <2>2, <2>3 DEF Counts
<1>16. ASSUME NEW e \in Sessions, Increment(e)
      PROVE  Counts'
  <2>0. PICK s \in Subs : s = evMsg[e].sub
    BY <1>0 DEF Places
  <2>1. /\ evPc[e] = "increment" /\ s = evMsg[e].sub /\ granted[s] > 0
        /\ UNCHANGED <<granted, reported, got, evMsg, evSub>>
    BY <1>16, <2>0, Sessioned DEF Increment
  <2>2. /\ evPc'[e] = "respond" /\ evSub'[e] /\ evMsg[e].seq \in Nat
        /\ \A f \in Sessions : f # e => evPc'[f] = evPc[f]
    BY <1>0, <2>1, <1>16, NotifyBoundAssumption DEF Increment, EvGoto, Places, Held, Using
  <2>3. /\ iNextSequenceNumber'[s] = iNextSequenceNumber[s] + 1
        /\ iNextSequenceNumber[s] \in Nat /\ granted[s] \in Nat
        /\ \A t \in Subs : t # s => iNextSequenceNumber'[t] = iNextSequenceNumber[t]
    BY <1>0, <2>1, <1>16, NotifyBoundAssumption DEF Increment, Rest, Places
  <2>4. \A t, k : Accounted(t, k) => Accounted(t, k)'
    BY <2>1, <2>2 DEF Accounted, Holds
  <2>5. \A k : k = evMsg[e].seq => Accounted(s, k)'
    BY <2>1, <2>2 DEF Accounted, Holds
  <2>6. ASSUME granted[s] = 1
        PROVE  \A f \in Sessions : evPc'[f] = "increment" => evMsg[f].sub # s
    <3>1. \A f \in Sessions :
            evPc[f] = "increment" /\ evMsg[f].sub = s => evMsg[f].sid = 1
      <4> SUFFICES ASSUME NEW f \in Sessions, evPc[f] = "increment", evMsg[f].sub = s
                   PROVE  evMsg[f].sid = 1
        OBVIOUS
      <4>1. evMsg[f].sid \in Sids /\ evMsg[f].sid <= 1
        BY <1>0, <2>6 DEF Open
      <4> QED
        BY <4>1, NotifyBoundAssumption DEF Sids
    <3> QED
      BY <1>0, <2>1, <2>2, <3>1 DEF Open, BeforeAnswer
  <2>7. ASSUME granted[s] = 1, ~reported[s], NEW k \in Nat, k < iNextSequenceNumber[s] + 1
        PROVE  Accounted(s, k)'
    <3>1. iNextSequenceNumber[s] <= evMsg[e].seq /\ (k < evMsg[e].seq => Accounted(s, k))
      BY <1>0, <2>1, <2>7 DEF Counts
    <3>2. k < evMsg[e].seq \/ k = evMsg[e].seq
      BY <2>2, <2>3, <2>7, <3>1
    <3> QED
      BY <2>4, <2>5, <3>1, <3>2
  <2> QED
    BY <1>0, <2>1, <2>2, <2>3, <2>4, <2>6, <2>7 DEF Counts
<1>17. ASSUME NEW e \in Sessions, NotificationError(e)
      PROVE  Counts'
  <2>1. /\ evPc'[e] # "increment"
        /\ UNCHANGED <<granted, iNextSequenceNumber, got>>
        /\ \A f \in Sessions : f # e => /\ evPc'[f] = evPc[f] /\ evMsg'[f] = evMsg[f]
                                        /\ evSub'[f] = evSub[f]
        /\ reported'[evMsg[e].sub]
        /\ \A t \in Subs : reported[t] => reported'[t]
    BY <1>0, <1>17 DEF NotificationError, EvGoto, EvEnd, Places, Rest
  <2>2. \A t \in Subs, k \in Nat : ~reported'[t] => ~Holds(e, t, k)
    BY <2>1 DEF Holds
  <2> QED
    BY <1>0, <2>1, <2>2, CountsMove
<1>18. ASSUME NEW e \in Sessions, Respond(e)
      PROVE  Counts'
  <2>1. /\ evPc'[e] # "increment"
        /\ UNCHANGED <<granted, iNextSequenceNumber, reported, got>>
        /\ \A f \in Sessions : f # e => /\ evPc'[f] = evPc[f] /\ evMsg'[f] = evMsg[f]
                                        /\ evSub'[f] = evSub[f]
    BY <1>0, <1>18 DEF Respond, EvGoto, EvEnd, Places
  <2>2. \A t, k : Holds(e, t, k) => Holds(e, t, k)'
    BY <1>0, <1>18 DEF Respond, EvGoto, EvEnd, Places, Holds
  <2> QED
    BY <1>0, <2>1, <2>2, CountsMove
<1>19. ASSUME NEW e \in Sessions, ReadBody(e)
      PROVE  Counts'
  <2>1. /\ evPc'[e] # "increment"
        /\ UNCHANGED <<granted, iNextSequenceNumber, reported, got>>
        /\ \A f \in Sessions : f # e => /\ evPc'[f] = evPc[f] /\ evMsg'[f] = evMsg[f]
                                        /\ evSub'[f] = evSub[f]
    BY <1>0, <1>19 DEF ReadBody, EvGoto, Places
  <2>2. \A t, k : Holds(e, t, k) => Holds(e, t, k)'
    BY <1>0, <1>19 DEF ReadBody, EvGoto, Places, Holds
  <2> QED
    BY <1>0, <2>1, <2>2, CountsMove
<1>20. ASSUME NEW e \in Sessions, Update(e)
      PROVE  Counts'
  <2> DEFINE s == evMsg[e].sub
  <2>1. /\ evPc'[e] # "increment"
        /\ UNCHANGED <<granted, iNextSequenceNumber, reported>>
        /\ \A f \in Sessions : f # e => /\ evPc'[f] = evPc[f] /\ evMsg'[f] = evMsg[f]
                                        /\ evSub'[f] = evSub[f]
        /\ \A t \in Subs : got[t] \subseteq got'[t]
        /\ evMsg[e].sid = 1 => evMsg[e].seq \in got'[s]
    BY <1>0, <1>20 DEF Update, EvGoto, EvEnd, Places, Rest
  <2>2. \A t \in Subs, k \in Nat : granted[t] = 1 /\ Holds(e, t, k) => k \in got'[t]
    <3> SUFFICES ASSUME granted[s] = 1
                 PROVE  evMsg[e].sid = 1
      BY <2>1 DEF Holds
    <3>1. evMsg[e].sid \in Sids /\ evMsg[e].sid <= 1
      BY <1>0, <1>20 DEF Update, Open
    <3> QED
      BY <3>1, NotifyBoundAssumption DEF Sids
  <2> QED
    BY <1>0, <2>1, <2>2, CountsMove
<1>21. ASSUME NEW e \in Sessions, WaitTimeout(e)
      PROVE  Counts'
  <2>1. /\ evPc'[e] # "increment"
        /\ UNCHANGED <<granted, iNextSequenceNumber, reported, got>>
        /\ \A f \in Sessions : f # e => /\ evPc'[f] = evPc[f] /\ evMsg'[f] = evMsg[f]
                                        /\ evSub'[f] = evSub[f]
    BY <1>0, <1>21 DEF WaitTimeout, EvGoto, Places
  <2>2. \A t, k : Holds(e, t, k) => Holds(e, t, k)'
    BY <1>0, <1>21 DEF WaitTimeout, EvGoto, Places, Holds
  <2> QED
    BY <1>0, <2>1, <2>2, CountsMove
<1>22. ASSUME InterfaceChange
      PROVE  Counts'
  <2>1. /\ \A t, k : Accounted(t, k)' <=> Accounted(t, k)
        /\ UNCHANGED <<granted, iNextSequenceNumber, reported, evPc, evMsg>>
    BY <1>22, AccountedStays DEF InterfaceChange
  <2> QED
    BY <2>1, <1>0 DEF Counts
<1>23. ASSUME EventServerRecreated
      PROVE  Counts'
  <2>1. /\ \A t, k : Accounted(t, k)' <=> Accounted(t, k)
        /\ UNCHANGED <<granted, iNextSequenceNumber, reported, evPc, evMsg>>
    BY <1>23, AccountedStays DEF EventServerRecreated
  <2> QED
    BY <2>1, <1>0 DEF Counts
<1>24. ASSUME UNCHANGED vars
      PROVE  Counts'
  <2>1. /\ \A t, k : Accounted(t, k)' <=> Accounted(t, k)
        /\ UNCHANGED <<granted, iNextSequenceNumber, reported, evPc, evMsg>>
    BY <1>24, AccountedStays DEF vars
  <2> QED
    BY <2>1, <1>0 DEF Counts
<1> QED
  BY <1>1, <1>2, <1>3, <1>4, <1>5, <1>6, <1>7, <1>8, <1>9, <1>10, <1>11,
     <1>12, <1>13, <1>14, <1>15, <1>16, <1>17, <1>18, <1>19, <1>20, <1>21,
     <1>22, <1>23, <1>24 DEF Next, OpStep, SessionStep

-----------------------------------------------------------------------------
(* The invariant                                                           *)

LEMMA InitInv == Init => IInv
<1> SUFFICES ASSUME Init
             PROVE  IInv
  OBVIOUS
<1>1. Posts
  BY NotifyBoundAssumption DEF Init, Posts
<1>2. Places /\ Rest
  BY <1>1, Messages, NotifyBoundAssumption DEF Init, Places, Rest
<1>3. NoWaiterForgotten
  <2>1. Waiting = {}
    BY DEF Init, Waiting
  <2> QED
    BY <2>1, FS_EmptySet DEF Init, NoWaiterForgotten
<1>4. Pending /\ Empty
  BY DEF Init, Pending, Empty
<1>5. Open /\ Held /\ EarlyWaits /\ EarlyNotifyAccepted
  BY DEF Init, Open, Held, EarlyWaits, EarlyNotifyAccepted, BeforeAnswer, Using
<1>6. Counts
  BY DEF Init, Counts
<1> QED
  BY <1>1, <1>2, <1>3, <1>4, <1>5, <1>6, Parts DEF IInv

LEMMA NextInv == IInv /\ [Next]_vars => IInv'
<1> SUFFICES ASSUME IInv, [Next]_vars
             PROVE  IInv'
  OBVIOUS
<1>1. TypeOK'
  BY PlacesNext, PostsNext, RestNext, Parts
<1>2. NoWaiterForgotten' /\ Pending' /\ Empty' /\ Open' /\ Held'
  BY WaitersNext, PendingNext, EmptyNext, OpenNext, HeldNext
<1>3. EarlyWaits' /\ EarlyNotifyAccepted' /\ Counts'
  BY EarlyNext, RefusedNext, CountsNext
<1> QED
  BY <1>1, <1>2, <1>3 DEF IInv

(* Every state of the sessions, the Subscribers and the publishers         *)
(* satisfies the invariant above.                                          *)
THEOREM Invariance == Spec => []IInv
BY InitInv, NextInv, PTL DEF Spec

(* Every variable has its type.                                            *)
THEOREM TypeCorrect == Spec => []TypeOK
<1>1. IInv => TypeOK
  BY DEF IInv
<1> QED
  BY Invariance, <1>1, PTL

(* For every session on the semaphore of the pending adds there is a count *)
(* in it or a waiter that the end of the last add signals, however many    *)
(* sessions wait, time out, or are woken by a network change               *)
(* (CpiSubscriptionManager::WaitForPendingAdds, RemovePendingAdds).        *)
THEOREM NobodyForgotten == Spec => []NoWaiterForgotten
<1>1. IInv => NoWaiterForgotten
  BY DEF IInv
<1> QED
  BY Invariance, <1>1, PTL

(* A NOTIFY that overtakes the reply to its SUBSCRIBE is refused only by a *)
(* session that knew of just that pending add and was woken, by a count    *)
(* that was another's, a network change or its timeout, before the add     *)
(* ended (EventSessionUpnp::Run).                                          *)
THEOREM EarlyAccepted == Spec => []EarlyNotifyAccepted
<1>1. IInv => EarlyNotifyAccepted
  BY DEF IInv
<1> QED
  BY Invariance, <1>1, PTL

(* Whatever a subscription has counted under its first sid was given to    *)
(* the client, or a session has it in hand, or SetNotificationError was    *)
(* called, however many sessions count, answer, read and deliver at once   *)
(* and however often renewals and resubscribes reset the count between a   *)
(* session's comparison and its increment.                                 *)
THEOREM CountedDelivered == Spec => []CountedIsDelivered
<1>1. IInv => CountedIsDelivered
  <2> SUFFICES ASSUME IInv, NEW s \in Subs, granted[s] = 1, ~reported[s],
                      NEW k \in 0..iNextSequenceNumber[s] - 1
               PROVE  Accounted(s, k)
    BY DEF CountedIsDelivered, Accounted
  <2>1. iNextSequenceNumber[s] \in Nat /\ k \in Nat /\ k < iNextSequenceNumber[s]
    BY Parts DEF Rest
  <2> QED
    BY <2>1, Parts DEF Counts
<1> QED
  BY Invariance, <1>1, PTL
=============================================================================
