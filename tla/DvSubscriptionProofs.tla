------------------------ MODULE DvSubscriptionProofs ------------------------
(***************************************************************************)
(* The references to the subscriptions of a device, counted; what that      *)
(* says of deleted ones; that no change of a property is forgotten; that    *)
(* notifications are numbered in the order of the changes; and that the     *)
(* device keeps what Eventing promises, but for its liveness.  All for any  *)
(* numbers of subscriptions and threads.                                    *)
(***************************************************************************)
EXTENDS DvSubscription, Counting

(* The places of each kind of thread, and those at which it has no          *)
(* subscription in its hands.                                               *)
RemovalPcs == {"remove", "stop", "cancel", "unref", "delete"}
AppPcs     == {"idle", "try", "publish", "queue"}
SessionPcs == {"idle", "add", "respond", "start", "push", "first", "renew", "rearm"}
                \union RemovalPcs
TimerPcs   == {"idle", "fired"} \union RemovalPcs
ExpelPcs   == {"idle", "expel", "release"} \union RemovalPcs
WriterPcs  == {"write", "props", "connect", "send"} \union ExpelPcs
OwnerPcs   == {"idle", "publish", "queue", "stopAll", "stopping", "stop", "cancel", "unref",
               "delete", "destroyed"}
FreePcs    == {"idle", "try", "publish", "queue", "stopAll", "stopping", "destroyed", "fired"}

Places ==
  /\ \A a \in Apps : pc[a] \in AppPcs
  /\ \A e \in Sessions : pc[e] \in SessionPcs
  /\ \A p \in Publishers : pc[p] \in WriterPcs
  /\ pc[Timer] \in TimerPcs /\ pc[Closer] \in ExpelPcs /\ pc[Owner] \in OwnerPcs

Hands == \A t \in Threads : cur[t] \in Subs <=> pc[t] \notin FreePcs

(* The owner takes the subscriptions out while it holds the service's lock. *)
Stopping == pc[Owner] \in {"stopping", "stop", "cancel", "unref", "delete"}

Locks ==
  /\ \A t \in Threads :
       svcLock = t <=> pc[t] = "queue" \/ (t = Owner /\ Stopping)
  /\ cbLock = Timer <=> pc[Timer] # "idle"
  /\ \A p \in Publishers : propLock = p <=> pc[p] = "connect"

Loops ==
  /\ \A t \in Threads : pc[t] = "queue" => todo[t] \subseteq iSubscriptions
  /\ Stopping =>
       /\ todo[Owner] \subseteq iSubscriptions
       /\ pc[Owner] # "stopping" => cur[Owner] \in iSubscriptions \ todo[Owner]

(* The reference of the service's list.                                     *)
Listed(s) == s \in iSubscriptions /\ ~Stopped(s)
ListPart(s) ==
  IF Listed(s) \/ Holders(s) # {} \/ (s \in iMap /\ ~iService[s]) THEN 1 ELSE 0

(* It is in one place.                                                      *)
OneHolder ==
  \A s \in Subs : \A t \in Holders(s) :
    ~Listed(s) /\ (t # Owner => s \notin iSubscriptions) /\ (\A u \in Holders(s) : u = t)

(* A subscription is served from its Start until it is stopped.             *)
Served ==
  /\ \A s \in Subs : iService[s] => Listed(s) \/ Holders(s) # {}
  /\ \A s \in Subs : Listed(s) => iService[s]
  /\ \A t \in Threads :
       /\ pc[t] \in {"add", "respond", "start", "unref"} => ~iService[cur[t]]
       /\ pc[t] \in {"push", "stop", "cancel"} => iService[cur[t]]
       /\ pc[t] \in {"respond", "start", "push"} => cur[t] \in iMap
  /\ pc[Timer] = "remove" => iService[cur[Timer]]

Counted ==
  \A s \in Subs : iRefCount[s] = HowOften(iList, s) + Cardinality(Members(s)) + ListPart(s)

Lives ==
  /\ \A s \in Subs : iRefCount[s] > 0 => obj[s] = "live"
  /\ \A s \in Subs : obj[s] = "none" =>
       /\ ~armed[s] /\ newest[s] = NoMessage
       /\ s \notin iSubscriptions /\ \A t \in Threads : cur[t] # s
  /\ \A s \in Subs : obj[s] = "dead" => ~armed[s] /\ s \notin iSubscriptionMap
  /\ \A t \in Threads : pc[t] = "delete" =>
       /\ iRefCount[cur[t]] = 0 /\ obj[cur[t]] = "live"
       /\ \A u \in Threads : pc[u] = "delete" /\ cur[u] = cur[t] => u = t

(* The properties are read in order.                                        *)
Versions ==
  /\ version >= 1
  /\ \A s \in Subs : /\ iPropertySequenceNumbers[s] <= version
                      /\ got[s].val <= version /\ newest[s].val <= version
  /\ \A p \in Publishers :
       /\ pc[p] = "connect" => /\ iPropertySequenceNumbers[cur[p]] < writer[p].val
                               /\ writer[p].val <= version
       /\ pc[p] = "send" => 1 <= writer[p].val /\ writer[p].val <= version

(* Whoever has a subscription's lock for a while; the device is disabled    *)
(* before its subscriptions are stopped.                                    *)
Guarded ==
  /\ enabled => pc[Owner] \in {"idle", "publish", "queue"}
  /\ \A p \in Publishers : pc[p] \in {"props", "connect"} => iLock[cur[p]] = p /\ iService[cur[p]]
  /\ \A t \in Threads : pc[t] = "cancel" => iLock[cur[t]] = t

(* Nothing is sent of a subscription that is not started.                   *)
Unsent ==
  \A e \in Sessions : pc[e] \in {"add", "respond", "start"} =>
    /\ newest[cur[e]] = NoMessage
    /\ HowOften(iList, cur[e]) = 0
    /\ \A p \in Publishers : cur[p] # cur[e]
    /\ \A u \in Sessions : cur[u] = cur[e] => pc[u] # "first"

IInv ==
  /\ TypeOK /\ Places /\ Hands /\ Locks /\ Loops
  /\ OneHolder /\ Served /\ Counted /\ Lives /\ Versions /\ Guarded /\ ChangeIsPending
  /\ Unsent
-----------------------------------------------------------------------------
(* Threads, and where they are.                                             *)
LEMMA Kinds ==
  /\ Publishers \subseteq Threads /\ Sessions \subseteq Threads /\ Apps \subseteq Threads
  /\ Timer \in Threads /\ Owner \in Threads /\ Closer \in Threads
  /\ \A t \in Threads : t \in Publishers \/ t \in Sessions \/ t \in Apps
                          \/ t = Timer \/ t = Owner \/ t = Closer
  /\ \A p \in Publishers : p \notin Sessions /\ p \notin Apps /\ p # Timer /\ p # Owner /\ p # Closer
  /\ \A e \in Sessions : e \notin Apps /\ e # Timer /\ e # Owner /\ e # Closer
  /\ \A a \in Apps : a # Timer /\ a # Owner /\ a # Closer
  /\ Timer # Owner /\ Timer # Closer /\ Owner # Closer
  /\ None \notin Threads /\ None \notin Subs
BY ThreadAssumption, NoneAssumption DEF Threads

(* A thread goes to l with x in its hands.                                  *)
Goes(t, x, l) == pc' = [pc EXCEPT ![t] = l] /\ cur' = [cur EXCEPT ![t] = x]

(* Where it may: what Places and Hands say of one thread.                   *)
Fits(t, x, l) ==
  /\ t \in Apps => l \in AppPcs
  /\ t \in Sessions => l \in SessionPcs
  /\ t \in Publishers => l \in WriterPcs
  /\ t = Timer => l \in TimerPcs
  /\ t = Closer => l \in ExpelPcs
  /\ t = Owner => l \in OwnerPcs
  /\ x \in Subs \union {None}
  /\ x \in Subs <=> l \notin FreePcs

LEMMA PcsKnown ==
  AppPcs \union SessionPcs \union WriterPcs \union TimerPcs \union ExpelPcs \union OwnerPcs
    \subseteq {"idle", "try", "publish", "queue", "add", "respond", "start",
       "push", "first", "renew", "rearm", "expel", "remove", "stop", "cancel", "unref",
       "release", "delete", "fired", "stopAll", "stopping", "destroyed",
       "write", "props", "connect", "send"}
BY DEF AppPcs, SessionPcs, WriterPcs, TimerPcs, ExpelPcs, OwnerPcs, RemovalPcs

Moved == TypeOK /\ Places /\ Hands

LEMMA Move ==
  ASSUME Moved, NEW t \in Threads, NEW x, NEW l, Goes(t, x, l), Fits(t, x, l)
  PROVE  /\ Places' /\ Hands'
         /\ pc' \in [Threads -> {"idle", "try", "publish", "queue", "add", "respond", "start",
              "push", "first", "renew", "rearm", "expel", "remove", "stop", "cancel", "unref",
              "release", "delete", "fired", "stopAll", "stopping", "destroyed",
              "write", "props", "connect", "send"}]
         /\ cur' \in [Threads -> Subs \union {None}]
         /\ pc'[t] = l /\ cur'[t] = x
         /\ \A u \in Threads : u # t => pc'[u] = pc[u] /\ cur'[u] = cur[u]
<1>1. /\ pc \in [Threads -> {"idle", "try", "publish", "queue", "add", "respond", "start",
           "push", "first", "renew", "rearm", "expel", "remove", "stop", "cancel", "unref",
           "release", "delete", "fired", "stopAll", "stopping", "destroyed",
           "write", "props", "connect", "send"}]
      /\ cur \in [Threads -> Subs \union {None}]
  BY DEF Moved, TypeOK
<1>2. /\ \A u \in Threads : u # t => pc'[u] = pc[u] /\ cur'[u] = cur[u]
      /\ pc'[t] = l /\ cur'[t] = x
      /\ DOMAIN pc' = Threads /\ DOMAIN cur' = Threads
  BY <1>1 DEF Goes
<1>3. l \in AppPcs \union SessionPcs \union WriterPcs \union TimerPcs \union ExpelPcs \union OwnerPcs
  BY Kinds DEF Fits
<1>4. Places'
  BY <1>2, Kinds DEF Moved, Places, Fits
<1>5. Hands'
  BY <1>2 DEF Moved, Hands, Fits
<1>6. cur' \in [Threads -> Subs \union {None}]
  BY <1>1 DEF Goes, Fits
<1>7. pc' \in [Threads -> {"idle", "try", "publish", "queue", "add", "respond", "start",
              "push", "first", "renew", "rearm", "expel", "remove", "stop", "cancel", "unref",
              "release", "delete", "fired", "stopAll", "stopping", "destroyed",
              "write", "props", "connect", "send"}]
  BY <1>1, <1>3, PcsKnown DEF Goes
<1> QED
  BY <1>2, <1>4, <1>5, <1>6, <1>7

-----------------------------------------------------------------------------
(* Who has a reference                                                      *)

LEMMA Typed ==
  ASSUME IInv
  PROVE  /\ TypeOK /\ Places /\ Hands /\ Locks /\ Loops
         /\ OneHolder /\ Served /\ Counted /\ Lives /\ Versions /\ Guarded
         /\ ChangeIsPending /\ Unsent
         /\ Moved
BY DEF IInv, Moved

LEMMA PartTypes ==
  ASSUME NEW s \in Subs, iList \in Seq(Subs)
  PROVE  /\ HowOften(iList, s) \in Nat
         /\ IsFiniteSet(Members(s)) /\ Cardinality(Members(s)) \in Nat
         /\ ListPart(s) \in {0, 1}
<1>1. HowOften(iList, s) \in Nat
  BY CountAppend
<1>2. IsFiniteSet(Publishers \union {Closer})
  BY PublisherAssumption, FS_AddElement
<1>3. Members(s) \subseteq Publishers \union {Closer}
  BY DEF Members
<1>4. IsFiniteSet(Members(s)) /\ Cardinality(Members(s)) \in Nat
  BY <1>2, <1>3, FS_Subset, FS_CardinalityType
<1> QED
  BY <1>1, <1>4 DEF ListPart

(* What is queued is counted.                                               *)
LEMMA HeadCounted ==
  ASSUME iList \in Seq(Subs), iList # <<>>
  PROVE  /\ Head(iList) \in Subs /\ Tail(iList) \in Seq(Subs)
         /\ HowOften(iList, Head(iList)) > 0
<1>1. Head(iList) \in Subs /\ Tail(iList) \in Seq(Subs)
  BY TailElements
<1>2. HowOften(Tail(iList), Head(iList)) \in Nat
  BY <1>1, CountAppend
<1>3. HowOften(Tail(iList), Head(iList)) = HowOften(iList, Head(iList)) - 1
      /\ HowOften(iList, Head(iList)) \in Nat
  BY <1>1, CountTail
<1> QED
  BY <1>1, <1>2, <1>3

(* Each of these accounts for one reference.                                *)
LEMMA Referenced ==
  ASSUME IInv, NEW s \in Subs
  PROVE  /\ iRefCount[s] \in Nat
         /\ iService[s] \/ Listed(s) \/ s \in iMap \/ Holders(s) # {} => ListPart(s) = 1
         /\ ListPart(s) = 1 => iRefCount[s] >= 1
         /\ HowOften(iList, s) > 0 => iRefCount[s] >= 1
         /\ Members(s) # {} => iRefCount[s] >= 1
         /\ Members(s) # {} /\ ListPart(s) = 1 => iRefCount[s] >= 2
<1>1. iList \in Seq(Subs) /\ iRefCount[s] \in Nat
  BY Typed DEF TypeOK
<1>2. iService[s] \/ Listed(s) \/ s \in iMap \/ Holders(s) # {} => ListPart(s) = 1
  BY Typed DEF ListPart, Served
<1>3. iRefCount[s] = HowOften(iList, s) + Cardinality(Members(s)) + ListPart(s)
  BY Typed DEF Counted
<1>4. PICK a \in Nat, b \in Nat : HowOften(iList, s) = a /\ Cardinality(Members(s)) = b
  BY <1>1, PartTypes
<1>5. ListPart(s) \in {0, 1}
  BY <1>1, PartTypes
<1>6. Members(s) # {} => b >= 1
  BY <1>1, <1>4, PartTypes, FS_EmptySet
<1> QED
  BY <1>1, <1>2, <1>3, <1>4, <1>5, <1>6

(* The threads that have one.                                               *)
LEMMA Hold ==
  ASSUME IInv, NEW t \in Threads
  PROVE  /\ pc[t] \notin FreePcs => cur[t] \in Subs
         /\ pc[t] \in {"stop", "cancel", "unref"} => t \in Holders(cur[t])
         /\ t \in Sessions /\ pc[t] \in {"add", "respond", "start", "push"} => t \in Holders(cur[t])
         /\ t \in Publishers \union {Closer} /\ pc[t] \notin FreePcs \union {"delete"}
              => t \in Members(cur[t])
<1>1. cur[t] \in Subs <=> pc[t] \notin FreePcs
  BY Typed DEF Hands
<1> QED
  BY <1>1 DEF Holders, Members

LEMMA HoldCounts ==
  ASSUME IInv, NEW t \in Threads
  PROVE  /\ pc[t] \in {"stop", "cancel", "unref", "add", "respond", "start", "push", "expel",
                       "release", "write", "props", "connect", "send"} =>
              cur[t] \in Subs /\ iRefCount[cur[t]] >= 1 /\ obj[cur[t]] = "live"
         /\ pc[t] \in {"add", "respond", "start", "push"} => t \in Sessions
<1>1. Places
  BY Typed
<1>2. pc[t] \in {"add", "respond", "start", "push"} => t \in Sessions
  BY <1>1, Kinds DEF Places, AppPcs, SessionPcs, WriterPcs, TimerPcs, ExpelPcs,
     OwnerPcs, RemovalPcs
<1>3. pc[t] \in {"expel", "release", "write", "props", "connect", "send"} =>
        t \in Publishers \union {Closer}
  BY <1>1, Kinds DEF Places, AppPcs, SessionPcs, WriterPcs, TimerPcs, ExpelPcs,
     OwnerPcs, RemovalPcs
<1>4. pc[t] \in {"stop", "cancel", "unref", "add", "respond", "start", "push", "expel",
                 "release", "write", "props", "connect", "send"} =>
        cur[t] \in Subs /\ iRefCount[cur[t]] >= 1
  <2>1. pc[t] \in {"stop", "cancel", "unref", "add", "respond", "start", "push", "expel",
                   "release", "write", "props", "connect", "send"} => pc[t] \notin FreePcs \union {"delete"}
    BY DEF FreePcs
  <2>2. cur[t] \in Subs => iRefCount[cur[t]] \in Nat
    BY Referenced
  <2> QED
    BY <1>2, <1>3, <2>1, <2>2, Hold, Referenced
<1> QED
  BY <1>2, <1>4, Typed DEF Lives, TypeOK

-----------------------------------------------------------------------------
(* The steps keep the types and the places                                  *)

Stays == pc' = pc /\ cur' = cur

(* The types of what is not the threads' place and hand.                    *)
ServiceOK ==
  /\ svcLock \in Threads \union {None} /\ propLock \in Threads \union {None}
  /\ iSubscriptions \subseteq Subs /\ version \in Nat
  /\ iDelayPropertyUpdates \in BOOLEAN /\ iPropertyChanged \in BOOLEAN
  /\ iMap \subseteq Subs /\ iList \in Seq(Subs)

SubOK ==
  /\ obj \in [Subs -> {"none", "live", "dead"}]
  /\ iRefCount \in [Subs -> Nat]
  /\ iService \in [Subs -> BOOLEAN]
  /\ iPropertySequenceNumbers \in [Subs -> Nat]
  /\ iSequenceNumber \in [Subs -> 0..SeqMax]
  /\ iLock \in [Subs -> Threads \union {None}]
  /\ armed \in [Subs -> BOOLEAN]

RestOK ==
  /\ factory \in [Subs -> Sessions \union {None}]
  /\ iSubscriptionMap \subseteq Subs
  /\ iEnabled \in [Sessions -> BOOLEAN]
  /\ cbLock \in {Timer, None}
  /\ enabled \in BOOLEAN /\ mapped \in BOOLEAN /\ switches \in Nat
  /\ todo \in [Threads -> SUBSET Subs]
  /\ fault \in {"none", "expired", "renewed", "queued"}

SeenOK ==
  /\ writer \in [Publishers -> Message]
  /\ got \in [Subs -> Message] /\ newest \in [Subs -> Message]
  /\ failed \in [Subs -> BOOLEAN]

PcOK ==
  pc \in [Threads -> {"idle", "try", "publish", "queue", "add", "respond", "start",
       "push", "first", "renew", "rearm", "expel", "remove", "stop", "cancel", "unref",
       "release", "delete", "fired", "stopAll", "stopping", "destroyed",
       "write", "props", "connect", "send"}]

LEMMA TypeParts ==
  TypeOK <=> ServiceOK /\ SubOK /\ RestOK /\ SeenOK /\ PcOK /\ cur \in [Threads -> Subs \union {None}]
BY DEF TypeOK, ServiceOK, SubOK, RestOK, SeenOK, PcOK

LEMMA TypePartsNext ==
  TypeOK' <=> ServiceOK' /\ SubOK' /\ RestOK' /\ SeenOK' /\ PcOK' /\ cur' \in [Threads -> Subs \union {None}]
BY DEF TypeOK, ServiceOK, SubOK, RestOK, SeenOK, PcOK

LEMMA Stay ==
  ASSUME Moved, Stays
  PROVE  Places' /\ Hands' /\ PcOK' /\ cur' \in [Threads -> Subs \union {None}]
BY DEF Moved, Places, Hands, Stays, TypeOK, PcOK

(* What a subscriber has of a notification.                                 *)
LEMMA Received ==
  ASSUME NEW p \in Publishers, Send(p), newest \in [Subs -> Message]
  PROVE  /\ got' = got \/ got' = [got EXCEPT ![cur[p]] = writer[p]]
         /\ \/ newest' = newest
            \/ /\ newest' = [newest EXCEPT ![cur[p]] = writer[p]]
               /\ newest[cur[p]].seq <= writer[p].seq
<1>1. CASE UNCHANGED <<got, newest>>
  BY <1>1
<1>2. CASE Receive(cur[p], writer[p]) /\ newest[cur[p]].seq <= writer[p].seq
  BY <1>2 DEF Receive
<1>3. CASE Receive(cur[p], writer[p]) /\ ~(newest[cur[p]].seq <= writer[p].seq)
  BY <1>3 DEF Receive
<1> QED
  BY <1>1, <1>2, <1>3 DEF Send

LEMMA ReceivedOnly ==
  ASSUME NEW p \in Publishers, Send(p), newest \in [Subs -> Message], got \in [Subs -> Message],
         NEW r \in Subs
  PROVE  /\ r # cur[p] => newest'[r] = newest[r] /\ got'[r] = got[r]
         /\ newest'[r] = newest[r] \/ newest'[r] = writer[p]
         /\ got'[r] = got[r] \/ got'[r] = writer[p]
<1>1. /\ got' = got \/ got' = [got EXCEPT ![cur[p]] = writer[p]]
      /\ newest' = newest \/ newest' = [newest EXCEPT ![cur[p]] = writer[p]]
  BY Received
<1> QED
  BY <1>1

LEMMA MoveTypes ==
  ASSUME Moved, NEW t \in Threads, NEW x, NEW l, Goes(t, x, l), Fits(t, x, l)
  PROVE  Places' /\ Hands' /\ PcOK' /\ cur' \in [Threads -> Subs \union {None}]
BY Move DEF PcOK

(* Where a removal ends.                                                    *)
LEMMA AfterFits ==
  ASSUME IInv, NEW t \in Threads \ Apps, pc[t] \in RemovalPcs
  PROVE  /\ cur[t] \in Subs
         /\ Fits(t, cur[t], "delete") /\ Fits(t, cur[t], "unref")
         /\ Fits(t, cur[t], "cancel")
         /\ Fits(t, cur[t], "stop")
         /\ Fits(t, IF After(t) = "release" THEN cur[t] ELSE None, After(t))
         /\ Fits(t, IF AfterDelete(t) = "release" THEN cur[t] ELSE None, AfterDelete(t))
<1>1. cur[t] \in Subs
  BY Typed DEF Hands, FreePcs, RemovalPcs
<1>2. None \notin Subs
  BY Kinds
<1>3. CASE t \in Publishers \union {Closer}
  BY <1>1, <1>2, <1>3, Kinds DEF Fits, After, AfterDelete, FreePcs, RemovalPcs,
     WriterPcs, ExpelPcs
<1>4. CASE t = Timer
  BY <1>1, <1>2, <1>4, Kinds DEF Fits, After, AfterDelete, FreePcs, RemovalPcs, TimerPcs
<1>5. CASE t = Owner
  BY <1>1, <1>2, <1>5, Kinds DEF Fits, After, AfterDelete, FreePcs, RemovalPcs, OwnerPcs
<1>6. CASE t \in Sessions
  BY <1>1, <1>2, <1>6, Kinds DEF Fits, After, AfterDelete, FreePcs, RemovalPcs, SessionPcs
<1> QED
  BY <1>3, <1>4, <1>5, <1>6, Kinds

LEMMA MovedStep ==
  ASSUME IInv, Next
  PROVE  Moved'
<1> USE DEF service, manager, sub, fac, device, threads, seen
<1>0. /\ Moved /\ Places /\ Hands
      /\ ServiceOK /\ SubOK /\ RestOK /\ SeenOK
      /\ cur \in [Threads -> Subs \union {None}]
      /\ DOMAIN pc = Threads
      /\ \A t \in Threads : pc[t] \notin FreePcs => cur[t] \in Subs
  BY Typed, TypeParts DEF PcOK, Hands
<1>1. ASSUME NEW a \in Apps, SetProperty(a)
      PROVE  Moved'
  <2>u. SubOK' /\ RestOK' /\ SeenOK'
    BY <1>0, <1>1 DEF SetProperty, SubOK, RestOK, SeenOK
  <2>a. ServiceOK'
    BY <1>0, <1>1, Kinds, BoundAssumption DEF SetProperty, ServiceOK
  <2>1. Goes(a, cur[a], "try")
    BY <1>0, <1>1, Kinds DEF SetProperty, Goto, GoIdle, Goes
  <2>2. Fits(a, cur[a], "try")
    BY <1>0, <1>1, Kinds DEF SetProperty, Places, Hands, Fits, FreePcs, AppPcs,
       SessionPcs, WriterPcs, ExpelPcs, TimerPcs, OwnerPcs, RemovalPcs
  <2> QED
    BY <1>0, <2>1, <2>2, <2>u, <2>a, Kinds, MoveTypes, TypePartsNext DEF Moved
<1>2. ASSUME NEW a \in Apps, TryPublishUpdate(a)
      PROVE  Moved'
  <2>u. SubOK' /\ RestOK' /\ SeenOK'
    BY <1>0, <1>2 DEF TryPublishUpdate, SubOK, RestOK, SeenOK
  <2>a. ServiceOK'
    BY <1>0, <1>2, Kinds, BoundAssumption DEF TryPublishUpdate, ServiceOK
  <2>1. Goes(a, cur[a], IF iDelayPropertyUpdates THEN "idle" ELSE "publish")
    BY <1>0, <1>2, Kinds DEF TryPublishUpdate, Goto, GoIdle, Goes
  <2>2. Fits(a, cur[a], IF iDelayPropertyUpdates THEN "idle" ELSE "publish")
    BY <1>0, <1>2, Kinds DEF TryPublishUpdate, Places, Hands, Fits, FreePcs, AppPcs,
       SessionPcs, WriterPcs, ExpelPcs, TimerPcs, OwnerPcs, RemovalPcs
  <2> QED
    BY <1>0, <2>1, <2>2, <2>u, <2>a, Kinds, MoveTypes, TypePartsNext DEF Moved
<1>3. ASSUME NEW a \in Apps, PropertiesLock(a)
      PROVE  Moved'
  <2>u. SubOK' /\ RestOK' /\ SeenOK'
    BY <1>0, <1>3 DEF PropertiesLock, SubOK, RestOK, SeenOK
  <2>a. ServiceOK'
    BY <1>0, <1>3, Kinds, BoundAssumption DEF PropertiesLock, ServiceOK
  <2>1. Stays
    BY <1>3 DEF PropertiesLock, Stays
  <2> QED
    BY <1>0, <2>1, <2>u, <2>a, Stay, TypePartsNext DEF Moved
<1>4. ASSUME NEW a \in Apps, PropertiesUnlock(a)
      PROVE  Moved'
  <2>u. SubOK' /\ RestOK' /\ SeenOK'
    BY <1>0, <1>4 DEF PropertiesUnlock, SubOK, RestOK, SeenOK
  <2>a. ServiceOK'
    BY <1>0, <1>4, Kinds, BoundAssumption DEF PropertiesUnlock, ServiceOK
  <2>1. Goes(a, cur[a], IF iPropertyChanged THEN "publish" ELSE "idle")
    BY <1>0, <1>4, Kinds DEF PropertiesUnlock, Goto, GoIdle, Goes
  <2>2. Fits(a, cur[a], IF iPropertyChanged THEN "publish" ELSE "idle")
    BY <1>0, <1>4, Kinds DEF PropertiesUnlock, Places, Hands, Fits, FreePcs, AppPcs,
       SessionPcs, WriterPcs, ExpelPcs, TimerPcs, OwnerPcs, RemovalPcs
  <2> QED
    BY <1>0, <2>1, <2>2, <2>u, <2>a, Kinds, MoveTypes, TypePartsNext DEF Moved
<1>5. ASSUME NEW t \in Apps \union {Owner}, PublishBegin(t)
      PROVE  Moved'
  <2>u. SubOK' /\ SeenOK'
    BY <1>0, <1>5 DEF PublishBegin, SubOK, SeenOK
  <2>a. ServiceOK'
    BY <1>0, <1>5, Kinds, BoundAssumption DEF PublishBegin, ServiceOK
  <2>b. RestOK'
    BY <1>0, <1>5, Kinds, BoundAssumption DEF PublishBegin, RestOK, ServiceOK
  <2>1. Goes(t, cur[t], "queue")
    BY <1>0, <1>5, Kinds DEF PublishBegin, Goto, GoIdle, Goes
  <2>2. Fits(t, cur[t], "queue")
    BY <1>0, <1>5, Kinds DEF PublishBegin, Places, Hands, Fits, FreePcs, AppPcs,
       SessionPcs, WriterPcs, ExpelPcs, TimerPcs, OwnerPcs, RemovalPcs
  <2> QED
    BY <1>0, <2>1, <2>2, <2>u, <2>a, <2>b, Kinds, MoveTypes, TypePartsNext DEF Moved
<1>6. ASSUME NEW t \in Apps \union {Owner}, PublishOne(t)
      PROVE  Moved'
  <2>u. SeenOK'
    BY <1>0, <1>6 DEF PublishOne, QueueUpdate, SeenOK
  <2>a. ServiceOK'
    <3>1. PICK s \in todo[t] : iList' = Append(iList, s)
      BY <1>6 DEF PublishOne, QueueUpdate
    <3>2. s \in Subs
      BY <1>0, Kinds DEF RestOK
    <3>3. iList' \in Seq(Subs)
      BY <1>0, <3>1, <3>2, AppendElements DEF ServiceOK
    <3>4. UNCHANGED <<service, iMap>>
      BY <1>6 DEF PublishOne, QueueUpdate
    <3> QED
      BY <1>0, <3>3, <3>4 DEF ServiceOK
  <2>b. SubOK'
    BY <1>0, <1>6, Kinds, BoundAssumption DEF PublishOne, QueueUpdate, SubOK, RestOK
  <2>c. RestOK'
    BY <1>0, <1>6, Kinds, BoundAssumption DEF PublishOne, QueueUpdate, RestOK
  <2>1. Stays
    BY <1>6 DEF PublishOne, QueueUpdate, Stays
  <2> QED
    BY <1>0, <2>1, <2>u, <2>a, <2>b, <2>c, Stay, TypePartsNext DEF Moved
<1>7. ASSUME NEW t \in Apps \union {Owner}, PublishEnd(t)
      PROVE  Moved'
  <2>u. SubOK' /\ RestOK' /\ SeenOK'
    BY <1>0, <1>7 DEF PublishEnd, SubOK, RestOK, SeenOK
  <2>a. ServiceOK'
    BY <1>0, <1>7, Kinds, BoundAssumption DEF PublishEnd, ServiceOK
  <2>1. Goes(t, cur[t], "idle")
    BY <1>0, <1>7, Kinds DEF PublishEnd, Goto, GoIdle, Goes
  <2>2. Fits(t, cur[t], "idle")
    BY <1>0, <1>7, Kinds DEF PublishEnd, Places, Hands, Fits, FreePcs, AppPcs,
       SessionPcs, WriterPcs, ExpelPcs, TimerPcs, OwnerPcs, RemovalPcs
  <2> QED
    BY <1>0, <2>1, <2>2, <2>u, <2>a, Kinds, MoveTypes, TypePartsNext DEF Moved
<1>8. ASSUME NEW e \in Sessions, NEW s \in Subs, Subscribe(e, s)
      PROVE  Moved'
  <2>u. ServiceOK' /\ SeenOK'
    BY <1>0, <1>8 DEF Subscribe, Accepts, ServiceOK, SeenOK
  <2>a. SubOK'
    BY <1>0, <1>8, Kinds, BoundAssumption DEF Subscribe, Accepts, SubOK
  <2>b. RestOK'
    BY <1>0, <1>8, Kinds, BoundAssumption DEF Subscribe, Accepts, RestOK
  <2>1. Goes(e, s, "add")
    BY <1>0, <1>8, Kinds DEF Subscribe, Accepts, Goto, GoIdle, Goes
  <2>2. Fits(e, s, "add")
    BY <1>0, <1>8, Kinds DEF Subscribe, Accepts, Places, Hands, Fits, FreePcs, AppPcs,
       SessionPcs, WriterPcs, ExpelPcs, TimerPcs, OwnerPcs, RemovalPcs
  <2> QED
    BY <1>0, <2>1, <2>2, <2>u, <2>a, <2>b, Kinds, MoveTypes, TypePartsNext DEF Moved
<1>9. ASSUME NEW e \in Sessions, AddSubscription(e)
      PROVE  Moved'
  <2>h. e \in Threads /\ cur[e] \in Subs
    BY <1>0, <1>9, Kinds DEF AddSubscription, FreePcs
  <2>u. SubOK' /\ RestOK' /\ SeenOK'
    BY <1>0, <1>9 DEF AddSubscription, SubOK, RestOK, SeenOK
  <2>a. ServiceOK'
    BY <1>0, <1>9, <2>h, Kinds, BoundAssumption DEF AddSubscription, ServiceOK
  <2>1. Goes(e, cur[e], "respond")
    BY <1>0, <1>9, Kinds DEF AddSubscription, Goto, GoIdle, Goes
  <2>2. Fits(e, cur[e], "respond")
    BY <1>0, <1>9, <2>h, Kinds DEF AddSubscription, Places, Hands, Fits, FreePcs,
       AppPcs, SessionPcs, WriterPcs, ExpelPcs, TimerPcs, OwnerPcs, RemovalPcs
  <2> QED
    BY <1>0, <2>1, <2>2, <2>u, <2>a, Kinds, MoveTypes, TypePartsNext DEF Moved
<1>10. ASSUME NEW e \in Sessions, Respond(e)
      PROVE  Moved'
  <2>h. e \in Threads /\ cur[e] \in Subs
    BY <1>0, <1>10, Kinds DEF Respond, FreePcs
  <2>u. ServiceOK' /\ SubOK' /\ RestOK' /\ SeenOK'
    BY <1>0, <1>10 DEF Respond, ServiceOK, SubOK, RestOK, SeenOK
  <2>1. CASE Goes(e, cur[e], "start")
    <3>1. Fits(e, cur[e], "start")
      BY <1>0, <1>10, <2>h, Kinds DEF Respond, Places, Hands, Fits, FreePcs, AppPcs,
         SessionPcs, WriterPcs, ExpelPcs, TimerPcs, OwnerPcs, RemovalPcs
    <3> QED
      BY <1>0, <2>1, <3>1, <2>u, Kinds, MoveTypes, TypePartsNext DEF Moved
  <2>2. CASE Goes(e, None, "idle")
    <3>1. Fits(e, None, "idle")
      BY <1>0, <1>10, <2>h, Kinds DEF Respond, Places, Hands, Fits, FreePcs, AppPcs,
         SessionPcs, WriterPcs, ExpelPcs, TimerPcs, OwnerPcs, RemovalPcs
    <3> QED
      BY <1>0, <2>2, <3>1, <2>u, Kinds, MoveTypes, TypePartsNext DEF Moved
  <2> QED
    BY <1>0, <1>10, <2>1, <2>2, Kinds DEF Respond, Goto, GoIdle, Goes
<1>11. ASSUME NEW e \in Sessions, Start(e)
      PROVE  Moved'
  <2>h. e \in Threads /\ cur[e] \in Subs
    BY <1>0, <1>11, Kinds DEF Start, FreePcs
  <2>u. ServiceOK' /\ RestOK' /\ SeenOK'
    BY <1>0, <1>11 DEF Start, ServiceOK, RestOK, SeenOK
  <2>a. SubOK'
    BY <1>0, <1>11, <2>h, Kinds, BoundAssumption DEF Start, SubOK
  <2>1. Goes(e, cur[e], "push")
    BY <1>0, <1>11, Kinds DEF Start, Goto, GoIdle, Goes
  <2>2. Fits(e, cur[e], "push")
    BY <1>0, <1>11, <2>h, Kinds DEF Start, Places, Hands, Fits, FreePcs, AppPcs,
       SessionPcs, WriterPcs, ExpelPcs, TimerPcs, OwnerPcs, RemovalPcs
  <2> QED
    BY <1>0, <2>1, <2>2, <2>u, <2>a, Kinds, MoveTypes, TypePartsNext DEF Moved
<1>12. ASSUME NEW e \in Sessions, PushSubscription(e)
      PROVE  Moved'
  <2>h. e \in Threads /\ cur[e] \in Subs
    BY <1>0, <1>12, Kinds DEF PushSubscription, FreePcs
  <2>u. SubOK' /\ RestOK' /\ SeenOK'
    BY <1>0, <1>12 DEF PushSubscription, SubOK, RestOK, SeenOK
  <2>a. ServiceOK'
    BY <1>0, <1>12, <2>h, Kinds, BoundAssumption DEF PushSubscription, ServiceOK
  <2>1. Goes(e, cur[e], "first")
    BY <1>0, <1>12, Kinds DEF PushSubscription, Goto, GoIdle, Goes
  <2>2. Fits(e, cur[e], "first")
    BY <1>0, <1>12, <2>h, Kinds DEF PushSubscription, Places, Hands, Fits, FreePcs,
       AppPcs, SessionPcs, WriterPcs, ExpelPcs, TimerPcs, OwnerPcs, RemovalPcs
  <2> QED
    BY <1>0, <2>1, <2>2, <2>u, <2>a, Kinds, MoveTypes, TypePartsNext DEF Moved
<1>13. ASSUME NEW e \in Sessions, FirstUpdate(e)
      PROVE  Moved'
  <2>h. e \in Threads /\ cur[e] \in Subs
    BY <1>0, <1>13, Kinds DEF FirstUpdate, FreePcs
  <2>u. SeenOK'
    BY <1>0, <1>13 DEF FirstUpdate, Crash, QueueUpdate, SeenOK
  <2>a. ServiceOK'
    <3>1. CASE iRefCount[cur[e]] = 0
      BY <1>0, <1>13, <3>1 DEF FirstUpdate, Crash, ServiceOK
    <3>2. CASE iRefCount[cur[e]] # 0
      <4>1. iList' = Append(iList, cur[e]) /\ UNCHANGED <<service, iMap>>
        BY <1>13, <3>2 DEF FirstUpdate, QueueUpdate
      <4> QED
        BY <1>0, <2>h, <4>1, AppendElements DEF ServiceOK
    <3> QED
      BY <3>1, <3>2
  <2>b. SubOK'
    <3>1. CASE iRefCount[cur[e]] = 0
      BY <1>0, <1>13, <3>1 DEF FirstUpdate, Crash, SubOK
    <3>2. CASE iRefCount[cur[e]] # 0
      <4>1. /\ iRefCount' = [iRefCount EXCEPT ![cur[e]] = iRefCount[cur[e]] + 1]
            /\ UNCHANGED <<obj, iService, iPropertySequenceNumbers, iSequenceNumber, iLock, armed>>
        BY <1>13, <3>2 DEF FirstUpdate, QueueUpdate
      <4> QED
        BY <1>0, <2>h, <4>1 DEF SubOK
    <3> QED
      BY <3>1, <3>2
  <2>c. RestOK'
    BY <1>0, <1>13, <2>h, Kinds, BoundAssumption DEF FirstUpdate, Crash, QueueUpdate,
       RestOK
  <2>1. CASE Goes(e, None, "idle")
    <3>1. Fits(e, None, "idle")
      BY <1>0, <1>13, <2>h, Kinds DEF FirstUpdate, Crash, QueueUpdate, Places, Hands,
         Fits, FreePcs, AppPcs, SessionPcs, WriterPcs, ExpelPcs, TimerPcs, OwnerPcs,
         RemovalPcs
    <3> QED
      BY <1>0, <2>1, <3>1, <2>u, <2>a, <2>b, <2>c, Kinds, MoveTypes, TypePartsNext
         DEF Moved
  <2>2. CASE Stays
    BY <1>0, <2>2, <2>u, <2>a, <2>b, <2>c, Stay, TypePartsNext DEF Moved
  <2> QED
    BY <1>0, <1>13, <2>1, <2>2, Kinds DEF FirstUpdate, Crash, QueueUpdate, Goto, GoIdle,
       Goes, Stays
<1>14. ASSUME NEW e \in Sessions, NEW s \in Subs, Renew(e, s)
      PROVE  Moved'
  <2>u. ServiceOK' /\ SubOK' /\ RestOK' /\ SeenOK'
    BY <1>0, <1>14 DEF Renew, Accepts, Find, ServiceOK, SubOK, RestOK, SeenOK
  <2>1. Goes(e, s, "renew")
    BY <1>0, <1>14, Kinds DEF Renew, Accepts, Find, Goto, GoIdle, Goes
  <2>2. Fits(e, s, "renew")
    BY <1>0, <1>14, Kinds DEF Renew, Accepts, Find, Places, Hands, Fits, FreePcs,
       AppPcs, SessionPcs, WriterPcs, ExpelPcs, TimerPcs, OwnerPcs, RemovalPcs
  <2> QED
    BY <1>0, <2>1, <2>2, <2>u, Kinds, MoveTypes, TypePartsNext DEF Moved
<1>15. ASSUME NEW e \in Sessions, NEW s \in Subs, Unsubscribe(e, s)
      PROVE  Moved'
  <2>u. ServiceOK' /\ SubOK' /\ RestOK' /\ SeenOK'
    BY <1>0, <1>15 DEF Unsubscribe, Accepts, Find, ServiceOK, SubOK, RestOK, SeenOK
  <2>1. Goes(e, s, "remove")
    BY <1>0, <1>15, Kinds DEF Unsubscribe, Accepts, Find, Goto, GoIdle, Goes
  <2>2. Fits(e, s, "remove")
    BY <1>0, <1>15, Kinds DEF Unsubscribe, Accepts, Find, Places, Hands, Fits, FreePcs,
       AppPcs, SessionPcs, WriterPcs, ExpelPcs, TimerPcs, OwnerPcs, RemovalPcs
  <2> QED
    BY <1>0, <2>1, <2>2, <2>u, Kinds, MoveTypes, TypePartsNext DEF Moved
<1>16. ASSUME NEW e \in Sessions, RenewCheck(e)
      PROVE  Moved'
  <2>h. e \in Threads /\ cur[e] \in Subs
    BY <1>0, <1>16, Kinds DEF RenewCheck, FreePcs
  <2>u. ServiceOK' /\ SubOK' /\ SeenOK'
    BY <1>0, <1>16 DEF RenewCheck, Crash, ServiceOK, SubOK, SeenOK
  <2>a. RestOK'
    BY <1>0, <1>16, <2>h, Kinds, BoundAssumption DEF RenewCheck, Crash, RestOK
  <2>1. CASE Goes(e, cur[e], "rearm")
    <3>1. Fits(e, cur[e], "rearm")
      BY <1>0, <1>16, <2>h, Kinds DEF RenewCheck, Crash, Places, Hands, Fits, FreePcs,
         AppPcs, SessionPcs, WriterPcs, ExpelPcs, TimerPcs, OwnerPcs, RemovalPcs
    <3> QED
      BY <1>0, <2>1, <3>1, <2>u, <2>a, Kinds, MoveTypes, TypePartsNext DEF Moved
  <2>2. CASE Stays
    BY <1>0, <2>2, <2>u, <2>a, Stay, TypePartsNext DEF Moved
  <2> QED
    BY <1>0, <1>16, <2>1, <2>2, Kinds DEF RenewCheck, Crash, Goto, GoIdle, Goes, Stays
<1>17. ASSUME NEW e \in Sessions, DoRenew(e)
      PROVE  Moved'
  <2>h. e \in Threads /\ cur[e] \in Subs
    BY <1>0, <1>17, Kinds DEF DoRenew, FreePcs
  <2>u. ServiceOK' /\ SeenOK'
    BY <1>0, <1>17 DEF DoRenew, Crash, ServiceOK, SeenOK
  <2>a. SubOK'
    BY <1>0, <1>17, <2>h, Kinds, BoundAssumption, ZenonT(40) DEF DoRenew, Crash, SubOK
  <2>b. RestOK'
    BY <1>0, <1>17, <2>h, Kinds, BoundAssumption DEF DoRenew, Crash, RestOK
  <2>1. CASE Goes(e, None, "idle")
    <3>1. Fits(e, None, "idle")
      BY <1>0, <1>17, <2>h, Kinds DEF DoRenew, Crash, Places, Hands, Fits, FreePcs,
         AppPcs, SessionPcs, WriterPcs, ExpelPcs, TimerPcs, OwnerPcs, RemovalPcs
    <3> QED
      BY <1>0, <2>1, <3>1, <2>u, <2>a, <2>b, Kinds, MoveTypes, TypePartsNext DEF Moved
  <2>2. CASE Stays
    BY <1>0, <2>2, <2>u, <2>a, <2>b, Stay, TypePartsNext DEF Moved
  <2> QED
    BY <1>0, <1>17, <2>1, <2>2, Kinds DEF DoRenew, Crash, Goto, GoIdle, Goes, Stays
<1>18. ASSUME NEW t \in Publishers \union {Closer}, Expel(t)
      PROVE  Moved'
  <2>h. t \in Threads /\ cur[t] \in Subs
    BY <1>0, <1>18, Kinds DEF Expel, FreePcs
  <2>u. ServiceOK' /\ SubOK' /\ RestOK' /\ SeenOK'
    BY <1>0, <1>18 DEF Expel, ServiceOK, SubOK, RestOK, SeenOK
  <2>1. Goes(t, cur[t], IF iService[cur[t]] THEN "remove" ELSE "release")
    BY <1>0, <1>18, Kinds DEF Expel, Goto, GoIdle, Goes
  <2>2. Fits(t, cur[t], IF iService[cur[t]] THEN "remove" ELSE "release")
    BY <1>0, <1>18, <2>h, Kinds DEF Expel, Places, Hands, Fits, FreePcs, AppPcs,
       SessionPcs, WriterPcs, ExpelPcs, TimerPcs, OwnerPcs, RemovalPcs
  <2> QED
    BY <1>0, <2>1, <2>2, <2>u, Kinds, MoveTypes, TypePartsNext DEF Moved
<1>19. ASSUME NEW t \in Threads \ Apps, RemoveSubscription(t)
      PROVE  Moved'
  <2>h. t \in Threads /\ cur[t] \in Subs
    BY <1>0, <1>19, Kinds DEF RemoveSubscription, FreePcs
  <2>u. SubOK' /\ RestOK' /\ SeenOK'
    BY <1>0, <1>19 DEF RemoveSubscription, Leave, RemovalPcs, SubOK, RestOK, SeenOK
  <2>a. ServiceOK'
    BY <1>0, <1>19, <2>h, Kinds, BoundAssumption DEF RemoveSubscription, Leave,
       RemovalPcs, ServiceOK
  <2>1. CASE Goes(t, cur[t], "stop")
    <3>1. Fits(t, cur[t], "stop")
      BY <1>19, AfterFits DEF RemoveSubscription, Leave, RemovalPcs, Goto
    <3> QED
      BY <1>0, <2>1, <3>1, <2>u, <2>a, Kinds, MoveTypes, TypePartsNext DEF Moved
  <2>2. CASE Goes(t, IF After(t) = "release" THEN cur[t] ELSE None, After(t))
    <3>1. Fits(t, IF After(t) = "release" THEN cur[t] ELSE None, After(t))
      BY <1>19, AfterFits DEF RemoveSubscription, Leave, RemovalPcs, Goto
    <3> QED
      BY <1>0, <2>2, <3>1, <2>u, <2>a, Kinds, MoveTypes, TypePartsNext DEF Moved
  <2> QED
    BY <1>0, <1>19, <2>1, <2>2, Kinds DEF RemoveSubscription, Leave, RemovalPcs, Goto,
       GoIdle, Goes
<1>20. ASSUME NEW t \in Threads \ Apps, StopLock(t)
      PROVE  Moved'
  <2>h. t \in Threads /\ cur[t] \in Subs
    BY <1>0, <1>20, Kinds DEF StopLock, FreePcs
  <2>u. ServiceOK' /\ RestOK' /\ SeenOK'
    BY <1>0, <1>20 DEF StopLock, RemovalPcs, ServiceOK, RestOK, SeenOK
  <2>a. SubOK'
    BY <1>0, <1>20, <2>h, Kinds, BoundAssumption DEF StopLock, RemovalPcs, SubOK
  <2>1. Goes(t, cur[t], "cancel")
    BY <1>0, <1>20, Kinds DEF StopLock, RemovalPcs, Goto, GoIdle, Goes
  <2>2. Fits(t, cur[t], "cancel")
    BY <1>20, AfterFits DEF StopLock, RemovalPcs, Goto
  <2> QED
    BY <1>0, <2>1, <2>2, <2>u, <2>a, Kinds, MoveTypes, TypePartsNext DEF Moved
<1>21. ASSUME NEW t \in Threads \ Apps, StopCancel(t)
      PROVE  Moved'
  <2>h. t \in Threads /\ cur[t] \in Subs
    BY <1>0, <1>21, Kinds DEF StopCancel, FreePcs
  <2>u. ServiceOK' /\ RestOK' /\ SeenOK'
    BY <1>0, <1>21 DEF StopCancel, RemovalPcs, ServiceOK, RestOK, SeenOK
  <2>a. SubOK'
    BY <1>0, <1>21, <2>h, Kinds, BoundAssumption DEF StopCancel, RemovalPcs, SubOK
  <2>1. Goes(t, cur[t], "unref")
    BY <1>0, <1>21, Kinds DEF StopCancel, RemovalPcs, Goto, GoIdle, Goes
  <2>2. Fits(t, cur[t], "unref")
    BY <1>21, AfterFits DEF StopCancel, RemovalPcs, Goto
  <2> QED
    BY <1>0, <2>1, <2>2, <2>u, <2>a, Kinds, MoveTypes, TypePartsNext DEF Moved
<1>22. ASSUME NEW t \in Threads \ Apps, StopUnref(t)
      PROVE  Moved'
  <2>h. t \in Threads /\ cur[t] \in Subs /\ iRefCount[cur[t]] >= 1
    BY <1>0, <1>22, Kinds, HoldCounts DEF StopUnref, FreePcs
  <2>u. RestOK' /\ SeenOK'
    BY <1>0, <1>22 DEF StopUnref, Leave, RemoveRef, RemovalPcs, RestOK, SeenOK
  <2>a. ServiceOK'
    BY <1>0, <1>22, <2>h, Kinds, BoundAssumption DEF StopUnref, Leave, RemoveRef,
       RemovalPcs, ServiceOK
  <2>b. SubOK'
    BY <1>0, <1>22, <2>h, Kinds, BoundAssumption DEF StopUnref, Leave, RemoveRef,
       RemovalPcs, SubOK
  <2>1. CASE Goes(t, cur[t], "delete")
    <3>1. Fits(t, cur[t], "delete")
      BY <1>22, AfterFits DEF StopUnref, Leave, RemoveRef, RemovalPcs, Goto
    <3> QED
      BY <1>0, <2>1, <3>1, <2>u, <2>a, <2>b, Kinds, MoveTypes, TypePartsNext DEF Moved
  <2>2. CASE Goes(t, IF After(t) = "release" THEN cur[t] ELSE None, After(t))
    <3>1. Fits(t, IF After(t) = "release" THEN cur[t] ELSE None, After(t))
      BY <1>22, AfterFits DEF StopUnref, Leave, RemoveRef, RemovalPcs, Goto
    <3> QED
      BY <1>0, <2>2, <3>1, <2>u, <2>a, <2>b, Kinds, MoveTypes, TypePartsNext DEF Moved
  <2> QED
    BY <1>0, <1>22, <2>1, <2>2, Kinds DEF StopUnref, Leave, RemoveRef, RemovalPcs, Goto,
       GoIdle, Goes
<1>23. ASSUME NEW t \in Publishers \union {Closer}, Release(t)
      PROVE  Moved'
  <2>h. t \in Threads /\ cur[t] \in Subs /\ iRefCount[cur[t]] >= 1
    BY <1>0, <1>23, Kinds, HoldCounts DEF Release, FreePcs
  <2>u. ServiceOK' /\ RestOK' /\ SeenOK'
    BY <1>0, <1>23 DEF Release, Leave, RemoveRef, ServiceOK, RestOK, SeenOK
  <2>a. SubOK'
    BY <1>0, <1>23, <2>h, Kinds, BoundAssumption DEF Release, Leave, RemoveRef, SubOK
  <2>1. CASE Goes(t, cur[t], "delete")
    <3>1. Fits(t, cur[t], "delete")
      BY <1>0, <1>23, <2>h, Kinds DEF Release, Leave, RemoveRef, Places, Hands, Fits,
         FreePcs, AppPcs, SessionPcs, WriterPcs, ExpelPcs, TimerPcs, OwnerPcs,
         RemovalPcs
    <3> QED
      BY <1>0, <2>1, <3>1, <2>u, <2>a, Kinds, MoveTypes, TypePartsNext DEF Moved
  <2>2. CASE Goes(t, None, "idle")
    <3>1. Fits(t, None, "idle")
      BY <1>0, <1>23, <2>h, Kinds DEF Release, Leave, RemoveRef, Places, Hands, Fits,
         FreePcs, AppPcs, SessionPcs, WriterPcs, ExpelPcs, TimerPcs, OwnerPcs,
         RemovalPcs
    <3> QED
      BY <1>0, <2>2, <3>1, <2>u, <2>a, Kinds, MoveTypes, TypePartsNext DEF Moved
  <2> QED
    BY <1>0, <1>23, <2>1, <2>2, Kinds DEF Release, Leave, RemoveRef, Goto, GoIdle, Goes
<1>24. ASSUME NEW t \in Threads \ Apps, Delete(t)
      PROVE  Moved'
  <2>h. t \in Threads /\ cur[t] \in Subs
    BY <1>0, <1>24, Kinds DEF Delete, FreePcs
  <2>u. ServiceOK' /\ SeenOK'
    BY <1>0, <1>24 DEF Delete, Leave, RemovalPcs, ServiceOK, SeenOK
  <2>a. SubOK'
    BY <1>0, <1>24, <2>h, Kinds, BoundAssumption DEF Delete, Leave, RemovalPcs, SubOK
  <2>b. RestOK'
    BY <1>0, <1>24, <2>h, Kinds, BoundAssumption DEF Delete, Leave, RemovalPcs, RestOK
  <2>1. Goes(t, IF AfterDelete(t) = "release" THEN cur[t] ELSE None, AfterDelete(t))
    BY <1>0, <1>24, Kinds DEF Delete, Leave, RemovalPcs, Goto, GoIdle, Goes
  <2>2. Fits(t, IF AfterDelete(t) = "release" THEN cur[t] ELSE None, AfterDelete(t))
    BY <1>24, AfterFits DEF Delete, Leave, RemovalPcs, Goto
  <2> QED
    BY <1>0, <2>1, <2>2, <2>u, <2>a, <2>b, Kinds, MoveTypes, TypePartsNext DEF Moved
<1>25. ASSUME NEW s \in Subs, Expire(s)
      PROVE  Moved'
  <2>u. ServiceOK' /\ SeenOK'
    BY <1>0, <1>25 DEF Expire, Crash, ServiceOK, SeenOK
  <2>a. SubOK'
    BY <1>0, <1>25, Kinds, BoundAssumption, ZenonT(40) DEF Expire, Crash, SubOK
  <2>b. RestOK'
    BY <1>0, <1>25, Kinds, BoundAssumption DEF Expire, Crash, RestOK
  <2>1. CASE Goes(Timer, s, "remove")
    <3>1. Fits(Timer, s, "remove")
      BY <1>0, <1>25, Kinds DEF Expire, Crash, Places, Hands, Fits, FreePcs, AppPcs,
         SessionPcs, WriterPcs, ExpelPcs, TimerPcs, OwnerPcs, RemovalPcs
    <3> QED
      BY <1>0, <2>1, <3>1, <2>u, <2>a, <2>b, Kinds, MoveTypes, TypePartsNext DEF Moved
  <2>2. CASE Stays
    BY <1>0, <2>2, <2>u, <2>a, <2>b, Stay, TypePartsNext DEF Moved
  <2> QED
    BY <1>0, <1>25, <2>1, <2>2, Kinds DEF Expire, Crash, Goto, GoIdle, Goes, Stays
<1>26. ASSUME Fired
      PROVE  Moved'
  <2>u. ServiceOK' /\ SubOK' /\ SeenOK'
    BY <1>0, <1>26 DEF Fired, ServiceOK, SubOK, SeenOK
  <2>a. RestOK'
    BY <1>0, <1>26, Kinds, BoundAssumption DEF Fired, RestOK
  <2>1. Goes(Timer, None, "idle")
    BY <1>0, <1>26, Kinds DEF Fired, Goto, GoIdle, Goes
  <2>2. Fits(Timer, None, "idle")
    BY <1>0, <1>26, Kinds DEF Fired, Places, Hands, Fits, FreePcs, AppPcs, SessionPcs,
       WriterPcs, ExpelPcs, TimerPcs, OwnerPcs, RemovalPcs
  <2> QED
    BY <1>0, <2>1, <2>2, <2>u, <2>a, Kinds, MoveTypes, TypePartsNext DEF Moved
<1>27. ASSUME NEW e \in Sessions, Close(e)
      PROVE  Moved'
  <2>u. ServiceOK' /\ SeenOK'
    BY <1>0, <1>27 DEF Close, ServiceOK, SeenOK
  <2>a. SubOK'
    BY <1>0, <1>27, Kinds, BoundAssumption DEF Close, SubOK
  <2>b. RestOK'
    BY <1>0, <1>27, Kinds, BoundAssumption DEF Close, RestOK
  <2>1. CASE Stays
    BY <1>0, <2>1, <2>u, <2>a, <2>b, Stay, TypePartsNext DEF Moved
  <2>2. ASSUME NEW s \in Subs, pc[Closer] = "idle", Goes(Closer, s, "expel")
        PROVE  Moved'
    <3>1. Fits(Closer, s, "expel")
      BY Kinds DEF Fits, FreePcs, AppPcs, SessionPcs, WriterPcs, ExpelPcs, TimerPcs,
         OwnerPcs, RemovalPcs
    <3> QED
      BY <1>0, <2>2, <3>1, <2>u, <2>a, <2>b, Kinds, MoveTypes, TypePartsNext DEF Moved
  <2> QED
    BY <1>0, <1>27, <2>1, <2>2 DEF Close, Goto, Goes, Stays, RestOK
<1>28. ASSUME SetDisabled
      PROVE  Moved'
  <2>u. ServiceOK' /\ SubOK' /\ SeenOK'
    BY <1>0, <1>28 DEF SetDisabled, ServiceOK, SubOK, SeenOK
  <2>a. RestOK'
    <3>1. switches' \in Nat
      BY <1>0, <1>28 DEF SetDisabled, RestOK
    <3>2. /\ enabled' \in BOOLEAN
          /\ UNCHANGED <<factory, iSubscriptionMap, iEnabled, cbLock, mapped, todo, fault>>
      BY <1>28 DEF SetDisabled
    <3> QED
      BY <1>0, <3>1, <3>2, Zenon DEF RestOK
  <2>1. Stays
    BY <1>28 DEF SetDisabled, Stays
  <2> QED
    BY <1>0, <2>1, <2>u, <2>a, Stay, TypePartsNext DEF Moved
<1>29. ASSUME SetEnabled
      PROVE  Moved'
  <2>u. ServiceOK' /\ SubOK' /\ SeenOK'
    BY <1>0, <1>29 DEF SetEnabled, ServiceOK, SubOK, SeenOK
  <2>a. RestOK'
    BY <1>0, <1>29, Kinds, BoundAssumption DEF SetEnabled, RestOK
  <2>1. Goes(Owner, cur[Owner], "publish")
    BY <1>0, <1>29, Kinds DEF SetEnabled, Goto, GoIdle, Goes
  <2>2. Fits(Owner, cur[Owner], "publish")
    BY <1>0, <1>29, Kinds DEF SetEnabled, Places, Hands, Fits, FreePcs, AppPcs,
       SessionPcs, WriterPcs, ExpelPcs, TimerPcs, OwnerPcs, RemovalPcs
  <2> QED
    BY <1>0, <2>1, <2>2, <2>u, <2>a, Kinds, MoveTypes, TypePartsNext DEF Moved
<1>30. ASSUME Destroy
      PROVE  Moved'
  <2>u. ServiceOK' /\ SubOK' /\ SeenOK'
    BY <1>0, <1>30 DEF Destroy, ServiceOK, SubOK, SeenOK
  <2>a. RestOK'
    BY <1>0, <1>30, Kinds, BoundAssumption DEF Destroy, RestOK
  <2>1. Goes(Owner, cur[Owner], "stopAll")
    BY <1>0, <1>30, Kinds DEF Destroy, Goto, GoIdle, Goes
  <2>2. Fits(Owner, cur[Owner], "stopAll")
    BY <1>0, <1>30, Kinds DEF Destroy, Places, Hands, Fits, FreePcs, AppPcs, SessionPcs,
       WriterPcs, ExpelPcs, TimerPcs, OwnerPcs, RemovalPcs
  <2> QED
    BY <1>0, <2>1, <2>2, <2>u, <2>a, Kinds, MoveTypes, TypePartsNext DEF Moved
<1>31. ASSUME StopSubscriptions
      PROVE  Moved'
  <2>u. SubOK' /\ SeenOK'
    BY <1>0, <1>31 DEF StopSubscriptions, SubOK, SeenOK
  <2>a. ServiceOK'
    BY <1>0, <1>31, Kinds, BoundAssumption DEF StopSubscriptions, ServiceOK
  <2>b. RestOK'
    BY <1>0, <1>31, Kinds, BoundAssumption DEF StopSubscriptions, RestOK, ServiceOK
  <2>1. Goes(Owner, cur[Owner], "stopping")
    BY <1>0, <1>31, Kinds DEF StopSubscriptions, Goto, GoIdle, Goes
  <2>2. Fits(Owner, cur[Owner], "stopping")
    BY <1>0, <1>31, Kinds DEF StopSubscriptions, Places, Hands, Fits, FreePcs, AppPcs,
       SessionPcs, WriterPcs, ExpelPcs, TimerPcs, OwnerPcs, RemovalPcs
  <2> QED
    BY <1>0, <2>1, <2>2, <2>u, <2>a, <2>b, Kinds, MoveTypes, TypePartsNext DEF Moved
<1>32. ASSUME StopNext
      PROVE  Moved'
  <2>u. ServiceOK' /\ SubOK' /\ SeenOK'
    BY <1>0, <1>32 DEF StopNext, ServiceOK, SubOK, SeenOK
  <2>a. RestOK'
    BY <1>0, <1>32, Kinds, BoundAssumption DEF StopNext, RestOK
  <2>1. PICK s \in todo[Owner] : Goes(Owner, s, "stop")
    BY <1>32 DEF StopNext, Goto, Goes
  <2>2. s \in Subs
    BY <1>0, Kinds DEF RestOK
  <2>3. Fits(Owner, s, "stop")
    BY <2>2, Kinds DEF Fits, FreePcs, AppPcs, SessionPcs, WriterPcs, ExpelPcs, TimerPcs,
       OwnerPcs, RemovalPcs
  <2> QED
    BY <1>0, <2>1, <2>3, <2>u, <2>a, Kinds, MoveTypes, TypePartsNext DEF Moved
<1>33. ASSUME StopEnd
      PROVE  Moved'
  <2>u. SubOK' /\ RestOK' /\ SeenOK'
    BY <1>0, <1>33 DEF StopEnd, SubOK, RestOK, SeenOK
  <2>a. ServiceOK'
    BY <1>0, <1>33, Kinds, BoundAssumption DEF StopEnd, ServiceOK
  <2>1. Goes(Owner, cur[Owner], "destroyed")
    BY <1>0, <1>33, Kinds DEF StopEnd, Goto, GoIdle, Goes
  <2>2. Fits(Owner, cur[Owner], "destroyed")
    BY <1>0, <1>33, Kinds DEF StopEnd, Places, Hands, Fits, FreePcs, AppPcs, SessionPcs,
       WriterPcs, ExpelPcs, TimerPcs, OwnerPcs, RemovalPcs
  <2> QED
    BY <1>0, <2>1, <2>2, <2>u, <2>a, Kinds, MoveTypes, TypePartsNext DEF Moved
<1>34. ASSUME NEW p \in Publishers, Dispatch(p)
      PROVE  Moved'
  <2>h. Head(iList) \in Subs /\ Tail(iList) \in Seq(Subs)
    BY <1>0, <1>34, HeadCounted DEF Dispatch, ServiceOK
  <2>u. SubOK' /\ RestOK' /\ SeenOK'
    BY <1>0, <1>34 DEF Dispatch, SubOK, RestOK, SeenOK
  <2>a. ServiceOK'
    BY <1>0, <1>34, <2>h, Kinds, BoundAssumption DEF Dispatch, ServiceOK
  <2>1. Goes(p, Head(iList), "write")
    BY <1>0, <1>34, Kinds DEF Dispatch, Goto, GoIdle, Goes
  <2>2. Fits(p, Head(iList), "write")
    BY <1>0, <1>34, <2>h, Kinds DEF Dispatch, Places, Hands, Fits, FreePcs, AppPcs,
       SessionPcs, WriterPcs, ExpelPcs, TimerPcs, OwnerPcs, RemovalPcs
  <2> QED
    BY <1>0, <2>1, <2>2, <2>u, <2>a, Kinds, MoveTypes, TypePartsNext DEF Moved
<1>35. ASSUME NEW p \in Publishers, WriteChanges(p)
      PROVE  Moved'
  <2>h. p \in Threads /\ cur[p] \in Subs
    BY <1>0, <1>35, Kinds DEF WriteChanges, FreePcs
  <2>u. ServiceOK' /\ RestOK' /\ SeenOK'
    BY <1>0, <1>35 DEF WriteChanges, ServiceOK, RestOK, SeenOK
  <2>a. SubOK'
    BY <1>0, <1>35, <2>h, Kinds, BoundAssumption DEF WriteChanges, SubOK
  <2>1. Goes(p, cur[p], IF enabled /\ iService[cur[p]] THEN "props" ELSE "release")
    BY <1>0, <1>35, Kinds DEF WriteChanges, Goto, GoIdle, Goes
  <2>2. Fits(p, cur[p], IF enabled /\ iService[cur[p]] THEN "props" ELSE "release")
    BY <1>0, <1>35, <2>h, Kinds DEF WriteChanges, Places, Hands, Fits, FreePcs, AppPcs,
       SessionPcs, WriterPcs, ExpelPcs, TimerPcs, OwnerPcs, RemovalPcs
  <2> QED
    BY <1>0, <2>1, <2>2, <2>u, <2>a, Kinds, MoveTypes, TypePartsNext DEF Moved
<1>36. ASSUME NEW p \in Publishers, ReadSequenceNumber(p)
      PROVE  Moved'
  <2>h. p \in Threads /\ cur[p] \in Subs
    BY <1>0, <1>36, Kinds DEF ReadSequenceNumber, FreePcs
  <2>u. RestOK'
    BY <1>0, <1>36 DEF ReadSequenceNumber, RestOK
  <2>a. ServiceOK'
    BY <1>0, <1>36, <2>h, Kinds, BoundAssumption DEF ReadSequenceNumber, ServiceOK
  <2>b. SubOK'
    BY <1>0, <1>36, <2>h, Kinds, BoundAssumption DEF ReadSequenceNumber, SubOK
  <2>c. SeenOK'
    <3>1. [seq |-> iSequenceNumber[cur[p]], val |-> version] \in Message
      BY <1>0, <2>h DEF SubOK, ServiceOK, Message
    <3> QED
      BY <1>0, <1>36, <3>1 DEF ReadSequenceNumber, SeenOK
  <2>1. Goes(p, cur[p], IF version = iPropertySequenceNumbers[cur[p]] THEN "release" ELSE "connect")
    BY <1>0, <1>36, Kinds DEF ReadSequenceNumber, Goto, GoIdle, Goes
  <2>2. Fits(p, cur[p], IF version = iPropertySequenceNumbers[cur[p]] THEN "release" ELSE "connect")
    BY <1>0, <1>36, <2>h, Kinds DEF ReadSequenceNumber, Places, Hands, Fits, FreePcs,
       AppPcs, SessionPcs, WriterPcs, ExpelPcs, TimerPcs, OwnerPcs, RemovalPcs
  <2> QED
    BY <1>0, <2>1, <2>2, <2>u, <2>a, <2>b, <2>c, Kinds, MoveTypes, TypePartsNext DEF Moved
<1>37. ASSUME NEW p \in Publishers, Connect(p)
      PROVE  Moved'
  <2>h. p \in Threads /\ cur[p] \in Subs
    BY <1>0, <1>37, Kinds DEF Connect, FreePcs
  <2>u. RestOK'
    BY <1>0, <1>37 DEF Connect, NextSequenceNumber, RestOK
  <2>a. ServiceOK'
    BY <1>0, <1>37, <2>h, Kinds, BoundAssumption DEF Connect, NextSequenceNumber,
       ServiceOK
  <2>b. SubOK'
    <3>1. writer[p].val \in Nat /\ iSequenceNumber[cur[p]] \in 0..SeqMax
      BY <1>0, <2>h DEF SeenOK, SubOK, Message
    <3>2. NextSequenceNumber(iSequenceNumber[cur[p]]) \in 0..SeqMax
      BY <3>1, BoundAssumption DEF NextSequenceNumber
    <3>3. /\ iLock' = [iLock EXCEPT ![cur[p]] = None]
          /\ UNCHANGED <<obj, iRefCount, iService, armed>>
      BY <1>37 DEF Connect
    <3>4. \/ UNCHANGED <<iPropertySequenceNumbers, iSequenceNumber>>
          \/ /\ iPropertySequenceNumbers' =
                   [iPropertySequenceNumbers EXCEPT ![cur[p]] = writer[p].val]
             /\ iSequenceNumber' = [iSequenceNumber EXCEPT ![cur[p]] =
                   NextSequenceNumber(iSequenceNumber[cur[p]])]
      BY <1>0, <1>37, <2>h DEF Connect, SubOK
    <3> QED
      BY <1>0, <2>h, <3>1, <3>2, <3>3, <3>4, Kinds DEF SubOK
  <2>c. SeenOK'
    <3>1. failed' \in [Subs -> BOOLEAN] /\ got' = got /\ newest' = newest
      BY <1>0, <1>37, <2>h DEF Connect, SeenOK
    <3>2. CASE writer' = writer
      BY <1>0, <3>1, <3>2 DEF SeenOK
    <3>3. CASE writer' = [writer EXCEPT ![p].val = version]
      <4>1. writer[p] \in Message /\ version \in Nat
        BY <1>0 DEF SeenOK, ServiceOK
      <4>2. [writer[p] EXCEPT !.val = version] \in Message
        BY <4>1 DEF Message
      <4> QED
        BY <1>0, <3>1, <3>3, <4>2 DEF SeenOK
    <3> QED
      BY <1>37, <3>2, <3>3 DEF Connect
  <2>1. CASE Goes(p, cur[p], "send")
    <3>1. Fits(p, cur[p], "send")
      BY <1>0, <1>37, <2>h, Kinds DEF Connect, NextSequenceNumber, Places, Hands, Fits,
         FreePcs, AppPcs, SessionPcs, WriterPcs, ExpelPcs, TimerPcs, OwnerPcs,
         RemovalPcs
    <3> QED
      BY <1>0, <2>1, <3>1, <2>u, <2>a, <2>b, <2>c, Kinds, MoveTypes, TypePartsNext
         DEF Moved
  <2>2. CASE Goes(p, cur[p], "release")
    <3>1. Fits(p, cur[p], "release")
      BY <1>0, <1>37, <2>h, Kinds DEF Connect, NextSequenceNumber, Places, Hands, Fits,
         FreePcs, AppPcs, SessionPcs, WriterPcs, ExpelPcs, TimerPcs, OwnerPcs,
         RemovalPcs
    <3> QED
      BY <1>0, <2>2, <3>1, <2>u, <2>a, <2>b, <2>c, Kinds, MoveTypes, TypePartsNext
         DEF Moved
  <2>3. CASE Goes(p, cur[p], "expel")
    <3>1. Fits(p, cur[p], "expel")
      BY <1>0, <1>37, <2>h, Kinds DEF Connect, NextSequenceNumber, Places, Hands, Fits,
         FreePcs, AppPcs, SessionPcs, WriterPcs, ExpelPcs, TimerPcs, OwnerPcs,
         RemovalPcs
    <3> QED
      BY <1>0, <2>3, <3>1, <2>u, <2>a, <2>b, <2>c, Kinds, MoveTypes, TypePartsNext
         DEF Moved
  <2> QED
    BY <1>0, <1>37, <2>1, <2>2, <2>3, Kinds DEF Connect, NextSequenceNumber, Goto,
       GoIdle, Goes
<1>38. ASSUME NEW p \in Publishers, Send(p)
      PROVE  Moved'
  <2>h. p \in Threads /\ cur[p] \in Subs
    BY <1>0, <1>38, Kinds DEF Send, FreePcs
  <2>u. ServiceOK' /\ SubOK' /\ RestOK'
    BY <1>0, <1>38 DEF Send, NoMessage, ServiceOK, SubOK, RestOK
  <2>a. SeenOK'
    <3>1. failed' \in [Subs -> BOOLEAN]
      BY <1>0, <1>38, <2>h DEF Send, SeenOK
    <3>2. NoMessage \in Message
      BY BoundAssumption DEF NoMessage, Message
    <3>3. writer' \in [Publishers -> Message]
      BY <1>0, <1>38, <3>2 DEF Send, SeenOK
    <3>4. /\ got' = got \/ got' = [got EXCEPT ![cur[p]] = writer[p]]
          /\ newest' = newest \/ newest' = [newest EXCEPT ![cur[p]] = writer[p]]
      BY <1>0, <1>38, <2>h, Received DEF SeenOK
    <3>5. got' \in [Subs -> Message] /\ newest' \in [Subs -> Message]
      BY <1>0, <2>h, <3>4 DEF SeenOK
    <3> QED
      BY <3>1, <3>3, <3>5 DEF SeenOK
  <2>1. CASE Goes(p, cur[p], "release")
    <3>1. Fits(p, cur[p], "release")
      BY <1>0, <1>38, <2>h, Kinds DEF Send, NoMessage, Places, Hands, Fits, FreePcs,
         AppPcs, SessionPcs, WriterPcs, ExpelPcs, TimerPcs, OwnerPcs, RemovalPcs
    <3> QED
      BY <1>0, <2>1, <3>1, <2>u, <2>a, Kinds, MoveTypes, TypePartsNext DEF Moved
  <2>2. CASE Goes(p, cur[p], "expel")
    <3>1. Fits(p, cur[p], "expel")
      BY <1>0, <1>38, <2>h, Kinds DEF Send, NoMessage, Places, Hands, Fits, FreePcs,
         AppPcs, SessionPcs, WriterPcs, ExpelPcs, TimerPcs, OwnerPcs, RemovalPcs
    <3> QED
      BY <1>0, <2>2, <3>1, <2>u, <2>a, Kinds, MoveTypes, TypePartsNext DEF Moved
  <2> QED
    BY <1>0, <1>38, <2>1, <2>2, Kinds DEF Send, NoMessage, Goto, GoIdle, Goes
<1> QED
  BY <1>1, <1>2, <1>3, <1>4, <1>5, <1>6, <1>7, <1>8, <1>9, <1>10, <1>11, <1>12, <1>13,
     <1>14, <1>15, <1>16, <1>17, <1>18, <1>19, <1>20, <1>21, <1>22, <1>23, <1>24, <1>25,
     <1>26, <1>27, <1>28, <1>29, <1>30, <1>31, <1>32, <1>33, <1>34, <1>35, <1>36, <1>37,
     <1>38
     DEF Next, AppStep, Publish, RequestStep, Removal, OwnerStep, PublisherStep

(* The locks have the owners that the threads' places say.                  *)
LEMMA LocksStep ==
  ASSUME IInv, Next
  PROVE  Locks'
<1> USE DEF service, manager, sub, fac, device, threads, seen
<1>0. Locks /\ Places /\ Hands /\ DOMAIN pc = Threads
  BY Typed DEF TypeOK
<1>1. ASSUME NEW a \in Apps, SetProperty(a)
      PROVE  Locks'
  BY <1>0, <1>1, Kinds DEF SetProperty, Goto, Locks, Stopping
<1>2. ASSUME NEW a \in Apps, TryPublishUpdate(a)
      PROVE  Locks'
  BY <1>0, <1>2, Kinds DEF TryPublishUpdate, Goto, Locks, Stopping
<1>3. ASSUME NEW a \in Apps, PropertiesLock(a)
      PROVE  Locks'
  BY <1>0, <1>3, Kinds DEF PropertiesLock, Goto, Locks, Stopping
<1>4. ASSUME NEW a \in Apps, PropertiesUnlock(a)
      PROVE  Locks'
  BY <1>0, <1>4, Kinds DEF PropertiesUnlock, Goto, Locks, Stopping
<1>5. ASSUME NEW t \in Apps \union {Owner}, PublishBegin(t)
      PROVE  Locks'
  BY <1>0, <1>5, Kinds DEF PublishBegin, Goto, Locks, Stopping
<1>6. ASSUME NEW t \in Apps \union {Owner}, PublishOne(t)
      PROVE  Locks'
  BY <1>0, <1>6, Kinds DEF PublishOne, Goto, QueueUpdate, Locks, Stopping
<1>7. ASSUME NEW t \in Apps \union {Owner}, PublishEnd(t)
      PROVE  Locks'
  BY <1>0, <1>7, Kinds DEF PublishEnd, Goto, Locks, Stopping
<1>8. ASSUME NEW e \in Sessions, NEW s \in Subs, Subscribe(e, s)
      PROVE  Locks'
  BY <1>0, <1>8, Kinds DEF Subscribe, Goto, Accepts, Locks, Stopping
<1>9. ASSUME NEW e \in Sessions, AddSubscription(e)
      PROVE  Locks'
  BY <1>0, <1>9, Kinds DEF AddSubscription, Goto, Locks, Stopping
<1>10. ASSUME NEW e \in Sessions, Respond(e)
      PROVE  Locks'
  BY <1>0, <1>10, Kinds DEF Respond, Goto, GoIdle, Locks, Stopping
<1>11. ASSUME NEW e \in Sessions, Start(e)
      PROVE  Locks'
  BY <1>0, <1>11, Kinds DEF Start, Goto, Locks, Stopping
<1>12. ASSUME NEW e \in Sessions, PushSubscription(e)
      PROVE  Locks'
  BY <1>0, <1>12, Kinds DEF PushSubscription, Goto, Locks, Stopping
<1>13. ASSUME NEW e \in Sessions, FirstUpdate(e)
      PROVE  Locks'
  BY <1>0, <1>13, Kinds DEF FirstUpdate, Goto, Crash, QueueUpdate, GoIdle, Locks, Stopping
<1>14. ASSUME NEW e \in Sessions, NEW s \in Subs, Renew(e, s)
      PROVE  Locks'
  BY <1>0, <1>14, Kinds DEF Renew, Goto, Accepts, Find, Locks, Stopping
<1>15. ASSUME NEW e \in Sessions, NEW s \in Subs, Unsubscribe(e, s)
      PROVE  Locks'
  BY <1>0, <1>15, Kinds DEF Unsubscribe, Goto, Accepts, Find, Locks, Stopping
<1>16. ASSUME NEW e \in Sessions, RenewCheck(e)
      PROVE  Locks'
  BY <1>0, <1>16, Kinds DEF RenewCheck, Goto, Crash, Locks, Stopping
<1>17. ASSUME NEW e \in Sessions, DoRenew(e)
      PROVE  Locks'
  BY <1>0, <1>17, Kinds DEF DoRenew, Goto, Crash, GoIdle, Locks, Stopping
<1>18. ASSUME NEW t \in Publishers \union {Closer}, Expel(t)
      PROVE  Locks'
  BY <1>0, <1>18, Kinds DEF Expel, Goto, Locks, Stopping
<1>19. ASSUME NEW t \in Threads \ Apps, RemoveSubscription(t)
      PROVE  Locks'
  BY <1>0, <1>19, Kinds DEF RemoveSubscription, Goto, Leave, After, Locks, Stopping,
     Places, RemovalPcs, AppPcs, SessionPcs, WriterPcs, TimerPcs, ExpelPcs, OwnerPcs
<1>20. ASSUME NEW t \in Threads \ Apps, StopLock(t)
      PROVE  Locks'
  BY <1>0, <1>20, Kinds DEF StopLock, Goto, Locks, Stopping
<1>21. ASSUME NEW t \in Threads \ Apps, StopCancel(t)
      PROVE  Locks'
  BY <1>0, <1>21, Kinds DEF StopCancel, Goto, MayCancel, Locks, Stopping
<1>22. ASSUME NEW t \in Threads \ Apps, StopUnref(t)
      PROVE  Locks'
  BY <1>0, <1>22, Kinds DEF StopUnref, Goto, Leave, RemoveRef, After, Locks, Stopping
<1>23. ASSUME NEW t \in Publishers \union {Closer}, Release(t)
      PROVE  Locks'
  BY <1>0, <1>23, Kinds DEF Release, Goto, Leave, RemoveRef, Locks, Stopping
<1>24. ASSUME NEW t \in Threads \ Apps, Delete(t)
      PROVE  Locks'
  BY <1>0, <1>24, Kinds DEF Delete, Goto, Leave, After, AfterDelete, MayCancel, Locks,
     Stopping
<1>25. ASSUME NEW s \in Subs, Expire(s)
      PROVE  Locks'
  BY <1>0, <1>25, Kinds DEF Expire, Goto, Crash, Locks, Stopping
<1>26. ASSUME Fired
      PROVE  Locks'
  BY <1>0, <1>26, Kinds DEF Fired, Goto, GoIdle, Locks, Stopping
<1>27. ASSUME NEW e \in Sessions, Close(e)
      PROVE  Locks'
  BY <1>0, <1>27, Kinds DEF Close, Goto, Locks, Stopping
<1>28. ASSUME SetDisabled
      PROVE  Locks'
  BY <1>0, <1>28, Kinds DEF SetDisabled, Goto, Locks, Stopping
<1>29. ASSUME SetEnabled
      PROVE  Locks'
  BY <1>0, <1>29, Kinds DEF SetEnabled, Goto, Locks, Stopping
<1>30. ASSUME Destroy
      PROVE  Locks'
  BY <1>0, <1>30, Kinds DEF Destroy, Goto, Locks, Stopping
<1>31. ASSUME StopSubscriptions
      PROVE  Locks'
  BY <1>0, <1>31, Kinds DEF StopSubscriptions, Goto, Locks, Stopping
<1>32. ASSUME StopNext
      PROVE  Locks'
  BY <1>0, <1>32, Kinds DEF StopNext, Goto, Locks, Stopping
<1>33. ASSUME StopEnd
      PROVE  Locks'
  BY <1>0, <1>33, Kinds DEF StopEnd, Goto, Locks, Stopping
<1>34. ASSUME NEW p \in Publishers, Dispatch(p)
      PROVE  Locks'
  BY <1>0, <1>34, Kinds DEF Dispatch, Goto, Locks, Stopping
<1>35. ASSUME NEW p \in Publishers, WriteChanges(p)
      PROVE  Locks'
  BY <1>0, <1>35, Kinds DEF WriteChanges, Goto, Locks, Stopping
<1>36. ASSUME NEW p \in Publishers, ReadSequenceNumber(p)
      PROVE  Locks'
  BY <1>0, <1>36, Kinds DEF ReadSequenceNumber, Goto, Locks, Stopping
<1>37. ASSUME NEW p \in Publishers, Connect(p)
      PROVE  Locks'
  BY <1>0, <1>37, Kinds DEF Connect, Goto, Locks, Stopping
<1>38. ASSUME NEW p \in Publishers, Send(p)
      PROVE  Locks'
  BY <1>0, <1>38, Kinds DEF Send, Goto, Locks, Stopping
<1> QED
  BY <1>1, <1>2, <1>3, <1>4, <1>5, <1>6, <1>7, <1>8, <1>9, <1>10, <1>11, <1>12,
     <1>13, <1>14, <1>15, <1>16, <1>17, <1>18, <1>19, <1>20, <1>21, <1>22, <1>23,
     <1>24, <1>25, <1>26, <1>27, <1>28, <1>29, <1>30, <1>31, <1>32, <1>33, <1>34,
     <1>35, <1>36, <1>37, <1>38
     DEF Next, AppStep, Publish, RequestStep, Removal, OwnerStep, PublisherStep

(* The loops over the service's list go over what is in it.                 *)
LEMMA LoopsStep ==
  ASSUME IInv, Next
  PROVE  Loops'
<1> USE DEF service, manager, sub, fac, device, threads, seen
<1>0. Loops /\ Locks /\ Places /\ DOMAIN pc = Threads /\ DOMAIN cur = Threads
      /\ DOMAIN todo = Threads
  BY Typed DEF TypeOK
<1>1. ASSUME NEW a \in Apps, SetProperty(a)
      PROVE  Loops'
  BY <1>0, <1>1, Kinds DEF SetProperty, Goto, Loops, Stopping
<1>2. ASSUME NEW a \in Apps, TryPublishUpdate(a)
      PROVE  Loops'
  BY <1>0, <1>2, Kinds DEF TryPublishUpdate, Goto, Loops, Stopping
<1>3. ASSUME NEW a \in Apps, PropertiesLock(a)
      PROVE  Loops'
  BY <1>0, <1>3, Kinds DEF PropertiesLock, Goto, Loops, Stopping
<1>4. ASSUME NEW a \in Apps, PropertiesUnlock(a)
      PROVE  Loops'
  BY <1>0, <1>4, Kinds DEF PropertiesUnlock, Goto, Loops, Stopping
<1>5. ASSUME NEW t \in Apps \union {Owner}, PublishBegin(t)
      PROVE  Loops'
  BY <1>0, <1>5, Kinds DEF PublishBegin, Goto, Loops, Stopping
<1>6. ASSUME NEW t \in Apps \union {Owner}, PublishOne(t)
      PROVE  Loops'
  BY <1>0, <1>6, Kinds DEF PublishOne, Goto, QueueUpdate, Loops, Stopping
<1>7. ASSUME NEW t \in Apps \union {Owner}, PublishEnd(t)
      PROVE  Loops'
  BY <1>0, <1>7, Kinds DEF PublishEnd, Goto, Loops, Stopping
<1>8. ASSUME NEW e \in Sessions, NEW s \in Subs, Subscribe(e, s)
      PROVE  Loops'
  BY <1>0, <1>8, Kinds DEF Subscribe, Goto, Accepts, Loops, Stopping
<1>9. ASSUME NEW e \in Sessions, AddSubscription(e)
      PROVE  Loops'
  BY <1>0, <1>9, Kinds DEF AddSubscription, Goto, Loops, Stopping
<1>10. ASSUME NEW e \in Sessions, Respond(e)
      PROVE  Loops'
  BY <1>0, <1>10, Kinds DEF Respond, Goto, GoIdle, Loops, Stopping
<1>11. ASSUME NEW e \in Sessions, Start(e)
      PROVE  Loops'
  BY <1>0, <1>11, Kinds DEF Start, Goto, Loops, Stopping
<1>12. ASSUME NEW e \in Sessions, PushSubscription(e)
      PROVE  Loops'
  BY <1>0, <1>12, Kinds DEF PushSubscription, Goto, Loops, Stopping
<1>13. ASSUME NEW e \in Sessions, FirstUpdate(e)
      PROVE  Loops'
  BY <1>0, <1>13, Kinds DEF FirstUpdate, Goto, Crash, QueueUpdate, GoIdle, Loops, Stopping
<1>14. ASSUME NEW e \in Sessions, NEW s \in Subs, Renew(e, s)
      PROVE  Loops'
  BY <1>0, <1>14, Kinds DEF Renew, Goto, Accepts, Find, Loops, Stopping
<1>15. ASSUME NEW e \in Sessions, NEW s \in Subs, Unsubscribe(e, s)
      PROVE  Loops'
  BY <1>0, <1>15, Kinds DEF Unsubscribe, Goto, Accepts, Find, Loops, Stopping
<1>16. ASSUME NEW e \in Sessions, RenewCheck(e)
      PROVE  Loops'
  BY <1>0, <1>16, Kinds DEF RenewCheck, Goto, Crash, Loops, Stopping
<1>17. ASSUME NEW e \in Sessions, DoRenew(e)
      PROVE  Loops'
  BY <1>0, <1>17, Kinds DEF DoRenew, Goto, Crash, GoIdle, Loops, Stopping
<1>18. ASSUME NEW t \in Publishers \union {Closer}, Expel(t)
      PROVE  Loops'
  BY <1>0, <1>18, Kinds DEF Expel, Goto, Loops, Stopping
<1>19. ASSUME NEW t \in Threads \ Apps, RemoveSubscription(t)
      PROVE  Loops'
  BY <1>0, <1>19, Kinds DEF RemoveSubscription, Goto, Leave, After, Loops, Locks,
     Stopping, Places, RemovalPcs, AppPcs, SessionPcs, WriterPcs, TimerPcs, ExpelPcs,
     OwnerPcs
<1>20. ASSUME NEW t \in Threads \ Apps, StopLock(t)
      PROVE  Loops'
  BY <1>0, <1>20, Kinds DEF StopLock, Goto, Loops, Stopping
<1>21. ASSUME NEW t \in Threads \ Apps, StopCancel(t)
      PROVE  Loops'
  BY <1>0, <1>21, Kinds DEF StopCancel, Goto, MayCancel, Loops, Stopping
<1>22. ASSUME NEW t \in Threads \ Apps, StopUnref(t)
      PROVE  Loops'
  BY <1>0, <1>22, Kinds DEF StopUnref, Goto, Leave, RemoveRef, After, Loops, Stopping
<1>23. ASSUME NEW t \in Publishers \union {Closer}, Release(t)
      PROVE  Loops'
  BY <1>0, <1>23, Kinds DEF Release, Goto, Leave, RemoveRef, Loops, Stopping
<1>24. ASSUME NEW t \in Threads \ Apps, Delete(t)
      PROVE  Loops'
  BY <1>0, <1>24, Kinds DEF Delete, Goto, Leave, After, AfterDelete, MayCancel, Loops,
     Stopping
<1>25. ASSUME NEW s \in Subs, Expire(s)
      PROVE  Loops'
  BY <1>0, <1>25, Kinds DEF Expire, Goto, Crash, Loops, Stopping
<1>26. ASSUME Fired
      PROVE  Loops'
  BY <1>0, <1>26, Kinds DEF Fired, Goto, GoIdle, Loops, Stopping
<1>27. ASSUME NEW e \in Sessions, Close(e)
      PROVE  Loops'
  BY <1>0, <1>27, Kinds DEF Close, Goto, Loops, Stopping
<1>28. ASSUME SetDisabled
      PROVE  Loops'
  BY <1>0, <1>28, Kinds DEF SetDisabled, Goto, Loops, Stopping
<1>29. ASSUME SetEnabled
      PROVE  Loops'
  BY <1>0, <1>29, Kinds DEF SetEnabled, Goto, Loops, Stopping
<1>30. ASSUME Destroy
      PROVE  Loops'
  BY <1>0, <1>30, Kinds DEF Destroy, Goto, Loops, Stopping
<1>31. ASSUME StopSubscriptions
      PROVE  Loops'
  BY <1>0, <1>31, Kinds DEF StopSubscriptions, Goto, Loops
<1>32. ASSUME StopNext
      PROVE  Loops'
  BY <1>0, <1>32, Kinds DEF StopNext, Goto, Loops, Stopping
<1>33. ASSUME StopEnd
      PROVE  Loops'
  BY <1>0, <1>33, Kinds DEF StopEnd, Goto, Loops, Locks, Stopping
<1>34. ASSUME NEW p \in Publishers, Dispatch(p)
      PROVE  Loops'
  BY <1>0, <1>34, Kinds DEF Dispatch, Goto, Loops, Stopping
<1>35. ASSUME NEW p \in Publishers, WriteChanges(p)
      PROVE  Loops'
  BY <1>0, <1>35, Kinds DEF WriteChanges, Goto, Loops, Stopping
<1>36. ASSUME NEW p \in Publishers, ReadSequenceNumber(p)
      PROVE  Loops'
  BY <1>0, <1>36, Kinds DEF ReadSequenceNumber, Goto, Loops, Stopping
<1>37. ASSUME NEW p \in Publishers, Connect(p)
      PROVE  Loops'
  BY <1>0, <1>37, Kinds DEF Connect, Goto, Loops, Stopping
<1>38. ASSUME NEW p \in Publishers, Send(p)
      PROVE  Loops'
  BY <1>0, <1>38, Kinds DEF Send, Goto, Loops, Stopping
<1> QED
  BY <1>1, <1>2, <1>3, <1>4, <1>5, <1>6, <1>7, <1>8, <1>9, <1>10, <1>11, <1>12,
     <1>13, <1>14, <1>15, <1>16, <1>17, <1>18, <1>19, <1>20, <1>21, <1>22, <1>23,
     <1>24, <1>25, <1>26, <1>27, <1>28, <1>29, <1>30, <1>31, <1>32, <1>33, <1>34,
     <1>35, <1>36, <1>37, <1>38
     DEF Next, AppStep, Publish, RequestStep, Removal, OwnerStep, PublisherStep

(* A reference of the list stays in one place.                              *)
LEMMA OneHolderStep ==
  ASSUME IInv, Next
  PROVE  OneHolder'
<1> USE DEF service, manager, sub, fac, device, threads, seen
<1>0. /\ OneHolder /\ Loops /\ Locks /\ Places /\ Lives
      /\ DOMAIN pc = Threads /\ DOMAIN cur = Threads /\ DOMAIN todo = Threads
      /\ \A t \in Threads : cur[t] \in Subs <=> pc[t] \notin FreePcs
  BY Typed DEF TypeOK, Hands
<1>1. ASSUME NEW a \in Apps, SetProperty(a)
      PROVE  OneHolder'
  BY <1>0, <1>1, Kinds DEF SetProperty, Goto, OneHolder, Holders, Listed, Stopped, Lives
<1>2. ASSUME NEW a \in Apps, TryPublishUpdate(a)
      PROVE  OneHolder'
  BY <1>0, <1>2, Kinds DEF TryPublishUpdate, Goto, OneHolder, Holders, Listed, Stopped,
     Lives
<1>3. ASSUME NEW a \in Apps, PropertiesLock(a)
      PROVE  OneHolder'
  BY <1>0, <1>3, Kinds DEF PropertiesLock, Goto, OneHolder, Holders, Listed, Stopped,
     Lives
<1>4. ASSUME NEW a \in Apps, PropertiesUnlock(a)
      PROVE  OneHolder'
  BY <1>0, <1>4, Kinds DEF PropertiesUnlock, Goto, OneHolder, Holders, Listed, Stopped,
     Lives
<1>5. ASSUME NEW t \in Apps \union {Owner}, PublishBegin(t)
      PROVE  OneHolder'
  BY <1>0, <1>5, Kinds DEF PublishBegin, Goto, OneHolder, Holders, Listed, Stopped, Lives
<1>6. ASSUME NEW t \in Apps \union {Owner}, PublishOne(t)
      PROVE  OneHolder'
  BY <1>0, <1>6, Kinds DEF PublishOne, Goto, QueueUpdate, OneHolder, Holders, Listed,
     Stopped, Lives
<1>7. ASSUME NEW t \in Apps \union {Owner}, PublishEnd(t)
      PROVE  OneHolder'
  BY <1>0, <1>7, Kinds DEF PublishEnd, Goto, OneHolder, Holders, Listed, Stopped, Locks,
     Lives
<1>8. ASSUME NEW e \in Sessions, NEW s \in Subs, Subscribe(e, s)
      PROVE  OneHolder'
  BY <1>0, <1>8, Kinds DEF Subscribe, Goto, Accepts, OneHolder, Holders, Listed,
     Stopped, Lives
<1>9. ASSUME NEW e \in Sessions, AddSubscription(e)
      PROVE  OneHolder'
  BY <1>0, <1>9, Kinds DEF AddSubscription, Goto, OneHolder, Holders, Listed, Stopped,
     Lives
<1>10. ASSUME NEW e \in Sessions, Respond(e)
      PROVE  OneHolder'
  BY <1>0, <1>10, Kinds DEF Respond, Goto, GoIdle, OneHolder, Holders, Listed, Stopped,
     Lives
<1>11. ASSUME NEW e \in Sessions, Start(e)
      PROVE  OneHolder'
  BY <1>0, <1>11, Kinds DEF Start, Goto, OneHolder, Holders, Listed, Stopped, Lives
<1>12. ASSUME NEW e \in Sessions, PushSubscription(e)
      PROVE  OneHolder'
  BY <1>0, <1>12, Kinds DEF PushSubscription, Goto, OneHolder, Holders, Listed, Stopped,
     Lives
<1>13. ASSUME NEW e \in Sessions, FirstUpdate(e)
      PROVE  OneHolder'
  BY <1>0, <1>13, Kinds DEF FirstUpdate, Goto, Crash, QueueUpdate, GoIdle, OneHolder,
     Holders, Listed, Stopped, Lives
<1>14. ASSUME NEW e \in Sessions, NEW s \in Subs, Renew(e, s)
      PROVE  OneHolder'
  BY <1>0, <1>14, Kinds DEF Renew, Goto, Accepts, Find, OneHolder, Holders, Listed,
     Stopped, Lives
<1>15. ASSUME NEW e \in Sessions, NEW s \in Subs, Unsubscribe(e, s)
      PROVE  OneHolder'
  BY <1>0, <1>15, Kinds DEF Unsubscribe, Goto, Accepts, Find, OneHolder, Holders,
     Listed, Stopped, Lives
<1>16. ASSUME NEW e \in Sessions, RenewCheck(e)
      PROVE  OneHolder'
  BY <1>0, <1>16, Kinds DEF RenewCheck, Goto, Crash, OneHolder, Holders, Listed,
     Stopped, Lives
<1>17. ASSUME NEW e \in Sessions, DoRenew(e)
      PROVE  OneHolder'
  BY <1>0, <1>17, Kinds DEF DoRenew, Goto, Crash, GoIdle, OneHolder, Holders, Listed,
     Stopped, Lives
<1>18. ASSUME NEW t \in Publishers \union {Closer}, Expel(t)
      PROVE  OneHolder'
  BY <1>0, <1>18, Kinds DEF Expel, Goto, OneHolder, Holders, Listed, Stopped, Lives
<1>19. ASSUME NEW t \in Threads \ Apps, RemoveSubscription(t)
      PROVE  OneHolder'
  BY <1>0, <1>19, Kinds DEF RemoveSubscription, Goto, Leave, After, OneHolder, Holders,
     Listed, Stopped, Lives
<1>20. ASSUME NEW t \in Threads \ Apps, StopLock(t)
      PROVE  OneHolder'
  BY <1>0, <1>20, Kinds DEF StopLock, Goto, OneHolder, Holders, Listed, Stopped, Lives
<1>21. ASSUME NEW t \in Threads \ Apps, StopCancel(t)
      PROVE  OneHolder'
  BY <1>0, <1>21, Kinds DEF StopCancel, Goto, MayCancel, OneHolder, Holders, Listed,
     Stopped, Lives
<1>22. ASSUME NEW t \in Threads \ Apps, StopUnref(t)
      PROVE  OneHolder'
  BY <1>0, <1>22, Kinds DEF StopUnref, Goto, Leave, RemoveRef, After, OneHolder,
     Holders, Listed, Stopped, Lives
<1>23. ASSUME NEW t \in Publishers \union {Closer}, Release(t)
      PROVE  OneHolder'
  BY <1>0, <1>23, Kinds DEF Release, Goto, Leave, RemoveRef, OneHolder, Holders, Listed,
     Stopped, Lives
<1>24. ASSUME NEW t \in Threads \ Apps, Delete(t)
      PROVE  OneHolder'
  BY <1>0, <1>24, Kinds DEF Delete, Goto, Leave, After, AfterDelete, MayCancel,
     OneHolder, Holders, Listed, Stopped, Lives
<1>25. ASSUME NEW s \in Subs, Expire(s)
      PROVE  OneHolder'
  BY <1>0, <1>25, Kinds DEF Expire, Goto, Crash, OneHolder, Holders, Listed, Stopped,
     Lives
<1>26. ASSUME Fired
      PROVE  OneHolder'
  BY <1>0, <1>26, Kinds DEF Fired, Goto, GoIdle, OneHolder, Holders, Listed, Stopped,
     Lives
<1>27. ASSUME NEW e \in Sessions, Close(e)
      PROVE  OneHolder'
  BY <1>0, <1>27, Kinds DEF Close, Goto, OneHolder, Holders, Listed, Stopped, Lives
<1>28. ASSUME SetDisabled
      PROVE  OneHolder'
  BY <1>0, <1>28, Kinds DEF SetDisabled, Goto, OneHolder, Holders, Listed, Stopped, Lives
<1>29. ASSUME SetEnabled
      PROVE  OneHolder'
  BY <1>0, <1>29, Kinds DEF SetEnabled, Goto, OneHolder, Holders, Listed, Stopped, Lives
<1>30. ASSUME Destroy
      PROVE  OneHolder'
  BY <1>0, <1>30, Kinds DEF Destroy, Goto, OneHolder, Holders, Listed, Stopped, Lives
<1>31. ASSUME StopSubscriptions
      PROVE  OneHolder'
  BY <1>0, <1>31, Kinds DEF StopSubscriptions, Goto, OneHolder, Holders, Listed,
     Stopped, Lives
<1>32. ASSUME StopNext
      PROVE  OneHolder'
  BY <1>0, <1>32, Kinds DEF StopNext, Goto, OneHolder, Holders, Listed, Stopped, Loops,
     Locks, Lives, Stopping
<1>33. ASSUME StopEnd
      PROVE  OneHolder'
  BY <1>0, <1>33, Kinds DEF StopEnd, Goto, OneHolder, Holders, Listed, Stopped, Lives
<1>34. ASSUME NEW p \in Publishers, Dispatch(p)
      PROVE  OneHolder'
  BY <1>0, <1>34, Kinds DEF Dispatch, Goto, OneHolder, Holders, Listed, Stopped, Lives
<1>35. ASSUME NEW p \in Publishers, WriteChanges(p)
      PROVE  OneHolder'
  BY <1>0, <1>35, Kinds DEF WriteChanges, Goto, OneHolder, Holders, Listed, Stopped, Lives
<1>36. ASSUME NEW p \in Publishers, ReadSequenceNumber(p)
      PROVE  OneHolder'
  BY <1>0, <1>36, Kinds DEF ReadSequenceNumber, Goto, OneHolder, Holders, Listed,
     Stopped, Lives
<1>37. ASSUME NEW p \in Publishers, Connect(p)
      PROVE  OneHolder'
  BY <1>0, <1>37, Kinds DEF Connect, Goto, OneHolder, Holders, Listed, Stopped, Lives
<1>38. ASSUME NEW p \in Publishers, Send(p)
      PROVE  OneHolder'
  BY <1>0, <1>38, Kinds DEF Send, Goto, OneHolder, Holders, Listed, Stopped, Lives
<1> QED
  BY <1>1, <1>2, <1>3, <1>4, <1>5, <1>6, <1>7, <1>8, <1>9, <1>10, <1>11, <1>12,
     <1>13, <1>14, <1>15, <1>16, <1>17, <1>18, <1>19, <1>20, <1>21, <1>22, <1>23,
     <1>24, <1>25, <1>26, <1>27, <1>28, <1>29, <1>30, <1>31, <1>32, <1>33, <1>34,
     <1>35, <1>36, <1>37, <1>38
     DEF Next, AppStep, Publish, RequestStep, Removal, OwnerStep, PublisherStep

(* What has no reference is not served.                                     *)
LEMMA Unserved ==
  ASSUME IInv
  PROVE  /\ \A s \in Subs : obj[s] # "live" => ~iService[s] /\ s \notin iMap /\ Holders(s) = {} /\ ~Listed(s)
         /\ \A t \in Threads : pc[t] = "delete" => ~iService[cur[t]] /\ cur[t] \in Subs
<1>1. \A s \in Subs : obj[s] # "live" => ~(iRefCount[s] >= 1)
  BY Typed, Referenced DEF Lives
<1>2. \A t \in Threads : pc[t] = "delete" => cur[t] \in Subs /\ iRefCount[cur[t]] = 0
  BY Typed DEF Hands, Lives, FreePcs
<1> QED
  BY <1>1, <1>2, Referenced

(* A subscription is served as long as it is listed.                        *)
LEMMA ServedStep ==
  ASSUME IInv, Next
  PROVE  Served'
<1> USE DEF service, manager, sub, fac, device, threads, seen
<1>0. /\ Served /\ OneHolder /\ Loops /\ Locks /\ Places
      /\ DOMAIN pc = Threads /\ DOMAIN cur = Threads /\ DOMAIN todo = Threads
      /\ DOMAIN iService = Subs /\ iSubscriptions \subseteq Subs
      /\ \A t \in Threads : cur[t] \in Subs <=> pc[t] \notin FreePcs
      /\ \A s \in Subs : obj[s] = "none" => s \notin iSubscriptions /\ \A t \in Threads : cur[t] # s
      /\ \A s \in Subs : obj[s] = "none" => ~iService[s] /\ s \notin iMap
      /\ \A t \in Threads : pc[t] = "delete" => ~iService[cur[t]]
  BY Typed, Unserved DEF TypeOK, Hands, Lives
<1>1. ASSUME NEW a \in Apps, SetProperty(a)
      PROVE  Served'
  BY <1>0, <1>1, Kinds DEF SetProperty, Goto, Served, Holders, Listed, Stopped
<1>2. ASSUME NEW a \in Apps, TryPublishUpdate(a)
      PROVE  Served'
  BY <1>0, <1>2, Kinds DEF TryPublishUpdate, Goto, Served, Holders, Listed, Stopped
<1>3. ASSUME NEW a \in Apps, PropertiesLock(a)
      PROVE  Served'
  BY <1>0, <1>3, Kinds DEF PropertiesLock, Goto, Served, Holders, Listed, Stopped
<1>4. ASSUME NEW a \in Apps, PropertiesUnlock(a)
      PROVE  Served'
  BY <1>0, <1>4, Kinds DEF PropertiesUnlock, Goto, Served, Holders, Listed, Stopped
<1>5. ASSUME NEW t \in Apps \union {Owner}, PublishBegin(t)
      PROVE  Served'
  BY <1>0, <1>5, Kinds DEF PublishBegin, Goto, Served, Holders, Listed, Stopped
<1>6. ASSUME NEW t \in Apps \union {Owner}, PublishOne(t)
      PROVE  Served'
  BY <1>0, <1>6, Kinds DEF PublishOne, Goto, QueueUpdate, Served, Holders, Listed, Stopped
<1>7. ASSUME NEW t \in Apps \union {Owner}, PublishEnd(t)
      PROVE  Served'
  BY <1>0, <1>7, Kinds DEF PublishEnd, Goto, Served, Holders, Listed, Stopped, Locks
<1>8. ASSUME NEW e \in Sessions, NEW s \in Subs, Subscribe(e, s)
      PROVE  Served'
  BY <1>0, <1>8, Kinds DEF Subscribe, Goto, Accepts, Served, Holders, Listed, Stopped
<1>9. ASSUME NEW e \in Sessions, AddSubscription(e)
      PROVE  Served'
  BY <1>0, <1>9, Kinds DEF AddSubscription, Goto, Served, Holders, Listed, Stopped
<1>10. ASSUME NEW e \in Sessions, Respond(e)
      PROVE  Served'
  BY <1>0, <1>10, Kinds DEF Respond, Goto, GoIdle, Served, Holders, Listed, Stopped
<1>11. ASSUME NEW e \in Sessions, Start(e)
      PROVE  Served'
  BY <1>0, <1>11, Kinds DEF Start, Goto, Served, OneHolder, Holders, Listed, Stopped,
     Places, FreePcs, RemovalPcs, AppPcs, SessionPcs, WriterPcs, TimerPcs, ExpelPcs,
     OwnerPcs
<1>12. ASSUME NEW e \in Sessions, PushSubscription(e)
      PROVE  Served'
  BY <1>0, <1>12, Kinds DEF PushSubscription, Goto, Served, Holders, Listed, Stopped
<1>13. ASSUME NEW e \in Sessions, FirstUpdate(e)
      PROVE  Served'
  BY <1>0, <1>13, Kinds DEF FirstUpdate, Goto, Crash, QueueUpdate, GoIdle, Served,
     Holders, Listed, Stopped
<1>14. ASSUME NEW e \in Sessions, NEW s \in Subs, Renew(e, s)
      PROVE  Served'
  BY <1>0, <1>14, Kinds DEF Renew, Goto, Accepts, Find, Served, Holders, Listed, Stopped
<1>15. ASSUME NEW e \in Sessions, NEW s \in Subs, Unsubscribe(e, s)
      PROVE  Served'
  BY <1>0, <1>15, Kinds DEF Unsubscribe, Goto, Accepts, Find, Served, Holders, Listed,
     Stopped
<1>16. ASSUME NEW e \in Sessions, RenewCheck(e)
      PROVE  Served'
  BY <1>0, <1>16, Kinds DEF RenewCheck, Goto, Crash, Served, Holders, Listed, Stopped
<1>17. ASSUME NEW e \in Sessions, DoRenew(e)
      PROVE  Served'
  BY <1>0, <1>17, Kinds DEF DoRenew, Goto, Crash, GoIdle, Served, Holders, Listed, Stopped
<1>18. ASSUME NEW t \in Publishers \union {Closer}, Expel(t)
      PROVE  Served'
  BY <1>0, <1>18, Kinds DEF Expel, Goto, Served, Holders, Listed, Stopped
<1>19. ASSUME NEW t \in Threads \ Apps, RemoveSubscription(t)
      PROVE  Served'
  BY <1>0, <1>19, Kinds DEF RemoveSubscription, Goto, Leave, After, Served, OneHolder,
     Holders, Listed, Stopped, Places, RemovalPcs, AppPcs, SessionPcs, WriterPcs,
     TimerPcs, ExpelPcs, OwnerPcs
<1>20. ASSUME NEW t \in Threads \ Apps, StopLock(t)
      PROVE  Served'
  BY <1>0, <1>20, Kinds DEF StopLock, Goto, Served, Holders, Listed, Stopped
<1>21. ASSUME NEW t \in Threads \ Apps, StopCancel(t)
      PROVE  Served'
  BY <1>0, <1>21, Kinds DEF StopCancel, Goto, MayCancel, Served, OneHolder, Holders,
     Listed, Stopped, Locks, Places, FreePcs, RemovalPcs, AppPcs, SessionPcs, WriterPcs,
     TimerPcs, ExpelPcs, OwnerPcs
<1>22. ASSUME NEW t \in Threads \ Apps, StopUnref(t)
      PROVE  Served'
  BY <1>0, <1>22, Kinds DEF StopUnref, Goto, Leave, RemoveRef, After, Served, OneHolder,
     Holders, Listed, Stopped, Places, FreePcs, RemovalPcs, AppPcs, SessionPcs,
     WriterPcs, TimerPcs, ExpelPcs, OwnerPcs
<1>23. ASSUME NEW t \in Publishers \union {Closer}, Release(t)
      PROVE  Served'
  BY <1>0, <1>23, Kinds DEF Release, Goto, Leave, RemoveRef, Served, Holders, Listed,
     Stopped
<1>24. ASSUME NEW t \in Threads \ Apps, Delete(t)
      PROVE  Served'
  BY <1>0, <1>24, Kinds DEF Delete, Goto, Leave, After, AfterDelete, MayCancel, Served,
     Holders, Listed, Stopped
<1>25. ASSUME NEW s \in Subs, Expire(s)
      PROVE  Served'
  BY <1>0, <1>25, Kinds DEF Expire, Goto, Crash, Served, Holders, Listed, Stopped
<1>26. ASSUME Fired
      PROVE  Served'
  BY <1>0, <1>26, Kinds DEF Fired, Goto, GoIdle, Served, Holders, Listed, Stopped
<1>27. ASSUME NEW e \in Sessions, Close(e)
      PROVE  Served'
  BY <1>0, <1>27, Kinds DEF Close, Goto, Served, Holders, Listed, Stopped
<1>28. ASSUME SetDisabled
      PROVE  Served'
  BY <1>0, <1>28, Kinds DEF SetDisabled, Goto, Served, Holders, Listed, Stopped
<1>29. ASSUME SetEnabled
      PROVE  Served'
  BY <1>0, <1>29, Kinds DEF SetEnabled, Goto, Served, Holders, Listed, Stopped
<1>30. ASSUME Destroy
      PROVE  Served'
  BY <1>0, <1>30, Kinds DEF Destroy, Goto, Served, Holders, Listed, Stopped
<1>31. ASSUME StopSubscriptions
      PROVE  Served'
  BY <1>0, <1>31, Kinds DEF StopSubscriptions, Goto, Served, Holders, Listed, Stopped
<1>32. ASSUME StopNext
      PROVE  Served'
  <2>1. PICK s \in todo[Owner] :
          /\ todo' = [todo EXCEPT ![Owner] = todo[Owner] \ {s}]
          /\ cur' = [cur EXCEPT ![Owner] = s] /\ pc' = [pc EXCEPT ![Owner] = "stop"]
    BY <1>32 DEF StopNext, Goto
  <2>2. pc[Owner] = "stopping" /\ svcLock = Owner /\ Owner \in Threads
        /\ UNCHANGED <<svcLock, iSubscriptions, iMap, iService>>
    BY <1>0, <1>32, Kinds DEF StopNext, Locks, Stopping
  <2>3. s \in iSubscriptions /\ s \in Subs /\ Listed(s) /\ iService[s]
    BY <1>0, <2>1, <2>2 DEF Loops, Stopping, Listed, Stopped, Served
  <2>4. /\ \A u \in Threads : u # Owner => pc'[u] = pc[u] /\ cur'[u] = cur[u]
        /\ pc'[Owner] = "stop" /\ cur'[Owner] = s
    BY <1>0, <2>1, <2>2
  <2>5. \A r \in Subs : r # s => (Listed(r)' <=> Listed(r)) /\ Holders(r)' = Holders(r)
    BY <1>0, <2>1, <2>2, <2>4, Kinds DEF Listed, Stopped, Holders
  <2>6. Owner \in Holders(s)' /\ ~Listed(s)'
    BY <1>0, <2>1, <2>2, <2>4 DEF Listed, Stopped, Holders
  <2> QED
    BY <1>0, <2>2, <2>3, <2>4, <2>5, <2>6, Kinds DEF Served
<1>33. ASSUME StopEnd
      PROVE  Served'
  BY <1>0, <1>33, Kinds DEF StopEnd, Goto, Served, Holders, Listed, Stopped, Locks,
     Stopping
<1>34. ASSUME NEW p \in Publishers, Dispatch(p)
      PROVE  Served'
  BY <1>0, <1>34, Kinds DEF Dispatch, Goto, Served, Holders, Listed, Stopped
<1>35. ASSUME NEW p \in Publishers, WriteChanges(p)
      PROVE  Served'
  BY <1>0, <1>35, Kinds DEF WriteChanges, Goto, Served, Holders, Listed, Stopped
<1>36. ASSUME NEW p \in Publishers, ReadSequenceNumber(p)
      PROVE  Served'
  BY <1>0, <1>36, Kinds DEF ReadSequenceNumber, Goto, Served, Holders, Listed, Stopped
<1>37. ASSUME NEW p \in Publishers, Connect(p)
      PROVE  Served'
  BY <1>0, <1>37, Kinds DEF Connect, Goto, Served, Holders, Listed, Stopped
<1>38. ASSUME NEW p \in Publishers, Send(p)
      PROVE  Served'
  BY <1>0, <1>38, Kinds DEF Send, Goto, Served, Holders, Listed, Stopped
<1> QED
  BY <1>1, <1>2, <1>3, <1>4, <1>5, <1>6, <1>7, <1>8, <1>9, <1>10, <1>11, <1>12,
     <1>13, <1>14, <1>15, <1>16, <1>17, <1>18, <1>19, <1>20, <1>21, <1>22, <1>23,
     <1>24, <1>25, <1>26, <1>27, <1>28, <1>29, <1>30, <1>31, <1>32, <1>33, <1>34,
     <1>35, <1>36, <1>37, <1>38
     DEF Next, AppStep, Publish, RequestStep, Removal, OwnerStep, PublisherStep

(* A thread that deletes a subscription is the only one that knows it.      *)
LEMMA DeletedOut ==
  ASSUME IInv, NEW t \in Threads, pc[t] = "delete"
  PROVE  /\ cur[t] \in Subs /\ cur[t] \notin iMap /\ ~iService[cur[t]] /\ Holders(cur[t]) = {}
         /\ ~Listed(cur[t]) /\ Members(cur[t]) = {} /\ HowOften(iList, cur[t]) = 0
<1>1. cur[t] \in Subs /\ iRefCount[cur[t]] = 0
  BY Typed DEF Hands, Lives, FreePcs
<1>2. HowOften(iList, cur[t]) \in Nat
  BY <1>1, PartTypes, Typed DEF TypeOK
<1> QED
  BY <1>1, <1>2, Referenced

(* The list's reference is kept.                                            *)
LEMMA ListPartKept ==
  ASSUME IInv, Next
  PROVE  \/ \A s \in Subs : ListPart(s)' = ListPart(s)
         \/ \E e \in Sessions, s \in Subs : Subscribe(e, s)
         \/ \E t \in Threads \ Apps : StopUnref(t)
<1> USE DEF service, manager, sub, fac, device, threads, seen
<1>0. /\ Served /\ OneHolder /\ Loops /\ Locks /\ Places
      /\ DOMAIN pc = Threads /\ DOMAIN cur = Threads /\ DOMAIN todo = Threads
      /\ DOMAIN iService = Subs /\ iSubscriptions \subseteq Subs
      /\ \A t \in Threads : cur[t] \in Subs <=> pc[t] \notin FreePcs
      /\ \A t \in Threads : pc[t] = "delete" => ~iService[cur[t]] /\ cur[t] \notin iMap
  BY Typed, Unserved, DeletedOut DEF TypeOK, Hands
<1> DEFINE Goal == \/ \A s \in Subs : ListPart(s)' = ListPart(s)
                   \/ \E e \in Sessions, s \in Subs : Subscribe(e, s)
                   \/ \E t \in Threads \ Apps : StopUnref(t)
<1> SUFFICES Goal
  OBVIOUS
<1>1. ASSUME NEW a \in Apps, SetProperty(a)
      PROVE  Goal
  BY <1>0, <1>1, Kinds DEF SetProperty, Goto, ListPart, Holders, Listed, Stopped
<1>2. ASSUME NEW a \in Apps, TryPublishUpdate(a)
      PROVE  Goal
  BY <1>0, <1>2, Kinds DEF TryPublishUpdate, Goto, ListPart, Holders, Listed, Stopped
<1>3. ASSUME NEW a \in Apps, PropertiesLock(a)
      PROVE  Goal
  BY <1>0, <1>3, Kinds DEF PropertiesLock, Goto, ListPart, Holders, Listed, Stopped
<1>4. ASSUME NEW a \in Apps, PropertiesUnlock(a)
      PROVE  Goal
  BY <1>0, <1>4, Kinds DEF PropertiesUnlock, Goto, ListPart, Holders, Listed, Stopped
<1>5. ASSUME NEW t \in Apps \union {Owner}, PublishBegin(t)
      PROVE  Goal
  BY <1>0, <1>5, Kinds DEF PublishBegin, Goto, ListPart, Holders, Listed, Stopped
<1>6. ASSUME NEW t \in Apps \union {Owner}, PublishOne(t)
      PROVE  Goal
  BY <1>0, <1>6, Kinds DEF PublishOne, Goto, QueueUpdate, ListPart, Holders, Listed,
     Stopped
<1>7. ASSUME NEW t \in Apps \union {Owner}, PublishEnd(t)
      PROVE  Goal
  BY <1>0, <1>7, Kinds DEF PublishEnd, Goto, ListPart, Holders, Listed, Stopped, Locks
<1>8. ASSUME NEW e \in Sessions, NEW s \in Subs, Subscribe(e, s)
      PROVE  Goal
  BY <1>8
<1>9. ASSUME NEW e \in Sessions, AddSubscription(e)
      PROVE  Goal
  BY <1>0, <1>9, Kinds DEF AddSubscription, Goto, ListPart, Holders, Listed, Stopped
<1>10. ASSUME NEW e \in Sessions, Respond(e)
      PROVE  Goal
  BY <1>0, <1>10, Kinds DEF Respond, Goto, GoIdle, ListPart, Served, Holders, Listed,
     Stopped
<1>11. ASSUME NEW e \in Sessions, Start(e)
      PROVE  Goal
  BY <1>0, <1>11, Kinds DEF Start, Goto, ListPart, Holders, Listed, Stopped
<1>12. ASSUME NEW e \in Sessions, PushSubscription(e)
      PROVE  Goal
  BY <1>0, <1>12, Kinds DEF PushSubscription, Goto, ListPart, Holders, Listed, Stopped
<1>13. ASSUME NEW e \in Sessions, FirstUpdate(e)
      PROVE  Goal
  BY <1>0, <1>13, Kinds DEF FirstUpdate, Goto, Crash, QueueUpdate, GoIdle, ListPart,
     Holders, Listed, Stopped
<1>14. ASSUME NEW e \in Sessions, NEW s \in Subs, Renew(e, s)
      PROVE  Goal
  BY <1>0, <1>14, Kinds DEF Renew, Goto, Accepts, Find, ListPart, Holders, Listed, Stopped
<1>15. ASSUME NEW e \in Sessions, NEW s \in Subs, Unsubscribe(e, s)
      PROVE  Goal
  BY <1>0, <1>15, Kinds DEF Unsubscribe, Goto, Accepts, Find, ListPart, Holders, Listed,
     Stopped
<1>16. ASSUME NEW e \in Sessions, RenewCheck(e)
      PROVE  Goal
  BY <1>0, <1>16, Kinds DEF RenewCheck, Goto, Crash, ListPart, Holders, Listed, Stopped
<1>17. ASSUME NEW e \in Sessions, DoRenew(e)
      PROVE  Goal
  BY <1>0, <1>17, Kinds DEF DoRenew, Goto, Crash, GoIdle, ListPart, Holders, Listed,
     Stopped
<1>18. ASSUME NEW t \in Publishers \union {Closer}, Expel(t)
      PROVE  Goal
  BY <1>0, <1>18, Kinds DEF Expel, Goto, ListPart, Holders, Listed, Stopped
<1>19. ASSUME NEW t \in Threads \ Apps, RemoveSubscription(t)
      PROVE  Goal
  BY <1>0, <1>19, Kinds DEF RemoveSubscription, Goto, Leave, After, ListPart, Holders,
     Listed, Stopped
<1>20. ASSUME NEW t \in Threads \ Apps, StopLock(t)
      PROVE  Goal
  BY <1>0, <1>20, Kinds DEF StopLock, Goto, ListPart, Holders, Listed, Stopped
<1>21. ASSUME NEW t \in Threads \ Apps, StopCancel(t)
      PROVE  Goal
  BY <1>0, <1>21, Kinds DEF StopCancel, Goto, MayCancel, ListPart, Holders, Listed,
     Stopped
<1>22. ASSUME NEW t \in Threads \ Apps, StopUnref(t)
      PROVE  Goal
  BY <1>22
<1>23. ASSUME NEW t \in Publishers \union {Closer}, Release(t)
      PROVE  Goal
  BY <1>0, <1>23, Kinds DEF Release, Goto, Leave, RemoveRef, ListPart, Holders, Listed,
     Stopped
<1>24. ASSUME NEW t \in Threads \ Apps, Delete(t)
      PROVE  Goal
  BY <1>0, <1>24, Kinds DEF Delete, Goto, Leave, After, AfterDelete, MayCancel,
     ListPart, Holders, Listed, Stopped
<1>25. ASSUME NEW s \in Subs, Expire(s)
      PROVE  Goal
  BY <1>0, <1>25, Kinds DEF Expire, Goto, Crash, ListPart, Holders, Listed, Stopped
<1>26. ASSUME Fired
      PROVE  Goal
  BY <1>0, <1>26, Kinds DEF Fired, Goto, GoIdle, ListPart, Holders, Listed, Stopped
<1>27. ASSUME NEW e \in Sessions, Close(e)
      PROVE  Goal
  BY <1>0, <1>27, Kinds DEF Close, Goto, ListPart, Holders, Listed, Stopped
<1>28. ASSUME SetDisabled
      PROVE  Goal
  BY <1>0, <1>28, Kinds DEF SetDisabled, Goto, ListPart, Holders, Listed, Stopped
<1>29. ASSUME SetEnabled
      PROVE  Goal
  BY <1>0, <1>29, Kinds DEF SetEnabled, Goto, ListPart, Holders, Listed, Stopped
<1>30. ASSUME Destroy
      PROVE  Goal
  BY <1>0, <1>30, Kinds DEF Destroy, Goto, ListPart, Holders, Listed, Stopped
<1>31. ASSUME StopSubscriptions
      PROVE  Goal
  BY <1>0, <1>31, Kinds DEF StopSubscriptions, Goto, ListPart, Holders, Listed, Stopped
<1>32. ASSUME StopNext
      PROVE  Goal
  BY <1>0, <1>32, Kinds DEF StopNext, Goto, ListPart, Holders, Listed, Stopped, Loops,
     Stopping
<1>33. ASSUME StopEnd
      PROVE  Goal
  BY <1>0, <1>33, Kinds DEF StopEnd, Goto, ListPart, Holders, Listed, Stopped, Locks,
     Stopping
<1>34. ASSUME NEW p \in Publishers, Dispatch(p)
      PROVE  Goal
  BY <1>0, <1>34, Kinds DEF Dispatch, Goto, ListPart, Holders, Listed, Stopped
<1>35. ASSUME NEW p \in Publishers, WriteChanges(p)
      PROVE  Goal
  BY <1>0, <1>35, Kinds DEF WriteChanges, Goto, ListPart, Holders, Listed, Stopped
<1>36. ASSUME NEW p \in Publishers, ReadSequenceNumber(p)
      PROVE  Goal
  BY <1>0, <1>36, Kinds DEF ReadSequenceNumber, Goto, ListPart, Holders, Listed, Stopped
<1>37. ASSUME NEW p \in Publishers, Connect(p)
      PROVE  Goal
  BY <1>0, <1>37, Kinds DEF Connect, Goto, ListPart, Holders, Listed, Stopped
<1>38. ASSUME NEW p \in Publishers, Send(p)
      PROVE  Goal
  BY <1>0, <1>38, Kinds DEF Send, Goto, ListPart, Holders, Listed, Stopped
<1> QED
  BY <1>1, <1>2, <1>3, <1>4, <1>5, <1>6, <1>7, <1>8, <1>9, <1>10, <1>11, <1>12,
     <1>13, <1>14, <1>15, <1>16, <1>17, <1>18, <1>19, <1>20, <1>21, <1>22, <1>23,
     <1>24, <1>25, <1>26, <1>27, <1>28, <1>29, <1>30, <1>31, <1>32, <1>33, <1>34,
     <1>35, <1>36, <1>37, <1>38
     DEF Next, AppStep, Publish, RequestStep, Removal, OwnerStep, PublisherStep

(* So are those of the publishers.                                          *)
LEMMA MembersKept ==
  ASSUME IInv, Next
  PROVE  \/ \A s \in Subs : Members(s)' = Members(s)
         \/ \E t \in Publishers \union {Closer} : Release(t)
         \/ \E t \in Threads \ Apps : StopUnref(t)
         \/ \E e \in Sessions : Close(e)
         \/ \E p \in Publishers : Dispatch(p)
<1> USE DEF service, manager, sub, fac, device, threads, seen
<1>0. /\ Places
      /\ DOMAIN pc = Threads /\ DOMAIN cur = Threads
      /\ \A t \in Threads : cur[t] \in Subs <=> pc[t] \notin FreePcs
  BY Typed DEF TypeOK, Hands
<1> DEFINE Goal == \/ \A s \in Subs : Members(s)' = Members(s)
                   \/ \E t \in Publishers \union {Closer} : Release(t)
                   \/ \E t \in Threads \ Apps : StopUnref(t)
                   \/ \E e \in Sessions : Close(e)
                   \/ \E p \in Publishers : Dispatch(p)
<1> SUFFICES Goal
  OBVIOUS
<1>1. ASSUME NEW a \in Apps, SetProperty(a)
      PROVE  Goal
  BY <1>0, <1>1, Kinds DEF SetProperty, Goto, Members
<1>2. ASSUME NEW a \in Apps, TryPublishUpdate(a)
      PROVE  Goal
  BY <1>0, <1>2, Kinds DEF TryPublishUpdate, Goto, Members
<1>3. ASSUME NEW a \in Apps, PropertiesLock(a)
      PROVE  Goal
  BY <1>0, <1>3, Kinds DEF PropertiesLock, Goto, Members
<1>4. ASSUME NEW a \in Apps, PropertiesUnlock(a)
      PROVE  Goal
  BY <1>0, <1>4, Kinds DEF PropertiesUnlock, Goto, Members
<1>5. ASSUME NEW t \in Apps \union {Owner}, PublishBegin(t)
      PROVE  Goal
  BY <1>0, <1>5, Kinds DEF PublishBegin, Goto, Members
<1>6. ASSUME NEW t \in Apps \union {Owner}, PublishOne(t)
      PROVE  Goal
  BY <1>0, <1>6, Kinds DEF PublishOne, Goto, QueueUpdate, Members
<1>7. ASSUME NEW t \in Apps \union {Owner}, PublishEnd(t)
      PROVE  Goal
  BY <1>0, <1>7, Kinds DEF PublishEnd, Goto, Members
<1>8. ASSUME NEW e \in Sessions, NEW s \in Subs, Subscribe(e, s)
      PROVE  Goal
  BY <1>0, <1>8, Kinds DEF Subscribe, Goto, Accepts, Members
<1>9. ASSUME NEW e \in Sessions, AddSubscription(e)
      PROVE  Goal
  BY <1>0, <1>9, Kinds DEF AddSubscription, Goto, Members
<1>10. ASSUME NEW e \in Sessions, Respond(e)
      PROVE  Goal
  BY <1>0, <1>10, Kinds DEF Respond, Goto, GoIdle, Members
<1>11. ASSUME NEW e \in Sessions, Start(e)
      PROVE  Goal
  BY <1>0, <1>11, Kinds DEF Start, Goto, Members
<1>12. ASSUME NEW e \in Sessions, PushSubscription(e)
      PROVE  Goal
  BY <1>0, <1>12, Kinds DEF PushSubscription, Goto, Members
<1>13. ASSUME NEW e \in Sessions, FirstUpdate(e)
      PROVE  Goal
  BY <1>0, <1>13, Kinds DEF FirstUpdate, Goto, Crash, QueueUpdate, GoIdle, Members
<1>14. ASSUME NEW e \in Sessions, NEW s \in Subs, Renew(e, s)
      PROVE  Goal
  BY <1>0, <1>14, Kinds DEF Renew, Goto, Accepts, Find, Members
<1>15. ASSUME NEW e \in Sessions, NEW s \in Subs, Unsubscribe(e, s)
      PROVE  Goal
  BY <1>0, <1>15, Kinds DEF Unsubscribe, Goto, Accepts, Find, Members
<1>16. ASSUME NEW e \in Sessions, RenewCheck(e)
      PROVE  Goal
  BY <1>0, <1>16, Kinds DEF RenewCheck, Goto, Crash, Members
<1>17. ASSUME NEW e \in Sessions, DoRenew(e)
      PROVE  Goal
  BY <1>0, <1>17, Kinds DEF DoRenew, Goto, Crash, GoIdle, Members
<1>18. ASSUME NEW t \in Publishers \union {Closer}, Expel(t)
      PROVE  Goal
  BY <1>0, <1>18, Kinds DEF Expel, Goto, Members
<1>19. ASSUME NEW t \in Threads \ Apps, RemoveSubscription(t)
      PROVE  Goal
  BY <1>0, <1>19, Kinds DEF RemoveSubscription, Goto, Leave, After, Members
<1>20. ASSUME NEW t \in Threads \ Apps, StopLock(t)
      PROVE  Goal
  BY <1>0, <1>20, Kinds DEF StopLock, Goto, Members
<1>21. ASSUME NEW t \in Threads \ Apps, StopCancel(t)
      PROVE  Goal
  BY <1>0, <1>21, Kinds DEF StopCancel, Goto, MayCancel, Members
<1>22. ASSUME NEW t \in Threads \ Apps, StopUnref(t)
      PROVE  Goal
  BY <1>22
<1>23. ASSUME NEW t \in Publishers \union {Closer}, Release(t)
      PROVE  Goal
  BY <1>23
<1>24. ASSUME NEW t \in Threads \ Apps, Delete(t)
      PROVE  Goal
  BY <1>0, <1>24, Kinds DEF Delete, Goto, Leave, After, AfterDelete, MayCancel, Members
<1>25. ASSUME NEW s \in Subs, Expire(s)
      PROVE  Goal
  BY <1>0, <1>25, Kinds DEF Expire, Goto, Crash, Members
<1>26. ASSUME Fired
      PROVE  Goal
  BY <1>0, <1>26, Kinds DEF Fired, Goto, GoIdle, Members
<1>27. ASSUME NEW e \in Sessions, Close(e)
      PROVE  Goal
  BY <1>27
<1>28. ASSUME SetDisabled
      PROVE  Goal
  BY <1>0, <1>28, Kinds DEF SetDisabled, Goto, Members
<1>29. ASSUME SetEnabled
      PROVE  Goal
  BY <1>0, <1>29, Kinds DEF SetEnabled, Goto, Members
<1>30. ASSUME Destroy
      PROVE  Goal
  BY <1>0, <1>30, Kinds DEF Destroy, Goto, Members
<1>31. ASSUME StopSubscriptions
      PROVE  Goal
  BY <1>0, <1>31, Kinds DEF StopSubscriptions, Goto, Members
<1>32. ASSUME StopNext
      PROVE  Goal
  BY <1>0, <1>32, Kinds DEF StopNext, Goto, Members
<1>33. ASSUME StopEnd
      PROVE  Goal
  BY <1>0, <1>33, Kinds DEF StopEnd, Goto, Members
<1>34. ASSUME NEW p \in Publishers, Dispatch(p)
      PROVE  Goal
  BY <1>34
<1>35. ASSUME NEW p \in Publishers, WriteChanges(p)
      PROVE  Goal
  BY <1>0, <1>35, Kinds DEF WriteChanges, Goto, Members
<1>36. ASSUME NEW p \in Publishers, ReadSequenceNumber(p)
      PROVE  Goal
  BY <1>0, <1>36, Kinds DEF ReadSequenceNumber, Goto, Members
<1>37. ASSUME NEW p \in Publishers, Connect(p)
      PROVE  Goal
  BY <1>0, <1>37, Kinds DEF Connect, Goto, Members
<1>38. ASSUME NEW p \in Publishers, Send(p)
      PROVE  Goal
  BY <1>0, <1>38, Kinds DEF Send, Goto, Members
<1> QED
  BY <1>1, <1>2, <1>3, <1>4, <1>5, <1>6, <1>7, <1>8, <1>9, <1>10, <1>11, <1>12,
     <1>13, <1>14, <1>15, <1>16, <1>17, <1>18, <1>19, <1>20, <1>21, <1>22, <1>23,
     <1>24, <1>25, <1>26, <1>27, <1>28, <1>29, <1>30, <1>31, <1>32, <1>33, <1>34,
     <1>35, <1>36, <1>37, <1>38
     DEF Next, AppStep, Publish, RequestStep, Removal, OwnerStep, PublisherStep

(* A thread that begins or ends to be one of those with a reference.        *)
LEMMA MembersStep ==
  ASSUME IInv, NEW s \in Subs, NEW t, Members(s) \ {t} = Members(s)' \ {t}
  PROVE  Cardinality(Members(s)') =
           Cardinality(Members(s)) + (IF t \in Members(s)' THEN 1 ELSE 0)
                                   - (IF t \in Members(s) THEN 1 ELSE 0)
<1>1. IsFiniteSet(Members(s))
  BY PartTypes, Typed DEF TypeOK
<1> HIDE DEF Members
<1> QED
  BY <1>1, CardinalityStep

CountOf(s) == iRefCount[s] = HowOften(iList, s) + Cardinality(Members(s)) + ListPart(s)

(* The references are counted.                                              *)
LEMMA CountedStep ==
  ASSUME IInv, Next
  PROVE  Counted'
<1> USE DEF service, manager, sub, fac, device, threads, seen
<1>0. /\ Counted /\ Places /\ Lives /\ iList \in Seq(Subs)
      /\ DOMAIN pc = Threads /\ DOMAIN cur = Threads
      /\ iRefCount \in [Subs -> Nat]
      /\ \A t \in Threads : cur[t] \in Subs <=> pc[t] \notin FreePcs
  BY Typed DEF TypeOK, Hands
<1>a. SUFFICES ASSUME NEW s \in Subs
               PROVE  CountOf(s)'
  BY DEF Counted, CountOf
<1>b. /\ CountOf(s)
      /\ HowOften(iList, s) \in Nat /\ Cardinality(Members(s)) \in Nat
      /\ ListPart(s) \in {0, 1}
  BY <1>0, PartTypes DEF Counted, CountOf
<1>c. PICK h \in Nat, m \in Nat, l \in {0, 1} :
        HowOften(iList, s) = h /\ Cardinality(Members(s)) = m /\ ListPart(s) = l
  BY <1>b
<1>d. iRefCount[s] = h + m + l
  BY <1>b, <1>c DEF CountOf
<1>1. CASE \E e \in Sessions, r \in Subs : Subscribe(e, r)
  <2>1. PICK e \in Sessions, r \in Subs : Subscribe(e, r)
    BY <1>1
  <2>2. Members(s)' = Members(s)
    BY <1>0, <2>1, Kinds DEF Subscribe, Accepts, Goto, Members, FreePcs
  <2>3. ListPart(s)' = IF s = r THEN 1 ELSE ListPart(s)
    <3>1. e \in Holders(r)'
      BY <1>0, <2>1, Kinds DEF Subscribe, Goto, Holders
    <3>2. s # r => Holders(s)' = Holders(s)
      BY <1>0, <2>1, Kinds DEF Subscribe, Accepts, Goto, Holders, FreePcs
    <3>3. Stopped(s)' <=> Stopped(s)
      BY <1>0, <2>1, Kinds DEF Subscribe, Goto, Stopped
    <3> QED
      BY <2>1, <3>1, <3>2, <3>3 DEF ListPart, Listed, Subscribe
  <2>4. iList' = iList /\ iRefCount' = [iRefCount EXCEPT ![r] = 1]
    BY <2>1 DEF Subscribe
  <2>5. CASE s = r
    <3>0. obj[s] = "none"
      BY <2>1, <2>5 DEF Subscribe
    <3>1. iRefCount[s] \in Nat /\ ~(iRefCount[s] >= 1)
      BY <1>0, <3>0 DEF Lives
    <3>2. h = 0 /\ m = 0
      BY <1>d, <3>1
    <3> QED
      BY <1>0, <1>c, <2>2, <2>3, <2>4, <2>5, <3>2 DEF CountOf
  <2>6. CASE s # r
    BY <1>0, <1>b, <2>2, <2>3, <2>4, <2>6 DEF CountOf
  <2> QED
    BY <2>5, <2>6
<1>2. CASE \E t \in Threads \ Apps : StopUnref(t)
  <2>1. PICK t \in Threads \ Apps : StopUnref(t)
    BY <1>2
  <2>2. /\ pc[t] = "unref" /\ cur[t] \in Subs /\ t \in Threads
        /\ iMap' = iMap \ {cur[t]} /\ iList' = iList
        /\ iRefCount' = [iRefCount EXCEPT ![cur[t]] = @ - 1]
        /\ UNCHANGED <<iSubscriptions, svcLock, todo, iService>>
    BY <1>0, <2>1 DEF StopUnref, RemoveRef, FreePcs
  <2>3. t \in Publishers \union {Closer} => iRefCount[cur[t]] # 1
    <3>1. ListPart(cur[t]) = 1
      BY <2>2, Hold, Referenced
    <3>2. t \in Publishers \union {Closer} => Members(cur[t]) # {}
      BY <2>2, Hold DEF FreePcs
    <3> QED
      BY <2>2, <3>1, <3>2, Referenced
  <2>4. Members(s)' = Members(s)
    BY <1>0, <2>1, <2>2, <2>3, Kinds
       DEF StopUnref, RemoveRef, Goto, Leave, After, Members, Places, FreePcs, RemovalPcs, WriterPcs,
           ExpelPcs
  <2>5. /\ \A u \in Threads : u # t => pc'[u] = pc[u] /\ cur'[u] = cur[u]
        /\ pc'[t] \in {"delete", "release", "fired", "stopping", "idle"}
        /\ t = Owner => pc'[t] # "queue"
    BY <1>0, <2>1, Kinds DEF StopUnref, RemoveRef, Goto, Leave, After
  <2>6. /\ t \in Holders(cur[t]) /\ \A u \in Holders(cur[t]) : u = t
        /\ ~Listed(cur[t]) /\ (t # Owner => cur[t] \notin iSubscriptions)
    BY <2>2, Hold, Typed DEF OneHolder
  <2>7. Holders(s)' = IF s = cur[t] THEN {} ELSE Holders(s)
    BY <1>0, <2>2, <2>5, <2>6, Kinds DEF Holders
  <2>8. Stopped(s)' <=> Stopped(s)
    BY <2>2, <2>5, Kinds DEF Stopped
  <2>9. ListPart(s)' = IF s = cur[t] THEN 0 ELSE ListPart(s)
    BY <2>2, <2>6, <2>7, <2>8 DEF ListPart, Listed
  <2>10. CASE s = cur[t]
    <3>1. l = 1
      BY <1>c, <2>6, <2>10, Referenced
    <3> QED
      BY <1>0, <1>c, <1>d, <2>2, <2>4, <2>9, <2>10, <3>1 DEF CountOf
  <2>11. CASE s # cur[t]
    BY <1>0, <1>b, <2>2, <2>4, <2>9, <2>11 DEF CountOf
  <2> QED
    BY <2>10, <2>11
<1>3. CASE \A r \in Subs : ListPart(r)' = ListPart(r)
  <2>1. ListPart(s)' = l
    BY <1>3, <1>c
  <2>2. CASE \E t \in Publishers \union {Closer} : Release(t)
    <3>1. PICK t \in Publishers \union {Closer} : Release(t)
      BY <2>2
    <3>2. /\ t \in Threads /\ pc[t] = "release" /\ cur[t] \in Subs /\ iList' = iList
          /\ iRefCount' = [iRefCount EXCEPT ![cur[t]] = @ - 1]
      BY <1>0, <3>1, Kinds DEF Release, RemoveRef, FreePcs
    <3>3. t \in Members(s) <=> cur[t] = s
      BY <3>2 DEF Members
    <3>4. t \notin Members(s)'
      BY <1>0, <3>1, <3>2, Kinds DEF Release, RemoveRef, Goto, Leave, Members
    <3>5. Members(s) \ {t} = Members(s)' \ {t}
      BY <1>0, <3>1, <3>2, Kinds DEF Release, RemoveRef, Goto, Leave, Members
    <3>6. Cardinality(Members(s)') = m - (IF cur[t] = s THEN 1 ELSE 0)
      BY <1>c, <3>3, <3>4, <3>5, MembersStep
    <3> QED
      BY <1>0, <1>c, <1>d, <2>1, <3>2, <3>6 DEF CountOf
  <2>3. CASE \E e \in Sessions : Close(e)
    <3>1. PICK e \in Sessions : Close(e)
      BY <2>3
    <3>2. CASE UNCHANGED <<iRefCount, pc, cur>>
      <4>1. Members(s)' = Members(s) /\ iList' = iList
        BY <3>1, <3>2 DEF Members, Close
      <4> QED
        BY <1>c, <1>d, <2>1, <3>2, <4>1 DEF CountOf
    <3>3. CASE \E r \in Subs : /\ iRefCount' = [iRefCount EXCEPT ![r] = @ + 1]
                               /\ pc' = [pc EXCEPT ![Closer] = "expel"]
                               /\ cur' = [cur EXCEPT ![Closer] = r]
      <4>1. PICK r \in Subs : /\ iRefCount' = [iRefCount EXCEPT ![r] = @ + 1]
                              /\ pc' = [pc EXCEPT ![Closer] = "expel"]
                              /\ cur' = [cur EXCEPT ![Closer] = r]
        BY <3>3
      <4>2. pc[Closer] = "idle" /\ Closer \in Threads /\ iList' = iList
        BY <3>1, Kinds DEF Close
      <4>3. Closer \notin Members(s)
        BY <1>0, <4>2 DEF Members, FreePcs
      <4>4. Closer \in Members(s)' <=> r = s
        BY <1>0, <4>1, <4>2 DEF Members
      <4>5. Members(s) \ {Closer} = Members(s)' \ {Closer}
        BY <1>0, <4>1, <4>2 DEF Members
      <4>6. Cardinality(Members(s)') = m + (IF r = s THEN 1 ELSE 0)
        BY <1>c, <4>3, <4>4, <4>5, MembersStep
      <4> QED
        BY <1>0, <1>c, <1>d, <2>1, <4>1, <4>2, <4>6 DEF CountOf
    <3> QED
      <4>1. iSubscriptionMap \subseteq Subs
        BY Typed DEF TypeOK
      <4> QED
        BY <3>1, <3>2, <3>3, <4>1 DEF Close, Goto
  <2>4. CASE \E p \in Publishers : Dispatch(p)
    <3>1. PICK p \in Publishers : Dispatch(p)
      BY <2>4
    <3>2. /\ pc[p] = "idle" /\ p \in Threads /\ iList # <<>> /\ iList' = Tail(iList)
          /\ pc' = [pc EXCEPT ![p] = "write"] /\ cur' = [cur EXCEPT ![p] = Head(iList)]
          /\ iRefCount' = iRefCount
      BY <3>1, Kinds DEF Dispatch, Goto
    <3>3. p \notin Members(s)
      BY <1>0, <3>2 DEF Members, FreePcs
    <3>4. p \in Members(s)' <=> Head(iList) = s
      BY <1>0, <3>2 DEF Members
    <3>5. Members(s) \ {p} = Members(s)' \ {p}
      BY <1>0, <3>2 DEF Members
    <3>6. Cardinality(Members(s)') = m + (IF Head(iList) = s THEN 1 ELSE 0)
      BY <1>c, <3>3, <3>4, <3>5, MembersStep
    <3>7. HowOften(iList', s) = h - (IF Head(iList) = s THEN 1 ELSE 0)
      BY <1>0, <1>c, <3>2, CountTail
    <3>8. HowOften(iList, s)' = HowOften(iList', s)
      BY DEF HowOften
    <3> QED
      BY <1>0, <1>c, <1>d, <2>1, <3>2, <3>6, <3>7, <3>8 DEF CountOf
  <2>5. CASE \A r \in Subs : Members(r)' = Members(r)
    <3>1. Cardinality(Members(s))' = m
      BY <1>c, <2>5
    <3>2. CASE \E r \in Subs : QueueUpdate(r)
      <4>1. PICK r \in Subs : QueueUpdate(r)
        BY <3>2
      <4>2. HowOften(iList', s) = h + (IF r = s THEN 1 ELSE 0)
        BY <1>0, <1>c, <4>1, CountAppend DEF QueueUpdate
      <4>3. iRefCount' = [iRefCount EXCEPT ![r] = @ + 1]
        BY <4>1 DEF QueueUpdate
      <4>4. HowOften(iList, s)' = HowOften(iList', s)
        BY DEF HowOften
      <4> QED
        BY <1>0, <1>c, <1>d, <2>1, <3>1, <4>2, <4>3, <4>4 DEF CountOf
    <3>3. CASE UNCHANGED <<iRefCount, iList>>
      <4>1. HowOften(iList, s)' = h
        BY <1>c, <3>3 DEF HowOften
      <4> QED
        BY <1>c, <1>d, <2>1, <3>1, <3>3, <4>1 DEF CountOf
    <3>4. \/ \E r \in Subs : QueueUpdate(r)
          \/ UNCHANGED <<iRefCount, iList>>
          \/ \E e \in Sessions, r \in Subs : Subscribe(e, r)
          \/ \E t \in Threads \ Apps : StopUnref(t)
          \/ \E t \in Publishers \union {Closer} : Release(t)
          \/ \E e \in Sessions : Close(e)
          \/ \E p \in Publishers : Dispatch(p)
      <4>1. todo \in [Threads -> SUBSET Subs]
        BY Typed DEF TypeOK
      <4>2. \A t \in Apps \union {Owner} : PublishOne(t) => \E r \in Subs : QueueUpdate(r)
        BY <4>1, Kinds DEF PublishOne
      <4>3. \A e \in Sessions : FirstUpdate(e) => \/ \E r \in Subs : QueueUpdate(r)
                                                  \/ UNCHANGED <<iRefCount, iList>>
        BY <1>0, Kinds DEF FirstUpdate, Crash, FreePcs
      <4> DEFINE Frame == \/ \E r \in Subs : QueueUpdate(r)
                          \/ UNCHANGED <<iRefCount, iList>>
      <4>4. ASSUME NEW a \in Apps, AppStep(a)
            PROVE  Frame
        BY <4>4 DEF AppStep, SetProperty, TryPublishUpdate, PropertiesLock, PropertiesUnlock
      <4>5. ASSUME NEW t \in Apps \union {Owner}, Publish(t)
            PROVE  Frame
        BY <4>2, <4>5 DEF Publish, PublishBegin, PublishEnd
      <4>6. ASSUME NEW e \in Sessions, RequestStep(e)
            PROVE  Frame
        BY <4>3, <4>6 DEF RequestStep, AddSubscription, Respond, Start, PushSubscription,
           RenewCheck, DoRenew, Crash
      <4>7. ASSUME NEW e \in Sessions, NEW r \in Subs, Renew(e, r) \/ Unsubscribe(e, r)
            PROVE  Frame
        BY <4>7 DEF Renew, Unsubscribe, Find, Crash
      <4>8. ASSUME NEW t \in Threads \ Apps, Removal(t)
            PROVE  Frame \/ StopUnref(t)
        BY <4>8 DEF Removal, RemoveSubscription, StopLock, StopCancel, Delete, Crash
      <4>9. ASSUME NEW p \in Publishers, PublisherStep(p)
            PROVE  Frame \/ Release(p) \/ Dispatch(p)
        BY <4>9 DEF PublisherStep, WriteChanges, ReadSequenceNumber, Connect, Send, Expel, Crash
      <4>10. ASSUME \/ \E r \in Subs : Expire(r)
                    \/ Fired \/ Expel(Closer) \/ SetDisabled \/ SetEnabled \/ Destroy
                    \/ OwnerStep
             PROVE  Frame
        BY <4>10 DEF Expire, Fired, Expel, Crash, SetDisabled, SetEnabled, Destroy, OwnerStep,
           StopSubscriptions, StopNext, StopEnd
      <4> QED
        BY <4>4, <4>5, <4>6, <4>7, <4>8, <4>9, <4>10 DEF Next
    <3> QED
      BY <1>1, <1>2, <2>2, <2>3, <2>4, <3>2, <3>3, <3>4
  <2> QED
    BY <1>2, <2>2, <2>3, <2>4, <2>5, MembersKept
<1> QED
  BY <1>1, <1>2, <1>3, ListPartKept

(* Who may queue an update or take the subscription up has a live one.      *)
LEMMA LiveOnes ==
  ASSUME IInv
  PROVE  /\ \A t \in Threads : pc[t] = "queue" \/ (t = Owner /\ Stopping) =>
              \A s \in todo[t] : s \in Subs /\ iRefCount[s] > 0
         /\ \A s \in iMap : s \in Subs /\ obj[s] = "live"
         /\ iList # <<>> => Head(iList) \in Subs /\ obj[Head(iList)] = "live"
         /\ \A t \in Threads :
              pc[t] \in {"stop", "cancel", "unref", "add", "respond", "start", "push", "expel",
                         "release", "write", "props", "connect", "send"} =>
                cur[t] \in Subs /\ iRefCount[cur[t]] > 0 /\ obj[cur[t]] = "live"
<1>1. ASSUME NEW t \in Threads, pc[t] = "queue" \/ (t = Owner /\ Stopping), NEW s \in todo[t]
      PROVE  s \in Subs /\ iRefCount[s] > 0
  <2>1. s \in iSubscriptions /\ s \in Subs
    BY <1>1, Typed DEF Loops, TypeOK
  <2>2. svcLock = t
    BY <1>1, Typed DEF Locks
  <2>3. ~Stopped(s)
    BY <1>1, <2>2, Kinds DEF Stopped, Stopping
  <2> QED
    BY <2>1, <2>3, Referenced DEF Listed
<1>2. \A s \in iMap : s \in Subs /\ obj[s] = "live"
  BY Unserved, Typed DEF TypeOK
<1>3. ASSUME iList # <<>>
      PROVE  Head(iList) \in Subs /\ obj[Head(iList)] = "live"
  <2>1. iList \in Seq(Subs)
    BY Typed DEF TypeOK
  <2>2. Head(iList) \in Subs /\ HowOften(iList, Head(iList)) > 0
    BY <1>3, <2>1, HeadCounted
  <2> QED
    BY <2>2, Referenced, Typed DEF Lives
<1>4. ASSUME NEW t \in Threads,
             pc[t] \in {"stop", "cancel", "unref", "add", "respond", "start", "push", "expel",
                        "release", "write", "props", "connect", "send"}
      PROVE  cur[t] \in Subs /\ iRefCount[cur[t]] > 0 /\ obj[cur[t]] = "live"
  BY <1>4, HoldCounts, Referenced
<1> QED
  BY <1>1, <1>2, <1>3, <1>4

(* A subscription that is referenced lives, and one thread deletes it.      *)
LEMMA LivesStep ==
  ASSUME IInv, Next
  PROVE  Lives'
<1> USE DEF service, manager, sub, fac, device, threads, seen
<1>0. /\ Lives /\ Places
      /\ DOMAIN pc = Threads /\ DOMAIN cur = Threads /\ iRefCount \in [Subs -> Nat]
      /\ obj \in [Subs -> {"none", "live", "dead"}] /\ DOMAIN armed = Subs
      /\ DOMAIN newest = Subs
      /\ iSubscriptions \subseteq Subs /\ iSubscriptionMap \subseteq Subs
      /\ \A t \in Threads : cur[t] \in Subs <=> pc[t] \notin FreePcs
      /\ \A t \in Threads : pc[t] = "queue" \/ (t = Owner /\ Stopping) =>
           \A s \in todo[t] : s \in Subs /\ iRefCount[s] > 0
      /\ \A s \in iMap : s \in Subs /\ obj[s] = "live"
      /\ iList # <<>> => Head(iList) \in Subs /\ obj[Head(iList)] = "live"
      /\ \A t \in Threads :
           pc[t] \in {"stop", "cancel", "unref", "add", "respond", "start", "push", "expel",
                      "release", "write", "props", "connect", "send"} =>
             cur[t] \in Subs /\ iRefCount[cur[t]] > 0 /\ obj[cur[t]] = "live"
  BY Typed, LiveOnes DEF TypeOK, Hands
<1>1. ASSUME NEW a \in Apps, SetProperty(a)
      PROVE  Lives'
  BY <1>0, <1>1, Kinds DEF SetProperty, Goto, Lives
<1>2. ASSUME NEW a \in Apps, TryPublishUpdate(a)
      PROVE  Lives'
  BY <1>0, <1>2, Kinds DEF TryPublishUpdate, Goto, Lives
<1>3. ASSUME NEW a \in Apps, PropertiesLock(a)
      PROVE  Lives'
  BY <1>0, <1>3, Kinds DEF PropertiesLock, Goto, Lives
<1>4. ASSUME NEW a \in Apps, PropertiesUnlock(a)
      PROVE  Lives'
  BY <1>0, <1>4, Kinds DEF PropertiesUnlock, Goto, Lives
<1>5. ASSUME NEW t \in Apps \union {Owner}, PublishBegin(t)
      PROVE  Lives'
  BY <1>0, <1>5, Kinds DEF PublishBegin, Goto, Lives
<1>6. ASSUME NEW t \in Apps \union {Owner}, PublishOne(t)
      PROVE  Lives'
  BY <1>0, <1>6, Kinds DEF PublishOne, Goto, QueueUpdate, Lives
<1>7. ASSUME NEW t \in Apps \union {Owner}, PublishEnd(t)
      PROVE  Lives'
  BY <1>0, <1>7, Kinds DEF PublishEnd, Goto, Lives
<1>8. ASSUME NEW e \in Sessions, NEW s \in Subs, Subscribe(e, s)
      PROVE  Lives'
  BY <1>0, <1>8, Kinds DEF Subscribe, Goto, Accepts, Lives
<1>9. ASSUME NEW e \in Sessions, AddSubscription(e)
      PROVE  Lives'
  BY <1>0, <1>9, Kinds DEF AddSubscription, Goto, Lives
<1>10. ASSUME NEW e \in Sessions, Respond(e)
      PROVE  Lives'
  BY <1>0, <1>10, Kinds DEF Respond, Goto, GoIdle, Lives
<1>11. ASSUME NEW e \in Sessions, Start(e)
      PROVE  Lives'
  BY <1>0, <1>11, Kinds DEF Start, Goto, Lives
<1>12. ASSUME NEW e \in Sessions, PushSubscription(e)
      PROVE  Lives'
  BY <1>0, <1>12, Kinds DEF PushSubscription, Goto, Lives
<1>13. ASSUME NEW e \in Sessions, FirstUpdate(e)
      PROVE  Lives'
  <2>1. CASE iRefCount[cur[e]] = 0
    BY <1>0, <1>13, <2>1 DEF FirstUpdate, Crash, Lives
  <2>2. CASE iRefCount[cur[e]] # 0
    <3>1. /\ e \in Threads /\ pc[e] = "first" /\ cur[e] \in Subs /\ iRefCount[cur[e]] > 0
          /\ iRefCount' = [iRefCount EXCEPT ![cur[e]] = iRefCount[cur[e]] + 1]
          /\ pc' = [pc EXCEPT ![e] = "idle"] /\ cur' = [cur EXCEPT ![e] = None]
          /\ UNCHANGED <<obj, armed, newest, iSubscriptions, iSubscriptionMap>>
      BY <1>0, <1>13, <2>2, Kinds, SMTT(30) DEF FirstUpdate, QueueUpdate, GoIdle, Goto, FreePcs
    <3>2. \A u \in Threads : pc'[u] = "delete" => pc[u] = "delete" /\ cur'[u] = cur[u] /\ cur[u] # cur[e]
      BY <1>0, <3>1 DEF Lives
    <3> QED
      BY <1>0, <3>1, <3>2, Kinds DEF Lives
  <2> QED
    BY <2>1, <2>2
<1>14. ASSUME NEW e \in Sessions, NEW s \in Subs, Renew(e, s)
      PROVE  Lives'
  BY <1>0, <1>14, Kinds DEF Renew, Goto, Accepts, Find, Lives
<1>15. ASSUME NEW e \in Sessions, NEW s \in Subs, Unsubscribe(e, s)
      PROVE  Lives'
  BY <1>0, <1>15, Kinds DEF Unsubscribe, Goto, Accepts, Find, Lives
<1>16. ASSUME NEW e \in Sessions, RenewCheck(e)
      PROVE  Lives'
  BY <1>0, <1>16, Kinds DEF RenewCheck, Goto, Crash, Lives
<1>17. ASSUME NEW e \in Sessions, DoRenew(e)
      PROVE  Lives'
  <2>1. CASE obj[cur[e]] = "dead"
    BY <1>0, <1>17, <2>1 DEF DoRenew, Crash, Lives
  <2>2. CASE obj[cur[e]] # "dead"
    <3>1. /\ e \in Threads /\ cur[e] \in Subs /\ armed' = [armed EXCEPT ![cur[e]] = TRUE]
          /\ pc' = [pc EXCEPT ![e] = "idle"] /\ cur' = [cur EXCEPT ![e] = None]
          /\ UNCHANGED <<obj, iRefCount, newest, iSubscriptions, iSubscriptionMap>>
      BY <1>0, <1>17, <2>2, Kinds DEF DoRenew, GoIdle, Goto, FreePcs
    <3> QED
      BY <1>0, <2>2, <3>1, Kinds DEF Lives
  <2> QED
    BY <2>1, <2>2
<1>18. ASSUME NEW t \in Publishers \union {Closer}, Expel(t)
      PROVE  Lives'
  BY <1>0, <1>18, Kinds DEF Expel, Goto, Lives
<1>19. ASSUME NEW t \in Threads \ Apps, RemoveSubscription(t)
      PROVE  Lives'
  BY <1>0, <1>19, Kinds DEF RemoveSubscription, Goto, Leave, After, Lives
<1>20. ASSUME NEW t \in Threads \ Apps, StopLock(t)
      PROVE  Lives'
  BY <1>0, <1>20, Kinds DEF StopLock, Goto, Lives
<1>21. ASSUME NEW t \in Threads \ Apps, StopCancel(t)
      PROVE  Lives'
  BY <1>0, <1>21, Kinds DEF StopCancel, Goto, MayCancel, Lives
<1>22. ASSUME NEW t \in Threads \ Apps, StopUnref(t)
      PROVE  Lives'
  BY <1>0, <1>22, Kinds, SMTT(30) DEF StopUnref, Goto, Leave, RemoveRef, After, Lives
<1>23. ASSUME NEW t \in Publishers \union {Closer}, Release(t)
      PROVE  Lives'
  <2>1. /\ t \in Threads /\ cur[t] \in Subs /\ iRefCount[cur[t]] > 0 /\ obj[cur[t]] = "live"
        /\ iRefCount' = [iRefCount EXCEPT ![cur[t]] = iRefCount[cur[t]] - 1]
        /\ UNCHANGED <<obj, armed, newest, iSubscriptions, iSubscriptionMap>>
    BY <1>0, <1>23, Kinds DEF Release, RemoveRef
  <2>2. CASE iRefCount[cur[t]] = 1 /\ pc' = [pc EXCEPT ![t] = "delete"] /\ cur' = cur
    BY <1>0, <2>1, <2>2 DEF Lives
  <2>3. CASE iRefCount[cur[t]] # 1 /\ pc' = [pc EXCEPT ![t] = "idle"] /\ cur' = [cur EXCEPT ![t] = None]
    <3>1. \A u \in Threads : pc'[u] = "delete" => pc[u] = "delete" /\ cur'[u] = cur[u] /\ cur[u] # cur[t]
      BY <1>0, <2>1, <2>3 DEF Lives
    <3> QED
      BY <1>0, <2>1, <2>3, <3>1, Kinds DEF Lives
  <2> QED
    BY <1>23, <2>2, <2>3 DEF Release, RemoveRef, Leave, Goto
<1>24. ASSUME NEW t \in Threads \ Apps, Delete(t)
      PROVE  Lives'
  BY <1>0, <1>24, Kinds DEF Delete, Goto, Leave, After, AfterDelete, MayCancel, Lives
<1>25. ASSUME NEW s \in Subs, Expire(s)
      PROVE  Lives'
  <2>1. CASE ~iService[s]
    BY <1>0, <1>25, <2>1 DEF Expire, Crash, Lives
  <2>2. CASE iService[s]
    <3>1. /\ Timer \in Threads /\ armed[s] /\ armed' = [armed EXCEPT ![s] = FALSE]
          /\ pc' = [pc EXCEPT ![Timer] = "remove"] /\ cur' = [cur EXCEPT ![Timer] = s]
          /\ UNCHANGED <<obj, iRefCount, newest, iSubscriptions, iSubscriptionMap>>
      BY <1>25, <2>2, Kinds DEF Expire, Goto
    <3> QED
      BY <1>0, <3>1, Kinds DEF Lives
  <2> QED
    BY <2>1, <2>2
<1>26. ASSUME Fired
      PROVE  Lives'
  BY <1>0, <1>26, Kinds DEF Fired, Goto, GoIdle, Lives
<1>27. ASSUME NEW e \in Sessions, Close(e)
      PROVE  Lives'
  <2>1. CASE UNCHANGED <<iRefCount, pc, cur>>
    BY <1>0, <1>27, <2>1 DEF Close, Lives
  <2>2. ASSUME NEW r \in Subs, iRefCount[r] # 0,
               iRefCount' = [iRefCount EXCEPT ![r] = iRefCount[r] + 1],
               pc' = [pc EXCEPT ![Closer] = "expel"], cur' = [cur EXCEPT ![Closer] = r]
        PROVE  Lives'
    <3>1. /\ Closer \in Threads
          /\ UNCHANGED <<obj, armed, newest, iSubscriptions, iSubscriptionMap>>
      BY <1>27, Kinds DEF Close
    <3>2. \A u \in Threads : pc'[u] = "delete" => pc[u] = "delete" /\ cur'[u] = cur[u] /\ cur[u] # r
      BY <1>0, <2>2, <3>1 DEF Lives
    <3> QED
      BY <1>0, <2>2, <3>1, <3>2, Kinds DEF Lives
  <2> QED
    BY <1>0, <1>27, <2>1, <2>2 DEF Close, Goto
<1>28. ASSUME SetDisabled
      PROVE  Lives'
  BY <1>0, <1>28, Kinds DEF SetDisabled, Goto, Lives
<1>29. ASSUME SetEnabled
      PROVE  Lives'
  BY <1>0, <1>29, Kinds DEF SetEnabled, Goto, Lives
<1>30. ASSUME Destroy
      PROVE  Lives'
  BY <1>0, <1>30, Kinds DEF Destroy, Goto, Lives
<1>31. ASSUME StopSubscriptions
      PROVE  Lives'
  BY <1>0, <1>31, Kinds DEF StopSubscriptions, Goto, Lives
<1>32. ASSUME StopNext
      PROVE  Lives'
  BY <1>0, <1>32, Kinds DEF StopNext, Goto, Lives, Stopping
<1>33. ASSUME StopEnd
      PROVE  Lives'
  BY <1>0, <1>33, Kinds DEF StopEnd, Goto, Lives
<1>34. ASSUME NEW p \in Publishers, Dispatch(p)
      PROVE  Lives'
  BY <1>0, <1>34, Kinds DEF Dispatch, Goto, Lives
<1>35. ASSUME NEW p \in Publishers, WriteChanges(p)
      PROVE  Lives'
  BY <1>0, <1>35, Kinds DEF WriteChanges, Goto, Lives
<1>36. ASSUME NEW p \in Publishers, ReadSequenceNumber(p)
      PROVE  Lives'
  BY <1>0, <1>36, Kinds DEF ReadSequenceNumber, Goto, Lives
<1>37. ASSUME NEW p \in Publishers, Connect(p)
      PROVE  Lives'
  BY <1>0, <1>37, Kinds DEF Connect, Goto, Lives
<1>38. ASSUME NEW p \in Publishers, Send(p)
      PROVE  Lives'
  <2>1. newest \in [Subs -> Message] /\ got \in [Subs -> Message]
    BY Typed DEF TypeOK
  <2>2. /\ pc[p] = "send" /\ p \in Threads /\ cur[p] \in Subs
        /\ \A r \in Subs : /\ r # cur[p] => newest'[r] = newest[r] /\ got'[r] = got[r]
                           /\ newest'[r] = newest[r] \/ newest'[r] = writer[p]
                           /\ got'[r] = got[r] \/ got'[r] = writer[p]
    <3>1. pc[p] = "send" /\ p \in Threads /\ cur[p] \in Subs
      BY <1>0, <1>38, Kinds DEF Send, FreePcs
    <3> QED
      BY <1>38, <2>1, <3>1, ReceivedOnly
  <2> QED
    BY <1>0, <1>38, <2>2, Kinds DEF Send, Goto, Lives
<1> QED
  BY <1>1, <1>2, <1>3, <1>4, <1>5, <1>6, <1>7, <1>8, <1>9, <1>10, <1>11, <1>12,
     <1>13, <1>14, <1>15, <1>16, <1>17, <1>18, <1>19, <1>20, <1>21, <1>22, <1>23,
     <1>24, <1>25, <1>26, <1>27, <1>28, <1>29, <1>30, <1>31, <1>32, <1>33, <1>34,
     <1>35, <1>36, <1>37, <1>38
     DEF Next, AppStep, Publish, RequestStep, Removal, OwnerStep, PublisherStep

(* The subscriptions' locks are kept.                                       *)
LEMMA GuardedStep ==
  ASSUME IInv, Next
  PROVE  Guarded'
<1> USE DEF service, manager, sub, fac, device, threads, seen
<1>0. /\ Guarded /\ Places
      /\ DOMAIN pc = Threads /\ DOMAIN cur = Threads /\ DOMAIN iLock = Subs
      /\ DOMAIN iService = Subs
      /\ \A t \in Threads : cur[t] \in Subs <=> pc[t] \notin FreePcs
  BY Typed DEF TypeOK, Hands
<1>1. ASSUME NEW a \in Apps, SetProperty(a)
      PROVE  Guarded'
  BY <1>0, <1>1, Kinds DEF SetProperty, Goto, Guarded
<1>2. ASSUME NEW a \in Apps, TryPublishUpdate(a)
      PROVE  Guarded'
  BY <1>0, <1>2, Kinds DEF TryPublishUpdate, Goto, Guarded
<1>3. ASSUME NEW a \in Apps, PropertiesLock(a)
      PROVE  Guarded'
  BY <1>0, <1>3, Kinds DEF PropertiesLock, Goto, Guarded
<1>4. ASSUME NEW a \in Apps, PropertiesUnlock(a)
      PROVE  Guarded'
  BY <1>0, <1>4, Kinds DEF PropertiesUnlock, Goto, Guarded
<1>5. ASSUME NEW t \in Apps \union {Owner}, PublishBegin(t)
      PROVE  Guarded'
  BY <1>0, <1>5, Kinds DEF PublishBegin, Goto, Guarded
<1>6. ASSUME NEW t \in Apps \union {Owner}, PublishOne(t)
      PROVE  Guarded'
  BY <1>0, <1>6, Kinds DEF PublishOne, Goto, QueueUpdate, Guarded
<1>7. ASSUME NEW t \in Apps \union {Owner}, PublishEnd(t)
      PROVE  Guarded'
  BY <1>0, <1>7, Kinds DEF PublishEnd, Goto, Guarded
<1>8. ASSUME NEW e \in Sessions, NEW s \in Subs, Subscribe(e, s)
      PROVE  Guarded'
  BY <1>0, <1>8, Kinds DEF Subscribe, Goto, Accepts, Guarded
<1>9. ASSUME NEW e \in Sessions, AddSubscription(e)
      PROVE  Guarded'
  BY <1>0, <1>9, Kinds DEF AddSubscription, Goto, Guarded
<1>10. ASSUME NEW e \in Sessions, Respond(e)
      PROVE  Guarded'
  BY <1>0, <1>10, Kinds DEF Respond, Goto, GoIdle, Guarded
<1>11. ASSUME NEW e \in Sessions, Start(e)
      PROVE  Guarded'
  BY <1>0, <1>11, Kinds DEF Start, Goto, Guarded
<1>12. ASSUME NEW e \in Sessions, PushSubscription(e)
      PROVE  Guarded'
  BY <1>0, <1>12, Kinds DEF PushSubscription, Goto, Guarded
<1>13. ASSUME NEW e \in Sessions, FirstUpdate(e)
      PROVE  Guarded'
  BY <1>0, <1>13, Kinds DEF FirstUpdate, Goto, Crash, QueueUpdate, GoIdle, Guarded
<1>14. ASSUME NEW e \in Sessions, NEW s \in Subs, Renew(e, s)
      PROVE  Guarded'
  BY <1>0, <1>14, Kinds DEF Renew, Goto, Accepts, Find, Guarded
<1>15. ASSUME NEW e \in Sessions, NEW s \in Subs, Unsubscribe(e, s)
      PROVE  Guarded'
  BY <1>0, <1>15, Kinds DEF Unsubscribe, Goto, Accepts, Find, Guarded
<1>16. ASSUME NEW e \in Sessions, RenewCheck(e)
      PROVE  Guarded'
  BY <1>0, <1>16, Kinds DEF RenewCheck, Goto, Crash, Guarded
<1>17. ASSUME NEW e \in Sessions, DoRenew(e)
      PROVE  Guarded'
  BY <1>0, <1>17, Kinds DEF DoRenew, Goto, Crash, GoIdle, Guarded
<1>18. ASSUME NEW t \in Publishers \union {Closer}, Expel(t)
      PROVE  Guarded'
  BY <1>0, <1>18, Kinds DEF Expel, Goto, Guarded
<1>19. ASSUME NEW t \in Threads \ Apps, RemoveSubscription(t)
      PROVE  Guarded'
  BY <1>0, <1>19, Kinds DEF RemoveSubscription, Goto, Leave, After, Guarded
<1>20. ASSUME NEW t \in Threads \ Apps, StopLock(t)
      PROVE  Guarded'
  BY <1>0, <1>20, Kinds DEF StopLock, Goto, Guarded, FreePcs
<1>21. ASSUME NEW t \in Threads \ Apps, StopCancel(t)
      PROVE  Guarded'
  BY <1>0, <1>21, Kinds DEF StopCancel, Goto, MayCancel, Guarded
<1>22. ASSUME NEW t \in Threads \ Apps, StopUnref(t)
      PROVE  Guarded'
  BY <1>0, <1>22, Kinds DEF StopUnref, Goto, Leave, RemoveRef, After, Guarded
<1>23. ASSUME NEW t \in Publishers \union {Closer}, Release(t)
      PROVE  Guarded'
  BY <1>0, <1>23, Kinds DEF Release, Goto, Leave, RemoveRef, Guarded
<1>24. ASSUME NEW t \in Threads \ Apps, Delete(t)
      PROVE  Guarded'
  BY <1>0, <1>24, Kinds DEF Delete, Goto, Leave, After, AfterDelete, MayCancel, Guarded
<1>25. ASSUME NEW s \in Subs, Expire(s)
      PROVE  Guarded'
  BY <1>0, <1>25, Kinds DEF Expire, Goto, Crash, Guarded
<1>26. ASSUME Fired
      PROVE  Guarded'
  BY <1>0, <1>26, Kinds DEF Fired, Goto, GoIdle, Guarded
<1>27. ASSUME NEW e \in Sessions, Close(e)
      PROVE  Guarded'
  BY <1>0, <1>27, Kinds DEF Close, Goto, Guarded
<1>28. ASSUME SetDisabled
      PROVE  Guarded'
  BY <1>0, <1>28, Kinds DEF SetDisabled, Goto, Guarded
<1>29. ASSUME SetEnabled
      PROVE  Guarded'
  BY <1>0, <1>29, Kinds DEF SetEnabled, Goto, Guarded
<1>30. ASSUME Destroy
      PROVE  Guarded'
  BY <1>0, <1>30, Kinds DEF Destroy, Goto, Guarded
<1>31. ASSUME StopSubscriptions
      PROVE  Guarded'
  BY <1>0, <1>31, Kinds DEF StopSubscriptions, Goto, Guarded
<1>32. ASSUME StopNext
      PROVE  Guarded'
  BY <1>0, <1>32, Kinds DEF StopNext, Goto, Guarded
<1>33. ASSUME StopEnd
      PROVE  Guarded'
  BY <1>0, <1>33, Kinds DEF StopEnd, Goto, Guarded
<1>34. ASSUME NEW p \in Publishers, Dispatch(p)
      PROVE  Guarded'
  BY <1>0, <1>34, Kinds DEF Dispatch, Goto, Guarded
<1>35. ASSUME NEW p \in Publishers, WriteChanges(p)
      PROVE  Guarded'
  BY <1>0, <1>35, Kinds DEF WriteChanges, Goto, Guarded, FreePcs
<1>36. ASSUME NEW p \in Publishers, ReadSequenceNumber(p)
      PROVE  Guarded'
  BY <1>0, <1>36, Kinds DEF ReadSequenceNumber, Goto, Guarded, FreePcs
<1>37. ASSUME NEW p \in Publishers, Connect(p)
      PROVE  Guarded'
  BY <1>0, <1>37, Kinds DEF Connect, Goto, Guarded
<1>38. ASSUME NEW p \in Publishers, Send(p)
      PROVE  Guarded'
  BY <1>0, <1>38, Kinds DEF Send, Goto, Guarded
<1> QED
  BY <1>1, <1>2, <1>3, <1>4, <1>5, <1>6, <1>7, <1>8, <1>9, <1>10, <1>11, <1>12,
     <1>13, <1>14, <1>15, <1>16, <1>17, <1>18, <1>19, <1>20, <1>21, <1>22, <1>23,
     <1>24, <1>25, <1>26, <1>27, <1>28, <1>29, <1>30, <1>31, <1>32, <1>33, <1>34,
     <1>35, <1>36, <1>37, <1>38
     DEF Next, AppStep, Publish, RequestStep, Removal, OwnerStep, PublisherStep

(* The versions told and read are in order.                                 *)
LEMMA VersionsStep ==
  ASSUME IInv, Next
  PROVE  Versions'
<1> USE DEF service, manager, sub, fac, device, threads, seen
<1>0. /\ Versions /\ Places /\ Locks
      /\ DOMAIN pc = Threads /\ DOMAIN cur = Threads
      /\ version \in Nat /\ iPropertySequenceNumbers \in [Subs -> Nat]
      /\ DOMAIN newest = Subs /\ DOMAIN got = Subs /\ writer \in [Publishers -> Message]
      /\ \A s \in Subs : got[s].val \in Nat /\ newest[s].val \in Nat
      /\ \A p \in Publishers : writer[p].val \in Nat
      /\ \A t \in Threads : cur[t] \in Subs <=> pc[t] \notin FreePcs
  BY Typed DEF TypeOK, Hands, Message
<1>1. ASSUME NEW a \in Apps, SetProperty(a)
      PROVE  Versions'
  BY <1>0, <1>1, Kinds DEF SetProperty, Goto, Versions
<1>2. ASSUME NEW a \in Apps, TryPublishUpdate(a)
      PROVE  Versions'
  BY <1>0, <1>2, Kinds DEF TryPublishUpdate, Goto, Versions
<1>3. ASSUME NEW a \in Apps, PropertiesLock(a)
      PROVE  Versions'
  BY <1>0, <1>3, Kinds DEF PropertiesLock, Goto, Versions
<1>4. ASSUME NEW a \in Apps, PropertiesUnlock(a)
      PROVE  Versions'
  BY <1>0, <1>4, Kinds DEF PropertiesUnlock, Goto, Versions
<1>5. ASSUME NEW t \in Apps \union {Owner}, PublishBegin(t)
      PROVE  Versions'
  BY <1>0, <1>5, Kinds DEF PublishBegin, Goto, Versions
<1>6. ASSUME NEW t \in Apps \union {Owner}, PublishOne(t)
      PROVE  Versions'
  BY <1>0, <1>6, Kinds DEF PublishOne, Goto, QueueUpdate, Versions
<1>7. ASSUME NEW t \in Apps \union {Owner}, PublishEnd(t)
      PROVE  Versions'
  BY <1>0, <1>7, Kinds DEF PublishEnd, Goto, Versions
<1>8. ASSUME NEW e \in Sessions, NEW s \in Subs, Subscribe(e, s)
      PROVE  Versions'
  BY <1>0, <1>8, Kinds DEF Subscribe, Goto, Accepts, Versions
<1>9. ASSUME NEW e \in Sessions, AddSubscription(e)
      PROVE  Versions'
  BY <1>0, <1>9, Kinds DEF AddSubscription, Goto, Versions
<1>10. ASSUME NEW e \in Sessions, Respond(e)
      PROVE  Versions'
  BY <1>0, <1>10, Kinds DEF Respond, Goto, GoIdle, Versions
<1>11. ASSUME NEW e \in Sessions, Start(e)
      PROVE  Versions'
  BY <1>0, <1>11, Kinds DEF Start, Goto, Versions
<1>12. ASSUME NEW e \in Sessions, PushSubscription(e)
      PROVE  Versions'
  BY <1>0, <1>12, Kinds DEF PushSubscription, Goto, Versions
<1>13. ASSUME NEW e \in Sessions, FirstUpdate(e)
      PROVE  Versions'
  BY <1>0, <1>13, Kinds DEF FirstUpdate, Goto, Crash, QueueUpdate, GoIdle, Versions
<1>14. ASSUME NEW e \in Sessions, NEW s \in Subs, Renew(e, s)
      PROVE  Versions'
  BY <1>0, <1>14, Kinds DEF Renew, Goto, Accepts, Find, Versions
<1>15. ASSUME NEW e \in Sessions, NEW s \in Subs, Unsubscribe(e, s)
      PROVE  Versions'
  BY <1>0, <1>15, Kinds DEF Unsubscribe, Goto, Accepts, Find, Versions
<1>16. ASSUME NEW e \in Sessions, RenewCheck(e)
      PROVE  Versions'
  BY <1>0, <1>16, Kinds DEF RenewCheck, Goto, Crash, Versions
<1>17. ASSUME NEW e \in Sessions, DoRenew(e)
      PROVE  Versions'
  BY <1>0, <1>17, Kinds DEF DoRenew, Goto, Crash, GoIdle, Versions
<1>18. ASSUME NEW t \in Publishers \union {Closer}, Expel(t)
      PROVE  Versions'
  BY <1>0, <1>18, Kinds DEF Expel, Goto, Versions
<1>19. ASSUME NEW t \in Threads \ Apps, RemoveSubscription(t)
      PROVE  Versions'
  BY <1>0, <1>19, Kinds DEF RemoveSubscription, Goto, Leave, After, Versions
<1>20. ASSUME NEW t \in Threads \ Apps, StopLock(t)
      PROVE  Versions'
  BY <1>0, <1>20, Kinds DEF StopLock, Goto, Versions
<1>21. ASSUME NEW t \in Threads \ Apps, StopCancel(t)
      PROVE  Versions'
  BY <1>0, <1>21, Kinds DEF StopCancel, Goto, MayCancel, Versions
<1>22. ASSUME NEW t \in Threads \ Apps, StopUnref(t)
      PROVE  Versions'
  BY <1>0, <1>22, Kinds DEF StopUnref, Goto, Leave, RemoveRef, After, Versions
<1>23. ASSUME NEW t \in Publishers \union {Closer}, Release(t)
      PROVE  Versions'
  BY <1>0, <1>23, Kinds DEF Release, Goto, Leave, RemoveRef, Versions
<1>24. ASSUME NEW t \in Threads \ Apps, Delete(t)
      PROVE  Versions'
  BY <1>0, <1>24, Kinds DEF Delete, Goto, Leave, After, AfterDelete, MayCancel, Versions
<1>25. ASSUME NEW s \in Subs, Expire(s)
      PROVE  Versions'
  BY <1>0, <1>25, Kinds DEF Expire, Goto, Crash, Versions
<1>26. ASSUME Fired
      PROVE  Versions'
  BY <1>0, <1>26, Kinds DEF Fired, Goto, GoIdle, Versions
<1>27. ASSUME NEW e \in Sessions, Close(e)
      PROVE  Versions'
  BY <1>0, <1>27, Kinds DEF Close, Goto, Versions
<1>28. ASSUME SetDisabled
      PROVE  Versions'
  BY <1>0, <1>28, Kinds DEF SetDisabled, Goto, Versions
<1>29. ASSUME SetEnabled
      PROVE  Versions'
  BY <1>0, <1>29, Kinds DEF SetEnabled, Goto, Versions
<1>30. ASSUME Destroy
      PROVE  Versions'
  BY <1>0, <1>30, Kinds DEF Destroy, Goto, Versions
<1>31. ASSUME StopSubscriptions
      PROVE  Versions'
  BY <1>0, <1>31, Kinds DEF StopSubscriptions, Goto, Versions
<1>32. ASSUME StopNext
      PROVE  Versions'
  BY <1>0, <1>32, Kinds DEF StopNext, Goto, Versions
<1>33. ASSUME StopEnd
      PROVE  Versions'
  BY <1>0, <1>33, Kinds DEF StopEnd, Goto, Versions
<1>34. ASSUME NEW p \in Publishers, Dispatch(p)
      PROVE  Versions'
  BY <1>0, <1>34, Kinds DEF Dispatch, Goto, Versions
<1>35. ASSUME NEW p \in Publishers, WriteChanges(p)
      PROVE  Versions'
  BY <1>0, <1>35, Kinds DEF WriteChanges, Goto, Versions
<1>36. ASSUME NEW p \in Publishers, ReadSequenceNumber(p)
      PROVE  Versions'
  BY <1>0, <1>36, Kinds, SMTT(30) DEF ReadSequenceNumber, Goto, Versions, Locks, Places, FreePcs,
     RemovalPcs, AppPcs, SessionPcs, WriterPcs, TimerPcs, ExpelPcs, OwnerPcs
<1>37. ASSUME NEW p \in Publishers, Connect(p)
      PROVE  Versions'
  <2>1. /\ p \in Threads /\ pc[p] = "connect" /\ cur[p] \in Subs /\ version' = version
        /\ got' = got /\ newest' = newest
        /\ iPropertySequenceNumbers[cur[p]] < writer[p].val /\ writer[p].val <= version
        /\ \A q \in Publishers : pc[q] = "connect" => q = p
        /\ \A q \in Threads : q # p => pc'[q] = pc[q] /\ cur'[q] = cur[q]
        /\ cur'[p] = cur[p] /\ pc'[p] \in {"send", "release", "expel"}
    BY <1>0, <1>37, Kinds DEF Connect, Goto, Versions, Locks, FreePcs
  <2>2. CASE UNCHANGED <<iPropertySequenceNumbers, writer>> /\ pc'[p] # "send"
    BY <1>0, <2>1, <2>2, Kinds DEF Versions
  <2>3. CASE /\ iPropertySequenceNumbers' = [iPropertySequenceNumbers EXCEPT ![cur[p]] = writer[p].val]
             /\ writer' = [writer EXCEPT ![p].val = version]
    <3>1. \A q \in Publishers : writer'[q].val = IF q = p THEN version ELSE writer[q].val
      BY <1>0, <2>3 DEF Message
    <3> QED
      BY <1>0, <2>1, <2>3, <3>1, Kinds DEF Versions
  <2> QED
    BY <1>0, <1>37, <2>1, <2>2, <2>3 DEF Connect, Goto
<1>38. ASSUME NEW p \in Publishers, Send(p)
      PROVE  Versions'
  <2>1. newest \in [Subs -> Message] /\ got \in [Subs -> Message]
    BY Typed DEF TypeOK
  <2>2. /\ pc[p] = "send" /\ p \in Threads /\ cur[p] \in Subs
        /\ \A r \in Subs : /\ r # cur[p] => newest'[r] = newest[r] /\ got'[r] = got[r]
                           /\ newest'[r] = newest[r] \/ newest'[r] = writer[p]
                           /\ got'[r] = got[r] \/ got'[r] = writer[p]
    <3>1. pc[p] = "send" /\ p \in Threads /\ cur[p] \in Subs
      BY <1>0, <1>38, Kinds DEF Send, FreePcs
    <3> QED
      BY <1>38, <2>1, <3>1, ReceivedOnly
  <2> QED
    BY <1>0, <1>38, <2>2, Kinds DEF Send, Goto, Versions
<1> QED
  BY <1>1, <1>2, <1>3, <1>4, <1>5, <1>6, <1>7, <1>8, <1>9, <1>10, <1>11, <1>12,
     <1>13, <1>14, <1>15, <1>16, <1>17, <1>18, <1>19, <1>20, <1>21, <1>22, <1>23,
     <1>24, <1>25, <1>26, <1>27, <1>28, <1>29, <1>30, <1>31, <1>32, <1>33, <1>34,
     <1>35, <1>36, <1>37, <1>38
     DEF Next, AppStep, Publish, RequestStep, Removal, OwnerStep, PublisherStep

-----------------------------------------------------------------------------
(* The changes that wait to be told                                         *)

Pending(s) ==
  \/ HowOften(iList, s) > 0
  \/ \E p \in Publishers : cur[p] = s /\ pc[p] \in {"write", "props"}
  \/ \E p \in Publishers : cur[p] = s /\ pc[p] = "connect" /\ writer[p].val = version
  \/ \E t \in Apps \union {Owner} :
       pc[t] \in {"try", "publish"} \/ (pc[t] = "queue" /\ s \in todo[t])
  \/ iDelayPropertyUpdates /\ iPropertyChanged
  \/ \E e \in Sessions : cur[e] = s /\ pc[e] = "first"

Behind(s) == s \in iSubscriptions /\ enabled /\ ~failed[s] /\ iPropertySequenceNumbers[s] # version

LEMMA PendingIs ==
  /\ ChangeIsPending <=> \A s \in iSubscriptions : Behind(s) => Pending(s)
  /\ ChangeIsPending' <=> \A s \in iSubscriptions' : Behind(s)' => Pending(s)'
BY DEF ChangeIsPending, Behind, Pending, Entries, HowOften

(* What waits goes on waiting when a thread does something that does not    *)
(* concern it.                                                              *)
LEMMA GoesOnWaiting ==
  ASSUME NEW t \in Threads, NEW r \in Subs, Pending(r),
         pc[t] \notin {"try", "publish", "queue"},
         pc[t] \in {"write", "props", "connect", "first"} => cur[t] # r,
         \A u \in Threads : u # t => pc'[u] = pc[u] /\ cur'[u] = cur[u],
         \A q \in Publishers : q # t => writer'[q] = writer[q],
         UNCHANGED <<todo, version, iDelayPropertyUpdates, iPropertyChanged>>,
         HowOften(iList, r)' = HowOften(iList, r)
  PROVE  Pending(r)'
<1>1. CASE HowOften(iList, r) > 0
  BY <1>1 DEF Pending
<1>2. CASE \E p \in Publishers : cur[p] = r /\ pc[p] \in {"write", "props"}
  BY <1>2, Kinds DEF Pending
<1>3. CASE \E p \in Publishers : cur[p] = r /\ pc[p] = "connect" /\ writer[p].val = version
  BY <1>3, Kinds DEF Pending
<1>4. CASE \E u \in Apps \union {Owner} : pc[u] \in {"try", "publish"} \/ (pc[u] = "queue" /\ r \in todo[u])
  BY <1>4, Kinds DEF Pending
<1>5. CASE iDelayPropertyUpdates /\ iPropertyChanged
  BY <1>5 DEF Pending
<1>6. CASE \E e \in Sessions : cur[e] = r /\ pc[e] = "first"
  BY <1>6, Kinds DEF Pending
<1> QED
  BY <1>1, <1>2, <1>3, <1>4, <1>5, <1>6 DEF Pending

(* No change is forgotten.                                                  *)
LEMMA PendingStep ==
  ASSUME IInv, Next
  PROVE  \A r \in iSubscriptions' : Behind(r)' => Pending(r)'
<1> USE DEF service, manager, sub, fac, device, threads, seen
<1>0. /\ Places /\ Locks /\ Loops /\ Versions /\ Guarded
      /\ DOMAIN pc = Threads /\ DOMAIN cur = Threads /\ DOMAIN todo = Threads
      /\ DOMAIN iPropertySequenceNumbers = Subs /\ DOMAIN failed = Subs
      /\ version \in Nat /\ iPropertySequenceNumbers \in [Subs -> Nat]
      /\ iSubscriptions \subseteq Subs
      /\ \A t \in Threads : cur[t] \in Subs <=> pc[t] \notin FreePcs
      /\ \A r \in iSubscriptions : Behind(r) => Pending(r) /\ iService[r]
      /\ iList' = iList => \A r \in Subs : HowOften(iList, r)' = HowOften(iList, r)
  <2>1. \A r \in iSubscriptions : Behind(r) => Pending(r)
    BY Typed, PendingIs
  <2>2. \A r \in iSubscriptions : Behind(r) => iService[r]
    <3>1. enabled => pc[Owner] \in {"idle", "publish", "queue"}
      BY Typed DEF Guarded
    <3>2. enabled => ~(svcLock = Owner /\ pc[Owner] # "queue")
      BY <3>1, Typed, Kinds DEF Locks, Stopping
    <3>3. enabled => \A r \in iSubscriptions : Listed(r)
      BY <3>2 DEF Listed, Stopped
    <3> QED
      BY <3>3, Typed DEF Behind, Served, TypeOK
  <2>3. iList' = iList => \A r \in Subs : HowOften(iList, r)' = HowOften(iList, r)
    BY DEF HowOften
  <2> QED
    BY <2>1, <2>2, <2>3, Typed DEF TypeOK, Hands
<1>1. ASSUME NEW a \in Apps, SetProperty(a)
      PROVE  \A r \in iSubscriptions' : Behind(r)' => Pending(r)'
  BY <1>0, <1>1, Kinds DEF SetProperty, Goto, Behind, Pending, Versions
<1>2. ASSUME NEW a \in Apps, TryPublishUpdate(a)
      PROVE  \A r \in iSubscriptions' : Behind(r)' => Pending(r)'
  BY <1>0, <1>2, Kinds DEF TryPublishUpdate, Goto, Behind, Pending, Versions
<1>3. ASSUME NEW a \in Apps, PropertiesLock(a)
      PROVE  \A r \in iSubscriptions' : Behind(r)' => Pending(r)'
  BY <1>0, <1>3, Kinds DEF PropertiesLock, Goto, Behind, Pending, Versions
<1>4. ASSUME NEW a \in Apps, PropertiesUnlock(a)
      PROVE  \A r \in iSubscriptions' : Behind(r)' => Pending(r)'
  BY <1>0, <1>4, Kinds DEF PropertiesUnlock, Goto, Behind, Pending, Versions
<1>5. ASSUME NEW t \in Apps \union {Owner}, PublishBegin(t)
      PROVE  \A r \in iSubscriptions' : Behind(r)' => Pending(r)'
  BY <1>0, <1>5, Kinds DEF PublishBegin, Goto, Behind, Pending, Versions
<1>6. ASSUME NEW t \in Apps \union {Owner}, PublishOne(t)
      PROVE  \A r \in iSubscriptions' : Behind(r)' => Pending(r)'
  <2>1. PICK s \in todo[t] :
          /\ iList' = Append(iList, s) /\ todo' = [todo EXCEPT ![t] = todo[t] \ {s}]
          /\ UNCHANGED <<service, iPropertySequenceNumbers, pc, cur, writer, enabled, failed>>
    BY <1>6 DEF PublishOne, QueueUpdate
  <2>2. s \in Subs /\ pc[t] = "queue" /\ t \in Threads
    BY <1>0, <1>6, Kinds DEF Loops, PublishOne
  <2>3. \A r \in Subs : /\ HowOften(iList, r) \in Nat
                        /\ HowOften(iList', r) = HowOften(iList, r) + (IF r = s THEN 1 ELSE 0)
    BY Typed, <2>1, <2>2, CountAppend DEF TypeOK
  <2>4. \A r \in Subs : HowOften(iList, r)' = HowOften(iList', r)
    BY DEF HowOften
  <2>5. \A r \in Subs : r # s /\ Pending(r) => Pending(r)'
    BY <1>0, <2>1, <2>2, <2>3, <2>4, Kinds DEF Pending
  <2>6. Pending(s)'
    BY <2>2, <2>3, <2>4 DEF Pending
  <2> QED
    BY <1>0, <2>1, <2>5, <2>6 DEF Behind
<1>7. ASSUME NEW t \in Apps \union {Owner}, PublishEnd(t)
      PROVE  \A r \in iSubscriptions' : Behind(r)' => Pending(r)'
  BY <1>0, <1>7, Kinds DEF PublishEnd, Goto, Behind, Pending, Versions
<1>8. ASSUME NEW e \in Sessions, NEW s \in Subs, Subscribe(e, s)
      PROVE  \A r \in iSubscriptions' : Behind(r)' => Pending(r)'
  <2>1. /\ pc[e] \notin {"try", "publish", "queue", "write", "props", "connect", "first"}
        /\ \A u \in Threads : u # e => pc'[u] = pc[u] /\ cur'[u] = cur[u]
        /\ UNCHANGED <<iList, writer, todo, version, iDelayPropertyUpdates, iPropertyChanged,
                       enabled, failed, iPropertySequenceNumbers>>
        /\ e \in Threads /\ iSubscriptions' \subseteq iSubscriptions
    BY <1>0, <1>8, Kinds DEF Subscribe, Accepts, Goto
  <2>2. \A r \in iSubscriptions' : Behind(r)' => r \in iSubscriptions /\ Behind(r)
    BY <2>1 DEF Behind
  <2> QED
    BY <1>0, <2>1, <2>2, GoesOnWaiting
<1>9. ASSUME NEW e \in Sessions, AddSubscription(e)
      PROVE  \A r \in iSubscriptions' : Behind(r)' => Pending(r)'
  BY <1>0, <1>9, Kinds DEF AddSubscription, Goto, Behind, Pending, Versions
<1>10. ASSUME NEW e \in Sessions, Respond(e)
      PROVE  \A r \in iSubscriptions' : Behind(r)' => Pending(r)'
  <2>1. /\ pc[e] \notin {"try", "publish", "queue", "write", "props", "connect", "first"}
        /\ \A u \in Threads : u # e => pc'[u] = pc[u] /\ cur'[u] = cur[u]
        /\ UNCHANGED <<iList, writer, todo, version, iDelayPropertyUpdates, iPropertyChanged,
                       enabled, failed, iPropertySequenceNumbers>>
        /\ e \in Threads /\ iSubscriptions' \subseteq iSubscriptions
    BY <1>0, <1>10, Kinds DEF Respond, GoIdle, Goto
  <2>2. \A r \in iSubscriptions' : Behind(r)' => r \in iSubscriptions /\ Behind(r)
    BY <2>1 DEF Behind
  <2> QED
    BY <1>0, <2>1, <2>2, GoesOnWaiting
<1>11. ASSUME NEW e \in Sessions, Start(e)
      PROVE  \A r \in iSubscriptions' : Behind(r)' => Pending(r)'
  <2>1. /\ pc[e] \notin {"try", "publish", "queue", "write", "props", "connect", "first"}
        /\ \A u \in Threads : u # e => pc'[u] = pc[u] /\ cur'[u] = cur[u]
        /\ UNCHANGED <<iList, writer, todo, version, iDelayPropertyUpdates, iPropertyChanged,
                       enabled, failed, iPropertySequenceNumbers>>
        /\ e \in Threads /\ iSubscriptions' \subseteq iSubscriptions
    BY <1>0, <1>11, Kinds DEF Start, Goto
  <2>2. \A r \in iSubscriptions' : Behind(r)' => r \in iSubscriptions /\ Behind(r)
    BY <2>1 DEF Behind
  <2> QED
    BY <1>0, <2>1, <2>2, GoesOnWaiting
<1>12. ASSUME NEW e \in Sessions, PushSubscription(e)
      PROVE  \A r \in iSubscriptions' : Behind(r)' => Pending(r)'
  BY <1>0, <1>12, Kinds DEF PushSubscription, Goto, Behind, Pending, Versions
<1>13. ASSUME NEW e \in Sessions, FirstUpdate(e)
      PROVE  \A r \in iSubscriptions' : Behind(r)' => Pending(r)'
  <2>1. CASE iRefCount[cur[e]] = 0
    <3>1. UNCHANGED <<service, iList, iPropertySequenceNumbers, pc, cur, todo, writer, enabled, failed>>
      BY <2>1, <1>13 DEF FirstUpdate, Crash
    <3> QED
      BY <1>0, <3>1 DEF Behind, Pending
  <2>2. CASE iRefCount[cur[e]] # 0
    <3>1. /\ iList' = Append(iList, cur[e]) /\ pc[e] = "first" /\ pc' = [pc EXCEPT ![e] = "idle"]
          /\ cur' = [cur EXCEPT ![e] = None]
          /\ UNCHANGED <<service, iPropertySequenceNumbers, todo, writer, enabled, failed>>
      BY <1>13, <2>2 DEF FirstUpdate, QueueUpdate, GoIdle, Goto
    <3>2. cur[e] \in Subs /\ e \in Threads
      BY <1>0, <3>1, Kinds DEF FreePcs
    <3>3. \A r \in Subs : /\ HowOften(iList, r) \in Nat
                          /\ HowOften(iList', r) = HowOften(iList, r) + (IF r = cur[e] THEN 1 ELSE 0)
      BY Typed, <3>1, <3>2, CountAppend DEF TypeOK
    <3>4. \A r \in Subs : HowOften(iList, r)' = HowOften(iList', r)
      BY DEF HowOften
    <3>5. \A r \in Subs : r # cur[e] /\ Pending(r) => Pending(r)'
      <4>1. \A u \in Threads : u # e => pc'[u] = pc[u] /\ cur'[u] = cur[u]
        BY <1>0, <3>1
      <4> QED
        BY <3>1, <3>2, <3>3, <3>4, <4>1, GoesOnWaiting
    <3>6. \A r \in Subs : r = cur[e] => Pending(r)'
      BY <3>3, <3>4 DEF Pending
    <3> QED
      BY <1>0, <3>1, <3>5, <3>6 DEF Behind
  <2> QED
    BY <2>1, <2>2
<1>14. ASSUME NEW e \in Sessions, NEW s \in Subs, Renew(e, s)
      PROVE  \A r \in iSubscriptions' : Behind(r)' => Pending(r)'
  <2>1. /\ pc[e] \notin {"try", "publish", "queue", "write", "props", "connect", "first"}
        /\ \A u \in Threads : u # e => pc'[u] = pc[u] /\ cur'[u] = cur[u]
        /\ UNCHANGED <<iList, writer, todo, version, iDelayPropertyUpdates, iPropertyChanged,
                       enabled, failed, iPropertySequenceNumbers>>
        /\ e \in Threads /\ iSubscriptions' \subseteq iSubscriptions
    BY <1>0, <1>14, Kinds DEF Renew, Find, Accepts, Goto
  <2>2. \A r \in iSubscriptions' : Behind(r)' => r \in iSubscriptions /\ Behind(r)
    BY <2>1 DEF Behind
  <2> QED
    BY <1>0, <2>1, <2>2, GoesOnWaiting
<1>15. ASSUME NEW e \in Sessions, NEW s \in Subs, Unsubscribe(e, s)
      PROVE  \A r \in iSubscriptions' : Behind(r)' => Pending(r)'
  <2>1. /\ pc[e] \notin {"try", "publish", "queue", "write", "props", "connect", "first"}
        /\ \A u \in Threads : u # e => pc'[u] = pc[u] /\ cur'[u] = cur[u]
        /\ UNCHANGED <<iList, writer, todo, version, iDelayPropertyUpdates, iPropertyChanged,
                       enabled, failed, iPropertySequenceNumbers>>
        /\ e \in Threads /\ iSubscriptions' \subseteq iSubscriptions
    BY <1>0, <1>15, Kinds DEF Unsubscribe, Find, Accepts, Goto
  <2>2. \A r \in iSubscriptions' : Behind(r)' => r \in iSubscriptions /\ Behind(r)
    BY <2>1 DEF Behind
  <2> QED
    BY <1>0, <2>1, <2>2, GoesOnWaiting
<1>16. ASSUME NEW e \in Sessions, RenewCheck(e)
      PROVE  \A r \in iSubscriptions' : Behind(r)' => Pending(r)'
  <2>1. /\ pc[e] \notin {"try", "publish", "queue", "write", "props", "connect", "first"}
        /\ \A u \in Threads : u # e => pc'[u] = pc[u] /\ cur'[u] = cur[u]
        /\ UNCHANGED <<iList, writer, todo, version, iDelayPropertyUpdates, iPropertyChanged,
                       enabled, failed, iPropertySequenceNumbers>>
        /\ e \in Threads /\ iSubscriptions' \subseteq iSubscriptions
    BY <1>0, <1>16, Kinds DEF RenewCheck, Crash, Goto
  <2>2. \A r \in iSubscriptions' : Behind(r)' => r \in iSubscriptions /\ Behind(r)
    BY <2>1 DEF Behind
  <2> QED
    BY <1>0, <2>1, <2>2, GoesOnWaiting
<1>17. ASSUME NEW e \in Sessions, DoRenew(e)
      PROVE  \A r \in iSubscriptions' : Behind(r)' => Pending(r)'
  <2>1. /\ pc[e] \notin {"try", "publish", "queue", "write", "props", "connect", "first"}
        /\ \A u \in Threads : u # e => pc'[u] = pc[u] /\ cur'[u] = cur[u]
        /\ UNCHANGED <<iList, writer, todo, version, iDelayPropertyUpdates, iPropertyChanged,
                       enabled, failed, iPropertySequenceNumbers>>
        /\ e \in Threads /\ iSubscriptions' \subseteq iSubscriptions
    BY <1>0, <1>17, Kinds DEF DoRenew, Crash, GoIdle, Goto
  <2>2. \A r \in iSubscriptions' : Behind(r)' => r \in iSubscriptions /\ Behind(r)
    BY <2>1 DEF Behind
  <2> QED
    BY <1>0, <2>1, <2>2, GoesOnWaiting
<1>18. ASSUME NEW t \in Publishers \union {Closer}, Expel(t)
      PROVE  \A r \in iSubscriptions' : Behind(r)' => Pending(r)'
  BY <1>0, <1>18, Kinds DEF Expel, Goto, Behind, Pending, Versions
<1>19. ASSUME NEW t \in Threads \ Apps, RemoveSubscription(t)
      PROVE  \A r \in iSubscriptions' : Behind(r)' => Pending(r)'
  <2>1. /\ pc[t] \notin {"try", "publish", "queue", "write", "props", "connect", "first"}
        /\ \A u \in Threads : u # t => pc'[u] = pc[u] /\ cur'[u] = cur[u]
        /\ UNCHANGED <<iList, writer, todo, version, iDelayPropertyUpdates, iPropertyChanged,
                       enabled, failed, iPropertySequenceNumbers>>
        /\ t \in Threads /\ iSubscriptions' \subseteq iSubscriptions
    BY <1>0, <1>19, Kinds DEF RemoveSubscription, Leave, Goto
  <2>2. \A r \in iSubscriptions' : Behind(r)' => r \in iSubscriptions /\ Behind(r)
    BY <2>1 DEF Behind
  <2> QED
    BY <1>0, <2>1, <2>2, GoesOnWaiting
<1>20. ASSUME NEW t \in Threads \ Apps, StopLock(t)
      PROVE  \A r \in iSubscriptions' : Behind(r)' => Pending(r)'
  BY <1>0, <1>20, Kinds DEF StopLock, Goto, Behind, Pending, Versions
<1>21. ASSUME NEW t \in Threads \ Apps, StopCancel(t)
      PROVE  \A r \in iSubscriptions' : Behind(r)' => Pending(r)'
  BY <1>0, <1>21, Kinds DEF StopCancel, Goto, MayCancel, Behind, Pending, Versions
<1>22. ASSUME NEW t \in Threads \ Apps, StopUnref(t)
      PROVE  \A r \in iSubscriptions' : Behind(r)' => Pending(r)'
  <2>1. /\ pc[t] \notin {"try", "publish", "queue", "write", "props", "connect", "first"}
        /\ \A u \in Threads : u # t => pc'[u] = pc[u] /\ cur'[u] = cur[u]
        /\ UNCHANGED <<iList, writer, todo, version, iDelayPropertyUpdates, iPropertyChanged,
                       enabled, failed, iPropertySequenceNumbers>>
        /\ t \in Threads /\ iSubscriptions' \subseteq iSubscriptions
    BY <1>0, <1>22, Kinds DEF StopUnref, RemoveRef, Leave, Goto
  <2>2. \A r \in iSubscriptions' : Behind(r)' => r \in iSubscriptions /\ Behind(r)
    BY <2>1 DEF Behind
  <2> QED
    BY <1>0, <2>1, <2>2, GoesOnWaiting
<1>23. ASSUME NEW t \in Publishers \union {Closer}, Release(t)
      PROVE  \A r \in iSubscriptions' : Behind(r)' => Pending(r)'
  <2>1. /\ pc[t] \notin {"try", "publish", "queue", "write", "props", "connect", "first"}
        /\ \A u \in Threads : u # t => pc'[u] = pc[u] /\ cur'[u] = cur[u]
        /\ UNCHANGED <<iList, writer, todo, version, iDelayPropertyUpdates, iPropertyChanged,
                       enabled, failed, iPropertySequenceNumbers>>
        /\ t \in Threads /\ iSubscriptions' \subseteq iSubscriptions
    BY <1>0, <1>23, Kinds DEF Release, RemoveRef, Leave, Goto
  <2>2. \A r \in iSubscriptions' : Behind(r)' => r \in iSubscriptions /\ Behind(r)
    BY <2>1 DEF Behind
  <2> QED
    BY <1>0, <2>1, <2>2, GoesOnWaiting
<1>24. ASSUME NEW t \in Threads \ Apps, Delete(t)
      PROVE  \A r \in iSubscriptions' : Behind(r)' => Pending(r)'
  <2>1. /\ pc[t] \notin {"try", "publish", "queue", "write", "props", "connect", "first"}
        /\ \A u \in Threads : u # t => pc'[u] = pc[u] /\ cur'[u] = cur[u]
        /\ UNCHANGED <<iList, writer, todo, version, iDelayPropertyUpdates, iPropertyChanged,
                       enabled, failed, iPropertySequenceNumbers>>
        /\ t \in Threads /\ iSubscriptions' \subseteq iSubscriptions
    BY <1>0, <1>24, Kinds DEF Delete, Leave, Goto
  <2>2. \A r \in iSubscriptions' : Behind(r)' => r \in iSubscriptions /\ Behind(r)
    BY <2>1 DEF Behind
  <2> QED
    BY <1>0, <2>1, <2>2, GoesOnWaiting
<1>25. ASSUME NEW s \in Subs, Expire(s)
      PROVE  \A r \in iSubscriptions' : Behind(r)' => Pending(r)'
  <2>1. /\ pc[Timer] \notin {"try", "publish", "queue", "write", "props", "connect", "first"}
        /\ \A u \in Threads : u # Timer => pc'[u] = pc[u] /\ cur'[u] = cur[u]
        /\ UNCHANGED <<iList, writer, todo, version, iDelayPropertyUpdates, iPropertyChanged,
                       enabled, failed, iPropertySequenceNumbers>>
        /\ Timer \in Threads /\ iSubscriptions' \subseteq iSubscriptions
    BY <1>0, <1>25, Kinds DEF Expire, Crash, Goto
  <2>2. \A r \in iSubscriptions' : Behind(r)' => r \in iSubscriptions /\ Behind(r)
    BY <2>1 DEF Behind
  <2> QED
    BY <1>0, <2>1, <2>2, GoesOnWaiting
<1>26. ASSUME Fired
      PROVE  \A r \in iSubscriptions' : Behind(r)' => Pending(r)'
  BY <1>0, <1>26, Kinds DEF Fired, Goto, GoIdle, Behind, Pending, Versions
<1>27. ASSUME NEW e \in Sessions, Close(e)
      PROVE  \A r \in iSubscriptions' : Behind(r)' => Pending(r)'
  BY <1>0, <1>27, Kinds DEF Close, Goto, Behind, Pending, Versions
<1>28. ASSUME SetDisabled
      PROVE  \A r \in iSubscriptions' : Behind(r)' => Pending(r)'
  BY <1>0, <1>28, Kinds DEF SetDisabled, Goto, Behind, Pending, Versions
<1>29. ASSUME SetEnabled
      PROVE  \A r \in iSubscriptions' : Behind(r)' => Pending(r)'
  BY <1>0, <1>29, Kinds DEF SetEnabled, Goto, Behind, Pending, Versions
<1>30. ASSUME Destroy
      PROVE  \A r \in iSubscriptions' : Behind(r)' => Pending(r)'
  BY <1>0, <1>30, Kinds DEF Destroy, Goto, Behind, Pending, Versions
<1>31. ASSUME StopSubscriptions
      PROVE  \A r \in iSubscriptions' : Behind(r)' => Pending(r)'
  BY <1>0, <1>31, Kinds DEF StopSubscriptions, Goto, Behind, Pending, Versions
<1>32. ASSUME StopNext
      PROVE  \A r \in iSubscriptions' : Behind(r)' => Pending(r)'
  BY <1>0, <1>32, Kinds DEF StopNext, Goto, Behind, Pending, Versions
<1>33. ASSUME StopEnd
      PROVE  \A r \in iSubscriptions' : Behind(r)' => Pending(r)'
  BY <1>0, <1>33, Kinds DEF StopEnd, Goto, Behind, Pending, Versions
<1>34. ASSUME NEW p \in Publishers, Dispatch(p)
      PROVE  \A r \in iSubscriptions' : Behind(r)' => Pending(r)'
  <2>1. /\ iList # <<>> /\ iList' = Tail(iList) /\ pc[p] = "idle" /\ pc' = [pc EXCEPT ![p] = "write"]
        /\ cur' = [cur EXCEPT ![p] = Head(iList)]
        /\ UNCHANGED <<service, iPropertySequenceNumbers, todo, writer, enabled, failed>>
    BY <1>34 DEF Dispatch, Goto
  <2>2. \A r \in Subs : /\ HowOften(iList, r) \in Nat
                        /\ HowOften(iList', r) = HowOften(iList, r) - (IF r = Head(iList) THEN 1 ELSE 0)
    BY Typed, <2>1, CountTail DEF TypeOK
  <2>3. \A r \in Subs : HowOften(iList, r)' = HowOften(iList', r)
    BY DEF HowOften
  <2>4. \A r \in Subs : r # Head(iList) /\ Pending(r) => Pending(r)'
    <3>1. \A u \in Threads : u # p => pc'[u] = pc[u] /\ cur'[u] = cur[u]
      BY <1>0, <2>1
    <3> QED
      BY <1>0, <2>1, <2>2, <2>3, <3>1, Kinds, GoesOnWaiting, SMTT(30)
  <2>5. \A r \in Subs : r = Head(iList) => Pending(r)'
    BY <1>0, <2>1, Kinds DEF Pending
  <2> QED
    BY <1>0, <2>1, <2>4, <2>5 DEF Behind
<1>35. ASSUME NEW p \in Publishers, WriteChanges(p)
      PROVE  \A r \in iSubscriptions' : Behind(r)' => Pending(r)'
  <2>1. /\ pc[p] = "write" /\ cur' = cur
        /\ UNCHANGED <<service, iList, writer, todo, enabled, failed, iPropertySequenceNumbers>>
        /\ \/ pc' = [pc EXCEPT ![p] = "props"]
           \/ ~(enabled /\ iService[cur[p]]) /\ pc' = [pc EXCEPT ![p] = "release"]
    BY <1>35 DEF WriteChanges, Goto
  <2>2. \A r \in Subs : r # cur[p] /\ Pending(r) => Pending(r)'
    <3>1. \A u \in Threads : u # p => pc'[u] = pc[u] /\ cur'[u] = cur[u]
      BY <1>0, <2>1
    <3> QED
      BY <1>0, <2>1, <3>1, Kinds, GoesOnWaiting
  <2>3. \A r \in iSubscriptions : r = cur[p] /\ Behind(r) => Pending(r)'
    BY <1>0, <2>1, Kinds DEF Pending, Behind
  <2> QED
    BY <1>0, <2>1, <2>2, <2>3 DEF Behind
<1>36. ASSUME NEW p \in Publishers, ReadSequenceNumber(p)
      PROVE  \A r \in iSubscriptions' : Behind(r)' => Pending(r)'
  <2>1. /\ pc[p] = "props"
        /\ UNCHANGED <<iSubscriptions, version, iDelayPropertyUpdates, iPropertyChanged, iList,
                       iPropertySequenceNumbers, cur, todo, enabled, failed>>
        /\ \/ /\ version = iPropertySequenceNumbers[cur[p]]
              /\ pc' = [pc EXCEPT ![p] = "release"] /\ writer' = writer
           \/ /\ writer' = [writer EXCEPT ![p] = [seq |-> iSequenceNumber[cur[p]], val |-> version]]
              /\ pc' = [pc EXCEPT ![p] = "connect"]
    BY <1>36 DEF ReadSequenceNumber, Goto
  <2>2. \A r \in Subs : r # cur[p] /\ Pending(r) => Pending(r)'
    <3>1. \A u \in Threads : u # p => pc'[u] = pc[u] /\ cur'[u] = cur[u]
      BY <1>0, <2>1
    <3>2. \A q \in Publishers : q # p => writer'[q] = writer[q]
      BY <2>1, Typed DEF TypeOK
    <3> QED
      BY <1>0, <2>1, <3>1, <3>2, Kinds, GoesOnWaiting
  <2>3. \A r \in Subs : r = cur[p] /\ Pending(r) /\ version # iPropertySequenceNumbers[r] => Pending(r)'
    <3>1. version # iPropertySequenceNumbers[cur[p]] =>
            pc'[p] = "connect" /\ writer'[p].val = version' /\ cur'[p] = cur[p]
      BY <1>0, <2>1, Typed, Kinds DEF TypeOK
    <3> QED
      BY <3>1 DEF Pending
  <2> QED
    BY <1>0, <2>1, <2>2, <2>3 DEF Behind
<1>37. ASSUME NEW p \in Publishers, Connect(p)
      PROVE  \A r \in iSubscriptions' : Behind(r)' => Pending(r)'
  <2>1. /\ pc[p] = "connect"
        /\ UNCHANGED <<iSubscriptions, version, iDelayPropertyUpdates, iPropertyChanged, iList,
                       cur, todo, enabled>>
        /\ \A q \in Threads : q # p => pc'[q] = pc[q]
        /\ \A q \in Publishers : q # p => writer'[q] = writer[q]
        /\ \A r \in Subs : r # cur[p] => /\ failed'[r] = failed[r]
                                         /\ iPropertySequenceNumbers'[r] = iPropertySequenceNumbers[r]
    BY <1>0, <1>37, Kinds, Typed DEF Connect, Goto, TypeOK
  <2>2. /\ cur[p] \in Subs /\ iPropertySequenceNumbers[cur[p]] < writer[p].val
        /\ writer[p].val <= version
    BY <1>0, <2>1, Kinds DEF Versions, FreePcs
  <2>3. \/ iPropertySequenceNumbers'[cur[p]] = writer[p].val /\ failed' = failed
        \/ failed'[cur[p]]
    BY <1>0, <2>2, <1>37 DEF Connect
  <2>4. \A r \in Subs : r # cur[p] /\ Pending(r) => Pending(r)'
    <3>1. \A u \in Threads : u # p => pc'[u] = pc[u] /\ cur'[u] = cur[u]
      BY <1>0, <2>1
    <3>2. pc[p] \notin {"try", "publish", "queue"} /\ p \in Threads
      BY <2>1, Kinds
    <3> QED
      BY <1>0, <2>1, <3>1, <3>2, GoesOnWaiting
  <2>5. writer[p].val \in Nat
    BY Typed DEF TypeOK, Message
  <2>6. \A r \in Subs : r = cur[p] /\ Pending(r) /\ writer[p].val # version => Pending(r)'
    BY <1>0, <2>1, Kinds DEF Pending
  <2>7. \A r \in iSubscriptions' : r = cur[p] /\ Behind(r)' => Behind(r) /\ writer[p].val # version
    BY <1>0, <2>1, <2>2, <2>3, <2>5 DEF Behind
  <2>8. \A r \in iSubscriptions' : r # cur[p] /\ Behind(r)' => Behind(r)
    BY <1>0, <2>1 DEF Behind
  <2> QED
    BY <1>0, <2>1, <2>4, <2>6, <2>7, <2>8
<1>38. ASSUME NEW p \in Publishers, Send(p)
      PROVE  \A r \in iSubscriptions' : Behind(r)' => Pending(r)'
  BY <1>0, <1>38, Kinds DEF Send, Goto, Behind, Pending, Versions
<1> QED
  BY <1>1, <1>2, <1>3, <1>4, <1>5, <1>6, <1>7, <1>8, <1>9, <1>10, <1>11, <1>12,
     <1>13, <1>14, <1>15, <1>16, <1>17, <1>18, <1>19, <1>20, <1>21, <1>22, <1>23,
     <1>24, <1>25, <1>26, <1>27, <1>28, <1>29, <1>30, <1>31, <1>32, <1>33, <1>34,
     <1>35, <1>36, <1>37, <1>38
     DEF Next, AppStep, Publish, RequestStep, Removal, OwnerStep, PublisherStep

(* Nothing is sent of a subscription before its Start.                      *)
LEMMA UnsentStep ==
  ASSUME IInv, Next
  PROVE  Unsent'
<1> USE DEF service, manager, sub, fac, device, threads, seen
<1>0. /\ Unsent /\ Places
      /\ DOMAIN pc = Threads /\ DOMAIN cur = Threads /\ DOMAIN newest = Subs
      /\ \A t \in Threads : cur[t] \in Subs <=> pc[t] \notin FreePcs
      /\ \A e \in Sessions : pc[e] \in {"add", "respond", "start"} =>
           /\ cur[e] \notin iSubscriptions
           /\ \A u \in Sessions : pc[u] = "push" => cur[u] # cur[e]
      /\ iList' = iList => \A r \in Subs : HowOften(iList, r)' = HowOften(iList, r)
  <2>1. \A e \in Sessions : pc[e] \in {"add", "respond", "start"} =>
          /\ cur[e] \in Subs /\ cur[e] \notin iSubscriptions
          /\ \A u \in Sessions : pc[u] = "push" => cur[u] # cur[e]
    <3>1. SUFFICES ASSUME NEW e \in Sessions, pc[e] \in {"add", "respond", "start"}
                   PROVE  /\ cur[e] \in Subs /\ cur[e] \notin iSubscriptions
                          /\ \A u \in Sessions : pc[u] = "push" => cur[u] # cur[e]
      OBVIOUS
    <3>2. cur[e] \in Subs /\ e \in Holders(cur[e])
      BY <3>1, Kinds, Hold, HoldCounts
    <3>3. cur[e] \notin iSubscriptions /\ \A u \in Holders(cur[e]) : u = e
      BY <3>2, Typed, Kinds DEF OneHolder
    <3>4. \A u \in Sessions : pc[u] = "push" => u \in Holders(cur[u])
      BY Kinds, Hold
    <3> QED
      BY <3>1, <3>2, <3>3, <3>4
  <2>3. iList' = iList => \A r \in Subs : HowOften(iList, r)' = HowOften(iList, r)
    BY DEF HowOften
  <2> QED
    BY <2>1, <2>3, Typed DEF TypeOK, Hands
<1>1. ASSUME NEW a \in Apps, SetProperty(a)
      PROVE  Unsent'
  BY <1>0, <1>1, Kinds DEF SetProperty, Goto, Unsent
<1>2. ASSUME NEW a \in Apps, TryPublishUpdate(a)
      PROVE  Unsent'
  BY <1>0, <1>2, Kinds DEF TryPublishUpdate, Goto, Unsent
<1>3. ASSUME NEW a \in Apps, PropertiesLock(a)
      PROVE  Unsent'
  BY <1>0, <1>3, Kinds DEF PropertiesLock, Goto, Unsent
<1>4. ASSUME NEW a \in Apps, PropertiesUnlock(a)
      PROVE  Unsent'
  BY <1>0, <1>4, Kinds DEF PropertiesUnlock, Goto, Unsent
<1>5. ASSUME NEW t \in Apps \union {Owner}, PublishBegin(t)
      PROVE  Unsent'
  BY <1>0, <1>5, Kinds DEF PublishBegin, Goto, Unsent
<1>6. ASSUME NEW t \in Apps \union {Owner}, PublishOne(t)
      PROVE  Unsent'
  <2>1. PICK s \in todo[t] : iList' = Append(iList, s) /\ UNCHANGED <<newest, pc, cur>>
    BY <1>6 DEF PublishOne, QueueUpdate
  <2>2. s \in iSubscriptions /\ s \in Subs
    BY <1>6, Kinds, Typed DEF Loops, PublishOne, TypeOK
  <2>3. \A r \in Subs : r # s => HowOften(iList', r) = HowOften(iList, r)
    BY <2>1, <2>2, CountAppend, Typed DEF TypeOK
  <2>4. \A r \in Subs : HowOften(iList, r)' = HowOften(iList', r)
    BY DEF HowOften
  <2> QED
    BY <1>0, <2>1, <2>2, <2>3, <2>4, Kinds DEF Unsent, FreePcs
<1>7. ASSUME NEW t \in Apps \union {Owner}, PublishEnd(t)
      PROVE  Unsent'
  BY <1>0, <1>7, Kinds DEF PublishEnd, Goto, Unsent
<1>8. ASSUME NEW e \in Sessions, NEW s \in Subs, Subscribe(e, s)
      PROVE  Unsent'
  <2>1. /\ pc[e] = "idle" /\ obj[s] = "none" /\ UNCHANGED <<newest, iList>>
        /\ pc' = [pc EXCEPT ![e] = "add"] /\ cur' = [cur EXCEPT ![e] = s]
    BY <1>8 DEF Subscribe, Accepts, Goto
  <2>2. newest[s] = NoMessage /\ \A t \in Threads : cur[t] # s
    BY <2>1, Typed DEF Lives
  <2>3. HowOften(iList, s) = 0
    <3>1. ~(HowOften(iList, s) > 0)
      BY <2>1, Referenced, Typed DEF Lives
    <3> QED
      BY <3>1, PartTypes, Typed DEF TypeOK
  <2> QED
    BY <1>0, <2>1, <2>2, <2>3, Kinds DEF Unsent, FreePcs
<1>9. ASSUME NEW e \in Sessions, AddSubscription(e)
      PROVE  Unsent'
  BY <1>0, <1>9, Kinds DEF AddSubscription, Goto, Unsent
<1>10. ASSUME NEW e \in Sessions, Respond(e)
      PROVE  Unsent'
  BY <1>0, <1>10, Kinds DEF Respond, Goto, GoIdle, Unsent
<1>11. ASSUME NEW e \in Sessions, Start(e)
      PROVE  Unsent'
  BY <1>0, <1>11, Kinds DEF Start, Goto, Unsent
<1>12. ASSUME NEW e \in Sessions, PushSubscription(e)
      PROVE  Unsent'
  BY <1>0, <1>12, Kinds DEF PushSubscription, Goto, Unsent
<1>13. ASSUME NEW e \in Sessions, FirstUpdate(e)
      PROVE  Unsent'
  <2>1. CASE iRefCount[cur[e]] = 0
    <3>1. UNCHANGED <<newest, iList, pc, cur>>
      BY <2>1, <1>13 DEF FirstUpdate, Crash
    <3> QED
      BY <1>0, <3>1, Kinds DEF Unsent, FreePcs
  <2>2. CASE iRefCount[cur[e]] # 0
    <3>1. /\ iList' = Append(iList, cur[e]) /\ pc[e] = "first" /\ pc' = [pc EXCEPT ![e] = "idle"]
          /\ cur' = [cur EXCEPT ![e] = None] /\ UNCHANGED newest
      BY <1>13, <2>2 DEF FirstUpdate, QueueUpdate, GoIdle, Goto
    <3>2. cur[e] \in Subs
      BY <1>0, <3>1, Kinds DEF FreePcs
    <3>3. \A r \in Subs : r # cur[e] => HowOften(iList', r) = HowOften(iList, r)
      BY <3>1, <3>2, CountAppend, Typed DEF TypeOK
    <3>4. \A r \in Subs : HowOften(iList, r)' = HowOften(iList', r)
      BY DEF HowOften
    <3> QED
      BY <1>0, <3>1, <3>2, <3>3, <3>4, Kinds DEF Unsent, FreePcs
  <2> QED
    BY <2>1, <2>2
<1>14. ASSUME NEW e \in Sessions, NEW s \in Subs, Renew(e, s)
      PROVE  Unsent'
  BY <1>0, <1>14, Kinds DEF Renew, Goto, Accepts, Find, Unsent
<1>15. ASSUME NEW e \in Sessions, NEW s \in Subs, Unsubscribe(e, s)
      PROVE  Unsent'
  BY <1>0, <1>15, Kinds DEF Unsubscribe, Goto, Accepts, Find, Unsent
<1>16. ASSUME NEW e \in Sessions, RenewCheck(e)
      PROVE  Unsent'
  BY <1>0, <1>16, Kinds DEF RenewCheck, Goto, Crash, Unsent
<1>17. ASSUME NEW e \in Sessions, DoRenew(e)
      PROVE  Unsent'
  BY <1>0, <1>17, Kinds DEF DoRenew, Goto, Crash, GoIdle, Unsent
<1>18. ASSUME NEW t \in Publishers \union {Closer}, Expel(t)
      PROVE  Unsent'
  BY <1>0, <1>18, Kinds DEF Expel, Goto, Unsent
<1>19. ASSUME NEW t \in Threads \ Apps, RemoveSubscription(t)
      PROVE  Unsent'
  BY <1>0, <1>19, Kinds DEF RemoveSubscription, Goto, Leave, After, Unsent
<1>20. ASSUME NEW t \in Threads \ Apps, StopLock(t)
      PROVE  Unsent'
  BY <1>0, <1>20, Kinds DEF StopLock, Goto, Unsent
<1>21. ASSUME NEW t \in Threads \ Apps, StopCancel(t)
      PROVE  Unsent'
  BY <1>0, <1>21, Kinds DEF StopCancel, Goto, MayCancel, Unsent
<1>22. ASSUME NEW t \in Threads \ Apps, StopUnref(t)
      PROVE  Unsent'
  BY <1>0, <1>22, Kinds DEF StopUnref, Goto, Leave, RemoveRef, After, Unsent
<1>23. ASSUME NEW t \in Publishers \union {Closer}, Release(t)
      PROVE  Unsent'
  BY <1>0, <1>23, Kinds DEF Release, Goto, Leave, RemoveRef, Unsent, FreePcs
<1>24. ASSUME NEW t \in Threads \ Apps, Delete(t)
      PROVE  Unsent'
  BY <1>0, <1>24, Kinds DEF Delete, Goto, Leave, After, AfterDelete, MayCancel, Unsent,
     FreePcs
<1>25. ASSUME NEW s \in Subs, Expire(s)
      PROVE  Unsent'
  BY <1>0, <1>25, Kinds DEF Expire, Goto, Crash, Unsent
<1>26. ASSUME Fired
      PROVE  Unsent'
  BY <1>0, <1>26, Kinds DEF Fired, Goto, GoIdle, Unsent
<1>27. ASSUME NEW e \in Sessions, Close(e)
      PROVE  Unsent'
  BY <1>0, <1>27, Kinds DEF Close, Goto, Unsent
<1>28. ASSUME SetDisabled
      PROVE  Unsent'
  BY <1>0, <1>28, Kinds DEF SetDisabled, Goto, Unsent
<1>29. ASSUME SetEnabled
      PROVE  Unsent'
  BY <1>0, <1>29, Kinds DEF SetEnabled, Goto, Unsent
<1>30. ASSUME Destroy
      PROVE  Unsent'
  BY <1>0, <1>30, Kinds DEF Destroy, Goto, Unsent
<1>31. ASSUME StopSubscriptions
      PROVE  Unsent'
  BY <1>0, <1>31, Kinds DEF StopSubscriptions, Goto, Unsent
<1>32. ASSUME StopNext
      PROVE  Unsent'
  BY <1>0, <1>32, Kinds DEF StopNext, Goto, Unsent
<1>33. ASSUME StopEnd
      PROVE  Unsent'
  BY <1>0, <1>33, Kinds DEF StopEnd, Goto, Unsent
<1>34. ASSUME NEW p \in Publishers, Dispatch(p)
      PROVE  Unsent'
  <2>1. /\ iList # <<>> /\ iList' = Tail(iList) /\ pc' = [pc EXCEPT ![p] = "write"]
        /\ cur' = [cur EXCEPT ![p] = Head(iList)] /\ UNCHANGED newest
    BY <1>34 DEF Dispatch, Goto
  <2>2. HowOften(iList, Head(iList)) > 0
    BY <2>1, HeadCounted, Typed DEF TypeOK
  <2>3. \A r \in Subs : r # Head(iList) => HowOften(iList', r) = HowOften(iList, r)
    BY <2>1, CountTail, Typed, SMTT(30) DEF TypeOK
  <2>4. \A r \in Subs : HowOften(iList, r)' = HowOften(iList', r)
    BY DEF HowOften
  <2>5. \A e \in Sessions : pc[e] \in {"add", "respond", "start"} => Head(iList) # cur[e]
    BY <1>0, <2>2 DEF Unsent
  <2> QED
    BY <1>0, <2>1, <2>3, <2>4, <2>5, Kinds DEF Unsent, FreePcs
<1>35. ASSUME NEW p \in Publishers, WriteChanges(p)
      PROVE  Unsent'
  BY <1>0, <1>35, Kinds DEF WriteChanges, Goto, Unsent
<1>36. ASSUME NEW p \in Publishers, ReadSequenceNumber(p)
      PROVE  Unsent'
  BY <1>0, <1>36, Kinds DEF ReadSequenceNumber, Goto, Unsent
<1>37. ASSUME NEW p \in Publishers, Connect(p)
      PROVE  Unsent'
  BY <1>0, <1>37, Kinds DEF Connect, Goto, Unsent
<1>38. ASSUME NEW p \in Publishers, Send(p)
      PROVE  Unsent'
  <2>1. newest \in [Subs -> Message] /\ got \in [Subs -> Message]
    BY Typed DEF TypeOK
  <2>2. /\ pc[p] = "send" /\ p \in Threads /\ cur[p] \in Subs
        /\ \A r \in Subs : /\ r # cur[p] => newest'[r] = newest[r] /\ got'[r] = got[r]
                           /\ newest'[r] = newest[r] \/ newest'[r] = writer[p]
                           /\ got'[r] = got[r] \/ got'[r] = writer[p]
    <3>1. pc[p] = "send" /\ p \in Threads /\ cur[p] \in Subs
      BY <1>0, <1>38, Kinds DEF Send, FreePcs
    <3> QED
      BY <1>38, <2>1, <3>1, ReceivedOnly
  <2> QED
    BY <1>0, <1>38, <2>2, Kinds DEF Send, Goto, Unsent, FreePcs
<1> QED
  BY <1>1, <1>2, <1>3, <1>4, <1>5, <1>6, <1>7, <1>8, <1>9, <1>10, <1>11, <1>12,
     <1>13, <1>14, <1>15, <1>16, <1>17, <1>18, <1>19, <1>20, <1>21, <1>22, <1>23,
     <1>24, <1>25, <1>26, <1>27, <1>28, <1>29, <1>30, <1>31, <1>32, <1>33, <1>34,
     <1>35, <1>36, <1>37, <1>38
     DEF Next, AppStep, Publish, RequestStep, Removal, OwnerStep, PublisherStep


-----------------------------------------------------------------------------
(* The invariant                                                            *)

LEMMA InitInv ==
  ASSUME Init
  PROVE  IInv
<1> USE DEF Init
<1>0. /\ \A t \in Threads : pc[t] = "idle" /\ cur[t] = None
      /\ \A s \in Subs : Holders(s) = {} /\ Members(s) = {} /\ HowOften(iList, s) = 0
    <2>1. \A t \in Threads : pc[t] = "idle" /\ cur[t] = None
      OBVIOUS
    <2>2. \A s \in Subs : Holders(s) = {} /\ Members(s) = {}
      BY <2>1, Kinds DEF Holders, Members
    <2>3. \A s \in Subs : HowOften(iList, s) = 0
      <3>1. SUFFICES ASSUME NEW s \in Subs
                     PROVE  HowOften(iList, s) = 0
        OBVIOUS
      <3>2. {i \in DOMAIN iList : iList[i] = s} = {}
        OBVIOUS
      <3> QED
        BY <3>2, FS_EmptySet DEF HowOften
    <2> QED
      BY <2>1, <2>2, <2>3
<1>1. TypeOK
  <2>1. NoMessage \in Message /\ 0 \in 0..SeqMax
    BY BoundAssumption DEF NoMessage, Message
  <2>2. /\ got \in [Subs -> Message] /\ newest \in [Subs -> Message] /\ writer \in [Publishers -> Message]
        /\ iSequenceNumber \in [Subs -> 0..SeqMax]
    BY <2>1
  <2>3. iList \in Seq(Subs)
    OBVIOUS
  <2>4. /\ pc \in [Threads -> {"idle"}] /\ cur \in [Threads -> Subs \union {None}]
        /\ todo \in [Threads -> SUBSET Subs] /\ factory \in [Subs -> Sessions \union {None}]
        /\ obj \in [Subs -> {"none", "live", "dead"}]
    OBVIOUS
  <2>5. pc \in [Threads -> {"idle", "try", "publish", "queue", "add", "respond", "start",
       "push", "first", "renew", "rearm", "expel", "remove", "stop", "cancel", "unref",
       "release", "delete", "fired", "stopAll", "stopping", "destroyed",
       "write", "props", "connect", "send"}]
    OBVIOUS
  <2> HIDE DEF Init
  <2>6. /\ svcLock \in Threads \union {None} /\ propLock \in Threads \union {None}
        /\ iSubscriptions \subseteq Subs /\ version \in Nat /\ iMap \subseteq Subs
        /\ iDelayPropertyUpdates \in BOOLEAN /\ iPropertyChanged \in BOOLEAN
        /\ iRefCount \in [Subs -> Nat] /\ iPropertySequenceNumbers \in [Subs -> Nat]
        /\ iLock \in [Subs -> Threads \union {None}] /\ iSubscriptionMap \subseteq Subs
    BY DEF Init
  <2>7. /\ iService \in [Subs -> BOOLEAN] /\ armed \in [Subs -> BOOLEAN]
        /\ iEnabled \in [Sessions -> BOOLEAN] /\ failed \in [Subs -> BOOLEAN]
        /\ cbLock \in {Timer, None} /\ enabled \in BOOLEAN /\ mapped \in BOOLEAN
        /\ switches \in Nat
        /\ fault \in {"none", "expired", "renewed", "queued"}
    BY DEF Init
  <2> QED
    BY <2>2, <2>3, <2>4, <2>5, <2>6, <2>7 DEF TypeOK
<1>2. Places
  BY <1>0, Kinds DEF Places, AppPcs, SessionPcs, WriterPcs, TimerPcs, ExpelPcs, OwnerPcs
<1>3. Hands
  BY <1>0, Kinds DEF Hands, FreePcs
<1>4. Locks
  BY <1>0, Kinds DEF Locks, Stopping
<1>5. Loops
  BY <1>0, Kinds DEF Loops, Stopping
<1>6. OneHolder
  BY <1>0 DEF OneHolder
<1>7. Served
  BY <1>0, Kinds DEF Served, Listed
<1>8. Counted
  <2>1. \A s \in Subs : ListPart(s) = 0 /\ Cardinality(Members(s)) = 0
    BY <1>0, FS_EmptySet DEF ListPart, Listed
  <2> QED
    BY <1>0, <2>1 DEF Counted
<1>9. Lives
  BY <1>0, Kinds DEF Lives
<1>10. Versions
  BY <1>0, Kinds DEF Versions, NoMessage
<1>11. Guarded
  BY <1>0, Kinds DEF Guarded
<1>12. ChangeIsPending
  BY DEF ChangeIsPending
<1>13. Unsent
  BY <1>0, Kinds DEF Unsent
<1> QED
  BY <1>1, <1>2, <1>3, <1>4, <1>5, <1>6, <1>7, <1>8, <1>9, <1>10, <1>11, <1>12, <1>13
     DEF IInv

(* A step that changes nothing.                                             *)
LEMMA StutterInv ==
  ASSUME IInv, UNCHANGED vars
  PROVE  IInv'
<1> USE DEF vars, service, manager, sub, fac, device, threads, seen
<1>1. \A s \in Subs : /\ Holders(s)' = Holders(s) /\ Members(s)' = Members(s)
                      /\ Stopped(s)' = Stopped(s)
                      /\ HowOften(iList, s)' = HowOften(iList, s)
  BY DEF Holders, Members, Stopped, HowOften
<1>2. \A s \in Subs : Listed(s)' = Listed(s) /\ ListPart(s)' = ListPart(s)
  BY <1>1 DEF Listed, ListPart
<1>3. TypeOK' /\ Places' /\ Hands' /\ Locks' /\ Loops'
  BY Typed DEF TypeOK, Places, Hands, Locks, Loops, Stopping
<1>4. OneHolder' /\ Counted'
  BY <1>1, <1>2, Typed DEF OneHolder, Counted, Stopped
<1>5. Served'
  BY <1>1, <1>2, Typed DEF Served
<1>6. Lives' /\ Versions' /\ Guarded'
  BY Typed DEF Lives, Versions, Guarded
<1>7. ChangeIsPending'
  BY Typed DEF ChangeIsPending, Entries
<1>8. Unsent'
  BY <1>1, Typed, Kinds, Hold DEF Unsent, HowOften
<1> QED
  BY <1>3, <1>4, <1>5, <1>6, <1>7, <1>8 DEF IInv

LEMMA NextInv ==
  ASSUME IInv, [Next]_vars
  PROVE  IInv'
<1>1. CASE Next
  <2>1. TypeOK' /\ Places' /\ Hands'
    BY <1>1, MovedStep DEF Moved
  <2>2. ChangeIsPending'
    BY <1>1, PendingStep, PendingIs
  <2> QED
    BY <1>1, <2>1, <2>2, LocksStep, LoopsStep, OneHolderStep, ServedStep, CountedStep,
       LivesStep, VersionsStep, GuardedStep, UnsentStep DEF IInv
<1>2. CASE UNCHANGED vars
  BY <1>2, StutterInv
<1> QED
  BY <1>1, <1>2

(* The strengthening all the properties follow from.                        *)
THEOREM Invariance == Spec => []IInv
<1>1. Init => IInv
  BY InitInv
<1>2. IInv /\ [Next]_vars => IInv'
  BY NextInv
<1> QED
  BY <1>1, <1>2, PTL DEF Spec

(* TypeCorrect: every variable keeps its type, among them the counts, which *)
(* are never taken below zero, and the sequence numbers.                    *)
THEOREM TypeCorrect == Spec => []TypeOK
<1>1. IInv => TypeOK
  BY Typed
<1> QED
  BY <1>1, Invariance, PTL

(* CountExact: DviSubscription::iRefCount is the number of its references,  *)
(* for any numbers of subscriptions, publishers and sessions.               *)
THEOREM CountExact == Spec => []RefCountExact
<1>1. IInv => RefCountExact
  <2>1. ASSUME IInv, NEW s \in Subs
        PROVE  iRefCount[s] = Entries(s) + Cardinality(Members(s))
                 + (IF \/ s \in iSubscriptions /\ ~Stopped(s)
                       \/ Holders(s) # {}
                       \/ s \in iMap /\ ~iService[s]
                      THEN 1 ELSE 0)
    BY <2>1, Typed DEF Counted, ListPart, Listed, Entries, HowOften
  <2> QED
    BY <2>1 DEF RefCountExact
<1> QED
  BY <1>1, Invariance, PTL

(* DeletedIsGone: what has been deleted is in no list or map, in no         *)
(* publisher's hands and not in the timer's.                                *)
THEOREM DeletedIsGone == Spec => []DestroyedIsUnreachable
<1>1. ASSUME IInv, NEW s \in Subs, obj[s] = "dead"
      PROVE  /\ s \notin iMap \union iSubscriptionMap
             /\ s \in iSubscriptions => svcLock = Owner
             /\ ~armed[s] /\ Entries(s) = 0
             /\ \A t \in Publishers \union {Closer, Timer} : cur[t] # s
  <2>1. s \notin iMap /\ ~iService[s] /\ Holders(s) = {} /\ ~Listed(s)
    BY <1>1, Unserved
  <2>2. s \notin iSubscriptionMap /\ ~armed[s]
    BY <1>1, Typed DEF Lives
  <2>3. s \in iSubscriptions => svcLock = Owner
    BY <2>1 DEF Listed, Stopped
  <2>4. ~(iRefCount[s] > 0) /\ iRefCount[s] \in Nat
    BY <1>1, Typed, Referenced DEF Lives
  <2>5. HowOften(iList, s) = 0 /\ Members(s) = {}
    <3>1. HowOften(iList, s) \in Nat
      BY <1>1, PartTypes, Typed DEF TypeOK
    <3> QED
      BY <1>1, <2>4, <3>1, Referenced
  <2>6. \A t \in Threads : pc[t] = "delete" => cur[t] # s
    BY <1>1, Typed DEF Lives
  <2>7. \A t \in Publishers \union {Closer} : cur[t] # s
    BY <2>5, <2>6, Kinds DEF Members
  <2>8. cur[Timer] # s
    <3>1. pc[Timer] \in TimerPcs /\ (cur[Timer] \in Subs <=> pc[Timer] \notin FreePcs)
      BY <1>1, Typed, Kinds DEF Places, Hands
    <3>2. pc[Timer] = "remove" => cur[Timer] # s
      BY <1>1, <2>1, Typed DEF Served
    <3>3. pc[Timer] \in {"stop", "cancel", "unref"} => cur[Timer] # s
      BY <1>1, <2>1, Hold, Kinds
    <3> QED
      BY <2>6, <3>1, <3>2, <3>3, Kinds DEF TimerPcs, FreePcs, RemovalPcs
  <2> QED
    BY <2>1, <2>2, <2>3, <2>5, <2>7, <2>8 DEF Entries, HowOften
<1>2. IInv => DestroyedIsUnreachable
  BY <1>1 DEF DestroyedIsUnreachable
<1> QED
  BY <1>2, Invariance, PTL

(* NoChangeForgotten: a subscriber of an enabled device that has not been   *)
(* told of the latest change will be, or a notification to it failed.       *)
THEOREM NoChangeForgotten == Spec => []ChangeIsPending
<1>1. IInv => ChangeIsPending
  BY Typed
<1> QED
  BY <1>1, Invariance, PTL

-----------------------------------------------------------------------------
(* The numbers of notifications                                             *)

(* They are given one by one, each with a value that is new.                *)
Numbered ==
  version <= SeqMax =>
    /\ \A s \in Subs :
         /\ iSequenceNumber[s] <= iPropertySequenceNumbers[s]
         /\ \A m \in {got[s], newest[s]} \ {NoMessage} : m.seq < iSequenceNumber[s]
    /\ \A p \in Publishers :
         /\ pc[p] = "connect" => writer[p].seq = iSequenceNumber[cur[p]]
         /\ pc[p] = "send" => writer[p].seq < iSequenceNumber[cur[p]]
    /\ NumbersTellOrder

(* A step that touches neither the numbers nor a notification.              *)
Untold ==
  /\ UNCHANGED <<writer, got, newest, iSequenceNumber, iPropertySequenceNumbers>>
  /\ version' = version \/ version' = version + 1
  /\ \A p \in Publishers :
       /\ pc'[p] = "connect" <=> pc[p] = "connect"
       /\ pc'[p] = "send" <=> pc[p] = "send"
       /\ pc[p] \in {"connect", "send"} => cur'[p] = cur[p]

LEMMA UntoldStep ==
  ASSUME IInv, Next
  PROVE  Untold \/ \E p \in Publishers : ReadSequenceNumber(p) \/ Connect(p) \/ Send(p)
<1> USE DEF service, manager, sub, fac, device, threads, seen
<1> DEFINE Goal == Untold \/ \E p \in Publishers : ReadSequenceNumber(p) \/ Connect(p) \/ Send(p)
<1> SUFFICES Goal
  OBVIOUS
<1>0. /\ Places
      /\ DOMAIN pc = Threads /\ DOMAIN cur = Threads
      /\ \A t \in Threads : cur[t] \in Subs <=> pc[t] \notin FreePcs
  BY Typed DEF TypeOK, Hands
<1>1. ASSUME NEW a \in Apps, SetProperty(a)
      PROVE  Goal
  BY <1>0, <1>1, Kinds DEF SetProperty, Goto, Untold
<1>2. ASSUME NEW a \in Apps, TryPublishUpdate(a)
      PROVE  Goal
  BY <1>0, <1>2, Kinds DEF TryPublishUpdate, Goto, Untold
<1>3. ASSUME NEW a \in Apps, PropertiesLock(a)
      PROVE  Goal
  BY <1>0, <1>3, Kinds DEF PropertiesLock, Goto, Untold
<1>4. ASSUME NEW a \in Apps, PropertiesUnlock(a)
      PROVE  Goal
  BY <1>0, <1>4, Kinds DEF PropertiesUnlock, Goto, Untold
<1>5. ASSUME NEW t \in Apps \union {Owner}, PublishBegin(t)
      PROVE  Goal
  BY <1>0, <1>5, Kinds DEF PublishBegin, Goto, Untold
<1>6. ASSUME NEW t \in Apps \union {Owner}, PublishOne(t)
      PROVE  Goal
  BY <1>0, <1>6, Kinds DEF PublishOne, Goto, QueueUpdate, Untold
<1>7. ASSUME NEW t \in Apps \union {Owner}, PublishEnd(t)
      PROVE  Goal
  BY <1>0, <1>7, Kinds DEF PublishEnd, Goto, Untold
<1>8. ASSUME NEW e \in Sessions, NEW s \in Subs, Subscribe(e, s)
      PROVE  Goal
  BY <1>0, <1>8, Kinds DEF Subscribe, Goto, Accepts, Untold
<1>9. ASSUME NEW e \in Sessions, AddSubscription(e)
      PROVE  Goal
  BY <1>0, <1>9, Kinds DEF AddSubscription, Goto, Untold
<1>10. ASSUME NEW e \in Sessions, Respond(e)
      PROVE  Goal
  BY <1>0, <1>10, Kinds DEF Respond, Goto, GoIdle, Untold
<1>11. ASSUME NEW e \in Sessions, Start(e)
      PROVE  Goal
  BY <1>0, <1>11, Kinds DEF Start, Goto, Untold
<1>12. ASSUME NEW e \in Sessions, PushSubscription(e)
      PROVE  Goal
  BY <1>0, <1>12, Kinds DEF PushSubscription, Goto, Untold
<1>13. ASSUME NEW e \in Sessions, FirstUpdate(e)
      PROVE  Goal
  BY <1>0, <1>13, Kinds DEF FirstUpdate, Goto, Crash, QueueUpdate, GoIdle, Untold
<1>14. ASSUME NEW e \in Sessions, NEW s \in Subs, Renew(e, s)
      PROVE  Goal
  BY <1>0, <1>14, Kinds DEF Renew, Goto, Accepts, Find, Untold
<1>15. ASSUME NEW e \in Sessions, NEW s \in Subs, Unsubscribe(e, s)
      PROVE  Goal
  BY <1>0, <1>15, Kinds DEF Unsubscribe, Goto, Accepts, Find, Untold
<1>16. ASSUME NEW e \in Sessions, RenewCheck(e)
      PROVE  Goal
  BY <1>0, <1>16, Kinds DEF RenewCheck, Goto, Crash, Untold
<1>17. ASSUME NEW e \in Sessions, DoRenew(e)
      PROVE  Goal
  BY <1>0, <1>17, Kinds DEF DoRenew, Goto, Crash, GoIdle, Untold
<1>18. ASSUME NEW t \in Publishers \union {Closer}, Expel(t)
      PROVE  Goal
  BY <1>0, <1>18, Kinds DEF Expel, Goto, Untold
<1>19. ASSUME NEW t \in Threads \ Apps, RemoveSubscription(t)
      PROVE  Goal
  BY <1>0, <1>19, Kinds DEF RemoveSubscription, Goto, Leave, After, Untold
<1>20. ASSUME NEW t \in Threads \ Apps, StopLock(t)
      PROVE  Goal
  BY <1>0, <1>20, Kinds DEF StopLock, Goto, Untold
<1>21. ASSUME NEW t \in Threads \ Apps, StopCancel(t)
      PROVE  Goal
  BY <1>0, <1>21, Kinds DEF StopCancel, Goto, MayCancel, Untold
<1>22. ASSUME NEW t \in Threads \ Apps, StopUnref(t)
      PROVE  Goal
  BY <1>0, <1>22, Kinds DEF StopUnref, Goto, Leave, RemoveRef, After, Untold
<1>23. ASSUME NEW t \in Publishers \union {Closer}, Release(t)
      PROVE  Goal
  BY <1>0, <1>23, Kinds DEF Release, Goto, Leave, RemoveRef, Untold
<1>24. ASSUME NEW t \in Threads \ Apps, Delete(t)
      PROVE  Goal
  BY <1>0, <1>24, Kinds DEF Delete, Goto, Leave, After, AfterDelete, MayCancel, Untold
<1>25. ASSUME NEW s \in Subs, Expire(s)
      PROVE  Goal
  BY <1>0, <1>25, Kinds DEF Expire, Goto, Crash, Untold
<1>26. ASSUME Fired
      PROVE  Goal
  BY <1>0, <1>26, Kinds DEF Fired, Goto, GoIdle, Untold
<1>27. ASSUME NEW e \in Sessions, Close(e)
      PROVE  Goal
  BY <1>0, <1>27, Kinds DEF Close, Goto, Untold
<1>28. ASSUME SetDisabled
      PROVE  Goal
  BY <1>0, <1>28, Kinds DEF SetDisabled, Goto, Untold
<1>29. ASSUME SetEnabled
      PROVE  Goal
  BY <1>0, <1>29, Kinds DEF SetEnabled, Goto, Untold
<1>30. ASSUME Destroy
      PROVE  Goal
  BY <1>0, <1>30, Kinds DEF Destroy, Goto, Untold
<1>31. ASSUME StopSubscriptions
      PROVE  Goal
  BY <1>0, <1>31, Kinds DEF StopSubscriptions, Goto, Untold
<1>32. ASSUME StopNext
      PROVE  Goal
  BY <1>0, <1>32, Kinds DEF StopNext, Goto, Untold
<1>33. ASSUME StopEnd
      PROVE  Goal
  BY <1>0, <1>33, Kinds DEF StopEnd, Goto, Untold
<1>34. ASSUME NEW p \in Publishers, Dispatch(p)
      PROVE  Goal
  BY <1>0, <1>34, Kinds DEF Dispatch, Goto, Untold
<1>35. ASSUME NEW p \in Publishers, WriteChanges(p)
      PROVE  Goal
  BY <1>0, <1>35, Kinds DEF WriteChanges, Goto, Untold
<1>36. ASSUME NEW p \in Publishers, ReadSequenceNumber(p) \/ Connect(p) \/ Send(p)
      PROVE  Goal
  BY <1>36
<1> HIDE DEF Goal
<1> QED
  BY <1>1, <1>2, <1>3, <1>4, <1>5, <1>6, <1>7, <1>8, <1>9, <1>10, <1>11, <1>12,
     <1>13, <1>14, <1>15, <1>16, <1>17, <1>18, <1>19, <1>20, <1>21, <1>22, <1>23,
     <1>24, <1>25, <1>26, <1>27, <1>28, <1>29, <1>30, <1>31, <1>32, <1>33, <1>34,
     <1>35, <1>36
     DEF Next, AppStep, Publish, RequestStep, Removal, OwnerStep, PublisherStep

(* A number is given once, by the publisher that connects.                  *)
LEMMA NumberedStep ==
  ASSUME IInv, Numbered, Next
  PROVE  Numbered'
<1>0. /\ Numbered /\ Places /\ Versions /\ Locks
      /\ DOMAIN pc = Threads /\ DOMAIN cur = Threads /\ version \in Nat
      /\ iSequenceNumber \in [Subs -> 0..SeqMax] /\ SeqMax \in Nat
      /\ iPropertySequenceNumbers \in [Subs -> Nat]
      /\ writer \in [Publishers -> Message]
      /\ got \in [Subs -> Message] /\ newest \in [Subs -> Message]
      /\ \A t \in Threads : cur[t] \in Subs <=> pc[t] \notin FreePcs
  BY Typed, BoundAssumption DEF TypeOK, Hands
<1>1. CASE Untold
  <2>1. version' <= SeqMax => version <= SeqMax
    BY <1>0, <1>1 DEF Untold
  <2> QED
    BY <1>0, <1>1, <2>1 DEF Numbered, Untold, NumbersTellOrder
<1>2. ASSUME NEW p \in Publishers, ReadSequenceNumber(p)
      PROVE  Numbered'
  <2>1. /\ pc[p] = "props" /\ p \in Threads
        /\ UNCHANGED <<version, got, newest, iSequenceNumber, iPropertySequenceNumbers, cur>>
        /\ \A q \in Publishers : q # p => pc'[q] = pc[q] /\ writer'[q] = writer[q]
    BY <1>0, <1>2, Kinds DEF ReadSequenceNumber, Goto, seen
  <2>2. pc'[p] = "release" \/ (pc'[p] = "connect" /\ writer'[p].seq = iSequenceNumber[cur[p]])
    BY <1>0, <1>2, <2>1 DEF ReadSequenceNumber, Goto
  <2> QED
    BY <1>0, <2>1, <2>2 DEF Numbered, NumbersTellOrder
<1>3. ASSUME NEW p \in Publishers, Connect(p), version' <= SeqMax
      PROVE  Numbered'
  <2>1. /\ pc[p] = "connect" /\ p \in Threads /\ cur[p] \in Subs
        /\ UNCHANGED <<version, got, newest, cur>>
        /\ \A q \in Publishers : q # p => pc'[q] = pc[q] /\ writer'[q] = writer[q]
        /\ \A q \in Publishers : q # p => pc[q] # "connect"
    BY <1>0, <1>3, Kinds DEF Connect, Goto, Locks, FreePcs
  <2>2. CASE pc'[p] # "send"
    <3>1. pc'[p] # "connect" /\ UNCHANGED <<iSequenceNumber, iPropertySequenceNumbers>>
      BY <1>0, <1>3, <2>1, <2>2 DEF Connect, Goto
    <3> QED
      BY <1>0, <2>1, <2>2, <3>1 DEF Numbered, NumbersTellOrder
  <2>3. CASE pc'[p] = "send"
    <3> DEFINE s == cur[p]
               n == writer[p].seq
    <3>1. /\ iPropertySequenceNumbers' = [iPropertySequenceNumbers EXCEPT ![s] = writer[p].val]
          /\ iSequenceNumber' = [iSequenceNumber EXCEPT ![s] = NextSequenceNumber(iSequenceNumber[s])]
          /\ writer' = [writer EXCEPT ![p].val = version]
      BY <1>0, <1>3, <2>1, <2>3 DEF Connect, Goto
    <3>2. writer'[p].seq = n /\ writer'[p].val = version
      BY <1>0, <3>1 DEF Message
    <3>3. /\ n = iSequenceNumber[s] /\ iSequenceNumber[s] <= iPropertySequenceNumbers[s]
          /\ iPropertySequenceNumbers[s] < writer[p].val /\ writer[p].val <= version
      BY <1>0, <1>3, <2>1 DEF Numbered, Versions
    <3>4. iSequenceNumber'[s] = n + 1 /\ iSequenceNumber'[s] <= iPropertySequenceNumbers'[s]
      BY <1>0, <1>3, <2>1, <3>1, <3>3 DEF NextSequenceNumber, Message
    <3>5. \A r \in Subs : r # s => /\ iSequenceNumber'[r] = iSequenceNumber[r]
                                   /\ iPropertySequenceNumbers'[r] = iPropertySequenceNumbers[r]
      BY <1>0, <3>1
    <3>6. \A m \in {got[s], newest[s]} \ {NoMessage} : m.seq < n /\ m.val <= version
      BY <1>0, <1>3, <2>1, <3>3 DEF Numbered, Versions
    <3>7. \A q \in Publishers : pc[q] = "send" /\ cur[q] = s => writer[q].seq < n /\ writer[q].val <= version
      BY <1>0, <1>3, <2>1, <3>3 DEF Numbered, Versions
    <3>n. n \in Nat /\ \A q \in Publishers : writer[q].seq \in Nat /\ writer[q].val \in Nat
      BY <1>0 DEF Message
    <3>m. \A r \in Subs : got[r].seq \in Nat /\ newest[r].seq \in Nat
      BY <1>0 DEF Message
    <3> HIDE DEF n
    <3>8. \A r \in Subs : /\ iSequenceNumber'[r] <= iPropertySequenceNumbers'[r]
                          /\ \A m \in {got'[r], newest'[r]} \ {NoMessage} : m.seq < iSequenceNumber'[r]
      <4>1. ASSUME NEW r \in Subs, r # s
            PROVE  /\ iSequenceNumber'[r] <= iPropertySequenceNumbers'[r]
                   /\ \A m \in {got'[r], newest'[r]} \ {NoMessage} : m.seq < iSequenceNumber'[r]
        BY <1>0, <1>3, <2>1, <3>5, <4>1 DEF Numbered
      <4>2. \A m \in {got'[s], newest'[s]} \ {NoMessage} : m.seq < iSequenceNumber'[s]
        BY <2>1, <3>4, <3>6, <3>n, <3>m
      <4> QED
        BY <3>4, <4>1, <4>2
    <3>9. \A q \in Publishers :
            /\ pc'[q] = "connect" => writer'[q].seq = iSequenceNumber'[cur'[q]]
            /\ pc'[q] = "send" => writer'[q].seq < iSequenceNumber'[cur'[q]]
      <4>1. ASSUME NEW q \in Publishers, q # p, pc'[q] = "send"
            PROVE  writer'[q].seq < iSequenceNumber'[cur'[q]]
        <5>1. pc[q] = "send" /\ cur'[q] = cur[q] /\ writer'[q] = writer[q] /\ cur[q] \in Subs
          BY <1>0, <2>1, <4>1, Kinds DEF FreePcs
        <5>2. writer[q].seq < iSequenceNumber[cur[q]]
          BY <1>0, <1>3, <2>1, <5>1 DEF Numbered
        <5> QED
          BY <3>4, <3>5, <3>7, <3>n, <5>1, <5>2
      <4> QED
        BY <2>1, <2>3, <3>2, <3>4, <3>n, <4>1
    <3>10. NumbersTellOrder'
      <4>1. ASSUME NEW q \in Publishers, pc'[q] = "send"
            PROVE  /\ \A m \in {got'[cur'[q]], newest'[cur'[q]]} \ {NoMessage} : Apart(m, writer'[q])
                   /\ \A o \in Publishers \ {q} :
                        pc'[o] = "send" /\ cur'[o] = cur'[q] => Apart(writer'[o], writer'[q])
        <5>1. CASE q = p
          BY <2>1, <3>2, <3>6, <3>7, <3>n, <3>m, <5>1 DEF Apart
        <5>2. CASE q # p
          <6>1. /\ pc[q] = "send" /\ cur'[q] = cur[q] /\ writer'[q] = writer[q]
                /\ got' = got /\ newest' = newest
            BY <2>1, <4>1, <5>2
          <6>2. /\ \A m \in {got[cur[q]], newest[cur[q]]} \ {NoMessage} : Apart(m, writer[q])
                /\ \A o \in Publishers \ {q} :
                     pc[o] = "send" /\ cur[o] = cur[q] => Apart(writer[o], writer[q])
            BY <1>0, <1>3, <2>1, <6>1 DEF Numbered, NumbersTellOrder
          <6>3. cur[q] = s => Apart(writer'[p], writer[q])
            BY <3>2, <3>7, <3>n, <6>1 DEF Apart
          <6> QED
            BY <2>1, <5>2, <6>1, <6>2, <6>3
        <5> QED
          BY <5>1, <5>2
      <4> QED
        BY <4>1 DEF NumbersTellOrder
    <3> QED
      BY <3>8, <3>9, <3>10 DEF Numbered
  <2> QED
    BY <2>2, <2>3
<1>4. ASSUME NEW p \in Publishers, Send(p), version' <= SeqMax
      PROVE  Numbered'
  <2> DEFINE s == cur[p]
             w == writer[p]
  <2>1. /\ pc[p] = "send" /\ p \in Threads /\ s \in Subs
        /\ UNCHANGED <<version, iSequenceNumber, iPropertySequenceNumbers, cur>>
        /\ pc'[p] \notin {"send", "connect"}
        /\ \A q \in Publishers : q # p => pc'[q] = pc[q] /\ writer'[q] = writer[q]
    BY <1>0, <1>4, Kinds DEF Send, Goto, FreePcs, sub, service
  <2>2. /\ got' = got \/ got' = [got EXCEPT ![s] = w]
        /\ newest' = newest \/ newest' = [newest EXCEPT ![s] = w]
    BY <1>0, <1>4, Received
  <2>3. \A r \in Subs :
          /\ got'[r] = got[r] \/ (r = s /\ got'[r] = w)
          /\ newest'[r] = newest[r] \/ (r = s /\ newest'[r] = w)
    BY <1>0, <2>2
  <2>4. /\ w.seq < iSequenceNumber[s]
        /\ \A q \in Publishers \ {p} : pc[q] = "send" /\ cur[q] = s => Apart(w, writer[q])
    BY <1>0, <1>4, <2>1 DEF Numbered, NumbersTellOrder
  <2>5. \A r \in Subs : /\ iSequenceNumber[r] <= iPropertySequenceNumbers[r]
                        /\ \A m \in {got[r], newest[r]} \ {NoMessage} : m.seq < iSequenceNumber[r]
    BY <1>0, <1>4, <2>1 DEF Numbered
  <2>6. \A q \in Publishers : pc[q] = "send" =>
          /\ writer[q].seq < iSequenceNumber[cur[q]] /\ cur[q] \in Subs
          /\ \A m \in {got[cur[q]], newest[cur[q]]} \ {NoMessage} : Apart(m, writer[q])
          /\ \A o \in Publishers \ {q} :
               pc[o] = "send" /\ cur[o] = cur[q] => Apart(writer[o], writer[q])
    BY <1>0, <1>4, <2>1, Kinds DEF Numbered, NumbersTellOrder, FreePcs
  <2>7. \A q \in Publishers : pc[q] = "connect" => writer[q].seq = iSequenceNumber[cur[q]]
    BY <1>0, <1>4, <2>1 DEF Numbered
  <2> HIDE DEF s, w
  <2>8. \A r \in Subs : /\ iSequenceNumber'[r] <= iPropertySequenceNumbers'[r]
                        /\ \A m \in {got'[r], newest'[r]} \ {NoMessage} : m.seq < iSequenceNumber'[r]
    BY <2>1, <2>3, <2>4, <2>5
  <2>9. ASSUME NEW q \in Publishers
        PROVE  /\ pc'[q] = "connect" => writer'[q].seq = iSequenceNumber'[cur'[q]]
               /\ pc'[q] = "send" => writer'[q].seq < iSequenceNumber'[cur'[q]]
    BY <2>1, <2>6, <2>7, <2>9
  <2>10. NumbersTellOrder'
    <3>1. ASSUME NEW q \in Publishers, pc'[q] = "send"
          PROVE  /\ \A m \in {got'[cur'[q]], newest'[cur'[q]]} \ {NoMessage} : Apart(m, writer'[q])
                 /\ \A o \in Publishers \ {q} :
                      pc'[o] = "send" /\ cur'[o] = cur'[q] => Apart(writer'[o], writer'[q])
      <4>1. q # p /\ pc[q] = "send" /\ cur'[q] = cur[q] /\ writer'[q] = writer[q]
        BY <2>1, <3>1
      <4>2. cur[q] = s => Apart(w, writer[q])
        BY <2>4, <4>1
      <4>3. ASSUME NEW m \in {got'[cur[q]], newest'[cur[q]]} \ {NoMessage}
            PROVE  Apart(m, writer[q])
        <5>1. m \in {got[cur[q]], newest[cur[q]]} \/ (cur[q] = s /\ m = w)
          BY <2>3, <2>6, <4>1, <4>3
        <5> QED
          BY <2>6, <4>1, <4>2, <4>3, <5>1
      <4> QED
        BY <2>1, <2>6, <4>1, <4>3
    <3> QED
      BY <3>1 DEF NumbersTellOrder
  <2> QED
    BY <2>8, <2>9, <2>10 DEF Numbered
<1>5. CASE ~(version' <= SeqMax)
  BY <1>5 DEF Numbered
<1> QED
  BY <1>1, <1>2, <1>3, <1>4, <1>5, UntoldStep

LEMMA NumberedAlways == Spec => []Numbered
<1>1. Init => Numbered
  BY Kinds DEF Init, Numbered, NumbersTellOrder
<1>2. IInv /\ Numbered /\ [Next]_vars => Numbered'
  <2>1. ASSUME Numbered, UNCHANGED vars
        PROVE  Numbered'
    BY <2>1 DEF Numbered, NumbersTellOrder, vars, service, sub, threads, seen
  <2> QED
    BY <2>1, NumberedStep
<1> QED
  BY <1>1, <1>2, Invariance, PTL DEF Spec

(* NumbersOfAll: with any number of publishers, the numbers of what a       *)
(* subscriber received and of what is on its way differ, and tell the order *)
(* of the changes, as long as they have not wrapped.                        *)
THEOREM NumbersOfAll == Spec => []NumbersTellOrder
<1>1. Numbered => NumbersTellOrder
  BY DEF Numbered, NumbersTellOrder
<1> QED
  BY <1>1, NumberedAlways, PTL

(* The subscriber may still be notified.                                    *)
IsOpen(s) == iService[s] \/ \E p \in Publishers : cur[p] = s /\ pc[p] = "send"

(* The steps that a subscriber may notice.                                  *)
LEMMA Shown ==
  ASSUME IInv, Next
  PROVE  \/ \E a \in Apps : SetProperty(a)
         \/ \E e \in Sessions : Start(e)
         \/ \E t \in Threads \ Apps : StopCancel(t)
         \/ SetDisabled \/ SetEnabled \/ Destroy
         \/ \E p \in Publishers : Connect(p) \/ Send(p)
         \/ /\ UNCHANGED <<version, newest, failed, enabled>>
            /\ \A s \in Subs : IsOpen(s)' <=> IsOpen(s)
<1> USE DEF service, manager, sub, fac, device, threads, seen
<1>0. /\ Places /\ Served
      /\ DOMAIN pc = Threads /\ DOMAIN cur = Threads /\ DOMAIN iService = Subs
      /\ \A t \in Threads : cur[t] \in Subs <=> pc[t] \notin FreePcs
      /\ \A t \in Threads : pc[t] = "delete" => ~iService[cur[t]]
  BY Typed, DeletedOut DEF TypeOK, Hands
<1> DEFINE Goal == \/ \E a \in Apps : SetProperty(a)
                   \/ \E e \in Sessions : Start(e)
                   \/ \E t \in Threads \ Apps : StopCancel(t)
                   \/ SetDisabled \/ SetEnabled \/ Destroy
                   \/ \E p \in Publishers : Connect(p) \/ Send(p)
                   \/ /\ UNCHANGED <<version, newest, failed, enabled>>
                      /\ \A s \in Subs : IsOpen(s)' <=> IsOpen(s)
<1> SUFFICES Goal
  OBVIOUS
<1>1. ASSUME NEW a \in Apps, SetProperty(a)
      PROVE  Goal
  BY <1>1
<1>2. ASSUME NEW a \in Apps, TryPublishUpdate(a)
      PROVE  Goal
  BY <1>0, <1>2, Kinds DEF TryPublishUpdate, Goto, IsOpen
<1>3. ASSUME NEW a \in Apps, PropertiesLock(a)
      PROVE  Goal
  BY <1>0, <1>3, Kinds DEF PropertiesLock, Goto, IsOpen
<1>4. ASSUME NEW a \in Apps, PropertiesUnlock(a)
      PROVE  Goal
  BY <1>0, <1>4, Kinds DEF PropertiesUnlock, Goto, IsOpen
<1>5. ASSUME NEW t \in Apps \union {Owner}, PublishBegin(t)
      PROVE  Goal
  BY <1>0, <1>5, Kinds DEF PublishBegin, Goto, IsOpen
<1>6. ASSUME NEW t \in Apps \union {Owner}, PublishOne(t)
      PROVE  Goal
  BY <1>0, <1>6, Kinds DEF PublishOne, Goto, QueueUpdate, IsOpen
<1>7. ASSUME NEW t \in Apps \union {Owner}, PublishEnd(t)
      PROVE  Goal
  BY <1>0, <1>7, Kinds DEF PublishEnd, Goto, IsOpen
<1>8. ASSUME NEW e \in Sessions, NEW s \in Subs, Subscribe(e, s)
      PROVE  Goal
  BY <1>0, <1>8, Kinds DEF Subscribe, Goto, Accepts, IsOpen
<1>9. ASSUME NEW e \in Sessions, AddSubscription(e)
      PROVE  Goal
  BY <1>0, <1>9, Kinds DEF AddSubscription, Goto, IsOpen
<1>10. ASSUME NEW e \in Sessions, Respond(e)
      PROVE  Goal
  BY <1>0, <1>10, Kinds DEF Respond, Goto, GoIdle, IsOpen
<1>11. ASSUME NEW e \in Sessions, Start(e)
      PROVE  Goal
  BY <1>11
<1>12. ASSUME NEW e \in Sessions, PushSubscription(e)
      PROVE  Goal
  BY <1>0, <1>12, Kinds DEF PushSubscription, Goto, IsOpen
<1>13. ASSUME NEW e \in Sessions, FirstUpdate(e)
      PROVE  Goal
  BY <1>0, <1>13, Kinds DEF FirstUpdate, Goto, Crash, QueueUpdate, GoIdle, IsOpen
<1>14. ASSUME NEW e \in Sessions, NEW s \in Subs, Renew(e, s)
      PROVE  Goal
  BY <1>0, <1>14, Kinds DEF Renew, Goto, Accepts, Find, IsOpen
<1>15. ASSUME NEW e \in Sessions, NEW s \in Subs, Unsubscribe(e, s)
      PROVE  Goal
  BY <1>0, <1>15, Kinds DEF Unsubscribe, Goto, Accepts, Find, IsOpen
<1>16. ASSUME NEW e \in Sessions, RenewCheck(e)
      PROVE  Goal
  BY <1>0, <1>16, Kinds DEF RenewCheck, Goto, Crash, IsOpen
<1>17. ASSUME NEW e \in Sessions, DoRenew(e)
      PROVE  Goal
  BY <1>0, <1>17, Kinds DEF DoRenew, Goto, Crash, GoIdle, IsOpen
<1>18. ASSUME NEW t \in Publishers \union {Closer}, Expel(t)
      PROVE  Goal
  BY <1>0, <1>18, Kinds DEF Expel, Goto, IsOpen
<1>19. ASSUME NEW t \in Threads \ Apps, RemoveSubscription(t)
      PROVE  Goal
  BY <1>0, <1>19, Kinds DEF RemoveSubscription, Goto, Leave, After, IsOpen
<1>20. ASSUME NEW t \in Threads \ Apps, StopLock(t)
      PROVE  Goal
  BY <1>0, <1>20, Kinds DEF StopLock, Goto, IsOpen
<1>21. ASSUME NEW t \in Threads \ Apps, StopCancel(t)
      PROVE  Goal
  BY <1>21
<1>22. ASSUME NEW t \in Threads \ Apps, StopUnref(t)
      PROVE  Goal
  BY <1>0, <1>22, Kinds DEF StopUnref, Goto, Leave, RemoveRef, After, IsOpen
<1>23. ASSUME NEW t \in Publishers \union {Closer}, Release(t)
      PROVE  Goal
  BY <1>0, <1>23, Kinds DEF Release, Goto, Leave, RemoveRef, IsOpen
<1>24. ASSUME NEW t \in Threads \ Apps, Delete(t)
      PROVE  Goal
  BY <1>0, <1>24, Kinds DEF Delete, Goto, Leave, After, AfterDelete, MayCancel, IsOpen
<1>25. ASSUME NEW s \in Subs, Expire(s)
      PROVE  Goal
  BY <1>0, <1>25, Kinds DEF Expire, Goto, Crash, IsOpen
<1>26. ASSUME Fired
      PROVE  Goal
  BY <1>0, <1>26, Kinds DEF Fired, Goto, GoIdle, IsOpen
<1>27. ASSUME NEW e \in Sessions, Close(e)
      PROVE  Goal
  BY <1>0, <1>27, Kinds DEF Close, Goto, IsOpen
<1>28. ASSUME SetDisabled
      PROVE  Goal
  BY <1>28
<1>29. ASSUME SetEnabled
      PROVE  Goal
  BY <1>29
<1>30. ASSUME Destroy
      PROVE  Goal
  BY <1>30
<1>31. ASSUME StopSubscriptions
      PROVE  Goal
  BY <1>0, <1>31, Kinds DEF StopSubscriptions, Goto, IsOpen
<1>32. ASSUME StopNext
      PROVE  Goal
  BY <1>0, <1>32, Kinds DEF StopNext, Goto, IsOpen
<1>33. ASSUME StopEnd
      PROVE  Goal
  BY <1>0, <1>33, Kinds DEF StopEnd, Goto, IsOpen
<1>34. ASSUME NEW p \in Publishers, Dispatch(p)
      PROVE  Goal
  BY <1>0, <1>34, Kinds DEF Dispatch, Goto, IsOpen
<1>35. ASSUME NEW p \in Publishers, WriteChanges(p)
      PROVE  Goal
  BY <1>0, <1>35, Kinds DEF WriteChanges, Goto, IsOpen
<1>36. ASSUME NEW p \in Publishers, ReadSequenceNumber(p)
      PROVE  Goal
  BY <1>0, <1>36, Kinds DEF ReadSequenceNumber, Goto, IsOpen
<1>37. ASSUME NEW p \in Publishers, Connect(p)
      PROVE  Goal
  BY <1>37
<1>38. ASSUME NEW p \in Publishers, Send(p)
      PROVE  Goal
  BY <1>38
<1> QED
  BY <1>1, <1>2, <1>3, <1>4, <1>5, <1>6, <1>7, <1>8, <1>9, <1>10, <1>11, <1>12,
     <1>13, <1>14, <1>15, <1>16, <1>17, <1>18, <1>19, <1>20, <1>21, <1>22, <1>23,
     <1>24, <1>25, <1>26, <1>27, <1>28, <1>29, <1>30, <1>31, <1>32, <1>33, <1>34,
     <1>35, <1>36, <1>37, <1>38
     DEF Next, AppStep, Publish, RequestStep, Removal, OwnerStep, PublisherStep

-----------------------------------------------------------------------------
(* The device implements Eventing                                           *)

(* What the subscriber s of Eventing is to be seen as.                      *)
Views  == [s \in Subs |-> newest[s].val]
Opened == [s \in Subs |-> IsOpen(s)]

(* The promise's actions, of what they are instantiated with.               *)
LEMMA PromiseIs ==
  /\ Promise!Init <=> /\ version = 1 /\ Views = [s \in Subs |-> 0]
                      /\ Opened = [s \in Subs |-> FALSE] /\ failed = [s \in Subs |-> FALSE]
                      /\ enabled = TRUE
  /\ UNCHANGED Promise!vars <=> UNCHANGED <<version, Views, Opened, failed, enabled>>
  /\ Promise!Change <=> version' = version + 1 /\ UNCHANGED <<Views, Opened, failed, enabled>>
  /\ Promise!Switch <=> enabled' = ~enabled /\ UNCHANGED <<version, Views, Opened, failed>>
  /\ Promise!Next <=> \/ Promise!Change \/ Promise!Switch
                      \/ \E s \in Subs : Promise!Open(s) \/ Promise!Notify(s)
                                           \/ Promise!Fail(s) \/ Promise!Close(s)
<1> USE DEF Views, Opened, IsOpen
<1>1. Promise!Init <=> /\ version = 1 /\ Views = [s \in Subs |-> 0]
                       /\ Opened = [s \in Subs |-> FALSE] /\ failed = [s \in Subs |-> FALSE]
                       /\ enabled = TRUE
  BY Zenon DEF Promise!Init
<1>2. UNCHANGED Promise!vars <=> UNCHANGED <<version, Views, Opened, failed, enabled>>
  BY DEF Promise!vars
<1>3. Promise!Change <=> version' = version + 1 /\ UNCHANGED <<Views, Opened, failed, enabled>>
  BY Zenon DEF Promise!Change
<1>4. Promise!Switch <=> enabled' = ~enabled /\ UNCHANGED <<version, Views, Opened, failed>>
  BY Zenon DEF Promise!Switch
<1>5. Promise!Next <=> \/ Promise!Change \/ Promise!Switch
                       \/ \E s \in Subs : Promise!Open(s) \/ Promise!Notify(s)
                                            \/ Promise!Fail(s) \/ Promise!Close(s)
  BY Zenon DEF Promise!Next
<1> QED
  BY <1>1, <1>2, <1>3, <1>4, <1>5

LEMMA PromiseOf ==
  ASSUME NEW s \in Subs
  PROVE  /\ Promise!Open(s) <=> /\ Views[s] = 0 /\ Opened' = [Opened EXCEPT ![s] = TRUE]
                                /\ UNCHANGED <<version, Views, failed, enabled>>
         /\ Promise!Close(s) <=> /\ Opened[s] /\ Opened' = [Opened EXCEPT ![s] = FALSE]
                                 /\ UNCHANGED <<version, Views, failed, enabled>>
         /\ Promise!Fail(s) <=> /\ Opened[s] /\ failed' = [failed EXCEPT ![s] = TRUE]
                                /\ \E o \in BOOLEAN : Opened' = [Opened EXCEPT ![s] = o]
                                /\ UNCHANGED <<version, Views, enabled>>
         /\ Promise!Notify(s) <=>
              /\ Opened[s]
              /\ \E v \in (Views[s] + 1)..version : Views' = [Views EXCEPT ![s] = v]
              /\ \E o \in BOOLEAN : Opened' = [Opened EXCEPT ![s] = o]
              /\ \E x \in BOOLEAN : failed' = [failed EXCEPT ![s] = x \/ failed[s]]
              /\ UNCHANGED <<version, enabled>>
<1> USE DEF Views, Opened, IsOpen
<1>1. Promise!Open(s) <=> /\ Views[s] = 0 /\ Opened' = [Opened EXCEPT ![s] = TRUE]
                          /\ UNCHANGED <<version, Views, failed, enabled>>
  BY Zenon DEF Promise!Open
<1>2. Promise!Close(s) <=> /\ Opened[s] /\ Opened' = [Opened EXCEPT ![s] = FALSE]
                           /\ UNCHANGED <<version, Views, failed, enabled>>
  BY Zenon DEF Promise!Close
<1>3. Promise!Fail(s) <=> /\ Opened[s] /\ failed' = [failed EXCEPT ![s] = TRUE]
                          /\ \E o \in BOOLEAN : Opened' = [Opened EXCEPT ![s] = o]
                          /\ UNCHANGED <<version, Views, enabled>>
  BY Zenon DEF Promise!Fail
<1>4. Promise!Notify(s) <=>
        /\ Opened[s]
        /\ \E v \in (Views[s] + 1)..version : Views' = [Views EXCEPT ![s] = v]
        /\ \E o \in BOOLEAN : Opened' = [Opened EXCEPT ![s] = o]
        /\ \E x \in BOOLEAN : failed' = [failed EXCEPT ![s] = x \/ failed[s]]
        /\ UNCHANGED <<version, enabled>>
  BY Zenon DEF Promise!Notify
<1> QED
  BY <1>1, <1>2, <1>3, <1>4

(* How the functions change when only s is concerned.                       *)
LEMMA OnlyOne ==
  ASSUME NEW s \in Subs, \A r \in Subs : r # s => (IsOpen(r)' <=> IsOpen(r))
  PROVE  /\ IsOpen(s)' \in BOOLEAN /\ Opened' = [Opened EXCEPT ![s] = IsOpen(s)']
         /\ (IsOpen(s)' <=> IsOpen(s)) => Opened' = Opened
         /\ Opened[s] = IsOpen(s)
<1>1. /\ IsOpen(s)' \in BOOLEAN
      /\ \A r \in Subs : IsOpen(r) \in BOOLEAN /\ IsOpen(r)' \in BOOLEAN
  BY DEF IsOpen
<1>2. \A r \in Subs : r # s => IsOpen(r)' = IsOpen(r)
  BY <1>1
<1> QED
  BY <1>1, <1>2 DEF Opened

(* A step of the device is one of Eventing or changes nothing there.        *)
LEMMA StepKept ==
  ASSUME IInv, Numbered, version <= SeqMax, Next
  PROVE  Promise!Next \/ UNCHANGED Promise!vars
<1> DEFINE Goal == Promise!Next \/ UNCHANGED Promise!vars
<1> SUFFICES Goal
  OBVIOUS
<1> USE DEF service, manager, sub, fac, device, threads, seen
<1>0. /\ Places /\ Served /\ Guarded /\ Versions
      /\ DOMAIN pc = Threads /\ DOMAIN cur = Threads /\ DOMAIN iService = Subs
      /\ \A s \in Subs : iService[s] \in BOOLEAN
      /\ \A t \in Threads : cur[t] \in Subs <=> pc[t] \notin FreePcs
  BY Typed DEF TypeOK, Hands
<1>a. ASSUME UNCHANGED newest
      PROVE  UNCHANGED Views
  BY <1>a DEF Views
<1>b. ASSUME \A s \in Subs : IsOpen(s)' <=> IsOpen(s)
      PROVE  UNCHANGED Opened
  <2>1. \A s \in Subs : IsOpen(s) \in BOOLEAN /\ IsOpen(s)' \in BOOLEAN
    BY DEF IsOpen
  <2>2. \A s \in Subs : IsOpen(s)' = IsOpen(s)
    BY <1>b, <2>1
  <2> QED
    BY <2>2 DEF Opened
<1>1. ASSUME NEW a \in Apps, SetProperty(a)
      PROVE  Goal
  <2>1. \A s \in Subs : IsOpen(s)' <=> IsOpen(s)
    BY <1>0, <1>1, Kinds DEF SetProperty, Goto, IsOpen
  <2> QED
    BY <1>1, <1>a, <1>b, <2>1, PromiseIs DEF SetProperty
<1>2. ASSUME NEW e \in Sessions, Start(e), NEW s, s = cur[e]
      PROVE  Goal
  <2>1. s \in Subs /\ pc[e] = "start"
    BY <1>0, <1>2, Kinds DEF Start, FreePcs
  <2>2. \A r \in Subs : r # s => (IsOpen(r)' <=> IsOpen(r))
    BY <1>0, <1>2, Kinds DEF Start, Goto, IsOpen
  <2>3. IsOpen(s)'
    BY <1>0, <1>2, <2>1, Kinds DEF Start, Goto, IsOpen
  <2>4. Opened' = [Opened EXCEPT ![s] = TRUE]
    <3>1. Opened' = [Opened EXCEPT ![s] = IsOpen(s)']
      BY <2>1, <2>2, OnlyOne
    <3>2. IsOpen(s)' = TRUE
      BY <2>3 DEF IsOpen
    <3> QED
      BY <3>1, <3>2
  <2>5. Views[s] = 0
    BY <1>2, <2>1, Typed DEF Unsent, NoMessage, Views
  <2>6. UNCHANGED <<version, Views, failed, enabled>>
    BY <1>2, <1>a DEF Start
  <2> QED
    BY <2>1, <2>4, <2>5, <2>6, PromiseIs, PromiseOf
<1>3. ASSUME NEW t \in Threads \ Apps, StopCancel(t), NEW s, s = cur[t]
      PROVE  Goal
  <2>1. s \in Subs /\ pc[t] = "cancel" /\ iService[s]
    BY <1>0, <1>3, Kinds DEF StopCancel, FreePcs, Served
  <2>2. \A r \in Subs : r # s => (IsOpen(r)' <=> IsOpen(r))
    BY <1>0, <1>3, Kinds DEF StopCancel, Goto, IsOpen
  <2>3. UNCHANGED <<version, Views, failed, enabled>>
    BY <1>3, <1>a DEF StopCancel
  <2>4. Opened[s]
    BY <2>1 DEF Opened, IsOpen
  <2>5. CASE IsOpen(s)'
    <3>1. UNCHANGED Opened
      BY <2>1, <2>2, <2>5, <1>b DEF IsOpen
    <3> QED
      BY <2>3, <3>1, PromiseIs, PromiseOf
  <2>6. CASE ~IsOpen(s)'
    <3>1. Opened' = [Opened EXCEPT ![s] = IsOpen(s)']
      BY <2>1, <2>2, OnlyOne
    <3>2. IsOpen(s)' = FALSE
      BY <2>6 DEF IsOpen
    <3>3. Opened' = [Opened EXCEPT ![s] = FALSE]
      BY <3>1, <3>2
    <3> QED
      BY <2>1, <2>3, <2>4, <3>3, PromiseIs, PromiseOf
  <2> QED
    BY <2>5, <2>6
<1>4. CASE SetDisabled \/ SetEnabled \/ Destroy
  <2>1. \A s \in Subs : IsOpen(s)' <=> IsOpen(s)
    BY <1>0, <1>4, Kinds DEF SetDisabled, SetEnabled, Destroy, Goto, IsOpen
  <2>2. UNCHANGED <<version, Views, Opened, failed>>
    BY <1>4, <1>a, <1>b, <2>1 DEF SetDisabled, SetEnabled, Destroy
  <2>3. enabled' = enabled \/ enabled' = ~enabled
    BY <1>4, Typed DEF SetDisabled, SetEnabled, Destroy, TypeOK
  <2> QED
    BY <2>2, <2>3, PromiseIs, PromiseOf
<1>5. ASSUME NEW p \in Publishers, Connect(p), NEW s, s = cur[p]
      PROVE  Goal
  <2>1. s \in Subs /\ pc[p] = "connect" /\ iService[s] /\ p \in Threads
    BY <1>0, <1>5, Kinds DEF Connect, FreePcs, Guarded
  <2>2. \A r \in Subs : IsOpen(r)' <=> IsOpen(r)
    <3>1. UNCHANGED <<iService, cur>> /\ \A q \in Threads : q # p => pc'[q] = pc[q]
      BY <1>0, <1>5 DEF Connect, Goto
    <3> QED
      BY <1>5, <2>1, <3>1, Kinds DEF IsOpen
  <2>3. UNCHANGED <<version, Views, Opened, enabled>>
    BY <1>5, <1>a, <1>b, <2>2 DEF Connect
  <2>4. failed' = failed \/ failed' = [failed EXCEPT ![s] = TRUE]
    BY <1>5 DEF Connect
  <2>5. CASE failed' = failed
    BY <2>3, <2>5, PromiseIs, PromiseOf
  <2>6. CASE failed' = [failed EXCEPT ![s] = TRUE]
    <3>1. Opened[s] /\ Opened[s] \in BOOLEAN /\ Opened' = [Opened EXCEPT ![s] = Opened[s]]
      BY <2>1, <2>3 DEF Opened, IsOpen
    <3> QED
      BY <2>1, <2>3, <2>6, <3>1, PromiseIs, PromiseOf
  <2> QED
    BY <2>4, <2>5, <2>6
<1>6. ASSUME NEW p \in Publishers, Send(p), NEW s, s = cur[p]
      PROVE  Goal
  <2>1. s \in Subs /\ pc[p] = "send" /\ p \in Threads
    BY <1>0, <1>6, Kinds DEF Send, FreePcs
  <2>2. UNCHANGED <<iService, cur, version, enabled>> /\ pc'[p] # "send"
        /\ \A q \in Threads : q # p => pc'[q] = pc[q]
    BY <1>0, <1>6, <2>1 DEF Send, Goto
  <2>3. \A r \in Subs : r # s => (IsOpen(r)' <=> IsOpen(r))
    BY <1>6, <2>1, <2>2, Kinds DEF IsOpen
  <2>4. /\ IsOpen(s)' \in BOOLEAN /\ Opened' = [Opened EXCEPT ![s] = IsOpen(s)']
    BY <2>1, <2>3, OnlyOne
  <2>5. Opened[s]
    BY <1>6, <2>1 DEF Opened, IsOpen
  <2>6. /\ \/ newest' = newest
           \/ newest' = [newest EXCEPT ![s] = writer[p]] /\ newest[s].seq <= writer[p].seq
        /\ failed' = failed \/ failed' = [failed EXCEPT ![s] = TRUE]
    <3>1. newest \in [Subs -> Message]
      BY Typed DEF TypeOK
    <3> QED
      BY <1>6, <3>1, Received DEF Send
  <2>7. /\ newest[s].val \in Nat /\ writer[p].val \in Nat /\ version \in Nat
        /\ newest[s].seq \in Nat /\ writer[p].seq \in Nat /\ writer[p].val <= version
        /\ newest[s].seq <= writer[p].seq => newest[s].val <= writer[p].val
    <3>1. /\ newest[s].val \in Nat /\ writer[p].val \in Nat /\ version \in Nat
          /\ newest[s].seq \in Nat /\ writer[p].seq \in Nat /\ writer[p].val <= version
      BY <1>0, <1>6, <2>1, Typed DEF Versions, TypeOK, Message
    <3>2. newest[s] # NoMessage => Apart(newest[s], writer[p])
      BY <1>6, <2>1 DEF Numbered, NumbersTellOrder
    <3>3. newest[s] = NoMessage => newest[s].val = 0
      BY DEF NoMessage
    <3> QED
      BY <3>1, <3>2, <3>3 DEF Apart
  <2>8. Views[s] = newest[s].val
    BY <2>1 DEF Views
  <2>9. Views' = Views \/ (Views' = [Views EXCEPT ![s] = writer[p].val] /\ writer[p].val > Views[s])
    <3>1. CASE newest' = newest
      BY <3>1 DEF Views
    <3>2. CASE newest' = [newest EXCEPT ![s] = writer[p]] /\ newest[s].seq <= writer[p].seq
      <4>1. \A r \in Subs : newest'[r] = IF r = s THEN writer[p] ELSE newest[r]
        BY <3>2, Typed DEF TypeOK
      <4>2. Views' = [Views EXCEPT ![s] = writer[p].val]
        BY <4>1 DEF Views
      <4>3. CASE writer[p].val = newest[s].val
        BY <4>2, <4>3, <2>1, <2>8 DEF Views
      <4>4. CASE writer[p].val # newest[s].val
        BY <4>2, <4>4, <2>7, <2>8, <3>2
      <4> QED
        BY <4>3, <4>4
    <3> QED
      BY <2>6, <3>1, <3>2
  <2>10. CASE Views' = Views /\ failed' = failed
    <3>1. CASE IsOpen(s)'
      <4>1. UNCHANGED Opened
        BY <2>1, <2>3, <2>5, <3>1, <1>b DEF Opened
      <4> QED
        BY <2>2, <2>10, <4>1, PromiseIs
    <3>2. CASE ~IsOpen(s)'
      <4>1. IsOpen(s)' = FALSE
        BY <3>2 DEF IsOpen
      <4>2. Opened' = [Opened EXCEPT ![s] = FALSE]
        BY <2>4, <4>1
      <4> QED
        BY <2>1, <2>2, <2>5, <2>10, <4>2, PromiseIs, PromiseOf
    <3> QED
      BY <3>1, <3>2
  <2>11. CASE Views' = Views /\ failed' = [failed EXCEPT ![s] = TRUE]
    BY <2>1, <2>2, <2>4, <2>5, <2>11, PromiseIs, PromiseOf
  <2>12. CASE Views' = [Views EXCEPT ![s] = writer[p].val] /\ writer[p].val > Views[s]
    <3>1. writer[p].val \in (Views[s] + 1)..version
      BY <2>7, <2>8, <2>12
    <3>2. failed \in [Subs -> BOOLEAN]
      BY Typed DEF TypeOK
    <3>3. \E x \in BOOLEAN : failed' = [failed EXCEPT ![s] = x \/ failed[s]]
      <4>1. CASE failed' = failed
        <5>1. failed' = [failed EXCEPT ![s] = FALSE \/ failed[s]]
          BY <2>1, <3>2, <4>1
        <5> QED
          BY <5>1
      <4>2. CASE failed' = [failed EXCEPT ![s] = TRUE]
        <5>1. failed' = [failed EXCEPT ![s] = TRUE \/ failed[s]]
          BY <4>2
        <5> QED
          BY <5>1
      <4> QED
        BY <2>6, <4>1, <4>2
    <3> QED
      BY <2>1, <2>2, <2>4, <2>5, <2>12, <3>1, <3>3, PromiseIs, PromiseOf
  <2> QED
    BY <2>6, <2>9, <2>10, <2>11, <2>12
<1>7. CASE UNCHANGED <<version, newest, failed, enabled>> /\ \A s \in Subs : IsOpen(s)' <=> IsOpen(s)
  BY <1>7, <1>a, <1>b, PromiseIs, PromiseOf
<1> HIDE DEF Goal
<1> QED
  BY <1>1, <1>2, <1>3, <1>4, <1>5, <1>6, <1>7, Shown

(* KeepsPromise: with any number of publishers, and as long as the numbers  *)
(* have not wrapped, the device does nothing that Eventing does not allow:  *)
(* a subscriber that goes by the numbers is told of the changes in their    *)
(* order, and of nothing before its Start or after its end.  That it is     *)
(* told at last takes fairness, which TLC checks.                           *)
THEOREM KeepsPromise == Spec => EventingKept
<1>1. Init => Promise!Init
  <2>1. ASSUME Init
        PROVE  /\ Views = [s \in Subs |-> 0] /\ Opened = [s \in Subs |-> FALSE]
               /\ version = 1 /\ failed = [s \in Subs |-> FALSE] /\ enabled = TRUE
    <3>1. \A s \in Subs : IsOpen(s) = FALSE
      BY <2>1, Kinds DEF Init, IsOpen
    <3> QED
      BY <2>1, <3>1 DEF Init, Views, Opened, NoMessage
  <2> QED
    BY <2>1, PromiseIs, PromiseOf
<1>2. IInv /\ Numbered /\ [Next]_vars => [version <= SeqMax => Promise!Next]_(Promise!vars)
  <2>1. ASSUME UNCHANGED vars
        PROVE  UNCHANGED Promise!vars
    BY <2>1 DEF vars, service, sub, device, threads, seen, Promise!vars
  <2>2. ASSUME IInv, Numbered, Next
        PROVE  (version <= SeqMax => Promise!Next) \/ UNCHANGED Promise!vars
    BY <2>2, StepKept
  <2> QED
    BY <2>1, <2>2
<1> QED
  BY <1>1, <1>2, Invariance, NumberedAlways, PTL DEF Spec, EventingKept
====
