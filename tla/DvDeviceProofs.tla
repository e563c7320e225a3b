--------------------------- MODULE DvDeviceProofs ---------------------------
(***************************************************************************)
(* The completions DviProtocolUpnp waits for, counted; what Destroy waits   *)
(* for; that an enabled device goes on announcing itself; and, for one      *)
(* client thread, that no invocation runs when a disable has returned.      *)
(***************************************************************************)
EXTENDS DvDevice, Counting

(* Where a client is in a call of SetEnabled, and from where on it has said *)
(* that the device is enabled.                                              *)
EnabledPcs == {"protocolEnable", "aliveCheck", "aliveSend", "serviceEnable"}
EnablePcs  == {"enableWait", "enableLock"} \cup EnabledPcs
DisablePcs == {"disableProtocols", "serviceDisable", "serviceWait"}
(* ~DviProtocolUpnp; of a destroyer, "aliveCheck" is the end of an update   *)
(* whose message it deletes.                                                *)
DeletePcs  == {"deleteTimer", "deleteLock", "deleteListener", "deleteAdapters",
               "deleteSchedulers", "subnetUpdated", "aliveCheck", "releaseDevice", "gone"}

(* The clients' calls exclude each other, but for SetEnabled after the      *)
(* callback of a SetDisabled.                                               *)
Callers ==
  /\ destroyer = None => \A a \in Apps : pc[a] \in {"idle"} \cup EnablePcs \cup DisablePcs
  /\ \A a \in Apps : destroyer = a =>
       /\ pc[a] \in DisablePcs \cup {"shutdownWait"} \cup DeletePcs
       /\ \A b \in Apps \ {a} : pc[b] = "idle"
  /\ \A a, b \in Apps : a # b /\ pc[a] \in EnablePcs => pc[b] \notin EnablePcs
  /\ \A a, b \in Apps : a # b /\ pc[a] \in DisablePcs => pc[b] \notin DisablePcs
  /\ \A a, b \in Apps : a # b /\ pc[a] \in {"enableWait", "enableLock", "disableProtocols"}
       => pc[b] = "idle"

(* What a client in a call knows of the device.                             *)
Knows ==
  \A a \in Apps :
    /\ pc[a] \in EnabledPcs /\ destroyer = None => iEnabled = "enabled"
    /\ pc[a] = "enableLock" => iEnabled = "disabled"
    /\ pc[a] = "enableWait" => iEnabled # "enabled"
    /\ pc[a] = "disableProtocols" =>
         IF destroyer = a THEN iEnabled = "disabling"
                          ELSE iEnabled # "enabled" /\ iDisableComplete = "client" /\ owed > 0
    /\ pc[a] \in DeletePcs /\ destroyer = a => iEnabled = "disabled"

(* The device waits for its protocol exactly while it is disabling, and its *)
(* semaphore is clear then.                                                 *)
Shutdown ==
  /\ iProtocolDisableCount = IF iEnabled = "disabling" THEN 1 ELSE 0
  /\ iEnabled # "disabled" => iShutdownSem = 0
  /\ iEnabled = "disabling" /\ iDisableComplete = "client" => owed > 0
  /\ iEnabled = "disabling" /\ destroyer = None =>
       iDisableComplete = "client" \/ \E a \in Apps : pc[a] = "enableWait"

(* Byebyes are out only while the device is disabling.                      *)
Byebyes ==
  /\ iSubnetDisableCount > 0 \/ pc["timer"] = "protocolDisabled" =>
       iEnabled = "disabling" /\ \A a \in Apps : pc[a] # "disableProtocols"
  /\ pc["timer"] = "protocolDisabled" => iSubnetDisableCount = 0

Locks ==
  /\ lock["callback"] = None <=> pc["timer"] = "idle"
  /\ lock["listener"] = None <=> pc["net"] = "idle"
  /\ lock["handler"] = None <=> pc["listener"] = "idle"

(* What ~DviProtocolUpnp has put an end to.                                 *)
Ended ==
  /\ \A a \in Apps : destroyer = a =>
       /\ pc[a] \in DeletePcs \ {"deleteTimer"} => ~iAliveTimer /\ pc["timer"] # "aliveSend"
       /\ pc[a] \in DeletePcs \ {"deleteTimer", "deleteLock", "deleteListener"} =>
            "net" \notin listening /\ pc["net"] = "idle"
       /\ pc[a] \in {"deleteSchedulers", "subnetUpdated", "aliveCheck", "releaseDevice", "gone"} =>
            listening = {} /\ pc["listener"] = "idle"
       /\ pc[a] \in {"releaseDevice", "gone"} => \A r \in Scheduler : iMsgSchedulers[r] = 0
  /\ protocol = "deleted" <=> \E a \in Apps : pc[a] \in {"releaseDevice", "gone"}

(* The scheduler whose completion the timer thread reports is in the list.  *)
Completing == pc["timer"] = "complete" => iMsgSchedulers[Over(fired)] > 0

(* The invocations counted are those that run.                              *)
Invocations == iCurrentInvocationCount = Cardinality({s \in Sessions : pc[s] = "running"})

(* The device goes on announcing itself or a client is about to see to it.  *)
Kept ==
  iEnabled = "enabled" /\ destroyer = None =>
    \/ iAliveTimer \/ iUpdateCount > 0
    \/ pc["timer"] \in {"aliveCheck", "aliveSend"} \/ pc["net"] = "netUpdate"
    \/ \E a \in Apps : pc[a] \in {"protocolEnable", "aliveCheck", "aliveSend"}

IInv ==
  /\ TypeOK /\ CountsMatch
  /\ Callers /\ Knows /\ Shutdown /\ Byebyes /\ Locks /\ Ended /\ Completing /\ Invocations

(* One client: the gate.                                                    *)
OneClient == \E client : Apps = {client}
Closed == iDisabled /\ iCurrentInvocationCount = 0
Gate ==
  /\ GateMatchesInvocations
  /\ \A a \in Apps :
       /\ pc[a] \in EnablePcs => Closed
       /\ pc[a] = "serviceWait" => iDisabled
       /\ Returned(a) /\ iEnabled # "enabled" => Closed

-----------------------------------------------------------------------------
(* The schedulers in the list, counted                                      *)

List == [Scheduler -> Nat]

LEMMA Listed ==
  ASSUME NEW list \in List, NEW k
  PROVE  \A q : q \in Each(list, k) <=>
           \E r \in Scheduler : \E i \in 1..list[r] : r.kind = k /\ q = <<r, i>>
BY DEF Each, InList, List

LEMMA Pairs ==
  ASSUME NEW list \in List, NEW k, NEW r \in Scheduler, NEW i
  PROVE  <<r, i>> \in Each(list, k) <=> r.kind = k /\ i \in 1..list[r]
<1>1. ASSUME <<r, i>> \in Each(list, k)
      PROVE  r.kind = k /\ i \in 1..list[r]
  <2>1. PICK s \in Scheduler, j \in Nat : j \in 1..list[s] /\ s.kind = k /\ <<r, i>> = <<s, j>>
    BY <1>1, Listed
  <2>2. r = s /\ i = j
    BY <2>1
  <2> QED
    BY <2>1, <2>2
<1>2. r.kind = k /\ i \in 1..list[r] => <<r, i>> \in Each(list, k)
  BY Listed
<1> QED
  BY <1>1, <1>2

LEMMA SchedulersFinite == IsFiniteSet(Scheduler)
<1> DEFINE S == (Kinds \X BOOLEAN) \X (0..Msgs)
           f == [q \in S |-> [kind |-> q[1][1], stop |-> q[1][2], left |-> q[2]]]
<1>1. IsFiniteSet(Kinds)
  <2>1. IsFiniteSet({"alive"}) /\ IsFiniteSet({"byebye"}) /\ IsFiniteSet({"update"})
        /\ IsFiniteSet({"msearch"})
    BY FS_Singleton
  <2>2. IsFiniteSet({"alive"} \cup {"byebye"}) /\ IsFiniteSet({"update"} \cup {"msearch"})
    BY <2>1, FS_Union
  <2>3. Kinds = ({"alive"} \cup {"byebye"}) \cup ({"update"} \cup {"msearch"})
    BY DEF Kinds
  <2> QED
    BY <2>2, <2>3, FS_Union
<1>2. IsFiniteSet(BOOLEAN)
  <2>1. IsFiniteSet({TRUE}) /\ IsFiniteSet({FALSE}) /\ BOOLEAN = {TRUE} \cup {FALSE}
    BY FS_Singleton
  <2> QED
    BY <2>1, FS_Union
<1>3. IsFiniteSet(0..Msgs)
  BY FS_Interval, DeviceBoundAssumption
<1>4. IsFiniteSet(S)
  BY <1>1, <1>2, <1>3, FS_Product
<1>5. f \in Surjection(S, Scheduler)
  <2>1. f \in [S -> Scheduler]
    BY DEF Scheduler
  <2>2. ASSUME NEW r \in Scheduler
        PROVE  \E q \in S : f[q] = r
    <3>1. <<<<r.kind, r.stop>>, r.left>> \in S
      BY DEF Scheduler
    <3>2. f[<<<<r.kind, r.stop>>, r.left>>] = r
      BY <3>1 DEF Scheduler
    <3> QED
      BY <3>1, <3>2
  <2> QED
    BY <2>1, <2>2 DEF Surjection
<1> HIDE DEF S, f
<1> QED
  BY <1>4, <1>5, FS_Surjection

LEMMA EachFinite ==
  ASSUME NEW list \in List, NEW k
  PROVE  IsFiniteSet(Each(list, k)) /\ Cardinality(Each(list, k)) \in Nat
<1> DEFINE R == InList(list, k)
           f == [r \in R |-> {r} \X (1..list[r])]
           F == {{r} \X (1..list[r]) : r \in R}
<1>1. IsFiniteSet(R)
  BY SchedulersFinite, FS_Subset DEF InList
<1>2. f \in Surjection(R, F)
  BY DEF Surjection
<1>3. IsFiniteSet(F)
  BY <1>1, <1>2, FS_Surjection
<1>4. ASSUME NEW T \in F
      PROVE  IsFiniteSet(T)
  <2>1. PICK r \in R : T = {r} \X (1..list[r])
    BY <1>4
  <2>2. list[r] \in Nat
    BY DEF InList, List
  <2>3. IsFiniteSet({r})
    BY FS_Singleton
  <2>4. IsFiniteSet(1..list[r])
    BY <2>2, FS_Interval
  <2> QED
    BY <2>1, <2>3, <2>4, FS_Product
<1> HIDE DEF R, f
<1>5. IsFiniteSet(UNION F)
  BY <1>3, <1>4, FS_UNION
<1> QED
  BY <1>5, FS_CardinalityType DEF Each, R

(* Of one state there are more or fewer.                                    *)
LEMMA Change ==
  ASSUME NEW list \in List, NEW k, NEW r \in Scheduler, NEW n \in Nat
  PROVE  /\ [list EXCEPT ![r] = @ + n] \in List
         /\ Cardinality(Each([list EXCEPT ![r] = @ + n], k)) =
              Cardinality(Each(list, k)) + (IF r.kind = k THEN n ELSE 0)
<1> DEFINE more == [list EXCEPT ![r] = list[r] + n]
           new == {r} \X ((list[r] + 1)..(list[r] + n))
<1>1. more \in List /\ list[r] \in Nat
  BY DEF List
<1>2. /\ more[r] = list[r] + n
      /\ \A s \in Scheduler : s # r => more[s] = list[s]
  BY DEF List
<1> HIDE DEF more
<1>3. CASE r.kind # k
  <2>1. \A q : q \in Each(more, k) <=> q \in Each(list, k)
    <3>1. ASSUME NEW s \in Scheduler, NEW i, s.kind = k
          PROVE  i \in 1..more[s] <=> i \in 1..list[s]
      BY <1>2, <1>3, <3>1
    <3> QED
      BY <1>1, <3>1, Listed
  <2>2. Each(more, k) = Each(list, k)
    BY <2>1
  <2> QED
    BY <1>1, <1>3, <2>2, EachFinite DEF more
<1>4. CASE r.kind = k
  <2>1. Each(more, k) = Each(list, k) \cup new
    <3>1. ASSUME NEW q \in Each(more, k)
          PROVE  q \in Each(list, k) \cup new
      <4>1. PICK s \in Scheduler, i \in Nat : i \in 1..more[s] /\ s.kind = k /\ q = <<s, i>>
        BY <1>1, Listed
      <4>2. CASE s = r /\ i > list[r]
        <5>1. i \in (list[r] + 1)..(list[r] + n)
          BY <1>1, <1>2, <4>1, <4>2
        <5> QED
          BY <4>1, <4>2, <5>1
      <4>3. CASE s # r \/ i <= list[r]
        <5>1. i \in 1..list[s]
          BY <1>1, <1>2, <4>1, <4>3
        <5> QED
          BY <4>1, <5>1, Pairs
      <4> QED
        BY <1>1, <4>1, <4>2, <4>3
    <3>2. ASSUME NEW q \in Each(list, k)
          PROVE  q \in Each(more, k)
      <4>1. PICK s \in Scheduler, i \in Nat : i \in 1..list[s] /\ s.kind = k /\ q = <<s, i>>
        BY Listed
      <4>2. i \in 1..more[s]
        BY <1>1, <1>2, <4>1 DEF List
      <4> QED
        BY <1>1, <4>1, <4>2, Pairs
    <3>3. ASSUME NEW q \in new
          PROVE  q \in Each(more, k)
      <4>1. PICK i \in (list[r] + 1)..(list[r] + n) : q = <<r, i>>
        BY <3>3
      <4>2. i \in 1..more[r]
        BY <1>1, <1>2, <4>1
      <4> QED
        BY <1>1, <1>4, <4>1, <4>2, Pairs
    <3> HIDE DEF new
    <3> QED
      BY <3>1, <3>2, <3>3
  <2>2. Each(list, k) \cap new = {}
    <3>1. ASSUME NEW q \in new, q \in Each(list, k)
          PROVE  FALSE
      <4>1. PICK i \in (list[r] + 1)..(list[r] + n) : q = <<r, i>>
        BY <3>1
      <4>2. i \in 1..list[r]
        BY <3>1, <4>1, Pairs
      <4> QED
        BY <1>1, <4>1, <4>2
    <3> QED
      BY <3>1
  <2>3. IsFiniteSet(new) /\ Cardinality(new) = n
    <3>1. /\ IsFiniteSet((list[r] + 1)..(list[r] + n))
          /\ Cardinality((list[r] + 1)..(list[r] + n)) = n
      <4>1. ASSUME NEW i \in Int, NEW j \in Int, j - i + 1 = n
            PROVE  IsFiniteSet(i..j) /\ Cardinality(i..j) = n
        <5>1. IsFiniteSet(i..j)
          BY FS_Interval
        <5>2. Cardinality(i..j) = IF i > j THEN 0 ELSE j - i + 1
          BY FS_Interval
        <5> QED
          BY <4>1, <5>1, <5>2
      <4>2. /\ list[r] + 1 \in Int /\ list[r] + n \in Int
            /\ (list[r] + n) - (list[r] + 1) + 1 = n
        BY <1>1
      <4> QED
        BY <4>1, <4>2
    <3>2. IsFiniteSet({r}) /\ Cardinality({r}) = 1
      BY FS_Singleton
    <3>3. /\ IsFiniteSet(new)
          /\ Cardinality(new) = Cardinality({r}) * Cardinality((list[r] + 1)..(list[r] + n))
      BY <3>1, <3>2, FS_Product
    <3>4. 1 * n = n
      BY <1>1
    <3> QED
      BY <3>1, <3>2, <3>3, <3>4
  <2>4. IsFiniteSet(Each(list, k)) /\ Cardinality(Each(list, k)) \in Nat
    BY EachFinite
  <2> HIDE DEF new
  <2>5. Cardinality(Each(more, k)) = Cardinality(Each(list, k)) + n
    <3>1. Cardinality(Each(more, k)) =
            Cardinality(Each(list, k)) + Cardinality(new) - Cardinality({})
      BY <2>1, <2>2, <2>3, <2>4, FS_Union
    <3> QED
      BY <2>3, <2>4, <3>1, FS_EmptySet
  <2> QED
    BY <1>1, <1>4, <2>5 DEF more
<1> QED
  BY <1>3, <1>4

LEMMA PushCounts ==
  ASSUME NEW list \in List, NEW k, NEW j \in Kinds, NEW n \in Nat
  PROVE  /\ Push(list, j, n) \in List
         /\ Cardinality(Each(Push(list, j, n), k)) =
              Cardinality(Each(list, k)) + (IF j = k THEN n ELSE 0)
<1>1. New(j) \in Scheduler /\ New(j).kind = j
  BY DeviceBoundAssumption DEF New, Scheduler
<1> QED
  BY <1>1, Change DEF Push

LEMMA DropCounts ==
  ASSUME NEW list \in List, NEW k, NEW r \in Scheduler, list[r] > 0
  PROVE  /\ Drop(list, r) \in List
         /\ Cardinality(Each(Drop(list, r), k)) =
              Cardinality(Each(list, k)) - (IF r.kind = k THEN 1 ELSE 0)
<1> DEFINE less == Drop(list, r)
           more == [less EXCEPT ![r] = less[r] + 1]
<1>0. 1 \in Nat
  OBVIOUS
<1>1. less \in List /\ list[r] \in Nat /\ less[r] = list[r] - 1
  BY DEF Drop, List
<1>2. more = list
  <2>1. \A s \in Scheduler : more[s] = list[s]
    BY <1>1 DEF Drop, List
  <2>2. more \in List
    BY <1>1 DEF List
  <2> QED
    BY <2>1, <2>2 DEF List
<1>3. Cardinality(Each(more, k)) = Cardinality(Each(less, k)) + (IF r.kind = k THEN 1 ELSE 0)
  <2>1. Cardinality(Each([less EXCEPT ![r] = @ + 1], k)) =
          Cardinality(Each(less, k)) + (IF r.kind = k THEN 1 ELSE 0)
    <3> HIDE DEF less, more
    <3> QED
      BY <1>0, <1>1, Change
  <2> QED
    BY <2>1
<1>4. Cardinality(Each(less, k)) \in Nat
  BY <1>1, EachFinite
<1> HIDE DEF less, more
<1>5. Cardinality(Each(less, k)) = Cardinality(Each(list, k)) - (IF r.kind = k THEN 1 ELSE 0)
  BY <1>2, <1>3, <1>4
<1> QED
  BY <1>1, <1>5 DEF less

(* A stopped scheduler is still the same scheduler.                         *)
LEMMA StopCounts ==
  ASSUME NEW list \in List, NEW k
  PROVE  /\ StopAll(list) \in List
         /\ Cardinality(Each(StopAll(list), k)) = Cardinality(Each(list, k))
<1> DEFINE list2 == StopAll(list)
           Going(r) == [r EXCEPT !.stop = FALSE]
           Halted(r) == [r EXCEPT !.stop = TRUE]
           A == Each(list, k)
           B == Each(list2, k)
           f == [q \in A |-> IF q[1].stop THEN q ELSE <<Halted(q[1]), list[Halted(q[1])] + q[2]>>]
           g == [q \in B |-> IF q[2] <= list[q[1]] THEN q
                             ELSE <<Going(q[1]), q[2] - list[q[1]]>>]
<1>1. \A r \in Scheduler :
        /\ Going(r) \in Scheduler /\ ~Going(r).stop /\ Going(r).kind = r.kind
        /\ Going(r).left = r.left
        /\ Halted(r) \in Scheduler /\ Halted(r).stop /\ Halted(r).kind = r.kind
        /\ Halted(r).left = r.left
        /\ r.stop => Halted(r) = r /\ Halted(Going(r)) = r
        /\ ~r.stop => Going(r) = r /\ Going(Halted(r)) = r
  BY DEF Scheduler
<1>2. /\ \A r \in Scheduler : list[r] \in Nat
      /\ list2 \in List
      /\ \A r \in Scheduler : list2[r] = IF r.stop THEN list[r] + list[Going(r)] ELSE 0
  <2>1. \A r \in Scheduler : list[r] \in Nat /\ list[Going(r)] \in Nat
    BY <1>1 DEF List
  <2>2. list2 = [r \in Scheduler |-> IF r.stop THEN list[r] + list[Going(r)] ELSE 0]
    BY DEF StopAll
  <2> HIDE DEF list2, Going, Halted
  <2> QED
    BY <2>1, <2>2 DEF List
<1> HIDE DEF list2, Going, Halted
<1>3. /\ \A q \in A : \E r \in Scheduler : \E i \in 1..list[r] : r.kind = k /\ q = <<r, i>>
      /\ \A q \in B : \E r \in Scheduler : \E i \in 1..list2[r] : r.kind = k /\ q = <<r, i>>
  BY <1>2, Listed
<1>4. ASSUME NEW q \in A
      PROVE  /\ f[q] \in B
             /\ q[1].stop => f[q] = q /\ q[2] <= list[q[1]]
             /\ ~q[1].stop => /\ f[q] = <<Halted(q[1]), list[Halted(q[1])] + q[2]>>
                              /\ q[2] > 0
             /\ q[1] \in Scheduler /\ q[2] \in Nat /\ q = <<q[1], q[2]>>
  <2>1. PICK r \in Scheduler, i \in Nat : i \in 1..list[r] /\ r.kind = k /\ q = <<r, i>>
    BY <1>3
  <2>2. q[1] = r /\ q[2] = i /\ list[r] \in Nat /\ i \in Nat /\ i > 0 /\ i <= list[r]
    BY <1>2, <2>1
  <2>3. CASE r.stop
    <3>1. i \in 1..list2[r]
      BY <1>1, <1>2, <2>2, <2>3
    <3>2. q \in B
      BY <1>2, <2>1, <3>1, Pairs
    <3> QED
      BY <2>1, <2>2, <2>3, <3>2
  <2>4. CASE ~r.stop
    <3>1. list[Halted(r)] \in Nat /\ list2[Halted(r)] = list[Halted(r)] + list[r]
      BY <1>1, <1>2, <2>4
    <3>2. list[Halted(r)] + i \in 1..list2[Halted(r)]
      BY <2>2, <3>1
    <3>3. <<Halted(r), list[Halted(r)] + i>> \in B
      BY <1>1, <1>2, <2>1, <3>2, Pairs
    <3> QED
      BY <2>1, <2>2, <2>4, <3>3
  <2> QED
    BY <2>3, <2>4
<1>5. ASSUME NEW q \in B
      PROVE  /\ g[q] \in A
             /\ q[2] <= list[q[1]] => g[q] = q
             /\ q[2] > list[q[1]] => g[q] = <<Going(q[1]), q[2] - list[q[1]]>>
             /\ q[1] \in Scheduler /\ q[1].stop /\ q[2] \in Nat /\ q = <<q[1], q[2]>>
  <2>1. PICK r \in Scheduler, i \in Nat : i \in 1..list2[r] /\ r.kind = k /\ q = <<r, i>>
    BY <1>3
  <2>2. /\ q[1] = r /\ q[2] = i /\ list[r] \in Nat /\ list2[r] \in Nat /\ i \in Nat
        /\ i > 0 /\ i <= list2[r]
    BY <1>2, <2>1 DEF List
  <2>3. r.stop
    BY <1>2, <2>2
  <2>4. CASE i <= list[r]
    <3>1. q \in A
      BY <2>1, <2>2, <2>4, Pairs
    <3> QED
      BY <2>1, <2>2, <2>3, <2>4, <3>1
  <2>5. CASE i > list[r]
    <3>1. list2[r] = list[r] + list[Going(r)] /\ list[Going(r)] \in Nat
      BY <1>1, <1>2, <2>3
    <3>2. i - list[r] \in 1..list[Going(r)]
      BY <2>2, <2>5, <3>1
    <3>3. <<Going(r), i - list[r]>> \in A
      BY <1>1, <2>1, <3>2, Pairs
    <3> QED
      BY <2>1, <2>2, <2>3, <2>5, <3>3
  <2> QED
    BY <2>2, <2>4, <2>5
<1>6. IsFiniteSet(A) /\ IsFiniteSet(B)
  BY <1>2, EachFinite
<1>7. f \in [A -> B] /\ g \in [B -> A]
  BY <1>4, <1>5
<1> HIDE DEF A, B, f, g
<1>8. \A q, p \in A : f[q] = f[p] => q = p
  <2>1. SUFFICES ASSUME NEW q \in A, NEW p \in A, f[q] = f[p]
                 PROVE  q = p
    OBVIOUS
  <2>2. /\ q[1] \in Scheduler /\ q[2] \in Nat /\ q = <<q[1], q[2]>>
        /\ p[1] \in Scheduler /\ p[2] \in Nat /\ p = <<p[1], p[2]>>
    BY <1>4
  <2>3. CASE q[1].stop /\ p[1].stop
    BY <1>4, <2>1, <2>3
  <2>4. CASE ~q[1].stop /\ ~p[1].stop
    <3>1. /\ Halted(q[1]) = Halted(p[1])
          /\ list[Halted(q[1])] + q[2] = list[Halted(p[1])] + p[2]
      BY <1>4, <2>1, <2>4
    <3>2. q[1] = p[1]
      BY <1>1, <2>2, <2>4, <3>1
    <3>3. list[Halted(q[1])] \in Nat
      BY <1>1, <1>2, <2>2
    <3>4. q[2] = p[2]
      BY <2>2, <3>1, <3>2, <3>3
    <3> QED
      BY <2>2, <3>2, <3>4
  <2>5. ASSUME NEW a \in A, NEW b \in A, f[a] = f[b], a[1].stop, ~b[1].stop
        PROVE  FALSE
    <3>1. a = <<Halted(b[1]), list[Halted(b[1])] + b[2]>> /\ b[2] > 0 /\ a[2] <= list[a[1]]
          /\ b[1] \in Scheduler /\ b[2] \in Nat
      BY <1>4, <2>5
    <3>2. /\ a[1] = Halted(b[1]) /\ a[2] = list[Halted(b[1])] + b[2]
          /\ list[Halted(b[1])] \in Nat
      BY <1>1, <1>2, <3>1
    <3> QED
      BY <3>1, <3>2
  <2> QED
    BY <2>1, <2>3, <2>4, <2>5
<1>9. \A q, p \in B : g[q] = g[p] => q = p
  <2>1. SUFFICES ASSUME NEW q \in B, NEW p \in B, g[q] = g[p]
                 PROVE  q = p
    OBVIOUS
  <2>2. /\ q[1] \in Scheduler /\ q[1].stop /\ q[2] \in Nat /\ q = <<q[1], q[2]>>
        /\ p[1] \in Scheduler /\ p[1].stop /\ p[2] \in Nat /\ p = <<p[1], p[2]>>
        /\ list[q[1]] \in Nat /\ list[p[1]] \in Nat
    BY <1>2, <1>5
  <2>3. CASE q[2] <= list[q[1]] /\ p[2] <= list[p[1]]
    BY <1>5, <2>1, <2>3
  <2>4. CASE q[2] > list[q[1]] /\ p[2] > list[p[1]]
    <3>1. Going(q[1]) = Going(p[1]) /\ q[2] - list[q[1]] = p[2] - list[p[1]]
      BY <1>5, <2>1, <2>4
    <3>2. q[1] = p[1]
      BY <1>1, <2>2, <3>1
    <3>3. q[2] = p[2]
      BY <2>2, <3>1, <3>2
    <3> QED
      BY <2>2, <3>2, <3>3
  <2>5. ASSUME NEW a \in B, NEW b \in B, g[a] = g[b], a[2] <= list[a[1]], b[2] > list[b[1]]
        PROVE  FALSE
    <3>1. a = <<Going(b[1]), b[2] - list[b[1]]>> /\ a[1].stop /\ b[1] \in Scheduler
      BY <1>5, <2>5
    <3>2. a[1] = Going(b[1])
      BY <3>1
    <3> QED
      BY <1>1, <3>1, <3>2
  <2> QED
    BY <2>1, <2>2, <2>3, <2>4, <2>5
<1>10. Cardinality(A) = Cardinality(B)
  <2>1. Cardinality(A) \in Nat /\ Cardinality(B) \in Nat /\ Cardinality(A) <= Cardinality(B)
    BY <1>6, <1>7, <1>8, OneToOne
  <2>2. Cardinality(B) <= Cardinality(A)
    BY <1>6, <1>7, <1>9, OneToOne
  <2> QED
    BY <2>1, <2>2
<1> QED
  BY <1>2, <1>10 DEF list2, A, B

LEMMA Markers ==
  ASSUME NEW k \in Kinds
  PROVE  /\ New(k) \in Scheduler /\ New(k).kind = k
         /\ Over(k) \in Scheduler /\ Over(k).kind = k /\ Over(k).stop
BY DeviceBoundAssumption DEF New, Over, Scheduler

(* A scheduler that is over stays in the list, whoever stops or adds others. *)
LEMMA OverStays ==
  ASSUME NEW list \in List, NEW k \in Kinds, list[Over(k)] > 0
  PROVE  /\ StopAll(list)[Over(k)] > 0
         /\ \A j \in Kinds, n \in Nat : Push(list, j, n)[Over(k)] > 0
<1>1. [Over(k) EXCEPT !.stop = FALSE] \in Scheduler
  BY Markers DEF Scheduler
<1>2. /\ StopAll(list)[Over(k)] = list[Over(k)] + list[[Over(k) EXCEPT !.stop = FALSE]]
      /\ list[Over(k)] \in Nat /\ list[[Over(k) EXCEPT !.stop = FALSE]] \in Nat
  BY <1>1, Markers DEF StopAll, List
<1>3. ASSUME NEW j \in Kinds, NEW n \in Nat
      PROVE  Push(list, j, n)[Over(k)] > 0
  BY <1>2, <1>3, Markers DEF Push, List
<1> QED
  BY <1>2, <1>3

(* None is in the list when their number is zero.                           *)
LEMMA NoneListed ==
  ASSUME NEW list \in List, NEW k
  PROVE  Cardinality(Each(list, k)) = 0 <=> \A r \in Scheduler : r.kind = k => list[r] = 0
<1>1. IsFiniteSet(Each(list, k))
  BY EachFinite
<1>2. Cardinality(Each(list, k)) = 0 <=> Each(list, k) = {}
  BY <1>1, FS_EmptySet
<1>3. ASSUME Each(list, k) = {}, NEW r \in Scheduler, r.kind = k
      PROVE  list[r] = 0
  <2>1. list[r] \in Nat /\ ~(1 \in 1..list[r])
    BY <1>3, Pairs DEF List
  <2> QED
    BY <2>1
<1>4. ASSUME \A r \in Scheduler : r.kind = k => list[r] = 0
      PROVE  Each(list, k) = {}
  <2>1. ASSUME NEW q \in Each(list, k)
        PROVE  FALSE
    <3>1. PICK r \in Scheduler, i \in Nat : i \in 1..list[r] /\ r.kind = k
      BY Listed
    <3> QED
      BY <1>4, <3>1
  <2> QED
    BY <2>1
<1> QED
  BY <1>2, <1>3, <1>4

(* How many schedulers of kind k a list holds, however far they are.        *)
Number(list, k) == Cardinality(Each(list, k))

LEMMA Numbers ==
  ASSUME NEW list \in List, NEW k
  PROVE  /\ Number(list, k) \in Nat
         /\ \A j \in Kinds, n \in Nat :
              /\ Push(list, j, n) \in List
              /\ Number(Push(list, j, n), k) = Number(list, k) + (IF j = k THEN n ELSE 0)
         /\ \A r \in Scheduler : list[r] > 0 =>
              /\ Drop(list, r) \in List
              /\ Number(Drop(list, r), k) = Number(list, k) - (IF r.kind = k THEN 1 ELSE 0)
         /\ StopAll(list) \in List /\ Number(StopAll(list), k) = Number(list, k)
BY EachFinite, PushCounts, DropCounts, StopCounts DEF Number

LEMMA PushNumber ==
  ASSUME NEW list \in List, NEW k, NEW j \in Kinds, NEW n \in Nat
  PROVE  /\ Push(list, j, n) \in List
         /\ Number(Push(list, j, n), k) = Number(list, k) + (IF j = k THEN n ELSE 0)
BY Numbers

-----------------------------------------------------------------------------
(* The steps of the threads                                                 *)

LEMMA Distinct ==
  /\ "timer" \in Threads /\ "net" \in Threads /\ "listener" \in Threads
  /\ \A a \in Apps : a \in Threads /\ a \notin Sessions
       /\ a # "timer" /\ a # "net" /\ a # "listener" /\ a # None
  /\ \A s \in Sessions : s \in Threads /\ s \notin Apps
       /\ s # "timer" /\ s # "net" /\ s # "listener" /\ s # None
  /\ None # "timer" /\ None # "net" /\ None # "listener"
BY ThreadAssumption DEF Threads

LEMMA CallersNext ==
  ASSUME IInv, Next
  PROVE  Callers'
<1> USE DEF deviceVars, serviceVars, countVars, protocolVars, callVars, boundVars
<1>0. TypeThreads /\ Callers /\ Knows
  BY DEF IInv, TypeOK
<1>s. Shutdown
  BY DEF IInv
<1>1. ASSUME NEW a \in Apps, SetEnabled(a)
      PROVE  Callers'
  BY <1>0, <1>1, Distinct, <1>s DEF SetEnabled, Goto, ClearShutdown, Disabling,
     TypeThreads, Callers, Knows, EnablePcs, EnabledPcs, DisablePcs, DeletePcs, Shutdown
<1>2. ASSUME NEW a \in Apps, SetDisabled(a)
      PROVE  Callers'
  BY <1>0, <1>2, Distinct DEF SetDisabled, Goto, Free, AllIdle, StartDisable,
     TypeThreads, Callers, EnablePcs, EnabledPcs, DisablePcs, DeletePcs
<1>3. ASSUME NEW a \in Apps, Destroy(a)
      PROVE  Callers'
  BY <1>0, <1>3, Distinct DEF Destroy, Goto, AllIdle, Free, Take, StartDisable,
     TypeThreads, Callers, EnablePcs, EnabledPcs, DisablePcs, DeletePcs
<1>4. ASSUME NEW a \in Apps, EnableWait(a)
      PROVE  Callers'
  BY <1>0, <1>4, Distinct DEF EnableWait, Goto, TypeThreads, Callers, EnablePcs,
     EnabledPcs, DisablePcs, DeletePcs
<1>5. ASSUME NEW a \in Apps, EnableLock(a)
      PROVE  Callers'
  BY <1>0, <1>5, Distinct DEF EnableLock, Goto, ClearShutdown, TypeThreads, Callers,
     EnablePcs, EnabledPcs, DisablePcs, DeletePcs
<1>6. ASSUME NEW a \in Apps, ProtocolEnable(a)
      PROVE  Callers'
  BY <1>0, <1>6, Distinct DEF ProtocolEnable, Goto, TypeThreads, Callers, EnablePcs,
     EnabledPcs, DisablePcs, DeletePcs
<1>7. ASSUME NEW a \in Apps, AliveCheck(a)
      PROVE  Callers'
  BY <1>0, <1>7, Distinct DEF AliveCheck, Goto, Free, After, TypeThreads, Callers,
     Knows, EnablePcs, EnabledPcs, DisablePcs, DeletePcs
<1>8. ASSUME NEW a \in Apps, AliveSend(a)
      PROVE  Callers'
  BY <1>0, <1>8, Distinct DEF AliveSend, Goto, Free, RepeatAlive, After, TypeThreads,
     Callers, EnablePcs, EnabledPcs, DisablePcs, DeletePcs
<1>9. ASSUME NEW a \in Apps, ServiceEnable(a)
      PROVE  Callers'
  BY <1>0, <1>9, Distinct DEF ServiceEnable, Goto, TypeThreads, Callers, EnablePcs,
     EnabledPcs, DisablePcs, DeletePcs
<1>10. ASSUME NEW a \in Apps, DisableProtocols(a)
      PROVE  Callers'
  BY <1>0, <1>10, Distinct DEF DisableProtocols, Goto, RunDisableComplete,
     ProtocolDisable, TypeThreads, Callers, EnablePcs, EnabledPcs, DisablePcs, DeletePcs
<1>11. ASSUME NEW a \in Apps, ServiceDisable(a)
      PROVE  Callers'
  BY <1>0, <1>11, Distinct DEF ServiceDisable, Goto, TypeThreads, Callers, EnablePcs,
     EnabledPcs, DisablePcs, DeletePcs
<1>12. ASSUME NEW a \in Apps, ServiceWait(a)
      PROVE  Callers'
  BY <1>0, <1>12, Distinct DEF ServiceWait, Goto, TypeThreads, Callers, EnablePcs,
     EnabledPcs, DisablePcs, DeletePcs
<1>13. ASSUME NEW a \in Apps, ShutdownWait(a)
      PROVE  Callers'
  BY <1>0, <1>13, Distinct DEF ShutdownWait, Goto, TypeThreads, Callers, EnablePcs,
     EnabledPcs, DisablePcs, DeletePcs
<1>14. ASSUME NEW a \in Apps, DeleteTimer(a)
      PROVE  Callers'
  BY <1>0, <1>14, Distinct DEF DeleteTimer, Goto, CallbacksDone, TypeThreads, Callers,
     EnablePcs, EnabledPcs, DisablePcs, DeletePcs
<1>15. ASSUME NEW a \in Apps, DeleteLock(a)
      PROVE  Callers'
  BY <1>0, <1>15, Distinct DEF DeleteLock, Goto, TypeThreads, Callers, EnablePcs,
     EnabledPcs, DisablePcs, DeletePcs
<1>16. ASSUME NEW a \in Apps, DeleteListener(a)
      PROVE  Callers'
  BY <1>0, <1>16, Distinct DEF DeleteListener, Goto, TypeThreads, Callers, EnablePcs,
     EnabledPcs, DisablePcs, DeletePcs
<1>17. ASSUME NEW a \in Apps, DeleteAdapters(a)
      PROVE  Callers'
  BY <1>0, <1>17, Distinct DEF DeleteAdapters, Goto, TypeThreads, Callers, EnablePcs,
     EnabledPcs, DisablePcs, DeletePcs
<1>18. ASSUME NEW a \in Apps, DeleteScheduler(a)
      PROVE  Callers'
  BY <1>0, <1>18, Distinct DEF DeleteScheduler, Goto, CallbacksDone, TypeThreads,
     Callers, EnablePcs, EnabledPcs, DisablePcs, DeletePcs
<1>19. ASSUME NEW a \in Apps, SubnetUpdated(a)
      PROVE  Callers'
  BY <1>0, <1>19, Distinct DEF SubnetUpdated, Goto, Free, After, TypeThreads, Callers,
     EnablePcs, EnabledPcs, DisablePcs, DeletePcs
<1>20. ASSUME NEW a \in Apps, DeleteProtocol(a)
      PROVE  Callers'
  BY <1>0, <1>20, Distinct DEF DeleteProtocol, Goto, TypeThreads, Callers, EnablePcs,
     EnabledPcs, DisablePcs, DeletePcs
<1>21. ASSUME NEW a \in Apps, ReleaseDevice(a)
      PROVE  Callers'
  BY <1>0, <1>21, Distinct DEF ReleaseDevice, Goto, TypeThreads, Callers, EnablePcs,
     EnabledPcs, DisablePcs, DeletePcs
<1>22. ASSUME NextMsg
      PROVE  Callers'
  BY <1>0, <1>22, Distinct DEF NextMsg, Goto, Firing, TimerHolds, TypeThreads, Callers
<1>23. ASSUME AliveTimer
      PROVE  Callers'
  BY <1>0, <1>23, Distinct DEF AliveTimer, Goto, Firing, TimerHolds, TypeThreads, Callers
<1>24. ASSUME FireEnd
      PROVE  Callers'
  BY <1>0, <1>24, Distinct DEF FireEnd, Goto, TypeThreads, Callers
<1>25. ASSUME MsgSchedulerComplete
      PROVE  Callers'
  BY <1>0, <1>25, Distinct DEF MsgSchedulerComplete, Goto, Completed, TypeThreads, Callers
<1>26. ASSUME SubnetDisabled
      PROVE  Callers'
  BY <1>0, <1>26, Distinct DEF SubnetDisabled, Goto, TypeThreads, Callers
<1>27. ASSUME ProtocolDisabled
      PROVE  Callers'
  BY <1>0, <1>27, Distinct DEF ProtocolDisabled, Goto, RunDisableComplete, TypeThreads,
     Callers
<1>28. ASSUME SubnetUpdated("timer")
      PROVE  Callers'
  BY <1>0, <1>28, Distinct DEF SubnetUpdated, Goto, TypeThreads, Callers
<1>29. ASSUME AliveCheck("timer")
      PROVE  Callers'
  BY <1>0, <1>29, Distinct DEF AliveCheck, Goto, TypeThreads, Callers
<1>30. ASSUME AliveSend("timer")
      PROVE  Callers'
  BY <1>0, <1>30, Distinct DEF AliveSend, Goto, RepeatAlive, TypeThreads, Callers
<1>31. ASSUME NetChange
      PROVE  Callers'
  BY <1>0, <1>31, Distinct DEF NetChange, Goto, TypeThreads, Callers
<1>32. ASSUME NetCheck
      PROVE  Callers'
  BY <1>0, <1>32, Distinct DEF NetCheck, Goto, TypeThreads, Callers
<1>33. ASSUME NetStop
      PROVE  Callers'
  BY <1>0, <1>33, Distinct DEF NetStop, Goto, TypeThreads, Callers
<1>34. ASSUME NetDelete
      PROVE  Callers'
  BY <1>0, <1>34, Distinct DEF NetDelete, Goto, TypeThreads, Callers
<1>35. ASSUME NetCancel
      PROVE  Callers'
  BY <1>0, <1>35, Distinct DEF NetCancel, Goto, CallbacksDone, TypeThreads, Callers
<1>36. ASSUME NetUpdate
      PROVE  Callers'
  BY <1>0, <1>36, Distinct DEF NetUpdate, Goto, TypeThreads, Callers
<1>37. ASSUME NEW k \in Searches, Msearch(k)
      PROVE  Callers'
  BY <1>0, <1>37, Distinct DEF Msearch, Goto, TypeThreads, Callers
<1>38. ASSUME SearchCheck
      PROVE  Callers'
  BY <1>0, <1>38, Distinct DEF SearchCheck, Goto, TypeThreads, Callers
<1>39. ASSUME SearchPush
      PROVE  Callers'
  BY <1>0, <1>39, Distinct DEF SearchPush, Goto, TypeThreads, Callers
<1>40. ASSUME SearchLock
      PROVE  Callers'
  BY <1>0, <1>40, Distinct DEF SearchLock, Goto, TypeThreads, Callers
<1>41. ASSUME SearchEnabled
      PROVE  Callers'
  BY <1>0, <1>41, Distinct DEF SearchEnabled, Goto, TypeThreads, Callers
<1>42. ASSUME NEW s \in Sessions, Invoke(s)
      PROVE  Callers'
  BY <1>0, <1>42, Distinct DEF Invoke, Goto, ClearDisabled, TypeThreads, Callers
<1>43. ASSUME NEW s \in Sessions, InvocationCompleted(s)
      PROVE  Callers'
  BY <1>0, <1>43, Distinct DEF InvocationCompleted, Goto, LastInvocation, TypeThreads,
     Callers
<1> QED
  BY <1>1, <1>2, <1>3, <1>4, <1>5, <1>6, <1>7, <1>8, <1>9, <1>10, <1>11, <1>12, <1>13,
     <1>14, <1>15, <1>16, <1>17, <1>18, <1>19, <1>20, <1>21, <1>22, <1>23, <1>24, <1>25,
     <1>26, <1>27, <1>28, <1>29, <1>30, <1>31, <1>32, <1>33, <1>34, <1>35, <1>36, <1>37,
     <1>38, <1>39, <1>40, <1>41, <1>42, <1>43 DEF Next, ClientCall, CallStep,
     EnableStep, DisableStep, DestroyStep, TimerStep, NetStep, ListenerStep

LEMMA KnowsNext ==
  ASSUME IInv, Next
  PROVE  Knows'
<1> USE DEF deviceVars, serviceVars, countVars, protocolVars, callVars, boundVars
<1>0. TypeThreads /\ TypeDevice /\ Callers /\ Knows /\ Shutdown /\ Byebyes
  BY DEF IInv, TypeOK
<1>1. ASSUME NEW a \in Apps, SetEnabled(a)
      PROVE  Knows'
  BY <1>0, <1>1, Distinct DEF SetEnabled, Goto, ClearShutdown, Disabling, TypeThreads,
     Knows, EnablePcs, EnabledPcs, DisablePcs, DeletePcs
<1>2. ASSUME NEW a \in Apps, SetDisabled(a)
      PROVE  Knows'
  BY <1>0, <1>2, Distinct DEF SetDisabled, Goto, Free, AllIdle, StartDisable,
     TypeThreads, TypeDevice, Knows, EnablePcs, EnabledPcs, DisablePcs, DeletePcs
<1>3. ASSUME NEW a \in Apps, Destroy(a)
      PROVE  Knows'
  BY <1>0, <1>3, Distinct DEF Destroy, Goto, StartDisable, TypeThreads, Knows,
     EnablePcs, EnabledPcs, DisablePcs, DeletePcs
<1>4. ASSUME NEW a \in Apps, EnableWait(a)
      PROVE  Knows'
  BY <1>0, <1>4, Distinct DEF EnableWait, Goto, TypeThreads, TypeDevice, Knows,
     Shutdown, EnablePcs, EnabledPcs, DisablePcs, DeletePcs
<1>5. ASSUME NEW a \in Apps, EnableLock(a)
      PROVE  Knows'
  BY <1>0, <1>5, Distinct DEF EnableLock, Goto, ClearShutdown, TypeThreads, Callers,
     Knows, EnablePcs, EnabledPcs, DisablePcs, DeletePcs
<1>6. ASSUME NEW a \in Apps, ProtocolEnable(a)
      PROVE  Knows'
  BY <1>0, <1>6, Distinct DEF ProtocolEnable, Goto, TypeThreads, Callers, Knows,
     EnablePcs, EnabledPcs, DisablePcs, DeletePcs
<1>7. ASSUME NEW a \in Apps, AliveCheck(a)
      PROVE  Knows'
  BY <1>0, <1>7, Distinct DEF AliveCheck, Goto, Free, After, TypeThreads, TypeDevice,
     Knows, EnablePcs, EnabledPcs, DisablePcs, DeletePcs
<1>8. ASSUME NEW a \in Apps, AliveSend(a)
      PROVE  Knows'
  BY <1>0, <1>8, Distinct DEF AliveSend, Goto, Free, RepeatAlive, After, TypeThreads,
     TypeDevice, Callers, Knows, EnablePcs, EnabledPcs, DisablePcs, DeletePcs
<1>9. ASSUME NEW a \in Apps, ServiceEnable(a)
      PROVE  Knows'
  BY <1>0, <1>9, Distinct DEF ServiceEnable, Goto, TypeThreads, Knows, EnablePcs,
     EnabledPcs, DisablePcs, DeletePcs
<1>10. ASSUME NEW a \in Apps, DisableProtocols(a)
      PROVE  Knows'
  BY <1>0, <1>10, Distinct DEF DisableProtocols, Goto, RunDisableComplete,
     ProtocolDisable, TypeThreads, Callers, Knows, EnablePcs, EnabledPcs, DisablePcs,
     DeletePcs
<1>11. ASSUME NEW a \in Apps, ServiceDisable(a)
      PROVE  Knows'
  BY <1>0, <1>11, Distinct DEF ServiceDisable, Goto, TypeThreads, Knows, EnablePcs,
     EnabledPcs, DisablePcs, DeletePcs
<1>12. ASSUME NEW a \in Apps, ServiceWait(a)
      PROVE  Knows'
  BY <1>0, <1>12, Distinct DEF ServiceWait, Goto, TypeThreads, Knows, EnablePcs,
     EnabledPcs, DisablePcs, DeletePcs
<1>13. ASSUME NEW a \in Apps, ShutdownWait(a)
      PROVE  Knows'
  BY <1>0, <1>13, Distinct DEF ShutdownWait, Goto, TypeThreads, TypeDevice, Knows,
     Shutdown, EnablePcs, EnabledPcs, DisablePcs, DeletePcs
<1>14. ASSUME NEW a \in Apps, DeleteTimer(a)
      PROVE  Knows'
  BY <1>0, <1>14, Distinct DEF DeleteTimer, Goto, CallbacksDone, TypeThreads, Knows,
     EnablePcs, EnabledPcs, DisablePcs, DeletePcs
<1>15. ASSUME NEW a \in Apps, DeleteLock(a)
      PROVE  Knows'
  BY <1>0, <1>15, Distinct DEF DeleteLock, Goto, TypeThreads, Knows, EnablePcs,
     EnabledPcs, DisablePcs, DeletePcs
<1>16. ASSUME NEW a \in Apps, DeleteListener(a)
      PROVE  Knows'
  BY <1>0, <1>16, Distinct DEF DeleteListener, Goto, TypeThreads, Knows, EnablePcs,
     EnabledPcs, DisablePcs, DeletePcs
<1>17. ASSUME NEW a \in Apps, DeleteAdapters(a)
      PROVE  Knows'
  BY <1>0, <1>17, Distinct DEF DeleteAdapters, Goto, TypeThreads, Knows, EnablePcs,
     EnabledPcs, DisablePcs, DeletePcs
<1>18. ASSUME NEW a \in Apps, DeleteScheduler(a)
      PROVE  Knows'
  BY <1>0, <1>18, Distinct DEF DeleteScheduler, Goto, CallbacksDone, TypeThreads, Knows,
     EnablePcs, EnabledPcs, DisablePcs, DeletePcs
<1>19. ASSUME NEW a \in Apps, SubnetUpdated(a)
      PROVE  Knows'
  BY <1>0, <1>19, Distinct DEF SubnetUpdated, Goto, Free, After, TypeThreads,
     TypeDevice, Callers, Knows, EnablePcs, EnabledPcs, DisablePcs, DeletePcs
<1>20. ASSUME NEW a \in Apps, DeleteProtocol(a)
      PROVE  Knows'
  BY <1>0, <1>20, Distinct DEF DeleteProtocol, Goto, TypeThreads, Knows, EnablePcs,
     EnabledPcs, DisablePcs, DeletePcs
<1>21. ASSUME NEW a \in Apps, ReleaseDevice(a)
      PROVE  Knows'
  BY <1>0, <1>21, Distinct DEF ReleaseDevice, Goto, TypeThreads, Knows, EnablePcs,
     EnabledPcs, DisablePcs, DeletePcs
<1>22. ASSUME NextMsg
      PROVE  Knows'
  BY <1>0, <1>22, Distinct DEF NextMsg, Goto, Firing, TimerHolds, TypeThreads, Knows
<1>23. ASSUME AliveTimer
      PROVE  Knows'
  BY <1>0, <1>23, Distinct DEF AliveTimer, Goto, Firing, TimerHolds, TypeThreads, Knows
<1>24. ASSUME FireEnd
      PROVE  Knows'
  BY <1>0, <1>24, Distinct DEF FireEnd, Goto, TypeThreads, Knows
<1>25. ASSUME MsgSchedulerComplete
      PROVE  Knows'
  BY <1>0, <1>25, Distinct DEF MsgSchedulerComplete, Goto, Completed, TypeThreads, Knows
<1>26. ASSUME SubnetDisabled
      PROVE  Knows'
  BY <1>0, <1>26, Distinct DEF SubnetDisabled, Goto, TypeThreads, Knows
<1>27. ASSUME ProtocolDisabled
      PROVE  Knows'
  BY <1>0, <1>27, Distinct DEF ProtocolDisabled, Goto, RunDisableComplete, TypeThreads,
     TypeDevice, Knows, Byebyes
<1>28. ASSUME SubnetUpdated("timer")
      PROVE  Knows'
  BY <1>0, <1>28, Distinct DEF SubnetUpdated, Goto, TypeThreads, Knows
<1>29. ASSUME AliveCheck("timer")
      PROVE  Knows'
  BY <1>0, <1>29, Distinct DEF AliveCheck, Goto, TypeThreads, Knows
<1>30. ASSUME AliveSend("timer")
      PROVE  Knows'
  BY <1>0, <1>30, Distinct DEF AliveSend, Goto, RepeatAlive, TypeThreads, Knows
<1>31. ASSUME NetChange
      PROVE  Knows'
  BY <1>0, <1>31, Distinct DEF NetChange, Goto, TypeThreads, Knows
<1>32. ASSUME NetCheck
      PROVE  Knows'
  BY <1>0, <1>32, Distinct DEF NetCheck, Goto, TypeThreads, Knows
<1>33. ASSUME NetStop
      PROVE  Knows'
  BY <1>0, <1>33, Distinct DEF NetStop, Goto, TypeThreads, Knows
<1>34. ASSUME NetDelete
      PROVE  Knows'
  BY <1>0, <1>34, Distinct DEF NetDelete, Goto, TypeThreads, Knows
<1>35. ASSUME NetCancel
      PROVE  Knows'
  BY <1>0, <1>35, Distinct DEF NetCancel, Goto, CallbacksDone, TypeThreads, Knows
<1>36. ASSUME NetUpdate
      PROVE  Knows'
  BY <1>0, <1>36, Distinct DEF NetUpdate, Goto, TypeThreads, Knows
<1>37. ASSUME NEW k \in Searches, Msearch(k)
      PROVE  Knows'
  BY <1>0, <1>37, Distinct DEF Msearch, Goto, TypeThreads, Knows
<1>38. ASSUME SearchCheck
      PROVE  Knows'
  BY <1>0, <1>38, Distinct DEF SearchCheck, Goto, TypeThreads, Knows
<1>39. ASSUME SearchPush
      PROVE  Knows'
  BY <1>0, <1>39, Distinct DEF SearchPush, Goto, TypeThreads, Knows
<1>40. ASSUME SearchLock
      PROVE  Knows'
  BY <1>0, <1>40, Distinct DEF SearchLock, Goto, TypeThreads, Knows
<1>41. ASSUME SearchEnabled
      PROVE  Knows'
  BY <1>0, <1>41, Distinct DEF SearchEnabled, Goto, TypeThreads, Knows
<1>42. ASSUME NEW s \in Sessions, Invoke(s)
      PROVE  Knows'
  BY <1>0, <1>42, Distinct DEF Invoke, Goto, ClearDisabled, TypeThreads, Knows
<1>43. ASSUME NEW s \in Sessions, InvocationCompleted(s)
      PROVE  Knows'
  BY <1>0, <1>43, Distinct DEF InvocationCompleted, Goto, LastInvocation, TypeThreads,
     Knows
<1> QED
  BY <1>1, <1>2, <1>3, <1>4, <1>5, <1>6, <1>7, <1>8, <1>9, <1>10, <1>11, <1>12, <1>13,
     <1>14, <1>15, <1>16, <1>17, <1>18, <1>19, <1>20, <1>21, <1>22, <1>23, <1>24, <1>25,
     <1>26, <1>27, <1>28, <1>29, <1>30, <1>31, <1>32, <1>33, <1>34, <1>35, <1>36, <1>37,
     <1>38, <1>39, <1>40, <1>41, <1>42, <1>43 DEF Next, ClientCall, CallStep,
     EnableStep, DisableStep, DestroyStep, TimerStep, NetStep, ListenerStep

LEMMA ShutdownNext ==
  ASSUME IInv, Next
  PROVE  Shutdown'
<1> USE DEF deviceVars, serviceVars, countVars, protocolVars, callVars, boundVars
<1>0. TypeThreads /\ TypeDevice /\ Callers /\ Knows /\ Shutdown /\ Byebyes
  BY DEF IInv, TypeOK
<1>1. ASSUME NEW a \in Apps, SetEnabled(a)
      PROVE  Shutdown'
  BY <1>0, <1>1, Distinct DEF SetEnabled, Goto, ClearShutdown, Disabling, TypeThreads,
     Shutdown
<1>2. ASSUME NEW a \in Apps, SetDisabled(a)
      PROVE  Shutdown'
  BY <1>0, <1>2, Distinct DEF SetDisabled, Goto, StartDisable, TypeThreads, TypeDevice,
     Shutdown
<1>3. ASSUME NEW a \in Apps, Destroy(a)
      PROVE  Shutdown'
  BY <1>0, <1>3, Distinct DEF Destroy, Goto, StartDisable, TypeThreads, Shutdown
<1>4. ASSUME NEW a \in Apps, EnableWait(a)
      PROVE  Shutdown'
  BY <1>0, <1>4, Distinct DEF EnableWait, Goto, TypeThreads, Shutdown
<1>5. ASSUME NEW a \in Apps, EnableLock(a)
      PROVE  Shutdown'
  BY <1>0, <1>5, Distinct DEF EnableLock, Goto, ClearShutdown, TypeThreads, Knows,
     Shutdown
<1>6. ASSUME NEW a \in Apps, ProtocolEnable(a)
      PROVE  Shutdown'
  BY <1>0, <1>6, Distinct DEF ProtocolEnable, Goto, TypeThreads, Shutdown
<1>7. ASSUME NEW a \in Apps, AliveCheck(a)
      PROVE  Shutdown'
  BY <1>0, <1>7, Distinct DEF AliveCheck, Goto, TypeThreads, Shutdown
<1>8. ASSUME NEW a \in Apps, AliveSend(a)
      PROVE  Shutdown'
  BY <1>0, <1>8, Distinct DEF AliveSend, Goto, RepeatAlive, TypeThreads, Shutdown
<1>9. ASSUME NEW a \in Apps, ServiceEnable(a)
      PROVE  Shutdown'
  BY <1>0, <1>9, Distinct DEF ServiceEnable, Goto, TypeThreads, Shutdown
<1>10. ASSUME NEW a \in Apps, DisableProtocols(a)
      PROVE  Shutdown'
  BY <1>0, <1>10, Distinct DEF DisableProtocols, Goto, RunDisableComplete,
     ProtocolDisable, TypeThreads, TypeDevice, Knows, Shutdown
<1>11. ASSUME NEW a \in Apps, ServiceDisable(a)
      PROVE  Shutdown'
  BY <1>0, <1>11, Distinct DEF ServiceDisable, Goto, TypeThreads, Shutdown
<1>12. ASSUME NEW a \in Apps, ServiceWait(a)
      PROVE  Shutdown'
  BY <1>0, <1>12, Distinct DEF ServiceWait, Goto, TypeThreads, Shutdown
<1>13. ASSUME NEW a \in Apps, ShutdownWait(a)
      PROVE  Shutdown'
  BY <1>0, <1>13, Distinct DEF ShutdownWait, Goto, TypeThreads, Shutdown
<1>14. ASSUME NEW a \in Apps, DeleteTimer(a)
      PROVE  Shutdown'
  BY <1>0, <1>14, Distinct DEF DeleteTimer, Goto, CallbacksDone, TypeThreads, Shutdown
<1>15. ASSUME NEW a \in Apps, DeleteLock(a)
      PROVE  Shutdown'
  BY <1>0, <1>15, Distinct DEF DeleteLock, Goto, TypeThreads, Shutdown
<1>16. ASSUME NEW a \in Apps, DeleteListener(a)
      PROVE  Shutdown'
  BY <1>0, <1>16, Distinct DEF DeleteListener, Goto, TypeThreads, Shutdown
<1>17. ASSUME NEW a \in Apps, DeleteAdapters(a)
      PROVE  Shutdown'
  BY <1>0, <1>17, Distinct DEF DeleteAdapters, Goto, TypeThreads, Shutdown
<1>18. ASSUME NEW a \in Apps, DeleteScheduler(a)
      PROVE  Shutdown'
  BY <1>0, <1>18, Distinct DEF DeleteScheduler, Goto, CallbacksDone, TypeThreads, Shutdown
<1>19. ASSUME NEW a \in Apps, SubnetUpdated(a)
      PROVE  Shutdown'
  BY <1>0, <1>19, Distinct DEF SubnetUpdated, Goto, TypeThreads, Shutdown
<1>20. ASSUME NEW a \in Apps, DeleteProtocol(a)
      PROVE  Shutdown'
  BY <1>0, <1>20, Distinct DEF DeleteProtocol, Goto, TypeThreads, Shutdown
<1>21. ASSUME NEW a \in Apps, ReleaseDevice(a)
      PROVE  Shutdown'
  BY <1>0, <1>21, Distinct DEF ReleaseDevice, Goto, TypeThreads, Shutdown
<1>22. ASSUME NextMsg
      PROVE  Shutdown'
  BY <1>0, <1>22, Distinct DEF NextMsg, Goto, Firing, TimerHolds, TypeThreads, Shutdown
<1>23. ASSUME AliveTimer
      PROVE  Shutdown'
  BY <1>0, <1>23, Distinct DEF AliveTimer, Goto, Firing, TimerHolds, TypeThreads, Shutdown
<1>24. ASSUME FireEnd
      PROVE  Shutdown'
  BY <1>0, <1>24, Distinct DEF FireEnd, Goto, TypeThreads, Shutdown
<1>25. ASSUME MsgSchedulerComplete
      PROVE  Shutdown'
  BY <1>0, <1>25, Distinct DEF MsgSchedulerComplete, Goto, Completed, TypeThreads,
     Shutdown
<1>26. ASSUME SubnetDisabled
      PROVE  Shutdown'
  BY <1>0, <1>26, Distinct DEF SubnetDisabled, Goto, TypeThreads, Shutdown
<1>27. ASSUME ProtocolDisabled
      PROVE  Shutdown'
  BY <1>0, <1>27, Distinct DEF ProtocolDisabled, Goto, RunDisableComplete, TypeThreads,
     TypeDevice, Shutdown, Byebyes
<1>28. ASSUME SubnetUpdated("timer")
      PROVE  Shutdown'
  BY <1>0, <1>28, Distinct DEF SubnetUpdated, Goto, TypeThreads, Shutdown
<1>29. ASSUME AliveCheck("timer")
      PROVE  Shutdown'
  BY <1>0, <1>29, Distinct DEF AliveCheck, Goto, TypeThreads, Shutdown
<1>30. ASSUME AliveSend("timer")
      PROVE  Shutdown'
  BY <1>0, <1>30, Distinct DEF AliveSend, Goto, RepeatAlive, TypeThreads, Shutdown
<1>31. ASSUME NetChange
      PROVE  Shutdown'
  BY <1>0, <1>31, Distinct DEF NetChange, Goto, TypeThreads, Shutdown
<1>32. ASSUME NetCheck
      PROVE  Shutdown'
  BY <1>0, <1>32, Distinct DEF NetCheck, Goto, TypeThreads, Shutdown
<1>33. ASSUME NetStop
      PROVE  Shutdown'
  BY <1>0, <1>33, Distinct DEF NetStop, Goto, TypeThreads, Shutdown
<1>34. ASSUME NetDelete
      PROVE  Shutdown'
  BY <1>0, <1>34, Distinct DEF NetDelete, Goto, TypeThreads, Shutdown
<1>35. ASSUME NetCancel
      PROVE  Shutdown'
  BY <1>0, <1>35, Distinct DEF NetCancel, Goto, CallbacksDone, TypeThreads, Shutdown
<1>36. ASSUME NetUpdate
      PROVE  Shutdown'
  BY <1>0, <1>36, Distinct DEF NetUpdate, Goto, TypeThreads, Shutdown
<1>37. ASSUME NEW k \in Searches, Msearch(k)
      PROVE  Shutdown'
  BY <1>0, <1>37, Distinct DEF Msearch, Goto, TypeThreads, Shutdown
<1>38. ASSUME SearchCheck
      PROVE  Shutdown'
  BY <1>0, <1>38, Distinct DEF SearchCheck, Goto, TypeThreads, Shutdown
<1>39. ASSUME SearchPush
      PROVE  Shutdown'
  BY <1>0, <1>39, Distinct DEF SearchPush, Goto, TypeThreads, Shutdown
<1>40. ASSUME SearchLock
      PROVE  Shutdown'
  BY <1>0, <1>40, Distinct DEF SearchLock, Goto, TypeThreads, Shutdown
<1>41. ASSUME SearchEnabled
      PROVE  Shutdown'
  BY <1>0, <1>41, Distinct DEF SearchEnabled, Goto, TypeThreads, Shutdown
<1>42. ASSUME NEW s \in Sessions, Invoke(s)
      PROVE  Shutdown'
  BY <1>0, <1>42, Distinct DEF Invoke, Goto, ClearDisabled, TypeThreads, Shutdown
<1>43. ASSUME NEW s \in Sessions, InvocationCompleted(s)
      PROVE  Shutdown'
  BY <1>0, <1>43, Distinct DEF InvocationCompleted, Goto, LastInvocation, TypeThreads,
     Shutdown
<1> QED
  BY <1>1, <1>2, <1>3, <1>4, <1>5, <1>6, <1>7, <1>8, <1>9, <1>10, <1>11, <1>12, <1>13,
     <1>14, <1>15, <1>16, <1>17, <1>18, <1>19, <1>20, <1>21, <1>22, <1>23, <1>24, <1>25,
     <1>26, <1>27, <1>28, <1>29, <1>30, <1>31, <1>32, <1>33, <1>34, <1>35, <1>36, <1>37,
     <1>38, <1>39, <1>40, <1>41, <1>42, <1>43 DEF Next, ClientCall, CallStep,
     EnableStep, DisableStep, DestroyStep, TimerStep, NetStep, ListenerStep

LEMMA LocksNext ==
  ASSUME IInv, Next
  PROVE  Locks'
<1> USE DEF deviceVars, serviceVars, countVars, protocolVars, callVars, boundVars
<1>0. TypeThreads /\ Locks
  BY DEF IInv, TypeOK
<1>1. ASSUME NEW a \in Apps, SetEnabled(a)
      PROVE  Locks'
  BY <1>0, <1>1, Distinct DEF SetEnabled, Goto, ClearShutdown, Disabling, TypeThreads,
     Locks
<1>2. ASSUME NEW a \in Apps, SetDisabled(a)
      PROVE  Locks'
  BY <1>0, <1>2, Distinct DEF SetDisabled, Goto, StartDisable, TypeThreads, Locks
<1>3. ASSUME NEW a \in Apps, Destroy(a)
      PROVE  Locks'
  BY <1>0, <1>3, Distinct DEF Destroy, Goto, AllIdle, Free, Take, StartDisable,
     TypeThreads, Locks
<1>4. ASSUME NEW a \in Apps, EnableWait(a)
      PROVE  Locks'
  BY <1>0, <1>4, Distinct DEF EnableWait, Goto, TypeThreads, Locks
<1>5. ASSUME NEW a \in Apps, EnableLock(a)
      PROVE  Locks'
  BY <1>0, <1>5, Distinct DEF EnableLock, Goto, ClearShutdown, TypeThreads, Locks
<1>6. ASSUME NEW a \in Apps, ProtocolEnable(a)
      PROVE  Locks'
  BY <1>0, <1>6, Distinct DEF ProtocolEnable, Goto, Free, TypeThreads, Locks
<1>7. ASSUME NEW a \in Apps, AliveCheck(a)
      PROVE  Locks'
  BY <1>0, <1>7, Distinct DEF AliveCheck, Goto, TypeThreads, Locks
<1>8. ASSUME NEW a \in Apps, AliveSend(a)
      PROVE  Locks'
  BY <1>0, <1>8, Distinct DEF AliveSend, Goto, RepeatAlive, TypeThreads, Locks
<1>9. ASSUME NEW a \in Apps, ServiceEnable(a)
      PROVE  Locks'
  BY <1>0, <1>9, Distinct DEF ServiceEnable, Goto, TypeThreads, Locks
<1>10. ASSUME NEW a \in Apps, DisableProtocols(a)
      PROVE  Locks'
  BY <1>0, <1>10, Distinct DEF DisableProtocols, Goto, RunDisableComplete,
     ProtocolDisable, TypeThreads, Locks
<1>11. ASSUME NEW a \in Apps, ServiceDisable(a)
      PROVE  Locks'
  BY <1>0, <1>11, Distinct DEF ServiceDisable, Goto, TypeThreads, Locks
<1>12. ASSUME NEW a \in Apps, ServiceWait(a)
      PROVE  Locks'
  BY <1>0, <1>12, Distinct DEF ServiceWait, Goto, Release, TypeThreads, Locks
<1>13. ASSUME NEW a \in Apps, ShutdownWait(a)
      PROVE  Locks'
  BY <1>0, <1>13, Distinct DEF ShutdownWait, Goto, TypeThreads, Locks
<1>14. ASSUME NEW a \in Apps, DeleteTimer(a)
      PROVE  Locks'
  BY <1>0, <1>14, Distinct DEF DeleteTimer, Goto, CallbacksDone, TypeThreads, Locks
<1>15. ASSUME NEW a \in Apps, DeleteLock(a)
      PROVE  Locks'
  BY <1>0, <1>15, Distinct DEF DeleteLock, Goto, Take, TypeThreads, Locks
<1>16. ASSUME NEW a \in Apps, DeleteListener(a)
      PROVE  Locks'
  BY <1>0, <1>16, Distinct DEF DeleteListener, Goto, Free, TypeThreads, Locks
<1>17. ASSUME NEW a \in Apps, DeleteAdapters(a)
      PROVE  Locks'
  BY <1>0, <1>17, Distinct DEF DeleteAdapters, Goto, Free, Release, TypeThreads, Locks
<1>18. ASSUME NEW a \in Apps, DeleteScheduler(a)
      PROVE  Locks'
  BY <1>0, <1>18, Distinct DEF DeleteScheduler, Goto, CallbacksDone, TypeThreads, Locks
<1>19. ASSUME NEW a \in Apps, SubnetUpdated(a)
      PROVE  Locks'
  BY <1>0, <1>19, Distinct DEF SubnetUpdated, Goto, TypeThreads, Locks
<1>20. ASSUME NEW a \in Apps, DeleteProtocol(a)
      PROVE  Locks'
  BY <1>0, <1>20, Distinct DEF DeleteProtocol, Goto, TypeThreads, Locks
<1>21. ASSUME NEW a \in Apps, ReleaseDevice(a)
      PROVE  Locks'
  BY <1>0, <1>21, Distinct DEF ReleaseDevice, Goto, Free, TypeThreads, Locks
<1>22. ASSUME NextMsg
      PROVE  Locks'
  BY <1>0, <1>22, Distinct DEF NextMsg, Goto, Firing, TimerHolds, TypeThreads, Locks
<1>23. ASSUME AliveTimer
      PROVE  Locks'
  BY <1>0, <1>23, Distinct DEF AliveTimer, Goto, Firing, TimerHolds, TypeThreads, Locks
<1>24. ASSUME FireEnd
      PROVE  Locks'
  BY <1>0, <1>24, Distinct DEF FireEnd, Goto, Release, TypeThreads, Locks
<1>25. ASSUME MsgSchedulerComplete
      PROVE  Locks'
  BY <1>0, <1>25, Distinct DEF MsgSchedulerComplete, Goto, Completed, TypeThreads, Locks
<1>26. ASSUME SubnetDisabled
      PROVE  Locks'
  BY <1>0, <1>26, Distinct DEF SubnetDisabled, Goto, Free, TypeThreads, Locks
<1>27. ASSUME ProtocolDisabled
      PROVE  Locks'
  BY <1>0, <1>27, Distinct DEF ProtocolDisabled, Goto, RunDisableComplete, TypeThreads,
     Locks
<1>28. ASSUME SubnetUpdated("timer")
      PROVE  Locks'
  BY <1>0, <1>28, Distinct DEF SubnetUpdated, Goto, Free, After, TypeThreads, Locks
<1>29. ASSUME AliveCheck("timer")
      PROVE  Locks'
  BY <1>0, <1>29, Distinct DEF AliveCheck, Goto, Free, After, TypeThreads, Locks
<1>30. ASSUME AliveSend("timer")
      PROVE  Locks'
  BY <1>0, <1>30, Distinct DEF AliveSend, Goto, Free, RepeatAlive, After, TypeThreads,
     Locks
<1>31. ASSUME NetChange
      PROVE  Locks'
  BY <1>0, <1>31, Distinct DEF NetChange, Goto, Take, TypeThreads, Locks
<1>32. ASSUME NetCheck
      PROVE  Locks'
  BY <1>0, <1>32, Distinct DEF NetCheck, Goto, Free, Release, TypeThreads, Locks
<1>33. ASSUME NetStop
      PROVE  Locks'
  BY <1>0, <1>33, Distinct DEF NetStop, Goto, Free, TypeThreads, Locks
<1>34. ASSUME NetDelete
      PROVE  Locks'
  BY <1>0, <1>34, Distinct DEF NetDelete, Goto, Free, TypeThreads, Locks
<1>35. ASSUME NetCancel
      PROVE  Locks'
  BY <1>0, <1>35, Distinct DEF NetCancel, Goto, CallbacksDone, TypeThreads, Locks
<1>36. ASSUME NetUpdate
      PROVE  Locks'
  BY <1>0, <1>36, Distinct DEF NetUpdate, Goto, Free, Release, TypeThreads, Locks
<1>37. ASSUME NEW k \in Searches, Msearch(k)
      PROVE  Locks'
  BY <1>0, <1>37, Distinct DEF Msearch, Goto, Take, TypeThreads, Locks
<1>38. ASSUME SearchCheck
      PROVE  Locks'
  BY <1>0, <1>38, Distinct DEF SearchCheck, Goto, Free, Release, TypeThreads, Locks
<1>39. ASSUME SearchPush
      PROVE  Locks'
  BY <1>0, <1>39, Distinct DEF SearchPush, Goto, Free, Release, TypeThreads, Locks
<1>40. ASSUME SearchLock
      PROVE  Locks'
  BY <1>0, <1>40, Distinct DEF SearchLock, Goto, Take, TypeThreads, Locks
<1>41. ASSUME SearchEnabled
      PROVE  Locks'
  BY <1>0, <1>41, Distinct DEF SearchEnabled, Goto, Free, TypeThreads, Locks
<1>42. ASSUME NEW s \in Sessions, Invoke(s)
      PROVE  Locks'
  BY <1>0, <1>42, Distinct DEF Invoke, Goto, ClearDisabled, TypeThreads, Locks
<1>43. ASSUME NEW s \in Sessions, InvocationCompleted(s)
      PROVE  Locks'
  BY <1>0, <1>43, Distinct DEF InvocationCompleted, Goto, LastInvocation, TypeThreads,
     Locks
<1> QED
  BY <1>1, <1>2, <1>3, <1>4, <1>5, <1>6, <1>7, <1>8, <1>9, <1>10, <1>11, <1>12, <1>13,
     <1>14, <1>15, <1>16, <1>17, <1>18, <1>19, <1>20, <1>21, <1>22, <1>23, <1>24, <1>25,
     <1>26, <1>27, <1>28, <1>29, <1>30, <1>31, <1>32, <1>33, <1>34, <1>35, <1>36, <1>37,
     <1>38, <1>39, <1>40, <1>41, <1>42, <1>43 DEF Next, ClientCall, CallStep,
     EnableStep, DisableStep, DestroyStep, TimerStep, NetStep, ListenerStep

LEMMA EndedNext ==
  ASSUME IInv, Next
  PROVE  Ended'
<1> USE DEF deviceVars, serviceVars, countVars, protocolVars, callVars, boundVars
<1>0. /\ TypeThreads /\ TypeProtocol /\ Callers /\ Knows /\ Shutdown /\ Byebyes /\ Locks
      /\ Ended
  BY DEF IInv, TypeOK
<1>c. Completing
  BY DEF IInv
<1>1. ASSUME NEW a \in Apps, SetEnabled(a)
      PROVE  Ended'
  BY <1>0, <1>1, Distinct, PushCounts DEF SetEnabled, Goto, ClearShutdown, Disabling,
     TypeThreads, Ended
<1>2. ASSUME NEW a \in Apps, SetDisabled(a)
      PROVE  Ended'
  BY <1>0, <1>2, Distinct, PushCounts DEF SetDisabled, Goto, AllIdle, StartDisable,
     TypeThreads, TypeProtocol, Locks, Ended
<1>3. ASSUME NEW a \in Apps, Destroy(a)
      PROVE  Ended'
  BY <1>0, <1>3, Distinct, PushCounts DEF Destroy, Goto, StartDisable, TypeThreads,
     TypeProtocol, Callers, Locks, Ended, EnablePcs, EnabledPcs, DisablePcs, DeletePcs
<1>4. ASSUME NEW a \in Apps, EnableWait(a)
      PROVE  Ended'
  BY <1>0, <1>4, Distinct, PushCounts DEF EnableWait, Goto, TypeThreads, Ended, DeletePcs
<1>5. ASSUME NEW a \in Apps, EnableLock(a)
      PROVE  Ended'
  BY <1>0, <1>5, Distinct, PushCounts DEF EnableLock, Goto, ClearShutdown, TypeThreads,
     Ended, DeletePcs
<1>6. ASSUME NEW a \in Apps, ProtocolEnable(a)
      PROVE  Ended'
  BY <1>0, <1>6, Distinct, PushCounts DEF ProtocolEnable, Goto, TypeThreads,
     TypeProtocol, Callers, Locks, Ended, EnablePcs, EnabledPcs, DisablePcs, DeletePcs
<1>7. ASSUME NEW a \in Apps, AliveCheck(a)
      PROVE  Ended'
  BY <1>0, <1>7, Distinct, PushCounts DEF AliveCheck, Goto, Free, After, TypeThreads,
     TypeProtocol, Locks, Ended, DeletePcs
<1>8. ASSUME NEW a \in Apps, AliveSend(a)
      PROVE  Ended'
  BY <1>0, <1>8, Distinct, PushCounts DEF AliveSend, Goto, Free, RepeatAlive, After,
     TypeThreads, TypeProtocol, Callers, Locks, Ended, EnablePcs, EnabledPcs,
     DisablePcs, DeletePcs
<1>9. ASSUME NEW a \in Apps, ServiceEnable(a)
      PROVE  Ended'
  BY <1>0, <1>9, Distinct, PushCounts DEF ServiceEnable, Goto, TypeThreads, Ended,
     DeletePcs
<1>10. ASSUME NEW a \in Apps, DisableProtocols(a)
      PROVE  Ended'
  BY <1>0, <1>10, Distinct, PushCounts DEF DisableProtocols, Goto, RunDisableComplete,
     ProtocolDisable, TypeThreads, TypeProtocol, Callers, Locks, Ended, EnablePcs,
     EnabledPcs, DisablePcs, DeletePcs
<1>11. ASSUME NEW a \in Apps, ServiceDisable(a)
      PROVE  Ended'
  BY <1>0, <1>11, Distinct, PushCounts DEF ServiceDisable, Goto, TypeThreads, Ended,
     DeletePcs
<1>12. ASSUME NEW a \in Apps, ServiceWait(a)
      PROVE  Ended'
  BY <1>0, <1>12, Distinct, PushCounts DEF ServiceWait, Goto, TypeThreads, Ended,
     DeletePcs
<1>13. ASSUME NEW a \in Apps, ShutdownWait(a)
      PROVE  Ended'
  BY <1>0, <1>13, Distinct, PushCounts DEF ShutdownWait, Goto, TypeThreads, Ended
<1>14. ASSUME NEW a \in Apps, DeleteTimer(a)
      PROVE  Ended'
  BY <1>0, <1>14, Distinct, PushCounts DEF DeleteTimer, Goto, CallbacksDone, Free,
     TypeThreads, TypeProtocol, Locks, Ended
<1>15. ASSUME NEW a \in Apps, DeleteLock(a)
      PROVE  Ended'
  BY <1>0, <1>15, Distinct, PushCounts DEF DeleteLock, Goto, TypeThreads, Ended, DeletePcs
<1>16. ASSUME NEW a \in Apps, DeleteListener(a)
      PROVE  Ended'
  BY <1>0, <1>16, Distinct, PushCounts DEF DeleteListener, Goto, Free, TypeThreads,
     TypeProtocol, Locks, Ended, DeletePcs
<1>17. ASSUME NEW a \in Apps, DeleteAdapters(a)
      PROVE  Ended'
  BY <1>0, <1>17, Distinct, PushCounts DEF DeleteAdapters, Goto, Free, Release,
     TypeThreads, TypeProtocol, Locks, Ended, DeletePcs
<1>18. ASSUME NEW a \in Apps, DeleteScheduler(a)
      PROVE  Ended'
  BY <1>0, <1>18, Distinct, PushCounts DEF DeleteScheduler, Goto, CallbacksDone,
     TypeThreads, Ended, DeletePcs
<1>19. ASSUME NEW a \in Apps, SubnetUpdated(a)
      PROVE  Ended'
  BY <1>0, <1>19, Distinct, PushCounts DEF SubnetUpdated, Goto, Free, After,
     TypeThreads, TypeProtocol, Locks, Ended, DeletePcs
<1>20. ASSUME NEW a \in Apps, DeleteProtocol(a)
      PROVE  Ended'
  <2>1. ASSUME NEW r \in Scheduler
        PROVE  iMsgSchedulers'[r] = 0
    <3>1. r.kind \in Kinds /\ iMsgSchedulers[r] \in Nat
      BY <1>0 DEF Scheduler, TypeProtocol
    <3>2. InList(iMsgSchedulers, r.kind) = {} /\ iMsgSchedulers' = iMsgSchedulers
      BY <1>20, <3>1 DEF DeleteProtocol
    <3> QED
      BY <3>1, <3>2 DEF InList
  <2> QED
    BY <1>0, <1>20, <2>1, Distinct DEF DeleteProtocol, Goto, TypeThreads, Ended, DeletePcs
<1>21. ASSUME NEW a \in Apps, ReleaseDevice(a)
      PROVE  Ended'
  BY <1>0, <1>21, Distinct, PushCounts DEF ReleaseDevice, Goto, TypeThreads, Ended,
     DeletePcs
<1>22. ASSUME NextMsg
      PROVE  Ended'
  BY <1>0, <1>22, Distinct, PushCounts DEF NextMsg, Goto, Firing, TimerHolds,
     TypeThreads, Ended
<1>23. ASSUME AliveTimer
      PROVE  Ended'
  BY <1>0, <1>23, Distinct, PushCounts DEF AliveTimer, Goto, Firing, TimerHolds,
     TypeThreads, Ended
<1>24. ASSUME FireEnd
      PROVE  Ended'
  BY <1>0, <1>24, Distinct, PushCounts DEF FireEnd, Goto, TypeThreads, Ended
<1>25. ASSUME MsgSchedulerComplete
      PROVE  Ended'
  <2>1. iMsgSchedulers[Over(fired)] > 0 /\ Over(fired) \in Scheduler
    BY <1>0, <1>c, <1>25, Markers DEF MsgSchedulerComplete, Completing, TypeProtocol
  <2>2. \A a \in Apps : destroyer = a => pc[a] \notin {"releaseDevice", "gone"}
    BY <1>0, <2>1 DEF Ended
  <2>3. /\ \A a \in Apps : pc'[a] = pc[a]
        /\ pc'["net"] = pc["net"] /\ pc'["listener"] = pc["listener"]
        /\ pc'["timer"] # "aliveSend"
        /\ UNCHANGED <<destroyer, listening, iAliveTimer, protocol>>
    BY <1>0, <1>25, Distinct DEF MsgSchedulerComplete, Goto, Completed, TypeThreads
  <2> QED
    BY <1>0, <2>2, <2>3 DEF Ended
<1>26. ASSUME SubnetDisabled
      PROVE  Ended'
  BY <1>0, <1>26, Distinct, PushCounts DEF SubnetDisabled, Goto, TypeThreads, Ended
<1>27. ASSUME ProtocolDisabled
      PROVE  Ended'
  BY <1>0, <1>27, Distinct, PushCounts DEF ProtocolDisabled, Goto, RunDisableComplete,
     TypeThreads, Ended
<1>28. ASSUME SubnetUpdated("timer")
      PROVE  Ended'
  BY <1>0, <1>28, Distinct, PushCounts DEF SubnetUpdated, Goto, After, TypeThreads,
     TypeProtocol, Locks, Ended
<1>29. ASSUME AliveCheck("timer")
      PROVE  Ended'
  BY <1>0, <1>29, Distinct, PushCounts DEF AliveCheck, Goto, Free, After, TypeThreads,
     TypeProtocol, Knows, Locks, Ended
<1>30. ASSUME AliveSend("timer")
      PROVE  Ended'
  BY <1>0, <1>30, Distinct, PushCounts DEF AliveSend, Goto, RepeatAlive, TypeThreads,
     Ended, DeletePcs
<1>31. ASSUME NetChange
      PROVE  Ended'
  BY <1>0, <1>31, Distinct, PushCounts DEF NetChange, Goto, TypeThreads, Ended
<1>32. ASSUME NetCheck
      PROVE  Ended'
  BY <1>0, <1>32, Distinct, PushCounts DEF NetCheck, Goto, TypeThreads, Ended
<1>33. ASSUME NetStop
      PROVE  Ended'
  BY <1>0, <1>33, Distinct, PushCounts DEF NetStop, Goto, TypeThreads, Ended, DeletePcs
<1>34. ASSUME NetDelete
      PROVE  Ended'
  BY <1>0, <1>34, Distinct, PushCounts DEF NetDelete, Goto, TypeThreads, Ended
<1>35. ASSUME NetCancel
      PROVE  Ended'
  BY <1>0, <1>35, Distinct, PushCounts DEF NetCancel, Goto, CallbacksDone, TypeThreads,
     Ended
<1>36. ASSUME NetUpdate
      PROVE  Ended'
  BY <1>0, <1>36, Distinct, PushCounts DEF NetUpdate, Goto, TypeThreads, Ended, DeletePcs
<1>37. ASSUME NEW k \in Searches, Msearch(k)
      PROVE  Ended'
  BY <1>0, <1>37, Distinct, PushCounts DEF Msearch, Goto, TypeThreads, Ended
<1>38. ASSUME SearchCheck
      PROVE  Ended'
  BY <1>0, <1>38, Distinct, PushCounts DEF SearchCheck, Goto, TypeThreads, Ended
<1>39. ASSUME SearchPush
      PROVE  Ended'
  BY <1>0, <1>39, Distinct, PushCounts DEF SearchPush, Goto, TypeThreads, Ended
<1>40. ASSUME SearchLock
      PROVE  Ended'
  BY <1>0, <1>40, Distinct, PushCounts DEF SearchLock, Goto, TypeThreads, Ended
<1>41. ASSUME SearchEnabled
      PROVE  Ended'
  BY <1>0, <1>41, Distinct, PushCounts DEF SearchEnabled, Goto, TypeThreads, Ended
<1>42. ASSUME NEW s \in Sessions, Invoke(s)
      PROVE  Ended'
  BY <1>0, <1>42, Distinct, PushCounts DEF Invoke, Goto, ClearDisabled, TypeThreads, Ended
<1>43. ASSUME NEW s \in Sessions, InvocationCompleted(s)
      PROVE  Ended'
  BY <1>0, <1>43, Distinct, PushCounts DEF InvocationCompleted, Goto, LastInvocation,
     TypeThreads, Ended
<1> QED
  BY <1>1, <1>2, <1>3, <1>4, <1>5, <1>6, <1>7, <1>8, <1>9, <1>10, <1>11, <1>12, <1>13,
     <1>14, <1>15, <1>16, <1>17, <1>18, <1>19, <1>20, <1>21, <1>22, <1>23, <1>24, <1>25,
     <1>26, <1>27, <1>28, <1>29, <1>30, <1>31, <1>32, <1>33, <1>34, <1>35, <1>36, <1>37,
     <1>38, <1>39, <1>40, <1>41, <1>42, <1>43 DEF Next, ClientCall, CallStep,
     EnableStep, DisableStep, DestroyStep, TimerStep, NetStep, ListenerStep

LEMMA CompletingNext ==
  ASSUME IInv, Next
  PROVE  Completing'
<1> USE DEF deviceVars, serviceVars, countVars, protocolVars, callVars, boundVars
<1>0. TypeThreads /\ TypeProtocol /\ Locks /\ Completing
  BY DEF IInv, TypeOK
<1>1. ASSUME NEW a \in Apps, SetEnabled(a)
      PROVE  Completing'
  BY <1>0, <1>1, Distinct DEF SetEnabled, Goto, ClearShutdown, Disabling, TypeThreads,
     Completing, Over, Push, New, StopAll, Drop, Scheduler, Kinds
<1>2. ASSUME NEW a \in Apps, SetDisabled(a)
      PROVE  Completing'
  BY <1>0, <1>2, Distinct DEF SetDisabled, Goto, StartDisable, TypeThreads, Completing,
     Over, Push, New, StopAll, Drop, Scheduler, Kinds
<1>3. ASSUME NEW a \in Apps, Destroy(a)
      PROVE  Completing'
  BY <1>0, <1>3, Distinct DEF Destroy, Goto, StartDisable, TypeThreads, Completing,
     Over, Push, New, StopAll, Drop, Scheduler, Kinds
<1>4. ASSUME NEW a \in Apps, EnableWait(a)
      PROVE  Completing'
  BY <1>0, <1>4, Distinct DEF EnableWait, Goto, TypeThreads, Completing, Over, Push,
     New, StopAll, Drop, Scheduler, Kinds
<1>5. ASSUME NEW a \in Apps, EnableLock(a)
      PROVE  Completing'
  BY <1>0, <1>5, Distinct DEF EnableLock, Goto, ClearShutdown, TypeThreads, Completing,
     Over, Push, New, StopAll, Drop, Scheduler, Kinds
<1>6. ASSUME NEW a \in Apps, ProtocolEnable(a)
      PROVE  Completing'
  BY <1>0, <1>6, Distinct DEF ProtocolEnable, Goto, TypeThreads, Completing, Over, Push,
     New, StopAll, Drop, Scheduler, Kinds
<1>7. ASSUME NEW a \in Apps, AliveCheck(a)
      PROVE  Completing'
  BY <1>0, <1>7, Distinct DEF AliveCheck, Goto, TypeThreads, Completing, Over, Push,
     New, StopAll, Drop, Scheduler, Kinds
<1>8. ASSUME NEW a \in Apps, AliveSend(a)
      PROVE  Completing'
  BY <1>0, <1>8, Distinct DEF AliveSend, Goto, RepeatAlive, TypeThreads, Completing,
     Over, Push, New, StopAll, Drop, Scheduler, Kinds
<1>9. ASSUME NEW a \in Apps, ServiceEnable(a)
      PROVE  Completing'
  BY <1>0, <1>9, Distinct DEF ServiceEnable, Goto, TypeThreads, Completing, Over, Push,
     New, StopAll, Drop, Scheduler, Kinds
<1>10. ASSUME NEW a \in Apps, DisableProtocols(a)
      PROVE  Completing'
  <2>1. \/ iMsgSchedulers' = iMsgSchedulers
        \/ iMsgSchedulers' = Push(StopAll(iMsgSchedulers), "byebye", Subnets)
    BY <1>10 DEF DisableProtocols, ProtocolDisable
  <2>2. pc'["timer"] = pc["timer"] /\ fired' = fired
    BY <1>0, <1>10, Distinct DEF DisableProtocols, Goto, TypeThreads
  <2>3. iMsgSchedulers \in List /\ StopAll(iMsgSchedulers) \in List /\ "byebye" \in Kinds
        /\ Subnets \in Nat /\ fired \in Kinds
    BY <1>0, StopCounts, DeviceBoundAssumption DEF TypeProtocol, List, Kinds
  <2> QED
    BY <1>0, <2>1, <2>2, <2>3, OverStays DEF Completing
<1>11. ASSUME NEW a \in Apps, ServiceDisable(a)
      PROVE  Completing'
  BY <1>0, <1>11, Distinct DEF ServiceDisable, Goto, TypeThreads, Completing, Over,
     Push, New, StopAll, Drop, Scheduler, Kinds
<1>12. ASSUME NEW a \in Apps, ServiceWait(a)
      PROVE  Completing'
  BY <1>0, <1>12, Distinct DEF ServiceWait, Goto, TypeThreads, Completing, Over, Push,
     New, StopAll, Drop, Scheduler, Kinds
<1>13. ASSUME NEW a \in Apps, ShutdownWait(a)
      PROVE  Completing'
  BY <1>0, <1>13, Distinct DEF ShutdownWait, Goto, TypeThreads, Completing, Over, Push,
     New, StopAll, Drop, Scheduler, Kinds
<1>14. ASSUME NEW a \in Apps, DeleteTimer(a)
      PROVE  Completing'
  BY <1>0, <1>14, Distinct DEF DeleteTimer, Goto, CallbacksDone, TypeThreads,
     Completing, Over, Push, New, StopAll, Drop, Scheduler, Kinds
<1>15. ASSUME NEW a \in Apps, DeleteLock(a)
      PROVE  Completing'
  BY <1>0, <1>15, Distinct DEF DeleteLock, Goto, TypeThreads, Completing, Over, Push,
     New, StopAll, Drop, Scheduler, Kinds
<1>16. ASSUME NEW a \in Apps, DeleteListener(a)
      PROVE  Completing'
  BY <1>0, <1>16, Distinct DEF DeleteListener, Goto, TypeThreads, Completing, Over,
     Push, New, StopAll, Drop, Scheduler, Kinds
<1>17. ASSUME NEW a \in Apps, DeleteAdapters(a)
      PROVE  Completing'
  BY <1>0, <1>17, Distinct DEF DeleteAdapters, Goto, TypeThreads, Completing, Over,
     Push, New, StopAll, Drop, Scheduler, Kinds
<1>18. ASSUME NEW a \in Apps, DeleteScheduler(a)
      PROVE  Completing'
  BY <1>0, <1>18, Distinct DEF DeleteScheduler, Goto, CallbacksDone, Free, TypeThreads,
     TypeProtocol, Locks, Completing, Over, Push, New, StopAll, Drop, Scheduler, Kinds
<1>19. ASSUME NEW a \in Apps, SubnetUpdated(a)
      PROVE  Completing'
  BY <1>0, <1>19, Distinct DEF SubnetUpdated, Goto, TypeThreads, Completing, Over, Push,
     New, StopAll, Drop, Scheduler, Kinds
<1>20. ASSUME NEW a \in Apps, DeleteProtocol(a)
      PROVE  Completing'
  BY <1>0, <1>20, Distinct DEF DeleteProtocol, Goto, TypeThreads, Completing, Over,
     Push, New, StopAll, Drop, Scheduler, Kinds
<1>21. ASSUME NEW a \in Apps, ReleaseDevice(a)
      PROVE  Completing'
  BY <1>0, <1>21, Distinct DEF ReleaseDevice, Goto, TypeThreads, Completing, Over, Push,
     New, StopAll, Drop, Scheduler, Kinds
<1>22. ASSUME NextMsg
      PROVE  Completing'
  <2>1. PICK r \in Scheduler :
          /\ iMsgSchedulers[r] > 0 /\ r.left > 0
          /\ \/ /\ iMsgSchedulers' = [Drop(iMsgSchedulers, r) EXCEPT ![Over(r.kind)] = @ + 1]
                /\ fired' = r.kind
             \/ pc' = [pc EXCEPT !["timer"] = "fire"]
    BY <1>22 DEF NextMsg, Goto
  <2>2. CASE pc' = [pc EXCEPT !["timer"] = "fire"]
    BY <1>0, <2>2, Distinct DEF Completing, TypeThreads
  <2>3. CASE /\ iMsgSchedulers' = [Drop(iMsgSchedulers, r) EXCEPT ![Over(r.kind)] = @ + 1]
             /\ fired' = r.kind
    <3>1. Over(r.kind) \in Scheduler /\ Over(r.kind) # r
      BY <2>1, Markers DEF Scheduler, Over
    <3>2. iMsgSchedulers'[Over(r.kind)] = iMsgSchedulers[Over(r.kind)] + 1
      BY <1>0, <2>3, <3>1 DEF Drop, TypeProtocol
    <3>3. iMsgSchedulers[Over(r.kind)] \in Nat
      BY <1>0, <3>1 DEF TypeProtocol
    <3> QED
      BY <2>3, <3>2, <3>3 DEF Completing
  <2> QED
    BY <2>1, <2>2, <2>3
<1>23. ASSUME AliveTimer
      PROVE  Completing'
  BY <1>0, <1>23, Distinct DEF AliveTimer, Goto, Firing, TimerHolds, TypeThreads,
     Completing, Over, Push, New, StopAll, Drop, Scheduler, Kinds
<1>24. ASSUME FireEnd
      PROVE  Completing'
  BY <1>0, <1>24, Distinct DEF FireEnd, Goto, TypeThreads, Completing, Over, Push, New,
     StopAll, Drop, Scheduler, Kinds
<1>25. ASSUME MsgSchedulerComplete
      PROVE  Completing'
  BY <1>0, <1>25, Distinct DEF MsgSchedulerComplete, Goto, Completed, TypeThreads,
     Completing, Over, Push, New, StopAll, Drop, Scheduler, Kinds
<1>26. ASSUME SubnetDisabled
      PROVE  Completing'
  BY <1>0, <1>26, Distinct DEF SubnetDisabled, Goto, TypeThreads, Completing, Over,
     Push, New, StopAll, Drop, Scheduler, Kinds
<1>27. ASSUME ProtocolDisabled
      PROVE  Completing'
  BY <1>0, <1>27, Distinct DEF ProtocolDisabled, Goto, RunDisableComplete, TypeThreads,
     Completing, Over, Push, New, StopAll, Drop, Scheduler, Kinds
<1>28. ASSUME SubnetUpdated("timer")
      PROVE  Completing'
  BY <1>0, <1>28, Distinct DEF SubnetUpdated, Goto, Free, After, TypeThreads,
     TypeProtocol, Locks, Completing, Over, Push, New, StopAll, Drop, Scheduler, Kinds
<1>29. ASSUME AliveCheck("timer")
      PROVE  Completing'
  BY <1>0, <1>29, Distinct DEF AliveCheck, Goto, Free, After, TypeThreads, TypeProtocol,
     Locks, Completing, Over, Push, New, StopAll, Drop, Scheduler, Kinds
<1>30. ASSUME AliveSend("timer")
      PROVE  Completing'
  BY <1>0, <1>30, Distinct DEF AliveSend, Goto, Free, RepeatAlive, After, TypeThreads,
     TypeProtocol, Locks, Completing, Over, Push, New, StopAll, Drop, Scheduler, Kinds
<1>31. ASSUME NetChange
      PROVE  Completing'
  BY <1>0, <1>31, Distinct DEF NetChange, Goto, TypeThreads, Completing, Over, Push,
     New, StopAll, Drop, Scheduler, Kinds
<1>32. ASSUME NetCheck
      PROVE  Completing'
  BY <1>0, <1>32, Distinct DEF NetCheck, Goto, TypeThreads, Completing, Over, Push, New,
     StopAll, Drop, Scheduler, Kinds
<1>33. ASSUME NetStop
      PROVE  Completing'
  <2>1. iMsgSchedulers' = StopAll(iMsgSchedulers)
    BY <1>33 DEF NetStop
  <2>2. pc'["timer"] = pc["timer"] /\ fired' = fired
    BY <1>0, <1>33, Distinct DEF NetStop, Goto, TypeThreads
  <2> QED
    BY <1>0, <2>1, <2>2, OverStays DEF Completing, TypeProtocol, List
<1>34. ASSUME NetDelete
      PROVE  Completing'
  BY <1>0, <1>34, Distinct DEF NetDelete, Goto, TypeThreads, Completing, Over, Push,
     New, StopAll, Drop, Scheduler, Kinds
<1>35. ASSUME NetCancel
      PROVE  Completing'
  BY <1>0, <1>35, Distinct DEF NetCancel, Goto, CallbacksDone, TypeThreads, Completing,
     Over, Push, New, StopAll, Drop, Scheduler, Kinds
<1>36. ASSUME NetUpdate
      PROVE  Completing'
  BY <1>0, <1>36, Distinct DEF NetUpdate, Goto, TypeThreads, Completing, Over, Push,
     New, StopAll, Drop, Scheduler, Kinds
<1>37. ASSUME NEW k \in Searches, Msearch(k)
      PROVE  Completing'
  BY <1>0, <1>37, Distinct DEF Msearch, Goto, TypeThreads, Completing, Over, Push, New,
     StopAll, Drop, Scheduler, Kinds
<1>38. ASSUME SearchCheck
      PROVE  Completing'
  BY <1>0, <1>38, Distinct DEF SearchCheck, Goto, TypeThreads, Completing, Over, Push,
     New, StopAll, Drop, Scheduler, Kinds
<1>39. ASSUME SearchPush
      PROVE  Completing'
  BY <1>0, <1>39, Distinct DEF SearchPush, Goto, TypeThreads, Completing, Over, Push,
     New, StopAll, Drop, Scheduler, Kinds
<1>40. ASSUME SearchLock
      PROVE  Completing'
  BY <1>0, <1>40, Distinct DEF SearchLock, Goto, TypeThreads, Completing, Over, Push,
     New, StopAll, Drop, Scheduler, Kinds
<1>41. ASSUME SearchEnabled
      PROVE  Completing'
  BY <1>0, <1>41, Distinct DEF SearchEnabled, Goto, TypeThreads, Completing, Over, Push,
     New, StopAll, Drop, Scheduler, Kinds
<1>42. ASSUME NEW s \in Sessions, Invoke(s)
      PROVE  Completing'
  BY <1>0, <1>42, Distinct DEF Invoke, Goto, ClearDisabled, TypeThreads, Completing,
     Over, Push, New, StopAll, Drop, Scheduler, Kinds
<1>43. ASSUME NEW s \in Sessions, InvocationCompleted(s)
      PROVE  Completing'
  BY <1>0, <1>43, Distinct DEF InvocationCompleted, Goto, LastInvocation, TypeThreads,
     Completing, Over, Push, New, StopAll, Drop, Scheduler, Kinds
<1> QED
  BY <1>1, <1>2, <1>3, <1>4, <1>5, <1>6, <1>7, <1>8, <1>9, <1>10, <1>11, <1>12, <1>13,
     <1>14, <1>15, <1>16, <1>17, <1>18, <1>19, <1>20, <1>21, <1>22, <1>23, <1>24, <1>25,
     <1>26, <1>27, <1>28, <1>29, <1>30, <1>31, <1>32, <1>33, <1>34, <1>35, <1>36, <1>37,
     <1>38, <1>39, <1>40, <1>41, <1>42, <1>43 DEF Next, ClientCall, CallStep,
     EnableStep, DisableStep, DestroyStep, TimerStep, NetStep, ListenerStep

LEMMA Running ==
  ASSUME TypeThreads, TypeService, Invocations, NEW s \in Sessions
  PROVE  /\ (pc[s] = "idle" /\ pc' = [pc EXCEPT ![s] = "running"]
              /\ iCurrentInvocationCount' = iCurrentInvocationCount + 1) => Invocations'
         /\ (pc[s] = "running" /\ pc' = [pc EXCEPT ![s] = "idle"]
              /\ iCurrentInvocationCount' = iCurrentInvocationCount - 1) => Invocations'
         /\ pc[s] = "running" => iCurrentInvocationCount > 0
<1> DEFINE R == {x \in Sessions : pc[x] = "running"}
<1>1. IsFiniteSet(R) /\ Cardinality(R) \in Nat
  BY PoolAssumption, FS_Subset, FS_CardinalityType
<1>2. ASSUME NEW l, pc' = [pc EXCEPT ![s] = l]
      PROVE  R' \ {s} = R \ {s} /\ (s \in R' <=> l = "running")
  BY <1>2, Distinct DEF TypeThreads
<1>3. s \in R <=> pc[s] = "running"
  OBVIOUS
<1>4. iCurrentInvocationCount = Cardinality(R) /\ (Invocations' <=> iCurrentInvocationCount' = Cardinality(R'))
  BY DEF Invocations
<1> HIDE DEF R
<1>5. ASSUME NEW l, pc' = [pc EXCEPT ![s] = l]
      PROVE  Cardinality(R') = Cardinality(R) + (IF l = "running" THEN 1 ELSE 0)
                                              - (IF pc[s] = "running" THEN 1 ELSE 0)
  <2>1. R \ {s} = R' \ {s} /\ (s \in R' <=> l = "running")
    BY <1>2, <1>5
  <2> QED
    BY <1>1, <1>3, <2>1, CardinalityStep
<1>6. pc[s] = "running" => Cardinality(R) > 0
  BY <1>1, <1>3, FS_EmptySet
<1>7. ASSUME pc[s] = "idle", pc' = [pc EXCEPT ![s] = "running"],
             iCurrentInvocationCount' = iCurrentInvocationCount + 1
      PROVE  Invocations'
  <2>1. Cardinality(R') = Cardinality(R) + 1 - (IF pc[s] = "running" THEN 1 ELSE 0)
    BY <1>5, <1>7
  <2> QED
    BY <1>1, <1>4, <1>7, <2>1
<1>8. ASSUME pc[s] = "running", pc' = [pc EXCEPT ![s] = "idle"],
             iCurrentInvocationCount' = iCurrentInvocationCount - 1
      PROVE  Invocations'
  <2>1. Cardinality(R') = Cardinality(R) + (IF "idle" = "running" THEN 1 ELSE 0) - 1
    BY <1>5, <1>8
  <2> QED
    BY <1>1, <1>4, <1>8, <2>1
<1>9. pc[s] = "running" => iCurrentInvocationCount > 0
  BY <1>1, <1>4, <1>6
<1> QED
  BY <1>7, <1>8, <1>9

LEMMA InvocationsNext ==
  ASSUME IInv, Next
  PROVE  Invocations'
<1> USE DEF deviceVars, serviceVars, countVars, protocolVars, callVars, boundVars
<1>0. TypeThreads /\ TypeService /\ Invocations
  BY DEF IInv, TypeOK
<1>1. ASSUME NEW a \in Apps, SetEnabled(a)
      PROVE  Invocations'
  <2>1. (\A s \in Sessions : pc'[s] = pc[s]) /\ iCurrentInvocationCount' = iCurrentInvocationCount
    BY <1>0, <1>1, Distinct DEF SetEnabled, Goto, TypeThreads
  <2> QED
    BY <1>0, <2>1 DEF Invocations
<1>2. ASSUME NEW a \in Apps, SetDisabled(a)
      PROVE  Invocations'
  BY <1>0, <1>2, Distinct DEF SetDisabled, Goto, StartDisable, TypeThreads, Invocations
<1>3. ASSUME NEW a \in Apps, Destroy(a)
      PROVE  Invocations'
  BY <1>0, <1>3, Distinct DEF Destroy, Goto, StartDisable, TypeThreads, Invocations
<1>4. ASSUME NEW a \in Apps, EnableWait(a)
      PROVE  Invocations'
  BY <1>0, <1>4, Distinct DEF EnableWait, Goto, TypeThreads, TypeService, Invocations
<1>5. ASSUME NEW a \in Apps, EnableLock(a)
      PROVE  Invocations'
  BY <1>0, <1>5, Distinct DEF EnableLock, Goto, ClearShutdown, TypeThreads, Invocations
<1>6. ASSUME NEW a \in Apps, ProtocolEnable(a)
      PROVE  Invocations'
  BY <1>0, <1>6, Distinct DEF ProtocolEnable, Goto, TypeThreads, Invocations
<1>7. ASSUME NEW a \in Apps, AliveCheck(a)
      PROVE  Invocations'
  BY <1>0, <1>7, Distinct DEF AliveCheck, Goto, TypeThreads, Invocations
<1>8. ASSUME NEW a \in Apps, AliveSend(a)
      PROVE  Invocations'
  BY <1>0, <1>8, Distinct DEF AliveSend, Goto, RepeatAlive, TypeThreads, Invocations
<1>9. ASSUME NEW a \in Apps, ServiceEnable(a)
      PROVE  Invocations'
  BY <1>0, <1>9, Distinct DEF ServiceEnable, Goto, TypeThreads, TypeService, Invocations
<1>10. ASSUME NEW a \in Apps, DisableProtocols(a)
      PROVE  Invocations'
  BY <1>0, <1>10, Distinct DEF DisableProtocols, Goto, RunDisableComplete,
     ProtocolDisable, TypeThreads, Invocations
<1>11. ASSUME NEW a \in Apps, ServiceDisable(a)
      PROVE  Invocations'
  BY <1>0, <1>11, Distinct DEF ServiceDisable, Goto, TypeThreads, TypeService, Invocations
<1>12. ASSUME NEW a \in Apps, ServiceWait(a)
      PROVE  Invocations'
  BY <1>0, <1>12, Distinct DEF ServiceWait, Goto, TypeThreads, Invocations
<1>13. ASSUME NEW a \in Apps, ShutdownWait(a)
      PROVE  Invocations'
  BY <1>0, <1>13, Distinct DEF ShutdownWait, Goto, TypeThreads, TypeService, Invocations
<1>14. ASSUME NEW a \in Apps, DeleteTimer(a)
      PROVE  Invocations'
  BY <1>0, <1>14, Distinct DEF DeleteTimer, Goto, CallbacksDone, TypeThreads, Invocations
<1>15. ASSUME NEW a \in Apps, DeleteLock(a)
      PROVE  Invocations'
  BY <1>0, <1>15, Distinct DEF DeleteLock, Goto, TypeThreads, Invocations
<1>16. ASSUME NEW a \in Apps, DeleteListener(a)
      PROVE  Invocations'
  BY <1>0, <1>16, Distinct DEF DeleteListener, Goto, TypeThreads, Invocations
<1>17. ASSUME NEW a \in Apps, DeleteAdapters(a)
      PROVE  Invocations'
  BY <1>0, <1>17, Distinct DEF DeleteAdapters, Goto, TypeThreads, Invocations
<1>18. ASSUME NEW a \in Apps, DeleteScheduler(a)
      PROVE  Invocations'
  BY <1>0, <1>18, Distinct DEF DeleteScheduler, Goto, CallbacksDone, TypeThreads,
     Invocations
<1>19. ASSUME NEW a \in Apps, SubnetUpdated(a)
      PROVE  Invocations'
  BY <1>0, <1>19, Distinct DEF SubnetUpdated, Goto, TypeThreads, Invocations
<1>20. ASSUME NEW a \in Apps, DeleteProtocol(a)
      PROVE  Invocations'
  BY <1>0, <1>20, Distinct DEF DeleteProtocol, Goto, TypeThreads, TypeService, Invocations
<1>21. ASSUME NEW a \in Apps, ReleaseDevice(a)
      PROVE  Invocations'
  BY <1>0, <1>21, Distinct DEF ReleaseDevice, Goto, TypeThreads, Invocations
<1>22. ASSUME NextMsg
      PROVE  Invocations'
  BY <1>0, <1>22, Distinct DEF NextMsg, Goto, Firing, TimerHolds, TypeThreads, Invocations
<1>23. ASSUME AliveTimer
      PROVE  Invocations'
  BY <1>0, <1>23, Distinct DEF AliveTimer, Goto, Firing, TimerHolds, TypeThreads,
     Invocations
<1>24. ASSUME FireEnd
      PROVE  Invocations'
  BY <1>0, <1>24, Distinct DEF FireEnd, Goto, TypeThreads, Invocations
<1>25. ASSUME MsgSchedulerComplete
      PROVE  Invocations'
  BY <1>0, <1>25, Distinct DEF MsgSchedulerComplete, Goto, Completed, TypeThreads,
     Invocations
<1>26. ASSUME SubnetDisabled
      PROVE  Invocations'
  BY <1>0, <1>26, Distinct DEF SubnetDisabled, Goto, TypeThreads, Invocations
<1>27. ASSUME ProtocolDisabled
      PROVE  Invocations'
  BY <1>0, <1>27, Distinct DEF ProtocolDisabled, Goto, RunDisableComplete, TypeThreads,
     Invocations
<1>28. ASSUME SubnetUpdated("timer")
      PROVE  Invocations'
  BY <1>0, <1>28, Distinct DEF SubnetUpdated, Goto, TypeThreads, Invocations
<1>29. ASSUME AliveCheck("timer")
      PROVE  Invocations'
  BY <1>0, <1>29, Distinct DEF AliveCheck, Goto, TypeThreads, Invocations
<1>30. ASSUME AliveSend("timer")
      PROVE  Invocations'
  BY <1>0, <1>30, Distinct DEF AliveSend, Goto, RepeatAlive, TypeThreads, Invocations
<1>31. ASSUME NetChange
      PROVE  Invocations'
  BY <1>0, <1>31, Distinct DEF NetChange, Goto, TypeThreads, Invocations
<1>32. ASSUME NetCheck
      PROVE  Invocations'
  BY <1>0, <1>32, Distinct DEF NetCheck, Goto, TypeThreads, Invocations
<1>33. ASSUME NetStop
      PROVE  Invocations'
  BY <1>0, <1>33, Distinct DEF NetStop, Goto, TypeThreads, Invocations
<1>34. ASSUME NetDelete
      PROVE  Invocations'
  BY <1>0, <1>34, Distinct DEF NetDelete, Goto, TypeThreads, Invocations
<1>35. ASSUME NetCancel
      PROVE  Invocations'
  BY <1>0, <1>35, Distinct DEF NetCancel, Goto, CallbacksDone, TypeThreads, Invocations
<1>36. ASSUME NetUpdate
      PROVE  Invocations'
  BY <1>0, <1>36, Distinct DEF NetUpdate, Goto, TypeThreads, Invocations
<1>37. ASSUME NEW k \in Searches, Msearch(k)
      PROVE  Invocations'
  BY <1>0, <1>37, Distinct DEF Msearch, Goto, TypeThreads, Invocations
<1>38. ASSUME SearchCheck
      PROVE  Invocations'
  BY <1>0, <1>38, Distinct DEF SearchCheck, Goto, TypeThreads, Invocations
<1>39. ASSUME SearchPush
      PROVE  Invocations'
  BY <1>0, <1>39, Distinct DEF SearchPush, Goto, TypeThreads, Invocations
<1>40. ASSUME SearchLock
      PROVE  Invocations'
  BY <1>0, <1>40, Distinct DEF SearchLock, Goto, TypeThreads, Invocations
<1>41. ASSUME SearchEnabled
      PROVE  Invocations'
  BY <1>0, <1>41, Distinct DEF SearchEnabled, Goto, TypeThreads, Invocations
<1>42. ASSUME NEW s \in Sessions, Invoke(s)
      PROVE  Invocations'
  <2>1. iCurrentInvocationCount' = iCurrentInvocationCount + 1 /\ pc[s] = "idle"
        /\ pc' = [pc EXCEPT ![s] = "running"]
    BY <1>42 DEF Invoke, Goto
  <2> QED
    BY <1>0, <2>1, Running
<1>43. ASSUME NEW s \in Sessions, InvocationCompleted(s)
      PROVE  Invocations'
  <2>1. iCurrentInvocationCount' = iCurrentInvocationCount - 1 /\ pc[s] = "running"
        /\ pc' = [pc EXCEPT ![s] = "idle"]
    BY <1>43 DEF InvocationCompleted, Goto
  <2> QED
    BY <1>0, <2>1, Running
<1> QED
  BY <1>1, <1>2, <1>3, <1>4, <1>5, <1>6, <1>7, <1>8, <1>9, <1>10, <1>11, <1>12, <1>13,
     <1>14, <1>15, <1>16, <1>17, <1>18, <1>19, <1>20, <1>21, <1>22, <1>23, <1>24, <1>25,
     <1>26, <1>27, <1>28, <1>29, <1>30, <1>31, <1>32, <1>33, <1>34, <1>35, <1>36, <1>37,
     <1>38, <1>39, <1>40, <1>41, <1>42, <1>43 DEF Next, ClientCall, CallStep,
     EnableStep, DisableStep, DestroyStep, TimerStep, NetStep, ListenerStep

LEMMA ByebyesNext ==
  ASSUME IInv, Next
  PROVE  Byebyes'
<1> USE DEF deviceVars, serviceVars, countVars, protocolVars, callVars, boundVars
<1>0. TypeThreads /\ TypeDevice /\ TypeProtocol /\ Callers /\ Knows /\ Shutdown /\ Byebyes
  BY DEF IInv, TypeOK
<1>1. ASSUME NEW a \in Apps, SetEnabled(a)
      PROVE  Byebyes'
  BY <1>0, <1>1, Distinct DEF SetEnabled, Goto, ClearShutdown, Disabling, TypeThreads,
     TypeProtocol, TypeDevice, Shutdown, Byebyes
<1>2. ASSUME NEW a \in Apps, SetDisabled(a)
      PROVE  Byebyes'
  BY <1>0, <1>2, Distinct DEF SetDisabled, Goto, StartDisable, TypeThreads, Byebyes
<1>3. ASSUME NEW a \in Apps, Destroy(a)
      PROVE  Byebyes'
  BY <1>0, <1>3, Distinct DEF Destroy, Goto, StartDisable, TypeThreads, Byebyes
<1>4. ASSUME NEW a \in Apps, EnableWait(a)
      PROVE  Byebyes'
  BY <1>0, <1>4, Distinct DEF EnableWait, Goto, TypeThreads, Byebyes
<1>5. ASSUME NEW a \in Apps, EnableLock(a)
      PROVE  Byebyes'
  BY <1>0, <1>5, Distinct DEF EnableLock, Goto, ClearShutdown, TypeThreads,
     TypeProtocol, Knows, Byebyes
<1>6. ASSUME NEW a \in Apps, ProtocolEnable(a)
      PROVE  Byebyes'
  BY <1>0, <1>6, Distinct DEF ProtocolEnable, Goto, TypeThreads, Byebyes
<1>7. ASSUME NEW a \in Apps, AliveCheck(a)
      PROVE  Byebyes'
  BY <1>0, <1>7, Distinct DEF AliveCheck, Goto, TypeThreads, TypeProtocol, Callers,
     Knows, Byebyes, EnablePcs, EnabledPcs, DisablePcs, DeletePcs
<1>8. ASSUME NEW a \in Apps, AliveSend(a)
      PROVE  Byebyes'
  BY <1>0, <1>8, Distinct DEF AliveSend, Goto, RepeatAlive, TypeThreads, TypeProtocol,
     Callers, Knows, Byebyes, EnablePcs, EnabledPcs, DisablePcs, DeletePcs
<1>9. ASSUME NEW a \in Apps, ServiceEnable(a)
      PROVE  Byebyes'
  BY <1>0, <1>9, Distinct DEF ServiceEnable, Goto, TypeThreads, Byebyes
<1>10. ASSUME NEW a \in Apps, DisableProtocols(a)
      PROVE  Byebyes'
  BY <1>0, <1>10, Distinct DEF DisableProtocols, Goto, RunDisableComplete,
     ProtocolDisable, TypeThreads, TypeProtocol, TypeDevice, Callers, Shutdown, Byebyes
<1>11. ASSUME NEW a \in Apps, ServiceDisable(a)
      PROVE  Byebyes'
  BY <1>0, <1>11, Distinct DEF ServiceDisable, Goto, TypeThreads, Byebyes
<1>12. ASSUME NEW a \in Apps, ServiceWait(a)
      PROVE  Byebyes'
  BY <1>0, <1>12, Distinct DEF ServiceWait, Goto, TypeThreads, Byebyes
<1>13. ASSUME NEW a \in Apps, ShutdownWait(a)
      PROVE  Byebyes'
  BY <1>0, <1>13, Distinct DEF ShutdownWait, Goto, TypeThreads, Byebyes
<1>14. ASSUME NEW a \in Apps, DeleteTimer(a)
      PROVE  Byebyes'
  BY <1>0, <1>14, Distinct DEF DeleteTimer, Goto, CallbacksDone, TypeThreads, Byebyes
<1>15. ASSUME NEW a \in Apps, DeleteLock(a)
      PROVE  Byebyes'
  BY <1>0, <1>15, Distinct DEF DeleteLock, Goto, TypeThreads, Byebyes
<1>16. ASSUME NEW a \in Apps, DeleteListener(a)
      PROVE  Byebyes'
  BY <1>0, <1>16, Distinct DEF DeleteListener, Goto, TypeThreads, Byebyes
<1>17. ASSUME NEW a \in Apps, DeleteAdapters(a)
      PROVE  Byebyes'
  BY <1>0, <1>17, Distinct DEF DeleteAdapters, Goto, TypeThreads, Byebyes
<1>18. ASSUME NEW a \in Apps, DeleteScheduler(a)
      PROVE  Byebyes'
  BY <1>0, <1>18, Distinct DEF DeleteScheduler, Goto, CallbacksDone, TypeThreads, Byebyes
<1>19. ASSUME NEW a \in Apps, SubnetUpdated(a)
      PROVE  Byebyes'
  BY <1>0, <1>19, Distinct DEF SubnetUpdated, Goto, TypeThreads, TypeProtocol, Callers,
     Knows, Byebyes, EnablePcs, EnabledPcs, DisablePcs, DeletePcs
<1>20. ASSUME NEW a \in Apps, DeleteProtocol(a)
      PROVE  Byebyes'
  BY <1>0, <1>20, Distinct DEF DeleteProtocol, Goto, TypeThreads, Byebyes
<1>21. ASSUME NEW a \in Apps, ReleaseDevice(a)
      PROVE  Byebyes'
  BY <1>0, <1>21, Distinct DEF ReleaseDevice, Goto, TypeThreads, Byebyes
<1>22. ASSUME NextMsg
      PROVE  Byebyes'
  BY <1>0, <1>22, Distinct DEF NextMsg, Goto, Firing, TimerHolds, TypeThreads, Byebyes
<1>23. ASSUME AliveTimer
      PROVE  Byebyes'
  BY <1>0, <1>23, Distinct DEF AliveTimer, Goto, Firing, TimerHolds, TypeThreads, Byebyes
<1>24. ASSUME FireEnd
      PROVE  Byebyes'
  BY <1>0, <1>24, Distinct DEF FireEnd, Goto, TypeThreads, Byebyes
<1>25. ASSUME MsgSchedulerComplete
      PROVE  Byebyes'
  BY <1>0, <1>25, Distinct DEF MsgSchedulerComplete, Goto, Completed, TypeThreads, Byebyes
<1>26. ASSUME SubnetDisabled
      PROVE  Byebyes'
  BY <1>0, <1>26, Distinct DEF SubnetDisabled, Goto, TypeThreads, TypeProtocol, Byebyes
<1>27. ASSUME ProtocolDisabled
      PROVE  Byebyes'
  BY <1>0, <1>27, Distinct DEF ProtocolDisabled, Goto, RunDisableComplete, TypeThreads,
     Byebyes
<1>28. ASSUME SubnetUpdated("timer")
      PROVE  Byebyes'
  BY <1>0, <1>28, Distinct DEF SubnetUpdated, Goto, Free, After, TypeThreads,
     TypeProtocol, TypeDevice, Byebyes
<1>29. ASSUME AliveCheck("timer")
      PROVE  Byebyes'
  BY <1>0, <1>29, Distinct DEF AliveCheck, Goto, Free, After, TypeThreads, TypeProtocol,
     TypeDevice, Byebyes
<1>30. ASSUME AliveSend("timer")
      PROVE  Byebyes'
  BY <1>0, <1>30, Distinct DEF AliveSend, Goto, Free, RepeatAlive, After, TypeThreads,
     TypeProtocol, TypeDevice, Byebyes
<1>31. ASSUME NetChange
      PROVE  Byebyes'
  BY <1>0, <1>31, Distinct DEF NetChange, Goto, TypeThreads, Byebyes
<1>32. ASSUME NetCheck
      PROVE  Byebyes'
  BY <1>0, <1>32, Distinct DEF NetCheck, Goto, TypeThreads, Byebyes
<1>33. ASSUME NetStop
      PROVE  Byebyes'
  BY <1>0, <1>33, Distinct DEF NetStop, Goto, TypeThreads, Byebyes
<1>34. ASSUME NetDelete
      PROVE  Byebyes'
  BY <1>0, <1>34, Distinct DEF NetDelete, Goto, TypeThreads, Byebyes
<1>35. ASSUME NetCancel
      PROVE  Byebyes'
  BY <1>0, <1>35, Distinct DEF NetCancel, Goto, CallbacksDone, TypeThreads, Byebyes
<1>36. ASSUME NetUpdate
      PROVE  Byebyes'
  BY <1>0, <1>36, Distinct DEF NetUpdate, Goto, TypeThreads, Byebyes
<1>37. ASSUME NEW k \in Searches, Msearch(k)
      PROVE  Byebyes'
  BY <1>0, <1>37, Distinct DEF Msearch, Goto, TypeThreads, Byebyes
<1>38. ASSUME SearchCheck
      PROVE  Byebyes'
  BY <1>0, <1>38, Distinct DEF SearchCheck, Goto, TypeThreads, Byebyes
<1>39. ASSUME SearchPush
      PROVE  Byebyes'
  BY <1>0, <1>39, Distinct DEF SearchPush, Goto, TypeThreads, Byebyes
<1>40. ASSUME SearchLock
      PROVE  Byebyes'
  BY <1>0, <1>40, Distinct DEF SearchLock, Goto, TypeThreads, Byebyes
<1>41. ASSUME SearchEnabled
      PROVE  Byebyes'
  BY <1>0, <1>41, Distinct DEF SearchEnabled, Goto, TypeThreads, Byebyes
<1>42. ASSUME NEW s \in Sessions, Invoke(s)
      PROVE  Byebyes'
  BY <1>0, <1>42, Distinct DEF Invoke, Goto, ClearDisabled, TypeThreads, Byebyes
<1>43. ASSUME NEW s \in Sessions, InvocationCompleted(s)
      PROVE  Byebyes'
  BY <1>0, <1>43, Distinct DEF InvocationCompleted, Goto, LastInvocation, TypeThreads,
     Byebyes
<1> QED
  BY <1>1, <1>2, <1>3, <1>4, <1>5, <1>6, <1>7, <1>8, <1>9, <1>10, <1>11, <1>12, <1>13,
     <1>14, <1>15, <1>16, <1>17, <1>18, <1>19, <1>20, <1>21, <1>22, <1>23, <1>24, <1>25,
     <1>26, <1>27, <1>28, <1>29, <1>30, <1>31, <1>32, <1>33, <1>34, <1>35, <1>36, <1>37,
     <1>38, <1>39, <1>40, <1>41, <1>42, <1>43 DEF Next, ClientCall, CallStep,
     EnableStep, DisableStep, DestroyStep, TimerStep, NetStep, ListenerStep

LEMMA TypeDeviceNext ==
  ASSUME IInv, Next
  PROVE  TypeDevice'
<1> USE DEF deviceVars, serviceVars, countVars, protocolVars, callVars, boundVars
<1>0. TypeThreads /\ TypeDevice /\ Callers /\ Knows /\ Shutdown /\ Byebyes
  BY DEF IInv, TypeOK
<1>1. ASSUME NEW a \in Apps, SetEnabled(a)
      PROVE  TypeDevice'
  BY <1>0, <1>1, Distinct DEF SetEnabled, Goto, ClearShutdown, Disabling, TypeThreads,
     TypeDevice
<1>2. ASSUME NEW a \in Apps, SetDisabled(a)
      PROVE  TypeDevice'
  BY <1>0, <1>2, Distinct DEF SetDisabled, Goto, StartDisable, TypeThreads, TypeDevice
<1>3. ASSUME NEW a \in Apps, Destroy(a)
      PROVE  TypeDevice'
  BY <1>0, <1>3, Distinct DEF Destroy, Goto, StartDisable, TypeThreads, TypeDevice
<1>4. ASSUME NEW a \in Apps, EnableWait(a)
      PROVE  TypeDevice'
  BY <1>0, <1>4, Distinct DEF EnableWait, Goto, TypeThreads, TypeDevice
<1>5. ASSUME NEW a \in Apps, EnableLock(a)
      PROVE  TypeDevice'
  BY <1>0, <1>5, Distinct DEF EnableLock, Goto, ClearShutdown, TypeThreads, TypeDevice
<1>6. ASSUME NEW a \in Apps, ProtocolEnable(a)
      PROVE  TypeDevice'
  BY <1>0, <1>6, Distinct DEF ProtocolEnable, Goto, TypeThreads, TypeDevice
<1>7. ASSUME NEW a \in Apps, AliveCheck(a)
      PROVE  TypeDevice'
  BY <1>0, <1>7, Distinct DEF AliveCheck, Goto, TypeThreads, TypeDevice
<1>8. ASSUME NEW a \in Apps, AliveSend(a)
      PROVE  TypeDevice'
  BY <1>0, <1>8, Distinct DEF AliveSend, Goto, RepeatAlive, TypeThreads, TypeDevice
<1>9. ASSUME NEW a \in Apps, ServiceEnable(a)
      PROVE  TypeDevice'
  BY <1>0, <1>9, Distinct DEF ServiceEnable, Goto, TypeThreads, TypeDevice
<1>10. ASSUME NEW a \in Apps, DisableProtocols(a)
      PROVE  TypeDevice'
  BY <1>0, <1>10, Distinct DEF DisableProtocols, Goto, RunDisableComplete,
     ProtocolDisable, TypeThreads, TypeDevice, Knows, Shutdown
<1>11. ASSUME NEW a \in Apps, ServiceDisable(a)
      PROVE  TypeDevice'
  BY <1>0, <1>11, Distinct DEF ServiceDisable, Goto, TypeThreads, TypeDevice
<1>12. ASSUME NEW a \in Apps, ServiceWait(a)
      PROVE  TypeDevice'
  BY <1>0, <1>12, Distinct DEF ServiceWait, Goto, TypeThreads, TypeDevice
<1>13. ASSUME NEW a \in Apps, ShutdownWait(a)
      PROVE  TypeDevice'
  BY <1>0, <1>13, Distinct DEF ShutdownWait, Goto, TypeThreads, TypeDevice
<1>14. ASSUME NEW a \in Apps, DeleteTimer(a)
      PROVE  TypeDevice'
  BY <1>0, <1>14, Distinct DEF DeleteTimer, Goto, CallbacksDone, TypeThreads, TypeDevice
<1>15. ASSUME NEW a \in Apps, DeleteLock(a)
      PROVE  TypeDevice'
  BY <1>0, <1>15, Distinct DEF DeleteLock, Goto, TypeThreads, TypeDevice
<1>16. ASSUME NEW a \in Apps, DeleteListener(a)
      PROVE  TypeDevice'
  BY <1>0, <1>16, Distinct DEF DeleteListener, Goto, TypeThreads, TypeDevice
<1>17. ASSUME NEW a \in Apps, DeleteAdapters(a)
      PROVE  TypeDevice'
  BY <1>0, <1>17, Distinct DEF DeleteAdapters, Goto, TypeThreads, TypeDevice
<1>18. ASSUME NEW a \in Apps, DeleteScheduler(a)
      PROVE  TypeDevice'
  BY <1>0, <1>18, Distinct DEF DeleteScheduler, Goto, CallbacksDone, TypeThreads,
     TypeDevice
<1>19. ASSUME NEW a \in Apps, SubnetUpdated(a)
      PROVE  TypeDevice'
  BY <1>0, <1>19, Distinct DEF SubnetUpdated, Goto, TypeThreads, TypeDevice
<1>20. ASSUME NEW a \in Apps, DeleteProtocol(a)
      PROVE  TypeDevice'
  BY <1>0, <1>20, Distinct DEF DeleteProtocol, Goto, TypeThreads, TypeDevice
<1>21. ASSUME NEW a \in Apps, ReleaseDevice(a)
      PROVE  TypeDevice'
  BY <1>0, <1>21, Distinct DEF ReleaseDevice, Goto, TypeThreads, TypeDevice
<1>22. ASSUME NextMsg
      PROVE  TypeDevice'
  BY <1>0, <1>22, Distinct DEF NextMsg, Goto, Firing, TimerHolds, TypeThreads, TypeDevice
<1>23. ASSUME AliveTimer
      PROVE  TypeDevice'
  BY <1>0, <1>23, Distinct DEF AliveTimer, Goto, Firing, TimerHolds, TypeThreads,
     TypeDevice
<1>24. ASSUME FireEnd
      PROVE  TypeDevice'
  BY <1>0, <1>24, Distinct DEF FireEnd, Goto, TypeThreads, TypeDevice
<1>25. ASSUME MsgSchedulerComplete
      PROVE  TypeDevice'
  BY <1>0, <1>25, Distinct DEF MsgSchedulerComplete, Goto, Completed, TypeThreads,
     TypeDevice
<1>26. ASSUME SubnetDisabled
      PROVE  TypeDevice'
  BY <1>0, <1>26, Distinct DEF SubnetDisabled, Goto, TypeThreads, TypeDevice
<1>27. ASSUME ProtocolDisabled
      PROVE  TypeDevice'
  BY <1>0, <1>27, Distinct DEF ProtocolDisabled, Goto, RunDisableComplete, TypeThreads,
     TypeDevice, Shutdown, Byebyes
<1>28. ASSUME SubnetUpdated("timer")
      PROVE  TypeDevice'
  BY <1>0, <1>28, Distinct DEF SubnetUpdated, Goto, TypeThreads, TypeDevice
<1>29. ASSUME AliveCheck("timer")
      PROVE  TypeDevice'
  BY <1>0, <1>29, Distinct DEF AliveCheck, Goto, TypeThreads, TypeDevice
<1>30. ASSUME AliveSend("timer")
      PROVE  TypeDevice'
  BY <1>0, <1>30, Distinct DEF AliveSend, Goto, RepeatAlive, TypeThreads, TypeDevice
<1>31. ASSUME NetChange
      PROVE  TypeDevice'
  BY <1>0, <1>31, Distinct DEF NetChange, Goto, TypeThreads, TypeDevice
<1>32. ASSUME NetCheck
      PROVE  TypeDevice'
  BY <1>0, <1>32, Distinct DEF NetCheck, Goto, TypeThreads, TypeDevice
<1>33. ASSUME NetStop
      PROVE  TypeDevice'
  BY <1>0, <1>33, Distinct DEF NetStop, Goto, TypeThreads, TypeDevice
<1>34. ASSUME NetDelete
      PROVE  TypeDevice'
  BY <1>0, <1>34, Distinct DEF NetDelete, Goto, TypeThreads, TypeDevice
<1>35. ASSUME NetCancel
      PROVE  TypeDevice'
  BY <1>0, <1>35, Distinct DEF NetCancel, Goto, CallbacksDone, TypeThreads, TypeDevice
<1>36. ASSUME NetUpdate
      PROVE  TypeDevice'
  BY <1>0, <1>36, Distinct DEF NetUpdate, Goto, TypeThreads, TypeDevice
<1>37. ASSUME NEW k \in Searches, Msearch(k)
      PROVE  TypeDevice'
  BY <1>0, <1>37, Distinct DEF Msearch, Goto, TypeThreads, TypeDevice
<1>38. ASSUME SearchCheck
      PROVE  TypeDevice'
  BY <1>0, <1>38, Distinct DEF SearchCheck, Goto, TypeThreads, TypeDevice
<1>39. ASSUME SearchPush
      PROVE  TypeDevice'
  BY <1>0, <1>39, Distinct DEF SearchPush, Goto, TypeThreads, TypeDevice
<1>40. ASSUME SearchLock
      PROVE  TypeDevice'
  BY <1>0, <1>40, Distinct DEF SearchLock, Goto, TypeThreads, TypeDevice
<1>41. ASSUME SearchEnabled
      PROVE  TypeDevice'
  BY <1>0, <1>41, Distinct DEF SearchEnabled, Goto, TypeThreads, TypeDevice
<1>42. ASSUME NEW s \in Sessions, Invoke(s)
      PROVE  TypeDevice'
  BY <1>0, <1>42, Distinct DEF Invoke, Goto, ClearDisabled, TypeThreads, TypeDevice
<1>43. ASSUME NEW s \in Sessions, InvocationCompleted(s)
      PROVE  TypeDevice'
  BY <1>0, <1>43, Distinct DEF InvocationCompleted, Goto, LastInvocation, TypeThreads,
     TypeDevice
<1> QED
  BY <1>1, <1>2, <1>3, <1>4, <1>5, <1>6, <1>7, <1>8, <1>9, <1>10, <1>11, <1>12, <1>13,
     <1>14, <1>15, <1>16, <1>17, <1>18, <1>19, <1>20, <1>21, <1>22, <1>23, <1>24, <1>25,
     <1>26, <1>27, <1>28, <1>29, <1>30, <1>31, <1>32, <1>33, <1>34, <1>35, <1>36, <1>37,
     <1>38, <1>39, <1>40, <1>41, <1>42, <1>43 DEF Next, ClientCall, CallStep,
     EnableStep, DisableStep, DestroyStep, TimerStep, NetStep, ListenerStep

LEMMA TypeServiceNext ==
  ASSUME IInv, Next
  PROVE  TypeService'
<1> USE DEF deviceVars, serviceVars, countVars, protocolVars, callVars, boundVars
<1>0. TypeThreads /\ TypeService /\ Invocations
  BY DEF IInv, TypeOK
<1>1. ASSUME NEW a \in Apps, SetEnabled(a)
      PROVE  TypeService'
  BY <1>0, <1>1, Distinct DEF SetEnabled, Goto, ClearShutdown, Disabling, TypeThreads,
     TypeService
<1>2. ASSUME NEW a \in Apps, SetDisabled(a)
      PROVE  TypeService'
  BY <1>0, <1>2, Distinct DEF SetDisabled, Goto, StartDisable, TypeThreads, TypeService
<1>3. ASSUME NEW a \in Apps, Destroy(a)
      PROVE  TypeService'
  BY <1>0, <1>3, Distinct DEF Destroy, Goto, StartDisable, TypeThreads, TypeService
<1>4. ASSUME NEW a \in Apps, EnableWait(a)
      PROVE  TypeService'
  BY <1>0, <1>4, Distinct DEF EnableWait, Goto, TypeThreads, TypeService
<1>5. ASSUME NEW a \in Apps, EnableLock(a)
      PROVE  TypeService'
  BY <1>0, <1>5, Distinct DEF EnableLock, Goto, ClearShutdown, TypeThreads, TypeService
<1>6. ASSUME NEW a \in Apps, ProtocolEnable(a)
      PROVE  TypeService'
  BY <1>0, <1>6, Distinct DEF ProtocolEnable, Goto, Free, TypeThreads, TypeService
<1>7. ASSUME NEW a \in Apps, AliveCheck(a)
      PROVE  TypeService'
  BY <1>0, <1>7, Distinct DEF AliveCheck, Goto, TypeThreads, TypeService
<1>8. ASSUME NEW a \in Apps, AliveSend(a)
      PROVE  TypeService'
  BY <1>0, <1>8, Distinct DEF AliveSend, Goto, RepeatAlive, TypeThreads, TypeService
<1>9. ASSUME NEW a \in Apps, ServiceEnable(a)
      PROVE  TypeService'
  <2>1. iDisabled' = FALSE /\ iDisabledSem' = iDisabledSem + 1
        /\ iCurrentInvocationCount' = iCurrentInvocationCount
    BY <1>9 DEF ServiceEnable
  <2>2. iDisabled' \in BOOLEAN
    BY <2>1
  <2>3. iDisabledSem' \in Nat /\ iCurrentInvocationCount' \in Nat
    BY <1>0, <2>1 DEF TypeService
  <2> QED
    BY <2>2, <2>3 DEF TypeService
<1>10. ASSUME NEW a \in Apps, DisableProtocols(a)
      PROVE  TypeService'
  BY <1>0, <1>10, Distinct DEF DisableProtocols, Goto, RunDisableComplete,
     ProtocolDisable, TypeThreads, TypeService
<1>11. ASSUME NEW a \in Apps, ServiceDisable(a)
      PROVE  TypeService'
  BY <1>0, <1>11, Distinct DEF ServiceDisable, Goto, TypeThreads, TypeService
<1>12. ASSUME NEW a \in Apps, ServiceWait(a)
      PROVE  TypeService'
  BY <1>0, <1>12, Distinct DEF ServiceWait, Goto, Release, TypeThreads, TypeService
<1>13. ASSUME NEW a \in Apps, ShutdownWait(a)
      PROVE  TypeService'
  BY <1>0, <1>13, Distinct DEF ShutdownWait, Goto, TypeThreads, TypeService
<1>14. ASSUME NEW a \in Apps, DeleteTimer(a)
      PROVE  TypeService'
  BY <1>0, <1>14, Distinct DEF DeleteTimer, Goto, CallbacksDone, TypeThreads, TypeService
<1>15. ASSUME NEW a \in Apps, DeleteLock(a)
      PROVE  TypeService'
  BY <1>0, <1>15, Distinct DEF DeleteLock, Goto, Take, TypeThreads, TypeService
<1>16. ASSUME NEW a \in Apps, DeleteListener(a)
      PROVE  TypeService'
  BY <1>0, <1>16, Distinct DEF DeleteListener, Goto, Free, TypeThreads, TypeService
<1>17. ASSUME NEW a \in Apps, DeleteAdapters(a)
      PROVE  TypeService'
  BY <1>0, <1>17, Distinct DEF DeleteAdapters, Goto, TypeThreads, TypeService
<1>18. ASSUME NEW a \in Apps, DeleteScheduler(a)
      PROVE  TypeService'
  BY <1>0, <1>18, Distinct DEF DeleteScheduler, Goto, CallbacksDone, TypeThreads,
     TypeService
<1>19. ASSUME NEW a \in Apps, SubnetUpdated(a)
      PROVE  TypeService'
  BY <1>0, <1>19, Distinct DEF SubnetUpdated, Goto, TypeThreads, TypeService
<1>20. ASSUME NEW a \in Apps, DeleteProtocol(a)
      PROVE  TypeService'
  BY <1>0, <1>20, Distinct DEF DeleteProtocol, Goto, TypeThreads, TypeService
<1>21. ASSUME NEW a \in Apps, ReleaseDevice(a)
      PROVE  TypeService'
  BY <1>0, <1>21, Distinct DEF ReleaseDevice, Goto, Free, TypeThreads, TypeService
<1>22. ASSUME NextMsg
      PROVE  TypeService'
  BY <1>0, <1>22, Distinct DEF NextMsg, Goto, Firing, TimerHolds, TypeThreads, TypeService
<1>23. ASSUME AliveTimer
      PROVE  TypeService'
  BY <1>0, <1>23, Distinct DEF AliveTimer, Goto, Firing, TimerHolds, TypeThreads,
     TypeService
<1>24. ASSUME FireEnd
      PROVE  TypeService'
  BY <1>0, <1>24, Distinct DEF FireEnd, Goto, Release, TypeThreads, TypeService
<1>25. ASSUME MsgSchedulerComplete
      PROVE  TypeService'
  BY <1>0, <1>25, Distinct DEF MsgSchedulerComplete, Goto, Completed, TypeThreads,
     TypeService
<1>26. ASSUME SubnetDisabled
      PROVE  TypeService'
  BY <1>0, <1>26, Distinct DEF SubnetDisabled, Goto, Free, TypeThreads, TypeService
<1>27. ASSUME ProtocolDisabled
      PROVE  TypeService'
  BY <1>0, <1>27, Distinct DEF ProtocolDisabled, Goto, RunDisableComplete, TypeThreads,
     TypeService
<1>28. ASSUME SubnetUpdated("timer")
      PROVE  TypeService'
  BY <1>0, <1>28, Distinct DEF SubnetUpdated, Goto, TypeThreads, TypeService
<1>29. ASSUME AliveCheck("timer")
      PROVE  TypeService'
  BY <1>0, <1>29, Distinct DEF AliveCheck, Goto, TypeThreads, TypeService
<1>30. ASSUME AliveSend("timer")
      PROVE  TypeService'
  BY <1>0, <1>30, Distinct DEF AliveSend, Goto, RepeatAlive, TypeThreads, TypeService
<1>31. ASSUME NetChange
      PROVE  TypeService'
  BY <1>0, <1>31, Distinct DEF NetChange, Goto, Take, TypeThreads, TypeService
<1>32. ASSUME NetCheck
      PROVE  TypeService'
  BY <1>0, <1>32, Distinct DEF NetCheck, Goto, TypeThreads, TypeService
<1>33. ASSUME NetStop
      PROVE  TypeService'
  BY <1>0, <1>33, Distinct DEF NetStop, Goto, Free, TypeThreads, TypeService
<1>34. ASSUME NetDelete
      PROVE  TypeService'
  BY <1>0, <1>34, Distinct DEF NetDelete, Goto, Free, TypeThreads, TypeService
<1>35. ASSUME NetCancel
      PROVE  TypeService'
  BY <1>0, <1>35, Distinct DEF NetCancel, Goto, CallbacksDone, TypeThreads, TypeService
<1>36. ASSUME NetUpdate
      PROVE  TypeService'
  BY <1>0, <1>36, Distinct DEF NetUpdate, Goto, TypeThreads, TypeService
<1>37. ASSUME NEW k \in Searches, Msearch(k)
      PROVE  TypeService'
  BY <1>0, <1>37, Distinct DEF Msearch, Goto, Take, TypeThreads, TypeService
<1>38. ASSUME SearchCheck
      PROVE  TypeService'
  BY <1>0, <1>38, Distinct DEF SearchCheck, Goto, TypeThreads, TypeService
<1>39. ASSUME SearchPush
      PROVE  TypeService'
  BY <1>0, <1>39, Distinct DEF SearchPush, Goto, TypeThreads, TypeService
<1>40. ASSUME SearchLock
      PROVE  TypeService'
  BY <1>0, <1>40, Distinct DEF SearchLock, Goto, Take, TypeThreads, TypeService
<1>41. ASSUME SearchEnabled
      PROVE  TypeService'
  BY <1>0, <1>41, Distinct DEF SearchEnabled, Goto, Free, TypeThreads, TypeService
<1>42. ASSUME NEW s \in Sessions, Invoke(s)
      PROVE  TypeService'
  BY <1>0, <1>42, Distinct DEF Invoke, Goto, ClearDisabled, TypeThreads, TypeService
<1>43. ASSUME NEW s \in Sessions, InvocationCompleted(s)
      PROVE  TypeService'
  <2>1. iCurrentInvocationCount > 0
    BY <1>0, <1>43, Running DEF InvocationCompleted
  <2> QED
    BY <1>0, <1>43, <2>1 DEF InvocationCompleted, TypeService
<1> QED
  BY <1>1, <1>2, <1>3, <1>4, <1>5, <1>6, <1>7, <1>8, <1>9, <1>10, <1>11, <1>12, <1>13,
     <1>14, <1>15, <1>16, <1>17, <1>18, <1>19, <1>20, <1>21, <1>22, <1>23, <1>24, <1>25,
     <1>26, <1>27, <1>28, <1>29, <1>30, <1>31, <1>32, <1>33, <1>34, <1>35, <1>36, <1>37,
     <1>38, <1>39, <1>40, <1>41, <1>42, <1>43 DEF Next, ClientCall, CallStep,
     EnableStep, DisableStep, DestroyStep, TimerStep, NetStep, ListenerStep

LEMMA TypeThreadsNext ==
  ASSUME IInv, Next
  PROVE  TypeThreads'
<1> USE DEF deviceVars, serviceVars, countVars, protocolVars, callVars, boundVars
<1>0. TypeThreads /\ TRUE
  BY DEF IInv, TypeOK
<1>1. ASSUME NEW a \in Apps, SetEnabled(a)
      PROVE  TypeThreads'
  BY <1>0, <1>1, Distinct, DeviceBoundAssumption DEF SetEnabled, Goto, ClearShutdown,
     Disabling, TypeThreads, AppPcs, TimerPcs, NetPcs, ListenerPcs
<1>2. ASSUME NEW a \in Apps, SetDisabled(a)
      PROVE  TypeThreads'
  BY <1>0, <1>2, Distinct, DeviceBoundAssumption DEF SetDisabled, Goto, StartDisable,
     TypeThreads, AppPcs, TimerPcs, NetPcs, ListenerPcs
<1>3. ASSUME NEW a \in Apps, Destroy(a)
      PROVE  TypeThreads'
  BY <1>0, <1>3, Distinct DEF Destroy, Goto, AllIdle, Free, Take, StartDisable,
     TypeThreads, AppPcs, TimerPcs, NetPcs, ListenerPcs
<1>4. ASSUME NEW a \in Apps, EnableWait(a)
      PROVE  TypeThreads'
  BY <1>0, <1>4, Distinct DEF EnableWait, Goto, TypeThreads, AppPcs, TimerPcs, NetPcs,
     ListenerPcs
<1>5. ASSUME NEW a \in Apps, EnableLock(a)
      PROVE  TypeThreads'
  BY <1>0, <1>5, Distinct DEF EnableLock, Goto, ClearShutdown, TypeThreads, AppPcs,
     TimerPcs, NetPcs, ListenerPcs
<1>6. ASSUME NEW a \in Apps, ProtocolEnable(a)
      PROVE  TypeThreads'
  BY <1>0, <1>6, Distinct DEF ProtocolEnable, Goto, TypeThreads, AppPcs, TimerPcs,
     NetPcs, ListenerPcs
<1>7. ASSUME NEW a \in Apps, AliveCheck(a)
      PROVE  TypeThreads'
  BY <1>0, <1>7, Distinct DEF AliveCheck, Goto, Free, After, TypeThreads, AppPcs,
     TimerPcs, NetPcs, ListenerPcs
<1>8. ASSUME NEW a \in Apps, AliveSend(a)
      PROVE  TypeThreads'
  BY <1>0, <1>8, Distinct DEF AliveSend, Goto, Free, RepeatAlive, After, TypeThreads,
     AppPcs, TimerPcs, NetPcs, ListenerPcs
<1>9. ASSUME NEW a \in Apps, ServiceEnable(a)
      PROVE  TypeThreads'
  BY <1>0, <1>9, Distinct DEF ServiceEnable, Goto, TypeThreads, AppPcs, TimerPcs,
     NetPcs, ListenerPcs
<1>10. ASSUME NEW a \in Apps, DisableProtocols(a)
      PROVE  TypeThreads'
  BY <1>0, <1>10, Distinct DEF DisableProtocols, Goto, RunDisableComplete,
     ProtocolDisable, TypeThreads, AppPcs, TimerPcs, NetPcs, ListenerPcs
<1>11. ASSUME NEW a \in Apps, ServiceDisable(a)
      PROVE  TypeThreads'
  BY <1>0, <1>11, Distinct DEF ServiceDisable, Goto, TypeThreads, AppPcs, TimerPcs,
     NetPcs, ListenerPcs
<1>12. ASSUME NEW a \in Apps, ServiceWait(a)
      PROVE  TypeThreads'
  BY <1>0, <1>12, Distinct DEF ServiceWait, Goto, Release, TypeThreads, AppPcs,
     TimerPcs, NetPcs, ListenerPcs
<1>13. ASSUME NEW a \in Apps, ShutdownWait(a)
      PROVE  TypeThreads'
  BY <1>0, <1>13, Distinct DEF ShutdownWait, Goto, TypeThreads, AppPcs, TimerPcs,
     NetPcs, ListenerPcs
<1>14. ASSUME NEW a \in Apps, DeleteTimer(a)
      PROVE  TypeThreads'
  BY <1>0, <1>14, Distinct DEF DeleteTimer, Goto, CallbacksDone, TypeThreads, AppPcs,
     TimerPcs, NetPcs, ListenerPcs
<1>15. ASSUME NEW a \in Apps, DeleteLock(a)
      PROVE  TypeThreads'
  BY <1>0, <1>15, Distinct DEF DeleteLock, Goto, Take, TypeThreads, AppPcs, TimerPcs,
     NetPcs, ListenerPcs
<1>16. ASSUME NEW a \in Apps, DeleteListener(a)
      PROVE  TypeThreads'
  BY <1>0, <1>16, Distinct DEF DeleteListener, Goto, TypeThreads, AppPcs, TimerPcs,
     NetPcs, ListenerPcs
<1>17. ASSUME NEW a \in Apps, DeleteAdapters(a)
      PROVE  TypeThreads'
  BY <1>0, <1>17, Distinct DEF DeleteAdapters, Goto, Free, Release, TypeThreads, AppPcs,
     TimerPcs, NetPcs, ListenerPcs
<1>18. ASSUME NEW a \in Apps, DeleteScheduler(a)
      PROVE  TypeThreads'
  BY <1>0, <1>18, Distinct DEF DeleteScheduler, Goto, CallbacksDone, TypeThreads,
     AppPcs, TimerPcs, NetPcs, ListenerPcs
<1>19. ASSUME NEW a \in Apps, SubnetUpdated(a)
      PROVE  TypeThreads'
  BY <1>0, <1>19, Distinct DEF SubnetUpdated, Goto, Free, After, TypeThreads, AppPcs,
     TimerPcs, NetPcs, ListenerPcs
<1>20. ASSUME NEW a \in Apps, DeleteProtocol(a)
      PROVE  TypeThreads'
  BY <1>0, <1>20, Distinct DEF DeleteProtocol, Goto, TypeThreads, AppPcs, TimerPcs,
     NetPcs, ListenerPcs
<1>21. ASSUME NEW a \in Apps, ReleaseDevice(a)
      PROVE  TypeThreads'
  BY <1>0, <1>21, Distinct DEF ReleaseDevice, Goto, TypeThreads, AppPcs, TimerPcs,
     NetPcs, ListenerPcs
<1>22. ASSUME NextMsg
      PROVE  TypeThreads'
  BY <1>0, <1>22, Distinct DEF NextMsg, Goto, Firing, TimerHolds, TypeThreads, AppPcs,
     TimerPcs, NetPcs, ListenerPcs
<1>23. ASSUME AliveTimer
      PROVE  TypeThreads'
  BY <1>0, <1>23, Distinct DEF AliveTimer, Goto, Firing, TimerHolds, TypeThreads,
     AppPcs, TimerPcs, NetPcs, ListenerPcs
<1>24. ASSUME FireEnd
      PROVE  TypeThreads'
  BY <1>0, <1>24, Distinct DEF FireEnd, Goto, Release, TypeThreads, AppPcs, TimerPcs,
     NetPcs, ListenerPcs
<1>25. ASSUME MsgSchedulerComplete
      PROVE  TypeThreads'
  BY <1>0, <1>25, Distinct DEF MsgSchedulerComplete, Goto, Completed, TypeThreads,
     AppPcs, TimerPcs, NetPcs, ListenerPcs
<1>26. ASSUME SubnetDisabled
      PROVE  TypeThreads'
  BY <1>0, <1>26, Distinct DEF SubnetDisabled, Goto, TypeThreads, AppPcs, TimerPcs,
     NetPcs, ListenerPcs
<1>27. ASSUME ProtocolDisabled
      PROVE  TypeThreads'
  BY <1>0, <1>27, Distinct DEF ProtocolDisabled, Goto, RunDisableComplete, TypeThreads,
     AppPcs, TimerPcs, NetPcs, ListenerPcs
<1>28. ASSUME SubnetUpdated("timer")
      PROVE  TypeThreads'
  BY <1>0, <1>28, Distinct DEF SubnetUpdated, Goto, Free, After, TypeThreads, AppPcs,
     TimerPcs, NetPcs, ListenerPcs
<1>29. ASSUME AliveCheck("timer")
      PROVE  TypeThreads'
  BY <1>0, <1>29, Distinct DEF AliveCheck, Goto, Free, After, TypeThreads, AppPcs,
     TimerPcs, NetPcs, ListenerPcs
<1>30. ASSUME AliveSend("timer")
      PROVE  TypeThreads'
  BY <1>0, <1>30, Distinct DEF AliveSend, Goto, Free, RepeatAlive, After, TypeThreads,
     AppPcs, TimerPcs, NetPcs, ListenerPcs
<1>31. ASSUME NetChange
      PROVE  TypeThreads'
  BY <1>0, <1>31, Distinct, DeviceBoundAssumption DEF NetChange, Goto, Take,
     TypeThreads, AppPcs, TimerPcs, NetPcs, ListenerPcs
<1>32. ASSUME NetCheck
      PROVE  TypeThreads'
  BY <1>0, <1>32, Distinct DEF NetCheck, Goto, Free, Release, TypeThreads, AppPcs,
     TimerPcs, NetPcs, ListenerPcs
<1>33. ASSUME NetStop
      PROVE  TypeThreads'
  BY <1>0, <1>33, Distinct DEF NetStop, Goto, TypeThreads, AppPcs, TimerPcs, NetPcs,
     ListenerPcs
<1>34. ASSUME NetDelete
      PROVE  TypeThreads'
  BY <1>0, <1>34, Distinct DEF NetDelete, Goto, TypeThreads, AppPcs, TimerPcs, NetPcs,
     ListenerPcs
<1>35. ASSUME NetCancel
      PROVE  TypeThreads'
  BY <1>0, <1>35, Distinct DEF NetCancel, Goto, CallbacksDone, TypeThreads, AppPcs,
     TimerPcs, NetPcs, ListenerPcs
<1>36. ASSUME NetUpdate
      PROVE  TypeThreads'
  BY <1>0, <1>36, Distinct DEF NetUpdate, Goto, Free, Release, TypeThreads, AppPcs,
     TimerPcs, NetPcs, ListenerPcs
<1>37. ASSUME NEW k \in Searches, Msearch(k)
      PROVE  TypeThreads'
  BY <1>0, <1>37, Distinct, DeviceBoundAssumption DEF Msearch, Goto, Take, TypeThreads,
     AppPcs, TimerPcs, NetPcs, ListenerPcs
<1>38. ASSUME SearchCheck
      PROVE  TypeThreads'
  BY <1>0, <1>38, Distinct DEF SearchCheck, Goto, Free, Release, TypeThreads, AppPcs,
     TimerPcs, NetPcs, ListenerPcs
<1>39. ASSUME SearchPush
      PROVE  TypeThreads'
  BY <1>0, <1>39, Distinct DEF SearchPush, Goto, Free, Release, TypeThreads, AppPcs,
     TimerPcs, NetPcs, ListenerPcs
<1>40. ASSUME SearchLock
      PROVE  TypeThreads'
  BY <1>0, <1>40, Distinct DEF SearchLock, Goto, Take, TypeThreads, AppPcs, TimerPcs,
     NetPcs, ListenerPcs
<1>41. ASSUME SearchEnabled
      PROVE  TypeThreads'
  BY <1>0, <1>41, Distinct DEF SearchEnabled, Goto, TypeThreads, AppPcs, TimerPcs,
     NetPcs, ListenerPcs
<1>42. ASSUME NEW s \in Sessions, Invoke(s)
      PROVE  TypeThreads'
  BY <1>0, <1>42, Distinct DEF Invoke, Goto, ClearDisabled, TypeThreads
<1>43. ASSUME NEW s \in Sessions, InvocationCompleted(s)
      PROVE  TypeThreads'
  BY <1>0, <1>43, Distinct DEF InvocationCompleted, Goto, LastInvocation, TypeThreads
<1> QED
  BY <1>1, <1>2, <1>3, <1>4, <1>5, <1>6, <1>7, <1>8, <1>9, <1>10, <1>11, <1>12, <1>13,
     <1>14, <1>15, <1>16, <1>17, <1>18, <1>19, <1>20, <1>21, <1>22, <1>23, <1>24, <1>25,
     <1>26, <1>27, <1>28, <1>29, <1>30, <1>31, <1>32, <1>33, <1>34, <1>35, <1>36, <1>37,
     <1>38, <1>39, <1>40, <1>41, <1>42, <1>43 DEF Next, ClientCall, CallStep,
     EnableStep, DisableStep, DestroyStep, TimerStep, NetStep, ListenerStep

-----------------------------------------------------------------------------
(* The completions that are counted                                         *)

LEMMA ThreadsFinite == IsFiniteSet(Threads)
<1>1. IsFiniteSet({"timer"}) /\ IsFiniteSet({"net"}) /\ IsFiniteSet({"listener"})
  BY FS_Singleton
<1>2. IsFiniteSet({"timer"} \cup {"net"}) /\ IsFiniteSet(Apps \cup Sessions)
  BY <1>1, PoolAssumption, FS_Union
<1>3. IsFiniteSet(({"timer"} \cup {"net"}) \cup {"listener"})
  BY <1>1, <1>2, FS_Union
<1>4. Threads = (Apps \cup Sessions) \cup (({"timer"} \cup {"net"}) \cup {"listener"})
  BY DEF Threads
<1> QED
  BY <1>2, <1>3, <1>4, FS_Union

(* How a thread's move changes the number of those that report.             *)
LEMMA ReportStep ==
  ASSUME TypeThreads, NEW t \in Threads, NEW m, Goto(t, m), NEW l
  PROVE  /\ Reporting(l) \in Nat /\ (pc[t] = l => Reporting(l) > 0)
         /\ Reporting(l)' = Reporting(l) + (IF m = l THEN 1 ELSE 0) - (IF pc[t] = l THEN 1 ELSE 0)
<1> DEFINE S == {u \in Threads : pc[u] = l}
           T == {u \in Threads : pc'[u] = l}
<1>1. S \ {t} = T \ {t} /\ (t \in S <=> pc[t] = l) /\ (t \in T <=> m = l)
  BY DEF Goto, TypeThreads
<1>2. IsFiniteSet(S)
  BY ThreadsFinite, FS_Subset
<1>3. Reporting(l) = Cardinality(S) /\ Reporting(l)' = Cardinality(T)
  BY DEF Reporting
<1> HIDE DEF S, T
<1>4. t \in S => Cardinality(S) > 0
  BY <1>2, FS_EmptySet, FS_CardinalityType
<1> QED
  BY <1>1, <1>2, <1>3, <1>4, CardinalityStep

(* A move, and what it asks of the counts.                                  *)
LEMMA CountStep ==
  ASSUME TypeThreads, TypeProtocol, CountsMatch, NEW t \in Threads, NEW m, Goto(t, m)
  PROVE  /\ pc[t] = "subnetDisabled" => iSubnetDisableCount > 0
         /\ pc[t] = "subnetUpdated" => iUpdateCount > 0
         /\ (/\ iSubnetDisableCount' - Number(iMsgSchedulers', "byebye")
                  - (IF m = "subnetDisabled" THEN 1 ELSE 0)
                = iSubnetDisableCount - Number(iMsgSchedulers, "byebye")
                    - (IF pc[t] = "subnetDisabled" THEN 1 ELSE 0)
             /\ iUpdateCount' - Number(iMsgSchedulers', "update")
                  - (IF m = "subnetUpdated" THEN 1 ELSE 0)
                = iUpdateCount - Number(iMsgSchedulers, "update")
                    - (IF pc[t] = "subnetUpdated" THEN 1 ELSE 0)
             /\ iMsgSchedulers' \in List /\ iSubnetDisableCount' \in Int /\ iUpdateCount' \in Int)
              => CountsMatch'
<1>1. /\ Number(iMsgSchedulers, "byebye") \in Nat /\ Number(iMsgSchedulers, "update") \in Nat
      /\ iSubnetDisableCount \in Nat /\ iUpdateCount \in Nat
      /\ iSubnetDisableCount = Number(iMsgSchedulers, "byebye") + Reporting("subnetDisabled")
      /\ iUpdateCount = Number(iMsgSchedulers, "update") + Reporting("subnetUpdated")
  BY Numbers DEF TypeProtocol, List, CountsMatch, Announcing, Number
<1>2. CountsMatch' <=>
      /\ iSubnetDisableCount' = Number(iMsgSchedulers', "byebye") + Reporting("subnetDisabled")'
      /\ iUpdateCount' = Number(iMsgSchedulers', "update") + Reporting("subnetUpdated")'
  BY DEF CountsMatch, Announcing, Number, Each, InList
<1>3. /\ Reporting("subnetDisabled") \in Nat
      /\ Reporting("subnetDisabled")' = Reporting("subnetDisabled")
           + (IF m = "subnetDisabled" THEN 1 ELSE 0) - (IF pc[t] = "subnetDisabled" THEN 1 ELSE 0)
      /\ pc[t] = "subnetDisabled" => Reporting("subnetDisabled") > 0
  BY ReportStep
<1>4. /\ Reporting("subnetUpdated") \in Nat
      /\ Reporting("subnetUpdated")' = Reporting("subnetUpdated")
           + (IF m = "subnetUpdated" THEN 1 ELSE 0) - (IF pc[t] = "subnetUpdated" THEN 1 ELSE 0)
      /\ pc[t] = "subnetUpdated" => Reporting("subnetUpdated") > 0
  BY ReportStep
<1>5. ASSUME /\ iSubnetDisableCount' - Number(iMsgSchedulers', "byebye")
                  - (IF m = "subnetDisabled" THEN 1 ELSE 0)
                = iSubnetDisableCount - Number(iMsgSchedulers, "byebye")
                    - (IF pc[t] = "subnetDisabled" THEN 1 ELSE 0)
             /\ iUpdateCount' - Number(iMsgSchedulers', "update")
                  - (IF m = "subnetUpdated" THEN 1 ELSE 0)
                = iUpdateCount - Number(iMsgSchedulers, "update")
                    - (IF pc[t] = "subnetUpdated" THEN 1 ELSE 0)
             /\ iMsgSchedulers' \in List /\ iSubnetDisableCount' \in Int
             /\ iUpdateCount' \in Int
      PROVE  CountsMatch'
  <2>1. /\ Number(iMsgSchedulers', "byebye") \in Nat
        /\ Number(iMsgSchedulers', "update") \in Nat
    BY <1>5, Numbers
  <2>2. iSubnetDisableCount' = Number(iMsgSchedulers', "byebye") + Reporting("subnetDisabled")'
    BY <1>1, <1>3, <1>5, <2>1
  <2>3. iUpdateCount' = Number(iMsgSchedulers', "update") + Reporting("subnetUpdated")'
    <3> DEFINE old == IF pc[t] = "subnetUpdated" THEN 1 ELSE 0
               new == IF m = "subnetUpdated" THEN 1 ELSE 0
    <3>1. old \in Int /\ new \in Int
      OBVIOUS
    <3>2. iUpdateCount' - Number(iMsgSchedulers', "update") - new
            = iUpdateCount - Number(iMsgSchedulers, "update") - old
      BY <1>5
    <3>3. Reporting("subnetUpdated")' = Reporting("subnetUpdated") + new - old
      BY <1>4
    <3> HIDE DEF old, new
    <3> QED
      BY <1>1, <1>4, <1>5, <2>1, <3>1, <3>2, <3>3
  <2> QED
    BY <1>2, <2>2, <2>3
<1>6. /\ pc[t] = "subnetDisabled" => iSubnetDisableCount > 0
      /\ pc[t] = "subnetUpdated" => iUpdateCount > 0
  BY <1>1, <1>3, <1>4
<1> QED
  BY <1>5, <1>6

(* Steps that leave the counts alone.                                       *)
LEMMA CountSame ==
  ASSUME TypeThreads, TypeProtocol, CountsMatch, NEW t \in Threads, NEW m, Goto(t, m),
         pc[t] \notin {"subnetDisabled", "subnetUpdated"},
         m \notin {"subnetDisabled", "subnetUpdated"},
         UNCHANGED countVars, iMsgSchedulers' \in List,
         Number(iMsgSchedulers', "byebye") = Number(iMsgSchedulers, "byebye"),
         Number(iMsgSchedulers', "update") = Number(iMsgSchedulers, "update")
  PROVE  CountsMatch'
<1>1. iSubnetDisableCount \in Nat /\ iUpdateCount \in Nat
  BY DEF TypeProtocol
<1>2. iSubnetDisableCount' = iSubnetDisableCount /\ iUpdateCount' = iUpdateCount
  BY DEF countVars
<1> QED
  BY <1>1, <1>2, CountStep

LEMMA CountStay ==
  ASSUME TypeThreads, TypeProtocol, CountsMatch, NEW t \in Threads, NEW m, Goto(t, m),
         pc[t] \notin {"subnetDisabled", "subnetUpdated"},
         m \notin {"subnetDisabled", "subnetUpdated"},
         UNCHANGED countVars,
         \/ UNCHANGED iMsgSchedulers
         \/ iMsgSchedulers' = StopAll(iMsgSchedulers)
         \/ \E k \in {"alive", "msearch"}, n \in Nat : iMsgSchedulers' = Push(iMsgSchedulers, k, n)
  PROVE  CountsMatch'
<1>1. iMsgSchedulers \in List
  BY DEF TypeProtocol, List
<1>2. \A k \in {"alive", "msearch"} : k \in Kinds /\ k # "byebye" /\ k # "update"
  BY DEF Kinds
<1>3. /\ iMsgSchedulers' \in List
      /\ Number(iMsgSchedulers', "byebye") = Number(iMsgSchedulers, "byebye")
      /\ Number(iMsgSchedulers', "update") = Number(iMsgSchedulers, "update")
  BY <1>1, <1>2, Numbers
<1> QED
  BY <1>3, CountSame

LEMMA NoByebyes ==
  ASSUME TypeProtocol, CountsMatch, iSubnetDisableCount = 0
  PROVE  Number(iMsgSchedulers, "byebye") = 0
<1>1. IsFiniteSet({t \in Threads : pc[t] = "subnetDisabled"})
  BY ThreadsFinite, FS_Subset
<1>2. Reporting("subnetDisabled") \in Nat
  BY <1>1, FS_CardinalityType DEF Reporting
<1>3. Number(iMsgSchedulers, "byebye") \in Nat
  BY Numbers DEF TypeProtocol, List
<1>4. 0 = Number(iMsgSchedulers, "byebye") + Reporting("subnetDisabled")
  BY DEF CountsMatch, Announcing, Number
<1> QED
  BY <1>2, <1>3, <1>4

LEMMA CountsNext ==
  ASSUME IInv, Next
  PROVE  CountsMatch'
<1> USE DEF deviceVars, serviceVars, countVars, protocolVars, callVars, boundVars
<1>0. TypeThreads /\ TypeProtocol /\ CountsMatch /\ Completing /\ Byebyes
  BY DEF IInv, TypeOK
<1>p. Knows /\ Callers
  BY DEF IInv
<1>1. ASSUME NEW a \in Apps, SetEnabled(a)
      PROVE  CountsMatch'
  BY <1>0, <1>1, CountStay, Distinct, DeviceBoundAssumption DEF SetEnabled, Free,
     ClearShutdown, Disabling
<1>2. ASSUME NEW a \in Apps, SetDisabled(a)
      PROVE  CountsMatch'
  BY <1>0, <1>2, CountStay, Distinct, DeviceBoundAssumption DEF SetDisabled, Free,
     AllIdle, StartDisable
<1>3. ASSUME NEW a \in Apps, Destroy(a)
      PROVE  CountsMatch'
  BY <1>0, <1>3, CountStay, Distinct, DeviceBoundAssumption DEF Destroy, AllIdle, Free,
     Take, StartDisable
<1>4. ASSUME NEW a \in Apps, EnableWait(a)
      PROVE  CountsMatch'
  BY <1>0, <1>4, CountStay, Distinct, DeviceBoundAssumption DEF EnableWait
<1>5. ASSUME NEW a \in Apps, EnableLock(a)
      PROVE  CountsMatch'
  BY <1>0, <1>5, CountStay, Distinct, DeviceBoundAssumption DEF EnableLock, Free,
     ClearShutdown
<1>6. ASSUME NEW a \in Apps, ProtocolEnable(a)
      PROVE  CountsMatch'
  BY <1>0, <1>6, CountStay, Distinct, DeviceBoundAssumption DEF ProtocolEnable, Free
<1>7. ASSUME NEW a \in Apps, AliveCheck(a)
      PROVE  CountsMatch'
  BY <1>0, <1>7, CountStay, Distinct, DeviceBoundAssumption DEF AliveCheck, Free, After
<1>8. ASSUME NEW a \in Apps, AliveSend(a)
      PROVE  CountsMatch'
  BY <1>0, <1>8, CountStay, Distinct, DeviceBoundAssumption DEF AliveSend, Free,
     RepeatAlive, After
<1>9. ASSUME NEW a \in Apps, ServiceEnable(a)
      PROVE  CountsMatch'
  BY <1>0, <1>9, CountStay, Distinct, DeviceBoundAssumption DEF ServiceEnable
<1>10. ASSUME NEW a \in Apps, DisableProtocols(a)
      PROVE  CountsMatch'
  <2>1. a \in Threads /\ pc[a] = "disableProtocols" /\ Goto(a, "serviceDisable")
        /\ iUpdateCount' = iUpdateCount
    BY <1>10, Distinct DEF DisableProtocols
  <2>2. CASE UNCHANGED <<iMsgSchedulers, iSubnetDisableCount>>
    BY <1>0, <2>1, <2>2, CountStay
  <2>3. CASE /\ iMsgSchedulers' = Push(StopAll(iMsgSchedulers), "byebye", Subnets)
             /\ iSubnetDisableCount' = Subnets
    <3>1. iMsgSchedulers \in List /\ StopAll(iMsgSchedulers) \in List
          /\ "byebye" \in Kinds /\ Subnets \in Nat
      BY <1>0, Numbers, DeviceBoundAssumption DEF TypeProtocol, List, Kinds
    <3>2. iSubnetDisableCount = 0 /\ Number(iMsgSchedulers, "byebye") = 0
      BY <1>0, <2>1, <3>1, NoByebyes DEF Byebyes, TypeProtocol
    <3>3. /\ iMsgSchedulers' \in List
          /\ Number(iMsgSchedulers', "byebye") = Subnets
          /\ Number(iMsgSchedulers', "update") = Number(iMsgSchedulers, "update")
      <4> DEFINE stopped == StopAll(iMsgSchedulers)
      <4>1. ASSUME NEW k
            PROVE  /\ iMsgSchedulers' \in List
                   /\ Number(iMsgSchedulers', k) =
                        Number(stopped, k) + (IF "byebye" = k THEN Subnets ELSE 0)
        <5>1. stopped \in List /\ iMsgSchedulers' = Push(stopped, "byebye", Subnets)
          BY <2>3, <3>1
        <5> HIDE DEF stopped
        <5>2. /\ Push(stopped, "byebye", Subnets) \in List
              /\ Number(Push(stopped, "byebye", Subnets), k) =
                   Number(stopped, k) + (IF "byebye" = k THEN Subnets ELSE 0)
          BY <3>1, <5>1, PushNumber
        <5> QED
          BY <5>1, <5>2
      <4>2. \A k : Number(StopAll(iMsgSchedulers), k) = Number(iMsgSchedulers, k)
                  /\ Number(iMsgSchedulers, k) \in Nat
        BY <3>1, Numbers
      <4> QED
        BY <3>1, <3>2, <4>1, <4>2
    <3> QED
      BY <1>0, <2>1, <2>3, <3>1, <3>2, <3>3, CountStep DEF TypeProtocol
  <2> QED
    BY <1>10, <2>2, <2>3 DEF DisableProtocols, ProtocolDisable
<1>11. ASSUME NEW a \in Apps, ServiceDisable(a)
      PROVE  CountsMatch'
  BY <1>0, <1>11, CountStay, Distinct, DeviceBoundAssumption DEF ServiceDisable
<1>12. ASSUME NEW a \in Apps, ServiceWait(a)
      PROVE  CountsMatch'
  BY <1>0, <1>12, CountStay, Distinct, DeviceBoundAssumption DEF ServiceWait, Release
<1>13. ASSUME NEW a \in Apps, ShutdownWait(a)
      PROVE  CountsMatch'
  BY <1>0, <1>13, CountStay, Distinct, DeviceBoundAssumption DEF ShutdownWait
<1>14. ASSUME NEW a \in Apps, DeleteTimer(a)
      PROVE  CountsMatch'
  BY <1>0, <1>14, CountStay, Distinct, DeviceBoundAssumption DEF DeleteTimer,
     CallbacksDone, Free
<1>15. ASSUME NEW a \in Apps, DeleteLock(a)
      PROVE  CountsMatch'
  BY <1>0, <1>15, CountStay, Distinct, DeviceBoundAssumption DEF DeleteLock, Take
<1>16. ASSUME NEW a \in Apps, DeleteListener(a)
      PROVE  CountsMatch'
  BY <1>0, <1>16, CountStay, Distinct, DeviceBoundAssumption DEF DeleteListener, Free
<1>17. ASSUME NEW a \in Apps, DeleteAdapters(a)
      PROVE  CountsMatch'
  BY <1>0, <1>17, CountStay, Distinct, DeviceBoundAssumption DEF DeleteAdapters, Free,
     Release
<1>18. ASSUME NEW a \in Apps, DeleteScheduler(a)
      PROVE  CountsMatch'
  <2>1. PICK r \in Scheduler :
          /\ iMsgSchedulers[r] > 0 /\ iMsgSchedulers' = Drop(iMsgSchedulers, r)
          /\ Goto(a, IF r.kind = "update" THEN "subnetUpdated" ELSE "deleteSchedulers")
    BY <1>18 DEF DeleteScheduler
  <2>2. a \in Threads /\ pc[a] = "deleteSchedulers" /\ UNCHANGED countVars
        /\ iMsgSchedulers \in List
    BY <1>0, <1>18, Distinct DEF DeleteScheduler, TypeProtocol, List
  <2>3. iSubnetDisableCount = 0
    BY <1>0, <1>p, <2>2 DEF Knows, Callers, Byebyes, DeletePcs, EnablePcs, EnabledPcs,
       DisablePcs, TypeProtocol, TypeThreads
  <2>4. r.kind # "byebye"
    BY <1>0, <2>1, <2>2, <2>3, NoByebyes, NoneListed DEF Number
  <2>5. /\ iMsgSchedulers' \in List
        /\ Number(iMsgSchedulers', "byebye") = Number(iMsgSchedulers, "byebye")
        /\ Number(iMsgSchedulers', "update") = Number(iMsgSchedulers, "update")
             - (IF r.kind = "update" THEN 1 ELSE 0)
    BY <2>1, <2>2, <2>4, Numbers
  <2>6. /\ Number(iMsgSchedulers, "byebye") \in Nat /\ Number(iMsgSchedulers, "update") \in Nat
        /\ iSubnetDisableCount \in Nat /\ iUpdateCount \in Nat
    BY <1>0, <2>2, Numbers DEF TypeProtocol
  <2> QED
    BY <1>0, <2>1, <2>2, <2>5, <2>6, CountStep
<1>19. ASSUME NEW a \in Apps, SubnetUpdated(a)
      PROVE  CountsMatch'
  <2>1. /\ a \in Threads /\ pc[a] = "subnetUpdated" /\ UNCHANGED <<iMsgSchedulers, iSubnetDisableCount>>
        /\ iUpdateCount' = iUpdateCount - 1
    BY <1>19, Distinct DEF SubnetUpdated
  <2>2. PICK m \in {"aliveCheck", "fire", "deleteSchedulers", "serviceEnable"} : Goto(a, m)
    BY <1>19 DEF SubnetUpdated, After
  <2>3. iMsgSchedulers \in List /\ iSubnetDisableCount \in Nat /\ iUpdateCount \in Nat
    BY <1>0 DEF TypeProtocol, List
  <2>4. \A k : Number(iMsgSchedulers, k) \in Nat
    BY <2>3, Numbers
  <2> QED
    BY <1>0, <2>1, <2>2, <2>3, <2>4, CountStep
<1>20. ASSUME NEW a \in Apps, DeleteProtocol(a)
      PROVE  CountsMatch'
  BY <1>0, <1>20, CountStay, Distinct, DeviceBoundAssumption DEF DeleteProtocol
<1>21. ASSUME NEW a \in Apps, ReleaseDevice(a)
      PROVE  CountsMatch'
  BY <1>0, <1>21, CountStay, Distinct, DeviceBoundAssumption DEF ReleaseDevice, Free
<1>22. ASSUME NextMsg
      PROVE  CountsMatch'
  <2>1. PICK r \in Scheduler, m \in {"complete", "fire"}, q \in Scheduler :
          /\ iMsgSchedulers[r] > 0 /\ q.kind = r.kind /\ Goto("timer", m)
          /\ iMsgSchedulers' = [Drop(iMsgSchedulers, r) EXCEPT ![q] = @ + 1]
    <3>1. PICK r \in Scheduler :
            /\ iMsgSchedulers[r] > 0 /\ r.left > 0
            /\ \/ /\ iMsgSchedulers' = [Drop(iMsgSchedulers, r) EXCEPT ![Over(r.kind)] = @ + 1]
                  /\ Goto("timer", "complete")
               \/ /\ iMsgSchedulers' =
                       [Drop(iMsgSchedulers, r) EXCEPT ![[r EXCEPT !.left = @ - 1]] = @ + 1]
                  /\ Goto("timer", "fire")
      BY <1>22 DEF NextMsg
    <3>2. /\ r.kind \in Kinds /\ Over(r.kind) \in Scheduler /\ Over(r.kind).kind = r.kind
          /\ [r EXCEPT !.left = @ - 1] \in Scheduler
          /\ [r EXCEPT !.left = @ - 1].kind = r.kind
      BY <3>1, Markers, DeviceBoundAssumption DEF Scheduler
    <3> QED
      BY <3>1, <3>2
  <2>2. /\ pc["timer"] \in {"fire", "idle"} /\ UNCHANGED countVars /\ iMsgSchedulers \in List
        /\ iSubnetDisableCount \in Nat /\ iUpdateCount \in Nat
    BY <1>0, <1>22 DEF NextMsg, Firing, TypeProtocol, List
  <2>3. /\ iMsgSchedulers' \in List
        /\ Number(iMsgSchedulers', "byebye") = Number(iMsgSchedulers, "byebye")
        /\ Number(iMsgSchedulers', "update") = Number(iMsgSchedulers, "update")
    <3>1. Drop(iMsgSchedulers, r) \in List
      BY <2>1, <2>2, Numbers
    <3>2. ASSUME NEW k
          PROVE  /\ iMsgSchedulers' \in List
                 /\ Number(iMsgSchedulers', k) = Number(iMsgSchedulers, k)
      <4>1. /\ iMsgSchedulers' \in List
            /\ Number(iMsgSchedulers', k) =
                  Number(Drop(iMsgSchedulers, r), k) + (IF r.kind = k THEN 1 ELSE 0)
        <5> DEFINE d == Drop(iMsgSchedulers, r)
        <5>1. 1 \in Nat /\ d \in List
          BY <3>1
        <5> HIDE DEF d
        <5>2. /\ [d EXCEPT ![q] = @ + 1] \in List
              /\ Cardinality(Each([d EXCEPT ![q] = @ + 1], k)) =
                   Cardinality(Each(d, k)) + (IF q.kind = k THEN 1 ELSE 0)
          BY <5>1, Change
        <5> QED
          BY <2>1, <5>2 DEF Number, d
      <4>2. /\ Number(Drop(iMsgSchedulers, r), k) =
                 Number(iMsgSchedulers, k) - (IF r.kind = k THEN 1 ELSE 0)
            /\ Number(iMsgSchedulers, k) \in Nat
        BY <2>1, <2>2, Numbers
      <4> QED
        BY <4>1, <4>2
    <3> QED
      BY <3>2
  <2> QED
    BY <1>0, <2>1, <2>2, <2>3, CountSame, Distinct
<1>23. ASSUME AliveTimer
      PROVE  CountsMatch'
  BY <1>0, <1>23, CountStay, Distinct, DeviceBoundAssumption DEF AliveTimer, Firing,
     TimerHolds, Free
<1>24. ASSUME FireEnd
      PROVE  CountsMatch'
  BY <1>0, <1>24, CountStay, Distinct, DeviceBoundAssumption DEF FireEnd, Release
<1>25. ASSUME MsgSchedulerComplete
      PROVE  CountsMatch'
  <2>1. /\ pc["timer"] = "complete" /\ iMsgSchedulers \in List /\ UNCHANGED countVars
        /\ iSubnetDisableCount \in Nat /\ iUpdateCount \in Nat /\ fired \in Kinds
    BY <1>0, <1>25 DEF MsgSchedulerComplete, TypeProtocol, List
  <2>2. CASE Goto("timer", "fire") /\ UNCHANGED iMsgSchedulers
    BY <1>0, <2>1, <2>2, CountStay, Distinct
  <2>3. CASE iMsgSchedulers' = Drop(iMsgSchedulers, Over(fired)) /\ Goto("timer", Completed(fired))
    <3>1. /\ Over(fired) \in Scheduler /\ Over(fired).kind = fired
          /\ iMsgSchedulers[Over(fired)] > 0
      BY <1>0, <2>1, Markers DEF Completing
    <3>2. \A k : /\ iMsgSchedulers' \in List /\ Number(iMsgSchedulers, k) \in Nat
                /\ Number(iMsgSchedulers', k) =
                     Number(iMsgSchedulers, k) - (IF fired = k THEN 1 ELSE 0)
      BY <2>1, <2>3, <3>1, Numbers
    <3>3. /\ Completed(fired) = "subnetDisabled" <=> fired = "byebye"
          /\ Completed(fired) = "subnetUpdated" <=> fired = "update"
      BY <2>1 DEF Completed, Kinds
    <3> QED
      BY <1>0, <2>1, <2>3, <3>2, <3>3, CountStep, Distinct
  <2> QED
    BY <1>25, <2>2, <2>3 DEF MsgSchedulerComplete
<1>26. ASSUME SubnetDisabled
      PROVE  CountsMatch'
  <2>1. /\ pc["timer"] = "subnetDisabled" /\ UNCHANGED <<iMsgSchedulers, iUpdateCount>>
        /\ iSubnetDisableCount' = iSubnetDisableCount - 1
    BY <1>26 DEF SubnetDisabled
  <2>2. PICK m \in {"protocolDisabled", "fire"} : Goto("timer", m)
    BY <1>26 DEF SubnetDisabled
  <2>3. iMsgSchedulers \in List /\ iSubnetDisableCount \in Nat /\ iUpdateCount \in Nat
    BY <1>0 DEF TypeProtocol, List
  <2>4. \A k : Number(iMsgSchedulers, k) \in Nat
    BY <2>3, Numbers
  <2> QED
    BY <1>0, <2>1, <2>2, <2>3, <2>4, CountStep, Distinct
<1>27. ASSUME ProtocolDisabled
      PROVE  CountsMatch'
  BY <1>0, <1>27, CountStay, Distinct, DeviceBoundAssumption DEF ProtocolDisabled, Free,
     RunDisableComplete
<1>28. ASSUME SubnetUpdated("timer")
      PROVE  CountsMatch'
  <2>1. /\ "timer" \in Threads /\ pc["timer"] = "subnetUpdated" /\ UNCHANGED <<iMsgSchedulers, iSubnetDisableCount>>
        /\ iUpdateCount' = iUpdateCount - 1
    BY <1>28, Distinct DEF SubnetUpdated
  <2>2. PICK m \in {"aliveCheck", "fire", "deleteSchedulers", "serviceEnable"} : Goto("timer", m)
    BY <1>28 DEF SubnetUpdated, After
  <2>3. iMsgSchedulers \in List /\ iSubnetDisableCount \in Nat /\ iUpdateCount \in Nat
    BY <1>0 DEF TypeProtocol, List
  <2>4. \A k : Number(iMsgSchedulers, k) \in Nat
    BY <2>3, Numbers
  <2> QED
    BY <1>0, <2>1, <2>2, <2>3, <2>4, CountStep
<1>29. ASSUME AliveCheck("timer")
      PROVE  CountsMatch'
  BY <1>0, <1>29, CountStay, Distinct, DeviceBoundAssumption DEF AliveCheck, Free, After
<1>30. ASSUME AliveSend("timer")
      PROVE  CountsMatch'
  BY <1>0, <1>30, CountStay, Distinct, DeviceBoundAssumption DEF AliveSend, Free,
     RepeatAlive, After
<1>31. ASSUME NetChange
      PROVE  CountsMatch'
  BY <1>0, <1>31, CountStay, Distinct, DeviceBoundAssumption DEF NetChange, Take
<1>32. ASSUME NetCheck
      PROVE  CountsMatch'
  BY <1>0, <1>32, CountStay, Distinct, DeviceBoundAssumption DEF NetCheck, Free, Release
<1>33. ASSUME NetStop
      PROVE  CountsMatch'
  BY <1>0, <1>33, CountStay, Distinct, DeviceBoundAssumption DEF NetStop, Free
<1>34. ASSUME NetDelete
      PROVE  CountsMatch'
  BY <1>0, <1>34, CountStay, Distinct, DeviceBoundAssumption DEF NetDelete, Free
<1>35. ASSUME NetCancel
      PROVE  CountsMatch'
  BY <1>0, <1>35, CountStay, Distinct, DeviceBoundAssumption DEF NetCancel,
     CallbacksDone, Free
<1>36. ASSUME NetUpdate
      PROVE  CountsMatch'
  <2>1. /\ pc["net"] = "netUpdate" /\ Goto("net", "idle")
        /\ iMsgSchedulers' = Push(iMsgSchedulers, "update", Subnets)
        /\ iUpdateCount' = iUpdateCount + Subnets /\ UNCHANGED iSubnetDisableCount
    BY <1>36 DEF NetUpdate
  <2>2. iMsgSchedulers \in List /\ iSubnetDisableCount \in Nat /\ iUpdateCount \in Nat
        /\ Subnets \in Nat /\ "update" \in Kinds
    BY <1>0, DeviceBoundAssumption DEF TypeProtocol, List, Kinds
  <2>3. \A k : /\ iMsgSchedulers' \in List /\ Number(iMsgSchedulers, k) \in Nat
              /\ Number(iMsgSchedulers', k) =
                   Number(iMsgSchedulers, k) + (IF "update" = k THEN Subnets ELSE 0)
    BY <2>1, <2>2, Numbers
  <2> QED
    BY <1>0, <2>1, <2>2, <2>3, CountStep, Distinct
<1>37. ASSUME NEW k \in Searches, Msearch(k)
      PROVE  CountsMatch'
  BY <1>0, <1>37, CountStay, Distinct, DeviceBoundAssumption DEF Msearch, Take
<1>38. ASSUME SearchCheck
      PROVE  CountsMatch'
  BY <1>0, <1>38, CountStay, Distinct, DeviceBoundAssumption DEF SearchCheck, Free,
     Release
<1>39. ASSUME SearchPush
      PROVE  CountsMatch'
  BY <1>0, <1>39, CountStay, Distinct, DeviceBoundAssumption DEF SearchPush, Free, Release
<1>40. ASSUME SearchLock
      PROVE  CountsMatch'
  BY <1>0, <1>40, CountStay, Distinct, DeviceBoundAssumption DEF SearchLock, Take
<1>41. ASSUME SearchEnabled
      PROVE  CountsMatch'
  BY <1>0, <1>41, CountStay, Distinct, DeviceBoundAssumption DEF SearchEnabled, Free
<1>42. ASSUME NEW s \in Sessions, Invoke(s)
      PROVE  CountsMatch'
  BY <1>0, <1>42, CountStay, Distinct, DeviceBoundAssumption DEF Invoke, ClearDisabled
<1>43. ASSUME NEW s \in Sessions, InvocationCompleted(s)
      PROVE  CountsMatch'
  BY <1>0, <1>43, CountStay, Distinct, DeviceBoundAssumption DEF InvocationCompleted,
     LastInvocation
<1> QED
  BY <1>1, <1>2, <1>3, <1>4, <1>5, <1>6, <1>7, <1>8, <1>9, <1>10, <1>11, <1>12, <1>13,
     <1>14, <1>15, <1>16, <1>17, <1>18, <1>19, <1>20, <1>21, <1>22, <1>23, <1>24, <1>25,
     <1>26, <1>27, <1>28, <1>29, <1>30, <1>31, <1>32, <1>33, <1>34, <1>35, <1>36, <1>37,
     <1>38, <1>39, <1>40, <1>41, <1>42, <1>43 DEF Next, ClientCall, CallStep,
     EnableStep, DisableStep, DestroyStep, TimerStep, NetStep, ListenerStep

LEMMA CountAhead ==
  ASSUME TypeThreads, TypeProtocol, CountsMatch, NEW t \in Threads
  PROVE  /\ pc[t] = "subnetDisabled" => iSubnetDisableCount > 0
         /\ pc[t] = "subnetUpdated" => iUpdateCount > 0
<1>1. \A k : Number(iMsgSchedulers, k) \in Nat
  BY Numbers DEF TypeProtocol, List
<1>2. ASSUME NEW l
      PROVE  Reporting(l) \in Nat /\ (pc[t] = l => Reporting(l) > 0)
  <2>1. IsFiniteSet({u \in Threads : pc[u] = l})
    BY ThreadsFinite, FS_Subset
  <2> QED
    BY <2>1, FS_EmptySet, FS_CardinalityType DEF Reporting
<1> QED
  BY <1>1, <1>2 DEF CountsMatch, Announcing, Number

LEMMA TypeProtocolNext ==
  ASSUME IInv, Next
  PROVE  TypeProtocol'
<1> USE DEF deviceVars, serviceVars, countVars, protocolVars, callVars, boundVars
<1>0. TypeThreads /\ TypeProtocol /\ CountsMatch /\ Completing
  BY DEF IInv, TypeOK
<1>c. \A t \in Threads :
        /\ pc[t] = "subnetDisabled" => iSubnetDisableCount > 0
        /\ pc[t] = "subnetUpdated" => iUpdateCount > 0
  BY <1>0, CountAhead
<1>l. /\ StopAll(iMsgSchedulers) \in [Scheduler -> Nat]
      /\ Push(iMsgSchedulers, "alive", Subnets) \in [Scheduler -> Nat]
      /\ Push(iMsgSchedulers, "update", Subnets) \in [Scheduler -> Nat]
      /\ Push(iMsgSchedulers, "msearch", 1) \in [Scheduler -> Nat]
      /\ Push(StopAll(iMsgSchedulers), "byebye", Subnets) \in [Scheduler -> Nat]
      /\ Subnets \in Nat
  <2>1. Kinds = {"alive", "byebye", "update", "msearch"} /\ Subnets \in Nat /\ 1 \in Nat
        /\ iMsgSchedulers \in List
    BY <1>0, DeviceBoundAssumption DEF Kinds, List, TypeProtocol
  <2> QED
    BY <2>1, Numbers DEF List
<1>d. \A r \in Scheduler : iMsgSchedulers[r] > 0 =>
        /\ Drop(iMsgSchedulers, r) \in [Scheduler -> Nat]
        /\ \A q \in Scheduler : [Drop(iMsgSchedulers, r) EXCEPT ![q] = @ + 1] \in [Scheduler -> Nat]
  BY <1>0 DEF TypeProtocol, Drop
<1>1. ASSUME NEW a \in Apps, SetEnabled(a)
      PROVE  TypeProtocol'
  BY <1>0, <1>1 DEF SetEnabled, Free, ClearShutdown, Disabling, TypeProtocol
<1>2. ASSUME NEW a \in Apps, SetDisabled(a)
      PROVE  TypeProtocol'
  BY <1>0, <1>2 DEF SetDisabled, Free, AllIdle, StartDisable, TypeProtocol
<1>3. ASSUME NEW a \in Apps, Destroy(a)
      PROVE  TypeProtocol'
  BY <1>0, <1>3 DEF Destroy, StartDisable, TypeProtocol
<1>4. ASSUME NEW a \in Apps, EnableWait(a)
      PROVE  TypeProtocol'
  BY <1>0, <1>4 DEF EnableWait, TypeProtocol
<1>5. ASSUME NEW a \in Apps, EnableLock(a)
      PROVE  TypeProtocol'
  BY <1>0, <1>5 DEF EnableLock, Free, ClearShutdown, TypeProtocol
<1>6. ASSUME NEW a \in Apps, ProtocolEnable(a)
      PROVE  TypeProtocol'
  BY <1>0, <1>6 DEF ProtocolEnable, Free, TypeProtocol
<1>7. ASSUME NEW a \in Apps, AliveCheck(a)
      PROVE  TypeProtocol'
  BY <1>0, <1>7 DEF AliveCheck, Free, After, TypeProtocol
<1>8. ASSUME NEW a \in Apps, AliveSend(a)
      PROVE  TypeProtocol'
  BY <1>0, <1>8, <1>l DEF AliveSend, Free, RepeatAlive, After, TypeProtocol
<1>9. ASSUME NEW a \in Apps, ServiceEnable(a)
      PROVE  TypeProtocol'
  BY <1>0, <1>9 DEF ServiceEnable, TypeProtocol
<1>10. ASSUME NEW a \in Apps, DisableProtocols(a)
      PROVE  TypeProtocol'
  BY <1>0, <1>10, <1>l DEF DisableProtocols, RunDisableComplete, ProtocolDisable,
     TypeProtocol
<1>11. ASSUME NEW a \in Apps, ServiceDisable(a)
      PROVE  TypeProtocol'
  BY <1>0, <1>11 DEF ServiceDisable, TypeProtocol
<1>12. ASSUME NEW a \in Apps, ServiceWait(a)
      PROVE  TypeProtocol'
  BY <1>0, <1>12 DEF ServiceWait, Release, TypeProtocol
<1>13. ASSUME NEW a \in Apps, ShutdownWait(a)
      PROVE  TypeProtocol'
  BY <1>0, <1>13 DEF ShutdownWait, TypeProtocol
<1>14. ASSUME NEW a \in Apps, DeleteTimer(a)
      PROVE  TypeProtocol'
  BY <1>0, <1>14 DEF DeleteTimer, CallbacksDone, Free, TypeProtocol
<1>15. ASSUME NEW a \in Apps, DeleteLock(a)
      PROVE  TypeProtocol'
  BY <1>0, <1>15 DEF DeleteLock, Take, TypeProtocol
<1>16. ASSUME NEW a \in Apps, DeleteListener(a)
      PROVE  TypeProtocol'
  BY <1>0, <1>16 DEF DeleteListener, Free, TypeProtocol
<1>17. ASSUME NEW a \in Apps, DeleteAdapters(a)
      PROVE  TypeProtocol'
  BY <1>0, <1>17 DEF DeleteAdapters, Free, Release, TypeProtocol
<1>18. ASSUME NEW a \in Apps, DeleteScheduler(a)
      PROVE  TypeProtocol'
  <2>1. iMsgSchedulers' \in [Scheduler -> Nat]
    BY <1>d, <1>18 DEF DeleteScheduler
  <2> QED
    BY <1>0, <1>18, <2>1 DEF DeleteScheduler, TypeProtocol
<1>19. ASSUME NEW a \in Apps, SubnetUpdated(a)
      PROVE  TypeProtocol'
  <2>1. iUpdateCount > 0
    BY <1>0, <1>c, <1>19, Distinct DEF SubnetUpdated
  <2>2. iUpdateCount' = iUpdateCount - 1
        /\ UNCHANGED <<protocol, iSubnetDisableCount, iSuppressScheduledEvents, iMsgSchedulers,
                       iAliveTimer, listening, fired>>
    BY <1>19 DEF SubnetUpdated
  <2> QED
    BY <1>0, <2>1, <2>2 DEF TypeProtocol
<1>20. ASSUME NEW a \in Apps, DeleteProtocol(a)
      PROVE  TypeProtocol'
  BY <1>0, <1>20 DEF DeleteProtocol, TypeProtocol
<1>21. ASSUME NEW a \in Apps, ReleaseDevice(a)
      PROVE  TypeProtocol'
  BY <1>0, <1>21 DEF ReleaseDevice, Free, TypeProtocol
<1>22. ASSUME NextMsg
      PROVE  TypeProtocol'
  <2>1. iMsgSchedulers' \in [Scheduler -> Nat] /\ fired' \in Kinds
    <3>1. PICK r \in Scheduler :
            /\ iMsgSchedulers[r] > 0 /\ r.left > 0 /\ fired' \in {fired, r.kind}
            /\ \/ iMsgSchedulers' = [Drop(iMsgSchedulers, r) EXCEPT ![Over(r.kind)] = @ + 1]
               \/ iMsgSchedulers' =
                    [Drop(iMsgSchedulers, r) EXCEPT ![[r EXCEPT !.left = @ - 1]] = @ + 1]
      BY <1>22 DEF NextMsg
    <3>2. /\ r.kind \in Kinds /\ Over(r.kind) \in Scheduler
          /\ [r EXCEPT !.left = @ - 1] \in Scheduler
      BY <3>1, Markers, DeviceBoundAssumption DEF Scheduler
    <3> QED
      BY <1>0, <1>d, <3>1, <3>2 DEF TypeProtocol
  <2> QED
    BY <1>0, <1>22, <2>1 DEF NextMsg, TypeProtocol
<1>23. ASSUME AliveTimer
      PROVE  TypeProtocol'
  BY <1>0, <1>23 DEF AliveTimer, Firing, TimerHolds, Free, TypeProtocol
<1>24. ASSUME FireEnd
      PROVE  TypeProtocol'
  BY <1>0, <1>24 DEF FireEnd, Release, TypeProtocol
<1>25. ASSUME MsgSchedulerComplete
      PROVE  TypeProtocol'
  <2>1. iMsgSchedulers' \in [Scheduler -> Nat]
    BY <1>0, <1>d, <1>25, Markers DEF MsgSchedulerComplete, Completing, TypeProtocol
  <2> QED
    BY <1>0, <1>25, <2>1 DEF MsgSchedulerComplete, TypeProtocol
<1>26. ASSUME SubnetDisabled
      PROVE  TypeProtocol'
  <2>1. iSubnetDisableCount > 0
    BY <1>0, <1>c, <1>26, Distinct DEF SubnetDisabled
  <2>2. iSubnetDisableCount' = iSubnetDisableCount - 1
        /\ UNCHANGED <<protocol, iUpdateCount, iSuppressScheduledEvents, iMsgSchedulers,
                       iAliveTimer, listening, fired>>
    BY <1>26 DEF SubnetDisabled
  <2> QED
    BY <1>0, <2>1, <2>2 DEF TypeProtocol
<1>27. ASSUME ProtocolDisabled
      PROVE  TypeProtocol'
  BY <1>0, <1>27 DEF ProtocolDisabled, Free, RunDisableComplete, TypeProtocol
<1>28. ASSUME SubnetUpdated("timer")
      PROVE  TypeProtocol'
  <2>1. iUpdateCount > 0
    BY <1>0, <1>c, <1>28, Distinct DEF SubnetUpdated
  <2>2. iUpdateCount' = iUpdateCount - 1
        /\ UNCHANGED <<protocol, iSubnetDisableCount, iSuppressScheduledEvents, iMsgSchedulers,
                       iAliveTimer, listening, fired>>
    BY <1>28 DEF SubnetUpdated
  <2> QED
    BY <1>0, <2>1, <2>2 DEF TypeProtocol
<1>29. ASSUME AliveCheck("timer")
      PROVE  TypeProtocol'
  BY <1>0, <1>29 DEF AliveCheck, Free, After, TypeProtocol
<1>30. ASSUME AliveSend("timer")
      PROVE  TypeProtocol'
  BY <1>0, <1>30, <1>l DEF AliveSend, Free, RepeatAlive, After, TypeProtocol
<1>31. ASSUME NetChange
      PROVE  TypeProtocol'
  BY <1>0, <1>31 DEF NetChange, Take, TypeProtocol
<1>32. ASSUME NetCheck
      PROVE  TypeProtocol'
  BY <1>0, <1>32 DEF NetCheck, Free, Release, TypeProtocol
<1>33. ASSUME NetStop
      PROVE  TypeProtocol'
  BY <1>0, <1>33, <1>l DEF NetStop, Free, TypeProtocol
<1>34. ASSUME NetDelete
      PROVE  TypeProtocol'
  BY <1>0, <1>34 DEF NetDelete, Free, TypeProtocol
<1>35. ASSUME NetCancel
      PROVE  TypeProtocol'
  BY <1>0, <1>35 DEF NetCancel, CallbacksDone, Free, TypeProtocol
<1>36. ASSUME NetUpdate
      PROVE  TypeProtocol'
  BY <1>0, <1>36, <1>l DEF NetUpdate, Free, Release, TypeProtocol
<1>37. ASSUME NEW k \in Searches, Msearch(k)
      PROVE  TypeProtocol'
  BY <1>0, <1>37 DEF Msearch, Take, TypeProtocol
<1>38. ASSUME SearchCheck
      PROVE  TypeProtocol'
  BY <1>0, <1>38 DEF SearchCheck, Free, Release, TypeProtocol
<1>39. ASSUME SearchPush
      PROVE  TypeProtocol'
  BY <1>0, <1>39, <1>l DEF SearchPush, Free, Release, TypeProtocol
<1>40. ASSUME SearchLock
      PROVE  TypeProtocol'
  BY <1>0, <1>40 DEF SearchLock, Take, TypeProtocol
<1>41. ASSUME SearchEnabled
      PROVE  TypeProtocol'
  BY <1>0, <1>41, <1>l DEF SearchEnabled, Free, TypeProtocol
<1>42. ASSUME NEW s \in Sessions, Invoke(s)
      PROVE  TypeProtocol'
  BY <1>0, <1>42 DEF Invoke, ClearDisabled, TypeProtocol
<1>43. ASSUME NEW s \in Sessions, InvocationCompleted(s)
      PROVE  TypeProtocol'
  BY <1>0, <1>43 DEF InvocationCompleted, LastInvocation, TypeProtocol
<1> QED
  BY <1>1, <1>2, <1>3, <1>4, <1>5, <1>6, <1>7, <1>8, <1>9, <1>10, <1>11, <1>12, <1>13,
     <1>14, <1>15, <1>16, <1>17, <1>18, <1>19, <1>20, <1>21, <1>22, <1>23, <1>24, <1>25,
     <1>26, <1>27, <1>28, <1>29, <1>30, <1>31, <1>32, <1>33, <1>34, <1>35, <1>36, <1>37,
     <1>38, <1>39, <1>40, <1>41, <1>42, <1>43 DEF Next, ClientCall, CallStep,
     EnableStep, DisableStep, DestroyStep, TimerStep, NetStep, ListenerStep

-----------------------------------------------------------------------------
(* The invariant                                                            *)

LEMMA InitInv == Init => IInv
<1> SUFFICES ASSUME Init
             PROVE  IInv
  OBVIOUS
<1> USE DEF Init
<1>1. TypeDevice /\ TypeService
  BY DEF TypeDevice, TypeService
<1>2. TypeProtocol
  BY DEF TypeProtocol, Kinds
<1>3. TypeThreads
  BY Distinct, DeviceBoundAssumption DEF TypeThreads, AppPcs, TimerPcs, NetPcs,
     ListenerPcs
<1>4. CountsMatch
  <2>1. iMsgSchedulers \in List /\ \A r \in Scheduler : iMsgSchedulers[r] = 0
    BY DEF List
  <2>2. Announcing("byebye") = 0 /\ Announcing("update") = 0
    BY <2>1, NoneListed DEF Announcing
  <2>3. /\ {t \in Threads : pc[t] = "subnetDisabled"} = {}
        /\ {t \in Threads : pc[t] = "subnetUpdated"} = {}
    OBVIOUS
  <2>4. Reporting("subnetDisabled") = 0 /\ Reporting("subnetUpdated") = 0
    BY <2>3, FS_EmptySet DEF Reporting
  <2> QED
    BY <2>2, <2>4 DEF CountsMatch
<1>5. Callers /\ Knows /\ Shutdown /\ Byebyes /\ Locks
  BY Distinct DEF Callers, Knows, Shutdown, Byebyes, Locks, EnablePcs, EnabledPcs,
     DisablePcs, DeletePcs
<1>6. Ended /\ Completing
  BY Distinct DEF Ended, Completing
<1>7. Invocations
  <2>1. {s \in Sessions : pc[s] = "running"} = {}
    BY Distinct
  <2> QED
    BY <2>1, FS_EmptySet DEF Invocations
<1> QED
  BY <1>1, <1>2, <1>3, <1>4, <1>5, <1>6, <1>7 DEF IInv, TypeOK

LEMMA NextInv == IInv /\ [Next]_vars => IInv'
<1> SUFFICES ASSUME IInv, [Next]_vars
             PROVE  IInv'
  OBVIOUS
<1>1. CASE Next
  <2>1. TypeOK'
    BY <1>1, TypeDeviceNext, TypeServiceNext, TypeProtocolNext, TypeThreadsNext DEF TypeOK
  <2>2. CountsMatch' /\ Callers' /\ Knows' /\ Shutdown' /\ Byebyes'
    BY <1>1, CountsNext, CallersNext, KnowsNext, ShutdownNext, ByebyesNext
  <2>3. Locks' /\ Ended' /\ Completing' /\ Invocations'
    BY <1>1, LocksNext, EndedNext, CompletingNext, InvocationsNext
  <2> QED
    BY <2>1, <2>2, <2>3 DEF IInv
<1>2. CASE UNCHANGED vars
  <2> USE <1>2 DEF vars, deviceVars, serviceVars, protocolVars, countVars, callVars, boundVars
  <2>1. TypeOK'
    BY DEF IInv, TypeOK, TypeDevice, TypeService, TypeProtocol, TypeThreads
  <2>2. CountsMatch'
    BY DEF IInv, CountsMatch, Announcing, Each, InList, Reporting
  <2>3. Callers' /\ Knows' /\ Shutdown' /\ Byebyes'
    BY DEF IInv, Callers, Knows, Shutdown, Byebyes
  <2>4. Locks' /\ Ended' /\ Completing' /\ Invocations'
    BY DEF IInv, Locks, Ended, Completing, Invocations
  <2> QED
    BY <2>1, <2>2, <2>3, <2>4 DEF IInv
<1> QED
  BY <1>1, <1>2

(* Every state the device, its service and its protocol reach satisfies the *)
(* invariant above.                                                         *)
THEOREM Invariance == Spec => []IInv
BY InitInv, NextInv, PTL DEF Spec

(* Every variable has its type; in particular no count of completions goes  *)
(* below zero, whoever deletes, stops or fails to send messages meanwhile   *)
(* (the ASSERTs of SubnetDisabled, SubnetUpdated and ProtocolDisabled).     *)
THEOREM TypeCorrect == Spec => []TypeOK
<1>1. IInv => TypeOK
  BY DEF IInv
<1> QED
  BY Invariance, <1>1, PTL

(* DviProtocolUpnp counts exactly the byebyes and the updates whose         *)
(* completion is still to be reported, for every number of adapters and     *)
(* messages.                                                                *)
THEOREM CountsExact == Spec => []CountsMatch
<1>1. IInv => CountsMatch
  BY DEF IInv
<1> QED
  BY Invariance, <1>1, PTL

(* Destroy deletes the protocol after its last byebye, and no thread but    *)
(* the timer's work on an update is in it any more.                         *)
THEOREM DestroyLast == Spec => []DestroyComesLast
<1>1. IInv => DestroyComesLast
  <2> SUFFICES ASSUME IInv
               PROVE  DestroyComesLast
    OBVIOUS
  <2>0. /\ TypeProtocol /\ TypeThreads /\ CountsMatch /\ Callers /\ Knows /\ Byebyes
        /\ Ended /\ Completing
    BY DEF IInv, TypeOK
  <2>1. ASSUME NEW a \in Apps, Deleting(a)
        PROVE  /\ iEnabled = "disabled"
               /\ InList(iMsgSchedulers, "byebye") = {}
               /\ pc["timer"] \notin {"subnetDisabled", "protocolDisabled"}
    <3>1. destroyer = a
      BY <2>0, <2>1 DEF Deleting, TypeThreads, Callers, EnablePcs, EnabledPcs, DisablePcs
    <3>2. pc[a] \in DeletePcs
      BY <2>1 DEF Deleting, DeletePcs
    <3>3. /\ iEnabled = "disabled" /\ iSubnetDisableCount = 0
          /\ pc["timer"] # "protocolDisabled"
      BY <2>0, <3>1, <3>2 DEF Knows, Byebyes, TypeProtocol
    <3>4. \A r \in Scheduler : r.kind = "byebye" => iMsgSchedulers[r] = 0
      BY <2>0, <3>3, NoByebyes, NoneListed DEF Number, TypeProtocol, List
    <3>5. pc["timer"] # "subnetDisabled"
      BY <2>0, <3>3, CountAhead, Distinct
    <3> QED
      BY <3>3, <3>4, <3>5 DEF InList
  <2>2. ASSUME protocol = "deleted"
        PROVE  /\ pc["timer"] \notin {"complete", "subnetDisabled", "protocolDisabled"}
               /\ pc["net"] = "idle" /\ pc["listener"] = "idle"
               /\ listening = {} /\ ~iAliveTimer
    <3>1. PICK a \in Apps : pc[a] \in {"releaseDevice", "gone"}
      BY <2>0, <2>2 DEF Ended
    <3>2. destroyer = a
      BY <2>0, <3>1 DEF TypeThreads, Callers, EnablePcs, EnabledPcs, DisablePcs
    <3>3. /\ \A r \in Scheduler : iMsgSchedulers[r] = 0
          /\ pc["net"] = "idle" /\ pc["listener"] = "idle"
          /\ listening = {} /\ ~iAliveTimer
      BY <2>0, <3>1, <3>2 DEF Ended, DeletePcs
    <3>4. pc["timer"] # "complete"
      BY <2>0, <3>3, Markers DEF Completing, TypeProtocol
    <3>5. pc["timer"] \notin {"subnetDisabled", "protocolDisabled"}
      BY <2>1, <3>1 DEF Deleting
    <3> QED
      BY <3>3, <3>4, <3>5
  <2> QED
    BY <2>1, <2>2 DEF DestroyComesLast, DestroyWaitsForByebye, DeletedIsUnreachable
<1> QED
  BY Invariance, <1>1, PTL

-----------------------------------------------------------------------------
(* An enabled device goes on announcing itself                              *)

LEMMA KeptNext ==
  ASSUME IInv, Kept, Subnets # 0, Next
  PROVE  Kept'
<1> USE DEF deviceVars, serviceVars, countVars, protocolVars, callVars, boundVars
<1>0. TypeThreads /\ TypeProtocol /\ Kept /\ Callers
  BY DEF IInv, TypeOK
<1>1. ASSUME NEW a \in Apps, SetEnabled(a)
      PROVE  Kept'
  BY <1>0, <1>1, Distinct DEF SetEnabled, Goto, ClearShutdown, Disabling, TypeThreads,
     Kept
<1>2. ASSUME NEW a \in Apps, SetDisabled(a)
      PROVE  Kept'
  BY <1>0, <1>2, Distinct DEF SetDisabled, Goto, StartDisable, TypeThreads, Kept
<1>3. ASSUME NEW a \in Apps, Destroy(a)
      PROVE  Kept'
  BY <1>0, <1>3, Distinct DEF Destroy, Goto, StartDisable, TypeThreads, Kept
<1>4. ASSUME NEW a \in Apps, EnableWait(a)
      PROVE  Kept'
  BY <1>0, <1>4, Distinct DEF EnableWait, Goto, TypeThreads, TypeProtocol, Kept
<1>5. ASSUME NEW a \in Apps, EnableLock(a)
      PROVE  Kept'
  BY <1>0, <1>5, Distinct DEF EnableLock, Goto, ClearShutdown, TypeThreads, Kept
<1>6. ASSUME NEW a \in Apps, ProtocolEnable(a)
      PROVE  Kept'
  BY <1>0, <1>6, Distinct DEF ProtocolEnable, Goto, TypeThreads, Kept
<1>7. ASSUME NEW a \in Apps, AliveCheck(a)
      PROVE  Kept'
  BY <1>0, <1>7, Distinct DEF AliveCheck, Goto, TypeThreads, Kept
<1>8. ASSUME NEW a \in Apps, AliveSend(a)
      PROVE  Kept'
  BY <1>0, <1>8, Distinct DEF AliveSend, Goto, RepeatAlive, TypeThreads, Kept
<1>9. ASSUME NEW a \in Apps, ServiceEnable(a)
      PROVE  Kept'
  BY <1>0, <1>9, Distinct DEF ServiceEnable, Goto, TypeThreads, TypeProtocol, Kept
<1>10. ASSUME NEW a \in Apps, DisableProtocols(a)
      PROVE  Kept'
  BY <1>0, <1>10, Distinct DEF DisableProtocols, Goto, RunDisableComplete,
     ProtocolDisable, TypeThreads, Kept
<1>11. ASSUME NEW a \in Apps, ServiceDisable(a)
      PROVE  Kept'
  BY <1>0, <1>11, Distinct DEF ServiceDisable, Goto, TypeThreads, TypeProtocol, Kept
<1>12. ASSUME NEW a \in Apps, ServiceWait(a)
      PROVE  Kept'
  BY <1>0, <1>12, Distinct DEF ServiceWait, Goto, TypeThreads, Kept
<1>13. ASSUME NEW a \in Apps, ShutdownWait(a)
      PROVE  Kept'
  BY <1>0, <1>13, Distinct DEF ShutdownWait, Goto, TypeThreads, TypeProtocol, Kept
<1>14. ASSUME NEW a \in Apps, DeleteTimer(a)
      PROVE  Kept'
  BY <1>0, <1>14, Distinct DEF DeleteTimer, Goto, CallbacksDone, TypeThreads,
     TypeProtocol, Kept, Callers, EnablePcs, EnabledPcs, DisablePcs, DeletePcs
<1>15. ASSUME NEW a \in Apps, DeleteLock(a)
      PROVE  Kept'
  BY <1>0, <1>15, Distinct DEF DeleteLock, Goto, TypeThreads, Kept
<1>16. ASSUME NEW a \in Apps, DeleteListener(a)
      PROVE  Kept'
  BY <1>0, <1>16, Distinct DEF DeleteListener, Goto, TypeThreads, Kept
<1>17. ASSUME NEW a \in Apps, DeleteAdapters(a)
      PROVE  Kept'
  BY <1>0, <1>17, Distinct DEF DeleteAdapters, Goto, TypeThreads, Kept
<1>18. ASSUME NEW a \in Apps, DeleteScheduler(a)
      PROVE  Kept'
  BY <1>0, <1>18, Distinct DEF DeleteScheduler, Goto, CallbacksDone, TypeThreads, Kept
<1>19. ASSUME NEW a \in Apps, SubnetUpdated(a)
      PROVE  Kept'
  BY <1>0, <1>19, Distinct DEF SubnetUpdated, Goto, TypeThreads, TypeProtocol, Kept
<1>20. ASSUME NEW a \in Apps, DeleteProtocol(a)
      PROVE  Kept'
  BY <1>0, <1>20, Distinct DEF DeleteProtocol, Goto, TypeThreads, TypeProtocol, Kept
<1>21. ASSUME NEW a \in Apps, ReleaseDevice(a)
      PROVE  Kept'
  BY <1>0, <1>21, Distinct DEF ReleaseDevice, Goto, TypeThreads, Kept
<1>22. ASSUME NextMsg
      PROVE  Kept'
  BY <1>0, <1>22, Distinct DEF NextMsg, Goto, Firing, TimerHolds, TypeThreads, Kept
<1>23. ASSUME AliveTimer
      PROVE  Kept'
  BY <1>0, <1>23, Distinct DEF AliveTimer, Goto, Firing, TimerHolds, TypeThreads, Kept
<1>24. ASSUME FireEnd
      PROVE  Kept'
  BY <1>0, <1>24, Distinct DEF FireEnd, Goto, TypeThreads, Kept
<1>25. ASSUME MsgSchedulerComplete
      PROVE  Kept'
  BY <1>0, <1>25, Distinct DEF MsgSchedulerComplete, Goto, Completed, TypeThreads, Kept
<1>26. ASSUME SubnetDisabled
      PROVE  Kept'
  BY <1>0, <1>26, Distinct DEF SubnetDisabled, Goto, TypeThreads, Kept
<1>27. ASSUME ProtocolDisabled
      PROVE  Kept'
  BY <1>0, <1>27, Distinct DEF ProtocolDisabled, Goto, RunDisableComplete, TypeThreads,
     Kept
<1>28. ASSUME SubnetUpdated("timer")
      PROVE  Kept'
  BY <1>0, <1>28, Distinct DEF SubnetUpdated, Goto, TypeThreads, TypeProtocol, Kept
<1>29. ASSUME AliveCheck("timer")
      PROVE  Kept'
  BY <1>0, <1>29, Distinct DEF AliveCheck, Goto, TypeThreads, Kept
<1>30. ASSUME AliveSend("timer")
      PROVE  Kept'
  BY <1>0, <1>30, Distinct DEF AliveSend, Goto, RepeatAlive, TypeThreads, Kept
<1>31. ASSUME NetChange
      PROVE  Kept'
  BY <1>0, <1>31, Distinct DEF NetChange, Goto, TypeThreads, Kept
<1>32. ASSUME NetCheck
      PROVE  Kept'
  BY <1>0, <1>32, Distinct DEF NetCheck, Goto, TypeThreads, Kept
<1>33. ASSUME NetStop
      PROVE  Kept'
  BY <1>0, <1>33, Distinct DEF NetStop, Goto, TypeThreads, Kept
<1>34. ASSUME NetDelete
      PROVE  Kept'
  BY <1>0, <1>34, Distinct DEF NetDelete, Goto, TypeThreads, Kept
<1>35. ASSUME NetCancel
      PROVE  Kept'
  BY <1>0, <1>35, Distinct DEF NetCancel, Goto, CallbacksDone, TypeThreads, Kept
<1>36. ASSUME NetUpdate
      PROVE  Kept'
  BY <1>0, <1>36, Distinct, DeviceBoundAssumption DEF NetUpdate, Goto, TypeThreads,
     TypeProtocol, Kept
<1>37. ASSUME NEW k \in Searches, Msearch(k)
      PROVE  Kept'
  BY <1>0, <1>37, Distinct DEF Msearch, Goto, TypeThreads, Kept
<1>38. ASSUME SearchCheck
      PROVE  Kept'
  BY <1>0, <1>38, Distinct DEF SearchCheck, Goto, TypeThreads, Kept
<1>39. ASSUME SearchPush
      PROVE  Kept'
  BY <1>0, <1>39, Distinct DEF SearchPush, Goto, TypeThreads, Kept
<1>40. ASSUME SearchLock
      PROVE  Kept'
  BY <1>0, <1>40, Distinct DEF SearchLock, Goto, TypeThreads, Kept
<1>41. ASSUME SearchEnabled
      PROVE  Kept'
  BY <1>0, <1>41, Distinct DEF SearchEnabled, Goto, TypeThreads, Kept
<1>42. ASSUME NEW s \in Sessions, Invoke(s)
      PROVE  Kept'
  BY <1>0, <1>42, Distinct DEF Invoke, Goto, ClearDisabled, TypeThreads, Kept
<1>43. ASSUME NEW s \in Sessions, InvocationCompleted(s)
      PROVE  Kept'
  BY <1>0, <1>43, Distinct DEF InvocationCompleted, Goto, LastInvocation, TypeThreads,
     Kept
<1> QED
  BY <1>1, <1>2, <1>3, <1>4, <1>5, <1>6, <1>7, <1>8, <1>9, <1>10, <1>11, <1>12, <1>13,
     <1>14, <1>15, <1>16, <1>17, <1>18, <1>19, <1>20, <1>21, <1>22, <1>23, <1>24, <1>25,
     <1>26, <1>27, <1>28, <1>29, <1>30, <1>31, <1>32, <1>33, <1>34, <1>35, <1>36, <1>37,
     <1>38, <1>39, <1>40, <1>41, <1>42, <1>43 DEF Next, ClientCall, CallStep,
     EnableStep, DisableStep, DestroyStep, TimerStep, NetStep, ListenerStep

(* With an adapter at least, an enabled device has its alive timer set, or  *)
(* an update is out, or a thread is about to send alive messages or updates. *)
THEOREM StaysAnnounced == ASSUME Subnets # 0 PROVE Spec => []AliveKept
<1>1. Init => Kept
  BY DEF Init, Kept
<1>2. IInv /\ Kept /\ [Next]_vars => Kept'
  <2>1. ASSUME IInv, Kept, UNCHANGED vars
        PROVE  Kept'
    BY <2>1 DEF Kept, vars, deviceVars, protocolVars, countVars, callVars
  <2> QED
    BY <2>1, KeptNext
<1>3. Kept => AliveKept
  BY DEF Kept, AliveKept, AllIdle
<1> QED
  BY Invariance, <1>1, <1>2, <1>3, PTL DEF Spec

-----------------------------------------------------------------------------
(* One client thread: the gate of the service                               *)

LEMMA GateNext ==
  ASSUME IInv, Gate, OneClient, Next
  PROVE  Gate'
<1> USE DEF deviceVars, serviceVars, countVars, protocolVars, callVars, boundVars
<1>0. /\ TypeThreads /\ TypeService /\ Callers /\ Knows /\ Gate /\ OneClient /\ Shutdown
      /\ Byebyes
  BY DEF IInv, TypeOK
<1>i. Invocations
  BY DEF IInv
<1>1. ASSUME NEW a \in Apps, SetEnabled(a)
      PROVE  Gate'
  BY <1>0, <1>1, Distinct DEF SetEnabled, Goto, ClearShutdown, Disabling, TypeThreads,
     Gate, Closed, GateMatchesInvocations, Returned, OneClient
<1>2. ASSUME NEW a \in Apps, SetDisabled(a)
      PROVE  Gate'
  BY <1>0, <1>2, Distinct DEF SetDisabled, Goto, StartDisable, TypeThreads, Gate,
     Closed, GateMatchesInvocations, Returned, OneClient, EnablePcs, EnabledPcs,
     DisablePcs, DeletePcs
<1>3. ASSUME NEW a \in Apps, Destroy(a)
      PROVE  Gate'
  BY <1>0, <1>3, Distinct DEF Destroy, Goto, AllIdle, Free, Take, StartDisable,
     TypeThreads, TypeService, Gate, Closed, GateMatchesInvocations, Returned,
     OneClient, EnablePcs, EnabledPcs, DisablePcs, DeletePcs
<1>4. ASSUME NEW a \in Apps, EnableWait(a)
      PROVE  Gate'
  BY <1>0, <1>4, Distinct DEF EnableWait, Goto, TypeThreads, Gate, Closed,
     GateMatchesInvocations, Returned, OneClient, EnablePcs, EnabledPcs, DisablePcs,
     DeletePcs
<1>5. ASSUME NEW a \in Apps, EnableLock(a)
      PROVE  Gate'
  BY <1>0, <1>5, Distinct DEF EnableLock, Goto, ClearShutdown, TypeThreads, Gate,
     Closed, GateMatchesInvocations, Returned, OneClient, EnablePcs, EnabledPcs,
     DisablePcs, DeletePcs
<1>6. ASSUME NEW a \in Apps, ProtocolEnable(a)
      PROVE  Gate'
  BY <1>0, <1>6, Distinct DEF ProtocolEnable, Goto, TypeThreads, Gate, Closed,
     GateMatchesInvocations, Returned, OneClient, EnablePcs, EnabledPcs, DisablePcs,
     DeletePcs
<1>7. ASSUME NEW a \in Apps, AliveCheck(a)
      PROVE  Gate'
  BY <1>0, <1>7, Distinct DEF AliveCheck, Goto, TypeThreads, Gate, Closed,
     GateMatchesInvocations, Returned, OneClient, EnablePcs, EnabledPcs, DisablePcs,
     DeletePcs
<1>8. ASSUME NEW a \in Apps, AliveSend(a)
      PROVE  Gate'
  BY <1>0, <1>8, Distinct DEF AliveSend, Goto, RepeatAlive, TypeThreads, Gate, Closed,
     GateMatchesInvocations, Returned, OneClient, EnablePcs, EnabledPcs, DisablePcs,
     DeletePcs
<1>9. ASSUME NEW a \in Apps, ServiceEnable(a)
      PROVE  Gate'
  BY <1>0, <1>9, Distinct DEF ServiceEnable, Goto, TypeThreads, TypeService, Callers,
     Knows, Gate, Closed, GateMatchesInvocations, Returned, OneClient, EnablePcs,
     EnabledPcs, DisablePcs, DeletePcs
<1>10. ASSUME NEW a \in Apps, DisableProtocols(a)
      PROVE  Gate'
  BY <1>0, <1>10, Distinct DEF DisableProtocols, Goto, RunDisableComplete,
     ProtocolDisable, TypeThreads, Gate, Closed, GateMatchesInvocations, Returned,
     OneClient, EnablePcs, EnabledPcs, DisablePcs, DeletePcs
<1>11. ASSUME NEW a \in Apps, ServiceDisable(a)
      PROVE  Gate'
  BY <1>0, <1>11, Distinct DEF ServiceDisable, Goto, TypeThreads, Gate, Closed,
     GateMatchesInvocations, Returned, OneClient, EnablePcs, EnabledPcs, DisablePcs,
     DeletePcs
<1>12. ASSUME NEW a \in Apps, ServiceWait(a)
      PROVE  Gate'
  BY <1>0, <1>12, Distinct DEF ServiceWait, Goto, TypeThreads, Gate, Closed,
     GateMatchesInvocations, Returned, OneClient
<1>13. ASSUME NEW a \in Apps, ShutdownWait(a)
      PROVE  Gate'
  BY <1>0, <1>13, Distinct DEF ShutdownWait, Goto, TypeThreads, Gate, Closed,
     GateMatchesInvocations, Returned, OneClient, EnablePcs, EnabledPcs, DisablePcs,
     DeletePcs
<1>14. ASSUME NEW a \in Apps, DeleteTimer(a)
      PROVE  Gate'
  BY <1>0, <1>14, Distinct DEF DeleteTimer, Goto, CallbacksDone, TypeThreads, Gate,
     Closed, GateMatchesInvocations, Returned, OneClient, EnablePcs, EnabledPcs,
     DisablePcs, DeletePcs
<1>15. ASSUME NEW a \in Apps, DeleteLock(a)
      PROVE  Gate'
  BY <1>0, <1>15, Distinct DEF DeleteLock, Goto, TypeThreads, Gate, Closed,
     GateMatchesInvocations, Returned, OneClient, EnablePcs, EnabledPcs, DisablePcs,
     DeletePcs
<1>16. ASSUME NEW a \in Apps, DeleteListener(a)
      PROVE  Gate'
  BY <1>0, <1>16, Distinct DEF DeleteListener, Goto, TypeThreads, Gate, Closed,
     GateMatchesInvocations, Returned, OneClient, EnablePcs, EnabledPcs, DisablePcs,
     DeletePcs
<1>17. ASSUME NEW a \in Apps, DeleteAdapters(a)
      PROVE  Gate'
  BY <1>0, <1>17, Distinct DEF DeleteAdapters, Goto, TypeThreads, Gate, Closed,
     GateMatchesInvocations, Returned, OneClient, EnablePcs, EnabledPcs, DisablePcs,
     DeletePcs
<1>18. ASSUME NEW a \in Apps, DeleteScheduler(a)
      PROVE  Gate'
  BY <1>0, <1>18, Distinct DEF DeleteScheduler, Goto, CallbacksDone, TypeThreads, Gate,
     Closed, GateMatchesInvocations, Returned, OneClient, EnablePcs, EnabledPcs,
     DisablePcs, DeletePcs
<1>19. ASSUME NEW a \in Apps, SubnetUpdated(a)
      PROVE  Gate'
  BY <1>0, <1>19, Distinct DEF SubnetUpdated, Goto, TypeThreads, TypeService, Callers,
     Knows, Gate, Closed, GateMatchesInvocations, Returned, OneClient, EnablePcs,
     EnabledPcs, DisablePcs, DeletePcs
<1>20. ASSUME NEW a \in Apps, DeleteProtocol(a)
      PROVE  Gate'
  BY <1>0, <1>20, Distinct DEF DeleteProtocol, Goto, TypeThreads, Gate, Closed,
     GateMatchesInvocations, Returned, OneClient, EnablePcs, EnabledPcs, DisablePcs,
     DeletePcs
<1>21. ASSUME NEW a \in Apps, ReleaseDevice(a)
      PROVE  Gate'
  BY <1>0, <1>21, Distinct DEF ReleaseDevice, Goto, TypeThreads, Gate, Closed,
     GateMatchesInvocations, Returned, OneClient, EnablePcs, EnabledPcs, DisablePcs,
     DeletePcs
<1>22. ASSUME NextMsg
      PROVE  Gate'
  BY <1>0, <1>22, Distinct DEF NextMsg, Goto, Firing, TimerHolds, TypeThreads, Gate,
     Closed, GateMatchesInvocations, Returned, OneClient
<1>23. ASSUME AliveTimer
      PROVE  Gate'
  BY <1>0, <1>23, Distinct DEF AliveTimer, Goto, Firing, TimerHolds, TypeThreads, Gate,
     Closed, GateMatchesInvocations, Returned, OneClient
<1>24. ASSUME FireEnd
      PROVE  Gate'
  BY <1>0, <1>24, Distinct DEF FireEnd, Goto, TypeThreads, Gate, Closed,
     GateMatchesInvocations, Returned, OneClient
<1>25. ASSUME MsgSchedulerComplete
      PROVE  Gate'
  BY <1>0, <1>25, Distinct DEF MsgSchedulerComplete, Goto, Completed, TypeThreads, Gate,
     Closed, GateMatchesInvocations, Returned, OneClient
<1>26. ASSUME SubnetDisabled
      PROVE  Gate'
  BY <1>0, <1>26, Distinct DEF SubnetDisabled, Goto, TypeThreads, Gate, Closed,
     GateMatchesInvocations, Returned, OneClient
<1>27. ASSUME ProtocolDisabled
      PROVE  Gate'
  BY <1>0, <1>27, Distinct DEF ProtocolDisabled, Goto, RunDisableComplete, TypeThreads,
     TypeService, Gate, Closed, GateMatchesInvocations, Returned, OneClient, Byebyes
<1>28. ASSUME SubnetUpdated("timer")
      PROVE  Gate'
  BY <1>0, <1>28, Distinct DEF SubnetUpdated, Goto, TypeThreads, Gate, Closed,
     GateMatchesInvocations, Returned, OneClient
<1>29. ASSUME AliveCheck("timer")
      PROVE  Gate'
  BY <1>0, <1>29, Distinct DEF AliveCheck, Goto, TypeThreads, Gate, Closed,
     GateMatchesInvocations, Returned, OneClient
<1>30. ASSUME AliveSend("timer")
      PROVE  Gate'
  BY <1>0, <1>30, Distinct DEF AliveSend, Goto, RepeatAlive, TypeThreads, Gate, Closed,
     GateMatchesInvocations, Returned, OneClient
<1>31. ASSUME NetChange
      PROVE  Gate'
  BY <1>0, <1>31, Distinct DEF NetChange, Goto, TypeThreads, Gate, Closed,
     GateMatchesInvocations, Returned, OneClient
<1>32. ASSUME NetCheck
      PROVE  Gate'
  BY <1>0, <1>32, Distinct DEF NetCheck, Goto, TypeThreads, Gate, Closed,
     GateMatchesInvocations, Returned, OneClient
<1>33. ASSUME NetStop
      PROVE  Gate'
  BY <1>0, <1>33, Distinct DEF NetStop, Goto, TypeThreads, Gate, Closed,
     GateMatchesInvocations, Returned, OneClient
<1>34. ASSUME NetDelete
      PROVE  Gate'
  BY <1>0, <1>34, Distinct DEF NetDelete, Goto, TypeThreads, Gate, Closed,
     GateMatchesInvocations, Returned, OneClient
<1>35. ASSUME NetCancel
      PROVE  Gate'
  BY <1>0, <1>35, Distinct DEF NetCancel, Goto, CallbacksDone, TypeThreads, Gate,
     Closed, GateMatchesInvocations, Returned, OneClient
<1>36. ASSUME NetUpdate
      PROVE  Gate'
  BY <1>0, <1>36, Distinct DEF NetUpdate, Goto, TypeThreads, Gate, Closed,
     GateMatchesInvocations, Returned, OneClient
<1>37. ASSUME NEW k \in Searches, Msearch(k)
      PROVE  Gate'
  BY <1>0, <1>37, Distinct DEF Msearch, Goto, TypeThreads, Gate, Closed,
     GateMatchesInvocations, Returned, OneClient
<1>38. ASSUME SearchCheck
      PROVE  Gate'
  BY <1>0, <1>38, Distinct DEF SearchCheck, Goto, TypeThreads, Gate, Closed,
     GateMatchesInvocations, Returned, OneClient
<1>39. ASSUME SearchPush
      PROVE  Gate'
  BY <1>0, <1>39, Distinct DEF SearchPush, Goto, TypeThreads, Gate, Closed,
     GateMatchesInvocations, Returned, OneClient
<1>40. ASSUME SearchLock
      PROVE  Gate'
  BY <1>0, <1>40, Distinct DEF SearchLock, Goto, TypeThreads, Gate, Closed,
     GateMatchesInvocations, Returned, OneClient
<1>41. ASSUME SearchEnabled
      PROVE  Gate'
  BY <1>0, <1>41, Distinct DEF SearchEnabled, Goto, TypeThreads, Gate, Closed,
     GateMatchesInvocations, Returned, OneClient
<1>42. ASSUME NEW s \in Sessions, Invoke(s)
      PROVE  Gate'
  BY <1>0, <1>42, Distinct DEF Invoke, Goto, ClearDisabled, TypeThreads, TypeService,
     Gate, Closed, GateMatchesInvocations, Returned, OneClient
<1>43. ASSUME NEW s \in Sessions, InvocationCompleted(s)
      PROVE  Gate'
  <2>1. iCurrentInvocationCount > 0
    BY <1>0, <1>i, <1>43, Running DEF InvocationCompleted
  <2>2. iDisabledSem = 0 /\ iCurrentInvocationCount \in Nat
    BY <1>0, <2>1 DEF Gate, GateMatchesInvocations, TypeService
  <2>3. GateMatchesInvocations'
    BY <1>43, <2>1, <2>2 DEF InvocationCompleted, LastInvocation, GateMatchesInvocations
  <2>4. (\A a \in Apps : pc'[a] = pc[a]) /\ UNCHANGED <<iDisabled, iEnabled>>
    BY <1>0, <1>43, Distinct DEF InvocationCompleted, Goto, TypeThreads
  <2>5. ~Closed
    BY <2>1, <2>2 DEF Closed
  <2> QED
    BY <1>0, <2>3, <2>4, <2>5 DEF Gate, Returned
<1> QED
  BY <1>1, <1>2, <1>3, <1>4, <1>5, <1>6, <1>7, <1>8, <1>9, <1>10, <1>11, <1>12, <1>13,
     <1>14, <1>15, <1>16, <1>17, <1>18, <1>19, <1>20, <1>21, <1>22, <1>23, <1>24, <1>25,
     <1>26, <1>27, <1>28, <1>29, <1>30, <1>31, <1>32, <1>33, <1>34, <1>35, <1>36, <1>37,
     <1>38, <1>39, <1>40, <1>41, <1>42, <1>43 DEF Next, ClientCall, CallStep,
     EnableStep, DisableStep, DestroyStep, TimerStep, NetStep, ListenerStep

LEMMA GateInvariance == ASSUME OneClient PROVE Spec => []Gate
<1>1. Init => Gate
  BY Distinct DEF Init, Gate, Closed, GateMatchesInvocations, EnablePcs, EnabledPcs
<1>2. IInv /\ Gate /\ [Next]_vars => Gate'
  <2>1. ASSUME IInv, Gate, UNCHANGED vars
        PROVE  Gate'
    BY <2>1 DEF Gate, Closed, GateMatchesInvocations, Returned, vars, deviceVars,
       serviceVars, callVars
  <2> QED
    BY <2>1, GateNext
<1> QED
  BY Invariance, <1>1, <1>2, PTL DEF Spec

(* With one client thread the semaphore that SetDisabled waits for is free  *)
(* exactly when no invocation runs, for every number of sessions.           *)
THEOREM GateExact == ASSUME OneClient PROVE Spec => []GateMatchesInvocations
<1>1. Gate => GateMatchesInvocations
  BY DEF Gate
<1> QED
  BY GateInvariance, <1>1, PTL

(* With one client thread no invocation runs, and none starts, when a       *)
(* SetDisabled has returned or Destroy has passed it: the client may delete *)
(* its provider.                                                            *)
THEOREM QuietAfterDisable == ASSUME OneClient PROVE Spec => []QuietWhenDisabled
<1>1. IInv /\ Gate => QuietWhenDisabled
  BY DEF Gate, QuietWhenDisabled, Closed, OneClient
<1> QED
  BY Invariance, GateInvariance, <1>1, PTL
====
