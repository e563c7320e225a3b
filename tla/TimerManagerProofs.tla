------------------------- MODULE TimerManagerProofs -------------------------
(***************************************************************************)
(* The safety of TimerManager, proved for any timers, any threads that arm *)
(* them, any width of a time and any delays and lateness within half of    *)
(* it.  Nothing is assumed of who arms a timer: what depends on a timer    *)
(* having one owner (Own) is said of those that have one.                  *)
(*                                                                         *)
(* The proof looks at a thread by where it is or goes on after it has told *)
(* the manager of a new head (at), so that what a thread does in           *)
(* HeadChanged changes nothing but Pauses and what the manager is told.    *)
(***************************************************************************)
EXTENDS TimerManager, Counting

at == [x \in Threads |-> IF pc[x] \in {"prime", "signal"} THEN then[x] ELSE pc[x]]

CallerPcs  == {"idle", "lock", "remove", "add", "unlock"}
ManagerPcs == {"sleep", "check", "wait", "fire", "addNow", "lock", "head", "callback",
               "remove", "add", "unlock", "stopped"}

(* Only HeadChanged keeps the queue's mutex between two steps.             *)
Pauses ==
  /\ \A x \in Threads : pc[x] \in {"prime", "signal"} <=> qLock = x
  /\ \A x \in Threads : qLock # x => then[x] = "idle"
  /\ qLock # None => queue # <<>>
  /\ IsInjective(queue)

(* The timers that one thread arms at most, and those of them that are     *)
(* quiet.                                                                  *)
Own    == {t \in Timers : OwnedByOne(t)}
Silent == quiet \cap Own

(* Who has the callback mutex, what a thread works on, and when the entry  *)
(* for the present is in the queue.                                        *)
Control ==
  /\ \A c \in Callers :
       /\ at[c] \in CallerPcs
       /\ at[c] # "idle" => arg[c] \in Timers /\ c \in UsedBy[arg[c]] /\ arg[c] \notin Silent
       /\ cbLock = c => at[c] \in {"remove", "unlock"}
       /\ at[c] = "unlock" => cbLock = c
  /\ at[Manager] \in ManagerPcs
  /\ cbLock = Manager <=> at[Manager] \in {"head", "callback", "remove", "add", "unlock"}
  /\ at[Manager] \in {"callback", "remove", "add"} => arg[Manager] \in Timers
  /\ at[Manager] \in {"remove", "add"} => arg[Manager] \in Periodic
  /\ Linked(iNow) <=> at[Manager] \in {"lock", "head", "callback", "remove", "add"}
  /\ iStopped <=> at[Manager] = "stopped"

Removing ==
  /\ iRemoving => at[Manager] = "addNow" \/ Linked(iNow)
  /\ iRemoving /\ queue # <<>> => Head(queue) # iNow

Busy(t) == at[Manager] \in {"callback", "remove", "add"} /\ arg[Manager] = t
Arming(x) == at[x] = "add" \/ (at[x] = "remove" /\ (cbLock # x \/ x = Manager))

(* A timer that one thread arms is out of the queue before it is put       *)
(* there, and nobody else puts it there: not the manager for one that is   *)
(* armed from outside.                                                     *)
Owners ==
  /\ \A c \in Callers : Arming(c) /\ arg[c] \in Periodic \cap Own => ~Linked(arg[c]) /\ ~Busy(arg[c])
  /\ \A c \in Callers : at[c] \in {"add", "unlock"} /\ arg[c] \in Own => ~Linked(arg[c])
  /\ at[Manager] = "add" /\ arg[Manager] \in Own => ~Linked(arg[Manager])
  /\ \A t \in Silent : ~Linked(t) /\ ~Busy(t)

(* Times that are within half of the word of each other, and from now.     *)
Reach(a) == a \in Time /\ -MaxLate <= Left(a) /\ 2 * (Left(a) + MaxLate) < Width

Ordered(q, T) == \A i, j \in 1..Len(q) : i < j => Left(T[q[i]]) <= Left(T[q[j]])

Times ==
  ~iStopped =>
    /\ \A e \in Range(queue) : Reach(iTime[e])
    /\ \A x \in Threads : Arming(x) \/ at[x] = "addNow" => Reach(when[x])
    /\ Ordered(queue, iTime)
    /\ Linked(iNow) => Left(iTime[iNow]) <= 1
    /\ at[Manager] = "addNow" => Left(when[Manager]) <= 1

(* The manager has been told of the head, unless it is to remove it.       *)
Told ==
  ~iRemoving /\ queue # <<>> /\ Head(queue) # iNow /\ (qLock = None \/ pc[qLock] = "signal")
    => iNextTimer = iTime[Head(queue)]

(* It does not sleep on a queue that has a timer, and when it has not been *)
(* signalled it waits for what it was told last.                           *)
Awake ==
  /\ at[Manager] \in {"unlock", "sleep"} /\ qLock = None /\ queue # <<>> => iSemaphore > 0
  /\ at[Manager] = "wait" /\ iSemaphore = 0 /\ (qLock = None \/ pc[qLock] = "prime")
       => when[Manager] = iNextTimer

IInv ==
  /\ TypeOK
  /\ Pauses
  /\ Control
  /\ Removing
  /\ Owners
  /\ Times
  /\ Told
  /\ Awake

-----------------------------------------------------------------------------
(* The names are different things.                                         *)
LEMMA Names ==
  /\ Manager \in Threads /\ Callers \subseteq Threads /\ Manager \notin Callers
  /\ \A x \in Threads : x \in Callers \/ x = Manager
  /\ None \notin Threads /\ None \notin Entries
  /\ iNow \in Entries /\ iNow \notin Timers /\ Timers \subseteq Entries
  /\ \A e \in Entries : e \in Timers \/ e = iNow
BY NoneAssumption, ThreadAssumption DEF Threads, Entries

(* The present, and a delay from now, are times that are as far away as    *)
(* they say.                                                               *)
LEMMA DelayInReach ==
  ASSUME NEW d \in Delays \union {1}
  PROVE  d \in Time /\ Left(d) = d /\ Reach(d)
<1>1. Width \in Nat /\ MaxLate \in Nat /\ d \in Nat /\ 2 * (d + MaxLate) < Width
  BY WidthAssumption
<1>2. (d - 0) % Width = d
  BY <1>1
<1> QED
  BY <1>1, <1>2 DEF Time, Left, Minus, Reach

LEMMA NowIsTime == 0 \in Time /\ 1 \in Time /\ Left(1) = 1 /\ Reach(0) /\ Reach(1)
<1>1. Width \in Nat /\ MaxLate \in Nat /\ 2 * (1 + MaxLate) < Width
  BY WidthAssumption
<1>2. (0 - 0) % Width = 0
  BY <1>1
<1>3. 0 \in Time /\ Reach(0)
  BY <1>1, <1>2 DEF Time, Reach, Left, Minus
<1> QED
  BY <1>3, DelayInReach

LEMMA WidthFacts ==
  Width \in Nat /\ MaxLate \in Nat /\ MaxSignals \in Nat /\ 2 * (1 + MaxLate) < Width /\ Width > 0
<1>1. Width \in Nat /\ MaxLate \in Nat /\ MaxSignals \in Nat /\ 2 * (1 + MaxLate) < Width
  BY WidthAssumption
<1> QED
  BY <1>1

(* In reach, times are compared as the distances from now are.             *)
LEMMA Compared ==
  ASSUME NEW a, NEW b, Reach(a), Reach(b)
  PROVE  Left(a) \in Int /\ Left(b) \in Int /\ Minus(a, b) = Left(a) - Left(b)
<1>1. Width \in Nat /\ MaxLate \in Nat /\ Width > 0
  BY WidthFacts
<1>2. a \in 0..(Width - 1) /\ b \in 0..(Width - 1)
  BY DEF Reach, Time
<1>3. Left(a) = IF 2 * a < Width THEN a ELSE a - Width
  <2>1. (a - 0) % Width = a
    BY <1>1, <1>2
  <2> QED
    BY <2>1 DEF Left, Minus
<1>4. Left(b) = IF 2 * b < Width THEN b ELSE b - Width
  <2>1. (b - 0) % Width = b
    BY <1>1, <1>2
  <2> QED
    BY <2>1 DEF Left, Minus
<1>5. Left(a) \in Int /\ Left(b) \in Int
  BY <1>1, <1>2, <1>3, <1>4
<1>6. /\ -MaxLate <= Left(a) /\ 2 * (Left(a) + MaxLate) < Width
      /\ -MaxLate <= Left(b) /\ 2 * (Left(b) + MaxLate) < Width
  BY DEF Reach
<1> DEFINE d == (a - b) % Width
<1>7. CASE a >= b
  <2>1. d = a - b
    BY <1>1, <1>2, <1>7
  <2> QED
    BY <1>1, <1>2, <1>3, <1>4, <1>6, <1>7, <2>1 DEF Minus
<1>8. CASE a < b
  <2>1. d = a - b + Width
    BY <1>1, <1>2, <1>8
  <2> QED
    BY <1>1, <1>2, <1>3, <1>4, <1>6, <1>8, <2>1 DEF Minus
<1> QED
  BY <1>2, <1>5, <1>7, <1>8

(* When a millisecond passes, a time comes nearer by one.                  *)
LEMMA Nearer ==
  ASSUME NEW a \in Time
  PROVE  /\ (a - 1) % Width \in Time
         /\ Reach(a) /\ Left(a) > -MaxLate =>
              /\ Left((a - 1) % Width) = Left(a) - 1
              /\ Reach((a - 1) % Width)
<1>1. Width \in Nat /\ MaxLate \in Nat /\ 2 * (1 + MaxLate) < Width
  BY WidthFacts
<1>2. a \in 0..(Width - 1)
  BY DEF Time
<1>3. (a - 1) % Width = IF a = 0 THEN Width - 1 ELSE a - 1
  <2>1. CASE a = 0
    <3>1. (0 - 1) % Width = 0 - 1 + Width
      BY <1>1
    <3> QED
      BY <1>1, <2>1, <3>1
  <2>2. CASE a # 0
    BY <1>1, <1>2, <2>2
  <2> QED
    BY <2>1, <2>2
<1>4. (a - 1) % Width \in Time
  BY <1>1, <1>2, <1>3 DEF Time
<1>5. \A c \in Time : Left(c) = IF 2 * c < Width THEN c ELSE c - Width
  <2>1. ASSUME NEW c \in Time
        PROVE  (c - 0) % Width = c
    BY <1>1 DEF Time
  <2> QED
    BY <2>1 DEF Left, Minus
<1> QED
  BY <1>1, <1>2, <1>3, <1>4, <1>5 DEF Reach

-----------------------------------------------------------------------------
(* The queue stays a queue of different entries in the order of times.     *)
LEMMA Placed ==
  ASSUME queue \in Seq(Entries), IsInjective(queue),
         NEW e \in Entries, ~Linked(e), NEW time \in Time
  PROVE  /\ Place(e, time) \in Seq(Entries) /\ Place(e, time) # <<>>
         /\ IsInjective(Place(e, time)) /\ Range(Place(e, time)) = Range(queue) \cup {e}
         /\ \E k \in 0..Len(queue) :
              /\ Place(e, time) = InsertAt(queue, k + 1, e)
              /\ \A i \in 1..k : Minus(time, iTime[queue[i]]) > 0
              /\ k < Len(queue) => ~(Minus(time, iTime[queue[k + 1]]) > 0)
<1> DEFINE Earlier(j) == Minus(time, iTime[queue[j]]) > 0
           earlier == {i \in 1..Len(queue) : \A j \in 1..i : Earlier(j)}
           k == Cardinality(earlier)
<1>1. Len(queue) \in Nat
  OBVIOUS
<1>2. k \in 0..Len(queue) /\ earlier = 1..k
  <2>1. earlier \in SUBSET (1..Len(queue)) /\ \A i \in earlier : 1..i \subseteq earlier
    OBVIOUS
  <2> QED
    BY <1>1, <2>1, CountedThrough
<1>3. Place(e, time) = InsertAt(queue, k + 1, e)
  BY DEF Place
<1>4. \A i \in 1..k : Earlier(i)
  BY <1>2
<1>5. ASSUME k < Len(queue)
      PROVE  ~Earlier(k + 1)
  <2> DEFINE n == k
  <2>1. n \in 0..Len(queue) /\ n < Len(queue) /\ n + 1 \notin earlier /\ \A i \in 1..n : Earlier(i)
    <3> HIDE DEF Earlier, earlier
    <3> QED
      BY <1>1, <1>2, <1>4, <1>5
  <2> HIDE DEF Earlier, n
  <2>2. \A i \in 1..(n + 1) : i = n + 1 \/ i \in 1..n
    BY <2>1
  <2>3. n + 1 \in 1..Len(queue)
    BY <1>1, <2>1
  <2> QED
    BY <2>1, <2>2, <2>3 DEF n
<1> HIDE DEF k, earlier
<1>6. k + 1 \in 1..(Len(queue) + 1)
  BY <1>1, <1>2
<1>7. /\ Place(e, time) \in Seq(Entries) /\ Len(Place(e, time)) = Len(queue) + 1
      /\ IsInjective(Place(e, time)) /\ Range(Place(e, time)) = Range(queue) \cup {e}
  BY <1>3, <1>6, InsertElements DEF Linked
<1>8. Place(e, time) # <<>>
  BY <1>1, <1>7
<1> QED
  BY <1>2, <1>3, <1>4, <1>5, <1>7, <1>8

LEMMA PlacedInOrder ==
  ASSUME queue \in Seq(Entries), IsInjective(queue), iTime \in [Entries -> Time],
         NEW e \in Entries, ~Linked(e), NEW time, Reach(time),
         \A f \in Range(queue) : Reach(iTime[f]), Ordered(queue, iTime)
  PROVE  Ordered(Place(e, time), [iTime EXCEPT ![e] = time])
<1> DEFINE T == [iTime EXCEPT ![e] = time]
           P == Place(e, time)
<1>0. time \in Time
  BY DEF Reach
<1>1. PICK k \in 0..Len(queue) :
        /\ P = InsertAt(queue, k + 1, e)
        /\ \A i \in 1..k : Minus(time, iTime[queue[i]]) > 0
        /\ k < Len(queue) => ~(Minus(time, iTime[queue[k + 1]]) > 0)
  BY <1>0, Placed
<1>2. Len(queue) \in Nat /\ DOMAIN queue = 1..Len(queue) /\ k + 1 \in 1..(Len(queue) + 1)
  BY <1>1
<1>3. /\ Len(P) = Len(queue) + 1
      /\ \A j \in 1..(Len(queue) + 1) :
           P[j] = IF j < k + 1 THEN queue[j] ELSE IF j = k + 1 THEN e ELSE queue[j - 1]
  BY <1>1, <1>2, InsertElements, SMTT(30)
<1>4. ASSUME NEW i \in 1..Len(queue)
      PROVE  /\ T[queue[i]] = iTime[queue[i]] /\ Left(iTime[queue[i]]) \in Int
             /\ Left(time) \in Int
             /\ Minus(time, iTime[queue[i]]) = Left(time) - Left(iTime[queue[i]])
  <2>1. queue[i] \in Range(queue) /\ queue[i] # e /\ queue[i] \in Entries
    BY <1>2 DEF Range, Linked
  <2>2. Reach(iTime[queue[i]])
    BY <2>1
  <2> QED
    BY <2>1, <2>2, Compared
<1>5. T[e] = time
  OBVIOUS
<1> DEFINE L(i) == Left(iTime[queue[i]])
<1>6. \A i \in 1..k : L(i) < Left(time)
  <2>1. ASSUME NEW i \in 1..k
        PROVE  L(i) < Left(time)
    <3>1. i \in 1..Len(queue) /\ Minus(time, iTime[queue[i]]) > 0
      BY <1>1, <1>2
    <3> QED
      BY <1>4, <3>1
  <2> QED
    BY <2>1
<1>7. \A i \in 1..Len(queue) : i > k => Left(time) <= L(i)
  <2>1. ASSUME NEW i \in 1..Len(queue), i > k
        PROVE  Left(time) <= L(i)
    <3>1. k + 1 \in 1..Len(queue) /\ ~(Minus(time, iTime[queue[k + 1]]) > 0)
      BY <1>1, <1>2, <2>1
    <3>2. Left(time) <= L(k + 1)
      BY <1>4, <3>1
    <3>3. k + 1 = i \/ k + 1 < i
      BY <1>2, <2>1
    <3>4. L(k + 1) <= L(i)
      BY <1>4, <3>1, <3>3 DEF Ordered
    <3> QED
      BY <1>4, <3>1, <3>2, <3>4
  <2> QED
    BY <2>1
<1>8. \A i, j \in 1..Len(queue) : i < j => L(i) <= L(j)
  BY DEF Ordered
<1>9. \A i \in 1..Len(queue) : L(i) \in Int
  BY <1>4
<1>10. ASSUME NEW i \in 1..(Len(queue) + 1), NEW j \in 1..(Len(queue) + 1), i < j
       PROVE  Left(T[P[i]]) <= Left(T[P[j]])
  <2>1. ASSUME NEW m \in 1..(Len(queue) + 1)
        PROVE  /\ m < k + 1 => m \in 1..Len(queue) /\ Left(T[P[m]]) = L(m) /\ m \in 1..k
               /\ m = k + 1 => Left(T[P[m]]) = Left(time)
               /\ m > k + 1 => m - 1 \in 1..Len(queue) /\ m - 1 > k /\ Left(T[P[m]]) = L(m - 1)
    <3> HIDE DEF P, T
    <3>1. CASE m < k + 1
      <4>1. m \in 1..Len(queue) /\ m \in 1..k /\ P[m] = queue[m]
        BY <1>2, <1>3, <3>1
      <4> QED
        BY <1>4, <3>1, <4>1
    <3>2. CASE m = k + 1
      BY <1>2, <1>3, <1>5, <3>2
    <3>3. CASE m > k + 1
      <4>1. PICK n \in 1..Len(queue) : n = m - 1 /\ n > k /\ P[m] = queue[n]
        BY <1>2, <1>3, <3>3
      <4>2. Left(T[P[m]]) = L(n)
        BY <1>4, <4>1
      <4> QED
        BY <1>2, <3>3, <4>1, <4>2
    <3> QED
      BY <1>2, <3>1, <3>2, <3>3
  <2> HIDE DEF P, T, L
  <2>2. CASE i < k + 1 /\ j < k + 1
    BY <1>8, <1>10, <2>1, <2>2
  <2>3. CASE i < k + 1 /\ j = k + 1
    BY <1>6, <1>9, <2>1, <2>3, Compared
  <2>4. CASE i < k + 1 /\ j > k + 1
    <3>1. i < j - 1
      BY <1>2, <2>1, <2>4
    <3> QED
      BY <1>8, <2>1, <2>4, <3>1
  <2>5. CASE i = k + 1 /\ j > k + 1
    BY <1>7, <2>1, <2>5
  <2>6. CASE i > k + 1 /\ j > k + 1
    <3>1. i - 1 < j - 1
      BY <1>2, <1>10
    <3> QED
      BY <1>8, <2>1, <2>6, <3>1
  <2> QED
    BY <1>2, <1>10, <2>2, <2>3, <2>4, <2>5, <2>6
<1> QED
  BY <1>3, <1>10 DEF Ordered

LEMMA ShrunkInOrder ==
  ASSUME queue \in Seq(Entries), IsInjective(queue), iTime \in [Entries -> Time],
         NEW p \in 1..Len(queue), Ordered(queue, iTime)
  PROVE  Ordered(RemoveAt(queue, p), [iTime EXCEPT ![queue[p]] = 0])
<1> DEFINE T == [iTime EXCEPT ![queue[p]] = 0]
           r == RemoveAt(queue, p)
<1>1. Len(queue) \in Nat /\ DOMAIN queue = 1..Len(queue) /\ \A i \in 1..Len(queue) : queue[i] \in Entries
  OBVIOUS
<1>2. /\ Len(r) = Len(queue) - 1
      /\ \A j \in 1..(Len(queue) - 1) : r[j] = IF j < p THEN queue[j] ELSE queue[j + 1]
  BY RemoveElements
<1>3. \A i \in 1..Len(queue) : i # p => T[queue[i]] = iTime[queue[i]]
  BY <1>1 DEF IsInjective
<1> HIDE DEF T, r
<1>4. ASSUME NEW m \in 1..(Len(queue) - 1)
      PROVE  /\ m < p => m \in 1..Len(queue) /\ T[r[m]] = iTime[queue[m]]
             /\ m >= p => m + 1 \in 1..Len(queue) /\ T[r[m]] = iTime[queue[m + 1]]
  <2>1. CASE m < p
    BY <1>1, <1>2, <1>3, <2>1
  <2>2. CASE m >= p
    <3>1. PICK n \in 1..Len(queue) : n = m + 1 /\ n # p /\ r[m] = queue[n]
      BY <1>1, <1>2, <2>2
    <3>2. T[r[m]] = iTime[queue[n]]
      BY <1>3, <3>1
    <3> QED
      BY <1>1, <2>2, <3>1, <3>2
  <2> QED
    BY <1>1, <2>1, <2>2
<1>5. ASSUME NEW i \in 1..(Len(queue) - 1), NEW j \in 1..(Len(queue) - 1), i < j
      PROVE  Left(T[r[i]]) <= Left(T[r[j]])
  <2>1. PICK a \in 1..Len(queue) : T[r[i]] = iTime[queue[a]] /\ a = IF i < p THEN i ELSE i + 1
    BY <1>1, <1>4
  <2>2. PICK b \in 1..Len(queue) : T[r[j]] = iTime[queue[b]] /\ b = IF j < p THEN j ELSE j + 1
    BY <1>1, <1>4
  <2>3. a < b
    BY <1>1, <1>5, <2>1, <2>2
  <2> QED
    BY <2>1, <2>2, <2>3 DEF Ordered
<1> QED
  BY <1>2, <1>5 DEF Ordered, r, T

(* The first one is removed like any other.                                *)
LEMMA FirstRemoved ==
  ASSUME NEW S, NEW q \in Seq(S), q # <<>>
  PROVE  1 \in 1..Len(q) /\ Head(q) = q[1] /\ Tail(q) = RemoveAt(q, 1)
<1>1. Len(q) \in Nat /\ Len(q) >= 1 /\ 1 \in 1..Len(q) /\ Head(q) = q[1]
  OBVIOUS
<1>2. /\ RemoveAt(q, 1) \in Seq(S) /\ Len(RemoveAt(q, 1)) = Len(q) - 1
      /\ \A j \in 1..(Len(q) - 1) : RemoveAt(q, 1)[j] = q[j + 1]
  BY <1>1, RemoveElements
<1>3. /\ Tail(q) \in Seq(S) /\ Len(Tail(q)) = Len(q) - 1
      /\ \A j \in 1..(Len(q) - 1) : Tail(q)[j] = q[j + 1]
  BY <1>1
<1> QED
  BY <1>1, <1>2, <1>3, SeqEqual

(* What a queue that lost an entry is.                                     *)
Shrunk(q, e, T) ==
  /\ q \in Seq(Entries) /\ IsInjective(q)
  /\ Range(q) = Range(queue) \ {e}
  /\ T = [iTime EXCEPT ![e] = 0]
  /\ Ordered(queue, iTime) => Ordered(q, T)

LEMMA Removed ==
  ASSUME TypeOK, Pauses, NEW x \in Threads, NEW e \in Entries, NEW l, DoRemove(x, e, l)
  PROVE  Shrunk(queue', e, iTime')
<1>1. queue \in Seq(Entries) /\ IsInjective(queue) /\ iTime \in [Entries -> Time]
  BY DEF TypeOK, Pauses
<1>2. CASE Linked(e)
  <2>1. PICK i \in 1..Len(queue) : queue[i] = e /\ queue' = RemoveAt(queue, i)
    BY <1>2 DEF DoRemove
  <2>2. /\ RemoveAt(queue, i) \in Seq(Entries) /\ IsInjective(RemoveAt(queue, i))
        /\ Range(RemoveAt(queue, i)) = Range(queue) \ {e}
    BY <1>1, <2>1, RemoveElements
  <2>3. Ordered(queue, iTime) => Ordered(RemoveAt(queue, i), [iTime EXCEPT ![e] = 0])
    BY <1>1, <2>1, ShrunkInOrder
  <2> QED
    BY <2>1, <2>2, <2>3 DEF Shrunk, DoRemove
<1>3. CASE ~Linked(e)
  <2>1. queue' = queue /\ iTime' = [iTime EXCEPT ![e] = 0]
    BY <1>3 DEF DoRemove
  <2>2. \A i \in 1..Len(queue) : [iTime EXCEPT ![e] = 0][queue[i]] = iTime[queue[i]]
    BY <1>1, <1>3 DEF Linked, Range
  <2> QED
    BY <1>1, <1>3, <2>1, <2>2 DEF Shrunk, Linked, Ordered
<1> QED
  BY <1>2, <1>3

-----------------------------------------------------------------------------
(* What an operation of the queue goes on with.                            *)
Continuations == {"idle", "lock", "add", "unlock", "head", "callback"}

Pcs == CallerPcs \union ManagerPcs \union {"prime", "signal"}

(* at is a function of the threads; it is pc when nobody has the mutex.    *)
LEMMA AtIsPc ==
  ASSUME TypeOK, Pauses
  PROVE  /\ pc \in [Threads -> Pcs] /\ then \in [Threads -> Continuations]
         /\ at \in [Threads -> CallerPcs \union ManagerPcs]
         /\ \A x \in Threads : pc[x] \notin {"prime", "signal"} => at[x] = pc[x]
         /\ \A x \in Threads : pc[x] \in {"prime", "signal"} => at[x] = then[x]
         /\ qLock = None => at = pc
<1>1. pc \in [Threads -> Pcs] /\ then \in [Threads -> Continuations]
  BY DEF TypeOK, Pcs, CallerPcs, ManagerPcs, Continuations
<1>2. \A x \in Threads : at[x] = IF pc[x] \in {"prime", "signal"} THEN then[x] ELSE pc[x]
  BY DEF at
<1>3. at \in [Threads -> CallerPcs \union ManagerPcs]
  BY <1>1 DEF at, Pcs, Continuations, CallerPcs, ManagerPcs
<1>4. ASSUME qLock = None
      PROVE  at = pc
  <2>1. \A x \in Threads : pc[x] \notin {"prime", "signal"}
    BY <1>4, Names DEF Pauses
  <2> QED
    BY <1>1, <1>2, <1>3, <2>1
<1> QED
  BY <1>1, <1>2, <1>3, <1>4

(* HeadChanged and what calls it: x goes on at l, if need be after it has  *)
(* told the manager.  Unless it is to be told, the head is the old one or  *)
(* one that the manager comes to itself.                                   *)
LEMMA Continued ==
  ASSUME TypeOK, Pauses, qLock = None, NEW x \in Threads, NEW l \in Continuations,
         Continue(x, l), queue' \in Seq(Entries), IsInjective(queue')
  PROVE  /\ pc' \in [Threads -> Pcs] /\ then' \in [Threads -> Continuations]
         /\ qLock' \in Threads \union {None} /\ iRemoving' \in BOOLEAN
         /\ Pauses' /\ at' = [at EXCEPT ![x] = l]
         /\ iRemoving' => iRemoving
         /\ Removing /\ iRemoving' /\ queue' # <<>> => Head(queue') # iNow
         /\ qLock' = None \/ pc'[qLock'] = "prime"
         /\ queue' # <<>> /\ qLock' = None =>
              iRemoving \/ (queue # <<>> /\ Head(queue') = Head(queue))
         /\ ~iRemoving' /\ queue' # <<>> /\ Head(queue') # iNow /\ qLock' = None =>
              ~iRemoving /\ queue # <<>> /\ Head(queue') = Head(queue)
<1>1. /\ pc \in [Threads -> Pcs] /\ then \in [Threads -> Continuations]
      /\ iRemoving \in BOOLEAN /\ at = pc
  BY AtIsPc DEF TypeOK
<1>2. \A y \in Threads : pc[y] \notin {"prime", "signal"} /\ then[y] = "idle"
  BY Names DEF Pauses
<1>3. l \in Pcs /\ l \notin {"prime", "signal"} /\ "prime" \in Pcs
  BY DEF Pcs, Continuations, CallerPcs, ManagerPcs
<1>4. ASSUME pc' = [pc EXCEPT ![x] = l], qLock' = qLock, then' = then
      PROVE  pc' \in [Threads -> Pcs] /\ then' \in [Threads -> Continuations] /\ Pauses' /\ at' = [at EXCEPT ![x] = l]
  <2>1. pc' \in [Threads -> Pcs] /\ then' \in [Threads -> Continuations]
    BY <1>1, <1>3, <1>4
  <2>2. \A y \in Threads : pc'[y] \notin {"prime", "signal"}
    BY <1>1, <1>2, <1>3, <1>4
  <2>3. Pauses'
    BY <1>2, <1>4, <2>2, Names DEF Pauses
  <2>4. at' = pc'
    BY <2>1, <2>2 DEF at
  <2> QED
    BY <1>1, <1>4, <2>1, <2>3, <2>4
<1>5. CASE ~(queue' # <<>> /\ (queue = <<>> \/ Head(queue') # Head(queue)))
  <2>1. Goto(x, l) /\ UNCHANGED <<qLock, iRemoving, then>>
    BY <1>5 DEF Continue
  <2> QED
    BY <1>1, <1>4, <1>5, <2>1 DEF Goto, Removing
<1>6. CASE queue' # <<>> /\ (queue = <<>> \/ Head(queue') # Head(queue)) /\ iRemoving
  <2>1. iRemoving' = (Head(queue') # iNow) /\ Goto(x, l) /\ UNCHANGED <<qLock, then>>
    BY <1>6 DEF Continue, HeadChanged
  <2> QED
    BY <1>1, <1>4, <1>6, <2>1 DEF Goto
<1>7. CASE queue' # <<>> /\ (queue = <<>> \/ Head(queue') # Head(queue)) /\ ~iRemoving
  <2>1. /\ qLock' = x /\ then' = [then EXCEPT ![x] = l]
        /\ pc' = [pc EXCEPT ![x] = "prime"] /\ iRemoving' = iRemoving
    BY <1>7 DEF Continue, HeadChanged, Goto
  <2>2. pc' \in [Threads -> Pcs] /\ then' \in [Threads -> Continuations] /\ pc'[x] = "prime"
    BY <1>1, <1>3, <2>1
  <2>3. Pauses'
    BY <1>1, <1>2, <1>7, <2>1 DEF Pauses
  <2>4. at' = [at EXCEPT ![x] = l]
    <3>1. ASSUME NEW y \in Threads
          PROVE  at'[y] = IF y = x THEN l ELSE pc[y]
      BY <1>1, <1>2, <2>1 DEF at
    <3>2. at' = [y \in Threads |-> at'[y]]
      BY DEF at
    <3> QED
      BY <1>1, <3>1, <3>2
  <2>5. qLock' # None /\ qLock' \in Threads /\ iRemoving' = FALSE /\ pc'[qLock'] = "prime"
    BY <1>7, <1>1, <2>1, <2>2, Names
  <2> QED
    BY <2>2, <2>3, <2>4, <2>5
<1> QED
  BY <1>5, <1>6, <1>7

-----------------------------------------------------------------------------
(* An entry is put in the queue: what holds of the queue, of its times and *)
(* of what the manager is told.                                            *)
LEMMA Added ==
  ASSUME IInv, ~asserted, NEW x \in Threads, NEW e \in Entries, ~Linked(e), NEW l \in Continuations,
         DoAdd(x, e, when[x], l), when' = [when EXCEPT ![x] = 0],
         UNCHANGED <<prime, stop, cbLock, arg, quiet>>,
         Arming(x) \/ at[x] = "addNow", ~(l \in {"add", "remove"}),
         x = Manager => l \in {"lock", "head"},
         e = iNow => x = Manager /\ at[x] = "addNow"
  PROVE  /\ TypeOK' /\ Pauses' /\ Times' /\ Told' /\ Awake'
         /\ at' = [at EXCEPT ![x] = l] /\ Range(queue') = Range(queue) \cup {e}
         /\ iRemoving' => iRemoving
         /\ iRemoving' /\ queue' # <<>> => Head(queue') # iNow
<1>1. /\ qLock = None /\ iTime' = [iTime EXCEPT ![e] = when[x]]
      /\ queue' = Place(e, when[x]) /\ Continue(x, l) /\ asserted' = asserted
  BY DEF DoAdd
<1>2. /\ TypeOK /\ Pauses /\ queue \in Seq(Entries) /\ IsInjective(queue)
      /\ iTime \in [Entries -> Time] /\ when \in [Threads -> Time] /\ when[x] \in Time
  BY DEF IInv, TypeOK, Pauses
<1>3. /\ queue' \in Seq(Entries) /\ queue' # <<>> /\ IsInjective(queue')
      /\ Range(queue') = Range(queue) \cup {e}
  BY <1>1, <1>2, Placed
<1>4. /\ pc' \in [Threads -> Pcs] /\ then' \in [Threads -> Continuations]
      /\ qLock' \in Threads \union {None} /\ iRemoving' \in BOOLEAN
      /\ Pauses' /\ at' = [at EXCEPT ![x] = l]
      /\ iRemoving' => iRemoving
      /\ Removing /\ iRemoving' /\ queue' # <<>> => Head(queue') # iNow
      /\ qLock' = None \/ pc'[qLock'] = "prime"
      /\ queue' # <<>> /\ qLock' = None =>
           iRemoving \/ (queue # <<>> /\ Head(queue') = Head(queue))
      /\ ~iRemoving' /\ queue' # <<>> /\ Head(queue') # iNow /\ qLock' = None =>
           ~iRemoving /\ queue # <<>> /\ Head(queue') = Head(queue)
  BY <1>1, <1>2, <1>3, Continued
<1>5. at \in [Threads -> CallerPcs \union ManagerPcs]
  BY <1>2, AtIsPc
<1>6. TypeOK'
  <2>1. iTime' \in [Entries -> Time]
    BY <1>1, <1>2
  <2>2. when' \in [Threads -> Time]
    BY <1>2, NowIsTime
  <2> QED
    BY <1>1, <1>2, <1>3, <1>4, <2>1, <2>2
    DEF TypeOK, Pcs, CallerPcs, ManagerPcs, Continuations, prime, stop
<1>7. Times'
  <2>1. SUFFICES ASSUME ~iStopped
                 PROVE  Times'
    BY DEF Times, stop
  <2>2. /\ \A f \in Range(queue) : Reach(iTime[f])
        /\ \A y \in Threads : Arming(y) \/ at[y] = "addNow" => Reach(when[y])
        /\ Ordered(queue, iTime)
        /\ Linked(iNow) => Left(iTime[iNow]) <= 1
        /\ at[Manager] = "addNow" => Left(when[Manager]) <= 1
    BY <2>1 DEF IInv, Times
  <2>3. Ordered(queue', iTime')
    BY <1>1, <1>2, <2>2, PlacedInOrder
  <2>4. Range(queue) \subseteq Entries
    BY <1>2, RangeInSet
  <2>5. \A f \in Range(queue') : Reach(iTime'[f])
    BY <1>1, <1>2, <1>3, <2>2, <2>4
  <2>6. ASSUME NEW y \in Threads, (Arming(y) \/ at[y] = "addNow")'
        PROVE  Reach(when'[y])
    <3>1. at'[y] # l \/ l \notin {"add", "remove", "addNow"}
      BY DEF Continuations
    <3>2. y # x /\ at'[y] = at[y]
      BY <1>4, <1>5, <2>6, <3>1 DEF Arming
    <3>3. Arming(y) \/ at[y] = "addNow"
      BY <2>6, <3>2 DEF Arming
    <3> QED
      BY <1>2, <2>2, <3>2, <3>3
  <2>7. Linked(iNow)' => Left(iTime'[iNow]) <= 1
    BY <1>1, <1>2, <1>3, <2>2, Names DEF Linked
  <2>8. at'[Manager] = "addNow" => Left(when'[Manager]) <= 1
    <3>1. at'[Manager] = "addNow" => Manager # x /\ at[Manager] = "addNow"
      BY <1>4, <1>5, Names DEF Continuations
    <3> QED
      BY <1>2, <2>2, <3>1, Names
  <2> QED
    BY <2>3, <2>5, <2>6, <2>7, <2>8 DEF Times
<1>8. Told'
  <2>1. SUFFICES ASSUME ~iRemoving', queue' # <<>>, Head(queue') # iNow, qLock' = None \/ pc'[qLock'] = "signal"
                 PROVE  iNextTimer' = iTime'[Head(queue')]
    BY DEF Told
  <2>2. qLock' = None /\ ~iRemoving /\ queue # <<>> /\ Head(queue') = Head(queue)
    BY <1>4, <2>1
  <2>3. Head(queue) \in Range(queue) /\ Head(queue) \in Entries /\ Head(queue) # e
    BY <1>2, <2>2, TailElements DEF Linked
  <2>4. iNextTimer = iTime[Head(queue)]
    BY <1>1, <2>1, <2>2 DEF IInv, Told
  <2> QED
    BY <1>1, <1>2, <2>2, <2>3, <2>4 DEF prime
<1>9. Awake'
  <2>1. ASSUME at'[Manager] \in {"unlock", "sleep"}, qLock' = None, queue' # <<>>
        PROVE  iSemaphore' > 0
    <3>1. x # Manager /\ at[Manager] \in {"unlock", "sleep"}
      BY <1>4, <1>5, <2>1, Names
    <3>2. ~iRemoving
      BY <3>1 DEF IInv, Removing, Control
    <3>3. queue # <<>>
      BY <1>4, <2>1, <3>2
    <3> QED
      BY <1>1, <3>1, <3>3 DEF IInv, Awake, prime
  <2>2. ASSUME at'[Manager] = "wait", iSemaphore' = 0
        PROVE  when'[Manager] = iNextTimer'
    <3>1. x # Manager /\ at[Manager] = "wait"
      BY <1>4, <1>5, <2>2, Names
    <3>2. when[Manager] = iNextTimer
      BY <1>1, <2>2, <3>1 DEF IInv, Awake, prime
    <3> QED
      BY <1>2, <3>1, <3>2, Names DEF prime
  <2> QED
    BY <2>1, <2>2 DEF Awake
<1> QED
  BY <1>3, <1>4, <1>6, <1>7, <1>8, <1>9 DEF IInv

(* An entry is taken from the queue, or was in no queue.                   *)
LEMMA Taken ==
  ASSUME IInv, ~asserted, NEW x \in Threads, NEW e \in Entries, NEW l \in Continuations,
         qLock = None, Shrunk(queue', e, iTime'), Continue(x, l),
         UNCHANGED <<prime, stop, cbLock, when, quiet, asserted>>,
         arg' \in [Threads -> Entries \union {None}],
         l = "add" => Arming(x), l # "remove",
         l = "unlock" /\ x = Manager => ~iRemoving /\ (queue # <<>> => Head(queue) = e)
  PROVE  /\ TypeOK' /\ Pauses' /\ Times' /\ Told' /\ Awake'
         /\ at' = [at EXCEPT ![x] = l] /\ Range(queue') = Range(queue) \ {e}
         /\ iRemoving' => iRemoving
         /\ iRemoving' /\ queue' # <<>> => Head(queue') # iNow
<1>2. /\ TypeOK /\ Pauses /\ queue \in Seq(Entries) /\ IsInjective(queue)
      /\ iTime \in [Entries -> Time] /\ when \in [Threads -> Time]
  BY DEF IInv, TypeOK, Pauses
<1>3. /\ queue' \in Seq(Entries) /\ IsInjective(queue')
      /\ Range(queue') = Range(queue) \ {e} /\ iTime' = [iTime EXCEPT ![e] = 0]
      /\ Ordered(queue, iTime) => Ordered(queue', iTime')
  BY DEF Shrunk
<1>4. /\ pc' \in [Threads -> Pcs] /\ then' \in [Threads -> Continuations]
      /\ qLock' \in Threads \union {None} /\ iRemoving' \in BOOLEAN
      /\ Pauses' /\ at' = [at EXCEPT ![x] = l]
      /\ iRemoving' => iRemoving
      /\ Removing /\ iRemoving' /\ queue' # <<>> => Head(queue') # iNow
      /\ qLock' = None \/ pc'[qLock'] = "prime"
      /\ queue' # <<>> /\ qLock' = None =>
           iRemoving \/ (queue # <<>> /\ Head(queue') = Head(queue))
      /\ ~iRemoving' /\ queue' # <<>> /\ Head(queue') # iNow /\ qLock' = None =>
           ~iRemoving /\ queue # <<>> /\ Head(queue') = Head(queue)
  BY <1>2, <1>3, Continued
<1>5. at \in [Threads -> CallerPcs \union ManagerPcs]
  BY <1>2, AtIsPc
<1>6. TypeOK'
  <2>1. iTime' \in [Entries -> Time]
    BY <1>2, <1>3, NowIsTime
  <2> QED
    BY <1>2, <1>3, <1>4, <2>1
    DEF TypeOK, Pcs, CallerPcs, ManagerPcs, Continuations, prime, stop
<1>7. Times'
  <2>1. SUFFICES ASSUME ~iStopped
                 PROVE  Times'
    BY DEF Times, stop
  <2>2. /\ \A f \in Range(queue) : Reach(iTime[f])
        /\ \A y \in Threads : Arming(y) \/ at[y] = "addNow" => Reach(when[y])
        /\ Ordered(queue, iTime)
        /\ Linked(iNow) => Left(iTime[iNow]) <= 1
        /\ at[Manager] = "addNow" => Left(when[Manager]) <= 1
    BY <2>1 DEF IInv, Times
  <2>4. Range(queue) \subseteq Entries
    BY <1>2, RangeInSet
  <2>5. \A f \in Range(queue') : Reach(iTime'[f])
    BY <1>2, <1>3, <2>2, <2>4
  <2>6. ASSUME NEW y \in Threads, (Arming(y) \/ at[y] = "addNow")'
        PROVE  Reach(when'[y])
    <3>1. Arming(y) \/ at[y] = "addNow"
      BY <1>4, <1>5, <2>6 DEF Arming, Continuations
    <3> QED
      BY <1>2, <2>2, <3>1
  <2>7. Linked(iNow)' => Left(iTime'[iNow]) <= 1
    BY <1>2, <1>3, <2>2, Names DEF Linked
  <2>8. at'[Manager] = "addNow" => Left(when'[Manager]) <= 1
    BY <1>4, <1>5, <2>2, Names DEF Continuations
  <2> QED
    BY <1>3, <2>2, <2>5, <2>6, <2>7, <2>8 DEF Times
<1>8. Told'
  <2>1. SUFFICES ASSUME ~iRemoving', queue' # <<>>, Head(queue') # iNow, qLock' = None \/ pc'[qLock'] = "signal"
                 PROVE  iNextTimer' = iTime'[Head(queue')]
    BY DEF Told
  <2>2. qLock' = None /\ ~iRemoving /\ queue # <<>> /\ Head(queue') = Head(queue)
    BY <1>4, <2>1
  <2>3. Head(queue') \in Range(queue')
    BY <1>3, <2>1, TailElements
  <2>3a. Head(queue') \in Entries /\ Head(queue') # e
    BY <1>2, <1>3, <2>3, RangeInSet
  <2>4. iNextTimer = iTime[Head(queue)]
    BY <2>1, <2>2 DEF IInv, Told
  <2> QED
    BY <1>2, <1>3, <2>2, <2>3a, <2>4 DEF prime
<1>9. Awake'
  <2>1. ASSUME at'[Manager] \in {"unlock", "sleep"}, qLock' = None, queue' # <<>>
        PROVE  iSemaphore' > 0
    <3>1. CASE x = Manager
      <4>1. l = "unlock"
        BY <1>4, <1>5, <2>1, <3>1, Names DEF Continuations
      <4>2. queue # <<>> /\ Head(queue') = Head(queue) /\ Head(queue) = e
        BY <1>4, <2>1, <3>1, <4>1
      <4>3. Head(queue') \in Range(queue')
        BY <1>3, <2>1, TailElements
      <4> QED
        BY <1>3, <4>2, <4>3
    <3>2. CASE x # Manager
      <4>1. at[Manager] \in {"unlock", "sleep"}
        BY <1>4, <1>5, <2>1, <3>2, Names
      <4>2. ~iRemoving
        BY <4>1 DEF IInv, Removing, Control
      <4>3. queue # <<>>
        BY <1>4, <2>1, <4>2
      <4> QED
        BY <4>1, <4>3 DEF IInv, Awake, prime
    <3> QED
      BY <3>1, <3>2
  <2>2. ASSUME at'[Manager] = "wait", iSemaphore' = 0
        PROVE  when'[Manager] = iNextTimer'
    <3>1. x # Manager /\ at[Manager] = "wait"
      BY <1>4, <1>5, <2>2, Names DEF Continuations
    <3> QED
      BY <2>2, <3>1, Names DEF IInv, Awake, prime
  <2> QED
    BY <2>1, <2>2 DEF Awake
<1> QED
  BY <1>3, <1>4, <1>6, <1>7, <1>8, <1>9 DEF IInv

-----------------------------------------------------------------------------
(* Steps of the queue                                                      *)

(* DoAdd of a timer that is in no queue                                    *)
LEMMA LinkAdds ==
  ASSUME IInv, ~asserted, NEW x \in Threads, Link(x), ~Linked(arg[x])
  PROVE  IInv'
<1> DEFINE e == arg[x]
           l == IF x = Manager THEN "head" ELSE "idle"
<1>1. /\ pc[x] = "add" /\ DoAdd(x, e, when[x], l) /\ when' = [when EXCEPT ![x] = 0]
      /\ UNCHANGED <<prime, stop, cbLock, arg, quiet>> /\ qLock = None
  BY DEF Link, DoAdd
<1>2. at[x] = "add" /\ at \in [Threads -> CallerPcs \union ManagerPcs]
  BY <1>1, AtIsPc DEF IInv
<1>3. e \in Timers /\ e \in Entries /\ e # iNow /\ ~Linked(e)
  <2>1. CASE x = Manager
    BY <1>2, <2>1, Names DEF IInv, Control
  <2>2. CASE x # Manager
    BY <1>2, <2>2, Names DEF IInv, Control
  <2> QED
    BY <2>1, <2>2
<1>4. l \in Continuations /\ (x = Manager => l \in {"lock", "head"}) /\ ~(l \in {"add", "remove"})
  BY DEF Continuations
<1>5. Arming(x)
  BY <1>2 DEF Arming
<1> HIDE DEF e, l
<1>6. /\ TypeOK' /\ Pauses' /\ Times' /\ Told' /\ Awake'
      /\ at' = [at EXCEPT ![x] = l] /\ Range(queue') = Range(queue) \cup {e}
      /\ iRemoving' => iRemoving
      /\ iRemoving' /\ queue' # <<>> => Head(queue') # iNow
  BY <1>1, <1>3, <1>4, <1>5, Added DEF e
<1>7. /\ cbLock' = cbLock /\ arg' = arg /\ quiet' = quiet /\ iStopped' = iStopped
      /\ \A f \in Entries : Linked(f)' <=> Linked(f) \/ f = e
  BY <1>1, <1>6 DEF stop, Linked
<1>8. \A y \in Threads : at'[y] = IF y = x THEN l ELSE at[y]
  BY <1>2, <1>6
<1>9. Control /\ Owners /\ Removing
  BY DEF IInv
<1>10. Control'
  <2>1. Linked(iNow)' <=> Linked(iNow)
    BY <1>3, <1>7, Names
  <2> HIDE DEF Linked
  <2>2. CASE x = Manager
    BY <1>2, <1>7, <1>8, <1>9, <2>1, <2>2, Names DEF Control, CallerPcs, ManagerPcs, l, Silent
  <2>3. CASE x # Manager
    BY <1>2, <1>7, <1>8, <1>9, <2>1, <2>3, Names DEF Control, CallerPcs, ManagerPcs, l, Silent
  <2> QED
    BY <2>2, <2>3
<1>11. Removing'
  BY <1>2, <1>3, <1>6, <1>7, <1>8, <1>9, Names DEF Removing, Control
<1>12. ASSUME NEW c \in Callers, c # x, at[c] # "idle", arg[c] = e, e \in Own
       PROVE  x = Manager
  BY <1>2, <1>9, <1>12, Names DEF Control, e, Own, OwnedByOne
<1>13. x = Manager => Busy(e) /\ e \in Periodic /\ cbLock = Manager
  BY <1>2, <1>9 DEF Control, Busy, e
<1>14. Owners'
  <2>1. ASSUME NEW c \in Callers, at'[c] \in {"add", "unlock", "remove"}
        PROVE  c # x /\ at'[c] = at[c] /\ (arg[c] \in Timers /\ arg[c] \in Entries)
    BY <1>8, <1>9, <2>1, Names DEF l, Control
  <2>2. ASSUME NEW c \in Callers, Arming(c)', arg'[c] \in Periodic \cap Own
        PROVE  ~Linked(arg[c])' /\ ~Busy(arg[c])'
    <3>1. c # x /\ at'[c] = at[c] /\ arg[c] \in Entries
      BY <2>1, <2>2 DEF Arming
    <3>2. Arming(c) /\ ~Linked(arg[c]) /\ ~Busy(arg[c])
      BY <1>7, <1>9, <2>2, <3>1 DEF Arming, Owners
    <3>3. arg[c] # e
      BY <1>7, <1>12, <1>13, <2>2, <3>1, <3>2 DEF Arming
    <3> QED
      BY <1>7, <1>8, <3>1, <3>2, <3>3, Names DEF Busy, l
  <2>3. ASSUME NEW c \in Callers, at'[c] \in {"add", "unlock"}, arg'[c] \in Own
        PROVE  ~Linked(arg[c])'
    <3>1. c # x /\ at'[c] = at[c] /\ arg[c] \in Entries /\ arg[c] \in Own /\ ~Linked(arg[c])
      BY <1>7, <1>9, <2>1, <2>3 DEF Owners
    <3>2. arg[c] # e
      <4>1. CASE at[c] = "unlock"
        BY <1>9, <1>12, <1>13, <3>1, <4>1, Names DEF Control
      <4>2. CASE at[c] = "add"
        BY <1>9, <1>12, <1>13, <3>1, <4>2 DEF Owners, Arming
      <4> QED
        BY <2>3, <3>1, <4>1, <4>2
    <3> QED
      BY <1>7, <3>1, <3>2
  <2>4. ASSUME at'[Manager] = "add", arg'[Manager] \in Own
        PROVE  ~Linked(arg[Manager])'
    <3>1. x # Manager /\ x \in Callers /\ at[Manager] = "add" /\ arg[Manager] \in Entries /\ arg[Manager] \in Periodic \cap Own
      BY <1>7, <1>8, <1>9, <2>4, Names DEF l, Control
    <3>2. arg[Manager] # e
      BY <1>5, <1>9, <3>1 DEF Owners, Busy, e
    <3> QED
      BY <1>7, <1>9, <3>1, <3>2 DEF Owners
  <2>5. ASSUME NEW t \in Silent
        PROVE  ~Linked(t)' /\ ~Busy(t)'
    <3>1. ~Linked(t) /\ ~Busy(t) /\ t \in Entries
      BY <1>9, Names DEF Owners, IInv, TypeOK, Silent
    <3>2. t # e
      BY <1>2, <1>9, <1>13, <3>1, Names DEF Control, e
    <3> QED
      BY <1>7, <1>8, <3>1, <3>2, Names DEF Busy, l
  <2> QED
    BY <1>7, <2>2, <2>3, <2>4, <2>5 DEF Owners, Silent
<1> QED
  BY <1>6, <1>10, <1>11, <1>14 DEF IInv

LEMMA UnlinkKeeps ==
  ASSUME IInv, ~asserted, NEW x \in Threads, Unlink(x)
  PROVE  IInv'
<1> DEFINE e == arg[x]
           l == IF cbLock = x /\ x # Manager THEN "unlock" ELSE "add"
<1>1. /\ pc[x] = "remove" /\ DoRemove(x, e, l)
      /\ UNCHANGED <<prime, stop, cbLock, arg, when, quiet, asserted>>
      /\ qLock = None /\ Continue(x, l)
  BY DEF Unlink, DoRemove
<1>2. at[x] = "remove" /\ at \in [Threads -> CallerPcs \union ManagerPcs]
  BY <1>1, AtIsPc DEF IInv
<1>3. e \in Timers /\ e \in Entries /\ e # iNow
  <2>1. CASE x = Manager
    BY <1>2, <2>1, Names DEF IInv, Control
  <2>2. CASE x # Manager
    BY <1>2, <2>2, Names DEF IInv, Control
  <2> QED
    BY <2>1, <2>2
<1>4. /\ l \in Continuations /\ (l = "add" => Arming(x)) /\ l # "remove"
      /\ (x = Manager => l = "add") /\ (l = "unlock" => cbLock = x)
  BY <1>2 DEF Continuations, Arming
<1>5. arg' \in [Threads -> Entries \union {None}]
  BY <1>1 DEF IInv, TypeOK
<1> HIDE DEF e, l
<1>6. /\ TypeOK' /\ Pauses' /\ Times' /\ Told' /\ Awake'
      /\ at' = [at EXCEPT ![x] = l] /\ Range(queue') = Range(queue) \ {e}
      /\ iRemoving' => iRemoving
      /\ iRemoving' /\ queue' # <<>> => Head(queue') # iNow
  <2>1. Shrunk(queue', e, iTime')
    BY <1>1, <1>3, Removed DEF IInv
  <2>2. l = "unlock" /\ x = Manager => ~iRemoving /\ (queue # <<>> => Head(queue) = e)
    BY <1>4
  <2> QED
    BY <1>1, <1>3, <1>4, <1>5, <2>1, <2>2, Taken
<1>7. /\ cbLock' = cbLock /\ arg' = arg /\ quiet' = quiet /\ iStopped' = iStopped
      /\ \A f \in Entries : Linked(f)' <=> Linked(f) /\ f # e
  BY <1>1, <1>6 DEF stop, Linked
<1>8. \A y \in Threads : at'[y] = IF y = x THEN l ELSE at[y]
  BY <1>2, <1>6
<1>9. Control /\ Owners /\ Removing
  BY DEF IInv
<1>10. Control'
  <2>1. Linked(iNow)' <=> Linked(iNow)
    BY <1>3, <1>7, Names
  <2> HIDE DEF Linked
  <2>2. CASE x = Manager
    BY <1>2, <1>4, <1>7, <1>8, <1>9, <2>1, <2>2, Names DEF Control, CallerPcs, ManagerPcs, Silent
  <2>3. CASE x # Manager
    BY <1>2, <1>4, <1>7, <1>8, <1>9, <2>1, <2>3, Names DEF Control, CallerPcs, ManagerPcs, l, Silent
  <2> QED
    BY <2>2, <2>3
<1>11. Removing'
  BY <1>2, <1>3, <1>6, <1>7, <1>8, <1>9, Names DEF Removing, Control
<1>12. \A t \in Entries : Busy(t)' => Busy(t)
  BY <1>2, <1>7, <1>8, Names DEF Busy
<1>13. \A y \in Threads : Arming(y)' => Arming(y)
  BY <1>2, <1>4, <1>7, <1>8 DEF Arming
<1>14. Owners'
  <2>1. ASSUME NEW c \in Callers, at'[c] # "idle"
        PROVE  at[c] # "idle" /\ arg[c] \in Entries
    BY <1>2, <1>8, <1>9, <2>1, Names DEF Control
  <2>2. ASSUME NEW c \in Callers, Arming(c)', arg'[c] \in Periodic \cap Own
        PROVE  ~Linked(arg[c])' /\ ~Busy(arg[c])'
    BY <1>7, <1>9, <1>12, <1>13, <2>1, <2>2, Names DEF Owners, Arming
  <2>3. ASSUME NEW c \in Callers, at'[c] \in {"add", "unlock"}, arg'[c] \in Own
        PROVE  ~Linked(arg[c])'
    <3>1. CASE c = x
      BY <1>3, <1>7, <3>1 DEF e
    <3>2. CASE c # x
      BY <1>7, <1>8, <1>9, <2>1, <2>3, <3>2, Names DEF Owners
    <3> QED
      BY <3>1, <3>2
  <2>4. ASSUME at'[Manager] = "add", arg'[Manager] \in Own
        PROVE  ~Linked(arg[Manager])'
    <3>1. CASE Manager = x
      BY <1>3, <1>7, <3>1 DEF e
    <3>2. CASE Manager # x
      BY <1>7, <1>8, <1>9, <2>4, <3>2, Names DEF Owners, Control
    <3> QED
      BY <3>1, <3>2
  <2>5. ASSUME NEW t \in Silent
        PROVE  ~Linked(t)' /\ ~Busy(t)'
    BY <1>7, <1>9, <1>12, Names DEF Owners, IInv, TypeOK, Silent
  <2> QED
    BY <1>7, <2>2, <2>3, <2>4, <2>5 DEF Owners, Silent
<1> QED
  BY <1>6, <1>10, <1>11, <1>14 DEF IInv

LEMMA AddNowKeeps ==
  ASSUME IInv, ~asserted, AddNow
  PROVE  IInv'
<1>1. /\ pc[Manager] = "addNow" /\ DoAdd(Manager, iNow, when[Manager], "lock")
      /\ when' = [when EXCEPT ![Manager] = 0]
      /\ UNCHANGED <<prime, stop, cbLock, arg, quiet>> /\ qLock = None
  BY DEF AddNow, DoAdd
<1>2. at[Manager] = "addNow" /\ at \in [Threads -> CallerPcs \union ManagerPcs]
  BY <1>1, AtIsPc, Names DEF IInv
<1>3. ~Linked(iNow)
  BY <1>2 DEF IInv, Control
<1>6. /\ TypeOK' /\ Pauses' /\ Times' /\ Told' /\ Awake'
      /\ at' = [at EXCEPT ![Manager] = "lock"] /\ Range(queue') = Range(queue) \cup {iNow}
      /\ iRemoving' => iRemoving
      /\ iRemoving' /\ queue' # <<>> => Head(queue') # iNow
  <2>1. "lock" \in Continuations
    BY DEF Continuations
  <2> QED
    BY <1>1, <1>2, <1>3, <2>1, Added, Names
<1>7. /\ cbLock' = cbLock /\ arg' = arg /\ quiet' = quiet /\ iStopped' = iStopped
      /\ \A f \in Entries : Linked(f)' <=> Linked(f) \/ f = iNow
  BY <1>1, <1>6 DEF stop, Linked
<1>8. \A y \in Threads : at'[y] = IF y = Manager THEN "lock" ELSE at[y]
  BY <1>2, <1>6
<1>9. Control /\ Owners
  BY DEF IInv
<1>10. Control'
  BY <1>2, <1>7, <1>8, <1>9, Names DEF Control, CallerPcs, ManagerPcs, Silent
<1>11. Removing'
  BY <1>6, <1>7, Names DEF Removing
<1>14. Owners'
  <2>1. \A c \in Callers : at[c] # "idle" => arg[c] \in Entries /\ arg[c] # iNow
    BY <1>9, Names DEF Control
  <2>2. \A t \in Silent : t \in Entries /\ t # iNow
    BY Names DEF IInv, TypeOK, Silent
  <2> QED
    BY <1>2, <1>7, <1>8, <1>9, <2>1, <2>2, Names DEF Owners, Arming, Busy, Silent
<1> QED
  BY <1>6, <1>10, <1>11, <1>14 DEF IInv

LEMMA RemoveHeadKeeps ==
  ASSUME IInv, ~asserted, RemoveHead
  PROVE  IInv'
<1> DEFINE e == Head(queue)
           l == IF e = iNow THEN "unlock" ELSE "callback"
<1>1. /\ pc[Manager] = "head" /\ qLock = None /\ queue' = Tail(queue)
      /\ iTime' = [iTime EXCEPT ![e] = 0] /\ arg' = [arg EXCEPT ![Manager] = e]
      /\ Continue(Manager, l)
      /\ UNCHANGED <<prime, stop, cbLock, when, quiet, asserted>>
  BY DEF RemoveHead
<1>2. at[Manager] = "head" /\ at \in [Threads -> CallerPcs \union ManagerPcs]
  BY <1>1, AtIsPc, Names DEF IInv
<1>3. Linked(iNow) /\ queue # <<>> /\ queue \in Seq(Entries) /\ IsInjective(queue)
  <2>1. Linked(iNow) /\ queue \in Seq(Entries) /\ IsInjective(queue)
    BY <1>2 DEF IInv, Control, TypeOK, Pauses
  <2>2. queue # <<>>
    BY <2>1 DEF Linked, Range
  <2> QED
    BY <2>1, <2>2
<1>4. e \in Entries /\ e \in Range(queue) /\ Linked(e)
  BY <1>3, TailElements DEF Linked
<1>5. Shrunk(queue', e, iTime')
  <2>1. 1 \in 1..Len(queue) /\ queue[1] = e /\ queue' = RemoveAt(queue, 1)
    BY <1>1, <1>3, FirstRemoved
  <2>2. iTime \in [Entries -> Time]
    BY DEF IInv, TypeOK
  <2>3. /\ RemoveAt(queue, 1) \in Seq(Entries) /\ IsInjective(RemoveAt(queue, 1))
        /\ Range(RemoveAt(queue, 1)) = Range(queue) \ {queue[1]}
    BY <1>3, <2>1, RemoveElements
  <2>4. Ordered(queue, iTime) => Ordered(RemoveAt(queue, 1), [iTime EXCEPT ![queue[1]] = 0])
    BY <1>3, <2>1, <2>2, ShrunkInOrder
  <2> HIDE DEF e
  <2> QED
    BY <1>1, <2>1, <2>3, <2>4 DEF Shrunk
<1>5a. l \in Continuations /\ l # "add" /\ l # "remove" /\ (l = "unlock" => e = iNow)
  BY DEF Continuations
<1>5b. arg' \in [Threads -> Entries \union {None}]
  <2> HIDE DEF e
  <2> QED
    BY <1>1, <1>4 DEF IInv, TypeOK
<1>5c. l = "unlock" => ~iRemoving
  BY <1>3 DEF IInv, Removing
<1>5d. Head(queue) = e
  OBVIOUS
<1> HIDE DEF e, l
<1>6. /\ TypeOK' /\ Pauses' /\ Times' /\ Told' /\ Awake'
      /\ at' = [at EXCEPT ![Manager] = l] /\ Range(queue') = Range(queue) \ {e}
      /\ iRemoving' => iRemoving
      /\ iRemoving' /\ queue' # <<>> => Head(queue') # iNow
  BY <1>1, <1>4, <1>5, <1>5a, <1>5b, <1>5c, <1>5d, Taken, Names
<1>7. /\ cbLock' = cbLock /\ quiet' = quiet /\ iStopped' = iStopped
      /\ \A f \in Entries : Linked(f)' <=> Linked(f) /\ f # e
  BY <1>1, <1>6 DEF stop, Linked
<1>8. /\ \A y \in Threads : at'[y] = IF y = Manager THEN l ELSE at[y]
      /\ \A y \in Threads : arg'[y] = IF y = Manager THEN e ELSE arg[y]
  BY <1>1, <1>2, <1>6 DEF IInv, TypeOK
<1>9. Control /\ Owners /\ Removing
  BY DEF IInv
<1>10. Control'
  <2>1. Linked(iNow)' <=> l = "callback"
    BY <1>3, <1>7, Names DEF l
  <2>2. l = "callback" => e \in Timers
    BY <1>4, Names DEF l
  <2>3. l \in {"callback", "unlock"}
    BY DEF l
  <2> HIDE DEF Linked
  <2> QED
    BY <1>2, <1>7, <1>8, <1>9, <2>1, <2>2, <2>3, Names DEF Control, CallerPcs, ManagerPcs, Silent
<1>11. Removing'
  <2>1. l = "unlock" => ~iRemoving'
    BY <1>5c, <1>6
  <2>2. l # "unlock" => Linked(iNow)'
    BY <1>3, <1>7, Names DEF l
  <2> QED
    BY <1>6, <2>1, <2>2 DEF Removing
<1>14. Owners'
  <2>1. \A c \in Callers : at[c] # "idle" => arg[c] \in Entries
    BY <1>9, Names DEF Control
  <2>2. \A t \in Silent : t \in Entries
    BY Names DEF IInv, TypeOK, Silent
  <2>3. \A t \in Entries : Busy(t)' => t = e
    BY <1>8, Names DEF Busy
  <2>4. ASSUME NEW c \in Callers, at'[c] # "idle"
        PROVE  /\ c # Manager /\ at'[c] = at[c] /\ arg'[c] = arg[c] /\ arg[c] \in Entries
               /\ Arming(c)' <=> Arming(c)
    BY <1>7, <1>8, <2>1, <2>4, Names DEF Arming
  <2>5. ASSUME NEW c \in Callers, Arming(c)', arg'[c] \in Periodic \cap Own
        PROVE  ~Linked(arg[c])' /\ ~Busy(arg[c])'
    <3>1. /\ arg'[c] = arg[c] /\ arg[c] \in Entries /\ Arming(c)
      BY <2>4, <2>5 DEF Arming
    <3>2. ~Linked(arg[c])
      BY <1>9, <2>5, <3>1 DEF Owners
    <3>3. PICK t \in Entries : t = arg[c]
      BY <3>1
    <3>4. ~Linked(t)' /\ ~Busy(t)'
      BY <1>4, <1>7, <2>3, <3>2, <3>3
    <3>5. t = arg'[c]
      BY <3>1, <3>3
    <3> QED
      BY <3>4, <3>5 DEF Linked, Busy
  <2>6. ASSUME NEW c \in Callers, at'[c] \in {"add", "unlock"}, arg'[c] \in Own
        PROVE  ~Linked(arg[c])'
    <3>1. /\ arg'[c] = arg[c] /\ arg[c] \in Entries /\ ~Linked(arg[c])
      BY <1>9, <2>4, <2>6 DEF Owners
    <3> QED
      BY <1>6, <3>1 DEF Linked
  <2>7. at'[Manager] # "add"
    BY <1>8, Names DEF l
  <2>8. ASSUME NEW t \in Silent
        PROVE  ~Linked(t)' /\ ~Busy(t)'
    BY <1>4, <1>7, <1>9, <2>2, <2>3 DEF Owners
  <2> QED
    BY <1>7, <2>5, <2>6, <2>7, <2>8 DEF Owners, Silent
<1> QED
  BY <1>6, <1>10, <1>11, <1>14 DEF IInv

-----------------------------------------------------------------------------
(* Steps that leave the queue as it is                                     *)

(* A thread moves on, out of HeadChanged.                                  *)
LEMMA Moved ==
  ASSUME IInv, NEW x \in Threads, pc[x] \notin {"prime", "signal"},
         NEW l \in CallerPcs \union ManagerPcs, Goto(x, l),
         UNCHANGED <<iTime, queue, qLock, then, iNextTimer>>, iRemoving => iRemoving'
  PROVE  /\ pc' \in [Threads -> Pcs] /\ Pauses' /\ Told'
         /\ at[x] = pc[x] /\ at' = [at EXCEPT ![x] = l]
         /\ \A y \in Threads : at'[y] = IF y = x THEN l ELSE at[y]
         /\ x # Manager /\ iSemaphore' = iSemaphore /\ when'[Manager] = when[Manager] => Awake'
<1>1. /\ TypeOK /\ Pauses /\ pc \in [Threads -> Pcs] /\ at \in [Threads -> CallerPcs \union ManagerPcs]
      /\ \A y \in Threads : pc[y] \notin {"prime", "signal"} => at[y] = pc[y]
  BY AtIsPc DEF IInv
<1>2. pc' = [pc EXCEPT ![x] = l] /\ l \notin {"prime", "signal"} /\ l \in Pcs
  BY DEF Goto, CallerPcs, ManagerPcs, Pcs
<1>3. \A y \in Threads : pc'[y] = IF y = x THEN l ELSE pc[y]
  BY <1>1, <1>2
<1>4. Pauses' /\ qLock # x
  BY <1>1, <1>2, <1>3 DEF Pauses
<1>5. at' = [at EXCEPT ![x] = l]
  <2>1. ASSUME NEW y \in Threads
        PROVE  at'[y] = IF y = x THEN l ELSE at[y]
    BY <1>2, <1>3 DEF at
  <2>2. at' = [y \in Threads |-> at'[y]]
    BY DEF at
  <2> QED
    BY <1>1, <2>1, <2>2
<1>6. qLock = None \/ (qLock \in Threads /\ pc'[qLock] = pc[qLock])
  BY <1>1, <1>3, <1>4 DEF TypeOK
<1>7. Told'
  BY <1>6 DEF IInv, Told
<1>8. ASSUME x # Manager, iSemaphore' = iSemaphore, when'[Manager] = when[Manager]
      PROVE  Awake'
  BY <1>1, <1>5, <1>6, <1>8, Names DEF IInv, Awake
<1> QED
  BY <1>1, <1>2, <1>4, <1>5, <1>7, <1>8

(* Nobody comes to set a time that is out of reach.                        *)
LEMMA TimesKept ==
  ASSUME IInv, UNCHANGED <<iTime, queue>>, iStopped => iStopped',
         \A y \in Threads : (Arming(y) \/ at[y] = "addNow")' =>
           \/ (Arming(y) \/ at[y] = "addNow") /\ when'[y] = when[y]
           \/ Reach(when'[y]),
         at'[Manager] = "addNow" =>
           \/ at[Manager] = "addNow" /\ when'[Manager] = when[Manager]
           \/ Left(when'[Manager]) <= 1
  PROVE  Times'
BY DEF IInv, Times, Linked

(* DoAdd of a timer that is in the queue: the assertion fails, and nothing *)
(* else has happened.                                                      *)
LEMMA LinkAsserts ==
  ASSUME IInv, NEW x \in Threads, Link(x), Linked(arg[x])
  PROVE  IInv'
<1>1. /\ pc[x] = "add" /\ asserted' = TRUE /\ when' = [when EXCEPT ![x] = 0]
      /\ UNCHANGED <<lists, pc, then, prime, stop, cbLock, arg, quiet>>
  BY DEF Link, DoAdd
<1>2. /\ TypeOK /\ Control /\ Owners
      /\ at[x] = "add" /\ at \in [Threads -> CallerPcs \union ManagerPcs] /\ at' = at
  <2>1. at' = at
    BY <1>1 DEF at
  <2> QED
    BY <1>1, <2>1, AtIsPc DEF IInv
<1>3. arg[x] \in Timers /\ ~OwnedByOne(arg[x])
  <2>1. CASE x = Manager
    BY <1>2, <2>1, Names DEF Control, Owners, Own
  <2>2. CASE x # Manager
    BY <1>2, <2>2, Names DEF Control, Owners, Own
  <2> QED
    BY <2>1, <2>2
<1>4. /\ when' \in [Threads -> Time] /\ Reach(when'[x])
      /\ \A y \in Threads : y # x => when'[y] = when[y]
  BY <1>1, <1>2, NowIsTime DEF TypeOK
<1>5. TypeOK'
  BY <1>1, <1>2, <1>3, <1>4 DEF TypeOK, lists, prime, stop, Linked
<1>6. Pauses' /\ Control' /\ Removing' /\ Owners'
  BY <1>1, <1>2 DEF IInv, Pauses, Control, Removing, Owners, Silent, Arming, Busy, Linked, lists, stop
<1>7. Times'
  <2>1. \A y \in Threads : (Arming(y) \/ at[y] = "addNow")' =>
           \/ (Arming(y) \/ at[y] = "addNow") /\ when'[y] = when[y]
           \/ Reach(when'[y])
    BY <1>1, <1>2, <1>4 DEF Arming
  <2>2. at'[Manager] = "addNow" => at[Manager] = "addNow" /\ when'[Manager] = when[Manager]
    BY <1>2, <1>4, Names
  <2> QED
    BY <1>1, <2>1, <2>2, TimesKept DEF lists, stop
<1>8. Told'
  BY <1>1 DEF IInv, Told, lists, prime
<1>9. Awake'
  BY <1>1, <1>2, <1>4, Names DEF IInv, Awake, lists, prime
<1> QED
  BY <1>5, <1>6, <1>7, <1>8, <1>9 DEF IInv

LEMMA LinkKeeps ==
  ASSUME IInv, ~asserted, NEW x \in Threads, Link(x)
  PROVE  IInv'
BY LinkAdds, LinkAsserts

LEMMA PrimeKeeps ==
  ASSUME IInv, ~asserted, NEW x \in Threads, Prime(x)
  PROVE  IInv'
<1>1. /\ pc[x] = "prime" /\ iNextTimer' = iTime[Head(queue)] /\ pc' = [pc EXCEPT ![x] = "signal"]
      /\ UNCHANGED <<lists, iSemaphore, stop, cbLock, arg, when, then, quiet, asserted>>
  BY DEF Prime, Goto
<1>2. /\ TypeOK /\ Pauses /\ pc \in [Threads -> Pcs] /\ x # None
  BY AtIsPc, Names DEF IInv
<1>3. qLock = x /\ queue # <<>> /\ Head(queue) \in Entries
  <2>1. qLock = x /\ queue # <<>>
    BY <1>1, <1>2 DEF Pauses
  <2> QED
    BY <1>2, <2>1, TailElements DEF TypeOK
<1>4. at' = at
  <2>1. \A y \in Threads : at'[y] = at[y]
    BY <1>1, <1>2 DEF at
  <2>2. at = [y \in Threads |-> at[y]] /\ at' = [y \in Threads |-> at'[y]]
    BY DEF at
  <2> QED
    BY <2>1, <2>2
<1>5. TypeOK'
  BY <1>1, <1>2, <1>3 DEF TypeOK, lists, stop
<1>6. Pauses'
  BY <1>1, <1>2 DEF Pauses, lists
<1>7. Control' /\ Removing' /\ Owners'
  BY <1>1, <1>4 DEF IInv, Control, Removing, Owners, Silent, Arming, Busy, Linked, lists, stop
<1>8. Times'
  BY <1>1, <1>4 DEF IInv, Times, Arming, Linked, lists, stop
<1>9. Told'
  BY <1>1 DEF Told, lists
<1>10. Awake'
  BY <1>1, <1>2, <1>3 DEF Awake, lists
<1> QED
  BY <1>5, <1>6, <1>7, <1>8, <1>9, <1>10 DEF IInv

LEMMA SignalKeeps ==
  ASSUME IInv, ~asserted, NEW x \in Threads, Signal(x)
  PROVE  IInv'
<1>1. /\ pc[x] = "signal" /\ iSemaphore' = iSemaphore + 1 /\ qLock' = None
      /\ pc' = [pc EXCEPT ![x] = then[x]] /\ then' = [then EXCEPT ![x] = "idle"]
      /\ UNCHANGED <<iTime, queue, iRemoving, iNextTimer, stop, cbLock, arg, when, quiet, asserted>>
  BY DEF Signal, Goto
<1>2. /\ TypeOK /\ Pauses /\ pc \in [Threads -> Pcs] /\ then \in [Threads -> Continuations]
  BY AtIsPc, Names DEF IInv
<1>3. then[x] \notin {"prime", "signal"} /\ then[x] \in Pcs /\ "idle" \in Continuations
  BY <1>2 DEF Continuations, Pcs, CallerPcs, ManagerPcs
<1>3a. qLock = x
  BY <1>1, <1>2 DEF Pauses
<1>4. at' = at
  <2>1. ASSUME NEW y \in Threads
        PROVE  at'[y] = at[y]
    BY <1>1, <1>2, <1>3 DEF at
  <2>2. at = [y \in Threads |-> at[y]] /\ at' = [y \in Threads |-> at'[y]]
    BY DEF at
  <2> QED
    BY <2>1, <2>2
<1>5. TypeOK'
  <2>1. pc' \in [Threads -> Pcs] /\ then' \in [Threads -> Continuations]
    BY <1>1, <1>2, <1>3
  <2> QED
    BY <1>1, <1>2, <2>1 DEF TypeOK, stop, Pcs, CallerPcs, ManagerPcs, Continuations
<1>6. Pauses'
  BY <1>1, <1>2, <1>3, <1>3a, Names DEF Pauses
<1>7. Control' /\ Removing' /\ Owners'
  BY <1>1, <1>4 DEF IInv, Control, Removing, Owners, Silent, Arming, Busy, Linked, stop
<1>8. Times'
  BY <1>1, <1>4 DEF IInv, Times, Arming, Linked, stop
<1>9. Told'
  BY <1>1, <1>3a DEF IInv, Told
<1>10. Awake'
  BY <1>1, <1>2 DEF Awake, TypeOK
<1> QED
  BY <1>5, <1>6, <1>7, <1>8, <1>9, <1>10 DEF IInv

LEMMA CallbackUnlockKeeps ==
  ASSUME IInv, ~asserted, NEW x \in Threads, CallbackUnlock(x)
  PROVE  IInv'
<1> DEFINE l == IF x = Manager THEN "sleep" ELSE "idle"
<1>1. /\ pc[x] = "unlock" /\ cbLock' = None /\ Goto(x, l)
      /\ quiet' = IF x = Manager THEN quiet ELSE quiet \union {arg[x]}
      /\ UNCHANGED <<lists, prime, stop, arg, when, then, asserted>>
  BY DEF CallbackUnlock
<1>2. l \in CallerPcs \union ManagerPcs /\ l \notin {"add", "remove", "unlock", "addNow", "wait"}
  BY DEF CallerPcs, ManagerPcs
<1> HIDE DEF l
<1>3. /\ pc' \in [Threads -> Pcs] /\ Pauses' /\ Told'
      /\ at[x] = "unlock" /\ \A y \in Threads : at'[y] = IF y = x THEN l ELSE at[y]
      /\ x # Manager /\ iSemaphore' = iSemaphore /\ when'[Manager] = when[Manager] => Awake'
  BY <1>1, <1>2, Moved DEF lists, prime
<1>4. TypeOK /\ Control /\ Owners /\ Removing
  BY DEF IInv
<1>5. cbLock = x /\ (x # Manager => arg[x] \in Timers /\ (arg[x] \in Own => ~Linked(arg[x])))
  BY <1>3, <1>4, Names DEF Control, Owners
<1>6. TypeOK'
  BY <1>1, <1>3, <1>4, <1>5 DEF TypeOK, Pcs, CallerPcs, ManagerPcs, lists, prime, stop
<1>7. ASSUME NEW c \in Callers, c # x, at[c] # "idle"
      PROVE  arg[c] \notin Silent'
  BY <1>1, <1>3, <1>4, <1>7, Names DEF Control, Silent, Own, OwnedByOne
<1>8. Control'
  <2>1. Linked(iNow)' <=> Linked(iNow)
    BY <1>1 DEF Linked, lists
  <2>2. arg' = arg /\ iStopped' = iStopped
    BY <1>1 DEF stop
  <2> HIDE DEF Linked
  <2>3. CASE x = Manager
    BY <1>1, <1>3, <1>4, <1>5, <1>7, <2>1, <2>2, <2>3, Names DEF Control, CallerPcs, ManagerPcs, l
  <2>4. CASE x # Manager
    BY <1>1, <1>3, <1>4, <1>5, <1>7, <2>1, <2>2, <2>4, Names DEF Control, CallerPcs, ManagerPcs, l
  <2> QED
    BY <2>3, <2>4
<1>9. Removing'
  BY <1>1, <1>3, <1>4, Names DEF Removing, Linked, lists
<1>10. \A t : Busy(t)' => Busy(t)
  BY <1>1, <1>2, <1>3, Names DEF Busy, l
<1>11. \A y \in Threads : Arming(y)' => Arming(y)
  BY <1>1, <1>2, <1>3, <1>4, <1>5, Names DEF Arming, Control
<1>12. Owners'
  <2>1. \A t : Linked(t)' <=> Linked(t)
    BY <1>1 DEF Linked, lists
  <2>2. ASSUME NEW t \in Silent'
        PROVE  ~Linked(t) /\ ~Busy(t)'
    <3>1. CASE t \in quiet
      BY <1>4, <1>10, <2>2, <3>1 DEF Owners, Silent
    <3>2. CASE t \notin quiet
      <4>1. x # Manager /\ t = arg[x] /\ t \in Own /\ cbLock # Manager
        BY <1>1, <1>5, <2>2, <3>2 DEF Silent
      <4>2. ~Busy(t)
        BY <1>4, <4>1 DEF Busy, Control
      <4> QED
        BY <1>5, <1>10, <4>1, <4>2
    <3> QED
      BY <3>1, <3>2
  <2>3. ASSUME NEW c \in Callers, Arming(c)', arg[c] \in Periodic \cap Own
        PROVE  ~Linked(arg[c]) /\ ~Busy(arg[c])'
    <3>1. ~Linked(arg[c]) /\ ~Busy(arg[c])
      BY <1>4, <1>11, <2>3, Names DEF Owners
    <3>2. at'[Manager] \in {"callback", "remove", "add"} => at'[Manager] = at[Manager]
      BY <1>2, <1>3, Names DEF l
    <3> QED
      BY <1>1, <3>1, <3>2 DEF Busy
  <2>4. \A c \in Callers : at'[c] \in {"add", "unlock"} /\ arg'[c] \in Own => ~Linked(arg[c])
    BY <1>1, <1>2, <1>3, <1>4, Names DEF Owners
  <2>5. at'[Manager] = "add" /\ arg'[Manager] \in Own => ~Linked(arg[Manager])
    BY <1>1, <1>2, <1>3, <1>4, Names DEF Owners
  <2>6. arg' = arg
    BY <1>1
  <2> HIDE DEF Linked
  <2> QED
    BY <1>1, <2>1, <2>2, <2>3, <2>4, <2>5, <2>6 DEF Owners, Linked
<1>13. Times'
  BY <1>1, <1>2, <1>3, <1>11, TimesKept, Names DEF lists, stop
<1>14. Awake'
  <2>1. CASE x # Manager
    BY <1>1, <1>3, <2>1 DEF prime
  <2>2. CASE x = Manager
    <3>1. at[Manager] = "unlock" /\ at'[Manager] = "sleep"
      BY <1>3, <2>2, Names DEF l
    <3> QED
      BY <1>1, <3>1 DEF IInv, Awake, lists, prime
  <2> QED
    BY <2>1, <2>2
<1> QED
  BY <1>3, <1>6, <1>8, <1>9, <1>12, <1>13, <1>14 DEF IInv

LEMMA CancelKeeps ==
  ASSUME IInv, ~asserted, NEW c \in Callers, NEW t \in Timers, Cancel(c, t)
  PROVE  IInv'
<1>1. /\ pc[c] = "idle" /\ c \in UsedBy[t] /\ t \notin quiet
      /\ arg' = [arg EXCEPT ![c] = t] /\ Goto(c, "lock")
      /\ UNCHANGED <<lists, prime, stop, cbLock, when, then, quiet, asserted>>
  BY DEF Cancel
<1>2. c \in Threads /\ c # Manager /\ "lock" \in CallerPcs \union ManagerPcs
  BY Names DEF CallerPcs
<1>3. /\ pc' \in [Threads -> Pcs] /\ Pauses' /\ Told'
      /\ at[c] = "idle" /\ \A y \in Threads : at'[y] = IF y = c THEN "lock" ELSE at[y]
      /\ c # Manager /\ iSemaphore' = iSemaphore /\ when'[Manager] = when[Manager] => Awake'
  BY <1>1, <1>2, Moved DEF lists, prime
<1>4. TypeOK /\ Control /\ Owners /\ Removing
  BY DEF IInv
<1>5. arg' \in [Threads -> Entries \union {None}] /\ \A y \in Threads : arg'[y] = IF y = c THEN t ELSE arg[y]
  BY <1>1, <1>2, <1>4, Names DEF TypeOK
<1>6. TypeOK'
  BY <1>1, <1>3, <1>4, <1>5 DEF TypeOK, Pcs, CallerPcs, ManagerPcs, lists, prime, stop
<1>7. \A f : Linked(f)' <=> Linked(f)
  BY <1>1 DEF Linked, lists
<1>8. Control'
  <2> HIDE DEF Linked
  <2> QED
    BY <1>1, <1>2, <1>3, <1>4, <1>5, <1>7, Names DEF Control, CallerPcs, ManagerPcs, stop, Silent
<1>9. Removing'
  BY <1>1, <1>2, <1>3, <1>4, Names DEF Removing, Linked, lists
<1>10. /\ \A f : Busy(f)' <=> Busy(f)
       /\ \A y \in Threads : Arming(y)' => Arming(y) /\ y # c
  BY <1>1, <1>2, <1>3, <1>5, Names DEF Busy, Arming
<1>11. Owners'
  <2>1. \A d \in Callers : Arming(d)' /\ arg'[d] \in Periodic \cap Own => ~Linked(arg[d])' /\ ~Busy(arg[d])'
    <3>1. ASSUME NEW d \in Callers, Arming(d)', arg'[d] \in Periodic \cap Own
          PROVE  ~Linked(arg[d])' /\ ~Busy(arg[d])'
      <4>1. d # c /\ Arming(d) /\ arg'[d] = arg[d]
        BY <1>5, <1>10, <3>1, Names
      <4>2. ~Linked(arg[d]) /\ ~Busy(arg[d])
        BY <1>4, <3>1, <4>1 DEF Owners
      <4>3. at'[Manager] = at[Manager] /\ arg'[Manager] = arg[Manager]
        BY <1>2, <1>3, <1>5, Names
      <4> QED
        BY <1>1, <4>1, <4>2, <4>3 DEF Linked, Busy, lists
    <3> QED
      BY <3>1
  <2>2. \A d \in Callers : at'[d] \in {"add", "unlock"} /\ arg'[d] \in Own => ~Linked(arg[d])'
    BY <1>1, <1>3, <1>4, <1>5, Names DEF Owners, Linked, lists
  <2>3. at'[Manager] = "add" /\ arg'[Manager] \in Own => ~Linked(arg[Manager])'
    BY <1>1, <1>2, <1>3, <1>4, <1>5, Names DEF Owners, Linked, lists
  <2> QED
    BY <1>1, <1>4, <1>7, <1>10, <2>1, <2>2, <2>3 DEF Owners, Silent
<1>12. Times'
  BY <1>1, <1>2, <1>3, <1>10, TimesKept, Names DEF lists, stop
<1>13. Awake'
  BY <1>1, <1>2, <1>3 DEF prime
<1> QED
  BY <1>3, <1>6, <1>8, <1>9, <1>11, <1>12, <1>13 DEF IInv

LEMMA FireInKeeps ==
  ASSUME IInv, ~asserted, NEW c \in Callers, NEW t \in Timers, NEW d \in Delays, FireIn(c, t, d)
  PROVE  IInv'
<1>1. /\ pc[c] = "idle" /\ c \in UsedBy[t] /\ (t \in Periodic => t \in quiet) /\ quiet' = quiet \ {t}
      /\ arg' = [arg EXCEPT ![c] = t] /\ when' = [when EXCEPT ![c] = d] /\ Goto(c, "remove")
      /\ UNCHANGED <<lists, prime, stop, cbLock, then, asserted>>
  BY DEF FireIn
<1>2. c \in Threads /\ c # Manager /\ "remove" \in CallerPcs \union ManagerPcs
  BY Names DEF CallerPcs
<1>2a. when'[Manager] = when[Manager]
  BY <1>1, <1>2, Names DEF IInv, TypeOK
<1>3. /\ pc' \in [Threads -> Pcs] /\ Pauses' /\ Told'
      /\ at[c] = "idle" /\ \A y \in Threads : at'[y] = IF y = c THEN "remove" ELSE at[y]
      /\ c # Manager /\ iSemaphore' = iSemaphore /\ when'[Manager] = when[Manager] => Awake'
  BY <1>1, <1>2, Moved DEF lists, prime
<1>4. TypeOK /\ Control /\ Owners /\ Removing
  BY DEF IInv
<1>5. arg' \in [Threads -> Entries \union {None}] /\ \A y \in Threads : arg'[y] = IF y = c THEN t ELSE arg[y]
  BY <1>1, <1>2, <1>4, Names DEF TypeOK
<1>5a. /\ d \in Time /\ Reach(d) /\ when' \in [Threads -> Time]
       /\ \A y \in Threads : when'[y] = IF y = c THEN d ELSE when[y]
  BY <1>1, <1>2, <1>4, DelayInReach DEF TypeOK
<1>6. TypeOK'
  BY <1>1, <1>3, <1>4, <1>5, <1>5a DEF TypeOK, Pcs, CallerPcs, ManagerPcs, lists, prime, stop
<1>7. \A f : Linked(f)' <=> Linked(f)
  BY <1>1 DEF Linked, lists
<1>8. Control'
  <2> HIDE DEF Linked
  <2>1. cbLock # c
    BY <1>3, <1>4 DEF Control
  <2> QED
    BY <1>1, <1>2, <1>3, <1>4, <1>5, <1>7, <2>1, Names DEF Control, CallerPcs, ManagerPcs, stop, Silent
<1>9. Removing'
  BY <1>1, <1>2, <1>3, <1>4, Names DEF Removing, Linked, lists
<1>10. /\ \A f : Busy(f)' <=> Busy(f)
       /\ \A y \in Threads : Arming(y)' => Arming(y) \/ y = c
  BY <1>1, <1>2, <1>3, <1>5, Names DEF Busy, Arming
<1>11. Owners'
  <2>1. ASSUME NEW b \in Callers, Arming(b)', arg'[b] \in Periodic \cap Own
        PROVE  ~Linked(arg[b])' /\ ~Busy(arg[b])'
    <3>1. ~Linked(arg'[b]) /\ ~Busy(arg'[b])
      BY <1>1, <1>4, <1>5, <1>10, <2>1, Names DEF Owners, Silent
    <3>2. at'[Manager] = at[Manager] /\ arg'[Manager] = arg[Manager]
      BY <1>2, <1>3, <1>5, Names
    <3> QED
      BY <1>1, <3>1, <3>2 DEF Linked, Busy, lists
  <2>2. \A b \in Callers : at'[b] \in {"add", "unlock"} /\ arg'[b] \in Own => ~Linked(arg[b])'
    BY <1>1, <1>3, <1>4, <1>5, Names DEF Owners, Linked, lists
  <2>3. at'[Manager] = "add" /\ arg'[Manager] \in Own => ~Linked(arg[Manager])'
    BY <1>1, <1>2, <1>3, <1>4, <1>5, Names DEF Owners, Linked, lists
  <2> QED
    BY <1>1, <1>4, <1>7, <1>10, <2>1, <2>2, <2>3 DEF Owners, Silent
<1>12. Times'
  BY <1>1, <1>2, <1>3, <1>5a, <1>10, TimesKept, Names DEF lists, stop
<1>13. Awake'
  BY <1>1, <1>2, <1>2a, <1>3 DEF prime
<1> QED
  BY <1>3, <1>6, <1>8, <1>9, <1>11, <1>12, <1>13 DEF IInv

LEMMA CallbackLockKeeps ==
  ASSUME IInv, ~asserted, NEW c \in Callers, CallbackLock(c)
  PROVE  IInv'
<1>1. /\ c # Manager /\ pc[c] = "lock" /\ cbLock = None /\ cbLock' = c /\ Goto(c, "remove")
      /\ UNCHANGED <<lists, prime, stop, arg, when, then, quiet, asserted>>
  BY DEF CallbackLock
<1>2. c \in Threads /\ "remove" \in CallerPcs \union ManagerPcs
  BY Names DEF CallerPcs
<1>3. /\ pc' \in [Threads -> Pcs] /\ Pauses' /\ Told'
      /\ at[c] = "lock" /\ \A y \in Threads : at'[y] = IF y = c THEN "remove" ELSE at[y]
      /\ c # Manager /\ iSemaphore' = iSemaphore /\ when'[Manager] = when[Manager] => Awake'
  BY <1>1, <1>2, Moved DEF lists, prime
<1>4. TypeOK /\ Control /\ Owners /\ Removing
  BY DEF IInv
<1>5. TypeOK'
  BY <1>1, <1>2, <1>3, <1>4 DEF TypeOK, Pcs, CallerPcs, ManagerPcs, lists, prime, stop
<1>6. Linked(iNow)' <=> Linked(iNow)
  BY <1>1 DEF Linked, lists
<1>7. Control'
  <2> HIDE DEF Linked
  <2> QED
    BY <1>1, <1>2, <1>3, <1>4, <1>6, Names DEF Control, CallerPcs, ManagerPcs, stop, Silent
<1>8. Removing'
  BY <1>1, <1>2, <1>3, <1>4, Names DEF Removing, Linked, lists
<1>9. \A y \in Threads : Arming(y)' => Arming(y) /\ at'[y] = at[y]
  BY <1>1, <1>2, <1>3, Names DEF Arming
<1>10. Owners'
  <2>1. at'[Manager] = at[Manager]
    BY <1>1, <1>3, Names
  <2>2. \A d \in Callers : at'[d] \in {"add", "unlock"} => at'[d] = at[d]
    BY <1>3, Names
  <2> QED
    BY <1>1, <1>4, <1>9, <2>1, <2>2, Names DEF Owners, Busy, Linked, lists, Silent
<1>11. Times'
  BY <1>1, <1>2, <1>3, <1>9, TimesKept, Names DEF lists, stop
<1>12. Awake'
  BY <1>1, <1>3 DEF prime
<1> QED
  BY <1>3, <1>5, <1>7, <1>8, <1>10, <1>11, <1>12 DEF IInv

(* The steps of the manager's thread that are no operations of the queue,  *)
(* and set no timer.                                                       *)
ManagerMoves(l) ==
  /\ pc[Manager] \in {"sleep", "check", "wait", "lock"} /\ Goto(Manager, l)
  /\ UNCHANGED <<iTime, queue, qLock, then, iNextTimer, arg, quiet, asserted, iStop>>

LEMMA ManagerMoved ==
  ASSUME IInv, ~asserted, NEW l \in ManagerPcs, l \notin {"callback", "remove", "add", "addNow"},
         ManagerMoves(l), UNCHANGED iRemoving, iSemaphore' \in Nat,
         when' \in [Threads -> Time], \A c \in Callers : when'[c] = when[c],
         iStopped' = (iStopped \/ l = "stopped"), iStopped' \in BOOLEAN,
         cbLock' = IF l = "head" THEN Manager ELSE cbLock, l = "head" => cbLock = None,
         l = "stopped" \/ ~iStopped,
         pc[Manager] = "lock" <=> l = "head",
         iRemoving => l = "head", l # "lock", l # "unlock"
  PROVE  /\ TypeOK' /\ Pauses' /\ Control' /\ Removing' /\ Owners' /\ Times' /\ Told'
         /\ at[Manager] = pc[Manager] /\ at'[Manager] = l
<1>1. Manager \in Threads /\ l \in CallerPcs \union ManagerPcs
  BY Names
<1>2. /\ pc' \in [Threads -> Pcs] /\ Pauses' /\ Told'
      /\ at[Manager] = pc[Manager]
      /\ \A y \in Threads : at'[y] = IF y = Manager THEN l ELSE at[y]
  BY <1>1, Moved DEF ManagerMoves
<1>3. TypeOK /\ Control /\ Owners /\ Removing
  BY DEF IInv
<1>4. TypeOK'
  BY <1>1, <1>2, <1>3 DEF TypeOK, Pcs, CallerPcs, ManagerPcs, ManagerMoves
<1>5. \A f : Linked(f)' <=> Linked(f)
  BY DEF Linked, ManagerMoves
<1>6. at[Manager] \notin {"callback", "remove", "add", "head", "unlock"}
  BY <1>2 DEF ManagerMoves
<1>7. Control'
  <2>1. Linked(iNow)' <=> l = "head"
    BY <1>2, <1>3, <1>5, <1>6 DEF Control, ManagerMoves
  <2> HIDE DEF Linked
  <2>2. /\ cbLock' = Manager <=> l = "head"
        /\ iStopped' <=> l = "stopped"
    BY <1>2, <1>3, <1>6, Names DEF Control
  <2>3. ASSUME NEW c \in Callers
        PROVE  /\ at'[c] = at[c] /\ arg'[c] = arg[c] /\ (cbLock' = c <=> cbLock = c)
    BY <1>2, Names DEF ManagerMoves
  <2> QED
    BY <1>2, <1>3, <2>1, <2>2, <2>3, Names DEF Control, ManagerMoves, Silent
<1>8. Removing'
  <2>1. iRemoving => Linked(iNow)
    BY <1>2, <1>3 DEF Control
  <2> QED
    BY <1>3, <1>5, <2>1 DEF Removing, ManagerMoves
<1>9. \A y \in Threads : Arming(y)' => Arming(y) /\ y # Manager
  BY <1>2, Names DEF Arming
<1>10. Owners'
  <2>1. at'[Manager] \notin {"callback", "remove", "add"}
    BY <1>1, <1>2
  <2>2. \A d \in Callers : at'[d] = at[d]
    BY <1>2, Names
  <2> QED
    BY <1>3, <1>9, <2>1, <2>2, Names DEF Owners, Busy, Linked, ManagerMoves, Silent
<1>11. Times'
  BY <1>1, <1>2, <1>9, TimesKept, Names DEF ManagerMoves
<1> QED
  BY <1>1, <1>2, <1>4, <1>7, <1>8, <1>10, <1>11

LEMMA SleepKeeps ==
  ASSUME IInv, ~asserted, Sleep \/ WaitTimeout
  PROVE  IInv'
<1>1. /\ pc[Manager] \in {"sleep", "wait"} /\ ManagerMoves("check")
      /\ when' = [when EXCEPT ![Manager] = 0]
      /\ iSemaphore' = iSemaphore \/ (iSemaphore > 0 /\ iSemaphore' = iSemaphore - 1)
      /\ UNCHANGED <<iRemoving, iStopped, cbLock>>
  BY DEF Sleep, WaitTimeout, ManagerMoves, lists, prime, stop
<1>2. /\ TypeOK /\ Pauses /\ Control /\ Removing /\ at[Manager] = pc[Manager]
      /\ "check" \in ManagerPcs
  BY <1>1, AtIsPc, Names DEF IInv, ManagerPcs
<1>3. iSemaphore' \in Nat
  BY <1>1, <1>2 DEF TypeOK
<1>4. when' \in [Threads -> Time] /\ \A c \in Callers : when'[c] = when[c]
  BY <1>1, <1>2, NowIsTime, Names DEF TypeOK
<1>5. ~iRemoving /\ ~iStopped /\ iStopped \in BOOLEAN
  BY <1>1, <1>2 DEF Control, Removing, TypeOK
<1>6. /\ TypeOK' /\ Pauses' /\ Control' /\ Removing' /\ Owners' /\ Times' /\ Told'
      /\ at'[Manager] = "check"
  BY <1>1, <1>2, <1>3, <1>4, <1>5, ManagerMoved
<1>7. Awake'
  BY <1>6 DEF Awake
<1> QED
  BY <1>6, <1>7 DEF IInv

LEMMA CheckKeeps ==
  ASSUME IInv, ~asserted, Check
  PROVE  IInv'
<1>1. /\ pc[Manager] = "check"
      /\ UNCHANGED <<lists, prime, iStop, cbLock, arg, then, quiet, asserted>>
  BY DEF Check
<1>2. /\ TypeOK /\ Pauses /\ Control /\ Removing /\ at[Manager] = pc[Manager]
      /\ {"stopped", "fire", "wait"} \subseteq ManagerPcs
  BY <1>1, AtIsPc, Names DEF IInv, ManagerPcs
<1>3. ~iRemoving /\ ~iStopped /\ iStopped \in BOOLEAN /\ iSemaphore' \in Nat
  BY <1>1, <1>2 DEF Control, Removing, TypeOK, prime
<1>4. PICK l \in {"stopped", "fire", "wait"} :
        /\ Goto(Manager, l) /\ iStopped' = (l = "stopped")
        /\ when' = IF l = "wait" THEN [when EXCEPT ![Manager] = iNextTimer] ELSE when
  <2>1. CASE iStop /\ iStopped' = TRUE /\ Goto(Manager, "stopped") /\ UNCHANGED when
    BY <2>1
  <2>2. CASE Goto(Manager, "fire") /\ UNCHANGED <<iStopped, when>>
    BY <1>3, <2>2
  <2>3. CASE when' = [when EXCEPT ![Manager] = iNextTimer] /\ Goto(Manager, "wait") /\ UNCHANGED iStopped
    BY <1>3, <2>3
  <2> QED
    BY <2>1, <2>2, <2>3 DEF Check
<1>5. when' \in [Threads -> Time] /\ \A c \in Callers : when'[c] = when[c]
  BY <1>2, <1>4, Names DEF TypeOK
<1>6. ManagerMoves(l)
  BY <1>1, <1>4 DEF ManagerMoves, lists, prime
<1>7. /\ TypeOK' /\ Pauses' /\ Control' /\ Removing' /\ Owners' /\ Times' /\ Told'
      /\ at'[Manager] = l
  <2>1. /\ l \in ManagerPcs /\ l \notin {"callback", "remove", "add", "addNow", "lock", "unlock"}
        /\ l # "head" /\ pc[Manager] # "lock"
    BY <1>1, <1>2
  <2> QED
    BY <1>1, <1>3, <1>4, <1>5, <1>6, <2>1, ManagerMoved DEF lists
<1>8. Awake'
  <2>1. l = "wait" => when'[Manager] = iNextTimer
    BY <1>2, <1>4, Names DEF TypeOK
  <2> QED
    BY <1>1, <1>7, <2>1 DEF Awake, prime
<1> QED
  BY <1>7, <1>8 DEF IInv

LEMMA FireLockKeeps ==
  ASSUME IInv, ~asserted, FireLock
  PROVE  IInv'
<1>1. /\ pc[Manager] = "lock" /\ cbLock = None /\ cbLock' = Manager /\ ManagerMoves("head")
      /\ UNCHANGED <<iRemoving, iSemaphore, iStopped, when>>
  BY DEF FireLock, ManagerMoves, lists, prime, stop
<1>2. /\ TypeOK /\ Pauses /\ Control /\ at[Manager] = pc[Manager]
      /\ "head" \in ManagerPcs
  BY <1>1, AtIsPc, Names DEF IInv, ManagerPcs
<1>3. ~iStopped /\ iStopped \in BOOLEAN /\ iSemaphore' \in Nat /\ when' \in [Threads -> Time]
  BY <1>1, <1>2 DEF Control, TypeOK
<1>4. /\ TypeOK' /\ Pauses' /\ Control' /\ Removing' /\ Owners' /\ Times' /\ Told'
      /\ at'[Manager] = "head"
  BY <1>1, <1>2, <1>3, ManagerMoved
<1>5. Awake'
  BY <1>4 DEF Awake
<1> QED
  BY <1>4, <1>5 DEF IInv

LEMMA FireKeeps ==
  ASSUME IInv, ~asserted, Fire
  PROVE  IInv'
<1>1. /\ pc[Manager] = "fire" /\ iRemoving' = TRUE /\ when' = [when EXCEPT ![Manager] = 1]
      /\ Goto(Manager, "addNow")
      /\ UNCHANGED <<iTime, queue, qLock, prime, stop, cbLock, arg, then, quiet, asserted>>
  BY DEF Fire
<1>2. Manager \in Threads /\ "addNow" \in CallerPcs \union ManagerPcs
  BY Names DEF ManagerPcs
<1>3. /\ pc' \in [Threads -> Pcs] /\ Pauses' /\ Told'
      /\ at[Manager] = "fire"
      /\ \A y \in Threads : at'[y] = IF y = Manager THEN "addNow" ELSE at[y]
  BY <1>1, <1>2, Moved DEF prime
<1>4. TypeOK /\ Control /\ Owners
  BY DEF IInv
<1>5. /\ when' \in [Threads -> Time] /\ when'[Manager] = 1
      /\ \A c \in Callers : when'[c] = when[c]
  BY <1>1, <1>4, NowIsTime, Names DEF TypeOK
<1>6. TypeOK'
  BY <1>1, <1>3, <1>4, <1>5 DEF TypeOK, Pcs, CallerPcs, ManagerPcs, prime, stop
<1>7. Control'
  <2>1. Linked(iNow)' <=> Linked(iNow)
    BY <1>1 DEF Linked
  <2> HIDE DEF Linked
  <2> QED
    BY <1>1, <1>2, <1>3, <1>4, <2>1, Names DEF Control, ManagerPcs, stop, Silent
<1>8. ~Linked(iNow)
  BY <1>3, <1>4 DEF Control
<1>9. Removing'
  <2>1. queue' # <<>> => Head(queue') # iNow
    BY <1>1, <1>4, <1>8, TailElements DEF TypeOK, Linked
  <2> QED
    BY <1>2, <1>3, <2>1 DEF Removing
<1>10. \A y \in Threads : Arming(y)' => Arming(y) /\ y # Manager
  BY <1>1, <1>3 DEF Arming
<1>11. Owners'
  <2>1. at'[Manager] \notin {"callback", "remove", "add"}
    BY <1>2, <1>3
  <2>2. \A d \in Callers : at'[d] = at[d]
    BY <1>3, Names
  <2> QED
    BY <1>1, <1>4, <1>10, <2>1, <2>2, Names DEF Owners, Busy, Linked, Silent
<1>12. Times'
  <2>1. Reach(1) /\ Left(1) <= 1
    BY NowIsTime
  <2>2. \A y \in Threads : (Arming(y) \/ at[y] = "addNow")' =>
           \/ (Arming(y) \/ at[y] = "addNow") /\ when'[y] = when[y]
           \/ Reach(when'[y])
    BY <1>3, <1>5, <1>10, <2>1, Names
  <2> QED
    BY <1>1, <1>5, <2>1, <2>2, TimesKept DEF stop
<1>13. Awake'
  BY <1>2, <1>3 DEF Awake
<1> QED
  BY <1>3, <1>6, <1>7, <1>9, <1>11, <1>12, <1>13 DEF IInv

LEMMA CallbackKeeps ==
  ASSUME IInv, ~asserted, Callback
  PROVE  IInv'
<1>1. /\ pc[Manager] = "callback"
      /\ UNCHANGED <<lists, prime, stop, cbLock, arg, then, quiet, asserted>>
  BY DEF Callback
<1>2. PICK l \in {"remove", "head"} :
        /\ Goto(Manager, l) /\ (l = "remove" => arg[Manager] \in Periodic)
        /\ IF l = "remove" THEN \E d \in Delays : when' = [when EXCEPT ![Manager] = d]
                           ELSE when' = when
  BY DEF Callback
<1>3. Manager \in Threads /\ l \in CallerPcs \union ManagerPcs
  BY Names DEF ManagerPcs
<1>4. /\ pc' \in [Threads -> Pcs] /\ Pauses' /\ Told'
      /\ at[Manager] = "callback"
      /\ \A y \in Threads : at'[y] = IF y = Manager THEN l ELSE at[y]
  BY <1>1, <1>2, <1>3, Moved DEF prime, lists
<1>5. TypeOK /\ Control /\ Owners /\ Removing
  BY DEF IInv
<1>6. /\ when' \in [Threads -> Time] /\ (l = "remove" => Reach(when'[Manager]))
      /\ \A c \in Callers : when'[c] = when[c]
  <2>1. CASE l = "remove"
    <3>1. PICK d \in Delays : when' = [when EXCEPT ![Manager] = d]
      BY <1>2, <2>1
    <3> QED
      BY <1>5, <3>1, DelayInReach, Names DEF TypeOK
  <2>2. CASE l # "remove"
    BY <1>2, <1>5, <2>2 DEF TypeOK
  <2> QED
    BY <2>1, <2>2
<1>7. TypeOK'
  BY <1>1, <1>4, <1>5, <1>6 DEF TypeOK, Pcs, CallerPcs, ManagerPcs, prime, stop, lists
<1>8. Linked(iNow)' <=> Linked(iNow)
  BY <1>1 DEF Linked, lists
<1>9. Control'
  <2> HIDE DEF Linked
  <2> QED
    BY <1>1, <1>2, <1>3, <1>4, <1>5, <1>8, Names DEF Control, ManagerPcs, stop, Silent
<1>10. Removing'
  BY <1>1, <1>4, <1>5, <1>8 DEF Removing, Control, lists
<1>11. \A y \in Callers : Arming(y)' => Arming(y) /\ at'[y] = at[y]
  BY <1>1, <1>4, Names DEF Arming
<1>12. Owners'
  <2>1. /\ at[Manager] = "callback" /\ at'[Manager] \in {"remove", "head"}
        /\ \A d \in Callers : at'[d] = at[d]
    BY <1>3, <1>4, Names
  <2> QED
    BY <1>1, <1>5, <1>11, <2>1, Names DEF Owners, Busy, Linked, lists, Silent
<1>13. Times'
  <2>1. \A y \in Threads : (Arming(y) \/ at[y] = "addNow")' =>
           \/ (Arming(y) \/ at[y] = "addNow") /\ when'[y] = when[y]
           \/ Reach(when'[y])
    BY <1>2, <1>3, <1>4, <1>6, <1>11, Names DEF Arming
  <2>2. at'[Manager] # "addNow"
    BY <1>3, <1>4
  <2> QED
    BY <1>1, <2>1, <2>2, TimesKept DEF lists, stop
<1>14. Awake'
  BY <1>3, <1>4 DEF Awake
<1> QED
  BY <1>4, <1>7, <1>9, <1>10, <1>12, <1>13, <1>14 DEF IInv

LEMMA StopKeeps ==
  ASSUME IInv, ~asserted, Stop
  PROVE  IInv'
<1>1. /\ iStop' = TRUE /\ iSemaphore' = iSemaphore + 1 /\ iSemaphore \in Nat
      /\ UNCHANGED <<lists, iNextTimer, iStopped, cbLock, threads, quiet, asserted>>
  BY DEF Stop, IInv, TypeOK
<1>2. at' = at
  BY <1>1 DEF at, threads
<1>3. TypeOK'
  BY <1>1 DEF IInv, TypeOK, lists, threads
<1>4. Pauses' /\ Control' /\ Removing' /\ Owners' /\ Times' /\ Told'
  BY <1>1, <1>2 DEF IInv, Pauses, Control, Removing, Owners, Silent, Times, Told, Arming, Busy, Linked,
                    lists, threads
<1>5. Awake'
  BY <1>1, <1>2 DEF IInv, Awake, lists, threads
<1> QED
  BY <1>3, <1>4, <1>5 DEF IInv

-----------------------------------------------------------------------------
(* A millisecond passes                                                    *)

LEMMA SettingMeans ==
  ASSUME IInv, NEW x \in Threads
  PROVE  Setting(x) <=> Arming(x) \/ at[x] = "addNow"
<1>1. /\ pc[x] \in Pcs /\ then[x] \in Continuations
      /\ pc[x] \notin {"prime", "signal"} => at[x] = pc[x]
      /\ pc[x] \in {"prime", "signal"} => at[x] = then[x]
      /\ pc[x] \notin {"prime", "signal"} => then[x] = "idle"
  BY AtIsPc DEF IInv, Pauses
<1>2. CASE pc[x] \in {"prime", "signal"}
  BY <1>1, <1>2 DEF Setting, Arming, Continuations
<1>3. CASE pc[x] \notin {"prime", "signal"}
  BY <1>1, <1>3 DEF Setting, Arming
<1> QED
  BY <1>2, <1>3

LEMMA TickKeeps ==
  ASSUME IInv, ~asserted, Tick
  PROVE  IInv'
<1> DEFINE E(a) == (a - 1) % Width
<1>1. /\ iStopped \/ \A time \in Expected : Left(time) > -MaxLate
      /\ iTime' = [e \in Entries |-> IF Linked(e) THEN E(iTime[e]) ELSE iTime[e]]
      /\ when' = [x \in Threads |-> IF Setting(x) \/ pc[x] = "wait" THEN E(when[x]) ELSE when[x]]
      /\ iNextTimer' = E(iNextTimer)
      /\ UNCHANGED <<queue, qLock, iRemoving, iSemaphore, stop, cbLock, pc, arg, then, quiet, asserted>>
  BY DEF Tick
<1>2. TypeOK /\ Pauses /\ Control
  BY DEF IInv
<1>3. \A a \in Time : E(a) \in Time
  BY Nearer
<1>4. \A a \in Time : Reach(a) /\ Left(a) > -MaxLate => Left(E(a)) = Left(a) - 1 /\ Reach(E(a))
  BY Nearer
<1> HIDE DEF E
<1>5. at' = at
  BY <1>1 DEF at
<1>6. TypeOK'
  BY <1>1, <1>2, <1>3 DEF TypeOK, stop
<1>7. Pauses' /\ Control' /\ Removing' /\ Owners'
  BY <1>1, <1>5 DEF IInv, Pauses, Control, Removing, Owners, Silent, Arming, Busy, Linked, stop
<1>8. Range(queue) \subseteq Entries /\ queue \in Seq(Entries)
  BY <1>2, RangeInSet DEF TypeOK
<1>9. \A e \in Range(queue) : iTime'[e] = E(iTime[e]) /\ iTime[e] \in Time
  BY <1>1, <1>2, <1>8 DEF Linked, TypeOK
<1>10. Times'
  <2>1. SUFFICES ASSUME ~iStopped
                 PROVE  Times'
    BY <1>1 DEF Times, stop
  <2>2. /\ \A e \in Range(queue) : Reach(iTime[e])
        /\ \A x \in Threads : Arming(x) \/ at[x] = "addNow" => Reach(when[x])
        /\ Ordered(queue, iTime)
        /\ Linked(iNow) => Left(iTime[iNow]) <= 1
        /\ at[Manager] = "addNow" => Left(when[Manager]) <= 1
    BY <2>1 DEF IInv, Times
  <2>3. ASSUME NEW e \in Range(queue)
        PROVE  Left(iTime'[e]) = Left(iTime[e]) - 1 /\ Reach(iTime'[e])
    <3>1. iTime[e] \in Expected
      BY DEF Expected
    <3> QED
      BY <1>1, <1>4, <1>9, <2>1, <2>2, <3>1
  <2>4. ASSUME NEW x \in Threads, Arming(x) \/ at[x] = "addNow"
        PROVE  Left(when'[x]) = Left(when[x]) - 1 /\ Reach(when'[x])
    <3>1. Setting(x)
      BY <2>4, SettingMeans
    <3>2. when[x] \in Expected
      BY <3>1 DEF Expected
    <3>3. when'[x] = E(when[x]) /\ when[x] \in Time
      BY <1>1, <1>2, <3>1 DEF TypeOK
    <3> QED
      BY <1>1, <1>4, <2>1, <2>2, <2>4, <3>2, <3>3
  <2>5. \A a : Reach(a) => Left(a) \in Int
    BY Compared
  <2>6. \A x \in Threads : (Arming(x) \/ at[x] = "addNow")' <=> (Arming(x) \/ at[x] = "addNow")
    BY <1>1, <1>5 DEF Arming
  <2>7. Ordered(queue', iTime')
    <3>1. ASSUME NEW i \in 1..Len(queue)
          PROVE  queue[i] \in Range(queue)
      BY <1>8 DEF Range
    <3>2. ASSUME NEW i \in 1..Len(queue), NEW j \in 1..Len(queue), i < j
          PROVE  Left(iTime'[queue[i]]) <= Left(iTime'[queue[j]])
      <4>1. Left(iTime[queue[i]]) <= Left(iTime[queue[j]])
        BY <2>2, <3>2 DEF Ordered
      <4>2. Left(iTime[queue[i]]) \in Int /\ Left(iTime[queue[j]]) \in Int
        BY <2>2, <2>5, <3>1
      <4> QED
        BY <2>3, <3>1, <4>1, <4>2
    <3> QED
      BY <1>1, <3>2 DEF Ordered
  <2>8. Linked(iNow)' => Left(iTime'[iNow]) <= 1
    BY <1>1, <2>2, <2>3, <2>5 DEF Linked
  <2>9. at'[Manager] = "addNow" => Left(when'[Manager]) <= 1
    BY <1>5, <2>2, <2>4, <2>5, Names
  <2> QED
    BY <1>1, <2>3, <2>4, <2>6, <2>7, <2>8, <2>9 DEF Times
<1>11. Told'
  <2>1. queue # <<>> => Head(queue) \in Range(queue)
    BY <1>8, TailElements
  <2> QED
    BY <1>1, <1>9, <2>1 DEF IInv, Told
<1>12. Awake'
  <2>1. at[Manager] = "wait" => pc[Manager] = "wait"
    BY <1>2, AtIsPc, Names DEF Continuations
  <2> QED
    BY <1>1, <1>5, <2>1, Names DEF IInv, Awake
<1> QED
  BY <1>6, <1>7, <1>10, <1>11, <1>12 DEF IInv

-----------------------------------------------------------------------------
LEMMA InitHolds == Init => IInv
<1> SUFFICES ASSUME Init
             PROVE  IInv
  OBVIOUS
<1>1. TypeOK
  <2>1. iTime \in [Entries -> Time] /\ when \in [Threads -> Time] /\ iNextTimer \in Time
    BY NowIsTime DEF Init
  <2>2. pc \in [Threads -> {"sleep", "idle"}] /\ then \in [Threads -> {"idle"}]
    BY DEF Init
  <2>3. pc \in [Threads -> Pcs] /\ then \in [Threads -> Continuations]
    BY <2>2 DEF Pcs, CallerPcs, ManagerPcs, Continuations
  <2>4. arg \in [Threads -> Entries \union {None}] /\ queue \in Seq(Entries)
    BY DEF Init
  <2>5. /\ qLock = None /\ iRemoving = FALSE /\ iSemaphore = 0 /\ iStop = FALSE /\ iStopped = FALSE
        /\ cbLock = None /\ quiet = Timers /\ asserted = FALSE
    BY DEF Init
  <2> QED
    BY <2>1, <2>3, <2>4, <2>5 DEF TypeOK, Pcs, CallerPcs, ManagerPcs, Continuations
<1>2. \A x \in Threads : at[x] = IF x = Manager THEN "sleep" ELSE "idle"
  BY DEF Init, at
<1>3. Range(queue) = {} /\ Len(queue) = 0
  BY DEF Init, Range
<1>4. Pauses
  BY <1>3, Names DEF Init, Pauses, IsInjective
<1>5. Control /\ Removing /\ Owners
  BY <1>2, <1>3, Names DEF Init, Control, Removing, Owners, Arming, Busy, Linked,
                           CallerPcs, ManagerPcs
<1>6. Times
  BY <1>2, <1>3, Names DEF Times, Ordered, Linked, Arming
<1>7. Told /\ Awake
  BY <1>2, Names DEF Init, Told, Awake
<1> QED
  BY <1>1, <1>4, <1>5, <1>6, <1>7 DEF IInv

LEMMA NextKeeps == IInv /\ [Next]_vars => IInv'
<1> SUFFICES ASSUME IInv, [Next]_vars, UNCHANGED vars \/ ~asserted
             PROVE  IInv'
  BY DEF Next
<1>1. ASSUME ~asserted, NEW x \in Threads, QueueStep(x)
      PROVE  IInv'
  BY <1>1, PrimeKeeps, SignalKeeps, UnlinkKeeps, LinkKeeps, CallbackUnlockKeeps DEF QueueStep
<1>2. ASSUME ~asserted, NEW c \in Callers, CallerStep(c)
      PROVE  IInv'
  BY <1>1, <1>2, CallbackLockKeeps, Names DEF CallerStep
<1>3. ASSUME ~asserted, NEW c \in Callers, NEW t \in Timers, Cancel(c, t) \/ \E d \in Delays : FireIn(c, t, d)
      PROVE  IInv'
  BY <1>3, CancelKeeps, FireInKeeps
<1>4. CASE ~asserted /\ ManagerStep
  BY <1>1, <1>4, SleepKeeps, CheckKeeps, FireKeeps, AddNowKeeps, FireLockKeeps, RemoveHeadKeeps,
     CallbackKeeps, Names DEF ManagerStep
<1>5. CASE UNCHANGED vars
  <2>1. at' = at
    BY <1>5 DEF at, vars, threads
  <2>2. TypeOK'
    BY <1>5 DEF IInv, TypeOK, vars, lists, prime, stop, threads
  <2> QED
    BY <1>5, <2>1, <2>2
    DEF IInv, Pauses, Control, Removing, Owners, Silent, Times, Told, Awake, Arming, Busy, Linked,
        vars, lists, prime, stop, threads
<1> QED
  BY <1>2, <1>3, <1>4, <1>5, StopKeeps, TickKeeps DEF Next

(* Every reachable state satisfies the inductive invariant.                *)
THEOREM Invariance == Spec => []IInv
BY InitHolds, NextKeeps, PTL DEF Spec

(* Types are kept.  And whichever threads arm a timer, DoAdd's ASSERT      *)
(* (Timer.cpp) fails only for one that several of them arm: never for the  *)
(* entry of the present, for a timer of one owner, nor for one that its    *)
(* callback arms, by their own doing.                                      *)
THEOREM TypeCorrect == Spec => []TypeOK
<1>1. IInv => TypeOK
  BY DEF IInv
<1> QED
  BY <1>1, Invariance, PTL

(* The queue is in the order of times however the word wraps around, the   *)
(* manager sleeps no longer than to the first timer, and whoever leaves a  *)
(* new head to Fire finds Fire there to serve it.                          *)
THEOREM HeadIsServed == Spec => []HeadServed
<1>1. IInv => Sorted
  <2> SUFFICES ASSUME IInv, ~iStopped, NEW i \in 1..Len(queue), NEW j \in 1..Len(queue), i < j
               PROVE  Minus(iTime[queue[i]], iTime[queue[j]]) <= 0
    BY DEF Sorted
  <2>1. queue[i] \in Range(queue) /\ queue[j] \in Range(queue)
    BY DEF IInv, TypeOK, Range
  <2>2. Reach(iTime[queue[i]]) /\ Reach(iTime[queue[j]])
    BY <2>1 DEF IInv, Times
  <2>3. Left(iTime[queue[i]]) <= Left(iTime[queue[j]])
    BY DEF IInv, Times, Ordered
  <2> QED
    BY <2>2, <2>3, Compared
<1>2. IInv => Primed
  <2> SUFFICES ASSUME IInv, qLock = None, iSemaphore = 0
               PROVE  /\ pc[Manager] = "sleep" => queue = <<>>
                      /\ pc[Manager] = "wait" /\ queue # <<>> => when[Manager] = iTime[Head(queue)]
    BY DEF Primed
  <2>1. at[Manager] = pc[Manager]
    BY AtIsPc DEF IInv
  <2>2. pc[Manager] = "sleep" => queue = <<>>
    BY <2>1 DEF IInv, Awake
  <2>3. ASSUME pc[Manager] = "wait", queue # <<>>
        PROVE  when[Manager] = iTime[Head(queue)]
    <3>1. ~Linked(iNow) /\ ~iRemoving
      BY <2>1, <2>3 DEF IInv, Control, Removing
    <3>2. Head(queue) # iNow
      BY <2>3, <3>1, TailElements DEF IInv, TypeOK, Linked
    <3> QED
      BY <2>1, <2>3, <3>1, <3>2 DEF IInv, Told, Awake
  <2> QED
    BY <2>2, <2>3
<1>3. IInv => RemovingEnds
  <2>1. IInv => (at[Manager] = "addNow" => pc[Manager] = "addNow")
    BY AtIsPc, Names DEF IInv, Continuations
  <2> QED
    BY <2>1 DEF IInv, Removing, RemovingEnds
<1> QED
  BY <1>1, <1>2, <1>3, Invariance, PTL DEF HeadServed

(* A timer of one owner that was cancelled is in no queue and no callback of it runs or *)
(* is to run, so that Cancel's caller may delete what the callback uses.   *)
THEOREM CancelIsFinal == Spec => []CancelledMeansQuiet
<1>1. IInv => CancelledMeansQuiet
  <2> SUFFICES ASSUME IInv, NEW t \in quiet, OwnedByOne(t)
               PROVE  ~Linked(t) /\ ~Running(t)
    BY DEF CancelledMeansQuiet
  <2>1. /\ pc[Manager] \notin {"prime", "signal"} => at[Manager] = pc[Manager] /\ then[Manager] = "idle"
        /\ pc[Manager] \in {"prime", "signal"} => at[Manager] = then[Manager]
    BY AtIsPc, Names DEF IInv, Pauses
  <2>2. Running(t) => Busy(t)
    BY <2>1 DEF Running, Busy
  <2>3. t \in Silent
    BY DEF IInv, TypeOK, Silent, Own
  <2> QED
    BY <2>2, <2>3 DEF IInv, Owners
<1> QED
  BY <1>1, Invariance, PTL

(* No callback runs more than a millisecond before its time: Fire takes    *)
(* only what is before the entry for the present.                          *)
THEOREM NoneEarly == Spec => NeverEarly
<1> DEFINE A == \A t \in Timers :
                  pc[Manager] = "head" /\ pc'[Manager] # "head" /\ arg'[Manager] = t
                    => Left(iTime[t]) <= 1
<1>1. IInv /\ [Next]_vars => [A]_vars
  <2> SUFFICES ASSUME IInv, Next, NEW t \in Timers, pc[Manager] = "head",
                      pc'[Manager] # "head", arg'[Manager] = t
               PROVE  Left(iTime[t]) <= 1
    OBVIOUS
  <2>1. at[Manager] = "head"
    BY AtIsPc, Names DEF IInv
  <2>2. CASE RemoveHead
    <3>1. Linked(iNow) /\ ~iStopped /\ queue \in Seq(Entries) /\ iTime \in [Entries -> Time]
      BY <2>1 DEF IInv, Control, TypeOK
    <3>2. PICK n \in 1..Len(queue) : queue[n] = iNow
      BY <3>1 DEF Linked, Range
    <3>3. queue # <<>> /\ Head(queue) = queue[1] /\ 1 \in 1..Len(queue) /\ Len(queue) \in Nat
      BY <3>1, <3>2
    <3>4. t = Head(queue)
      BY <2>2, Names DEF RemoveHead, IInv, TypeOK
    <3>5. n = 1 \/ 1 < n
      BY <3>2, <3>3
    <3>6. Left(iTime[queue[1]]) <= Left(iTime[queue[n]]) \/ n = 1
      BY <3>1, <3>2, <3>3, <3>5 DEF IInv, Times, Ordered
    <3>7. Left(iTime[iNow]) <= 1
      BY <3>1 DEF IInv, Times
    <3>8. Left(iTime[queue[1]]) \in Int /\ Left(iTime[queue[n]]) \in Int
      <4>1. Reach(iTime[queue[1]]) /\ Reach(iTime[queue[n]])
        BY <3>1, <3>2, <3>3 DEF IInv, Times, Range
      <4> QED
        BY <4>1, Compared
    <3> QED
      BY <3>2, <3>3, <3>4, <3>6, <3>7, <3>8
  <2>3. CASE ~RemoveHead
    <3>1. pc'[Manager] = pc[Manager]
      <4>1. ASSUME NEW c \in Callers, CallerStep(c) \/ \E u \in Timers : Cancel(c, u) \/ \E d \in Delays : FireIn(c, u, d)
            PROVE  pc'[Manager] = pc[Manager]
        BY <4>1, Names
        DEF IInv, TypeOK, CallerStep, QueueStep, CallbackLock, Prime, Signal, Unlink, Link, CallbackUnlock,
            Cancel, FireIn, DoAdd, DoRemove, Continue, HeadChanged, Goto
      <4>2. ~ManagerStep
        BY <2>3 DEF ManagerStep, QueueStep, Prime, Signal, Unlink, Link, CallbackUnlock, Sleep,
                    WaitTimeout, Check, Fire, AddNow, FireLock, Callback
      <4>3. Stop \/ Tick => pc' = pc
        BY DEF Stop, Tick, threads
      <4> QED
        BY <4>1, <4>2, <4>3 DEF Next
    <3> QED
      BY <3>1
  <2> QED
    BY <2>2, <2>3
<1>2. IInv /\ [Next]_vars => [\A t \in Timers :
                  pc[Manager] = "head" /\ pc'[Manager] # "head" /\ arg'[Manager] = t
                    => Left(iTime[t]) <= 1]_vars
  BY <1>1
<1> QED
  BY <1>2, Invariance, PTL DEF Spec, NeverEarly

=============================================================================
