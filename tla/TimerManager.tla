---------------------------- MODULE TimerManager ----------------------------
(***************************************************************************)
(* Timers: Timer, TimerManager and the sorted queue they are kept in.       *)
(* Times are numbers of a word and compared by the sign of a difference.    *)
(* Only differences matter, so a time is kept as its distance from the      *)
(* present, Os::TimeInMs(), in the same arithmetic: the present is 0, and   *)
(* every time is one less when a millisecond has passed.                    *)
(* QSBM, the queue's mutex, is a variable because HeadChanged runs with it; *)
(* iMutexNow and iMutex only guard single steps.                            *)
(***************************************************************************)
EXTENDS Integers, FiniteSets, Sequences, SequencesExt

CONSTANTS
  Timers,      \* the timers
  iNow,        \* the entry that stands for the present while timers fire
  Callers,     \* threads that arm and cancel timers
  Manager,     \* the timer manager's thread
  None,        \* nobody
  UsedBy,      \* UsedBy[t]: the threads that arm and cancel t
  Periodic,    \* timers whose callback arms them again
  Delays,      \* delays that are asked for
  Width,       \* the number of different times (2^32)
  MaxLate,     \* how late the threads may be
  MaxSignals,  \* bound on the count of iSemaphore for callers to go on
  MayStop      \* the manager may be stopped

Time == 0..(Width - 1)
Entries == Timers \union {iNow}
Threads == Callers \union {Manager}

ASSUME NoneAssumption == None \notin Threads \union Entries
ASSUME ThreadAssumption ==
  /\ Manager \notin Callers /\ iNow \notin Timers
  /\ UsedBy \in [Timers -> SUBSET Callers] /\ Periodic \subseteq Timers
(* Delays, that of iNow too, and lateness stay within half of the word.     *)
ASSUME WidthAssumption ==
  /\ Width \in Nat /\ MaxLate \in Nat /\ MaxSignals \in Nat /\ MayStop \in BOOLEAN
  /\ \A d \in Delays \union {1} : d \in Nat /\ 2 * (d + MaxLate) < Width

VARIABLES
  iTime,       \* of every entry; nobody reads it while the entry is in no queue
  queue,       \* the entries between iHead and iTail
  qLock,       \* QueueSortedBase::iMutex
  iRemoving,
  iNextTimer,
  iSemaphore,
  iStop,
  iStopped,    \* the manager has signalled iStopped
  cbLock,      \* iCallbackMutex
  pc, arg,     \* where a thread is, the entry it works on
  when,        \* the time a thread sets the timer to, or the manager waits for
  then,        \* where a thread goes on after an operation of the queue
  quiet,       \* timers whose last call was a Cancel, which returned
  asserted     \* an entry that is in the queue was added

lists   == <<iTime, queue, qLock, iRemoving>>
prime   == <<iNextTimer, iSemaphore>>
stop    == <<iStop, iStopped>>
threads == <<pc, arg, when, then>>
vars    == <<lists, prime, stop, cbLock, threads, quiet, asserted>>

(* The threads that arm t are one at most.                                  *)
OwnedByOne(t) == \A c, d \in UsedBy[t] : c = d

(* The types, and that DoAdd finds an entry already in the queue only when  *)
(* it is a timer that several threads arm: Timer's own FireAt is Remove and *)
(* Add, and nothing keeps two of them apart.                                *)
TypeOK ==
  /\ iTime \in [Entries -> Time]
  /\ queue \in Seq(Entries)
  /\ qLock \in Threads \union {None}
  /\ iRemoving \in BOOLEAN
  /\ iNextTimer \in Time /\ iSemaphore \in Nat
  /\ iStop \in BOOLEAN /\ iStopped \in BOOLEAN
  /\ cbLock \in Threads \union {None}
  /\ pc \in [Threads -> {"idle", "lock", "remove", "add", "unlock", "prime", "signal",
                         "sleep", "check", "wait", "fire", "addNow", "head", "callback", "stopped"}]
  /\ arg \in [Threads -> Entries \union {None}]
  /\ when \in [Threads -> Time]
  /\ then \in [Threads -> {"idle", "lock", "add", "unlock", "head", "callback"}]
  /\ quiet \subseteq Timers
  /\ asserted \in BOOLEAN
  /\ asserted => \E t \in Range(queue) : t \in Timers /\ ~OwnedByOne(t)

Init ==
  /\ iTime = [e \in Entries |-> 0]
  /\ queue = <<>> /\ qLock = None /\ iRemoving = FALSE
  /\ iNextTimer = 0 /\ iSemaphore = 0
  /\ iStop = FALSE /\ iStopped = FALSE /\ cbLock = None
  /\ pc = [x \in Threads |-> IF x = Manager THEN "sleep" ELSE "idle"]
  /\ arg = [x \in Threads |-> None]
  /\ when = [x \in Threads |-> 0]
  /\ then = [x \in Threads |-> "idle"]
  /\ quiet = Timers
  /\ asserted = FALSE

(* a - b as a signed number of the word's width                             *)
Minus(a, b) ==
  LET d == (a - b) % Width IN IF 2 * d < Width THEN d ELSE d - Width

(* The time left until a, negative when it has passed: TimeToWaitFor        *)
Left(a) == Minus(a, 0)

Goto(x, l) == pc' = [pc EXCEPT ![x] = l]

-----------------------------------------------------------------------------
(* The sorted queue                                                         *)

Linked(e) == e \in Range(queue)

(* Not the code: iRemoving is left set when iNow comes to the head.         *)
HeadChangedBug(x, h, l) ==
  IF iRemoving
    THEN Goto(x, l) /\ UNCHANGED <<qLock, iRemoving, then>>
    ELSE /\ qLock' = x
         /\ then' = [then EXCEPT ![x] = l]
         /\ Goto(x, "prime")
         /\ UNCHANGED iRemoving

(* HeadChanged(h), called with the queue's mutex: the manager is told of    *)
(* the new head, unless it removes the timers that are due.                 *)
HeadChanged(x, h, l) ==
  IF iRemoving
    THEN /\ iRemoving' = (h # iNow)
         /\ Goto(x, l)
         /\ UNCHANGED <<qLock, then>>
    ELSE /\ qLock' = x
         /\ then' = [then EXCEPT ![x] = l]
         /\ Goto(x, "prime")
         /\ UNCHANGED iRemoving

(* Not the code: a head that comes up by a removal is not told of.          *)
ContinueBug(x, l) ==
  IF Len(queue') > Len(queue) /\ (queue = <<>> \/ Head(queue') # Head(queue))
    THEN HeadChanged(x, Head(queue'), l)
    ELSE Goto(x, l) /\ UNCHANGED <<qLock, iRemoving, then>>

(* The tail is no head to be told of.                                       *)
Continue(x, l) ==
  IF queue' # <<>> /\ (queue = <<>> \/ Head(queue') # Head(queue))
    THEN HeadChanged(x, Head(queue'), l)
    ELSE Goto(x, l) /\ UNCHANGED <<qLock, iRemoving, then>>

Prime(x) ==
  /\ pc[x] = "prime"
  /\ iNextTimer' = iTime[Head(queue)]
  /\ Goto(x, "signal")
  /\ UNCHANGED <<lists, iSemaphore, stop, cbLock, arg, when, then, quiet, asserted>>

Signal(x) ==
  /\ pc[x] = "signal"
  /\ iSemaphore' = iSemaphore + 1
  /\ qLock' = None
  /\ Goto(x, then[x])
  /\ then' = [then EXCEPT ![x] = "idle"]
  /\ UNCHANGED <<iTime, queue, iRemoving, iNextTimer, stop, cbLock, arg, when,
                 quiet, asserted>>

(* Not the code: the comparison the other way round.                        *)
PlaceBug(e, time) ==
  LET later == {i \in 1..Len(queue) : \A j \in 1..i : Minus(time, iTime[queue[j]]) <= 0}
  IN InsertAt(queue, Cardinality(later) + 1, e)

(* DoAdd: before the first entry that is not earlier than e                 *)
Place(e, time) ==
  LET earlier == {i \in 1..Len(queue) : \A j \in 1..i : Minus(time, iTime[queue[j]]) > 0}
  IN InsertAt(queue, Cardinality(earlier) + 1, e)

DoAdd(x, e, time, l) ==
  /\ qLock = None
  /\ IF Linked(e)
       THEN /\ asserted' = TRUE
            /\ UNCHANGED <<lists, pc, then>>
       ELSE /\ iTime' = [iTime EXCEPT ![e] = time]
            /\ queue' = Place(e, time)
            /\ Continue(x, l)
            /\ UNCHANGED asserted

DoRemove(x, e, l) ==
  /\ qLock = None
  /\ IF Linked(e)
       THEN \E i \in 1..Len(queue) : queue[i] = e /\ queue' = RemoveAt(queue, i)
       ELSE UNCHANGED queue
  /\ iTime' = [iTime EXCEPT ![e] = 0]
  /\ Continue(x, l)

-----------------------------------------------------------------------------
(* Timer                                                                    *)

(* Not the code: FireAt without Remove.                                     *)
FireInBug(c, t, d) ==
  /\ pc[c] = "idle" /\ c \in UsedBy[t] /\ iSemaphore < MaxSignals
  /\ t \in Periodic => t \in quiet
  /\ quiet' = quiet \ {t}
  /\ arg' = [arg EXCEPT ![c] = t]
  /\ when' = [when EXCEPT ![c] = d]
  /\ Goto(c, "add")
  /\ UNCHANGED <<lists, prime, stop, cbLock, then, asserted>>

(* FireAt is Remove, the new time and Add: it is not atomic, and it does    *)
(* not wait for a callback that runs.  A timer that arms itself is armed    *)
(* from outside only while it is quiet.                                     *)
FireIn(c, t, d) ==
  /\ pc[c] = "idle" /\ c \in UsedBy[t] /\ iSemaphore < MaxSignals
  /\ t \in Periodic => t \in quiet
  /\ quiet' = quiet \ {t}
  /\ arg' = [arg EXCEPT ![c] = t]
  /\ when' = [when EXCEPT ![c] = d]
  /\ Goto(c, "remove")
  /\ UNCHANGED <<lists, prime, stop, cbLock, then, asserted>>

Cancel(c, t) ==
  /\ pc[c] = "idle" /\ c \in UsedBy[t] /\ t \notin quiet
  /\ arg' = [arg EXCEPT ![c] = t]
  /\ Goto(c, "lock")
  /\ UNCHANGED <<lists, prime, stop, cbLock, when, then, quiet, asserted>>

(* Not the code: Cancel does not wait for the callback that runs.           *)
CallbackLockBug(c) ==
  /\ c # Manager /\ pc[c] = "lock"
  /\ cbLock' = c
  /\ Goto(c, "remove")
  /\ UNCHANGED <<lists, prime, stop, arg, when, then, quiet, asserted>>

CallbackLock(c) ==
  /\ c # Manager /\ pc[c] = "lock" /\ cbLock = None
  /\ cbLock' = c
  /\ Goto(c, "remove")
  /\ UNCHANGED <<lists, prime, stop, arg, when, then, quiet, asserted>>

Unlink(x) ==
  /\ pc[x] = "remove"
  /\ DoRemove(x, arg[x], IF cbLock = x /\ x # Manager THEN "unlock" ELSE "add")
  /\ UNCHANGED <<prime, stop, cbLock, arg, when, quiet, asserted>>

Link(x) ==
  /\ pc[x] = "add"
  /\ DoAdd(x, arg[x], when[x], IF x = Manager THEN "head" ELSE "idle")
  /\ when' = [when EXCEPT ![x] = 0]
  /\ UNCHANGED <<prime, stop, cbLock, arg, quiet>>

CallbackUnlock(x) ==
  /\ pc[x] = "unlock"
  /\ cbLock' = None
  /\ quiet' = IF x = Manager THEN quiet ELSE quiet \union {arg[x]}
  /\ Goto(x, IF x = Manager THEN "sleep" ELSE "idle")
  /\ UNCHANGED <<lists, prime, stop, arg, when, then, asserted>>

-----------------------------------------------------------------------------
(* The manager's thread: Run and Fire                                       *)

(* iSemaphore.Wait(), at the start and after each Fire                      *)
Sleep ==
  /\ pc[Manager] \in {"sleep", "wait"} /\ iSemaphore > 0
  /\ iSemaphore' = iSemaphore - 1
  /\ when' = [when EXCEPT ![Manager] = 0]
  /\ Goto(Manager, "check")
  /\ UNCHANGED <<lists, iNextTimer, stop, cbLock, arg, then, quiet, asserted>>

(* iSemaphore.Wait(delay) in vain                                           *)
WaitTimeout ==
  /\ pc[Manager] = "wait" /\ Left(when[Manager]) <= 0
  /\ when' = [when EXCEPT ![Manager] = 0]
  /\ Goto(Manager, "check")
  /\ UNCHANGED <<lists, prime, stop, cbLock, arg, then, quiet, asserted>>

Check ==
  /\ pc[Manager] = "check"
  /\ \/ /\ iStop
        /\ iStopped' = TRUE
        /\ Goto(Manager, "stopped")
        /\ UNCHANGED when
     \/ /\ ~iStop /\ Left(iNextTimer) <= 0
        /\ Goto(Manager, "fire")
        /\ UNCHANGED <<iStopped, when>>
     \/ /\ ~iStop /\ Left(iNextTimer) > 0
        /\ when' = [when EXCEPT ![Manager] = iNextTimer]
        /\ Goto(Manager, "wait")
        /\ UNCHANGED iStopped
  /\ UNCHANGED <<lists, prime, iStop, cbLock, arg, then, quiet, asserted>>

Fire ==
  /\ pc[Manager] = "fire"
  /\ iRemoving' = TRUE
  /\ when' = [when EXCEPT ![Manager] = 1]
  /\ Goto(Manager, "addNow")
  /\ UNCHANGED <<iTime, queue, qLock, prime, stop, cbLock, arg, then, quiet, asserted>>

AddNow ==
  /\ pc[Manager] = "addNow"
  /\ DoAdd(Manager, iNow, when[Manager], "lock")
  /\ when' = [when EXCEPT ![Manager] = 0]
  /\ UNCHANGED <<prime, stop, cbLock, arg, quiet>>

FireLock ==
  /\ pc[Manager] = "lock" /\ cbLock = None
  /\ cbLock' = Manager
  /\ Goto(Manager, "head")
  /\ UNCHANGED <<lists, prime, stop, arg, when, then, quiet, asserted>>

RemoveHead ==
  /\ pc[Manager] = "head" /\ qLock = None
  /\ queue' = Tail(queue)
  /\ iTime' = [iTime EXCEPT ![Head(queue)] = 0]
  /\ arg' = [arg EXCEPT ![Manager] = Head(queue)]
  /\ Continue(Manager, IF Head(queue) = iNow THEN "unlock" ELSE "callback")
  /\ UNCHANGED <<prime, stop, cbLock, when, quiet, asserted>>

(* The callback, which may arm its own timer.                               *)
Callback ==
  LET t == arg[Manager] IN
  /\ pc[Manager] = "callback"
  /\ IF t \in Periodic /\ iSemaphore <= MaxSignals
       THEN /\ \E d \in Delays : when' = [when EXCEPT ![Manager] = d]
            /\ Goto(Manager, "remove")
       ELSE Goto(Manager, "head") /\ UNCHANGED when
  /\ UNCHANGED <<lists, prime, stop, cbLock, arg, then, quiet, asserted>>

-----------------------------------------------------------------------------
Stop ==
  /\ MayStop /\ ~iStop
  /\ iStop' = TRUE
  /\ iSemaphore' = iSemaphore + 1
  /\ UNCHANGED <<lists, iNextTimer, iStopped, cbLock, threads, quiet, asserted>>

(* Thread x is about to put an entry in the queue, for the time when[x].    *)
Setting(x) ==
  \/ pc[x] \in {"add", "addNow"} \/ then[x] = "add"
  \/ pc[x] = "remove" /\ (cbLock # x \/ x = Manager)

(* Times that somebody still has to come to, and must not miss by half of   *)
(* the word: as long as the manager runs, threads are at most MaxLate late. *)
Expected ==
  {iTime[e] : e \in Range(queue)} \union {when[x] : x \in {y \in Threads : Setting(y)}}

Tick ==
  LET earlier(a) == (a - 1) % Width IN
  /\ iStopped \/ \A time \in Expected : Left(time) > -MaxLate
  /\ iTime' = [e \in Entries |-> IF Linked(e) THEN earlier(iTime[e]) ELSE iTime[e]]
  /\ when' = [x \in Threads |->
       IF Setting(x) \/ pc[x] = "wait" THEN earlier(when[x]) ELSE when[x]]
  /\ iNextTimer' = earlier(iNextTimer)
  /\ UNCHANGED <<queue, qLock, iRemoving, iSemaphore, stop, cbLock, pc, arg, then, quiet, asserted>>

QueueStep(x) == Prime(x) \/ Signal(x) \/ Unlink(x) \/ Link(x) \/ CallbackUnlock(x)

CallerStep(c) == CallbackLock(c) \/ QueueStep(c)

ManagerStep ==
  \/ QueueStep(Manager)
  \/ Sleep \/ WaitTimeout \/ Check \/ Fire \/ AddNow \/ FireLock \/ RemoveHead \/ Callback

Next ==
  /\ ~asserted
  /\ \/ \E c \in Callers :
          \/ CallerStep(c)
          \/ \E t \in Timers : Cancel(c, t) \/ \E d \in Delays : FireIn(c, t, d)
     \/ ManagerStep
     \/ Stop
     \/ Tick

Spec == Init /\ [][Next]_vars

Fairness ==
  /\ WF_vars(Tick)
  /\ SF_vars(ManagerStep)
  /\ \A c \in Callers : SF_vars(CallerStep(c))

FairSpec == Spec /\ Fairness

-----------------------------------------------------------------------------
(* Properties                                                               *)

(* The queue is in the order of times, across the end of the word: as long  *)
(* as the manager runs, since times are left to pass by when it is stopped. *)
Sorted ==
  ~iStopped =>
    \A i, j \in 1..Len(queue) : i < j => Minus(iTime[queue[i]], iTime[queue[j]]) <= 0

(* When nobody is in the middle of an operation of the queue and no signal  *)
(* is left, the manager sleeps without a time limit only if there is no     *)
(* timer, and otherwise not past the first one.                             *)
Primed ==
  qLock = None /\ iSemaphore = 0 =>
    /\ pc[Manager] = "sleep" => queue = <<>>
    /\ pc[Manager] = "wait" /\ queue # <<>> => when[Manager] = iTime[Head(queue)]

(* Whoever finds iRemoving set leaves the new head to the manager, which is *)
(* in Fire then and has iNow before it or in the queue.                     *)
RemovingEnds == iRemoving => pc[Manager] = "addNow" \/ Linked(iNow)

(* HeadServed: the first entry is the earliest, and the manager has been    *)
(* told of it, or is about to come to it itself.  A signal that is lost, or *)
(* a head it is not told of, would leave a timer unfired until another one  *)
(* is armed.                                                                *)
HeadServed == Sorted /\ Primed /\ RemovingEnds

(* NeverEarly: no callback runs more than a millisecond before its time (a  *)
(* timer that is set for the next one while others fire goes before iNow).  *)
NeverEarly ==
  [][ \A t \in Timers :
        pc[Manager] = "head" /\ pc'[Manager] # "head" /\ arg'[Manager] = t
          => Left(iTime[t]) <= 1 ]_vars

(* The callback of t runs, or is about to.                                  *)
Running(t) ==
  arg[Manager] = t /\ {pc[Manager], then[Manager]} \intersect {"callback", "remove", "add"} # {}

(* CancelledMeansQuiet: once Cancel has returned, and until the timer is    *)
(* armed again, it is not in the queue and its callback does not run, so    *)
(* that it and what the callback uses may be deleted.                       *)
CancelledMeansQuiet == \A t \in quiet : OwnedByOne(t) => ~Linked(t) /\ ~Running(t)

(* ArmedFires: a timer that is in the queue fires, or is cancelled or set   *)
(* anew, unless the manager is stopped.                                     *)
ArmedFires == \A t \in Timers : Linked(t) /\ ~iStop ~> ~Linked(t) \/ iStop

=============================================================================
