------------------------------ MODULE Eventing ------------------------------
(***************************************************************************)
(* What a device promises those who subscribe to its service: a subscriber  *)
(* is told of the properties in the order in which they changed, and of     *)
(* their latest values in the end, for as long as it is subscribed, answers *)
(* its notifications and the device is enabled.  Several changes may be     *)
(* told as one.  DvSubscription implements this for subscribers that go by  *)
(* the numbers of the notifications.                                        *)
(***************************************************************************)
EXTENDS Naturals

CONSTANT Subs

VARIABLES version,   \* the number of the latest change
          view,      \* view[s]: the latest change s was told of
          open,      \* s may still be notified
          excused,   \* a notification to s failed: s is promised order only
          enabled    \* the device may notify

vars == <<version, view, open, excused, enabled>>

TypeOK ==
  /\ version \in Nat
  /\ view \in [Subs -> Nat]
  /\ open \in [Subs -> BOOLEAN]
  /\ excused \in [Subs -> BOOLEAN]
  /\ enabled \in BOOLEAN

Init ==
  /\ version = 1
  /\ view = [s \in Subs |-> 0]
  /\ open = [s \in Subs |-> FALSE]
  /\ excused = [s \in Subs |-> FALSE]
  /\ enabled = TRUE

Change ==
  /\ version' = version + 1
  /\ UNCHANGED <<view, open, excused, enabled>>

Open(s) ==
  /\ view[s] = 0
  /\ open' = [open EXCEPT ![s] = TRUE]
  /\ UNCHANGED <<version, view, excused, enabled>>

(* The last notification may be the end of the subscription as well: s is   *)
(* no longer subscribed when it answers, or fails to.                       *)
Notify(s) ==
  /\ open[s]
  /\ \E v \in (view[s] + 1)..version : view' = [view EXCEPT ![s] = v]
  /\ \E o \in BOOLEAN : open' = [open EXCEPT ![s] = o]
  /\ \E x \in BOOLEAN : excused' = [excused EXCEPT ![s] = x \/ @]
  /\ UNCHANGED <<version, enabled>>

Fail(s) ==
  /\ open[s]
  /\ excused' = [excused EXCEPT ![s] = TRUE]
  /\ \E o \in BOOLEAN : open' = [open EXCEPT ![s] = o]
  /\ UNCHANGED <<version, view, enabled>>

Close(s) ==
  /\ open[s]
  /\ open' = [open EXCEPT ![s] = FALSE]
  /\ UNCHANGED <<version, view, excused, enabled>>

Switch ==
  /\ enabled' = ~enabled
  /\ UNCHANGED <<version, view, open, excused>>

Next ==
  \/ Change
  \/ Switch
  \/ \E s \in Subs : Open(s) \/ Notify(s) \/ Fail(s) \/ Close(s)

(* A subscriber that is behind, and is promised more, is told.              *)
Owed(s) == open[s] /\ ~excused[s] /\ enabled /\ Notify(s)

Spec == Init /\ [][Next]_vars /\ \A s \in Subs : WF_vars(Owed(s))

=============================================================================
