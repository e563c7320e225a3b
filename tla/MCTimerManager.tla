--------------------------- MODULE MCTimerManager ---------------------------
(* A timer that is armed from outside, and one that arms itself as well.    *)
EXTENDS TimerManager

CONSTANTS t1, t2, c1

OneCaller == [t \in {t1, t2} |-> {c1}]
ArmsItself == {t2}
=============================================================================
