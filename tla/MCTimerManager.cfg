CONSTANTS
  t1 = t1
  t2 = t2
  c1 = c1
  Timers = {t1, t2}
  Callers = {c1}
  iNow = iNow
  Manager = Manager
  None = None
  UsedBy <- OneCaller
  Periodic <- ArmsItself
  Delays = {0, 2}
  Width = 7
  MaxLate = 1
  MaxSignals = 1
  MayStop = TRUE
SPECIFICATION FairSpec
INVARIANTS
  TypeOK
  HeadServed
  CancelledMeansQuiet
PROPERTIES
  NeverEarly
  ArmedFires
(* A timer manager that was stopped stays so. *)
CHECK_DEADLOCK FALSE
