CONSTANTS
  Subs = {s1}
  Publishers = {p1, p2}
  Sessions = {e1}
  Apps = {a1}
  Timer = Timer
  Owner = Owner
  Closer = Closer
  None = None
  Requests = {"renew", "unsubscribe"}
  Outcomes = {"timeout", "hangup"}
  SeqMax = 2
  MaxChanges = 1
  MaxSwitches = 0
  MayDestroy = TRUE
  MayClose = TRUE
  MayExpire = TRUE
SPECIFICATION Spec
INVARIANTS
  TypeOK
  RefCountExact
  DestroyedIsUnreachable
  NumbersTellOrder
PROPERTY EventingKept
SYMMETRY LifeSymmetry
CHECK_DEADLOCK FALSE
