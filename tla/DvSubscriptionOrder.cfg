CONSTANTS
  Subs = {s1}
  Publishers = {p1, p2}
  Sessions = {e1}
  Apps = {a1}
  Timer = Timer
  Owner = Owner
  Closer = Closer
  None = None
  Requests = {}
  Outcomes = {}
  SeqMax = 3
  MaxChanges = 2
  MaxSwitches = 0
  MayDestroy = FALSE
  MayClose = FALSE
  MayExpire = FALSE
SPECIFICATION Spec
PROPERTY UpdatesMerge
CHECK_DEADLOCK FALSE
