CONSTANTS
  Subs = {s1}
  Publishers = {p1}
  Sessions = {e1}
  Apps = {a1}
  Timer = Timer
  Owner = Owner
  Closer = Closer
  None = None
  Requests = {}
  Outcomes = {"timeout"}
  SeqMax = 3
  MaxChanges = 2
  MaxSwitches = 1
  MayDestroy = TRUE
  MayClose = FALSE
  MayExpire = FALSE
SPECIFICATION FairSpec
INVARIANT ChangeIsPending
PROPERTIES
  EventingImplemented
  DestroyEnds
CHECK_DEADLOCK FALSE
