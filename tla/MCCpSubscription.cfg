CONSTANTS
  Subs = {s1}
  Threads = {t1, t2}
  Sessions = {e1, e2}
  None = None
  MaxSid = 2
  MaxQueue = 1
  MayShutdown = TRUE
  MayMalform = TRUE
SPECIFICATION Spec
SYMMETRY PoolSymmetry
INVARIANTS
  TypeOK
  SubscribeOnlyWithoutSid
  UnsubscribeNeverLost
  PendingHasRunner
  MapMatchesSid
  RefCountExact
  DestroyedIsUnreachable
  NoEventAfterUnsubscribe
  DrainedAtShutdown
