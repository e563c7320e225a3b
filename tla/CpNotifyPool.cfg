CONSTANTS
  Subs = {s1, s2}
  Sessions = {e1, e2}
  MaxSid = 1
  MaxSeq = 1
  MaxIfChanges = 1
  MayTimeout = TRUE
  Renewing = {s1}
SPECIFICATION FairSpec
INVARIANTS
  NoWaiterForgotten
  EarlyNotifyAccepted
  CountedIsDelivered
PROPERTY
  NotifyAnswered
CHECK_DEADLOCK FALSE
