CONSTANTS
  Subs = {s1}
  Threads = {t1, t2}
  Sessions = {e1}
  None = None
  MaxSid = 1
  MaxQueue = 1
  MayShutdown = TRUE
  MayMalform = FALSE
SPECIFICATION FairSpec

PROPERTIES
  UnsubscribedIsDeleted
  ShutdownEnds

(* The system may stop: whether it does so too early is what the properties say. *)
CHECK_DEADLOCK FALSE
