CONSTANTS
  Subs = {s1}
  Threads = {t1}
  Sessions = {e1}
  None = None
  MaxSid = 1
  MaxQueue = 1
  MayShutdown = TRUE
  MayMalform = TRUE
SPECIFICATION Spec
INVARIANT NoRecursiveLock

(* A lock that nobody releases stops the threads that wait for it. *)
CHECK_DEADLOCK FALSE
