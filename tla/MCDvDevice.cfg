CONSTANTS
  Apps = {a1}
  Sessions = {}
  None = None
  Subnets = 2
  Msgs = 1
  MaxCalls = 3
  MaxChanges = 1
  MaxSearches = 1
  Searches = {"all", "service"}
SPECIFICATION Spec
INVARIANTS
  TypeOK
  CountsMatch
  AliveKept
  DestroyComesLast

(* A destroyed device stops, and Destroy may block: see the README. *)
CHECK_DEADLOCK FALSE
