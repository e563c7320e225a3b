CONSTANTS
  Apps = {a1}
  Sessions = {s1, s2, s3}
  None = None
  Subnets = 1
  Msgs = 1
  MaxCalls = 4
  MaxChanges = 0
  MaxSearches = 0
  Searches = {}
SPECIFICATION FairSpec
INVARIANTS
  QuietWhenDisabled
  GateMatchesInvocations
PROPERTIES
  CallsEnd

(* A destroyed device stops. *)
CHECK_DEADLOCK FALSE
