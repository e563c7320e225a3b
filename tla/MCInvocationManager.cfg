CONSTANTS
  s1 = s1
  s2 = s2
  Services = {s1, s2}
  Chaining = {s2}
  Invocations = {i1, i2}
  Invokers = {k1, k2}
  Manager = Manager
  None = None
  MaxInvokes <- OneAndTwo
SPECIFICATION FairSpec
INVARIANTS
  NoneLost
  InterruptReaches
  DestructorBlocks
PROPERTIES
  InvokedIsAnswered
  DestructorsEnd
(* The pool may be left alone, and is destroyed in the end. *)
CHECK_DEADLOCK FALSE
