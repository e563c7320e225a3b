CONSTANTS
  Subs = {s1, s2}
  Sessions = {e1, e2}
  MaxSid = 1
  MaxSeq = 1
  MaxIfChanges = 0
  MayTimeout = FALSE
  Renewing = {}
SPECIFICATION Spec
INVARIANT
  WaitCoversAdds
SYMMETRY PoolSymmetry
