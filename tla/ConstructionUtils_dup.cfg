\* As ConstructionUtils_spec.cfg, and a caller may declare a pair twice.
\* No deadlock check: the behaviour is one call of a pure function.
CONSTANTS
  Scripts = {s1, s2}
  Amounts = {1, 2}
  ChangeScript = wallet
  MaxOutputs = 2
  UsizeMax = 1000
  DistinctOutputs = FALSE
  MaxShortLen = 1
  LongLens = {}
SPECIFICATION Spec
INVARIANT OutputCountPreserved
CHECK_DEADLOCK FALSE
