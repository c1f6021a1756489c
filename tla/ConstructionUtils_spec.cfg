\* reorder_outputs on declared lists of up to 3 distinct pairs over
\* 2 scripts x 2 amounts, shuffled, with or without a change output; and
\* build_op_return_script on every payload length up to 300 (the 75/76 and
\* 255/256 push boundaries) and at the 2-byte/4-byte boundary.
\* No deadlock check: the behaviour is one call of a pure function.
CONSTANTS
  Scripts = {s1, s2}
  Amounts = {1, 2}
  ChangeScript = wallet
  MaxOutputs = 3
  UsizeMax = 1000
  DistinctOutputs = TRUE
  MaxShortLen = 300
  LongLens = {65535, 65536}
SPECIFICATION Spec
INVARIANT ReorderMatchesSpec
INVARIANT ParsesAsOpReturnPush
CHECK_DEADLOCK FALSE
