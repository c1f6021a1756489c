\* Two concurrent callers, one invocation each, reliable node and Electrum.
CONSTANTS
  Callers = {c1, c2}
  Funding = {u1, u2}
  MaxAttempts = 1
  TransportFaults = FALSE
  NoHolder = NoHolder
  NoTx = NoTx
SYMMETRY CoinSymmetry
SPECIFICATION Spec
INVARIANT NoConflictingSignedTxs
CHECK_DEADLOCK FALSE
