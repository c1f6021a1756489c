\* One caller that re-invokes after an error, over two coins, with RPC faults.
CONSTANTS
  Callers = {c1}
  Funding = {u1, u2}
  MaxAttempts = 2
  TransportFaults = TRUE
  NoHolder = NoHolder
  NoTx = NoTx
SYMMETRY CoinSymmetry
SPECIFICATION Spec
INVARIANT AtMostOnePaymentPerRequest
CHECK_DEADLOCK FALSE
