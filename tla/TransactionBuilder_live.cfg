\* Two concurrent sign_and_broadcast callers over two coins, each allowed a
\* re-invocation, with RPC and Electrum faults, implement SerializedBuilder.
\* No deadlock check: once every caller has returned and the node has
\* mined and Electrum indexed everything, nothing is left to do.
CONSTANTS
  Callers = {c1, c2}
  Funding = {u1, u2}
  MaxAttempts = 2
  TransportFaults = TRUE
  NoHolder = NoHolder
  NoTx = NoTx
SPECIFICATION Spec
PROPERTY RefinesSerializedBuilder
CHECK_DEADLOCK FALSE
