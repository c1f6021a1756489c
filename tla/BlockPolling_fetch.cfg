\* get_block against a node that never answers a non-retryable RPC error:
\* only "not found" and transport errors, both transient.
CONSTANTS
  Height = 2
  MaxTip = 3
  RpcErrors = FALSE
SPECIFICATION Spec
PROPERTY GetBlockReturnsBlock
CHECK_DEADLOCK FALSE
