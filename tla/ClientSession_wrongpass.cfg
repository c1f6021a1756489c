\* A client configured with a wrong password (the node's rpcpassword is
\* "pwd").  No deadlock check: a client whose construction failed is
\* never used.
CONSTANTS
  Height = 2
  MaxTip = 4
  RpcErrors = TRUE
  UrlUsers = {"", "user"}
  UrlPasswords = {"", "pwd", "wrong"}
  NodeUser = "user"
  NodePassword = "pwd"
SPECIFICATION Spec
PROPERTY GetBlockReturns
CHECK_DEADLOCK FALSE
