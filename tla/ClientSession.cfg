\* One client per configured URL: with or without username and password,
\* an empty password, and a URL without a host; the node's credentials are
\* the URL's.  get_block for height 2 on a node whose tip starts in 0..4.
\* No deadlock check: a client whose construction failed is never used.
CONSTANTS
  Height = 2
  MaxTip = 4
  RpcErrors = TRUE
  UrlUsers = {"", "user"}
  UrlPasswords = {"", "pwd"}
  NodeUser = "user"
  NodePassword = "pwd"
SPECIFICATION Spec
INVARIANT ExecuteNeverPanics
PROPERTY PollingResolves
CHECK_DEADLOCK FALSE
