SPECIFICATION FairSpec
CONSTANTS
  Handler = {h1, h2}
  Scheduled = {s}
  Manual = {}
  Settings <- Strict
  MaxSecrets = 2
  MaxPosts = 1
  MaxMessages = 4
  MaxRestarts = 1
  Dying = {"scheduler"}
  Slow = FALSE
  RedisFails = FALSE
  PlatformFails = {"lost"}
  SendFails = {"rejected"}
  DatabaseFails = FALSE
  HttpFails = FALSE
  SellerShips = TRUE
  Free = Free
INVARIANTS IssuedOnce LockExcludes Traceable
PROPERTIES OrderSettles
\* an order that is settled, with no message left, stands still
CHECK_DEADLOCK FALSE
