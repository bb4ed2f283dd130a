SPECIFICATION Spec
CONSTANTS
  Handler = {}
  Scheduled = {s}
  Manual = {m}
  Settings <- Strict
  MaxSecrets = 2
  MaxPosts = 2
  MaxMessages = 1
  MaxRestarts = 1
  Dying = {"websocket", "scheduler"}
  Slow = FALSE
  RedisFails = FALSE
  PlatformFails = {"refused", "lost"}
  SendFails = {"rejected"}
  DatabaseFails = FALSE
  HttpFails = TRUE
  SellerShips = FALSE
  Free = Free
INVARIANTS IssuedOnce
\* an order that is settled, with no message left, stands still
CHECK_DEADLOCK FALSE
