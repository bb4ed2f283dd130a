SPECIFICATION Spec
CONSTANTS
  Handler = {h1}
  Scheduled = {s}
  Manual = {m}
  Settings <- Usual
  MaxSecrets = 1
  MaxPosts = 1
  MaxMessages = 1
  MaxRestarts = 1
  Dying = {"websocket", "scheduler"}
  Slow = TRUE
  RedisFails = TRUE
  PlatformFails = {"refused", "lost"}
  SendFails = {"rejected", "reported", "silent"}
  DatabaseFails = TRUE
  HttpFails = TRUE
  SellerShips = TRUE
  Free = Free
INVARIANTS ConfirmedAfterGoods
\* an order that is settled, with no message left, stands still
CHECK_DEADLOCK FALSE
