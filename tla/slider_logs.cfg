SPECIFICATION FairSpec
CONSTANTS
  Remote = {r1, r2}
  Local = {l1, l2}
  Task = {l2}
  SameName = {r2}
  Max = 1
  Cooldown = TRUE
  RedisFails = TRUE
  DatabaseFails = TRUE
  Slow = TRUE
  Free = Free
INVARIANTS LimitHolds OneSliderPerAccount
PROPERTIES SlotsComeBack
