SPECIFICATION FairSpec
CONSTANTS
  l1 = l1
  l2 = l2
  p1 = p1
  c1 = c1
  s1 = s1
  s2 = s2
  g1 = g1
  u1 = u1
  Local = {l1, l2}
  Plain = {p1}
  Cookie = {c1}
  Solver = {s1, s2}
  Login = {g1}
  UserLogin = {u1}
  AccountOf <- MCAccountOf
  Loads <- MCLoads
  Weights <- MCWeights
  LoadFails = TRUE
  MaxSlots = 1
  Free = Free
  NoRound = NoRound
INVARIANTS WithinLimit TurnsInProportion
PROPERTIES TasksEnd
\* tasks that all end and do not come again
CHECK_DEADLOCK FALSE
