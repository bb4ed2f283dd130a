SPECIFICATION Spec
CONSTANTS
  n1 = n1  n2 = n2  n3 = n3  n4 = n4  o1 = o1  o2 = o2  a1 = a1  r1 = r1  w1 = w1  d1 = d1  d2 = d2  p1 = p1  p2 = p2  p3 = p3  v1 = v1  v2 = v2  m1 = m1
  User = {1, 2, 3, 4}
  Opening <- MCOpening
  Order = {o2}
  Notice = {n3, n4}
  Advert = {m1}
  OrderOf <- MCOrderOf
  Adjustment = {}
  Renewal = {}
  Withdrawal = {}
  Request <- MCRequest
  Delivery = {d1}
  Pickup = {p2, p3}
  Terms <- MCTerms
  Quotes <- MCQuotes
  Review = {}
  ReviewOf <- MCReviewOf
  Verdict <- MCVerdict
  Overlap = TRUE
  LockTimeouts = TRUE
  Free = Free
SYMMETRY Alike
INVARIANTS FlowsContinuous SettledInFull CreditedOnce DeadlocksNeedDeliveries
PROPERTIES OverdraftExplained
\* requests run out
CHECK_DEADLOCK FALSE
