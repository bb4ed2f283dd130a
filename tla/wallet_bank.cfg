SPECIFICATION FairSpec
CONSTANTS
  n1 = n1  n2 = n2  n3 = n3  n4 = n4  o1 = o1  o2 = o2  a1 = a1  r1 = r1  w1 = w1  d1 = d1  d2 = d2  p1 = p1  p2 = p2  p3 = p3  v1 = v1  v2 = v2  m1 = m1
  User = {1, 2, 3}
  Opening <- MCOpening
  Order = {o1}
  Notice = {n1, n2}
  Advert = {}
  OrderOf <- MCOrderOf
  Adjustment = {}
  Renewal = {}
  Withdrawal = {w1}
  Request <- MCRequest
  Delivery = {d2}
  Pickup = {p1}
  Terms <- MCTerms
  Quotes <- MCQuotes
  Review = {v1, v2}
  ReviewOf <- MCReviewOf
  Verdict <- MCVerdict
  Overlap = FALSE
  LockTimeouts = FALSE
  Free = Free
PROPERTIES VerdictStands JobsEnd ImplementsBank
\* requests run out
CHECK_DEADLOCK FALSE
