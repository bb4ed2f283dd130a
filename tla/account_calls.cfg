SPECIFICATION FairSpec
CONSTANTS
  a1 = a1  a2 = a2  s1 = s1  r1 = r1  b1 = b1  u1 = u1  q1 = q1
  Start = {a1}
  Stop = {s1}
  Restart = {r1}
  AddOf <- MCAddOf
  Update = {}
  Renew = {q1}
  Slow = TRUE
  NoRun = NoRun
  NoLock = NoLock
INVARIANTS LiveTaskKnown InstanceKnown StoppedIsDown
PROPERTIES CallsEnd
\* calls run out
CHECK_DEADLOCK FALSE
