SPECIFICATION ReviewsSpec
CONSTANTS
  u1 = u1  u2 = u2  u3 = u3
  r1 = r1
  c1 = c1  c2 = c2  c3 = c3
  x1 = x1  x2 = x2
  Client = {x1, x2}
  User = {u1, u2}
  Review = {r1}
  Comment = {c1, c2, c3}
  Nobody = Nobody
  Anonymous = Anonymous
  Requests <- ThreadRequests
  FirstStates <- Threads
  MaxRequests = 2
SYMMETRY MCSymmetry
INVARIANT TombstonesHoldThreads
CHECK_DEADLOCK FALSE
