SPECIFICATION ReadingSpec
CONSTANTS
  u1 = u1  u2 = u2  u3 = u3
  r1 = r1
  c1 = c1  c2 = c2  c3 = c3
  x1 = x1  x2 = x2
  missing = missing  null = null  invalid = invalid
  f1 = f1  f2 = f2
  Client = {x1, x2}
  User = {u1, u2}
  Review = {r1}
  Comment = {c1, c2, c3}
  Nobody = Nobody
  Anonymous = Anonymous
  Requests <- AllRequests
  FirstStates <- Sites
  MaxRequests = 3
  Document = {1, 2, 3}
  FirstReviews <- SomeReviews
  Given = 2
  Missing = missing  Null = null  Invalid = invalid
  Operator = {x1, x2}
  BatchSize = 1
  MaxPlans = 2
  MaxRuns = 4
  MaxWrites = 1
  MaxFaults = 1
SYMMETRY MCSymmetry
INVARIANT ReadingTypeOK NothingDangles AccountsLeaveNothing ReadersMissNothing IdentitiesHold
PROPERTY SettledOnce NothingDeletedIsShown IdentitiesStay
CHECK_DEADLOCK FALSE
