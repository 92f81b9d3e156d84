SPECIFICATION ConnectionsSpec
CONSTANTS
  w1 = w1
  c1 = c1  c2 = c2
  a1 = a1
  Client = {w1, c1, c2}
  Worker = {w1}
  Caller = {c1, c2}
  Attempt = {a1}
  MaxConnections = 2
  MaxRevision = 3
  MaxScrobbles = 1
  MaxRequests = 3
  MaxFaults = 1
  OwnerMayLeave = TRUE
SYMMETRY MCSymmetry
INVARIANT ConnectionsTypeOK EvidenceIsOfTheConnection DeletedStaysDeleted
PROPERTY TheStateDecides
CHECK_DEADLOCK FALSE
