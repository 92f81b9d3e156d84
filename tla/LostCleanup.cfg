SPECIFICATION FairConnectionsSpec
CONSTANTS
  w1 = w1
  c1 = c1  c2 = c2
  a1 = a1
  Client = {w1, c1}
  Worker = {w1}
  Caller = {c1}
  Attempt = {a1}
  MaxConnections = 1
  MaxRevision = 3
  MaxScrobbles = 1
  MaxRequests = 2
  MaxFaults = 1
  OwnerMayLeave = TRUE
PROPERTY DisconnectedIsCleaned
CHECK_DEADLOCK FALSE
