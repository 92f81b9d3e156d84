SPECIFICATION JobsSpec
CONSTANTS
  w1 = w1  w2 = w2
  s1 = s1  s2 = s2
  p1 = p1  p2 = p2
  Client = {w1, s1, s2}
  Worker = {w1}
  TxProducer = {s1, s2}
  PlainProducer = {}
  MaxRequests = 2
  MaxFaults = 0
SYMMETRY MCSymmetry
INVARIANT NoLostRequest
CHECK_DEADLOCK FALSE
