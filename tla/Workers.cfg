SPECIFICATION WorkersSpec
CONSTANTS
  w1 = w1  w2 = w2  p1 = p1  p2 = p2
  c1 = c1  a1 = a1
  s1 = s1  s2 = s2  s3 = s3
  Client = {w1, w2, p1}
  Worker = {w1, w2}
  TxProducer = {p1}
  PlainProducer = {p2}
  MaxRequests = 2
  MaxFaults = 2
  Scrobble = {s1, s2, s3}
  PlayedAt <- ThePlayed
  Prompt = {s1, s3}
  Retention = 4
  Overlap = 1
  Lookback = 2
  PageSize = 1
  PagesPerRun = 2
  EndOfTime = 6
  MaxFailures = 1
INVARIANT WorkersTypeOK FlaggedUntilChecked NothingIsPassedOver
PROPERTY OnlyTheHolderWrites DetectionsAreCurrent WhatIsDueIsDone
CHECK_DEADLOCK FALSE
