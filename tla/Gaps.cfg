SPECIFICATION SyncSpec
CONSTANTS
  s1 = s1  s2 = s2  s3 = s3
  Scrobble = {s1, s2, s3}
  PlayedAt <- ThePlayed
  Prompt = {s1, s3}
  Retention = 1
  Overlap = 1
  Lookback = 2
  PageSize = 2
  PagesPerRun = 2
  EndOfTime = 3
  MaxFailures = 0
INVARIANT GapsAreExposed
CHECK_DEADLOCK FALSE
