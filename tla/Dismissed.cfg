SPECIFICATION DiarySpec
CONSTANTS
  w = w  o = o
  e1 = e1  e2 = e2  e3 = e3  e4 = e4  e5 = e5
  Client = {w, o}
  Worker = w
  Event = {e1, e2, e3, e4, e5}
  At <- TheAt
  TrackOf <- TheTracks
  Required = 3
  GapLimit = 2
  SessionLimit = 24
  Slots = {1, 2}
  Manual = {1}
  Date = {"near", "far"}
  Near <- TheNear
  Moments <- TheMoments
  Recency = 3
  Retention = 8
  Scenes <- TheScenes
INVARIANT DismissedStaysDismissed
CHECK_DEADLOCK FALSE
