SPECIFICATION OwnerSpec
CONSTANTS
  w = w  o = o
  e1 = e1  e2 = e2  e3 = e3  e4 = e4  e5 = e5
  Client = {w, o}
  Worker = w
  Event = {e1, e2, e3, e4, e5}
  At <- TheAt
  TrackOf <- TheTracks
  Required = 3
  GapLimit = 2
  SessionLimit = 24
  Slots = {1, 2}
  Manual = {1}
  Date = {"near", "far"}
  Near <- TheNear
  Moments <- TheMoments
  Recency = 3
  Retention = 8
  Scenes <- TheScenes
  a1 = a1  a2 = a2  a3 = a3  lost = lost
  c1 = c1  c2 = c2
  l1 = l1  l2 = l2
  Caller = {c1, c2}
  Album = {a1, a2, a3, lost}
  Missing = {lost}
  StartProfiles <- SomeProfiles
  MaxQueue = 2
  WriteAttempts = 2
  MaxRequests = 3
SYMMETRY MCSymmetry
INVARIANT OwnerTypeOK PublishedPlaysWerePlayed
PROPERTY OptInSteps LoggedSteps ServedInOneStep BoardsStayPut
CHECK_DEADLOCK FALSE
