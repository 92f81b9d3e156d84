SPECIFICATION ScenesSpec
CONSTANTS
  c1 = c1  c2 = c2
  d = d  b1 = b1
  a1 = a1  a2 = a2
  l1 = l1  l2 = l2
  k1 = k1
  Client = {c1, c2}
  Board = {d, b1}
  DefaultBoard = d
  NoBoard = NoBoard
  Album = {a1, a2}
  Listen = {l1, l2}
  Key = {k1}
  Date = {1, 2}
  OrderLimit = 1
  LegacyAlbums = {a1, a2}
  Requests <- LibraryRequests
  MaxRequests = 4
SYMMETRY MCSymmetry
INVARIANT LibraryTypeOK NoOrphanMembership NoOrphanItem NoDanglingPin OneListenPerKey OrderFollowsEntries
PROPERTY ReorderKnewTheBoard
CHECK_DEADLOCK FALSE
