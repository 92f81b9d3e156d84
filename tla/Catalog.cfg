SPECIFICATION CatalogSpec
CONSTANTS
  NoAlbum = NoAlbum  None = None  Imported = Imported
  m1 = m1  m2 = m2  p1 = p1
  s1 = s1  s2 = s2  t1 = t1  r1 = r1
  g1 = g1  g2 = g2  n1 = n1  n2 = n2  n3 = n3  a1 = a1
  e1 = e1  q1 = q1
  Client = {m1, m2, p1}  Moderator = {m1, m2}  Contributor = {p1}
  Submission = {s1, s2}  Ref = {r1}
  MaxRevision = 2  MaxCatalog = 3  MaxRequests = 4
SYMMETRY MCSymmetry
INVARIANT CatalogTypeOK CatalogKeepsItsWord ContributorsAreTold AlbumsFitTheirGenres InUseMeansReviewed ToolsTellTheTruth
PROPERTY DecisionsAreInformed UsersKeepWhatTheyOwn
CHECK_DEADLOCK FALSE
