CONSTANTS
  a1 = a1
  a2 = a2
  k1 = k1
  k2 = k2
  k3 = k3
  g1 = g1
  g2 = g2
  Handlers = {a1, a2}
  Keys = {k1, k2, k3}
  Hashes = {g1, g2}
  NoKey = NoKey
  NoHash = NoHash
  CodeLength = 1
  MaxLoads = 3
CHECK_DEADLOCK FALSE
SPECIFICATION FairSpec
INVARIANTS
  TypeOK
  PendingIsResumable
  HashFitsClient
  DoneMeansLinked
  CodeScreenHasWayOn
PROPERTY VisitEnds
