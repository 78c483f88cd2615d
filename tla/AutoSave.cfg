CONSTANTS
  t1 = t1
  t2 = t2
  d1 = d1
  d2 = d2
  s1 = s1
  Tasks = {t1, t2}
  Messages = {d1, d2, s1}
  Direct = {d1, d2}
  Photos = {d2}
  Id <- MCId
  NoMessage = NoMessage
  MaxSize = 2
  MaxVersion = 1
  MaxFaults = 1
SYMMETRY Symmetry
SPECIFICATION Spec
INVARIANTS
  TypeOK
  RowIsExact
  DeletionIsReported
  ReportsAreTrue
PROPERTY MediaIsKept
CHECK_DEADLOCK FALSE
