CONSTANTS
  t1 = t1
  t2 = t2
  Tasks = {t1, t2}
  Periods = {1, 2}
  MaxRows = 2
  MaxTime = 2
SYMMETRY Symmetry
SPECIFICATION Spec
INVARIANTS
  TypeOK
  AccessIsBacked
  PaidCanBeClaimed
PROPERTIES RevocationHolds ContractSpec
CHECK_DEADLOCK FALSE
