CONSTANTS
  c1 = c1
  c2 = c2
  std = std
  pro = pro
  Commands = {c1, c2}
  Tariffs = {std, pro}
  NoTariff = NoTariff
  Quota <- MCQuota
  SendTariffs = {pro}
  Cooldown <- MCCooldown
  MaxCount <- MCMaxCount
  MonthLength = 2
  MaxTime = 4
  MaxFailures = 1
  MaxChanges = 2
SYMMETRY Symmetry
SPECIFICATION Spec
INVARIANTS
  CounterIsTrue
PROPERTIES
  CheckWithinQuota
  CooldownHolds
CHECK_DEADLOCK FALSE
