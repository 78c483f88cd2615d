CONSTANTS
  a1 = a1
  s1 = s1
  s2 = s2
  k1 = k1
  k2 = k2
  k3 = k3
  t1 = t1
  t2 = t2
  t3 = t3
  h1 = h1
  h2 = h2
  Accounts = {a1}
  Sessions = {s1}
  AccountOf <- MCAccountOf
  Keys = {k1, k2}
  Tasks = {t1, t2}
  Handlers = {h1}
  NoAccount = NoAccount
  NoSession = NoSession
  NoKey = NoKey
  NoTask = NoTask
  SerialTx = FALSE
  MaxFaults = 1
SPECIFICATION FairSpec
INVARIANTS
  TypeOK
  WorkersAreTracked
  NoticeOnlyForDeadKey
PROPERTIES
  DeadLoginIsRetired
  LiveLoginIsServed
  StaleWorkerStops
