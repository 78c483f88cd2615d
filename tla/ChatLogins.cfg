CONSTANTS
  h1 = h1
  h2 = h2
  h3 = h3
  a1 = a1
  a2 = a2
  a3 = a3
  Handlers = {h1, h2}
  Attempts = {a1, a2, a3}
  NoAttempt = NoAttempt
  CodeLength = 1
  MaxRestarts = 1
SYMMETRY Symmetry
SPECIFICATION Spec
INVARIANTS
  TypeOK
  RegisteredIsUsable
  ClientsAreOwned
  ScreenMatchesLogin
  SignedInIsSaved
