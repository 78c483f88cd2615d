CONSTANTS
  u1 = u1
  u2 = u2
  k1 = k1
  k2 = k2
  h1 = h1
  h2 = h2
  r1 = r1
  r2 = r2
  p1 = p1
  p2 = p2
  Users = {u1, u2}
  Owner = u1
  NoToken = NoToken
  Tokens = {k1, k2}
  Handlers = {h1}
  Requests = {r1}
  Sweepers = {p1}
  TTL = 2
  Window = 1
  MaxAge = 3
  Batch = 1
  MaxTime = 4
  MaxRestarts = 1
  MaxFailures = 1
SPECIFICATION FairSpec
PROPERTY ExpiredIsClaimed
