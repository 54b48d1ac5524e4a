SPECIFICATION Spec
CONSTANTS
  w1 = w1
  w2 = w2
  w3 = w3
  web = web
  batch = batch
  Workers = {w1, w2, w3}
  Clients = {web, batch}
  ClientOf <- MCClientOf
  DefaultRps = 2
  DefaultBurst = 2
  Overrides <- MCOverrides
  Second = 2
  MaxTime = 4
SYMMETRY Tasks
INVARIANTS
  TypeOK
  QuotaHolds
  RetryAfterSuffices
