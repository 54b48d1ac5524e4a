SPECIFICATION LiveSpec
CONSTANTS
  q1 = q1
  q2 = q2
  q3 = q3
  q4 = q4
  b1 = b1
  m1 = m1
  m2 = m2
  x1 = x1
  search = search
  book = book
  huge = huge
  h1 = h1
  u1 = u1
  u2 = u2
  v1 = v1
  v2 = v2
  Requests = {q1, q2, q3, q4, b1, m1, m2, x1}
  Documents = {search, book, huge}
  Users = {u1, u2}
  Variables = {v1, v2}
  Nothing = Nothing
  TextOf <- MCTextOf
  HashOf <- MCHashOf
  VariablesOf <- MCVariablesOf
  UserOf <- MCUserOf
  Bypass = {b1}
  Stored <- MCStored
  AllowArbitrary = TRUE
  Valid = {search, book, huge}
  WithinLimits = {search, book}
  Plannable = {search, book, huge}
  Mutations = {book}
  Tracked = {search}
  CacheEnabled = TRUE
  MaxRequests = 3
INVARIANTS
  TypeOK
  RepliesBelong
  OnlyAdmissibleServed
  MutationsExecute
  ErrorsStayHome
PROPERTIES
  EndsOrAwaitsRegistry
CHECK_DEADLOCK FALSE
