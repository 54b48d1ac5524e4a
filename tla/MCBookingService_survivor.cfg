SPECIFICATION Spec
CONSTANTS
  r1 = r1
  r2 = r2
  r3 = r3
  r4 = r4
  r5 = r5
  r6 = r6
  x1 = x1
  x2 = x2
  u1 = u1
  u2 = u2
  k1 = k1
  k2 = k2
  k3 = k3
  p1 = p1
  Requests = {r1, r2}
  Cancels = {x1}
  Keys = {k1, k2, k3}
  Anonymous = anonymous
  NoBooking = NoBooking
  KeyOf <- MCKeyOf
  UserOf <- MCUserOf
  PropertyOf <- MCPropertyOf
  NightsOf <- MCNightsOf
  Rooms <- MCRooms
  PoolSize = 3
  MaxCallers = 3
INVARIANTS
  LoserGetsSurvivor
CHECK_DEADLOCK FALSE
