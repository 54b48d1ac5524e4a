SPECIFICATION LiveSpec
CONSTANTS
  Calls = {q1, m1}
  Mutations = {m1}
  MaxRetries = 2
  InitialBackoff = 1
  MaxBackoff = 1
  Timeout = 1
  Window = 2
  MinSamples = 2
  RatioNum = 1
  RatioDen = 2
  Recovery = 2
INVARIANTS
  GivesUpOnlyWhenExhausted
  HalfOpenHasProbe
PROPERTIES
  KeepsPromise
  UsesBreaker
  EveryCallReturns
