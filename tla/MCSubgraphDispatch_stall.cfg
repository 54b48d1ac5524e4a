SPECIFICATION StallSpec
CONSTANTS
  Calls = {q1, m1}
  Mutations = {m1}
  MaxRetries = 1
  InitialBackoff = 1
  MaxBackoff = 2
  Timeout = 1
  Window = 1
  MinSamples = 2
  RatioNum = 1
  RatioDen = 2
  Recovery = 1
PROPERTIES
  AttemptTimesOut
