SPECIFICATION LiveSpec
CONSTANTS
  Calls = {c1, c2, c3}
  Window = 2
  MinSamples = 2
  RatioNum = 1
  RatioDen = 2
  Recovery = 2
  MaxSamples = 5
INVARIANTS
  TypeOK
PROPERTIES
  OpenPeriodHonoured
  OpensOnEvidence
  HalfOpenIsDecided
  HealthyCloses
