SPECIFICATION LiveSpec
CONSTANTS
  v1 = v1
  q1 = q1
  Instances = {v1, q1}
  ServiceOf <- MCServiceOf
  Pods = {g1}
  Boots <- MCBoots
  Other = Other
  Manifests <- MCManifests
  Composable <- MCComposable
  MaxAttempts = 2
  MaxFaults = 3
INVARIANTS
  TypeOK
  RoutesAreFresh
  ListensAsConfigured
PROPERTIES
  EveryPodListens
CHECK_DEADLOCK FALSE
