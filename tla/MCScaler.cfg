CONSTANTS
  Rates = {2, 4}
  MinRps = 2
  Qps = {2, 3}
  MaxReplicas = 3
  MaxConfigs = 3

SPECIFICATION Spec

INVARIANTS
  ScalesDownPatiently
  PlanServesDemand
  CapacityExact
  PodsBacked

PROPERTIES
  NeverScalesToZero
