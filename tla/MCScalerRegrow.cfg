CONSTANTS
  Rates = {0, 2, 8}
  MinRps = 2
  Qps = {2}
  MaxReplicas = 4
  MaxConfigs = 2

SPECIFICATION Spec

PROPERTY
  ScaleDownOnlyReduces
