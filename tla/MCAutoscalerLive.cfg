CONSTANTS
  Functions = {f1, f2, f3}
  Names = {f1, f2, f3}
  Name <- OwnNames
  Foreign = {}
  BadMinQps = {f3}
  Configs = {c1, c2}
  Nobody = Nobody
  Faults = FALSE
  MaxDemand = 1
  MaxIncarnations = 1

SPECIFICATION FairSpec

PROPERTY
  Served
  CleanupHappens

CHECK_DEADLOCK FALSE
