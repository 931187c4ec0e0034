CONSTANTS
  Functions = {f1}
  Names = {f1}
  Name <- OwnNames
  Foreign = {}
  BadMinQps = {}
  Configs = {c1, c2}
  Nobody = Nobody
  Faults = FALSE
  MaxDemand = 1
  MaxIncarnations = 2

SPECIFICATION Spec

INVARIANTS
  PodsKeepSlots

CHECK_DEADLOCK FALSE
