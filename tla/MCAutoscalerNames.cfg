CONSTANTS
  Functions = {f1, f2}
  Names = {n}
  Name <- SharedName
  Foreign = {f2}
  BadMinQps = {}
  Configs = {c1, c2}
  Nobody = Nobody
  Faults = FALSE
  MaxDemand = 1
  MaxIncarnations = 1

SPECIFICATION Spec

INVARIANTS
  PodsKeepSlots

CHECK_DEADLOCK FALSE
