CONSTANTS
  Functions = {f1}
  Names = {f1}
  Name <- OwnNames
  Foreign = {}
  BadMinQps = {}
  Configs = {c1}
  Nobody = Nobody
  Faults = FALSE
  MaxDemand = 1
  MaxIncarnations = 1

SPECIFICATION Spec

INVARIANTS
  DeletedStaysOut

CHECK_DEADLOCK FALSE
