CONSTANTS
  Functions = {f1, f2}
  Names = {f1, f2}
  Name <- OwnNames
  Foreign = {}
  BadMinQps = {}
  Configs = {c1, c2}
  Nobody = Nobody
  Faults = TRUE
  MaxDemand = 2
  MaxIncarnations = 2

SPECIFICATION Spec

INVARIANTS
  CleanDeletion
  SlotsAccounted
  SlotsLostOnlyIfRecreated

SYMMETRY Symmetry

CHECK_DEADLOCK FALSE
