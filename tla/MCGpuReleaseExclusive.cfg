CONSTANTS
  Physical = {p1}
  Virtual = {v1}
  Unprovisioned = Unprovisioned
  Slots = 1
  Configs = {x1, x2, s1}
  Exclusive = {x1, x2}
  Room = 2
  RetryLimit = 0
  LostAnswers = TRUE
  MaxPlan = 2
  MaxPending = 2
  MaxRegistrations = 1

SPECIFICATION Spec

INVARIANTS
  ExclusiveHasGpu

CHECK_DEADLOCK FALSE
