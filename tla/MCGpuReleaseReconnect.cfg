CONSTANTS
  Physical = {p1}
  Virtual = {}
  Unprovisioned = Unprovisioned
  Slots = 1
  Configs = {c1, x1}
  Exclusive = {x1}
  Room = 2
  RetryLimit = 0
  LostAnswers = FALSE
  MaxPlan = 1
  MaxPending = 1
  MaxRegistrations = 2

SPECIFICATION Spec

INVARIANTS
  ExclusiveExcluded

CHECK_DEADLOCK FALSE
