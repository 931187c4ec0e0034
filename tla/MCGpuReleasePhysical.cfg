CONSTANTS
  Physical = {p1}
  Virtual = {}
  Unprovisioned = Unprovisioned
  Slots = 1
  Configs = {c1}
  Exclusive = {}
  Room = 2
  RetryLimit = 0
  LostAnswers = FALSE
  MaxPlan = 1
  MaxPending = 1
  MaxRegistrations = 1

SPECIFICATION Spec

INVARIANTS
  OnlyVirtualReleased

CHECK_DEADLOCK FALSE
