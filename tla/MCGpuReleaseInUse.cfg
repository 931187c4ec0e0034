CONSTANTS
  Physical = {}
  Virtual = {v1}
  Unprovisioned = Unprovisioned
  Slots = 1
  Configs = {c1}
  Exclusive = {}
  Room = 2
  RetryLimit = 0
  LostAnswers = FALSE
  MaxPlan = 1
  MaxPending = 1
  MaxRegistrations = 1

SPECIFICATION Spec

PROPERTY
  OnlyEmptyReleased

CHECK_DEADLOCK FALSE
