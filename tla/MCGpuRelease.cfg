CONSTANTS
  Physical = {}
  Virtual = {v1, v2}
  Unprovisioned = Unprovisioned
  Slots = 1
  Configs = {c1, c2}
  Exclusive = {}
  Room = 2
  RetryLimit = 0
  LostAnswers = TRUE
  MaxPlan = 1
  MaxPending = 1
  MaxRegistrations = 1

SPECIFICATION FairSpec

INVARIANTS
  EmptyIsPursued
PROPERTY
  EmptyIsSettled

CHECK_DEADLOCK FALSE
