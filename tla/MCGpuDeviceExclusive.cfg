CONSTANTS
  FullWidth = 2
  TotalSM = 2
  TotalMemory = 4
  Virtual = TRUE
  Entries = 2
  MaxWant = 3
  MaxDrift = 6
  narrow = narrow
  flat = flat
  other = other
  tall = tall
  alone = alone
  NoConfig = NoConfig
  Configs = {narrow, tall, alone}
  Shape <- MCShape

SPECIFICATION FairSpec

INVARIANTS
  ItemsOwnedOnce
  PromiseKept
  ExclusiveAlone
  GoneHoldsNothing
  EmptyIsScheduled

PROPERTY
  DeletionCompletes

CHECK_DEADLOCK FALSE
