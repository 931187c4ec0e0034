CONSTANTS
  FullWidth = 2
  TotalSM = 3
  TotalMemory = 4
  Virtual = TRUE
  Entries = 2
  MaxWant = 2
  MaxDrift = 2
  narrow = narrow
  flat = flat
  other = other
  tall = tall
  alone = alone
  NoConfig = NoConfig
  Configs = {flat, tall, other}
  Shape <- RaceShape

SPECIFICATION FairSpec

INVARIANTS
  ItemsOwnedOnce
  PromiseKept
  GoneHoldsNothing
  EmptyIsScheduled

PROPERTY
  DeletionCompletes

CHECK_DEADLOCK FALSE
