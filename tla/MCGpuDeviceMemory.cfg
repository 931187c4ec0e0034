CONSTANTS
  FullWidth = 2
  TotalSM = 2
  TotalMemory = 2
  Virtual = TRUE
  Entries = 1
  MaxWant = 3
  MaxDrift = 6
  narrow = narrow
  flat = flat
  other = other
  tall = tall
  alone = alone
  NoConfig = NoConfig
  Configs = {narrow, tall, alone}
  Shape <- MCShape

SPECIFICATION Spec

INVARIANT
  MemoryFits

CHECK_DEADLOCK FALSE
