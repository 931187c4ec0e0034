CONSTANTS
  big = big
  cheap = cheap
  part = part
  fast = fast
  slow = slow
  AnyType = AnyType
  Gpus <- GpusMC
  Gpu <- GpuMC
  Rate <- RateMC
  FullWidth = 2
  MemoryReq = 1
  Granularity = 2
  AllocationTypes = {"fastpod", "exclusive"}
  Demands = {4, 9}
  MaxRepeats = 1
  MaxRequests = 2

SPECIFICATION Spec


CHECK_DEADLOCK FALSE
INVARIANTS
  ExclusiveOnVirtual
