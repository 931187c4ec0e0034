CONSTANTS
  Nodes = {n1, n2}
  Conns = {c1, c2, c3}

SPECIFICATION FairNodeSpec

INVARIANTS
  HeartbeatFindsNode
  ReadyIsServed

PROPERTY
  ServedBecomesReady

CHECK_DEADLOCK FALSE
