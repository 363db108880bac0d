SPECIFICATION Spec
CONSTANTS
  Targets = {"near", "far"}
  Remotes = {"far"}
  Environments <- TwoTargets
INVARIANTS
  Proven
  MarkerVouches
PROPERTIES
  ReplicaFirst
  Decommissions
CHECK_DEADLOCK FALSE
