SPECIFICATION Spec
CONSTANTS
  Targets = {"near", "far"}
  Remotes = {"far"}
  Environments <- ExactScope
INVARIANT AllProven
CHECK_DEADLOCK FALSE
