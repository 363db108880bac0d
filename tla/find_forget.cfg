SPECIFICATION Spec
CONSTANTS
  Targets = {"near", "far"}
  Remotes = {"far"}
  Environments <- ForgetBesideTransfer
INVARIANT AllProven
CHECK_DEADLOCK FALSE
