SPECIFICATION Spec
CONSTANTS
  Flows = {1, 2, 3}
  Vaults = {"v1", "v2"}
  DefaultVault = "v1"
  VaultOf = "v1"
  MaxPolls = 1
INVARIANTS FailedIsFinal
CHECK_DEADLOCK FALSE
