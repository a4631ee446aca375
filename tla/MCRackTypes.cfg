SPECIFICATION Spec
CONSTANTS
  MaxSwaps = 2
  ReturnCap = 2
  CommandCap = 2
  PerCall = 2
  MaxSlots = 2
  AutoRestarts = 1
  Models <- StoredModels
  MaxOps = 2
INVARIANT TypeOK
CHECK_DEADLOCK FALSE
