SPECIFICATION MCSpec
CONSTANTS
  Kineteks <- Present
  FaultBudget = 4
  IAP_SELECTIVE_MODE_TEST = FALSE
  IAP_FORCED_MODE_TEST = FALSE
  IAP_MODE_TEST = FALSE
INVARIANTS
  UploadNeedsBootloader
PROPERTIES
  
  FieldAttemptEnds
