SPECIFICATION MCFairSpec
CONSTANTS
  Files <- UploadFiles
  FaultBudget = 4
  NO_DATA = 0
  PAGE_SIZE = 2
INVARIANTS
  SentInOrder
  PagesKeepUp
  PageFrameIsRight
  PagesStored
  CompleteMeansStored
PROPERTIES
  PagePassedOnEvidence
  Terminates
  OneFaultCompletes
