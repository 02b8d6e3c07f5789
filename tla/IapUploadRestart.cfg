SPECIFICATION MCSpec
CONSTANTS
  Files <- PaddedFiles
  FaultBudget = 2
  NO_DATA = 0
  PAGE_SIZE = 4
INVARIANTS
  EndIsFinal
