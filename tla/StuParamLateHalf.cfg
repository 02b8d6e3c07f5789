SPECIFICATION Spec
CONSTANTS
  NUM_STU_ROWS = 4
  ROW_SIZE = 4
  FW = 5
  StuFiles <- AllFiles
  Eeproms <- Memories
  Params = {1, 2}
  Values = {0, 1}
  CallLimit = 2
  NO_DATA <- NoBytes
  FaultBudget = 2
INVARIANT
  ReadIsTheKineteks
