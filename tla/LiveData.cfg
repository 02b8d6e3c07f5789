SPECIFICATION MCFairSpec
CONSTANTS
  Files <- AllFiles
  Terminals <- AllWindows
  Watched <- AllWatched
  VALUE_SIZES = {3}
  LIST_LEN = 2
  MAX_RESIZES = 1
  MAX_FAULTS = 1
  MAX_CHANGES = 3
CHECK_DEADLOCK FALSE
INVARIANTS
  TypeOK
  OptionsAreTheFile
  SectionsAreWhole
  ValuesMeetLabels
  ListShowsLatest
  NothingIsCovered
PROPERTIES
  PagesInOrder
  KeepsShowing
  SilenceEnds
