SPECIFICATION Spec
CONSTANTS
  Files <- AllFiles
INVARIANTS
  ReloadWorks
  EndMeansAllRead
PROPERTIES
  ImplementsStream
