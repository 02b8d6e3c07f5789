SPECIFICATION Spec
CONSTANTS
  Uses = {"command_line", "library"}
  CommandLines <- Lines
  Interfaces <- TwoInterfaces
  Params <- SomeParams
  CallLimit = 3
INVARIANTS
  ToolsOnOpenSocket
  SuccessIsTheUpload
  CommandLineNeverCrashes
