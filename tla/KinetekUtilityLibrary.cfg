SPECIFICATION Spec
CONSTANTS
  Uses = {"library"}
  CommandLines <- Lines
  Interfaces <- TwoInterfaces
  Params <- SomeParams
  CallLimit = 3
INVARIANTS
  SecondCallSafe
