SPECIFICATION Spec
CONSTANTS
  NODE = 73
  CommandLines <- Lines
INVARIANT
  RequestedTasksRun
