CONSTANTS
  Errors = {"304"}
  MaxOps = 1
SPECIFICATION Spec
PROPERTY ErrorsTurnIntoResponses
CHECK_DEADLOCK FALSE
