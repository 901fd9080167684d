CONSTANTS
  Errors = {"404"}
  MaxOps = 3
SPECIFICATION Spec
INVARIANT ResponsesAreFramed
PROPERTIES EndedStaysEnded RequestsEnd
CHECK_DEADLOCK FALSE
