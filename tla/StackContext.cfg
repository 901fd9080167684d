CONSTANTS
  StackContexts = {"c1", "c2"}
  ExceptionContexts = {"e1"}
  Consuming = {"e1"}
  Functions_ = {"f1", "f2"}
  DeactivateOpen = FALSE
  MaxFrames = 3
SPECIFICATION Spec
INVARIANT ContextsAreLeft
CHECK_DEADLOCK FALSE
