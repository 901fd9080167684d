CONSTANTS
  Hosts = {"a", "b"}
  Paths = {"x", "y"}
  MaxGroups = 3
SPECIFICATION Spec
INVARIANT RoutesArePrecise
CHECK_DEADLOCK FALSE
