SPECIFICATION Spec
CONSTANTS
  Conns = {"a", "b", "c", "d"}
  Caps = {0, 2}
  Limits = {0, 3}
  FdLimits = {2, 3}
INVARIANTS LimitsRespected DrainedOnReturn
PROPERTIES EachServed
CHECK_DEADLOCK FALSE
