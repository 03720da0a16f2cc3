SPECIFICATION Spec
CONSTANTS
  Functions <- AllFunctions
  MaxDepth = 4
INVARIANTS
  AcceptsTheSound
  ValuesFitTypes
PROPERTIES
  FrozenStays
CHECK_DEADLOCK FALSE
