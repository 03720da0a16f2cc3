SPECIFICATION VecRuns
CONSTANTS
  v = v
  w = w
  Var <- TwoVars
  Elem <- SmallElem
  ElementSize = 4
  WordSize = 128
  HeapLimit = 63
  Junk = 0
  MaxSteps = 7
INVARIANTS
  NoStrayAccess
  BuffersApart
PROPERTIES
  ImplementsVecSpec
CHECK_DEADLOCK FALSE
