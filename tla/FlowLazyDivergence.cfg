SPECIFICATION Spec
CONSTANTS
  Programs <- LazyBodies
  MaxReads = 2
  Fuel = 6
  SetAside = {"unit", "order"}
INVARIANTS
  DivergenceEndsTheCode
CHECK_DEADLOCK FALSE
