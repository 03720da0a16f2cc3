SPECIFICATION Spec
CONSTANTS
  Programs <- UnitOperands
  MaxReads = 2
  Fuel = 6
  SetAside = {"lazy", "order"}
INVARIANTS
  NeverPanics
CHECK_DEADLOCK FALSE
