SPECIFICATION Spec
CONSTANTS
  Crates <- SomeCrates
INVARIANTS
  NeverPanics
  ResolvesLexically
  ReportsExactly
  AcceptedAreBound
CHECK_DEADLOCK FALSE
