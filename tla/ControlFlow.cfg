SPECIFICATION FairSpec
CONSTANTS
  Programs <- AllBodies
  MaxReads = 3
  Fuel = 6
  SetAside = {"lazy", "unit", "order"}
INVARIANTS
  NeverPanics
  DivergenceEndsTheCode
  ReturnsWhatItDeclares
  NoUndefinedRead
  AgreesWithSource
PROPERTIES
  AnswersIfSourceDoes
CHECK_DEADLOCK FALSE
