SPECIFICATION FairLayoutSpec
CONSTANTS
  a = a
  b = b
  c = c
  Struct <- Three
  Crates <- SomeCrates
  Orders <- Permutations3
INVARIANTS
  EveryCycleReported
  OnlyCyclesReported
PROPERTIES
  WalkEnds
CHECK_DEADLOCK FALSE
