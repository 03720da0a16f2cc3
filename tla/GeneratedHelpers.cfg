SPECIFICATION FairSpec
CONSTANTS
  s = s
  t = t
  Struct <- Two
  Name <- Names
  Crates <- SomeCrates
  Lowered <- SomeLowered
INVARIANTS
  NoMutableCopies
  NamesClashOnlyAtUnit
  AllDefined
PROPERTIES
  SupportsWhatHasTheTrait
  Terminates
CHECK_DEADLOCK FALSE
