SPECIFICATION FairSpec
CONSTANTS
  a = a
  b = b
  c = c
  n = n
  Item <- Items
  Length <- Lengths
  MaxInt = 3
  Programs <- SmallPrograms
INVARIANTS
  TypeOK
  ValuesAreMeant
  ReportsTheMeaningless
  AcceptedAreKnown
PROPERTIES
  MemoIsStable
  Terminates
CHECK_DEADLOCK FALSE
