SPECIFICATION Spec
CONSTANTS
  Texts <- AllTexts
  ATN <- Tables
INVARIANTS
  SameLanguage
  SameTree
  BuilderTotal
CHECK_DEADLOCK FALSE
