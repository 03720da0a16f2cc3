SPECIFICATION Spec
CONSTANTS
  Texts <- JumpTexts
  ATN <- Tables
INVARIANTS
  SameTree
CHECK_DEADLOCK FALSE
