CONSTANTS
  Words <- TwoWords
  Delim <- Colon
  MaxLen = 6
SPECIFICATION Spec
INVARIANTS
  TypeOK
  ResultInBounds
  ResultIsFields
  AbortsOnEmptyField
PROPERTIES
  Returns
CHECK_DEADLOCK FALSE
