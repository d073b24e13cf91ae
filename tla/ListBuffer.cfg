SPECIFICATION Spec
CONSTANTS
  a = a
  b = b
  Value <- MCValue
  Array <- MCArray
  MaxLength = 5
  OverlapSafe = TRUE
INVARIANT InBounds
PROPERTY ImplementsListSpec
CHECK_DEADLOCK FALSE
