SPECIFICATION CollectionsSpec
CONSTANTS
  v1 = v1
  v2 = v2
  v3 = v3
  o1 = o1
  o2 = o2
  MaxPending = 3
  NoObject = NoObject
  Variable <- MCVariable
  Object <- MCObject
  Value = {1}
  Arrays <- MCArrays
  MaxBlocks = 3
  MaxSlots = 4
  UMax = 65535
  Questions <- MCQuestions
CONSTRAINT FewPending
SYMMETRY Alike
INVARIANTS CountIsExact OwnedIsLive SharedSafely AnswersAsMeant
PROPERTY CopiedByReference
CHECK_DEADLOCK FALSE
