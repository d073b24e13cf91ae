SPECIFICATION Spec
CONSTANTS
  o1 = o1
  o2 = o2
  o3 = o3
  Local <- OneLocal
  LocalOrder <- OneLocalOrder
  Object <- MCObject
  CountModulus = 8
  MaxStatements = 4
  Forms <- Branching
  Targets <- FewStores
  Readable <- FewCopies
SYMMETRY Alike
INVARIANTS NoHookOnGarbageIfFlat NothingLostIfFlat
CHECK_DEADLOCK FALSE
