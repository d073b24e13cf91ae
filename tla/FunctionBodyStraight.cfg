SPECIFICATION Spec
CONSTANTS
  o1 = o1
  o2 = o2
  o3 = o3
  Local <- ThreeLocals
  LocalOrder <- ThreeLocalOrder
  Object <- MCObject
  CountModulus = 8
  MaxStatements = 4
  Forms <- Straight
  Targets <- Stores
  Readable <- Copies
SYMMETRY Alike
INVARIANTS NoUseAfterFree SurvivorsAlive NothingLost
PROPERTY FollowsDiscipline
CHECK_DEADLOCK FALSE
