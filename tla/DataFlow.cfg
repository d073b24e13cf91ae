SPECIFICATION Spec
CONSTANTS
  Structs <- MCStructs
  EnumTypes <- MCEnumTypes
  EnumValues <- MCEnumValues
  Functions <- MCFunctions
  Texts <- MCTexts
  Variables <- MCVariables
  Alphabet <- MCAlphabet
  Elsewhere <- MCElsewhere
  Programs <- MCPrograms
  InitialMemory <- MCInitialMemory
INVARIANTS
  DoesWhatItSays
  NoInternalError
PROPERTY
  ConstStays
CHECK_DEADLOCK FALSE
