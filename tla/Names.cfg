SPECIFICATION Spec
CONSTANTS
  RootName <- MCRootName
  MangledModule <- MCMangled
  Library <- MCLibrary
  Programs <- MCPrograms
INVARIANTS
  ImportsMeanTheSame
  FieldsHaveRoom
  OneTextPerKey
PROPERTY
  MeaningStands
CHECK_DEADLOCK FALSE
