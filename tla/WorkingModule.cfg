SPECIFICATION Spec
CONSTANTS
  Root <- MCRoot
  Aliases <- MCAliases
  GenericAliases <- MCGenericAliases
  GenericUses <- MCGenericUses
  GenericsOf <- MCGenericsOf
  TypeOf <- MCTypeOf
  ParameterOf <- MCParameterOf
  Hooked <- MCHooked
  Bodies <- MCBodies
INVARIANTS
  BackInTheFile
  LookedUpWhereWritten
CHECK_DEADLOCK FALSE
