SPECIFICATION InstantiatorSpec
CONSTANTS
  Alphabets <- MCAlphabets
  Keywords <- MCKeywords
  Sentences <- MCSentences
  Names <- MCNames
  Arguments <- MCArguments
  Beyond <- MCBeyond
INVARIANTS LexesAsMeant LiteralsMeanTheirText AcceptsWithoutOpenPair BindsAsPrecedenceSays EveryNameHasItsPlace NothingBehindTheQueue InstanceIsSubstitution
CHECK_DEADLOCK FALSE
