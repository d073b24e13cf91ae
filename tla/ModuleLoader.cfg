SPECIFICATION FairSpec
CONSTANTS
  File <- MCFile
  Root = "main"
  Programs <- MCPrograms
INVARIANTS
  GeneratedOnce
  ConsoleFollows
  FailsForCause
  CallsTheNamedModule
  LoadedIsClosed
PROPERTY
  LoadingEnds
CHECK_DEADLOCK FALSE
