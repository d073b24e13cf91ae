SPECIFICATION FairSpec
CONSTANT Programs <- AllPrograms
INVARIANTS InStep CleanTables
PROPERTY KeepsActing
