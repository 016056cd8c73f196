CONSTANTS
    BlockSize = 24
    RecSize = {8, 12}
    MaxRecords = 5
    MaxCrashes = 2
SPECIFICATION Spec
INVARIANTS TypeOK PagesWellFormed IteratorReadsLog IteratorNeverThrows SavedIsDurable
PROPERTIES ImplementsDurableLog
