CONSTANTS
    BlockSize = 24
    RecSize = {8, 12}
    MaxRecords = 5
    MaxCrashes = 2
SPECIFICATION Spec
INVARIANTS IteratorReadsOnlyRecords
