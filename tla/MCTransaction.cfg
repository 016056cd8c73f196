CONSTANTS
    Block = {b1, b2}
    Offset = {o1}
    Value = {0, 1}
    Zero = 0
    Missing = Missing
    None = None
    NewBlocks = {b2}
    Readers = {1}
    Eof = Eof
    NumBuffers = 1
    MaxTx = 2
    MaxBegins = 3
    MaxWrites = 2
    MaxCrashes = 2
    RecoverFirst = TRUE
    ExclusiveClients = TRUE
SPECIFICATION MCSpec
INVARIANTS TypeOK ReadsCommitted
PROPERTIES ImplementsAtomicStore CallsEnd
CHECK_DEADLOCK FALSE
