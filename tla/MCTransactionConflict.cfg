CONSTANTS
    Block = {b1, b2}
    Offset = {o1}
    Value = {0, 1}
    Zero = 0
    Missing = Missing
    None = None
    NewBlocks = {}
    Readers = {}
    Eof = Eof
    NumBuffers = 1
    MaxTx = 2
    MaxBegins = 3
    MaxWrites = 2
    MaxCrashes = 1
    RecoverFirst = TRUE
    ExclusiveClients = FALSE
SPECIFICATION Spec
PROPERTIES CommitIsDurable
CHECK_DEADLOCK FALSE
