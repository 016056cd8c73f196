CONSTANTS
    Tx = {t1, t2}
    Block = {b1, b2, b3}
    Offset = {o1}
    Value = {0, 1}
    LogRecord = {change}
    Zero = 0
    Missing = Missing
    None = None
    NumBuffers = 2
    MaxPins = 2
    CanPinMissing = FALSE
    MaxLog = 1
SPECIFICATION PoolSpec
INVARIANTS PoolTypeOK AvailableCount OneBufferPerBlock PinsMatchLists
PROPERTIES WriteAheadLog ImplementsPageStore
SYMMETRY MCSymmetry
