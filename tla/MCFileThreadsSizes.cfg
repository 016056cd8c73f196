CONSTANTS
    Tx = {t1, t2, t3}
    Third = t3
    Block = {tbl, temp}
    TempFile = {temp}
    Value = {v}
    Zero = Zero
    None = None
    MaxBlocks = 2
    MaxCalls = 4
    MaxRestarts = 1
SPECIFICATION MCSpec
PROPERTIES AppendNamesItsBlock
