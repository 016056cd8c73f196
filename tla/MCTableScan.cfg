SPECIFICATION Spec
CONSTANTS
  a = a
  b = b
  Field = {a, b}
  Value = {0, 1}
  Default = 0
  SlotsPerBlock = 2
  MaxBlocks = 2
  Reader = {r1}
  Update = Update
  Pred <- MCPred
  NewRow <- MCNewRow
  Expr <- MCExpr
  MaxStatements = 4
INVARIANTS TypeOK PinsMatchScans
PROPERTIES ImplementsRelation StatementsEnd
CHECK_DEADLOCK FALSE
