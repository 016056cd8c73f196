SPECIFICATION Spec
CONSTANTS
  RowsPerBlock = 2
  MaxRows = 2
  Contents <- MCContents
  Schema <- MCSchema
  View <- MCView
  Sql <- MCSql
  Algebra <- MCAlgebra
INVARIANT ProductsExact
CHECK_DEADLOCK FALSE
