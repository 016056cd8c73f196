SPECIFICATION Spec
CONSTANTS
  RowsPerBlock = 2
  MaxRows = 5
  Contents <- MCContents
  Schema <- MCSchema
  View <- MCView
  Sql <- MCSql
  Algebra <- MCAlgebra
INVARIANTS PlanMeansQuery AnswersExact OutputSorted SecondPassSame NothingThrown
CHECK_DEADLOCK FALSE
