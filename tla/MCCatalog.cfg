CONSTANTS
    Statements <- MCStatements
    TempNames = {"temps"}
    FreshNames = TRUE
    BlockSize = 65
    MaxStarts = 3
SPECIFICATION Spec
INVARIANTS TypeOK ParserExact InsertsReadBack OpensAgain
PROPERTIES ImplementsDictionary CallsEnd
CHECK_DEADLOCK FALSE
