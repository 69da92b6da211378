CONSTANTS
  Main = "a"
  Programs <- CommentedUnits
  MaxOpen = 5
  Numbers <- CodeNumbers
  Splits <- CodeSplits
SPECIFICATION Spec
INVARIANT StatementsCounted
CHECK_DEADLOCK FALSE
