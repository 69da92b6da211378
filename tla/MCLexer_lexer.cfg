CONSTANTS
  Main = "a"
  Programs <- AllPrograms
  MaxOpen = 5
  Numbers <- CodeNumbers
  Splits <- CodeSplits
SPECIFICATION Spec
INVARIANT TypeOK
PROPERTIES ReadsSource Ends
CHECK_DEADLOCK FALSE
