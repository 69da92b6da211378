SPECIFICATION Spec
CONSTANTS
  MaxInstrs = 5
  Instrs <- OverflowInstrs
  a = a
  b = b
  Label = {}
  CaseNum = {}
  MaxHandlers = 0
  BranchMax = 6
  FillThresh = 1
  StackLimit = 2
INVARIANT OffsetsFit
