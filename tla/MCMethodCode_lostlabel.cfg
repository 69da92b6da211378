SPECIFICATION Spec
CONSTANTS
  MaxInstrs = 4
  Instrs <- FlowInstrs
  a = a
  b = b
  Label = {a}
  CaseNum = {}
  MaxHandlers = 0
  BranchMax = 4
  FillThresh = 1
  StackLimit = 2
INVARIANT LabelsResolved
