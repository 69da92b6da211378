SPECIFICATION Spec
CONSTANTS
  MaxInstrs = 4
  Instrs <- FlowInstrs
  a = a
  b = b
  Label = {a}
  CaseNum = {}
  MaxHandlers = 0
  BranchMax = 32767
  FillThresh = 10
  StackLimit = 2
INVARIANTS TypeOK StackDepthsExact MaxStackSuffices
PROPERTY SearchSpec
