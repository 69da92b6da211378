SPECIFICATION FairSpec
CONSTANTS
  MaxInstrs = 4
  Instrs <- RewriteInstrs
  a = a
  b = b
  Label = {}
  CaseNum = {1, 4}
  MaxHandlers = 1
  BranchMax = 4
  FillThresh = 1
  StackLimit = 2
INVARIANTS NextSpellsCode AddressesExact OperandsExact SwitchWidthsExact TryBlocksKept DepthsExact StackNoted
PROPERTIES SearchSpec TraverseReturns
CONSTRAINT RewriteMethods
