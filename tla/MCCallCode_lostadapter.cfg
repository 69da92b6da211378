SPECIFICATION UnitSpec
CONSTANTS
  Variable = {"i", "x", "d", "p", "s", "v", "m"}
  VarType <- TypeFn
  Wrapped = {"i", "d"}
  Bounds <- BoundsFn
  ArgOffset <- OffsetFn
  InitialValue <- ValueFn
  Extras = {}
  StringLength <- LengthFn
  Literal = {"1"}
  LitType <- LitTypeFn
  LitValue <- LitValueFn
  Intrinsics = {}
  MaxOps = 0
  Argument <- ArgumentSet
  Procedure = {"fourth"}
  Descriptor <- DescriptorFn
  InUnitTable = {}
  MaxCalls = 2
INVARIANT AdaptersComplete
CHECK_DEADLOCK FALSE
