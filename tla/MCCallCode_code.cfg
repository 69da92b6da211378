SPECIFICATION UnitSpec
CONSTANTS
  Variable = {"i", "x", "d", "p", "s", "v", "m"}
  VarType <- TypeFn
  Wrapped = {"i", "d"}
  Bounds <- BoundsFn
  ArgOffset <- OffsetFn
  InitialValue <- ValueFn
  Extras = {}
  StringLength <- LengthFn
  Literal = {"1"}
  LitType <- LitTypeFn
  LitValue <- LitValueFn
  Intrinsics <- AllButALOG
  MaxOps = 2
  Argument <- ArgumentSet
  Procedure = {"first", "second", "third"}
  Descriptor <- DescriptorFn
  InUnitTable = {"first"}
  MaxCalls = 1
INVARIANTS TypeOK TypesMatch StoresFortransValue TypedAsFortran CallsLink PassesByReference
CHECK_DEADLOCK FALSE
