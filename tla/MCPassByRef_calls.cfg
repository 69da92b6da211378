SPECIFICATION Spec
CONSTANTS
  a = a
  b = b
  c = c
  v = v
  y = y
  ys = ys
  w = w
  z = z
  entry = entry
  lib = lib
  Unit = {a, b, c}
  Files <- FilesSet
  Library = {lib}
  Formals <- FormalsFn
  Scope <- ScopeFn
  Arrays = {ys}
  Block <- BlockFn
  NoBlock = NoBlock
  LibraryArgs <- LibraryFn
  Expr = Expr
  Forms = {"assign", "readloop", "external", "call", "function", "unwalked", "library"}
  MayCall <- Cycle
  MaxStmts = 3
INVARIANTS TypeOK NoReentry WrapsWhatItMust DescriptorsAgree NoPrimitiveArgs
