SPECIFICATION Spec
CONSTANTS
  a = a
  b = b
  c = c
  d = d
  e = e
  Names = {a, b, c, d}
  Groups <- PairsAndTriples
  Types <- TwoTypes
  MaxGroups = 3
  Hash <- CodeHash
  NumEntries = 3
INVARIANTS TypeOK OneNamePerClass NoneLostNoneTied AccessesDeclared MismatchReported
