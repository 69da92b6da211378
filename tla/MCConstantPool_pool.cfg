SPECIFICATION Spec
CONSTANTS
  dotted = dotted
  slashed = slashed
  word = word
  big = big
  small = small
  pi = pi
  one = one
  negZero = negZero
  posZero = posZero
  NoBytes = NoBytes
  Text <- TextSet
  Slashed <- SlashedFn
  Number <- NumberSet
  NumTag <- TagNumber
  Equal <- EqualNumber
  Literal = {small, one}
  ClassName = {dotted, slashed}
  VerbatimName = {slashed}
  Name = {slashed, word}
  IdxMax = 5
  IndexLimit = 9
  MaxUses = 4
INVARIANTS TypeOK WellFormed OperandsResolve
PROPERTY TableSpec
