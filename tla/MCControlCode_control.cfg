SPECIFICATION FairSpec
CONSTANTS
  Families <- AllFamilies
  MaxLines = 7
  MaxLocal = 7
INVARIANTS TypeOK SameStatement CodeComplete

PROPERTIES StructuredUnitsEnd
