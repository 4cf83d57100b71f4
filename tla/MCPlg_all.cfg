SPECIFICATION MCSpec
CONSTANTS
  Value = {a, b}
  Raw = Raw
  Gone = Gone
  Kinds = {"vector", "inplace", "variant", "expected", "string", "version"}
  MaxSize = 4
  MaxCount = 2
  MinCap = 2
  Boundary = 2
  Alignment = 1
  MaxLength = 7
  MaxText = 2
  MaxTypes = 9
  TraitOf <- MCTraitOf
VIEW View
INVARIANTS
  VectorHoldsItsElements
  InplaceHoldsItsElements
  VariantIndexTellsObject
  VariantTreeKeepsOrder
  ExpectedHasValTellsObject
  StringTerminated
  VersionReadsItsText
  VersionOrderIsPrecedence
  RangeMeansItsText
PROPERTIES
  VectorIsContainer
  InplaceIsContainer
  VariantIsContainer
  ExpectedIsContainer
  StringIsContainer
