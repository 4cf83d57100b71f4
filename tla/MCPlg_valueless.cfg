SPECIFICATION MCSpec
CONSTANTS
  Value = {a, b}
  Raw = Raw
  Gone = Gone
  Kinds = {"variant"}
  MaxSize = 4
  MaxCount = 2
  MinCap = 2
  Boundary = 2
  Alignment = 1
  MaxLength = 7
  MaxText = 2
  MaxTypes = 9
  TraitOf <- MCTraitOf
VIEW View
INVARIANTS
  EmptyIsValueless
