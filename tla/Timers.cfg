SPECIFICATION Spec
CONSTANTS
  Iterations = 3
  MaxStep = 2
  Scale = 12
INVARIANTS ColumnsAreNested NeverUnderstates
