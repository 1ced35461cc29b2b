SPECIFICATION Spec
CONSTANTS
  Iterations = 2
  MaxStep = 1
  Scale = 6
INVARIANTS MeanIsAverage
