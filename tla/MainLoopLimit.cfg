SPECIFICATION Spec
CONSTANTS
  Count = 2
  MaxRuns = 1
  Skews = {TRUE}
PROPERTY LimitStopsTheMode
