SPECIFICATION Spec
CONSTANTS
  Count = 3
  MaxRuns = 2
  Skews = {TRUE, FALSE}
INVARIANTS TypeOK SameTestBenched RowsPair VerdictCoversRows RowsFollowLimit
PROPERTIES Termination
