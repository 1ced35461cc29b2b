SPECIFICATION Spec
CONSTANTS
  CommandLines <- Lines
  MaxInt = 32767
INVARIANTS TypeOK ParsedAsGiven ListFits PatternsOfSizes ListIsComplete SlicesCover
PROPERTIES LegalStarts
