SPECIFICATION Spec
CONSTANTS
  Modes = {"Win", "WinSingle"}
  PartitionCount = 3
  Iterations = 2
  Pattern <- LinearInverse
INVARIANTS TypeOK NoCheckInIterations WarmupIsOver DataAtCheck
PROPERTIES MethodSpec
