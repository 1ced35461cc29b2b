SPECIFICATION Spec
CONSTANTS
  Tests <- IsendOnly
  Threads = 2
  Iterations = 1
INVARIANT WarmupIsOver
