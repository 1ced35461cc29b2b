SPECIFICATION Spec
CONSTANTS
  Tests <- AllMethods
  Threads = 2
  Iterations = 2
INVARIANTS TypeOK MpiUsedCorrectly IterationIsComplete InStep FirstBarrierFences NothingLeft
PROPERTIES MethodSpec
