SPECIFICATION Spec
CONSTANTS
  Tests <- EvenAndGuarded
  PartitionCount = 4
  RecvCount = 2
  Iterations = 2
  SendPattern <- LinearInverse
INVARIANTS TypeOK MpiUsedCorrectly PollEndsComplete BufferOfEpoch
PROPERTIES MethodSpec
