SPECIFICATION Spec
CONSTANT Iterations = 4
INVARIANTS PollOwned
PROPERTIES RequestStable MissedRoundIsForever Shutdown WindowSpec
