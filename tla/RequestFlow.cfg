\* Three requests by two workers that are interchangeable.  A run of the model
\* ends with its last request, so deadlock is not checked.
SPECIFICATION Spec
CONSTANTS
  w1 = w1
  w2 = w2
  Workers <- TwoWorkers
  MaxJobs = 3
  Scenarios <- SomeScenarios
  Answers <- ServerAnswers
SYMMETRY Symmetry
INVARIANTS TypeOK PickMatchesWeights VariablesPaired ResolvedForGood SuccessMeansPassed SessionsInOrder
CHECK_DEADLOCK FALSE
