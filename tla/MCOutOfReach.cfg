SPECIFICATION WatchSpec
CONSTANTS
  NumSteps = 3
INVARIANTS
  OutOfReachMeansEveryPriceTried
