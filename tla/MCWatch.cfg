SPECIFICATION FairWatchSpec
CONSTANTS
  NumSteps = 4
INVARIANTS
  WatchTypeOK
  PairInStep
  HoldsWhatIsOutstanding
  NeverRefusedByTheRule
  EachStepAttemptedOnce
  EndingIsHonest
PROPERTIES
  WatchEnds
