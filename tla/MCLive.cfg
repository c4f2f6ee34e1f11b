SPECIFICATION FairSpec
CONSTANTS
  NumSteps = 1
  Slots = {c1}
  NoSlot = NoSlot
  Faults = {"loss", "slow", "lapse", "hours", "cp", "merchant", "mpp"}
PROPERTIES
  AttemptResolves
