SPECIFICATION Spec
CONSTANTS
  NumSteps = 2
  Slots = {c1, c2}
  NoSlot = NoSlot
  Faults = {"loss", "hours", "mpp"}
SYMMETRY SlotSymmetry
INVARIANTS
  ChargedOnceUnlessOutrun
  RejectionIsReceipted
  BoughtMeansCharged
PROPERTIES
  ImplementsSingleUse
