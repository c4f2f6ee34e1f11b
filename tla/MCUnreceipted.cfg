SPECIFICATION Spec
CONSTANTS
  NumSteps = 1
  Slots = {c1, c2}
  NoSlot = NoSlot
  Faults = {"loss", "slow"}
SYMMETRY SlotSymmetry
INVARIANTS
  RejectionIsReceipted
