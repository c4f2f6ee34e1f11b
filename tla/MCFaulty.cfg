SPECIFICATION Spec
CONSTANTS
  NumSteps = 1
  Slots = {c1, c2}
  NoSlot = NoSlot
  Faults = {"loss", "slow", "lapse", "hours", "cp", "merchant", "mpp"}
SYMMETRY SlotSymmetry
INVARIANTS
  TypeOK
  AttemptChargedOnce
  HandlerHoldsTheKey
  ChargeIsRemembered
