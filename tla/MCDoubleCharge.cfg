SPECIFICATION Spec
CONSTANTS
  NumSteps = 2
  Slots = {c1, c2}
  NoSlot = NoSlot
  Faults = {"loss", "hours"}
SYMMETRY SlotSymmetry
INVARIANTS
  AuthorisationChargedOnce
