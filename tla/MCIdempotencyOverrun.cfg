SPECIFICATION Spec
CONSTANTS
  Keys = {k1}
  Fingerprints = {f1, f2}
  Requests = {r1, r2}
  Nobody = Nobody
  Window = 1
  Limit = 1
  MaxRun = 2
INVARIANTS
  RecordedByItsClaimant
