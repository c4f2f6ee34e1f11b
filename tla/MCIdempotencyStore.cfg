SPECIFICATION FairSpec
CONSTANTS
  Keys = {k1, k2}
  Fingerprints = {f1, f2}
  Requests = {r1, r2, r3}
  Nobody = Nobody
  Window = 2
  Limit = 1
  MaxRun = 1
INVARIANTS
  TypeOK
  OwnClaimIsHeld
  ExclusiveExecution
  ReplayAnswersTheQuestion
  RecordedByItsClaimant
  WithinLimit
PROPERTIES
  AnswerIsKept
  KeyIsHandedBack
