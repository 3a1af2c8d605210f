\* Two jobs, one runner with two attempt ids, one request at a time.
CONSTANTS
  r1 = r1
  r2 = r2
  h1 = h1
  h2 = h2
  NoRunner = NoRunner
  Jobs = {1, 2}
  Runners = {r1}
  IntentIds = {"a", "b"}
  Handlers = {h1}
  Supports <- MCSupports
  Outcomes = {"FAILED"}
  MaxAttempts = 1
  MaxLeases = 1
SPECIFICATION Spec
SYMMETRY MCSymmetry
INVARIANTS TypeOK OneIntentPerLease
PROPERTIES SealedForever
CHECK_DEADLOCK FALSE
