\* Two jobs of one run, a worker without claim intents, two concurrent requests.
CONSTANTS
  r1 = r1
  r2 = r2
  h1 = h1
  h2 = h2
  NoRunner = NoRunner
  Jobs = {1, 2}
  Runners = {r1}
  IntentIds = {}
  Handlers = {h1, h2}
  Supports <- MCSupports
  Outcomes = {"FAILED"}
  MaxAttempts = 1
  MaxLeases = 1
SPECIFICATION Spec
SYMMETRY MCSymmetry
INVARIANT VerdictAgrees
PROPERTIES FinishedForever RunClosesComplete
CHECK_DEADLOCK FALSE
