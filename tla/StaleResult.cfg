\* One job, two runners, two concurrent requests; the session keeps what it read.
CONSTANTS
  r1 = r1
  r2 = r2
  h1 = h1
  h2 = h2
  NoRunner = NoRunner
  Jobs = {1}
  Runners = {r1, r2}
  IntentIds = {"a"}
  Handlers = {h1, h2}
  Supports <- MCSupports
  Outcomes = {"PASSED"}
  MaxAttempts = 2
  MaxLeases = 2
SPECIFICATION Spec
SYMMETRY MCSymmetry
INVARIANT ResultOfLastLease
CHECK_DEADLOCK FALSE
