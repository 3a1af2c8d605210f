\* One worker, one job, two connections, one fault, one administrative change, one update.
CONSTANTS
  r1 = r1
  r2 = r2
  h1 = h1
  h2 = h2
  NoRunner = NoRunner
  NoHandler = NoHandler
  Jobs = {1}
  Runners = {r1}
  IntentIds = {1, 2, 3, 4}
  Handlers = {h1, h2}
  Supports <- MCSupports
  Outcomes = {"PASSED", "FAILED"}
  MaxAttempts = 2
  MaxLeases = 3
  MaxPosts = 1
  MaxFaults = 1
  MaxAdmin = 1
  MaxUpdates = 1
SPECIFICATION FairSpec
INVARIANTS DispatchTypeOK OneResultPerLease OneDelivery DrainedIsSafe IntentCoversLease
PROPERTIES SpoolSettled JobsFinish IntentsResolve
CHECK_DEADLOCK FALSE
