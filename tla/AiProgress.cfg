\* One execution and its row, one process, the engine, one crash, the update host.
CONSTANTS
  e1 = e1
  e2 = e2
  p1 = p1
  NoExecution = NoExecution
  NoTransaction = "-"
  Executions = {e1}
  Processes = {p1}
  Verdicts = {"PASO"}
  Transactions = {"t1"}
  MaxJobs = 1
  MaxPosts = 2
  ParallelRuns = {1}
  MaxTasks = 1
  MaxFaults = 1
  VideoArgument = TRUE
SPECIFICATION FairSpec
INVARIANTS ClosedGateIsIdle PauseOwned
PROPERTIES ExecutionsSettle VerdictKept
CHECK_DEADLOCK FALSE
