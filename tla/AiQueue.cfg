\* Two executions and two rows, one or two slots; the engine never answers.
CONSTANTS
  e1 = e1
  e2 = e2
  p1 = p1
  NoExecution = NoExecution
  NoTransaction = "-"
  Executions = {e1, e2}
  Processes = {p1}
  Verdicts = {}
  Transactions = {}
  MaxJobs = 2
  MaxPosts = 1
  ParallelRuns = {0, 2}
  MaxTasks = 1
  MaxFaults = 0
  VideoArgument = TRUE
SPECIFICATION Spec
SYMMETRY MCSymmetry
INVARIANTS TypeOK
PROPERTIES ClaimsWithinLimit
CHECK_DEADLOCK FALSE
