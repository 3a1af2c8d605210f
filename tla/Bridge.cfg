\* Two updates one after the other, two apply requests, one crash.
CONSTANTS
  Transactions = {1, 2}
  MaxSubmits = 2
  MaxFaults = 1
SPECIFICATION FairSpec
INVARIANTS TypeOK IntentBeforeMutation OneUpdateAtATime TerminalIsTrue
PROPERTIES RequestsSettle
CHECK_DEADLOCK FALSE
