\* Two hosts behind a callback-drain gate and a hard one; two faults and two overdue calls.
CONSTANTS
  Participants = {1, 2}
  Gates = {1, 2}
  Drain = {1}
  Sealable = {1}
  QuiesceRank <- MCQuiesceRank
  ActivateRank <- MCActivateRank
  MaxFaults = 2
  MaxLate = 2
SPECIFICATION Spec
INVARIANTS TypeOK OpenMeansServing
PROPERTIES AtomicUpdateSpec SnapshotBarrier AdmittedDataKept ReopenedForGood
CHECK_DEADLOCK FALSE
